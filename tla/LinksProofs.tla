----------------------------- MODULE LinksProofs -----------------------------
(***************************************************************************)
(* Theorems about what carries the bus from one agent to another.          *)
(*                                                                         *)
(* Session streams, for any window, number of messages and of keepalives.  *)
(* The invariant looks at one direction at a time (`Direction`): what its  *)
(* writer is at, what the stream carries, and what its reader has had.  At *)
(* its core is that there is a count of the messages carried past each     *)
(* frame of the stream (`Counts`), whose ends are what the reader has and  *)
(* what the writer sent; that frames are numbered without a gap, and only  *)
(* the last may be torn, follows the writer's `intact`.                    *)
(*                                                                         *)
(* The iroh transport, for any peers and connections: envelopes are        *)
(* carried by, and go to, the agent whose key the connection proved.       *)
(***************************************************************************)
EXTENDS BusSession, IrohTransport, FiniteSetTheorems, TLAPS

-------------------------------------------------------------------------------
(* Sessions: the inductive invariant *)

Bodies == {"open", "accept", "refuse", "data", "close", "keepalive"}
Verdicts == {"accept", "refuse"}
Phases == {"none", "opening", "waiting", "deciding", "judging", "refused", "open",
           "leaving", "finishing", "closed", "gone"}

\* The phases of an end that has the session, of a responder before its verdict and of
\* one that has not accepted, of an opener before its answer, and of an end that is past
\* sending.
Established == {"open", "leaving", "finishing", "closed"}
Undecided == {"none", "deciding", "judging"}
Unaccepted == Undecided \union {"refused"}
Unanswered == {"none", "opening", "waiting"}
Left == {"leaving", "finishing", "closed", "gone"}

\* Why a receiver failed, or not.
Ends == {"no", "lost", "refused", "keepalive", "sequence", "garbage", "unexpected"}

Frames == [seq : Int, body : Bodies \union {"torn"}, msg : Nat]

SessionTyped ==
    /\ phase \in [Sides -> Phases]
    /\ holder \in [Sides -> {"free", "app", "keepalive"}]
    /\ body \in [Sides -> Bodies \union {"none"}]
    /\ intact \in [Sides -> BOOLEAN] /\ beating \in [Sides -> BOOLEAN]
    /\ wnext \in [Sides -> Nat] /\ rnext \in [Sides -> Nat]
    /\ pipe \in [Sides -> Seq(Frames)]
    /\ closed \in [Sides -> BOOLEAN] /\ failed \in [Sides -> Ends]
    /\ sent \in [Sides -> Seq(Nat)] /\ got \in [Sides -> Seq(Nat)]

\* A write was abandoned, or the stream was closed: nothing is written any more.
Spoiled(s) == holder[s] = "free" /\ ~intact[s]

\* What is being written agrees with how far the end is.
WritesInPhase(s) ==
    /\ holder[s] # "free" => ~intact[s]
    /\ holder[s] = "free" => body[s] = "none"
    /\ holder[s] = "keepalive" => body[s] = "keepalive"
    /\ holder[s] = "app" =>
         \/ body[s] = "open" /\ phase[s] = "opening"
         \/ body[s] \in Verdicts /\ phase[s] = "judging"
         \/ body[s] = "data" /\ phase[s] = "open"
         \/ body[s] = "close" /\ phase[s] = "leaving"
    /\ phase[s] \in {"opening", "waiting"} => s = "opener"
    /\ phase[s] \in {"deciding", "judging", "refused"} => s = "responder"
    /\ phase[s] = "none" => ~beating[s] /\ wnext[s] = 0 /\ intact[s]
    /\ phase[s] = "opening" => holder[s] = "app" /\ wnext[s] = 0
    /\ phase[s] = "judging" => holder[s] = "app"
    /\ phase[s] \in Established \union {"waiting", "refused"} => wnext[s] # 0
    /\ s = "opener" /\ wnext[s] = 0 /\ intact[s] => ~beating[s]
    /\ s = "opener" /\ holder[s] = "keepalive" => wnext[s] # 0
    /\ body[s] = "accept" => served

\* How many messages a stream p carries past each of its frames, of k that were sent,
\* when its reader has had `had` and reads on from the frame numbered first.  Only the
\* last frame can be torn, and nothing is missing before a goodbye.
Counts(p, c, first, had, k) ==
    /\ c \in [0..Len(p) -> Nat]
    /\ c[0] = had
    /\ \A i \in 0..Len(p) : c[i] <= k
    /\ \A i \in 1..Len(p) :
         /\ p[i] = Torn => i = Len(p) /\ c[i] = c[i - 1]
         /\ p[i] # Torn =>
              /\ p[i].seq = first + i - 1
              /\ p[i].body = "data" => c[i] = c[i - 1] + 1 /\ p[i].msg = c[i]
              /\ p[i].body # "data" => c[i] = c[i - 1]
              /\ p[i].body = "close" => c[i] = k

\* As long as s can write, no frame is torn, the frames are numbered up to the writer's
\* next, and they carry all that was sent but the one being written.
Flowing(s, c) ==
    /\ \A i \in 1..Len(pipe[s]) : pipe[s][i] # Torn
    /\ rnext[Other(s)] + Len(pipe[s]) = wnext[s]
    /\ c[Len(pipe[s])] = Len(sent[s]) - (IF body[s] = "data" THEN 1 ELSE 0)

Carried(s) ==
    \E c : /\ Counts(pipe[s], c, rnext[Other(s)], Len(got[Other(s)]), Len(sent[s]))
           /\ ~Spoiled(s) => Flowing(s, c)

\* The messages are 1, 2, 3... at both ends.
Numbered(s) ==
    /\ \A i \in 1..Len(sent[s]) : sent[s][i] = i
    /\ \A i \in 1..Len(got[Other(s)]) : got[Other(s)][i] = i

\* Who said goodbye sends no more, and who heard it has everything.
GoodbyeIsLast(s) ==
    /\ \A i \in 1..Len(pipe[s]) : pipe[s][i].body = "close" => phase[s] \in Left
    /\ closed[Other(s)] => phase[s] \in Left /\ Len(got[Other(s)]) = Len(sent[s])

\* The frames on a stream are those its writer may send: the opening first and only
\* first, one verdict, and before it nothing but keepalives.
InPlace(s) ==
    \A i \in 1..Len(pipe[s]) : pipe[s][i] # Torn =>
        /\ pipe[s][i].body \in Bodies
        /\ s = "opener" =>
             /\ pipe[s][i].body \notin Verdicts
             /\ pipe[s][i].body = "open" => pipe[s][i].seq = 0
        /\ s = "responder" =>
             /\ pipe[s][i].body # "open"
             /\ pipe[s][i].seq = 0 => pipe[s][i].body \in Verdicts \union {"keepalive"}
             /\ pipe[s][i].body = "accept" => served /\ phase[s] \notin Unaccepted
             /\ pipe[s][i].body \in Verdicts =>
                  /\ phase[s] \notin Undecided
                  /\ \A j \in 1..Len(pipe[s]) : pipe[s][j].body \in Verdicts => i = j

\* One direction of the session: what s writes and the other end reads.
Direction(s) ==
    /\ WritesInPhase(s) /\ Carried(s) /\ Numbered(s) /\ GoodbyeIsLast(s) /\ InPlace(s)

\* An opener that has its session got the one verdict, and that was to accept.
Judged ==
    /\ phase["responder"] = "none" <=> rnext["responder"] = 0
    /\ phase["opener"] \in Unanswered => rnext["opener"] = 0
    /\ phase["opener"] \in Established =>
         /\ served
         /\ rnext["opener"] # 0
         /\ phase["responder"] \notin Unaccepted
         /\ \A i \in 1..Len(pipe["responder"]) : pipe["responder"][i].body \notin Verdicts

SessionInv ==
    /\ SessionTyped
    /\ \A s \in Sides : Direction(s)
    /\ Judged
    /\ NoProtocolError

LEMMA TornFacts == Torn \in Frames /\ Torn.body = "torn" /\ Torn.seq = -1
  BY DEF Torn, Frames

LEMMA OtherFacts ==
    ASSUME NEW s \in Sides
    PROVE  Other(s) \in Sides /\ Other(s) # s /\ Other(Other(s)) = s
  BY DEF Sides, Other

LEMMA SessionInvInit == Init => SessionInv
<1> SUFFICES ASSUME Init PROVE SessionInv
  OBVIOUS
<1>1. SessionTyped
  <2>1. pipe \in [Sides -> Seq(Frames)]
    <3> HIDE DEF Frames
    <3> QED
      BY DEF Init
  <2>2. failed \in [Sides -> Ends] /\ closed \in [Sides -> BOOLEAN]
    BY DEF Init, Ends
  <2>3. sent \in [Sides -> Seq(Nat)] /\ got \in [Sides -> Seq(Nat)]
    BY DEF Init
  <2> QED
    BY <2>1, <2>2, <2>3 DEF Init, SessionTyped, Phases, Bodies
<1>2. ASSUME NEW s \in Sides PROVE Direction(s)
  <2>1. /\ phase[s] = "none" /\ holder[s] = "free" /\ body[s] = "none" /\ intact[s]
        /\ wnext[s] = 0 /\ ~beating[s] /\ pipe[s] = <<>> /\ sent[s] = <<>> /\ got[s] = <<>>
    BY DEF Init
  <2>2. rnext[Other(s)] = 0 /\ got[Other(s)] = <<>> /\ closed[Other(s)] = FALSE
    BY OtherFacts DEF Init
  <2>3. Len(pipe[s]) = 0 /\ Len(sent[s]) = 0 /\ Len(got[s]) = 0 /\ Len(got[Other(s)]) = 0
    BY <2>1, <2>2
  <2>4. WritesInPhase(s)
    BY <2>1 DEF WritesInPhase, Established
  <2>5. Carried(s)
    <3>1. PICK c : c = [i \in 0..0 |-> 0]
      OBVIOUS
    <3>2. Counts(pipe[s], c, 0, 0, 0)
      BY <2>3, <3>1 DEF Counts
    <3>3. Flowing(s, c)
      BY <2>1, <2>2, <2>3, <3>1 DEF Flowing
    <3> QED
      BY <2>2, <2>3, <3>2, <3>3 DEF Carried
  <2>6. Numbered(s) /\ GoodbyeIsLast(s) /\ InPlace(s)
    BY <2>2, <2>3 DEF Numbered, GoodbyeIsLast, InPlace
  <2> QED
    BY <2>4, <2>5, <2>6 DEF Direction
<1>3. Judged
  BY DEF Init, Judged, Sides, Established
<1>4. NoProtocolError
  BY DEF Init, NoProtocolError
<1> QED
  BY <1>1, <1>2, <1>3, <1>4 DEF SessionInv

-------------------------------------------------------------------------------
(* Sessions: what a stream carries *)

\* A whole frame is written.
LEMMA CountsAppend ==
    ASSUME NEW p \in Seq(Frames), NEW f \in Frames, NEW c, NEW first \in Nat, NEW had,
           NEW k \in Nat, Counts(p, c, first, had, k),
           \A i \in 1..Len(p) : p[i] # Torn,
           f # Torn, f.seq = first + Len(p),
           c[Len(p)] = k - (IF f.body = "data" THEN 1 ELSE 0),
           f.body = "data" => f.msg = k
    PROVE  \E d : Counts(Append(p, f), d, first, had, k) /\ d[Len(p) + 1] = k
<1>1. PICK n \in Nat : n = Len(p)
  OBVIOUS
<1>2. PICK q : q = Append(p, f)
  OBVIOUS
<1>3. Len(q) = n + 1 /\ q[n + 1] = f /\ \A i \in 1..n : q[i] = p[i]
  <2> HIDE DEF Frames
  <2> QED
    BY <1>1, <1>2
<1>4. PICK d : d = [i \in 0..(n + 1) |-> IF i = n + 1 THEN k ELSE c[i]]
  OBVIOUS
<1>5. /\ c \in [0..n -> Nat] /\ c[0] = had /\ \A i \in 0..n : c[i] <= k
  BY <1>1 DEF Counts
<1>6. d \in [0..(n + 1) -> Nat] /\ d[n + 1] = k /\ \A i \in 0..n : d[i] = c[i]
  BY <1>4, <1>5
<1>7. d[0] = had /\ \A i \in 0..(n + 1) : d[i] <= k
  <2>1. d[0] = had /\ d[n + 1] <= k
    BY <1>5, <1>6
  <2>2. ASSUME NEW i \in 0..(n + 1) PROVE d[i] <= k
    <3>1. i \in 0..n \/ i = n + 1
      OBVIOUS
    <3> QED
      BY <1>5, <1>6, <2>1, <3>1
  <2> QED
    BY <2>1, <2>2
<1>8. ASSUME NEW i \in 1..(n + 1)
      PROVE  /\ q[i] = Torn => i = Len(q) /\ d[i] = d[i - 1]
             /\ q[i] # Torn =>
                  /\ q[i].seq = first + i - 1
                  /\ q[i].body = "data" => d[i] = d[i - 1] + 1 /\ q[i].msg = d[i]
                  /\ q[i].body # "data" => d[i] = d[i - 1]
                  /\ q[i].body = "close" => d[i] = k
  <2>1. CASE i = n + 1
    <3>1. d[i] = k /\ d[i - 1] = c[n] /\ q[i] = f
      BY <1>3, <1>6, <2>1
    <3>2. c[n] \in Nat
      BY <1>5
    <3> QED
      BY <1>1, <2>1, <3>1, <3>2
  <2>2. CASE i # n + 1
    <3>1. i \in 1..n /\ i - 1 \in 0..n /\ i \in 0..n
      BY <2>2
    <3>2. d[i] = c[i] /\ d[i - 1] = c[i - 1] /\ q[i] = p[i] /\ p[i] # Torn
      BY <1>1, <1>3, <1>6, <3>1
    <3> QED
      BY <1>1, <3>1, <3>2 DEF Counts
  <2> QED
    BY <2>1, <2>2
<1>9. Counts(q, d, first, had, k)
  BY <1>3, <1>6, <1>7, <1>8 DEF Counts
<1> QED
  BY <1>1, <1>2, <1>6, <1>9

\* A part of a frame is left behind.
LEMMA CountsTorn ==
    ASSUME NEW p \in Seq(Frames), NEW c, NEW first \in Nat, NEW had,
           NEW k \in Nat, Counts(p, c, first, had, k),
           \A i \in 1..Len(p) : p[i] # Torn
    PROVE  \E d : Counts(Append(p, Torn), d, first, had, k)
<1>1. PICK n \in Nat : n = Len(p)
  OBVIOUS
<1>2. PICK q : q = Append(p, Torn)
  OBVIOUS
<1>3. Len(q) = n + 1 /\ q[n + 1] = Torn /\ \A i \in 1..n : q[i] = p[i]
  <2> HIDE DEF Frames
  <2> QED
    BY <1>1, <1>2, TornFacts
<1>4. PICK d : d = [i \in 0..(n + 1) |-> IF i = n + 1 THEN c[n] ELSE c[i]]
  OBVIOUS
<1>5. /\ c \in [0..n -> Nat] /\ c[0] = had /\ \A i \in 0..n : c[i] <= k
  BY <1>1 DEF Counts
<1>6. /\ d \in [0..(n + 1) -> Nat] /\ d[n + 1] = c[n] /\ \A i \in 0..n : d[i] = c[i]
  BY <1>4, <1>5
<1>7. d[0] = had /\ \A i \in 0..(n + 1) : d[i] <= k
  <2>1. d[0] = had /\ d[n + 1] <= k
    BY <1>5, <1>6
  <2>2. ASSUME NEW i \in 0..(n + 1) PROVE d[i] <= k
    <3>1. i \in 0..n \/ i = n + 1
      OBVIOUS
    <3> QED
      BY <1>5, <1>6, <2>1, <3>1
  <2> QED
    BY <2>1, <2>2
<1>8. ASSUME NEW i \in 1..(n + 1)
      PROVE  /\ q[i] = Torn => i = Len(q) /\ d[i] = d[i - 1]
             /\ q[i] # Torn =>
                  /\ q[i].seq = first + i - 1
                  /\ q[i].body = "data" => d[i] = d[i - 1] + 1 /\ q[i].msg = d[i]
                  /\ q[i].body # "data" => d[i] = d[i - 1]
                  /\ q[i].body = "close" => d[i] = k
  <2>1. CASE i = n + 1
    BY <1>3, <1>6, <2>1
  <2>2. CASE i # n + 1
    <3>1. i \in 1..n /\ i - 1 \in 0..n /\ i \in 0..n
      BY <2>2
    <3>2. d[i] = c[i] /\ d[i - 1] = c[i - 1] /\ q[i] = p[i] /\ p[i] # Torn
      BY <1>1, <1>3, <1>6, <3>1
    <3> QED
      BY <1>1, <3>1, <3>2 DEF Counts
  <2> QED
    BY <2>1, <2>2
<1>9. Counts(q, d, first, had, k)
  BY <1>3, <1>6, <1>7, <1>8 DEF Counts
<1> QED
  BY <1>2, <1>9

\* A frame is read.
LEMMA CountsTail ==
    ASSUME NEW p \in Seq(Frames), NEW c, NEW first \in Nat, NEW had,
           NEW k \in Nat, Counts(p, c, first, had, k), p # <<>>, p[1] # Torn
    PROVE  \E d : /\ Counts(Tail(p), d, first + 1, c[1], k)
                  /\ d[Len(Tail(p))] = c[Len(p)]
<1>1. PICK n \in Nat : n = Len(p) - 1 /\ Len(p) = n + 1
  BY SMT
<1>2. PICK q : q = Tail(p)
  OBVIOUS
<1>3. Len(q) = n /\ \A i \in 1..n : q[i] = p[i + 1]
  <2> HIDE DEF Frames
  <2> QED
    BY <1>1, <1>2
<1>4. PICK d : d = [i \in 0..n |-> c[i + 1]]
  OBVIOUS
<1>5. /\ c \in [0..(n + 1) -> Nat] /\ \A i \in 0..(n + 1) : c[i] <= k
  BY <1>1 DEF Counts
<1>6. /\ d \in [0..n -> Nat] /\ \A i \in 0..n : d[i] = c[i + 1]
  BY <1>4, <1>5
<1>7. d[0] = c[1] /\ d[n] = c[n + 1] /\ \A i \in 0..n : d[i] <= k
  BY <1>5, <1>6
<1>8. ASSUME NEW i \in 1..n
      PROVE  /\ q[i] = Torn => i = Len(q) /\ d[i] = d[i - 1]
             /\ q[i] # Torn =>
                  /\ q[i].seq = (first + 1) + i - 1
                  /\ q[i].body = "data" => d[i] = d[i - 1] + 1 /\ q[i].msg = d[i]
                  /\ q[i].body # "data" => d[i] = d[i - 1]
                  /\ q[i].body = "close" => d[i] = k
  <2>1. i + 1 \in 1..Len(p) /\ i \in 0..n /\ i - 1 \in 0..n
    BY <1>1
  <2>2. d[i] = c[i + 1] /\ d[i - 1] = c[(i + 1) - 1] /\ q[i] = p[i + 1]
    BY <1>3, <1>6, <2>1
  <2>3. /\ p[i + 1] = Torn => i + 1 = Len(p) /\ c[i + 1] = c[(i + 1) - 1]
        /\ p[i + 1] # Torn =>
             /\ p[i + 1].seq = first + (i + 1) - 1
             /\ p[i + 1].body = "data" => c[i + 1] = c[(i + 1) - 1] + 1 /\ p[i + 1].msg = c[i + 1]
             /\ p[i + 1].body # "data" => c[i + 1] = c[(i + 1) - 1]
             /\ p[i + 1].body = "close" => c[i + 1] = k
    BY <2>1 DEF Counts
  <2> QED
    BY <1>1, <1>3, <2>2, <2>3
<1>9. Counts(q, d, first + 1, c[1], k)
  BY <1>3, <1>6, <1>7, <1>8 DEF Counts
<1> QED
  BY <1>1, <1>2, <1>3, <1>7, <1>9

\* One more message is sent, before any goodbye.
LEMMA CountsMore ==
    ASSUME NEW p \in Seq(Frames), NEW c, NEW first \in Nat, NEW had,
           NEW k \in Nat, Counts(p, c, first, had, k),
           \A i \in 1..Len(p) : p[i].body # "close"
    PROVE  Counts(p, c, first, had, k + 1)
<1>1. PICK n \in Nat : n = Len(p)
  OBVIOUS
<1>2. c \in [0..n -> Nat] /\ c[0] = had /\ \A i \in 0..n : c[i] <= k
  BY <1>1 DEF Counts
<1>3. \A i \in 0..n : c[i] <= k + 1
  <2> SUFFICES ASSUME NEW i \in 0..n PROVE c[i] <= k + 1
    OBVIOUS
  <2>1. c[i] \in Nat /\ c[i] <= k
    BY <1>2
  <2> QED
    BY <2>1
<1> QED
  BY <1>1, <1>2, <1>3 DEF Counts

-------------------------------------------------------------------------------
(* Sessions: a step of the writer *)

\* What the write of s does to its stream: nothing, with the writer still in order or
\* never used again; a part of its frame; or the whole of it.
Keeps(s) ==
    /\ pipe'[s] = pipe[s]
    /\ \/ Spoiled(s)'
       \/ ~Spoiled(s) /\ wnext'[s] = wnext[s] /\ (body'[s] = "data" <=> body[s] = "data")
Tears(s) ==
    /\ holder[s] # "free" /\ Spoiled(s)'
    /\ pipe'[s] = Append(pipe[s], Torn)
Puts(s) ==
    /\ holder[s] # "free"
    /\ pipe'[s] = Append(pipe[s], FrameOf(s, wnext[s], body[s]))
    /\ Spoiled(s)' \/ (wnext'[s] = wnext[s] + 1 /\ body'[s] = "none")
    /\ body[s] = "close" => phase'[s] \in Left
    /\ body[s] \in Verdicts => phase'[s] \notin Undecided
    /\ body[s] = "accept" => phase'[s] \notin Unaccepted

\* What s never takes back: its goodbye and its verdict.
KeepsWord(s) ==
    /\ phase[s] \in Left => phase'[s] \in Left
    /\ phase[s] \notin Undecided => phase'[s] \notin Undecided
    /\ phase[s] \notin Unaccepted => phase'[s] \notin Unaccepted

\* Nor does it get a session by what it does itself.
Moves(s) ==
    /\ KeepsWord(s)
    /\ s = "responder" => (phase'[s] = "none" <=> phase[s] = "none")
    /\ s = "opener" => /\ phase'[s] \in Unanswered => phase[s] \in Unanswered
                       /\ phase'[s] \in Established => phase[s] \in Established

ReaderSame(s) == rnext'[s] = rnext[s] /\ closed'[s] = closed[s] /\ got'[s] = got[s]

WriterSame(s) ==
    /\ phase'[s] = phase[s] /\ holder'[s] = holder[s] /\ body'[s] = body[s]
    /\ intact'[s] = intact[s] /\ wnext'[s] = wnext[s] /\ beating'[s] = beating[s]
    /\ sent'[s] = sent[s]

\* The types of one end and its stream.
LEMMA SideTypes ==
    ASSUME SessionTyped, NEW s \in Sides
    PROVE  /\ phase[s] \in Phases /\ holder[s] \in {"free", "app", "keepalive"}
           /\ body[s] \in Bodies \union {"none"}
           /\ intact[s] \in BOOLEAN /\ beating[s] \in BOOLEAN
           /\ wnext[s] \in Nat /\ rnext[s] \in Nat
           /\ pipe[s] \in Seq(Frames) /\ Len(pipe[s]) \in Nat
           /\ \A i \in 1..Len(pipe[s]) : pipe[s][i] \in Frames
           /\ sent[s] \in Seq(Nat) /\ Len(sent[s]) \in Nat
           /\ got[s] \in Seq(Nat) /\ Len(got[s]) \in Nat
           /\ closed[s] \in BOOLEAN /\ failed[s] \in Ends
<1> HIDE DEF Frames, Phases, Bodies, Ends
<1>1. pipe[s] \in Seq(Frames) /\ sent[s] \in Seq(Nat) /\ got[s] \in Seq(Nat)
  BY DEF SessionTyped
<1>2. Len(pipe[s]) \in Nat /\ \A i \in 1..Len(pipe[s]) : pipe[s][i] \in Frames
  BY <1>1
<1> QED
  BY <1>1, <1>2 DEF SessionTyped

\* The frame that is being written.
LEMMA FrameFacts ==
    ASSUME SessionTyped, NEW s \in Sides, WritesInPhase(s), holder[s] # "free"
    PROVE  /\ FrameOf(s, wnext[s], body[s]) \in Frames
           /\ FrameOf(s, wnext[s], body[s]) # Torn
           /\ FrameOf(s, wnext[s], body[s]).seq = wnext[s]
           /\ FrameOf(s, wnext[s], body[s]).body = body[s]
           /\ body[s] = "data" => FrameOf(s, wnext[s], body[s]).msg = Len(sent[s])
<1>1. /\ wnext[s] \in Nat /\ Len(sent[s]) \in Nat /\ body[s] \in Bodies \union {"none"}
      /\ holder[s] \in {"free", "app", "keepalive"}
  BY SideTypes
<1>2. body[s] \in Bodies
  BY <1>1 DEF WritesInPhase, Verdicts, Bodies
<1>3. FrameOf(s, wnext[s], body[s]).seq = wnext[s]
  BY DEF FrameOf
<1> QED
  BY <1>1, <1>2, <1>3, TornFacts DEF FrameOf, Frames

LEMMA CarriedKept ==
    ASSUME SessionTyped, NEW s \in Sides, Carried(s), WritesInPhase(s),
           ReaderSame(Other(s)), sent'[s] = sent[s], Keeps(s) \/ Tears(s) \/ Puts(s)
    PROVE  Carried(s)'
<1>1. PICK p \in Seq(Frames), n \in Nat, first \in Nat, had \in Nat, k \in Nat :
          /\ p = pipe[s] /\ n = Len(pipe[s]) /\ first = rnext[Other(s)]
          /\ had = Len(got[Other(s)]) /\ k = Len(sent[s])
  <2> HIDE DEF Frames
  <2>1. Other(s) \in Sides
    BY OtherFacts
  <2> QED
    BY <2>1, SideTypes
<1>2. p \in Seq(Frames) /\ n = Len(p) /\ wnext[s] \in Nat
  BY <1>1, SideTypes
<1>3. first = rnext'[Other(s)] /\ had = Len(got'[Other(s)]) /\ k = Len(sent'[s])
  BY <1>1 DEF ReaderSame
<1>4. PICK c : Counts(p, c, first, had, k) /\ (~Spoiled(s) => Flowing(s, c))
  BY <1>1 DEF Carried
<1>5. CASE Keeps(s)
  <2>1. pipe'[s] = p
    BY <1>1, <1>5 DEF Keeps
  <2>2. Counts(pipe'[s], c, rnext'[Other(s)], Len(got'[Other(s)]), Len(sent'[s]))
    BY <1>3, <1>4, <2>1
  <2>3. (~Spoiled(s) => Flowing(s, c))'
    <3> SUFFICES ASSUME ~Spoiled(s)' PROVE Flowing(s, c)'
      OBVIOUS
    <3>1. Flowing(s, c) /\ wnext'[s] = wnext[s] /\ (body'[s] = "data" <=> body[s] = "data")
      BY <1>4, <1>5 DEF Keeps
    <3> QED
      BY <1>1, <1>3, <2>1, <3>1 DEF Flowing
  <2> QED
    BY <2>2, <2>3 DEF Carried
<1>6. CASE Tears(s)
  <2>1. ~Spoiled(s) /\ Spoiled(s)' /\ pipe'[s] = Append(p, Torn)
    BY <1>1, <1>6 DEF Tears, Spoiled
  <2>2. \A i \in 1..Len(p) : p[i] # Torn
    BY <1>1, <1>4, <2>1 DEF Flowing
  <2>3. PICK d : Counts(Append(p, Torn), d, first, had, k)
    BY <1>2, <1>4, <2>2, CountsTorn
  <2> QED
    BY <1>3, <2>1, <2>3 DEF Carried
<1>7. CASE Puts(s)
  <2>1. PICK f : f = FrameOf(s, wnext[s], body[s])
    OBVIOUS
  <2>2. /\ f \in Frames /\ f # Torn /\ f.seq = wnext[s] /\ f.body = body[s]
        /\ body[s] = "data" => f.msg = k
    BY <1>1, <1>7, <2>1, FrameFacts DEF Puts
  <2>3. ~Spoiled(s) /\ pipe'[s] = Append(p, f)
    BY <1>1, <1>7, <2>1 DEF Puts, Spoiled
  <2>4. /\ \A i \in 1..Len(p) : p[i] # Torn
        /\ first + n = wnext[s]
        /\ c[n] = k - (IF body[s] = "data" THEN 1 ELSE 0)
    BY <1>1, <1>4, <2>3 DEF Flowing
  <2>5. f.seq = first + Len(p) /\ c[Len(p)] = k - (IF f.body = "data" THEN 1 ELSE 0)
    BY <1>2, <2>2, <2>4
  <2>6. PICK d : Counts(Append(p, f), d, first, had, k) /\ d[Len(p) + 1] = k
    <3> HIDE DEF Frames
    <3> QED
      BY <1>2, <1>4, <2>2, <2>4, <2>5, CountsAppend
  <2>7. /\ Len(pipe'[s]) = n + 1 /\ pipe'[s][n + 1] = f
        /\ \A i \in 1..n : pipe'[s][i] = p[i]
    <3> HIDE DEF Frames
    <3> QED
      BY <1>2, <2>2, <2>3
  <2>8. (~Spoiled(s) => Flowing(s, d))'
    <3> SUFFICES ASSUME ~Spoiled(s)' PROVE Flowing(s, d)'
      OBVIOUS
    <3>1. wnext'[s] = wnext[s] + 1 /\ body'[s] = "none"
      BY <1>7 DEF Puts
    <3>2. ASSUME NEW i \in 1..(n + 1) PROVE pipe'[s][i] # Torn
      BY <1>2, <2>2, <2>4, <2>7
    <3>3. rnext'[Other(s)] + Len(pipe'[s]) = wnext'[s]
      <4>1. rnext'[Other(s)] + Len(pipe'[s]) = first + (n + 1)
        BY <1>3, <2>7
      <4>2. wnext'[s] = first + n + 1
        BY <2>4, <3>1
      <4> QED
        BY <4>1, <4>2
    <3> QED
      BY <1>2, <1>3, <2>6, <2>7, <3>1, <3>2, <3>3 DEF Flowing
  <2> QED
    BY <1>3, <2>3, <2>6, <2>8 DEF Carried
<1> QED
  BY <1>5, <1>6, <1>7

LEMMA PlacesKept ==
    ASSUME SessionTyped, NEW s \in Sides, Direction(s), ReaderSame(Other(s)),
           served' = served, sent'[s] = sent[s], KeepsWord(s), Keeps(s) \/ Tears(s) \/ Puts(s)
    PROVE  (Numbered(s) /\ GoodbyeIsLast(s) /\ InPlace(s))'
<1>0. WritesInPhase(s) /\ Numbered(s) /\ GoodbyeIsLast(s) /\ InPlace(s)
  BY DEF Direction
<1>1. Numbered(s)'
  BY <1>0 DEF Numbered, ReaderSame
<1>2. (closed[Other(s)] => phase[s] \in Left /\ Len(got[Other(s)]) = Len(sent[s]))'
  BY <1>0 DEF GoodbyeIsLast, ReaderSame, KeepsWord
<1>3. PICK n \in Nat : n = Len(pipe[s])
  BY SideTypes
<1>4. CASE Keeps(s)
  <2>1. pipe'[s] = pipe[s]
    BY <1>4 DEF Keeps
  <2>2. GoodbyeIsLast(s)'
    BY <1>0, <1>2, <2>1 DEF GoodbyeIsLast, KeepsWord
  <2>3. InPlace(s)'
    BY <1>0, <2>1 DEF InPlace, KeepsWord
  <2> QED
    BY <1>1, <2>2, <2>3
<1>5. ASSUME NEW f \in Frames, pipe'[s] = Append(pipe[s], f),
             f = Torn \/ (f = FrameOf(s, wnext[s], body[s]) /\ Puts(s))
      PROVE  (GoodbyeIsLast(s) /\ InPlace(s))'
  <2>1. pipe[s] \in Seq(Frames)
    BY SideTypes
  <2>2. /\ Len(pipe'[s]) = n + 1 /\ pipe'[s][n + 1] = f
        /\ \A i \in 1..n : pipe'[s][i] = pipe[s][i]
    <3> HIDE DEF Frames
    <3> QED
      BY <1>3, <1>5, <2>1
  <2>3. \A i \in 1..(n + 1) : i = n + 1 \/ i \in 1..n
    BY <1>3
  <2>4. CASE f = Torn
    <3>1. f.body = "torn"
      BY <2>4, TornFacts
    <3>2. GoodbyeIsLast(s)'
      BY <1>0, <1>2, <1>3, <2>2, <2>3, <3>1 DEF GoodbyeIsLast, KeepsWord
    <3>3. InPlace(s)'
      BY <1>0, <1>3, <2>2, <2>3, <2>4, <3>1 DEF InPlace, KeepsWord, Verdicts
    <3> QED
      BY <3>2, <3>3
  <2>5. CASE f = FrameOf(s, wnext[s], body[s]) /\ Puts(s)
    <3>1. f.seq = wnext[s] /\ f.body = body[s] /\ f # Torn /\ holder[s] # "free"
      BY <1>0, <2>5, FrameFacts DEF Puts
    <3>2. GoodbyeIsLast(s)'
      BY <1>0, <1>2, <1>3, <2>2, <2>3, <2>5, <3>1 DEF GoodbyeIsLast, KeepsWord, Puts
    <3>3. /\ wnext[s] \in Nat /\ phase[s] \in Phases
          /\ holder[s] \in {"free", "app", "keepalive"} /\ body[s] \in Bodies \union {"none"}
      BY SideTypes
    <3>4. ASSUME s = "opener" PROVE InPlace(s)'
      <4>1. /\ body[s] \notin Verdicts /\ (body[s] = "open" => wnext[s] = 0)
            /\ body[s] \in Bodies
        BY <1>0, <3>1, <3>3, <3>4 DEF WritesInPhase, Verdicts, Bodies
      <4> QED
        BY <1>0, <1>3, <2>2, <2>3, <3>1, <3>4, <4>1 DEF InPlace
    <3>5. ASSUME s = "responder" PROVE InPlace(s)'
      <4>1. /\ body[s] # "open" /\ body[s] \in Bodies
            /\ wnext[s] = 0 => body[s] \in Verdicts \union {"keepalive"}
            /\ body[s] = "accept" => served /\ phase'[s] \notin Unaccepted
            /\ body[s] \in Verdicts => phase[s] \in Undecided /\ phase'[s] \notin Undecided
        BY <1>0, <2>5, <3>1, <3>3, <3>5
           DEF WritesInPhase, Verdicts, Established, Undecided, Puts, Bodies
      <4>2. ASSUME NEW i \in 1..(n + 1), pipe'[s][i] # Torn
            PROVE  /\ pipe'[s][i].body # "open" /\ pipe'[s][i].body \in Bodies
                   /\ pipe'[s][i].seq = 0 =>
                        pipe'[s][i].body \in Verdicts \union {"keepalive"}
                   /\ pipe'[s][i].body = "accept" => served' /\ phase'[s] \notin Unaccepted
        BY <1>0, <1>3, <2>2, <2>3, <3>1, <3>5, <4>1, <4>2 DEF InPlace, KeepsWord
      <4>3. ASSUME NEW i \in 1..(n + 1), pipe'[s][i] # Torn,
                   pipe'[s][i].body \in Verdicts
            PROVE  /\ phase'[s] \notin Undecided
                   /\ \A j \in 1..(n + 1) : pipe'[s][j].body \in Verdicts => i = j
        <5>0. \A j \in 1..n : pipe[s][j] = Torn => pipe[s][j].body \notin Verdicts
          BY TornFacts DEF Verdicts
        <5>1. CASE body[s] \in Verdicts
          <6>1. \A j \in 1..n : pipe[s][j].body \notin Verdicts
            BY <1>0, <1>3, <3>5, <4>1, <5>0, <5>1 DEF InPlace
          <6> QED
            BY <1>3, <2>2, <2>3, <4>1, <5>1, <6>1, <4>3
        <5>2. CASE body[s] \notin Verdicts
          <6>1. i \in 1..n /\ pipe'[s][i] = pipe[s][i]
            BY <2>2, <2>3, <3>1, <4>3, <5>2
          <6>2. /\ phase[s] \notin Undecided
                /\ \A j \in 1..n : pipe[s][j].body \in Verdicts => i = j
            BY <1>0, <1>3, <3>5, <4>3, <6>1 DEF InPlace
          <6> QED
            BY <2>2, <2>3, <3>1, <5>2, <6>2 DEF KeepsWord
        <5> QED
          BY <5>1, <5>2
      <4> QED
        BY <2>2, <3>5, <4>2, <4>3 DEF InPlace
    <3> QED
      BY <3>2, <3>4, <3>5 DEF Sides
  <2> QED
    BY <1>5, <2>4, <2>5
<1>6. CASE Tears(s)
  BY <1>1, <1>5, <1>6, TornFacts DEF Tears
<1>7. CASE Puts(s)
  <2>1. FrameOf(s, wnext[s], body[s]) \in Frames
    BY <1>0, <1>7, FrameFacts DEF Puts
  <2> QED
    BY <1>1, <1>5, <1>7, <2>1 DEF Puts
<1> QED
  BY <1>4, <1>6, <1>7

LEMMA JudgedKept ==
    ASSUME SessionTyped, Judged, NEW s \in Sides, WritesInPhase(s), Moves(s),
           rnext' = rnext, served' = served, phase'[Other(s)] = phase[Other(s)],
           pipe'[Other(s)] = pipe[Other(s)], Keeps(s) \/ Tears(s) \/ Puts(s)
    PROVE  Judged'
<1>1. CASE s = "opener"
  <2>1. /\ phase'["responder"] = phase["responder"] /\ pipe'["responder"] = pipe["responder"]
    BY <1>1 DEF Other
  <2>2. /\ phase'["opener"] \in Unanswered => phase["opener"] \in Unanswered
        /\ phase'["opener"] \in Established => phase["opener"] \in Established
    BY <1>1 DEF Moves
  <2> QED
    BY <2>1, <2>2 DEF Judged
<1>2. CASE s = "responder"
  <2>1. /\ phase'["opener"] = phase["opener"]
        /\ phase'["responder"] = "none" <=> phase["responder"] = "none"
        /\ phase["responder"] \notin Unaccepted => phase'["responder"] \notin Unaccepted
    BY <1>2 DEF Other, Moves, KeepsWord
  <2>2. ASSUME phase["opener"] \in Established,
               NEW i \in 1..Len(pipe'[s])
        PROVE  pipe'[s][i].body \notin Verdicts
    <3>1. /\ phase[s] \notin Undecided
          /\ \A j \in 1..Len(pipe[s]) : pipe[s][j].body \notin Verdicts
      BY <1>2, <2>2 DEF Judged, Unaccepted
    <3>2. ASSUME NEW f \in Frames, pipe'[s] = Append(pipe[s], f), f.body \notin Verdicts
          PROVE  pipe'[s][i].body \notin Verdicts
      <4>1. pipe[s] \in Seq(Frames)
        BY SideTypes
      <4>2. PICK n \in Nat : n = Len(pipe[s])
        BY SideTypes
      <4>3. /\ Len(pipe'[s]) = n + 1 /\ pipe'[s][n + 1] = f
            /\ \A j \in 1..n : pipe'[s][j] = pipe[s][j]
        <5> HIDE DEF Frames
        <5> QED
          BY <3>2, <4>1, <4>2
      <4>4. i = n + 1 \/ i \in 1..n
        BY <4>2, <4>3
      <4> QED
        BY <3>1, <3>2, <4>2, <4>3, <4>4
    <3>3. CASE Keeps(s)
      BY <3>1, <3>3 DEF Keeps
    <3>4. CASE Tears(s)
      BY <3>2, <3>4, TornFacts DEF Tears, Verdicts
    <3>5. CASE Puts(s)
      <4>1. /\ FrameOf(s, wnext[s], body[s]) \in Frames
            /\ FrameOf(s, wnext[s], body[s]).body = body[s]
        BY <3>5, FrameFacts DEF Puts
      <4>2. body[s] \notin Verdicts
        <5>1. holder[s] \in {"app", "keepalive"}
          BY <3>5, SideTypes DEF Puts
        <5> QED
          BY <3>1, <5>1 DEF WritesInPhase, Undecided, Verdicts
      <4> QED
        BY <3>2, <3>5, <4>1, <4>2 DEF Puts
    <3> QED
      BY <3>3, <3>4, <3>5
  <2> QED
    BY <1>2, <2>1, <2>2 DEF Judged
<1> QED
  BY <1>1, <1>2 DEF Sides

\* A direction in which nothing is written or read.
LEMMA DirectionSame ==
    ASSUME NEW s \in Sides, Direction(s), WriterSame(s), ReaderSame(Other(s)),
           pipe'[s] = pipe[s], served' = served
    PROVE  Direction(s)'
<1>1. WritesInPhase(s)'
  BY DEF Direction, WritesInPhase, WriterSame
<1>2. Carried(s)'
  <2>1. PICK c : /\ Counts(pipe[s], c, rnext[Other(s)], Len(got[Other(s)]), Len(sent[s]))
                 /\ ~Spoiled(s) => Flowing(s, c)
    BY DEF Direction, Carried
  <2>2. (~Spoiled(s) => Flowing(s, c))'
    BY <2>1 DEF Spoiled, Flowing, WriterSame, ReaderSame
  <2>3. Counts(pipe'[s], c, rnext'[Other(s)], Len(got'[Other(s)]), Len(sent'[s]))
    BY <2>1 DEF WriterSame, ReaderSame
  <2> QED
    BY <2>2, <2>3 DEF Carried
<1>3. (Numbered(s) /\ GoodbyeIsLast(s) /\ InPlace(s))'
  BY DEF Direction, Numbered, GoodbyeIsLast, InPlace, WriterSame, ReaderSame
<1> QED
  BY <1>1, <1>2, <1>3 DEF Direction

\* A step in which only s writes, or ends, and nobody reads a frame.
LEMMA SideStep ==
    ASSUME SessionInv, NEW s \in Sides, SessionTyped', WritesInPhase(s)',
           served' = served, rnext' = rnext, closed' = closed, got' = got, sent' = sent,
           WriterSame(Other(s)), pipe'[Other(s)] = pipe[Other(s)],
           failed' = failed \/ failed' = [failed EXCEPT ![s] = "lost"],
           Moves(s), Keeps(s) \/ Tears(s) \/ Puts(s)
    PROVE  SessionInv'
<1>0. /\ SessionTyped /\ Direction(s) /\ Direction(Other(s)) /\ Judged /\ NoProtocolError
      /\ WritesInPhase(s)
  BY OtherFacts DEF SessionInv, Direction
<1>1. ReaderSame(s) /\ ReaderSame(Other(s))
  BY DEF ReaderSame
<1>2. Direction(s)'
  <2>1. Carried(s)'
    BY <1>0, <1>1, CarriedKept DEF Direction
  <2>2. (Numbered(s) /\ GoodbyeIsLast(s) /\ InPlace(s))'
    BY <1>0, <1>1, PlacesKept DEF Moves
  <2> QED
    BY <2>1, <2>2 DEF Direction
<1>3. Direction(Other(s))'
  BY <1>0, <1>1, OtherFacts, DirectionSame
<1>4. Judged'
  BY <1>0, JudgedKept DEF WriterSame
<1>5. NoProtocolError'
  BY <1>0 DEF NoProtocolError, SessionTyped
<1>6. \A x \in Sides : x = s \/ x = Other(s)
  BY DEF Sides, Other
<1> QED
  BY <1>2, <1>3, <1>4, <1>5, <1>6 DEF SessionInv

-------------------------------------------------------------------------------
(* Sessions: the actions of a writer *)

\* The end s becomes this, and nothing else of the session changes.
Becomes(s, ph, ho, bo, it, wn, be, pi) ==
    /\ phase' = [phase EXCEPT ![s] = ph]
    /\ holder' = [holder EXCEPT ![s] = ho] /\ body' = [body EXCEPT ![s] = bo]
    /\ intact' = [intact EXCEPT ![s] = it] /\ wnext' = [wnext EXCEPT ![s] = wn]
    /\ beating' = [beating EXCEPT ![s] = be] /\ pipe' = [pipe EXCEPT ![s] = pi]
    /\ served' = served /\ rnext' = rnext /\ closed' = closed /\ got' = got

Now(s, ph, ho, bo, it, wn, be, pi) ==
    /\ phase'[s] = ph /\ holder'[s] = ho /\ body'[s] = bo /\ intact'[s] = it
    /\ wnext'[s] = wn /\ beating'[s] = be /\ pipe'[s] = pi
    /\ WriterSame(Other(s)) /\ pipe'[Other(s)] = pipe[Other(s)]

LEMMA BecomesFacts ==
    ASSUME SessionTyped, NEW s \in Sides, NEW ph \in Phases,
           NEW ho \in {"free", "app", "keepalive"}, NEW bo \in Bodies \union {"none"},
           NEW it \in BOOLEAN, NEW wn \in Nat, NEW be \in BOOLEAN, NEW pi \in Seq(Frames),
           Becomes(s, ph, ho, bo, it, wn, be, pi), sent' = sent,
           failed' = failed \/ failed' = [failed EXCEPT ![s] = "lost"]
    PROVE  SessionTyped' /\ Now(s, ph, ho, bo, it, wn, be, pi)
<1>1. Other(s) \in Sides /\ Other(s) # s
  BY OtherFacts
<1>2. /\ pipe' \in [Sides -> Seq(Frames)] /\ pipe'[s] = pi
      /\ pipe'[Other(s)] = pipe[Other(s)]
  <2> HIDE DEF Frames
  <2> QED
    BY <1>1 DEF SessionTyped, Becomes
<1>3. /\ phase' \in [Sides -> Phases] /\ holder' \in [Sides -> {"free", "app", "keepalive"}]
      /\ body' \in [Sides -> Bodies \union {"none"}]
  <2> HIDE DEF Phases, Bodies
  <2> QED
    BY DEF SessionTyped, Becomes
<1>4. /\ intact' \in [Sides -> BOOLEAN] /\ beating' \in [Sides -> BOOLEAN]
      /\ wnext' \in [Sides -> Nat]
  BY DEF SessionTyped, Becomes
<1>5. failed' \in [Sides -> Ends]
  BY DEF SessionTyped, Ends
<1>6. SessionTyped'
  BY <1>2, <1>3, <1>4, <1>5 DEF SessionTyped, Becomes
<1>7. /\ phase'[s] = ph /\ holder'[s] = ho /\ body'[s] = bo /\ intact'[s] = it
      /\ wnext'[s] = wn /\ beating'[s] = be
  BY DEF SessionTyped, Becomes
<1>8. WriterSame(Other(s))
  BY <1>1 DEF SessionTyped, Becomes, WriterSame
<1> QED
  BY <1>2, <1>6, <1>7, <1>8 DEF Now

\* A step with which nothing changes is one, too.
LEMMA SameIsExcept ==
    ASSUME SessionTyped, NEW s \in Sides
    PROVE  /\ phase = [phase EXCEPT ![s] = phase[s]] /\ holder = [holder EXCEPT ![s] = holder[s]]
           /\ body = [body EXCEPT ![s] = body[s]] /\ intact = [intact EXCEPT ![s] = intact[s]]
           /\ wnext = [wnext EXCEPT ![s] = wnext[s]]
           /\ beating = [beating EXCEPT ![s] = beating[s]]
           /\ pipe = [pipe EXCEPT ![s] = pipe[s]]
  BY DEF SessionTyped

\* Writer::write begins.
LEMMA BeginKeeps ==
    ASSUME SessionInv, NEW s \in Sides, NEW who \in {"app", "keepalive"}, NEW b \in Bodies,
           NEW ph \in Phases, NEW be \in BOOLEAN, Begin(s, who, b),
           phase' = [phase EXCEPT ![s] = ph], beating' = [beating EXCEPT ![s] = be],
           UNCHANGED <<pipe, reader, bus, sent, got>>, b # "data",
           \/ /\ who = "keepalive" /\ b = "keepalive" /\ ph = phase[s]
              /\ beating[s] /\ (be <=> beating[s])
           \/ who = "app" /\ b = "open" /\ ph = "opening" /\ s = "opener" /\ phase[s] = "none"
           \/ /\ who = "app" /\ b \in Verdicts /\ ph = "judging" /\ s = "responder"
              /\ phase[s] = "deciding" /\ (b = "accept" => served) /\ (be <=> beating[s])
           \/ who = "app" /\ b = "close" /\ ph = "leaving" /\ phase[s] = "open" /\ (be <=> beating[s])
    PROVE  SessionInv'
<1>0. SessionTyped /\ WritesInPhase(s) /\ failed' = failed
  BY DEF SessionInv, Direction, reader
<1>1. holder[s] = "free" /\ intact[s] /\ ~Spoiled(s) /\ body[s] = "none"
  BY <1>0 DEF Begin, Spoiled, WritesInPhase
<1>2. wnext[s] \in Nat /\ pipe[s] \in Seq(Frames) /\ phase[s] \in Phases /\ beating[s] \in BOOLEAN
  BY <1>0, SideTypes
<1>3. Becomes(s, ph, who, b, FALSE, wnext[s], be, pipe[s])
  BY <1>0, SameIsExcept DEF Becomes, Begin, reader, bus
<1>4. /\ SessionTyped'
      /\ phase'[s] = ph /\ holder'[s] = who /\ body'[s] = b /\ intact'[s] = FALSE
      /\ wnext'[s] = wnext[s] /\ beating'[s] = be /\ pipe'[s] = pipe[s]
      /\ WriterSame(Other(s)) /\ pipe'[Other(s)] = pipe[Other(s)]
  <2> HIDE DEF Phases, Bodies, Frames
  <2>1. PICK it \in BOOLEAN : it = FALSE
    OBVIOUS
  <2>2. /\ who \in {"free", "app", "keepalive"} /\ b \in Bodies \union {"none"}
        /\ Becomes(s, ph, who, b, it, wnext[s], be, pipe[s]) /\ sent' = sent
    BY <1>3, <2>1
  <2>3. SessionTyped' /\ Now(s, ph, who, b, it, wnext[s], be, pipe[s])
    BY <1>0, <1>2, <2>2, BecomesFacts
  <2> QED
    BY <2>1, <2>3 DEF Now
<1>5. WritesInPhase(s)'
  <2>1. served' = served
    BY <1>3 DEF Becomes
  <2>2. CASE who = "keepalive"
    BY <1>0, <1>1, <1>4, <2>1, <2>2 DEF WritesInPhase, Verdicts, Established
  <2>3. CASE who = "app" /\ b = "open"
    BY <1>0, <1>1, <1>4, <2>1, <2>3 DEF WritesInPhase, Verdicts, Established
  <2>4. CASE who = "app" /\ b \in Verdicts
    BY <1>0, <1>1, <1>4, <2>1, <2>4 DEF WritesInPhase, Verdicts, Established
  <2>5. CASE who = "app" /\ b = "close"
    BY <1>0, <1>1, <1>4, <2>1, <2>5 DEF WritesInPhase, Verdicts, Established
  <2> QED
    BY <2>2, <2>3, <2>4, <2>5
<1>6. Keeps(s)
  BY <1>1, <1>4 DEF Keeps, Spoiled
<1>7. Moves(s)
  BY <1>4 DEF Moves, KeepsWord, Left, Undecided, Unaccepted, Unanswered, Established, Verdicts
<1> QED
  BY <1>0, <1>3, <1>4, <1>5, <1>6, <1>7, SideStep DEF Becomes

\* A write is over without its end: abandoned, dropped, or cut off.
Stops(s, ph, be) ==
    /\ Leaves(s, Remains(s))
    /\ holder' = [holder EXCEPT ![s] = "free"] /\ body' = [body EXCEPT ![s] = "none"]
    /\ phase' = [phase EXCEPT ![s] = ph] /\ beating' = [beating EXCEPT ![s] = be]
    /\ UNCHANGED <<intact, wnext, reader, bus, sent, got>>

LEMMA StopKeeps ==
    ASSUME SessionInv, NEW s \in Sides, NEW ph \in Phases, NEW be \in BOOLEAN,
           Stops(s, ph, be),
           \/ ph = "gone" /\ ~be /\ phase[s] # "none"
           \/ holder[s] = "keepalive" /\ ph = phase[s] /\ ~be
           \/ holder[s] = "app" /\ body[s] \in {"data", "close"} /\ ph = phase[s] /\ (be <=> beating[s])
    PROVE  SessionInv'
<1>0. SessionTyped /\ WritesInPhase(s) /\ failed' = failed
  BY DEF SessionInv, Direction, Stops, reader
<1>1. /\ wnext[s] \in Nat /\ pipe[s] \in Seq(Frames) /\ phase[s] \in Phases
      /\ beating[s] \in BOOLEAN /\ intact[s] \in BOOLEAN
      /\ holder[s] \in {"free", "app", "keepalive"} /\ body[s] \in Bodies \union {"none"}
  BY <1>0, SideTypes
<1>2. PICK pi \in Seq(Frames) :
          /\ pipe' = [pipe EXCEPT ![s] = pi]
          /\ \/ pi = pipe[s]
             \/ holder[s] # "free" /\ pi = Append(pipe[s], Torn)
             \/ holder[s] # "free" /\ pi = Append(pipe[s], FrameOf(s, wnext[s], body[s]))
  <2>1. PICK pi \in Remains(s) : pipe' = [pipe EXCEPT ![s] = pi]
    BY DEF Leaves, Stops
  <2>2. \/ pi = pipe[s]
        \/ holder[s] # "free" /\ pi = Append(pipe[s], Torn)
        \/ holder[s] # "free" /\ pi = Append(pipe[s], FrameOf(s, wnext[s], body[s]))
    BY <2>1 DEF Remains
  <2>3. holder[s] # "free" => FrameOf(s, wnext[s], body[s]) \in Frames
    BY <1>0, FrameFacts
  <2>4. pi \in Seq(Frames)
    <3>1. \A f \in Frames : Append(pipe[s], f) \in Seq(Frames)
      <4> HIDE DEF Frames
      <4> QED
        BY <1>1
    <3> QED
      BY <1>1, <2>2, <2>3, <3>1, TornFacts
  <2> QED
    BY <2>1, <2>2, <2>4
<1>3. Becomes(s, ph, "free", "none", intact[s], wnext[s], be, pi)
  BY <1>0, <1>2, SameIsExcept DEF Becomes, Stops, reader, bus
<1>4. /\ SessionTyped'
      /\ phase'[s] = ph /\ holder'[s] = "free" /\ body'[s] = "none" /\ intact'[s] = intact[s]
      /\ wnext'[s] = wnext[s] /\ beating'[s] = be /\ pipe'[s] = pi
      /\ WriterSame(Other(s)) /\ pipe'[Other(s)] = pipe[Other(s)]
  <2> HIDE DEF Phases, Bodies, Frames
  <2>1. "free" \in {"free", "app", "keepalive"} /\ "none" \in Bodies \union {"none"}
    OBVIOUS
  <2>2. PICK it \in BOOLEAN : it = intact[s]
    BY <1>1
  <2>3. Becomes(s, ph, "free", "none", it, wnext[s], be, pi) /\ sent' = sent
    BY <1>3, <2>2 DEF Stops
  <2>4. SessionTyped' /\ Now(s, ph, "free", "none", it, wnext[s], be, pi)
    BY ZenonT(30), <1>0, <1>1, <1>2, <2>1, <2>3, BecomesFacts
  <2> QED
    BY <2>2, <2>4 DEF Now
<1>5. WritesInPhase(s)'
  <2>1. served' = served
    BY <1>3 DEF Becomes
  <2>2. CASE ph = "gone" /\ ~be
    BY <1>0, <1>4, <2>1, <2>2 DEF WritesInPhase, Verdicts, Established
  <2>3. CASE holder[s] = "keepalive" /\ ph = phase[s] /\ ~be
    BY <1>0, <1>1, <1>4, <2>1, <2>3 DEF WritesInPhase, Verdicts, Established
  <2>4. CASE holder[s] = "app" /\ body[s] \in {"data", "close"} /\ ph = phase[s] /\ (be <=> beating[s])
    BY <1>0, <1>1, <1>4, <2>1, <2>4 DEF WritesInPhase, Verdicts, Established
  <2> QED
    BY <2>2, <2>3, <2>4
<1>6. Moves(s)
  BY <1>4 DEF Moves, KeepsWord, Left, Undecided, Unaccepted, Unanswered, Established
<1>7. holder[s] # "free" => Spoiled(s)'
  BY <1>0, <1>4 DEF Spoiled, WritesInPhase
<1>8. Keeps(s) \/ Tears(s) \/ Puts(s)
  <2>1. CASE pi = pipe[s]
    <3>1. CASE holder[s] = "free"
      BY <1>0, <1>4, <2>1, <3>1 DEF Keeps, Spoiled, WritesInPhase
    <3>2. CASE holder[s] # "free"
      BY <1>4, <1>7, <2>1, <3>2 DEF Keeps
    <3> QED
      BY <3>1, <3>2
  <2>2. CASE holder[s] # "free" /\ pi = Append(pipe[s], Torn)
    BY <1>4, <1>7, <2>2 DEF Tears
  <2>3. CASE holder[s] # "free" /\ pi = Append(pipe[s], FrameOf(s, wnext[s], body[s]))
    <3>1. body[s] = "close" => ph \in Left
      BY <1>0, <1>1, <2>3 DEF WritesInPhase, Verdicts, Left
    <3>2. body[s] \in Verdicts => ph \notin Undecided
      BY <1>0, <1>1, <2>3 DEF WritesInPhase, Verdicts, Undecided
    <3>3. body[s] = "accept" => ph \notin Unaccepted
      BY <1>0, <1>1, <2>3 DEF WritesInPhase, Verdicts, Undecided, Unaccepted
    <3> QED
      BY <1>4, <1>7, <2>3, <3>1, <3>2, <3>3 DEF Puts
  <2> QED
    BY <1>2, <2>1, <2>2, <2>3
<1> QED
  BY <1>0, <1>3, <1>4, <1>5, <1>6, <1>8, SideStep DEF Becomes, Stops

\* Nothing is written: an end lets go of the session or of its keepalive task, or closes
\* its stream.
Rests(s, ph, it, be) ==
    /\ phase' = [phase EXCEPT ![s] = ph] /\ beating' = [beating EXCEPT ![s] = be]
    /\ intact' = [intact EXCEPT ![s] = it]
    /\ UNCHANGED <<holder, body, wnext, pipe, rnext, closed, bus, sent, got>>
    /\ failed' = failed \/ failed' = [failed EXCEPT ![s] = "lost"]

LEMMA RestKeeps ==
    ASSUME SessionInv, NEW s \in Sides, NEW ph \in Phases, NEW it \in BOOLEAN, NEW be \in BOOLEAN,
           Rests(s, ph, it, be),
           be => beating[s],
           \/ ph = phase[s] /\ (it <=> intact[s])
           \/ ph = "gone" /\ phase[s] = "waiting" /\ ~be /\ (it <=> intact[s])
           \/ /\ holder[s] = "free" /\ ~it /\ phase[s] \in {"finishing", "refused"}
              /\ ph = "gone" \/ (ph = "closed" /\ phase[s] = "finishing")
    PROVE  SessionInv'
<1>0. SessionTyped /\ WritesInPhase(s)
  BY DEF SessionInv, Direction
<1>1. /\ wnext[s] \in Nat /\ pipe[s] \in Seq(Frames) /\ phase[s] \in Phases
      /\ beating[s] \in BOOLEAN /\ intact[s] \in BOOLEAN
      /\ holder[s] \in {"free", "app", "keepalive"} /\ body[s] \in Bodies \union {"none"}
  BY <1>0, SideTypes
<1>3. Becomes(s, ph, holder[s], body[s], it, wnext[s], be, pipe[s])
  BY <1>0, SameIsExcept DEF Becomes, Rests, bus
<1>4. /\ SessionTyped'
      /\ phase'[s] = ph /\ holder'[s] = holder[s] /\ body'[s] = body[s] /\ intact'[s] = it
      /\ wnext'[s] = wnext[s] /\ beating'[s] = be /\ pipe'[s] = pipe[s]
      /\ WriterSame(Other(s)) /\ pipe'[Other(s)] = pipe[Other(s)]
  <2> HIDE DEF Phases, Bodies, Frames
  <2>1. /\ sent' = sent
        /\ failed' = failed \/ failed' = [failed EXCEPT ![s] = "lost"]
    BY DEF Rests
  <2>2. SessionTyped' /\ Now(s, ph, holder[s], body[s], it, wnext[s], be, pipe[s])
    BY SMTT(30), <1>0, <1>1, <1>3, <2>1, BecomesFacts
  <2> QED
    BY <2>2 DEF Now
<1>5. WritesInPhase(s)'
  <2>1. served' = served
    BY <1>3 DEF Becomes
  <2>2. CASE ph = phase[s] /\ (it <=> intact[s])
    BY <1>0, <1>1, <1>4, <2>1, <2>2 DEF WritesInPhase, Verdicts, Established
  <2>3. CASE ph = "gone" /\ phase[s] = "waiting" /\ ~be /\ (it <=> intact[s])
    BY <1>0, <1>1, <1>4, <2>1, <2>3 DEF WritesInPhase, Verdicts, Established
  <2>4. CASE /\ holder[s] = "free" /\ ~it /\ phase[s] \in {"finishing", "refused"}
             /\ ph = "gone" \/ (ph = "closed" /\ phase[s] = "finishing")
    BY <1>0, <1>1, <1>4, <2>1, <2>4 DEF WritesInPhase, Verdicts, Established
  <2> QED
    BY <2>2, <2>3, <2>4
<1>6. Moves(s)
  BY <1>4 DEF Moves, KeepsWord, Left, Undecided, Unaccepted, Unanswered, Established
<1>7. Keeps(s)
  BY <1>4 DEF Keeps, Spoiled
<1> QED
  BY <1>0, <1>3, <1>4, <1>5, <1>6, <1>7, SideStep DEF Becomes, Rests

\* A frame is written and flushed.
LEMMA EndWriteKeeps == ASSUME SessionInv, NEW s \in Sides, EndWrite(s) PROVE SessionInv'
<1>0. SessionTyped /\ WritesInPhase(s) /\ failed' = failed /\ holder[s] # "free"
  BY DEF SessionInv, Direction, reader, EndWrite
<1>1. /\ wnext[s] \in Nat /\ pipe[s] \in Seq(Frames) /\ phase[s] \in Phases
      /\ beating[s] \in BOOLEAN /\ intact[s] \in BOOLEAN
      /\ holder[s] \in {"free", "app", "keepalive"} /\ body[s] \in Bodies \union {"none"}
  BY <1>0, SideTypes
<1>2. PICK ph : ph = IF holder[s] = "app" THEN Written(s) ELSE phase[s]
  OBVIOUS
<1>3. \/ holder[s] = "keepalive" /\ body[s] = "keepalive" /\ ph = phase[s]
      \/ holder[s] = "app" /\ body[s] = "open" /\ phase[s] = "opening" /\ ph = "waiting"
      \/ holder[s] = "app" /\ body[s] = "accept" /\ phase[s] = "judging" /\ ph = "open"
      \/ holder[s] = "app" /\ body[s] = "refuse" /\ phase[s] = "judging" /\ ph = "refused"
      \/ holder[s] = "app" /\ body[s] = "data" /\ phase[s] = "open" /\ ph = "open"
      \/ holder[s] = "app" /\ body[s] = "close" /\ phase[s] = "leaving" /\ ph = "finishing"
  BY <1>0, <1>1, <1>2 DEF WritesInPhase, Verdicts, Written
<1>4. ph \in Phases
  BY <1>1, <1>3 DEF Phases
<1>5. PICK pi \in Seq(Frames), wn \in Nat, it \in BOOLEAN :
          /\ pi = Append(pipe[s], FrameOf(s, wnext[s], body[s]))
          /\ wn = wnext[s] + 1 /\ it = TRUE
  <2>1. FrameOf(s, wnext[s], body[s]) \in Frames
    BY <1>0, FrameFacts
  <2>2. \A f \in Frames : Append(pipe[s], f) \in Seq(Frames)
    <3> HIDE DEF Frames
    <3> QED
      BY <1>1
  <2>3. PICK pi \in Seq(Frames) : pi = Append(pipe[s], FrameOf(s, wnext[s], body[s]))
    BY <2>1, <2>2
  <2>4. wnext[s] + 1 \in Nat /\ TRUE \in BOOLEAN
    BY <1>1
  <2> QED
    BY <2>3, <2>4
<1>6. Becomes(s, ph, "free", "none", it, wn, beating[s], pi)
  <2>1. phase' = [phase EXCEPT ![s] = ph]
    BY <1>0, <1>2 DEF EndWrite, SessionTyped
  <2>2. pipe' = [pipe EXCEPT ![s] = pi]
    BY <1>0, <1>5 DEF EndWrite, SessionTyped
  <2>3. wnext' = [wnext EXCEPT ![s] = wn]
    BY <1>0, <1>5 DEF EndWrite, SessionTyped
  <2> QED
    BY <1>0, <1>5, <2>1, <2>2, <2>3, SameIsExcept DEF Becomes, EndWrite, reader, bus
<1>7. /\ SessionTyped'
      /\ phase'[s] = ph /\ holder'[s] = "free" /\ body'[s] = "none" /\ intact'[s] = it
      /\ wnext'[s] = wn /\ beating'[s] = beating[s] /\ pipe'[s] = pi
      /\ WriterSame(Other(s)) /\ pipe'[Other(s)] = pipe[Other(s)]
  <2> HIDE DEF Phases, Bodies, Frames
  <2>1. "free" \in {"free", "app", "keepalive"} /\ "none" \in Bodies \union {"none"}
    OBVIOUS
  <2>2. sent' = sent
    BY DEF EndWrite
  <2>3. PICK be \in BOOLEAN : be = beating[s]
    BY <1>1
  <2>4. Becomes(s, ph, "free", "none", it, wn, be, pi)
    BY <1>6, <2>3
  <2>5. SessionTyped' /\ Now(s, ph, "free", "none", it, wn, be, pi)
    BY <1>0, <1>4, <2>1, <2>2, <2>4, BecomesFacts
  <2> QED
    BY <2>3, <2>5 DEF Now
<1>8. WritesInPhase(s)'
  <2>1. served' = served /\ wnext'[s] # 0
    BY <1>1, <1>5, <1>6, <1>7 DEF Becomes
  <2>0. intact'[s] = TRUE
    BY <1>5, <1>7
  <2>2. CASE holder[s] = "keepalive" /\ body[s] = "keepalive" /\ ph = phase[s]
    BY <1>0, <1>1, <1>7, <2>0, <2>1, <2>2 DEF WritesInPhase, Verdicts, Established
  <2>3. CASE holder[s] = "app"
    BY <1>0, <1>1, <1>3, <1>7, <2>0, <2>1, <2>3 DEF WritesInPhase, Verdicts, Established
  <2> QED
    BY <1>0, <1>1, <1>3, <2>2, <2>3
<1>9. Moves(s)
  BY <1>0, <1>3, <1>7 DEF WritesInPhase, Moves, KeepsWord, Left, Undecided, Unaccepted, Unanswered, Established
<1>10. Puts(s)
  BY <1>0, <1>3, <1>5, <1>7 DEF Puts, Left, Undecided, Unaccepted, Verdicts
<1> QED
  BY <1>0, <1>6, <1>7, <1>8, <1>9, <1>10, SideStep DEF Becomes, EndWrite

\* The steps of a session's end that read no frame and send no data.
LEMMA WriterStep ==
    ASSUME SessionInv, NEW s \in Sides,
           \/ Initiate /\ s = "opener"
           \/ (\E v \in {"accept", "refuse"} : Decide(v)) /\ s = "responder"
           \/ EndWrite(s) \/ AbandonWrite(s) \/ SayGoodbye(s) \/ CloseStream(s)
           \/ Beat(s) \/ BeatFails(s) \/ RecvFails(s) \/ Drop(s)
           \/ \E h \in {"tx", "rx"} : DropHalf(s, h)
           \/ RefusalFails /\ s = "responder"
    PROVE  SessionInv'
<1>0. SessionTyped /\ WritesInPhase(s)
  BY DEF SessionInv, Direction
<1>1. /\ phase[s] \in Phases /\ beating[s] \in BOOLEAN /\ intact[s] \in BOOLEAN
      /\ holder[s] \in {"free", "app", "keepalive"} /\ body[s] \in Bodies \union {"none"}
  BY <1>0, SideTypes
<1>2. /\ phase = [phase EXCEPT ![s] = phase[s]] /\ beating = [beating EXCEPT ![s] = beating[s]]
      /\ intact = [intact EXCEPT ![s] = intact[s]]
  BY <1>0, SameIsExcept
<1>3. /\ "gone" \in Phases /\ "closed" \in Phases /\ "opening" \in Phases
      /\ "judging" \in Phases /\ "leaving" \in Phases
      /\ \A b \in {"open", "accept", "refuse", "close", "keepalive"} : b \in Bodies /\ b # "data"
  BY DEF Phases, Bodies
<1>4. TRUE \in BOOLEAN /\ FALSE \in BOOLEAN
  OBVIOUS
<1>5. CASE Initiate /\ s = "opener"
  <2>1. /\ Begin(s, "app", "open") /\ phase[s] = "none"
        /\ phase' = [phase EXCEPT ![s] = "opening"] /\ beating' = [beating EXCEPT ![s] = TRUE]
        /\ UNCHANGED <<pipe, reader, bus, sent, got>>
    BY <1>5 DEF Initiate, Halves
  <2> QED
    BY <1>3, <1>4, <1>5, <2>1, BeginKeeps
<1>6. ASSUME NEW v \in {"accept", "refuse"}, Decide(v), s = "responder" PROVE SessionInv'
  <2>1. /\ Begin(s, "app", v) /\ phase[s] = "deciding" /\ (v = "accept" => served)
        /\ phase' = [phase EXCEPT ![s] = "judging"]
        /\ beating' = [beating EXCEPT ![s] = beating[s]]
        /\ UNCHANGED <<pipe, reader, bus, sent, got>>
    BY <1>2, <1>6 DEF Decide
  <2>2. v \in Verdicts /\ v \in Bodies /\ v # "data"
    BY <1>3, <1>6 DEF Verdicts
  <2> QED
    BY <1>1, <1>3, <1>6, <2>1, <2>2, BeginKeeps
<1>7. CASE EndWrite(s)
  BY <1>7, EndWriteKeeps
<1>8. CASE AbandonWrite(s)
  <2>1. /\ holder[s] # "free" /\ Leaves(s, Remains(s))
        /\ holder' = [holder EXCEPT ![s] = "free"] /\ body' = [body EXCEPT ![s] = "none"]
        /\ UNCHANGED <<intact, wnext, reader, bus, sent, got>>
    BY <1>8 DEF AbandonWrite
  <2>2. CASE holder[s] = "keepalive"
    <3>1. phase' = [phase EXCEPT ![s] = phase[s]] /\ beating' = [beating EXCEPT ![s] = FALSE]
      BY <1>2, <1>8, <2>2 DEF AbandonWrite
    <3> QED
      BY <1>1, <1>4, <2>1, <2>2, <3>1, StopKeeps DEF Stops
  <2>3. CASE holder[s] = "app" /\ body[s] \in {"open", "accept", "refuse"}
    <3>1. phase' = [phase EXCEPT ![s] = "gone"] /\ beating' = [beating EXCEPT ![s] = FALSE]
      BY <1>8, <2>3 DEF AbandonWrite, LetGo
    <3>2. phase[s] # "none"
      BY <1>0, <2>3 DEF WritesInPhase
    <3> QED
      BY <1>3, <1>4, <2>1, <3>1, <3>2, StopKeeps DEF Stops
  <2>4. CASE holder[s] = "app" /\ body[s] = "close"
    <3>1. LetGoHalf(s, "tx")
      BY <1>8, <2>4 DEF AbandonWrite
    <3>2. CASE LetGo(s)
      <4>1. phase' = [phase EXCEPT ![s] = "gone"] /\ beating' = [beating EXCEPT ![s] = FALSE]
        BY <3>2 DEF LetGo
      <4>2. phase[s] # "none"
        BY <1>0, <2>4 DEF WritesInPhase
      <4> QED
        BY <1>3, <1>4, <2>1, <4>1, <4>2, StopKeeps DEF Stops
    <3>3. CASE UNCHANGED <<phase, beating>>
      BY <1>1, <1>2, <2>1, <2>4, <3>3, StopKeeps DEF Stops
    <3> QED
      BY <3>1, <3>2, <3>3 DEF LetGoHalf
  <2>5. CASE holder[s] = "app" /\ body[s] = "data"
    <3>1. UNCHANGED <<phase, beating>>
      BY <1>8, <2>5 DEF AbandonWrite, life
    <3> QED
      BY <1>1, <1>2, <2>1, <2>5, <3>1, StopKeeps DEF Stops
  <2> QED
    BY <1>0, <1>1, <2>1, <2>2, <2>3, <2>4, <2>5 DEF WritesInPhase, Verdicts
<1>9. CASE SayGoodbye(s)
  <2>1. /\ Begin(s, "app", "close") /\ phase[s] = "open"
        /\ phase' = [phase EXCEPT ![s] = "leaving"]
        /\ beating' = [beating EXCEPT ![s] = beating[s]]
        /\ UNCHANGED <<pipe, reader, bus, sent, got>>
    BY <1>2, <1>9 DEF SayGoodbye
  <2> QED
    BY <1>1, <1>3, <2>1, BeginKeeps
<1>10. CASE CloseStream(s)
  <2>1. /\ intact' = [intact EXCEPT ![s] = FALSE] /\ holder[s] = "free"
        /\ phase[s] \in {"finishing", "refused"}
        /\ UNCHANGED <<holder, body, wnext, pipe, rnext, closed, bus, sent, got>>
        /\ failed' = failed
    BY <1>10 DEF CloseStream, reader
  <2>2. CASE LetGo(s)
    <3>1. phase' = [phase EXCEPT ![s] = "gone"] /\ beating' = [beating EXCEPT ![s] = FALSE]
      BY <2>2 DEF LetGo
    <3> QED
      BY <1>3, <1>4, <2>1, <3>1, RestKeeps DEF Rests
  <2>3. CASE ~LetGo(s)
    <3>1. /\ phase' = [phase EXCEPT ![s] = "closed"] /\ beating' = [beating EXCEPT ![s] = beating[s]]
          /\ phase[s] = "finishing"
      BY <1>2, <1>10, <2>3 DEF CloseStream
    <3> QED
      BY <1>1, <1>3, <1>4, <2>1, <3>1, RestKeeps DEF Rests
  <2> QED
    BY <2>2, <2>3
<1>11. CASE Beat(s)
  <2>1. /\ Begin(s, "keepalive", "keepalive") /\ beating[s]
        /\ phase' = [phase EXCEPT ![s] = phase[s]]
        /\ beating' = [beating EXCEPT ![s] = beating[s]]
        /\ UNCHANGED <<pipe, reader, bus, sent, got>>
    BY <1>2, <1>11 DEF Beat, life
  <2> QED
    BY <1>1, <1>3, <2>1, BeginKeeps
<1>12. CASE BeatFails(s)
  <2>1. /\ phase' = [phase EXCEPT ![s] = phase[s]]
        /\ beating' = [beating EXCEPT ![s] = FALSE]
        /\ intact' = [intact EXCEPT ![s] = intact[s]]
        /\ UNCHANGED <<holder, body, wnext, pipe, rnext, closed, bus, sent, got>>
        /\ failed' = failed
    BY <1>2, <1>12 DEF BeatFails, writer, reader
  <2> QED
    BY <1>1, <1>4, <2>1, RestKeeps DEF Rests
<1>13. CASE RecvFails(s)
  <2>1. /\ intact' = [intact EXCEPT ![s] = intact[s]]
        /\ UNCHANGED <<holder, body, wnext, pipe, rnext, closed, bus, sent, got>>
        /\ failed' = [failed EXCEPT ![s] = "lost"]
    BY <1>2, <1>13 DEF RecvFails, Fail, writer
  <2>2. CASE phase[s] = "waiting"
    <3>1. phase' = [phase EXCEPT ![s] = "gone"] /\ beating' = [beating EXCEPT ![s] = FALSE]
      BY <1>13, <2>2 DEF RecvFails, Fail, LetGo
    <3> QED
      BY <1>1, <1>3, <1>4, <2>1, <2>2, <3>1, RestKeeps DEF Rests
  <2>3. CASE phase[s] # "waiting"
    <3>1. UNCHANGED <<phase, beating>>
      BY <1>13, <2>3 DEF RecvFails, Fail, life
    <3> QED
      BY <1>1, <1>2, <2>1, <3>1, RestKeeps DEF Rests
  <2> QED
    BY <2>2, <2>3
<1>14. ASSUME LetGo(s), Leaves(s, Remains(s)), phase[s] # "none",
              holder' = [holder EXCEPT ![s] = "free"], body' = [body EXCEPT ![s] = "none"],
              UNCHANGED <<intact, wnext, reader, bus, beats, sent, got>>
       PROVE  SessionInv'
  <2>1. phase' = [phase EXCEPT ![s] = "gone"] /\ beating' = [beating EXCEPT ![s] = FALSE]
    BY <1>14 DEF LetGo
  <2> QED
    BY <1>3, <1>4, <1>14, <2>1, StopKeeps DEF Stops
<1>15. CASE Drop(s)
  BY <1>14, <1>15 DEF Drop
<1>16. ASSUME NEW h \in {"tx", "rx"}, DropHalf(s, h) PROVE SessionInv'
  <2>1. /\ intact' = [intact EXCEPT ![s] = intact[s]]
        /\ UNCHANGED <<holder, body, wnext, pipe, rnext, closed, bus, sent, got>>
        /\ failed' = failed
    BY <1>2, <1>16 DEF DropHalf, writer, reader
  <2>2. UNCHANGED <<phase, beating>>
    BY <1>16 DEF DropHalf, LetGoHalf
  <2> QED
    BY <1>1, <1>2, <2>1, <2>2, RestKeeps DEF Rests
<1>17. CASE RefusalFails /\ s = "responder"
  <2>1. /\ LetGo(s) /\ Leaves(s, Remains(s)) /\ phase[s] # "none"
        /\ holder' = [holder EXCEPT ![s] = "free"] /\ body' = [body EXCEPT ![s] = "none"]
        /\ UNCHANGED <<intact, wnext, reader, bus, beats, sent, got>>
    BY <1>17 DEF RefusalFails
  <2> QED
    BY <1>14, <2>1
<1> QED
  BY <1>5, <1>6, <1>7, <1>8, <1>9, <1>10, <1>11, <1>12, <1>13, <1>15, <1>16, <1>17

\* SessionSender::send.
LEMMA SendKeeps == ASSUME SessionInv, NEW s \in Sides, Send(s) PROVE SessionInv'
<1>0. /\ SessionTyped /\ Direction(s) /\ Direction(Other(s)) /\ Judged /\ NoProtocolError
      /\ Other(s) \in Sides /\ Other(s) # s
  BY OtherFacts DEF SessionInv
<1>1. /\ holder' = [holder EXCEPT ![s] = "app"] /\ body' = [body EXCEPT ![s] = "data"]
      /\ intact' = [intact EXCEPT ![s] = FALSE]
      /\ sent' = [sent EXCEPT ![s] = Append(sent[s], Len(sent[s]) + 1)]
      /\ phase' = phase /\ beating' = beating /\ wnext' = wnext /\ pipe' = pipe
      /\ rnext' = rnext /\ closed' = closed /\ failed' = failed /\ got' = got /\ served' = served
      /\ holder[s] = "free" /\ intact[s] /\ phase[s] = "open"
  BY <1>0 DEF Send, Begin, life, reader, bus, SessionTyped
<1>2. PICK k \in Nat : k = Len(sent[s])
  BY <1>0, SideTypes
<1>3. /\ sent' \in [Sides -> Seq(Nat)] /\ sent'[Other(s)] = sent[Other(s)]
      /\ sent'[s] = Append(sent[s], k + 1)
  BY <1>0, <1>1, <1>2 DEF SessionTyped
<1>4. Len(sent'[s]) = k + 1 /\ \A i \in 1..(k + 1) : sent'[s][i] = IF i = k + 1 THEN k + 1 ELSE sent[s][i]
  <2>1. sent[s] \in Seq(Nat)
    BY <1>0, SideTypes
  <2> QED
    BY <1>2, <1>3, <2>1
<1>5. SessionTyped'
  <2>1. /\ holder' \in [Sides -> {"free", "app", "keepalive"}]
        /\ body' \in [Sides -> Bodies \union {"none"}]
    BY <1>0, <1>1 DEF SessionTyped, Bodies
  <2>2. intact' \in [Sides -> BOOLEAN]
    BY <1>0, <1>1 DEF SessionTyped
  <2> QED
    BY <1>0, <1>1, <1>3, <2>1, <2>2 DEF SessionTyped
<1>6. holder'[s] = "app" /\ body'[s] = "data" /\ intact'[s] = FALSE
  BY <1>0, <1>1 DEF SessionTyped
<1>7. WriterSame(Other(s)) /\ ReaderSame(s) /\ ReaderSame(Other(s))
  BY <1>0, <1>1, <1>3 DEF SessionTyped, WriterSame, ReaderSame
<1>8. Direction(Other(s))'
  BY <1>0, <1>1, <1>7, OtherFacts, DirectionSame
<1>9. ~closed[Other(s)] /\ \A i \in 1..Len(pipe[s]) : pipe[s][i].body # "close"
  BY <1>0, <1>1 DEF Direction, GoodbyeIsLast, Left
<1>10. WritesInPhase(s)'
  BY <1>0, <1>1, <1>6 DEF Direction, WritesInPhase, Established, Verdicts
<1>11. Carried(s)'
  <2>1. PICK c : /\ Counts(pipe[s], c, rnext[Other(s)], Len(got[Other(s)]), k)
                 /\ ~Spoiled(s) => Flowing(s, c)
    BY <1>0, <1>2 DEF Direction, Carried
  <2>2. pipe[s] \in Seq(Frames) /\ rnext[Other(s)] \in Nat
    BY <1>0, SideTypes
  <2>3. Counts(pipe[s], c, rnext[Other(s)], Len(got[Other(s)]), k + 1)
    <3> HIDE DEF Frames
    <3> QED
      BY <1>9, <2>1, <2>2, CountsMore
  <2>4. Flowing(s, c) /\ body[s] = "none"
    BY <1>0, <1>1, <2>1 DEF Spoiled, Direction, WritesInPhase
  <2>5. Flowing(s, c)'
    BY <1>1, <1>2, <1>4, <1>6, <2>4 DEF Flowing
  <2> QED
    BY <1>1, <1>4, <2>3, <2>5 DEF Carried
<1>12. Numbered(s)'
  BY <1>0, <1>1, <1>2, <1>4 DEF Direction, Numbered
<1>13. GoodbyeIsLast(s)' /\ InPlace(s)'
  BY <1>0, <1>1, <1>9 DEF Direction, GoodbyeIsLast, InPlace
<1>14. Direction(s)'
  BY <1>10, <1>11, <1>12, <1>13 DEF Direction
<1>15. Judged' /\ NoProtocolError'
  BY <1>0, <1>1 DEF Judged, NoProtocolError
<1>16. \A x \in Sides : x = s \/ x = Other(s)
  BY DEF Sides, Other
<1> QED
  BY <1>5, <1>8, <1>14, <1>15, <1>16 DEF SessionInv

-------------------------------------------------------------------------------
(* Sessions: a step of the reader *)

\* The other end takes the oldest frame of s: a message, a goodbye, or neither.
LEMMA ReaderStep ==
    ASSUME SessionTyped, NEW s \in Sides, Direction(s), WriterSame(s), served' = served,
           pipe[s] # <<>>, pipe[s][1] # Torn, pipe'[s] = Tail(pipe[s]),
           rnext'[Other(s)] = rnext[Other(s)] + 1,
           \/ /\ pipe[s][1].body = "data" /\ ~closed[Other(s)] /\ ~closed'[Other(s)]
              /\ got'[Other(s)] = Append(got[Other(s)], pipe[s][1].msg)
           \/ pipe[s][1].body = "close" /\ got'[Other(s)] = got[Other(s)]
           \/ /\ pipe[s][1].body \notin {"data", "close"} /\ got'[Other(s)] = got[Other(s)]
              /\ closed'[Other(s)] = closed[Other(s)]
    PROVE  Direction(s)'
<1>0. /\ WritesInPhase(s) /\ Carried(s) /\ Numbered(s) /\ GoodbyeIsLast(s) /\ InPlace(s)
      /\ Other(s) \in Sides
  BY OtherFacts DEF Direction
<1>1. PICK p \in Seq(Frames), first \in Nat, had \in Nat, k \in Nat :
          /\ p = pipe[s] /\ first = rnext[Other(s)]
          /\ had = Len(got[Other(s)]) /\ k = Len(sent[s])
  <2> HIDE DEF Frames
  <2> QED
    BY <1>0, SideTypes
<1>2. PICK n \in Nat : n = Len(p) - 1 /\ Len(p) = n + 1
  <2>1. p # <<>>
    BY <1>1
  <2>2. Len(p) \in Nat /\ Len(p) # 0
    BY <2>1
  <2>3. Len(p) - 1 \in Nat /\ Len(p) = (Len(p) - 1) + 1
    BY <2>2
  <2> QED
    BY <2>3
<1>3. /\ Len(pipe'[s]) = n /\ \A i \in 1..n : pipe'[s][i] = p[i + 1] /\ i + 1 \in 1..Len(p)
  <2> HIDE DEF Frames
  <2> QED
    BY <1>1, <1>2
<1>4. PICK c : Counts(p, c, first, had, k) /\ (~Spoiled(s) => Flowing(s, c))
  BY <1>0, <1>1 DEF Carried
<1>5. /\ c \in [0..(n + 1) -> Nat] /\ c[0] = had /\ c[1] \in Nat /\ c[1] <= k
      /\ p[1].body = "data" => c[1] = had + 1 /\ p[1].msg = c[1]
      /\ p[1].body # "data" => c[1] = had
      /\ p[1].body = "close" => c[1] = k
  <2>1. 1 \in 1..Len(p) /\ 1 \in 0..Len(p) /\ 1 - 1 = 0
    BY <1>2
  <2> QED
    BY <1>1, <1>2, <1>4, <2>1 DEF Counts
<1>6. /\ Len(got'[Other(s)]) = c[1]
      /\ \A i \in 1..Len(got'[Other(s)]) : got'[Other(s)][i] = i
  <2>1. got[Other(s)] \in Seq(Nat) /\ \A i \in 1..had : got[Other(s)][i] = i
    BY <1>0, <1>1, SideTypes DEF Numbered
  <2>2. CASE p[1].body = "data"
    <3>1. got'[Other(s)] = Append(got[Other(s)], had + 1)
      BY <1>1, <1>5, <2>2
    <3> QED
      BY <1>1, <1>5, <2>1, <2>2, <3>1
  <2>3. CASE p[1].body # "data"
    BY <1>1, <1>5, <2>1, <2>3
  <2> QED
    BY <2>2, <2>3
<1>7. WritesInPhase(s)'
  BY <1>0 DEF WritesInPhase, WriterSame
<1>8. Carried(s)'
  <2>1. PICK d : Counts(Tail(p), d, first + 1, c[1], k) /\ d[Len(Tail(p))] = c[Len(p)]
    <3>1. p # <<>> /\ p[1] # Torn
      BY <1>1
    <3> HIDE DEF Frames
    <3> QED
      BY <1>4, <3>1, CountsTail
  <2>2. Counts(pipe'[s], d, rnext'[Other(s)], Len(got'[Other(s)]), Len(sent'[s]))
    BY <1>1, <1>6, <2>1 DEF WriterSame
  <2>3. (~Spoiled(s) => Flowing(s, d))'
    <3> SUFFICES ASSUME ~Spoiled(s)' PROVE Flowing(s, d)'
      OBVIOUS
    <3>1. Flowing(s, c)
      BY <1>4 DEF Spoiled, WriterSame
    <3>2. \A i \in 1..Len(pipe'[s]) : pipe'[s][i] # Torn
      BY <1>1, <1>3, <3>1 DEF Flowing
    <3>3. rnext'[Other(s)] + Len(pipe'[s]) = wnext'[s]
      <4>1. first + (n + 1) = wnext[s]
        BY <1>1, <1>2, <3>1 DEF Flowing
      <4>2. rnext'[Other(s)] + Len(pipe'[s]) = (first + 1) + n
        BY <1>1, <1>3
      <4> QED
        BY <4>1, <4>2 DEF WriterSame
    <3>4. d[Len(pipe'[s])] = Len(sent'[s]) - (IF body'[s] = "data" THEN 1 ELSE 0)
      BY <1>1, <2>1, <3>1 DEF Flowing, WriterSame
    <3> QED
      BY <3>2, <3>3, <3>4 DEF Flowing
  <2> QED
    BY <2>2, <2>3 DEF Carried
<1>9. Numbered(s)'
  BY <1>0, <1>6 DEF Numbered, WriterSame
<1>10. GoodbyeIsLast(s)'
  <2>1. ASSUME NEW i \in 1..Len(pipe'[s]), pipe'[s][i].body = "close" PROVE phase'[s] \in Left
    BY <1>0, <1>1, <1>3, <2>1 DEF GoodbyeIsLast, WriterSame
  <2>2. ASSUME closed'[Other(s)]
        PROVE  phase'[s] \in Left /\ Len(got'[Other(s)]) = Len(sent'[s])
    <3>1. CASE p[1].body = "close"
      <4>1. phase[s] \in Left
        BY <1>0, <1>1, <1>2, <3>1 DEF GoodbyeIsLast
      <4> QED
        BY <1>1, <1>5, <1>6, <3>1, <4>1 DEF WriterSame
    <3>2. CASE p[1].body # "close"
      <4>1. closed[Other(s)] /\ p[1].body # "data"
        BY <1>1, <2>2, <3>2
      <4> QED
        BY <1>0, <1>1, <1>5, <1>6, <4>1 DEF GoodbyeIsLast, WriterSame
    <3> QED
      BY <3>1, <3>2
  <2> QED
    BY <2>1, <2>2 DEF GoodbyeIsLast
<1>11. InPlace(s)'
  <2>1. /\ phase'[s] = phase[s] /\ served' = served
        /\ Len(pipe'[s]) = n /\ Len(pipe[s]) = Len(p)
    BY <1>0, <1>1, <1>3 DEF WriterSame
  <2>2. ASSUME NEW i \in 1..n, pipe'[s][i] # Torn
        PROVE  /\ pipe'[s][i].body \in Bodies
               /\ s = "opener" =>
                    /\ pipe'[s][i].body \notin Verdicts
                    /\ pipe'[s][i].body = "open" => pipe'[s][i].seq = 0
               /\ s = "responder" =>
                    /\ pipe'[s][i].body # "open"
                    /\ pipe'[s][i].seq = 0 =>
                         pipe'[s][i].body \in Verdicts \union {"keepalive"}
                    /\ pipe'[s][i].body = "accept" => served /\ phase[s] \notin Unaccepted
                    /\ pipe'[s][i].body \in Verdicts =>
                         /\ phase[s] \notin Undecided
                         /\ \A j \in 1..n : pipe'[s][j].body \in Verdicts => i = j
    <3>1. pipe'[s][i] = pipe[s][i + 1] /\ i + 1 \in 1..Len(pipe[s])
      BY <1>1, <1>3
    <3>2. ASSUME s = "responder", pipe[s][i + 1].body \in Verdicts,
                 NEW j \in 1..n, pipe'[s][j].body \in Verdicts
          PROVE  i = j
      <4>1. pipe[s][j + 1].body \in Verdicts /\ j + 1 \in 1..Len(pipe[s])
        BY <1>1, <1>3, <3>2
      <4>2. i + 1 = j + 1
        BY <1>0, <2>2, <3>1, <3>2, <4>1 DEF InPlace
      <4> QED
        BY <4>2
    <3> QED
      BY <1>0, <2>2, <3>1, <3>2 DEF InPlace
  <2> QED
    BY <2>1, <2>2 DEF InPlace
<1> QED
  BY <1>7, <1>8, <1>9, <1>10, <1>11 DEF Direction

\* The end of a session that reads a frame does nothing else with what it writes.
LEMMA OwnSide ==
    ASSUME SessionTyped, NEW s \in Sides, Direction(s), WritesInPhase(s)', KeepsWord(s),
           ReaderSame(Other(s)), served' = served, sent'[s] = sent[s], pipe'[s] = pipe[s],
           holder'[s] = holder[s], body'[s] = body[s], intact'[s] = intact[s],
           wnext'[s] = wnext[s]
    PROVE  Direction(s)'
<1>1. Keeps(s) /\ WritesInPhase(s) /\ Carried(s)
  BY DEF Keeps, Spoiled, Direction
<1>2. Carried(s)'
  BY <1>1, CarriedKept
<1>3. (Numbered(s) /\ GoodbyeIsLast(s) /\ InPlace(s))'
  BY <1>1, PlacesKept
<1> QED
  BY <1>2, <1>3 DEF Direction

\* IncomingSession::admit.
LEMMA AdmitKeeps == ASSUME SessionInv, Admit PROVE SessionInv'
<1>0. /\ SessionTyped /\ Direction("opener") /\ Direction("responder") /\ Judged
      /\ NoProtocolError
      /\ "opener" \in Sides /\ "responder" \in Sides
      /\ Other("opener") = "responder" /\ Other("responder") = "opener"
  BY DEF SessionInv, Sides, Other
<1>1. /\ phase["responder"] = "none" /\ pipe["opener"] # <<>>
      /\ Head(pipe["opener"]).body = "open"
      /\ phase' = [phase EXCEPT !["responder"] = "deciding"]
      /\ beating' = [beating EXCEPT !["responder"] = TRUE]
      /\ rnext' = [rnext EXCEPT !["responder"] = 1]
      /\ pipe' = [pipe EXCEPT !["opener"] = Tail(pipe["opener"])]
      /\ holder' = holder /\ body' = body /\ intact' = intact /\ wnext' = wnext
      /\ closed' = closed /\ failed' = failed /\ served' = served
      /\ sent' = sent /\ got' = got
  BY <1>0 DEF Admit, Halves, writer, bus, SessionTyped
<1>2. pipe["opener"] \in Seq(Frames) /\ rnext["opener"] \in Nat
  BY <1>0, SideTypes
<1>3. Head(pipe["opener"]) = pipe["opener"][1] /\ Tail(pipe["opener"]) \in Seq(Frames)
  <2> HIDE DEF Frames
  <2> QED
    BY <1>1, <1>2
<1>4. SessionTyped'
  <2>1. pipe' \in [Sides -> Seq(Frames)]
    <3> HIDE DEF Frames
    <3> QED
      BY <1>0, <1>1, <1>3 DEF SessionTyped
  <2>2. phase' \in [Sides -> Phases]
    BY <1>0, <1>1 DEF SessionTyped, Phases
  <2>3. beating' \in [Sides -> BOOLEAN] /\ rnext' \in [Sides -> Nat]
    BY <1>0, <1>1 DEF SessionTyped
  <2> QED
    BY <1>0, <1>1, <2>1, <2>2, <2>3 DEF SessionTyped
<1>5. /\ phase'["responder"] = "deciding" /\ phase'["opener"] = phase["opener"]
      /\ beating'["opener"] = beating["opener"]
      /\ rnext'["responder"] = 1 /\ rnext'["opener"] = rnext["opener"]
      /\ pipe'["opener"] = Tail(pipe["opener"]) /\ pipe'["responder"] = pipe["responder"]
  BY <1>0, <1>1 DEF SessionTyped
<1>6. rnext["responder"] = 0
  BY <1>0, <1>1 DEF Judged
<1>7. Direction("opener")'
  <2>1. WriterSame("opener")
    BY <1>1, <1>5 DEF WriterSame
  <2>2. /\ pipe["opener"][1] # Torn /\ pipe["opener"][1].body \notin {"data", "close"}
    BY <1>1, <1>3, TornFacts
  <2>3. rnext'[Other("opener")] = rnext[Other("opener")] + 1
    BY <1>0, <1>5, <1>6
  <2> QED
    BY <1>0, <1>1, <1>5, <2>1, <2>2, <2>3, ReaderStep
<1>8. Direction("responder")'
  <2>1. WritesInPhase("responder")'
    BY <1>0, <1>1, <1>5 DEF Direction, WritesInPhase, Established, Verdicts
  <2>2. KeepsWord("responder")
    BY <1>1, <1>5 DEF KeepsWord, Left, Undecided, Unaccepted
  <2>3. ReaderSame(Other("responder"))
    BY <1>0, <1>1, <1>5 DEF ReaderSame
  <2> QED
    BY <1>0, <1>1, <1>5, <2>1, <2>2, <2>3, OwnSide
<1>9. Judged'
  BY <1>0, <1>1, <1>5 DEF Judged, Undecided, Unaccepted
<1>10. NoProtocolError'
  BY <1>0, <1>1 DEF NoProtocolError
<1> QED
  BY <1>4, <1>7, <1>8, <1>9, <1>10 DEF SessionInv, Sides

\* What the next frame of the stream can be to whoever reads it.
LEMMA NextFrame ==
    ASSUME SessionInv, NEW s \in Sides, Reading(s), pipe[Other(s)] # <<>>,
           pipe[Other(s)][1] = Torn => Len(pipe[Other(s)]) > 1
    PROVE  /\ pipe[Other(s)][1] # Torn
           /\ pipe[Other(s)][1].seq = rnext[s]
           /\ pipe[Other(s)][1] \in Frames
           /\ 1 \in 1..Len(pipe[Other(s)])
           /\ phase[s] = "waiting" => pipe[Other(s)][1].body \in Verdicts \union {"keepalive"}
           /\ phase[s] # "waiting" => pipe[Other(s)][1].body \in {"data", "keepalive", "close"}
<1>0. /\ SessionTyped /\ Direction(s) /\ Direction(Other(s)) /\ Judged
      /\ Other(s) \in Sides /\ Other(s) # s /\ Other(Other(s)) = s
  BY OtherFacts DEF SessionInv
<1>1. PICK p \in Seq(Frames) : p = pipe[Other(s)]
  BY <1>0, SideTypes
<1>2. p # <<>>
  BY <1>1
<1>3. Len(p) \in Nat /\ 1 \in 1..Len(p) /\ p[1] \in Frames
  <2> HIDE DEF Frames
  <2> QED
    BY <1>2
<1>4. PICK c : Counts(p, c, rnext[s], Len(got[s]), Len(sent[Other(s)]))
  BY <1>0, <1>1 DEF Direction, Carried
<1>5. /\ p[1] # Torn /\ p[1].seq = rnext[s] + 1 - 1
  BY <1>1, <1>3, <1>4 DEF Counts
<1>6. p[1].seq = rnext[s] /\ rnext[s] \in Nat
  BY <1>0, <1>5, SideTypes
<1>7. phase[s] \in Established \union {"waiting"}
  BY DEF Reading, Established
<1>8. /\ p[1].body \in Bodies
      /\ Other(s) = "opener" =>
             /\ p[1].body \notin Verdicts
             /\ p[1].body = "open" => p[1].seq = 0
      /\ Other(s) = "responder" =>
             /\ p[1].body # "open"
             /\ p[1].seq = 0 => p[1].body \in Verdicts \union {"keepalive"}
  BY <1>0, <1>1, <1>3, <1>5 DEF Direction, InPlace
<1>9. phase[s] = "waiting" => p[1].body \in Verdicts \union {"keepalive"}
  <2> SUFFICES ASSUME phase[s] = "waiting" PROVE p[1].body \in Verdicts \union {"keepalive"}
    OBVIOUS
  <2>1. s = "opener"
    BY <1>0 DEF Direction, WritesInPhase
  <2>2. rnext[s] = 0 /\ Other(s) = "responder"
    BY <1>0, <2>1 DEF Judged, Unanswered, Other
  <2> QED
    BY <1>6, <1>8, <2>2
<1>10. phase[s] # "waiting" => p[1].body \in {"data", "keepalive", "close"}
  <2> SUFFICES ASSUME phase[s] \in Established PROVE p[1].body \in {"data", "keepalive", "close"}
    BY <1>7
  <2>1. CASE s = "opener"
    <3>1. p[1].body \notin Verdicts
      BY <1>0, <1>1, <1>3, <2>1 DEF Judged, Other
    <3> QED
      BY <1>8, <2>1, <3>1 DEF Other, Verdicts, Bodies
  <2>2. CASE s = "responder"
    <3>1. rnext[s] # 0
      BY <1>0, <2>2 DEF Judged, Established
    <3> QED
      BY <1>6, <1>8, <2>2, <3>1 DEF Other, Verdicts, Bodies
  <2> QED
    BY <2>1, <2>2 DEF Sides
<1> QED
  BY <1>1, <1>3, <1>5, <1>6, <1>9, <1>10

\* The end s takes the next frame, and becomes this.
Takes(s, ph, be, fa, cl, g) ==
    /\ phase' = [phase EXCEPT ![s] = ph] /\ beating' = [beating EXCEPT ![s] = be]
    /\ failed' = [failed EXCEPT ![s] = fa] /\ closed' = [closed EXCEPT ![s] = cl]
    /\ got' = [got EXCEPT ![s] = g] /\ rnext' = [rnext EXCEPT ![s] = rnext[s] + 1]
    /\ pipe' = [pipe EXCEPT ![Other(s)] = Tail(pipe[Other(s)])]
    /\ holder' = holder /\ body' = body /\ intact' = intact /\ wnext' = wnext
    /\ served' = served /\ sent' = sent

LEMMA TakesKeeps ==
    ASSUME SessionInv, NEW s \in Sides, Reading(s), pipe[Other(s)] # <<>>,
           pipe[Other(s)][1] = Torn => Len(pipe[Other(s)]) > 1,
           NEW ph \in Phases, NEW be \in BOOLEAN, NEW fa \in Ends, NEW cl \in BOOLEAN,
           NEW g \in Seq(Nat), Takes(s, ph, be, fa, cl, g),
           fa \notin {"sequence", "garbage", "unexpected"}, be => beating[s],
           \/ ph = phase[s] /\ phase[s] # "waiting"
           \/ ph = "open" /\ phase[s] = "waiting" /\ pipe[Other(s)][1].body = "accept"
           \/ ph = "gone" /\ phase[s] = "waiting" /\ ~be,
           \/ pipe[Other(s)][1].body = "data" /\ ~cl /\ g = Append(got[s], pipe[Other(s)][1].msg)
           \/ pipe[Other(s)][1].body = "close" /\ g = got[s]
           \/ pipe[Other(s)][1].body \notin {"data", "close"} /\ g = got[s] /\ ~cl
    PROVE  SessionInv'
<1>0. /\ SessionTyped /\ Direction(s) /\ Direction(Other(s)) /\ Judged /\ NoProtocolError
      /\ Other(s) \in Sides /\ Other(s) # s /\ Other(Other(s)) = s /\ ~closed[s]
  BY OtherFacts DEF SessionInv, Reading
<1>1. /\ pipe[Other(s)][1] # Torn /\ 1 \in 1..Len(pipe[Other(s)])
  BY NextFrame
<1>2. /\ pipe[Other(s)] \in Seq(Frames) /\ rnext[s] \in Nat /\ phase[s] \in Phases
      /\ holder[s] \in {"free", "app", "keepalive"} /\ closed[s] \in BOOLEAN
  BY <1>0, SideTypes
<1>3. Tail(pipe[Other(s)]) \in Seq(Frames)
  <2> HIDE DEF Frames
  <2> QED
    BY <1>2
<1>4. SessionTyped'
  <2>1. pipe' \in [Sides -> Seq(Frames)]
    <3> HIDE DEF Frames
    <3> QED
      BY <1>0, <1>3 DEF SessionTyped, Takes
  <2>2. phase' \in [Sides -> Phases] /\ failed' \in [Sides -> Ends]
    <3> HIDE DEF Phases, Ends
    <3> QED
      BY <1>0 DEF SessionTyped, Takes
  <2>3. beating' \in [Sides -> BOOLEAN] /\ closed' \in [Sides -> BOOLEAN]
    BY <1>0 DEF SessionTyped, Takes
  <2>4. rnext' \in [Sides -> Nat]
    <3>1. rnext \in [Sides -> Nat] /\ rnext' = [rnext EXCEPT ![s] = rnext[s] + 1]
      BY <1>0 DEF SessionTyped, Takes
    <3> QED
      BY <1>2, <3>1
  <2>5. got' \in [Sides -> Seq(Nat)]
    <3>1. got \in [Sides -> Seq(Nat)] /\ got' = [got EXCEPT ![s] = g]
      BY <1>0 DEF SessionTyped, Takes
    <3> QED
      BY <3>1
  <2> QED
    BY <1>0, <2>1, <2>2, <2>3, <2>4, <2>5 DEF SessionTyped, Takes
<1>5. /\ phase'[s] = ph /\ phase'[Other(s)] = phase[Other(s)]
      /\ beating'[Other(s)] = beating[Other(s)]
      /\ rnext'[s] = rnext[s] + 1 /\ rnext'[Other(s)] = rnext[Other(s)]
      /\ got'[s] = g /\ got'[Other(s)] = got[Other(s)]
      /\ closed'[Other(s)] = closed[Other(s)]
      /\ pipe'[s] = pipe[s]
      /\ holder'[s] = holder[s] /\ body'[s] = body[s] /\ intact'[s] = intact[s]
      /\ wnext'[s] = wnext[s] /\ sent'[s] = sent[s]
  BY <1>0 DEF SessionTyped, Takes
<1>6. pipe'[Other(s)] = Tail(pipe[Other(s)]) /\ served' = served
  BY <1>0 DEF SessionTyped, Takes
<1>7. beating'[s] = be /\ closed'[s] = cl
  BY <1>0 DEF SessionTyped, Takes
<1>8. Direction(Other(s))'
  <2>1. WriterSame(Other(s))
    BY <1>0, <1>5 DEF Takes, WriterSame
  <2>2. \/ /\ pipe[Other(s)][1].body = "data" /\ ~closed[s] /\ ~closed'[s]
           /\ got'[s] = Append(got[s], pipe[Other(s)][1].msg)
        \/ pipe[Other(s)][1].body = "close" /\ got'[s] = got[s]
        \/ /\ pipe[Other(s)][1].body \notin {"data", "close"} /\ got'[s] = got[s]
           /\ closed'[s] = closed[s]
    BY <1>0, <1>2, <1>5, <1>7
  <2> QED
    BY <1>0, <1>1, <1>5, <1>6, <2>1, <2>2, ReaderStep
<1>9. Direction(s)'
  <2>1. WritesInPhase(s)'
    <3>0. WritesInPhase(s) /\ (beating'[s] => beating[s])
      BY <1>0, <1>7 DEF Direction
    <3>1. CASE ph = phase[s]
      BY <1>5, <1>6, <3>0, <3>1 DEF WritesInPhase
    <3>2. CASE phase[s] = "waiting" /\ ph \in {"open", "gone"}
      BY <1>2, <1>5, <1>6, <3>0, <3>2 DEF WritesInPhase, Established, Verdicts
    <3> QED
      BY <3>1, <3>2
  <2>2. KeepsWord(s)
    BY <1>5 DEF KeepsWord, Left, Undecided, Unaccepted
  <2>3. ReaderSame(Other(s))
    BY <1>5 DEF ReaderSame
  <2> QED
    BY <1>0, <1>5, <1>6, <2>1, <2>2, <2>3, OwnSide
<1>10. Judged'
  <2>1. CASE s = "responder"
    <3>1. Other(s) = "opener"
      BY <2>1 DEF Other
    <3>2. phase[s] # "none" /\ phase[s] # "waiting" /\ rnext'[s] # 0
      BY <1>0, <1>2, <1>5, <2>1 DEF Direction, WritesInPhase, Reading
    <3>3. ph = phase[s]
      BY <3>2
    <3> QED
      BY <1>0, <1>5, <1>6, <2>1, <3>1, <3>2, <3>3 DEF Judged
  <2>2. CASE s = "opener"
    <3>1. Other(s) = "responder"
      BY <2>2 DEF Other
    <3>2. PICK q \in Seq(Frames) : q = pipe["responder"]
      BY <1>2, <3>1
    <3>3. /\ Len(pipe'["responder"]) = Len(q) - 1
          /\ \A i \in 1..Len(pipe'["responder"]) :
                /\ pipe'["responder"][i] = q[i + 1]
                /\ i + 1 \in 1..Len(q) /\ i + 1 # 1
      <4> HIDE DEF Frames
      <4>1. q # <<>> /\ pipe'["responder"] = Tail(q)
        BY <1>6, <3>1, <3>2
      <4> QED
        BY <4>1
    <3>4. phase'["opener"] \notin Unanswered /\ rnext'["opener"] # 0
      BY <1>2, <1>5, <2>2 DEF Unanswered, Reading
    <3>5. ASSUME ph \in Established
          PROVE  /\ served /\ phase["responder"] \notin Unaccepted
                 /\ \A i \in 1..Len(q) : i # 1 => q[i].body \notin Verdicts
      <4>1. CASE ph = phase[s]
        BY <1>0, <2>2, <3>2, <3>5, <4>1 DEF Judged
      <4>2. CASE ph = "open" /\ q[1].body = "accept"
        <5>1. /\ served /\ phase["responder"] \notin Unaccepted
              /\ \A j \in 1..Len(q) : q[j].body \in Verdicts => 1 = j
          BY <1>0, <1>1, <3>1, <3>2, <4>2 DEF Direction, InPlace, Verdicts
        <5> QED
          BY <5>1
      <4>3. ph # "gone"
        BY <3>5 DEF Established
      <4> QED
        BY <3>1, <3>2, <4>1, <4>2, <4>3
    <3> QED
      BY <1>0, <1>5, <1>6, <2>2, <3>1, <3>3, <3>4, <3>5 DEF Judged
  <2> QED
    BY <2>1, <2>2 DEF Sides
<1>11. NoProtocolError'
  BY <1>0 DEF NoProtocolError, Takes, SessionTyped
<1>12. \A x \in Sides : x = s \/ x = Other(s)
  BY DEF Sides, Other
<1> QED
  BY <1>4, <1>8, <1>9, <1>10, <1>11, <1>12 DEF SessionInv

\* SessionReceiver::recv and the opener's wait for its verdict.
LEMMA RecvKeeps == ASSUME SessionInv, NEW s \in Sides, Recv(s) PROVE SessionInv'
<1>0. /\ SessionTyped /\ Other(s) \in Sides /\ Other(s) # s
  BY OtherFacts DEF SessionInv
<1>1. PICK f : f = Head(pipe[Other(s)])
  OBVIOUS
<1>2. pipe[Other(s)] # <<>> /\ Reading(s)
  BY DEF Recv
<1>3. f = pipe[Other(s)][1]
  <2>1. pipe[Other(s)] \in Seq(Frames)
    BY <1>0, SideTypes
  <2> HIDE DEF Frames
  <2> QED
    BY <1>1, <1>2, <2>1
<1>4. f = Torn => Len(pipe[Other(s)]) > 1
  BY <1>1 DEF Recv
<1>5. /\ f # Torn /\ f.seq = rnext[s] /\ f \in Frames
      /\ phase[s] = "waiting" => f.body \in Verdicts \union {"keepalive"}
      /\ phase[s] # "waiting" => f.body \in {"data", "keepalive", "close"}
  BY <1>2, <1>3, <1>4, NextFrame
<1>6. /\ pipe' = [pipe EXCEPT ![Other(s)] = Tail(pipe[Other(s)])]
      /\ rnext' = [rnext EXCEPT ![s] = rnext[s] + 1]
      /\ phase[s] = "waiting" => TakeVerdict(s, f)
      /\ phase[s] # "waiting" => TakeFrame(s, f)
      /\ holder' = holder /\ body' = body /\ intact' = intact /\ wnext' = wnext
      /\ served' = served /\ sent' = sent
  BY <1>0, <1>1, <1>5 DEF Recv, SessionTyped, writer, bus
<1>7. /\ phase[s] \in Phases /\ beating[s] \in BOOLEAN /\ failed[s] \in Ends
      /\ closed[s] \in BOOLEAN /\ got[s] \in Seq(Nat) /\ ~closed[s] /\ failed[s] = "no"
  BY <1>0, <1>2, SideTypes DEF Reading
<1>8. /\ phase = [phase EXCEPT ![s] = phase[s]] /\ beating = [beating EXCEPT ![s] = beating[s]]
      /\ failed = [failed EXCEPT ![s] = failed[s]] /\ closed = [closed EXCEPT ![s] = closed[s]]
      /\ got = [got EXCEPT ![s] = got[s]]
  BY <1>0 DEF SessionTyped
<1>9. /\ "gone" \in Phases /\ "open" \in Phases
      /\ "no" \in Ends /\ "refused" \in Ends /\ "keepalive" \in Ends
  BY DEF Phases, Ends
<1>10. CASE phase[s] = "waiting" /\ f.body = "accept"
  <2>1. PICK be \in BOOLEAN, cl \in BOOLEAN : be = beating[s] /\ cl = closed[s]
    BY <1>7
  <2>2. phase' = [phase EXCEPT ![s] = "open"] /\ UNCHANGED <<beating, failed, closed, got>>
    BY <1>6, <1>10 DEF TakeVerdict
  <2>3. Takes(s, "open", be, "no", cl, got[s])
    BY <1>6, <1>7, <1>8, <2>1, <2>2 DEF Takes
  <2>4. (be => beating[s]) /\ ~cl
    BY <1>7, <2>1
  <2> QED
    BY <1>2, <1>3, <1>4, <1>7, <1>9, <1>10, <2>3, <2>4, TakesKeeps
<1>11. CASE phase[s] = "waiting" /\ f.body \in {"refuse", "keepalive"}
  <2>1. PICK cl \in BOOLEAN, be \in BOOLEAN : cl = closed[s] /\ be = FALSE
    BY <1>7
  <2>2. PICK fa \in {"refused", "keepalive"} : Fail(s, fa)
    BY <1>6, <1>11 DEF TakeVerdict
  <2>3. /\ phase' = [phase EXCEPT ![s] = "gone"] /\ beating' = [beating EXCEPT ![s] = FALSE]
        /\ failed' = [failed EXCEPT ![s] = fa] /\ UNCHANGED <<closed, got>>
    BY <1>11, <2>2 DEF Fail, LetGo
  <2>4. Takes(s, "gone", be, fa, cl, got[s])
    BY <1>6, <1>8, <2>1, <2>3 DEF Takes
  <2>5. (be => beating[s]) /\ ~be /\ ~cl /\ fa \in Ends
    BY <1>7, <1>9, <2>1, <2>2
  <2>6. fa \notin {"sequence", "garbage", "unexpected"} /\ f.body \notin {"data", "close"}
    BY <1>11, <2>2
  <2> QED
    BY <1>2, <1>3, <1>4, <1>7, <1>9, <1>11, <2>4, <2>5, <2>6, TakesKeeps
<1>12. CASE phase[s] # "waiting" /\ f.body \in {"data", "keepalive"}
  <2>1. PICK cl \in BOOLEAN, be \in BOOLEAN : cl = closed[s] /\ be = beating[s]
    BY <1>7
  <2>2. PICK g \in Seq(Nat) : g = IF f.body = "data" THEN Append(got[s], f.msg) ELSE got[s]
    <3>1. f.msg \in Nat
      BY <1>5 DEF Frames
    <3>2. Append(got[s], f.msg) \in Seq(Nat)
      BY <1>7, <3>1
    <3> QED
      BY <1>7, <3>2
  <2>3. got' = [got EXCEPT ![s] = g] /\ UNCHANGED <<phase, beating, failed, closed>>
    BY <1>0, <1>6, <1>8, <1>12, <2>2 DEF TakeFrame, life, SessionTyped
  <2>4. Takes(s, phase[s], be, "no", cl, g)
    BY <1>6, <1>7, <1>8, <2>1, <2>3 DEF Takes
  <2>5. (be => beating[s]) /\ ~cl
    BY <1>7, <2>1
  <2>6. \/ f.body = "data" /\ ~cl /\ g = Append(got[s], f.msg)
        \/ f.body \notin {"data", "close"} /\ g = got[s] /\ ~cl
    BY <1>12, <2>2, <2>5
  <2>7. "no" \notin {"sequence", "garbage", "unexpected"}
    OBVIOUS
  <2> QED
    BY SMTT(30), <1>2, <1>3, <1>4, <1>7, <1>9, <1>12, <2>4, <2>5, <2>6, <2>7, TakesKeeps
<1>13. CASE phase[s] # "waiting" /\ f.body = "close"
  <2>1. PICK cl \in BOOLEAN, be \in BOOLEAN : cl = TRUE /\ be = beating[s]
    BY <1>7
  <2>2. closed' = [closed EXCEPT ![s] = TRUE] /\ UNCHANGED <<phase, beating, failed, got>>
    BY <1>6, <1>13 DEF TakeFrame, life
  <2>3. Takes(s, phase[s], be, "no", cl, got[s])
    BY <1>6, <1>7, <1>8, <2>1, <2>2 DEF Takes
  <2>4. be => beating[s]
    BY <2>1
  <2> QED
    BY <1>2, <1>3, <1>4, <1>7, <1>9, <1>13, <2>3, <2>4, TakesKeeps
<1> QED
  BY <1>5, <1>10, <1>11, <1>12, <1>13 DEF Verdicts

-------------------------------------------------------------------------------
(* Sessions: the theorem *)

LEMMA SessionSame ==
    ASSUME SessionInv,
           UNCHANGED <<phase, holder, body, intact, wnext, pipe, rnext, closed, failed,
                       beating, served, sent, got>>
    PROVE  SessionInv'
<1>1. SessionTyped' /\ Judged' /\ NoProtocolError'
  BY DEF SessionInv, SessionTyped, Judged, NoProtocolError
<1>2. ASSUME NEW s \in Sides PROVE Direction(s)'
  <2>1. WriterSame(s) /\ ReaderSame(Other(s))
    BY DEF WriterSame, ReaderSame
  <2> QED
    BY <2>1, DirectionSame DEF SessionInv
<1> QED
  BY <1>1, <1>2 DEF SessionInv

LEMMA SessionInvStep == SessionInv /\ [Next]_vars => SessionInv'
<1> SUFFICES ASSUME SessionInv, [Next]_vars PROVE SessionInv'
  OBVIOUS
<1>1. CASE Initiate \/ (\E v \in {"accept", "refuse"} : Decide(v)) \/ RefusalFails
  BY <1>1, WriterStep DEF Sides
<1>2. CASE Admit
  BY <1>2, AdmitKeeps
<1>3. ASSUME NEW s \in Sides,
             \/ EndWrite(s) \/ AbandonWrite(s)
             \/ Send(s) \/ SayGoodbye(s) \/ CloseStream(s)
             \/ Beat(s) \/ BeatFails(s)
             \/ Recv(s) \/ RecvFails(s)
             \/ \E h \in {"tx", "rx"} : DropHalf(s, h)
             \/ Drop(s)
      PROVE  SessionInv'
  <2>1. CASE Send(s)
    BY <2>1, SendKeeps
  <2>2. CASE Recv(s)
    BY <2>2, RecvKeeps
  <2> QED
    BY <1>3, <2>1, <2>2, WriterStep
<1>4. CASE GraceExpires
  <2>1. Drop("responder") /\ "responder" \in Sides
    BY <1>4 DEF GraceExpires, Sides
  <2> QED
    BY <2>1, WriterStep
<1>5. CASE Shutdown \/ Stop \/ UNCHANGED vars
  BY <1>5, SessionSame DEF Shutdown, Stop, vars, life, writer, reader, bus
<1> QED
  BY <1>1, <1>2, <1>3, <1>4, <1>5 DEF Next

\* What the invariant says to the applications.
LEMMA SessionInvTells == SessionInv => SessionIsFaithful
<1> SUFFICES ASSUME SessionInv PROVE SessionIsFaithful
  OBVIOUS
<1>1. ASSUME NEW s \in Sides
      PROVE  /\ IsPrefix(got[s], sent[Other(s)])
             /\ closed[s] => got[s] = sent[Other(s)]
  <2>0. /\ SessionTyped /\ Direction(Other(s)) /\ Other(s) \in Sides /\ Other(Other(s)) = s
    BY OtherFacts DEF SessionInv
  <2>1. PICK g \in Seq(Nat), t \in Seq(Nat) : g = got[s] /\ t = sent[Other(s)]
    BY <2>0, SideTypes
  <2>2. /\ \A i \in 1..Len(t) : t[i] = i
        /\ \A i \in 1..Len(g) : g[i] = i
    BY <2>0, <2>1 DEF Direction, Numbered
  <2>3. Len(g) <= Len(t)
    <3>1. PICK c : Counts(pipe[Other(s)], c, rnext[s], Len(g), Len(t))
      BY <2>0, <2>1 DEF Direction, Carried
    <3>2. 0 \in 0..Len(pipe[Other(s)])
      BY <2>0, SideTypes
    <3> QED
      BY <3>1, <3>2 DEF Counts
  <2>4. IsPrefix(g, t)
    <3>1. PICK n \in Nat : n = Len(g) /\ n <= Len(t) /\ Len(t) \in Nat
      BY <2>3
    <3>2. /\ SubSeq(g, 1, n) = [i \in 1..n |-> g[i]] /\ SubSeq(t, 1, n) = [i \in 1..n |-> t[i]]
      BY <3>1
    <3>3. [i \in 1..n |-> g[i]] = [i \in 1..n |-> t[i]]
      BY <2>2, <3>1
    <3> QED
      BY <2>3, <3>1, <3>2, <3>3 DEF IsPrefix
  <2>5. ASSUME closed[s] PROVE g = t
    <3>1. Len(g) = Len(t)
      BY <2>0, <2>1, <2>5 DEF Direction, GoodbyeIsLast
    <3> QED
      BY <2>1, <2>2, <3>1
  <2> QED
    BY <2>1, <2>4, <2>5
<1>2. OpenIsAccepted
  <2>1. /\ Judged /\ phase["responder"] \in Phases
        /\ phase["responder"] \notin {"opening", "waiting"}
    BY SideTypes DEF SessionInv, Direction, WritesInPhase, Sides
  <2> QED
    BY <2>1 DEF OpenIsAccepted, Judged, Established, Unaccepted, Undecided, Phases
<1> QED
  BY <1>1, <1>2 DEF SessionIsFaithful, CloseIsComplete, SessionInv

\* Whatever writes are cancelled, halves dropped and buses closed, and in whatever order
\* the two ends and their keepalive tasks run, an application receives what the other sent
\* without gaps, all of it when the close was clean; neither end meets a protocol error of
\* the other; and no opener has a session that was not accepted (session.rs).
THEOREM SessionsAreFaithful == Spec => []SessionIsFaithful
<1>1. SessionInv => SessionIsFaithful
  BY SessionInvTells
<1> QED
  BY <1>1, SessionInvInit, SessionInvStep, PTL DEF Spec

-------------------------------------------------------------------------------
(* The iroh transport: the inductive invariant *)

Parties == Keys \cup {None}
Listeners ==
    [phase : {"none", "incoming", "bi", "hello", "answered", "read"},
     kind : {"none", "accept", "reply"}, cert : Parties, aborted : BOOLEAN]
Calls ==
    [pc : {"rest", "resolve", "dial", "reverse", "back", "hello", "bound", "drain"},
     kind : {"none", "send", "request", "stream", "reply"}, target : Parties,
     conn : Conns \cup {None}, first : BOOLEAN]

IrohTyped ==
    /\ conn \in [Conns -> [by : {"nobody", "peer", "us"}, key : Parties, up : BOOLEAN]]
    /\ listener \in [Conns -> Listeners]
    /\ call \in Calls
    /\ queue \in Seq([carrier : Parties, conn : Conns])
    /\ taken \in Conns \cup {None}

\* The connection exists: its key is never another's.
Used(k) == k \in Conns /\ conn[k].by # "nobody"

\* A task reads a connection that exists, and what it reads comes from who has its key.
ListenersBound ==
    \A k \in Conns :
        /\ Listening(k) => Used(k)
        /\ listener[k].phase = "read" => listener[k].cert = conn[k].key

\* A call of the bus that has its connection, and one past the Hello, which is with its target.
Connected == call.pc \in {"hello", "bound", "drain"}
CallBound ==
    /\ Connected => Used(call.conn)
    /\ call.pc \in {"bound", "drain"} => call.target = conn[call.conn].key
    /\ call.pc = "drain" =>
         [conn |-> call.conn, target |-> call.target, kind |-> call.kind] \in wrote
    /\ call.first => call.kind = "reply"

\* What waits for the bus, and what it holds, came by a connection that exists.
InboundBound ==
    /\ \A i \in 1..Len(queue) : Used(queue[i].conn)
    /\ taken # None => Used(taken)

HeardBound == \A h \in heard : Used(h.conn) /\ h.carrier = conn[h.conn].key
WroteBound == \A w \in wrote : Used(w.conn) /\ w.target = conn[w.conn].key

Asked(k) == \E w \in wrote : w.conn = k /\ w.kind = "request"
Unheard(k) == \A h \in heard : h.conn # k

\* Outbound-only: a task waits for the first answer to a request, on a connection of that
\* request's own.
OutboundOnly ==
    posture = "outbound" =>
        /\ \A k \in Conns : Listening(k) => listener[k].kind = "reply" /\ Asked(k) /\ Unheard(k)
        /\ \A h \in heard : Asked(h.conn) /\ h.nth = 1
        /\ Connected /\ call.kind = "request" => ~Listening(call.conn) /\ Unheard(call.conn)

IrohInv ==
    /\ IrohTyped
    /\ ListenersBound
    /\ CallBound
    /\ InboundBound
    /\ HeardBound
    /\ WroteBound
    /\ OutboundOnly

LEMMA IrohBegins == IrohInit => IrohInv
  <1> SUFFICES ASSUME IrohInit PROVE IrohInv
    OBVIOUS
  <1> USE DEF IrohInit, NoConn, NoReader, Idle
  <1>1. IrohTyped
    BY DEF IrohTyped, Parties, Listeners, Calls
  <1>2. ListenersBound /\ CallBound /\ InboundBound
    BY DEF ListenersBound, Listening, CallBound, Connected, InboundBound
  <1>3. HeardBound /\ WroteBound /\ OutboundOnly
    BY DEF HeardBound, WroteBound, OutboundOnly, Listening, Connected
  <1> QED BY <1>1, <1>2, <1>3 DEF IrohInv

-------------------------------------------------------------------------------
(* The iroh transport: steps *)

\* Tasks change: each goes on reading, is told to end, or has ended.
GoesOn(k) ==
    /\ Listening(k)' => Listening(k) /\ listener'[k].kind = listener[k].kind
    /\ listener'[k].phase = "read" => listener'[k].cert = conn[k].key

LEMMA ListenersKeep ==
    ASSUME IrohInv, UNCHANGED <<posture, conn, call, queue, taken, heard, wrote>>,
           listener' \in [Conns -> Listeners], \A k \in Conns : GoesOn(k)
    PROVE  IrohInv'
  <1>1. IrohTyped'
    BY DEF IrohInv, IrohTyped
  <1>2. ListenersBound'
    BY DEF IrohInv, ListenersBound, GoesOn, Used
  <1>3. CallBound' /\ InboundBound'
    BY DEF IrohInv, CallBound, InboundBound, Connected, Used
  <1>4. HeardBound' /\ WroteBound'
    BY DEF IrohInv, HeardBound, WroteBound, Used
  <1>5. OutboundOnly'
    <2>1. ASSUME Connected, Listening(call.conn)' PROVE Listening(call.conn)
      BY <2>1 DEF IrohInv, CallBound, GoesOn, Used
    <2> QED
      BY <2>1 DEF IrohInv, OutboundOnly, GoesOn, Connected, Asked, Unheard
  <1> QED BY <1>1, <1>2, <1>3, <1>4, <1>5 DEF IrohInv

\* One task goes on, and the others as they were.
LEMMA ListenerKeeps ==
    ASSUME IrohInv, UNCHANGED <<posture, conn, call, queue, taken, heard, wrote>>,
           NEW k \in Conns, NEW l \in Listeners, listener' = [listener EXCEPT ![k] = l],
           l.phase # "none" => Listening(k) /\ l.kind = listener[k].kind,
           l.phase = "read" => l.cert = conn[k].key
    PROVE  IrohInv'
  <1>1. listener' \in [Conns -> Listeners]
    BY DEF IrohInv, IrohTyped
  <1>2. ASSUME NEW j \in Conns PROVE GoesOn(j)
    BY DEF IrohInv, IrohTyped, GoesOn, Listening, ListenersBound
  <1> QED BY <1>1, <1>2, ListenersKeep

\* The call of the bus goes on, as long as it does not pass the Hello but with its target.
LEMMA CallKeeps ==
    ASSUME IrohInv, UNCHANGED <<posture, conn, listener, queue, taken, heard, wrote>>,
           call' \in Calls, CallBound',
           Connected' /\ call'.kind = "request" =>
               Connected /\ call.kind = "request" /\ call'.conn = call.conn
    PROVE  IrohInv'
  <1>1. IrohTyped' /\ ListenersBound'
    BY DEF IrohInv, IrohTyped, ListenersBound, Listening, Used
  <1>2. InboundBound' /\ HeardBound' /\ WroteBound'
    BY DEF IrohInv, InboundBound, HeardBound, WroteBound, Used
  <1>3. OutboundOnly'
    BY DEF IrohInv, OutboundOnly, Listening, Asked, Unheard
  <1> QED BY <1>1, <1>2, <1>3 DEF IrohInv

\* Connections go down; none changes hands.
LEMMA DownKeeps ==
    ASSUME IrohInv, UNCHANGED <<posture, listener, call, queue, taken, heard, wrote>>,
           conn' \in [Conns -> [by : {"nobody", "peer", "us"}, key : Parties, up : BOOLEAN]],
           \A k \in Conns : conn'[k].by = conn[k].by /\ conn'[k].key = conn[k].key
    PROVE  IrohInv'
  <1>1. \A k : Used(k)' <=> Used(k)
    BY DEF Used
  <1>2. IrohTyped' /\ ListenersBound'
    BY <1>1 DEF IrohInv, IrohTyped, ListenersBound, Listening
  <1>3. CallBound'
    BY <1>1 DEF IrohInv, CallBound, Connected, Used
  <1>4. InboundBound' /\ HeardBound' /\ WroteBound'
    BY <1>1 DEF IrohInv, InboundBound, HeardBound, WroteBound, Used
  <1>5. OutboundOnly'
    BY DEF IrohInv, OutboundOnly, Listening, Asked, Unheard, Connected
  <1> QED BY <1>2, <1>3, <1>4, <1>5 DEF IrohInv

\* A task for a connection that has just come in or been made.
Fresh(k, c) ==
    /\ ~Used(k) /\ k \in Conns
    /\ c \in [by : {"peer", "us"}, key : Parties, up : BOOLEAN]
    /\ conn' = [conn EXCEPT ![k] = c]

\* Nothing was known of a connection that did not exist.
LEMMA FreshFacts ==
    ASSUME IrohInv, NEW k, NEW c, Fresh(k, c)
    PROVE  /\ conn' \in [Conns -> [by : {"nobody", "peer", "us"}, key : Parties, up : BOOLEAN]]
           /\ Used(k)' /\ Unheard(k) /\ ~Listening(k)
           /\ \A j : Used(j) => j # k /\ Used(j)' /\ conn'[j] = conn[j]
  <1>1. conn' \in [Conns -> [by : {"nobody", "peer", "us"}, key : Parties, up : BOOLEAN]]
    BY DEF Fresh, IrohInv, IrohTyped
  <1>2. Used(k)' /\ \A j : Used(j) => j # k /\ Used(j)' /\ conn'[j] = conn[j]
    BY DEF Fresh, Used, IrohInv, IrohTyped
  <1>3. Unheard(k) /\ ~Listening(k)
    BY DEF Fresh, Unheard, IrohInv, HeardBound, ListenersBound
  <1> QED BY <1>1, <1>2, <1>3

LEMMA IncomingKeeps ==
    ASSUME IrohInv, NEW k \in Conns, NEW key \in Keys, Incoming(k, key)
    PROVE  IrohInv'
  <1>1. UNCHANGED <<posture, call, queue, taken, heard, wrote>>
    BY DEF Incoming
  <1>2. CASE posture = "outbound"
    <2>1. UNCHANGED <<conn, listener>>
      BY <1>2 DEF Incoming
    <2>2. listener \in [Conns -> Listeners]
      BY DEF IrohInv, IrohTyped
    <2>3. \A j \in Conns : GoesOn(j)
      BY <2>1 DEF GoesOn, Listening, IrohInv, ListenersBound
    <2> QED BY <1>1, <2>1, <2>2, <2>3, ListenersKeep
  <1>3. CASE posture # "outbound"
    <2>1. PICK c : c = [by |-> "peer", key |-> key, up |-> TRUE]
      OBVIOUS
    <2>2. /\ conn' = [conn EXCEPT ![k] = c]
          /\ listener' = [listener EXCEPT ![k] =
                             [phase |-> "incoming", kind |-> "accept", cert |-> None, aborted |-> FALSE]]
      BY <1>3, <2>1 DEF Incoming, Spawned
    <2>3. Fresh(k, c)
      BY <2>1, <2>2 DEF Fresh, Incoming, Unused, Used, Parties
    <2>4. /\ conn' \in [Conns -> [by : {"nobody", "peer", "us"}, key : Parties, up : BOOLEAN]]
          /\ Used(k)' /\ Unheard(k) /\ ~Listening(k)
          /\ \A j : Used(j) => j # k /\ Used(j)' /\ conn'[j] = conn[j]
      BY <2>3, FreshFacts
    <2>5. IrohTyped'
      BY <1>1, <2>2, <2>4 DEF IrohInv, IrohTyped, Listeners, Parties
    <2>6. ListenersBound'
      BY <2>2, <2>4 DEF IrohInv, IrohTyped, ListenersBound, Listening
    <2>7. CallBound'
      BY <1>1, <2>4 DEF IrohInv, CallBound, Connected
    <2>8. InboundBound' /\ HeardBound' /\ WroteBound'
      BY <1>1, <2>4 DEF IrohInv, InboundBound, HeardBound, WroteBound
    <2>9. OutboundOnly'
      BY <1>1, <1>3 DEF OutboundOnly
    <2> QED BY <2>5, <2>6, <2>7, <2>8, <2>9 DEF IrohInv
  <1> QED BY <1>2, <1>3

LEMMA DialKeeps ==
    ASSUME IrohInv, NEW k \in Conns, Dial(k)
    PROVE  IrohInv'
  <1>1. PICK c : c = [by |-> "us", key |-> call.target, up |-> TRUE]
    OBVIOUS
  <1>2. /\ conn' = [conn EXCEPT ![k] = c] /\ call' = [call EXCEPT !.pc = "hello", !.conn = k]
        /\ UNCHANGED <<posture, listener, queue, taken, heard, wrote>>
    BY <1>1 DEF Dial
  <1>3. call \in Calls
    BY DEF IrohInv, IrohTyped
  <1>4. /\ call' \in Calls /\ call'.pc = "hello" /\ call'.conn = k
        /\ call'.first = call.first /\ call'.kind = call.kind
    BY <1>2, <1>3 DEF Calls
  <1>5. Fresh(k, c)
    BY <1>1, <1>2, <1>3 DEF Fresh, Dial, Unused, Used, Calls
  <1>6. /\ conn' \in [Conns -> [by : {"nobody", "peer", "us"}, key : Parties, up : BOOLEAN]]
        /\ Used(k)' /\ Unheard(k) /\ ~Listening(k)
        /\ \A j : Used(j) => j # k /\ Used(j)' /\ conn'[j] = conn[j]
    BY <1>5, FreshFacts
  <1>7. IrohTyped' /\ ListenersBound'
    BY <1>2, <1>4, <1>6 DEF IrohInv, IrohTyped, ListenersBound, Listening, Listeners
  <1>8. CallBound'
    BY <1>4, <1>6 DEF IrohInv, CallBound, Connected
  <1>9. InboundBound' /\ HeardBound' /\ WroteBound'
    BY <1>2, <1>6 DEF IrohInv, InboundBound, HeardBound, WroteBound
  <1>10. OutboundOnly'
    BY <1>2, <1>4, <1>6 DEF IrohInv, OutboundOnly, Listening, Asked, Unheard
  <1> QED BY <1>7, <1>8, <1>9, <1>10 DEF IrohInv

LEMMA EnvelopeKeeps ==
    ASSUME IrohInv, NEW k \in Conns, EnvelopeRead(k)
    PROVE  IrohInv'
  <1>1. PICK e, h :
            /\ e = [carrier |-> listener[k].cert, conn |-> k]
            /\ h = [carrier |-> listener[k].cert, conn |-> k,
                    nth |-> Cardinality({g \in heard : g.conn = k}) + 1]
    OBVIOUS
  <1>2. /\ listener[k].phase = "read" /\ queue' = Append(queue, e) /\ heard' = heard \cup {h}
        /\ AfterEnvelope(k) /\ UNCHANGED <<posture, conn, call, taken, wrote>>
    BY <1>1 DEF EnvelopeRead
  <1>3. Used(k) /\ Listening(k) /\ listener[k].cert = conn[k].key
    BY <1>2 DEF IrohInv, ListenersBound, Listening
  <1>4. e \in [carrier : Parties, conn : Conns] /\ e.conn = k
    BY <1>1 DEF IrohInv, IrohTyped, Listeners
  <1>5. PICK l \in Listeners :
            /\ listener' = [listener EXCEPT ![k] = l] /\ l.phase # "read"
            /\ l.phase # "none" => listener[k].kind # "reply" /\ l.kind = listener[k].kind
    <2>1. CASE listener[k].kind = "reply"
      <3>1. listener' = [listener EXCEPT ![k] = NoReader]
        BY <1>2, <2>1 DEF AfterEnvelope, ListenerEnds
      <3>2. NoReader \in Listeners /\ NoReader.phase = "none"
        BY DEF NoReader, Listeners, Parties
      <3> QED BY <3>1, <3>2
    <2>2. CASE listener[k].kind # "reply"
      <3>1. listener' = [listener EXCEPT ![k].phase = "bi", ![k].cert = None]
        BY <1>2, <2>2 DEF AfterEnvelope, NextStream
      <3>2. PICK l : l = [listener[k] EXCEPT !.phase = "bi", !.cert = None]
        OBVIOUS
      <3>3. l \in Listeners /\ l.phase = "bi" /\ l.kind = listener[k].kind
        BY <3>2 DEF IrohInv, IrohTyped, Listeners, Parties
      <3>4. listener' = [listener EXCEPT ![k] = l]
        BY <3>1, <3>2 DEF IrohInv, IrohTyped, Listeners
      <3> QED BY <2>2, <3>3, <3>4
    <2> QED BY <2>1, <2>2
  <1>6. listener' \in [Conns -> Listeners]
    BY <1>5 DEF IrohInv, IrohTyped
  <1>7. queue \in Seq([carrier : Parties, conn : Conns])
    BY DEF IrohInv, IrohTyped
  <1>8. queue' \in Seq([carrier : Parties, conn : Conns])
    BY <1>2, <1>4, <1>7
  <1>9. IrohTyped'
    BY <1>2, <1>6, <1>8 DEF IrohInv, IrohTyped
  <1>10. ListenersBound'
    BY <1>2, <1>3, <1>5 DEF IrohInv, IrohTyped, ListenersBound, Listening, Used
  <1>11. CallBound'
    BY <1>2 DEF IrohInv, CallBound, Connected, Used
  <1>12. InboundBound'
    <2>1. ASSUME NEW i \in 1..Len(queue') PROVE Used(queue'[i].conn)
      BY <1>2, <1>3, <1>4, <1>7 DEF IrohInv, InboundBound
    <2> QED BY <1>2, <2>1 DEF IrohInv, InboundBound, Used
  <1>13. HeardBound' /\ WroteBound'
    BY <1>1, <1>2, <1>3 DEF IrohInv, HeardBound, WroteBound, Used
  <1>14. OutboundOnly'
    <2> SUFFICES ASSUME posture = "outbound" PROVE OutboundOnly'
      BY <1>2 DEF OutboundOnly
    <2>1. listener[k].kind = "reply" /\ Asked(k) /\ Unheard(k)
      BY <1>3 DEF IrohInv, OutboundOnly
    <2>2. ~Listening(k)' /\ \A j \in Conns : j # k => listener'[j] = listener[j]
      BY <1>5, <2>1 DEF IrohInv, IrohTyped, Listening
    <2>3. {g \in heard : g.conn = k} = {}
      BY <2>1 DEF Unheard
    <2>4. h.nth = 1 /\ h.conn = k
      BY <1>1, <2>3, FS_EmptySet
    <2>5. \A g \in heard' : Asked(g.conn)' /\ g.nth = 1
      BY <1>2, <2>1, <2>4 DEF IrohInv, OutboundOnly, Asked
    <2>6. \A j \in Conns :
             Listening(j)' => listener'[j].kind = "reply" /\ Asked(j)' /\ Unheard(j)'
      BY <1>2, <2>2, <2>4 DEF IrohInv, OutboundOnly, Asked, Unheard, Listening
    <2>7. ASSUME Connected, call.kind = "request"
          PROVE  ~Listening(call.conn)' /\ Unheard(call.conn)'
      <3>1. ~Listening(call.conn) /\ Unheard(call.conn) /\ call.conn \in Conns
        BY <2>7 DEF IrohInv, OutboundOnly, CallBound, Used
      <3>2. call.conn # k
        BY <1>3, <3>1
      <3> QED BY <1>2, <2>2, <2>4, <3>1, <3>2 DEF Listening, Unheard
    <2> QED BY <1>2, <2>5, <2>6, <2>7 DEF OutboundOnly, Connected
  <1> QED BY <1>9, <1>10, <1>11, <1>12, <1>13, <1>14 DEF IrohInv

LEMMA WriteKeeps ==
    ASSUME IrohInv, Write
    PROVE  IrohInv'
  <1>1. PICK w : w = [conn |-> call.conn, target |-> call.target, kind |-> call.kind]
    OBVIOUS
  <1>2. /\ call.pc = "bound" /\ wrote' = wrote \cup {w}
        /\ call' = IF call.kind = "stream" THEN Idle ELSE [call EXCEPT !.pc = "drain"]
        /\ UNCHANGED <<posture, conn, listener, queue, taken, heard>>
    BY <1>1 DEF Write
  <1>3. call \in Calls /\ Used(call.conn) /\ call.target = conn[call.conn].key
    BY <1>2 DEF IrohInv, IrohTyped, CallBound, Connected
  <1>4. /\ call' \in Calls
        /\ \/ call'.pc = "rest" /\ ~call'.first
           \/ /\ call'.pc = "drain" /\ call'.conn = call.conn /\ call'.target = call.target
              /\ call'.kind = call.kind /\ call'.first = call.first
    BY <1>2, <1>3 DEF Calls, Idle, Parties
  <1>5. IrohTyped' /\ ListenersBound'
    BY <1>2, <1>4 DEF IrohInv, IrohTyped, ListenersBound, Listening, Used
  <1>6. CallBound'
    BY <1>1, <1>2, <1>3, <1>4 DEF IrohInv, CallBound, Connected, Used
  <1>7. InboundBound' /\ HeardBound'
    BY <1>2 DEF IrohInv, InboundBound, HeardBound, Used
  <1>8. WroteBound'
    BY <1>1, <1>2, <1>3 DEF IrohInv, WroteBound, Used
  <1>9. \A k : Asked(k) => Asked(k)'
    BY <1>2 DEF Asked
  <1>10. OutboundOnly'
    BY <1>2, <1>4, <1>9 DEF IrohInv, OutboundOnly, Listening, Unheard, Connected
  <1> QED BY <1>5, <1>6, <1>7, <1>8, <1>10 DEF IrohInv

\* A request leaves a reader on its connection, which nobody has read.
LEMMA DrainedKeeps ==
    ASSUME IrohInv, Drained
    PROVE  IrohInv'
  <1>1. /\ call.pc = "drain" /\ call' = Idle
        /\ UNCHANGED <<posture, conn, queue, taken, heard, wrote>>
    BY DEF Drained
  <1>2. /\ call' \in Calls /\ ~Connected' /\ ~call'.first
        /\ CallBound'
    BY <1>1 DEF Idle, Calls, Parties, Connected, CallBound
  <1>3. CASE call.kind # "request"
    <2>1. UNCHANGED listener
      BY <1>3 DEF Drained
    <2> QED BY <1>1, <1>2, <2>1, CallKeeps
  <1>4. CASE call.kind = "request"
    <2>1. PICK k, l : k = call.conn
                      /\ l = [phase |-> "bi", kind |-> "reply", cert |-> None, aborted |-> FALSE]
      OBVIOUS
    <2>2. listener' = [listener EXCEPT ![k] = l]
      BY <1>4, <2>1 DEF Drained, Spawned
    <2>3. Used(k) /\ k \in Conns
      BY <1>1, <2>1 DEF IrohInv, CallBound, Connected, Used
    <2>4. Asked(k) /\ (posture = "outbound" => Unheard(k))
      BY <1>1, <1>4, <2>1 DEF IrohInv, CallBound, OutboundOnly, Connected, Asked
    <2>5. l \in Listeners /\ l.phase = "bi" /\ l.kind = "reply"
      BY <2>1 DEF Listeners, Parties
    <2>6. IrohTyped'
      BY <1>1, <1>2, <2>2, <2>5 DEF IrohInv, IrohTyped
    <2>7. ListenersBound'
      BY <1>1, <2>2, <2>3, <2>5 DEF IrohInv, IrohTyped, ListenersBound, Listening, Used
    <2>8. InboundBound' /\ HeardBound' /\ WroteBound'
      BY <1>1 DEF IrohInv, InboundBound, HeardBound, WroteBound, Used
    <2>9. OutboundOnly'
      BY <1>1, <1>2, <2>2, <2>3, <2>4, <2>5
         DEF IrohInv, IrohTyped, OutboundOnly, Listening, Asked, Unheard
    <2> QED BY <1>2, <2>6, <2>7, <2>8, <2>9 DEF IrohInv
  <1> QED BY <1>3, <1>4

LEMMA TakenKeeps ==
    ASSUME IrohInv, RecvEnvelope
    PROVE  IrohInv'
  <1>1. /\ queue # <<>> /\ queue' = Tail(queue) /\ taken' \in {taken, Head(queue).conn}
        /\ UNCHANGED <<posture, conn, listener, call, heard, wrote>>
    BY DEF RecvEnvelope
  <1>2. queue \in Seq([carrier : Parties, conn : Conns])
    BY DEF IrohInv, IrohTyped
  <1>3. /\ queue' \in Seq([carrier : Parties, conn : Conns]) /\ Head(queue) = queue[1]
        /\ 1 \in 1..Len(queue)
        /\ \A i \in 1..Len(queue') : queue'[i] = queue[i + 1] /\ i + 1 \in 1..Len(queue)
    BY <1>1, <1>2
  <1>4. \A i \in 1..Len(queue) : Used(queue[i].conn)
    BY DEF IrohInv, InboundBound
  <1>5. Head(queue).conn \in Conns
    BY <1>3, <1>4 DEF Used
  <1>6. IrohTyped' /\ ListenersBound'
    BY <1>1, <1>3, <1>5 DEF IrohInv, IrohTyped, ListenersBound, Listening, Used
  <1>7. \A i \in 1..Len(queue') : Used(queue'[i].conn)
    BY <1>3, <1>4
  <1>8. taken' # None => Used(taken')
    BY <1>1, <1>3, <1>4 DEF IrohInv, InboundBound
  <1>9. InboundBound'
    BY <1>1, <1>7, <1>8 DEF InboundBound, Used
  <1>10. CallBound' /\ HeardBound' /\ WroteBound'
    BY <1>1 DEF IrohInv, CallBound, HeardBound, WroteBound, Connected, Used
  <1>11. OutboundOnly'
    BY <1>1 DEF IrohInv, OutboundOnly, Listening, Asked, Unheard, Connected
  <1> QED BY <1>6, <1>9, <1>10, <1>11 DEF IrohInv

\* A call that fails, is made, finds its peer, or has its Hello answered.
LEMMA CallsKeep ==
    ASSUME IrohInv,
           \/ DialBack \/ DialFails \/ StreamFails
           \/ \E p \in Keys \cup {None} : ResolvePeer(p)
           \/ \E c \in Keys : HelloAnswered(c)
           \/ \E kind \in {"send", "request", "stream"}, p \in Peers, how \in {"resolve", "dial"} :
                 Call(kind, p, how)
           \/ \E p \in Peers : Reply(p)
    PROVE  IrohInv'
  <1>0. call \in Calls /\ CallBound /\ InboundBound /\ taken \in Conns \cup {None}
    BY DEF IrohInv, IrohTyped
  <1>1. ASSUME CallFails, UNCHANGED <<posture, conn, listener, queue, taken, heard, wrote>>
        PROVE  IrohInv'
    <2>1. /\ call' \in Calls /\ ~Connected'
          /\ call'.first => call'.kind = "reply"
      BY <1>0, <1>1 DEF CallFails, Idle, Calls, Parties, Connected, CallBound
    <2>2. CallBound'
      BY <2>1 DEF CallBound, Connected
    <2> QED BY <1>1, <2>1, <2>2, CallKeeps
  <1>2. CASE DialBack
    <2>1. UNCHANGED <<posture, conn, listener, queue, taken, heard, wrote>>
      BY <1>2 DEF DialBack
    <2>2. call' \in Calls /\ ~Connected' /\ ~call'.first
      BY <1>0, <1>2 DEF DialBack, Calls, Connected
    <2>3. CallBound'
      BY <2>2 DEF CallBound, Connected
    <2> QED BY <2>1, <2>2, <2>3, CallKeeps
  <1>3. CASE DialFails
    <2>1. UNCHANGED <<posture, conn, listener, queue, taken, heard, wrote>>
      BY <1>3 DEF DialFails
    <2>2. call' \in Calls /\ ~Connected' /\ (call'.first => call'.kind = "reply")
      BY <1>0, <1>3 DEF DialFails, Idle, Calls, Parties, Connected, CallBound
    <2>3. CallBound'
      BY <2>2 DEF CallBound, Connected
    <2> QED BY <2>1, <2>2, <2>3, CallKeeps
  <1>4. CASE StreamFails
    BY <1>1, <1>4 DEF StreamFails
  <1>5. ASSUME NEW p \in Keys \cup {None}, ResolvePeer(p) PROVE IrohInv'
    <2>1. UNCHANGED <<posture, conn, listener, queue, taken, heard, wrote>>
      BY <1>5 DEF ResolvePeer
    <2>2. CASE CallFails
      BY <1>1, <2>1, <2>2
    <2>3. CASE call' = [call EXCEPT !.pc = "dial"]
      <3>1. call' \in Calls /\ ~Connected' /\ (call'.first => call'.kind = "reply")
        BY <1>0, <2>3 DEF Calls, Connected, CallBound
      <3>2. CallBound'
        BY <3>1 DEF CallBound, Connected
      <3> QED BY <2>1, <3>1, <3>2, CallKeeps
    <2> QED BY <1>5, <2>2, <2>3 DEF ResolvePeer
  <1>6. ASSUME NEW c \in Keys, HelloAnswered(c) PROVE IrohInv'
    <2>1. UNCHANGED <<posture, conn, listener, queue, taken, heard, wrote>> /\ call.pc = "hello"
      BY <1>6 DEF HelloAnswered
    <2>2. CASE CallFails
      BY <1>1, <2>1, <2>2
    <2>3. CASE call' = [call EXCEPT !.pc = "bound"] /\ conn[call.conn].key = call.target
      <3>1. /\ call' \in Calls /\ call'.pc = "bound" /\ call'.kind = call.kind
            /\ call'.first = call.first /\ call'.conn = call.conn /\ call'.target = call.target
        BY <1>0, <2>3 DEF Calls
      <3>2. CallBound' /\ Connected
        BY <1>0, <2>1, <2>3, <3>1 DEF CallBound, Connected, Used
      <3> QED BY <2>1, <3>1, <3>2, CallKeeps
    <2> QED BY <1>6, <2>2, <2>3 DEF HelloAnswered, AuthenticatedPeer
  <1>7. ASSUME NEW kind \in {"send", "request", "stream"}, NEW p \in Peers,
               NEW how \in {"resolve", "dial"}, Call(kind, p, how)
        PROVE  IrohInv'
    <2>1. UNCHANGED <<posture, conn, listener, queue, taken, heard, wrote>>
      BY <1>7 DEF Call
    <2>2. call' \in Calls /\ ~Connected' /\ ~call'.first
      BY <1>7 DEF Call, Calls, Connected, Parties, Keys
    <2>3. CallBound'
      BY <2>2 DEF CallBound, Connected
    <2> QED BY <2>1, <2>2, <2>3, CallKeeps
  <1>8. ASSUME NEW p \in Peers, Reply(p) PROVE IrohInv'
    <2>1. UNCHANGED <<posture, conn, listener, queue, taken, heard, wrote>> /\ taken # None
      BY <1>8 DEF Reply
    <2>2. Used(taken)
      BY <1>0, <2>1 DEF InboundBound
    <2>3. /\ call' \in Calls /\ call'.pc \in {"hello", "back"} /\ call'.conn = taken
          /\ call'.kind = "reply"
      BY <1>8, <2>2 DEF Reply, Calls, Parties, Keys, Used
    <2>4. CallBound'
      BY <2>1, <2>2, <2>3 DEF CallBound, Connected, Used
    <2> QED BY <2>1, <2>3, <2>4, CallKeeps
  <1> QED BY <1>2, <1>3, <1>4, <1>5, <1>6, <1>7, <1>8

\* A task that reads a connection goes one step on.
LEMMA TasksKeep ==
    ASSUME IrohInv, NEW k \in Conns,
           \/ ConnectionEstablished(k) \/ AcceptBi(k) \/ HelloBound(k) \/ StreamAbandoned(k)
           \/ WindowEnds(k) \/ ReaderAborted(k) \/ \E p \in Keys : HelloRead(k, p)
    PROVE  IrohInv'
  <1>0. UNCHANGED <<posture, conn, call, queue, taken, heard, wrote>> /\ Listening(k)
    BY DEF ConnectionEstablished, AcceptBi, HelloBound, StreamAbandoned, WindowEnds,
           ReaderAborted, HelloRead, Listening
  <1>t. listener[k] \in Listeners /\ listener \in [Conns -> Listeners]
    BY DEF IrohInv, IrohTyped
  <1>1. CASE ListenerEnds(k)
    <2>1. NoReader \in Listeners /\ NoReader.phase = "none"
      BY DEF NoReader, Listeners, Parties
    <2> QED BY <1>0, <1>1, <2>1, ListenerKeeps DEF ListenerEnds
  <1>2. ASSUME NEW ph \in {"bi", "hello", "answered", "read"}, NEW cert \in Parties,
               listener' = [listener EXCEPT ![k].phase = ph, ![k].cert = cert],
               ph = "read" => cert = conn[k].key
        PROVE  IrohInv'
    <2>1. PICK l : l = [listener[k] EXCEPT !.phase = ph, !.cert = cert]
      OBVIOUS
    <2>2. /\ l \in Listeners /\ l.phase = ph /\ l.cert = cert /\ l.kind = listener[k].kind
      BY <1>t, <2>1 DEF Listeners
    <2>3. listener' = [listener EXCEPT ![k] = l]
      BY <1>2, <1>t, <2>1 DEF Listeners
    <2> QED BY <1>0, <1>2, <2>2, <2>3, ListenerKeeps
  <1>3. CASE NextStream(k)
    BY <1>2, <1>3 DEF NextStream, Parties
  <1>4. CASE ConnectionEstablished(k) \/ StreamAbandoned(k) \/ WindowEnds(k) \/ ReaderAborted(k)
    BY <1>1, <1>3, <1>4 DEF ConnectionEstablished, StreamAbandoned, WindowEnds, ReaderAborted
  <1>5. CASE AcceptBi(k)
    <2>1. CASE listener' = [listener EXCEPT ![k].phase = "hello"]
      <3>1. listener' = [listener EXCEPT ![k].phase = "hello", ![k].cert = listener[k].cert]
        BY <2>1, <1>t DEF Listeners
      <3> QED BY <1>2, <1>t, <3>1 DEF Listeners
    <2> QED BY <1>1, <1>5, <2>1 DEF AcceptBi
  <1>6. CASE HelloBound(k)
    <2>1. CASE listener' = [listener EXCEPT ![k].phase = "read"] /\ listener[k].cert = conn[k].key
      <3>1. listener' = [listener EXCEPT ![k].phase = "read", ![k].cert = listener[k].cert]
        BY <2>1, <1>t DEF Listeners
      <3> QED BY <1>2, <1>t, <2>1, <3>1 DEF Listeners
    <2> QED BY <1>3, <1>6, <2>1 DEF HelloBound, AuthenticatedPeer
  <1>7. ASSUME NEW p \in Keys, HelloRead(k, p) PROVE IrohInv'
    BY <1>2, <1>3, <1>7 DEF HelloRead, Parties
  <1> QED BY <1>4, <1>5, <1>6, <1>7

LEMMA IrohSteps == IrohInv /\ [IrohNext]_irohVars => IrohInv'
  <1> SUFFICES ASSUME IrohInv, [IrohNext]_irohVars PROVE IrohInv'
    OBVIOUS
  <1>t. listener \in [Conns -> Listeners]
        /\ conn \in [Conns -> [by : {"nobody", "peer", "us"}, key : Parties, up : BOOLEAN]]
    BY DEF IrohInv, IrohTyped
  <1>1. ASSUME UNCHANGED <<posture, conn, listener, call, queue, taken, heard, wrote>>
        PROVE  IrohInv'
    <2>1. \A j \in Conns : GoesOn(j)
      BY <1>1 DEF GoesOn, Listening, IrohInv, ListenersBound
    <2> QED BY <1>1, <1>t, <2>1, ListenersKeep
  <1>2. CASE UNCHANGED irohVars
    BY <1>1, <1>2 DEF irohVars
  <1>3. CASE LoopParks \/ LoopDone \/ CloseStops \/ \E p \in Revocable : Revoke(p)
    BY <1>1, <1>3 DEF LoopParks, LoopDone, CloseStops, Revoke
  <1>4. CASE LoopStops \/ CloseReplies
    <2>1. /\ UNCHANGED <<posture, conn, call, queue, taken, heard, wrote>>
          /\ \/ listener' = [k \in Conns |->
                     [listener[k] EXCEPT !.aborted = @ \/ listener[k].kind = "accept"]]
             \/ listener' = [k \in Conns |->
                     [listener[k] EXCEPT !.aborted = @ \/ Listening(k)]]
      BY <1>4 DEF LoopStops, CloseReplies
    <2>2. listener' \in [Conns -> Listeners]
      <3>1. ASSUME NEW k \in Conns, NEW b \in BOOLEAN
            PROVE  [listener[k] EXCEPT !.aborted = b] \in Listeners
        BY <1>t DEF Listeners
      <3>2. ASSUME NEW k \in Conns
            PROVE  /\ [listener[k] EXCEPT !.aborted = @ \/ listener[k].kind = "accept"] \in Listeners
                   /\ [listener[k] EXCEPT !.aborted = @ \/ Listening(k)] \in Listeners
        <4>1. PICK b \in BOOLEAN : b = (listener[k].aborted \/ listener[k].kind = "accept")
          OBVIOUS
        <4>2. PICK d \in BOOLEAN : d = (listener[k].aborted \/ Listening(k))
          BY DEF Listening
        <4> QED BY <3>1, <4>1, <4>2
      <3> QED BY <2>1, <3>2
    <2>3. \A j \in Conns : /\ listener'[j].phase = listener[j].phase
                           /\ listener'[j].kind = listener[j].kind
                           /\ listener'[j].cert = listener[j].cert
      BY <1>t, <2>1 DEF Listeners
    <2>4. \A j \in Conns : GoesOn(j)
      BY <2>3 DEF GoesOn, Listening, IrohInv, ListenersBound
    <2> QED BY <2>1, <2>2, <2>4, ListenersKeep
  <1>5. CASE CloseEndpoint \/ \E k \in Conns : PeerCloses(k)
    <2>1. /\ UNCHANGED <<posture, listener, call, queue, taken, heard, wrote>>
          /\ \/ conn' = [k \in Conns |-> [conn[k] EXCEPT !.up = FALSE]]
             \/ \E k \in Conns : conn' = [conn EXCEPT ![k].up = FALSE]
      BY <1>5 DEF CloseEndpoint, PeerCloses
    <2>2. /\ conn' \in [Conns -> [by : {"nobody", "peer", "us"}, key : Parties, up : BOOLEAN]]
          /\ \A k \in Conns : conn'[k].by = conn[k].by /\ conn'[k].key = conn[k].key
      <3>1. CASE conn' = [k \in Conns |-> [conn[k] EXCEPT !.up = FALSE]]
        BY <1>t, <3>1
      <3>2. ASSUME NEW k \in Conns, conn' = [conn EXCEPT ![k].up = FALSE]
            PROVE  /\ conn' \in [Conns -> [by : {"nobody", "peer", "us"}, key : Parties,
                                           up : BOOLEAN]]
                   /\ \A j \in Conns : conn'[j].by = conn[j].by /\ conn'[j].key = conn[j].key
        BY <1>t, <3>2
      <3> QED BY <2>1, <3>1, <3>2
    <2> QED BY <2>1, <2>2, DownKeeps
  <1>6. CASE \/ Calling \/ \E p \in Peers : Reply(p)
             \/ \E kind \in {"send", "request", "stream"}, p \in Peers, how \in {"resolve", "dial"} :
                   Call(kind, p, how)
    BY <1>6, CallsKeep, WriteKeeps, DrainedKeeps DEF Calling
  <1>7. CASE RecvEnvelope
    BY <1>7, TakenKeeps
  <1>8. ASSUME NEW k \in Conns,
               \/ ConnectionEstablished(k) \/ AcceptBi(k) \/ HelloBound(k) \/ StreamAbandoned(k)
               \/ WindowEnds(k) \/ ReaderAborted(k) \/ \E p \in Keys : HelloRead(k, p)
        PROVE  IrohInv'
    BY <1>8, TasksKeep
  <1>9. ASSUME NEW k \in Conns,
               EnvelopeRead(k) \/ Dial(k) \/ \E p \in Keys : Incoming(k, p)
        PROVE  IrohInv'
    BY <1>9, EnvelopeKeeps, DialKeeps, IncomingKeeps
  <1> QED
    BY <1>2, <1>3, <1>4, <1>5, <1>6, <1>7, <1>8, <1>9 DEF IrohNext

\* For any peers, strangers and connections, whatever certificates peers show and whenever
\* the transport is closed: an envelope reaches the bus as carried by the agent whose key
\* the connection proved (`authenticated_iroh_peer`), what the bus writes goes to the agent
\* it is for, and an outbound-only transport hears one answer on a connection it sent a
\* request over (`await_reply_on`).
THEOREM CarriersHaveTheKey == IrohSpec => []CarriersAreKeys
  <1>1. IrohInv => CarriersAreKeys
    BY DEF IrohInv, HeardBound, WroteBound, OutboundOnly, Asked, CarriersAreKeys
  <1> QED BY <1>1, IrohBegins, IrohSteps, PTL DEF IrohSpec

===============================================================================
