------------------------- MODULE SshTransportProofs -------------------------
(***************************************************************************)
(* Theorems about the SSH transport of a bus for any number of callers,    *)
(* connections and slots: every slot is free or held by one connection,    *)
(* callers never open message sessions to the peer side by side, and no    *)
(* envelope is written on two connections.                                 *)
(***************************************************************************)
EXTENDS SshTransport, FiniteSetTheorems, TLAPS

-----------------------------------------------------------------------------
(* The inductive invariant. *)

CallerStates ==
    [pc : {"rest", "lock", "slot", "dial", "auth", "first", "failing", "check", "insert", "track",
           "route", "writer", "write"},
     conn : Conns \union {None}, on : Conns \union {None},
     how : {"none", "cached", "new", "reply", "stream"}]

ConnStates ==
    [kind : {"none", "cached", "stream", "accepted", "served"},
     phase : {"unused", "new", "auth", "open", "ending", "released", "closed"},
     slot : BOOLEAN, route : {"none", "alive", "dead"},
     eof : BOOLEAN, stalled : BOOLEAN]

Typed ==
    /\ caller \in [Callers -> CallerStates]
    /\ conn \in [Conns -> ConnStates]
    /\ free \in Nat
    /\ cache \in Conns \union {None}
    /\ tracked \subseteq Conns /\ owned \subseteq Conns

\* A slot goes with the phases from the acceptance or the dial to the end of the
\* task, and a route with those from the handshake on.
PhaseLaw(k) ==
    /\ k.slot <=> k.phase \in {"new", "auth", "open", "ending"}
    /\ k.phase \in {"unused", "new", "auth"} => k.route = "none"
    /\ k.phase = "open" => k.route # "none"

SlotByPhase == \A c \in Conns : PhaseLaw(conn[c])

Held == {c \in Conns : conn[c].slot}

SlotsCounted == IsFiniteSet(Held) /\ free + Cardinality(Held) = MaxSessions

\* Where a caller has a connection of its own, which no task looks after yet.
Making == {"dial", "auth", "first", "failing", "check", "insert", "track"}

MadeByOne ==
    /\ \A t \in Callers :
         caller[t].pc \in Making =>
            /\ caller[t].conn \in Conns \ (tracked \union owned)
            /\ conn[caller[t].conn].kind =
                  IF caller[t].how = "stream" THEN "stream" ELSE "cached"
            /\ conn[caller[t].conn].phase =
                  IF caller[t].pc = "track" /\ caller[t].how # "stream"
                  THEN "open" ELSE "auth"
    /\ \A t, u \in Callers :
         caller[t].pc \in Making /\ caller[u].pc \in Making /\ t # u =>
            caller[t].conn # caller[u].conn

TrackedAreUsed == \A c \in tracked \union owned : conn[c].phase # "unused"

\* How a caller came where it is.
WellGone(r) ==
    /\ r.pc = "lock" => r.how = "new"
    /\ r.pc \in Making \union {"slot"} => r.how \in {"new", "stream"}
    /\ r.pc \in {"first", "check", "insert"} => r.how = "new"
    /\ r.pc \in {"route", "writer", "write"} => r.conn \in Conns
    /\ r.on # None => r.pc = "write"

CallersGo == \A t \in Callers : WellGone(caller[t])

\* Who connects holds the connect lock.
Connecting(r) == r.how = "new" /\ r.pc \in Making \union {"slot"}

LockHeld == \A t \in Callers : Connecting(caller[t]) => connecting = t

LiveSession(c) == conn[c].kind = "cached" /\ Alive(c)

\* Until the transport closes, a live message session is the cached one; there is
\* none while somebody connects, closed or not.
LiveIsCached ==
    /\ ~Shutdown => \A c \in Conns : LiveSession(c) => cache = c
    /\ \A c, d \in Conns : LiveSession(c) /\ LiveSession(d) => c = d
    /\ \A t \in Callers :
         Connecting(caller[t]) /\ caller[t].pc # "track" => \A c \in Conns : ~LiveSession(c)

SessionsInv ==
    /\ Typed
    /\ SlotByPhase
    /\ SlotsCounted
    /\ MadeByOne
    /\ TrackedAreUsed
    /\ CallersGo
    /\ LockHeld
    /\ LiveIsCached
    /\ WrittenOnce

-----------------------------------------------------------------------------
(* What one connection does to the slots. *)

\* One connection has become k, and the slots add up.
ConnMoved(c, k) ==
    /\ conn' \in [Conns -> ConnStates] /\ free' \in Nat
    /\ conn'[c] = k /\ \A d \in Conns : d # c => conn'[d] = conn[d]
    /\ SlotByPhase' /\ SlotsCounted'

\* A connection that keeps its slot leaves the count of free slots right.
LEMMA SlotKept ==
    ASSUME SessionsInv, NEW c \in Conns, NEW k \in ConnStates, PhaseLaw(k),
           conn' = [conn EXCEPT ![c] = k], k.slot = conn[c].slot, free' = free
    PROVE  ConnMoved(c, k)
<1>1. conn \in [Conns -> ConnStates] /\ free \in Nat
  BY DEF SessionsInv, Typed
<1>2. /\ conn' \in [Conns -> ConnStates]
      /\ conn'[c] = k /\ \A d \in Conns : d # c => conn'[d] = conn[d]
  BY <1>1
<1>3. SlotByPhase'
  BY <1>2 DEF SessionsInv, SlotByPhase
<1>4. Held' = Held
  BY <1>2 DEF Held
<1>5. SlotsCounted'
  BY <1>4 DEF SessionsInv, SlotsCounted
<1> QED
  BY <1>1, <1>2, <1>3, <1>5 DEF ConnMoved

\* A connection that gives its slot back leaves the count right.
LEMMA SlotGiven ==
    ASSUME SessionsInv, NEW c \in Conns, NEW k \in ConnStates, PhaseLaw(k),
           conn' = [conn EXCEPT ![c] = k], ~k.slot,
           free' = free + (IF conn[c].slot THEN 1 ELSE 0)
    PROVE  ConnMoved(c, k)
<1>1. conn \in [Conns -> ConnStates] /\ free \in Nat
  BY DEF SessionsInv, Typed
<1>2. /\ conn' \in [Conns -> ConnStates]
      /\ conn'[c] = k /\ \A d \in Conns : d # c => conn'[d] = conn[d]
  BY <1>1
<1>3. SlotByPhase'
  BY <1>2 DEF SessionsInv, SlotByPhase
<1>4. Held' = Held \ {c}
  BY <1>2 DEF Held
<1>5. IsFiniteSet(Held) /\ free + Cardinality(Held) = MaxSessions
  BY DEF SessionsInv, SlotsCounted
<1>6. Cardinality(Held) \in Nat
  BY <1>5, FS_CardinalityType
<1>7. /\ IsFiniteSet(Held \ {c})
      /\ Cardinality(Held \ {c}) = IF c \in Held THEN Cardinality(Held) - 1
                                   ELSE Cardinality(Held)
  BY <1>5, FS_RemoveElement
<1>8. c \in Held <=> conn[c].slot
  BY DEF Held
<1>9. free' + Cardinality(Held \ {c}) = MaxSessions /\ free' \in Nat
  BY <1>1, <1>5, <1>6, <1>7, <1>8
<1>10. SlotsCounted'
  BY <1>4, <1>7, <1>9 DEF SlotsCounted
<1> QED
  BY <1>2, <1>3, <1>9, <1>10 DEF ConnMoved

\* A connection that takes a free slot leaves the count right.
LEMMA SlotTaken ==
    ASSUME SessionsInv, NEW c \in Conns, NEW k \in ConnStates, PhaseLaw(k),
           conn' = [conn EXCEPT ![c] = k], k.slot, ~conn[c].slot,
           free > 0, free' = free - 1
    PROVE  ConnMoved(c, k)
<1>1. conn \in [Conns -> ConnStates] /\ free \in Nat
  BY DEF SessionsInv, Typed
<1>2. /\ conn' \in [Conns -> ConnStates]
      /\ conn'[c] = k /\ \A d \in Conns : d # c => conn'[d] = conn[d]
  BY <1>1
<1>3. SlotByPhase'
  BY <1>2 DEF SessionsInv, SlotByPhase
<1>4. Held' = Held \union {c} /\ c \notin Held
  BY <1>2 DEF Held
<1>5. IsFiniteSet(Held) /\ free + Cardinality(Held) = MaxSessions
  BY DEF SessionsInv, SlotsCounted
<1>6. Cardinality(Held) \in Nat
  BY <1>5, FS_CardinalityType
<1>7. /\ IsFiniteSet(Held \union {c})
      /\ Cardinality(Held \union {c}) = Cardinality(Held) + 1
  BY <1>4, <1>5, FS_AddElement
<1>8. free' + Cardinality(Held \union {c}) = MaxSessions /\ free' \in Nat
  BY <1>1, <1>5, <1>6, <1>7
<1>9. SlotsCounted'
  BY <1>4, <1>7, <1>8 DEF SlotsCounted
<1> QED
  BY <1>2, <1>3, <1>8, <1>9 DEF ConnMoved

\* A route that dies and a connection that is over keep their kind.
LEMMA ConnEnds ==
    ASSUME NEW k \in ConnStates
    PROVE  /\ MarkDead(k) \in ConnStates
           /\ MarkDead(k).kind = k.kind /\ MarkDead(k).phase = k.phase
           /\ MarkDead(k).slot = k.slot /\ MarkDead(k).route # "alive"
           /\ MarkDead(k).route = "none" <=> k.route = "none"
           /\ Over(k) \in ConnStates
           /\ Over(k).kind = k.kind /\ Over(k).phase = "closed"
           /\ Over(k).slot = k.slot /\ Over(k).route # "alive"
<1>1. /\ MarkDead(k) \in ConnStates
      /\ MarkDead(k).kind = k.kind /\ MarkDead(k).phase = k.phase
      /\ MarkDead(k).slot = k.slot /\ MarkDead(k).route # "alive"
      /\ MarkDead(k).route = "none" <=> k.route = "none"
  BY DEF MarkDead, ConnStates
<1> HIDE DEF MarkDead
<1>2. /\ Over(k) \in ConnStates
      /\ Over(k).kind = k.kind /\ Over(k).phase = "closed"
      /\ Over(k).slot = k.slot /\ Over(k).route # "alive"
  BY <1>1 DEF Over, ConnStates
<1> QED
  BY <1>1, <1>2

\* A connection that is dropped gives its slot back.
LEMMA DropGives ==
    ASSUME SessionsInv, NEW c \in Conns, Dropped(c)
    PROVE  \E k \in ConnStates :
              /\ ConnMoved(c, k)
              /\ k.kind = conn[c].kind /\ k.phase = "closed" /\ k.route # "alive"
<1> DEFINE k == [Over(conn[c]) EXCEPT !.slot = FALSE]
<1>0. conn[c] \in ConnStates
  BY DEF SessionsInv, Typed
<1>1. Over(conn[c]) \in ConnStates /\ Over(conn[c]).kind = conn[c].kind
      /\ Over(conn[c]).phase = "closed" /\ Over(conn[c]).route # "alive"
  BY <1>0, ConnEnds
<1>2. /\ k \in ConnStates /\ k.kind = conn[c].kind /\ k.phase = "closed"
      /\ k.route # "alive" /\ k.slot = FALSE
  BY <1>1 DEF ConnStates
<1>3. PhaseLaw(k)
  BY <1>2 DEF PhaseLaw
<1>4. /\ conn' = [conn EXCEPT ![c] = k]
      /\ free' = free + (IF conn[c].slot THEN 1 ELSE 0)
  BY DEF Dropped
<1> HIDE DEF k
<1>5. ConnMoved(c, k)
  BY <1>2, <1>3, <1>4, SlotGiven
<1> QED
  BY <1>2, <1>5

\* Marking a route dead changes neither phase nor slot.
LEMMA DeathKeeps ==
    ASSUME SessionsInv, NEW c \in Conns,
           conn' = [conn EXCEPT ![c] = MarkDead(conn[c])], free' = free
    PROVE  /\ ConnMoved(c, MarkDead(conn[c]))
           /\ \A d \in Conns : /\ conn'[d].kind = conn[d].kind
                               /\ conn'[d].phase = conn[d].phase
                               /\ conn'[d].route = "alive" => conn[d].route = "alive"
<1>0. conn[c] \in ConnStates /\ PhaseLaw(conn[c])
  BY DEF SessionsInv, Typed, SlotByPhase
<1>1. /\ MarkDead(conn[c]) \in ConnStates
      /\ MarkDead(conn[c]).kind = conn[c].kind /\ MarkDead(conn[c]).phase = conn[c].phase
      /\ MarkDead(conn[c]).slot = conn[c].slot /\ MarkDead(conn[c]).route # "alive"
      /\ MarkDead(conn[c]).route = "none" <=> conn[c].route = "none"
  BY <1>0, ConnEnds
<1>2. PhaseLaw(MarkDead(conn[c]))
  BY <1>0, <1>1 DEF PhaseLaw
<1>3. ConnMoved(c, MarkDead(conn[c]))
  BY <1>1, <1>2, SlotKept
<1> QED
  BY <1>1, <1>3 DEF ConnMoved

-----------------------------------------------------------------------------
(* The three kinds of step: of a caller, of a caller that drops its connection, *)
(* and of a connection.                                                         *)

\* A step that touches none of what the invariant speaks of.
LEMMA Unmoved ==
    ASSUME SessionsInv,
           UNCHANGED <<caller, conn, free, cache, connecting, tracked, closing, owned, twice>>
    PROVE  SessionsInv'
BY DEF SessionsInv, Typed, SlotByPhase, SlotsCounted, Held, MadeByOne, TrackedAreUsed,
       CallersGo, LockHeld, LiveIsCached, LiveSession, Alive, Shutdown, WrittenOnce

\* A caller goes on to r.  It has a connection of its own only if it had it before,
\* connects only under the lock, and forgets no live session.
LEMMA CallerMoves ==
    ASSUME SessionsInv, NEW t \in Callers, NEW r \in CallerStates, WellGone(r),
           caller' = [caller EXCEPT ![t] = r],
           UNCHANGED <<conn, free, tracked, owned, closing>>,
           ~twice',
           r.pc \in Making => /\ caller[t].pc \in Making \ {"track"}
                              /\ r.conn = caller[t].conn /\ r.how = caller[t].how
                              /\ r.pc = "track" => r.how = "stream",
           \/ connecting' = connecting
           \/ connecting = t /\ connecting' = None
           \/ connecting = None /\ connecting' = t,
           Connecting(r) => connecting' = t,
           \/ cache' = cache
           \/ cache' = None /\ (Shutdown \/ cache = None \/ ~Alive(cache)),
           Connecting(r) =>
              \/ Connecting(caller[t]) /\ caller[t].pc # "track"
              \/ ~Shutdown /\ cache' = None
    PROVE  SessionsInv'
<1>t. /\ caller \in [Callers -> CallerStates] /\ conn \in [Conns -> ConnStates]
      /\ cache \in Conns \union {None} /\ None \notin Conns /\ None \notin Callers
  BY TransportAssumption DEF SessionsInv, Typed
<1>1. /\ caller' \in [Callers -> CallerStates] /\ caller'[t] = r
      /\ \A u \in Callers : u # t => caller'[u] = caller[u]
  BY <1>t
<1>2. Typed'
  BY <1>t, <1>1 DEF SessionsInv, Typed
<1>3. SlotByPhase' /\ SlotsCounted' /\ TrackedAreUsed' /\ WrittenOnce'
  BY DEF SessionsInv, SlotByPhase, SlotsCounted, Held, TrackedAreUsed, WrittenOnce
<1>4. MadeByOne'
  <2>1. r.pc \in Making => conn[r.conn].phase = "auth"
    BY <1>t DEF SessionsInv, MadeByOne
  <2> QED
    BY <1>1, <2>1 DEF SessionsInv, MadeByOne
<1>5. CallersGo'
  BY <1>1 DEF SessionsInv, CallersGo
<1>6. LockHeld'
  BY <1>t, <1>1 DEF SessionsInv, LockHeld
<1>7. \A c \in Conns : LiveSession(c)' <=> LiveSession(c)
  BY DEF LiveSession, Alive
<1>8. ~Shutdown => \A c \in Conns : LiveSession(c) => cache' = c
  BY <1>t DEF SessionsInv, LiveIsCached, LiveSession
<1>9. Shutdown' <=> Shutdown
  BY DEF Shutdown
<1>10. ~Shutdown /\ cache' = None => \A c \in Conns : ~LiveSession(c)
  BY <1>t, <1>8
<1>11. LiveIsCached'
  BY <1>1, <1>7, <1>8, <1>9, <1>10 DEF SessionsInv, LiveIsCached
<1> QED
  BY <1>2, <1>3, <1>4, <1>5, <1>6, <1>11 DEF SessionsInv

\* The call returns.
LEMMA CallerReturns ==
    ASSUME SessionsInv, NEW t \in Callers, Returns(t),
           UNCHANGED <<conn, free, tracked, owned, closing, twice>>,
           \/ cache' = cache
           \/ cache' = None /\ (Shutdown \/ cache = None \/ ~Alive(cache))
    PROVE  SessionsInv'
<1>1. /\ AtRest \in CallerStates /\ WellGone(AtRest) /\ ~Connecting(AtRest)
      /\ AtRest.pc \notin Making
  BY DEF AtRest, CallerStates, WellGone, Connecting, Making
<1>2. caller' = [caller EXCEPT ![t] = AtRest]
  BY DEF Returns
<1>3. \/ connecting' = connecting
      \/ connecting = t /\ connecting' = None
  BY DEF Returns
<1>4. ~twice'
  BY DEF SessionsInv, WrittenOnce
<1> QED
  BY <1>1, <1>2, <1>3, <1>4, CallerMoves

\* A caller gives up the connection of its own and returns.
LEMMA CallerDrops ==
    ASSUME SessionsInv, NEW t \in Callers, caller[t].pc \in Making,
           Dropped(caller[t].conn), Returns(t),
           UNCHANGED <<tracked, owned, closing>>, ~twice',
           cache' = cache \/ (Shutdown /\ cache' = None)
    PROVE  SessionsInv'
<1> DEFINE c == caller[t].conn
<1>t. /\ caller \in [Callers -> CallerStates] /\ conn \in [Conns -> ConnStates]
      /\ cache \in Conns \union {None} /\ None \notin Conns /\ None \notin Callers
  BY TransportAssumption DEF SessionsInv, Typed
<1>0. c \in Conns
  BY DEF SessionsInv, MadeByOne
<1>1. PICK k \in ConnStates :
         /\ ConnMoved(c, k)
         /\ k.kind = conn[c].kind /\ k.phase = "closed" /\ k.route # "alive"
  BY <1>0, DropGives
<1>2. /\ conn' \in [Conns -> ConnStates] /\ free' \in Nat /\ SlotByPhase' /\ SlotsCounted'
      /\ conn'[c] = k /\ \A d \in Conns : d # c => conn'[d] = conn[d]
  BY <1>1 DEF ConnMoved
<1>3. AtRest \in CallerStates /\ WellGone(AtRest) /\ ~Connecting(AtRest)
      /\ AtRest.pc = "rest"
  BY DEF AtRest, CallerStates, WellGone, Connecting, Making
<1>4. /\ caller' \in [Callers -> CallerStates] /\ caller'[t] = AtRest
      /\ \A u \in Callers : u # t => caller'[u] = caller[u]
      /\ connecting' = IF connecting = t THEN None ELSE connecting
  BY <1>t, <1>3 DEF Returns
<1>5. Typed'
  BY <1>t, <1>2, <1>4 DEF SessionsInv, Typed
<1>6. MadeByOne'
  BY <1>2, <1>3, <1>4 DEF SessionsInv, MadeByOne, Making
<1>7. TrackedAreUsed'
  BY <1>1, <1>2 DEF SessionsInv, Typed, TrackedAreUsed
<1>8. CallersGo' /\ LockHeld'
  BY <1>3, <1>4 DEF SessionsInv, CallersGo, LockHeld
<1>9. \A d \in Conns : LiveSession(d)' => LiveSession(d)
  BY <1>1, <1>2 DEF LiveSession, Alive
<1>10. LiveIsCached'
  BY <1>3, <1>4, <1>9 DEF SessionsInv, LiveIsCached, Shutdown
<1>11. WrittenOnce'
  BY DEF SessionsInv, WrittenOnce
<1> QED
  BY <1>2, <1>5, <1>6, <1>7, <1>8, <1>10, <1>11 DEF SessionsInv

\* A connection that no caller is making moves, and does not come alive as a
\* message session; the cache forgets it only when it dies.
LEMMA ConnMoves ==
    ASSUME SessionsInv, NEW c \in Conns, NEW k \in ConnStates, ConnMoved(c, k),
           UNCHANGED <<caller, connecting, owned, closing, twice>>,
           tracked' \subseteq tracked \union {c},
           \A t \in Callers : caller[t].pc \in Making => caller[t].conn # c,
           k.phase # "unused",
           k.kind = "cached" /\ k.route = "alive" => LiveSession(c),
           cache' = cache \/ (cache = c /\ cache' = None /\ k.route # "alive")
    PROVE  SessionsInv'
<1>t. /\ cache \in Conns \union {None} /\ None \notin Conns
  BY TransportAssumption DEF SessionsInv, Typed
<1>1. /\ conn' \in [Conns -> ConnStates] /\ free' \in Nat /\ SlotByPhase' /\ SlotsCounted'
      /\ conn'[c] = k /\ \A d \in Conns : d # c => conn'[d] = conn[d]
  BY DEF ConnMoved
<1>2. Typed'
  BY <1>t, <1>1 DEF SessionsInv, Typed
<1>3. MadeByOne'
  BY <1>1 DEF SessionsInv, MadeByOne
<1>4. TrackedAreUsed'
  BY <1>1 DEF SessionsInv, Typed, TrackedAreUsed
<1>5. CallersGo' /\ LockHeld' /\ WrittenOnce'
  BY DEF SessionsInv, CallersGo, LockHeld, WrittenOnce
<1>6. \A d \in Conns : LiveSession(d)' => LiveSession(d)
  BY <1>1 DEF LiveSession, Alive
<1>7. cache' # cache => ~LiveSession(c)'
  BY <1>1 DEF LiveSession, Alive
<1>8. LiveIsCached'
  BY <1>6, <1>7 DEF SessionsInv, LiveIsCached, Shutdown
<1> QED
  BY <1>1, <1>2, <1>3, <1>4, <1>5, <1>8 DEF SessionsInv

-----------------------------------------------------------------------------
(* The steps of a caller. *)

\* A look at the cache: what is found alive is used, and the rest forgotten.
LEMMA LooksKeep ==
    ASSUME SessionsInv, NEW t \in Callers, NEW pcMiss \in {"lock", "slot"},
           caller[t].pc \in {"rest", "lock"}, ~Shutdown, Looks(t, pcMiss),
           UNCHANGED <<conn, free, tracked, owned, closing, twice>>,
           \/ pcMiss = "lock" /\ connecting' = connecting
           \/ connecting = None /\ connecting' = t
    PROVE  SessionsInv'
<1>0. /\ caller[t] \in CallerStates /\ caller[t].on = None /\ ~twice'
      /\ cache \in Conns \union {None}
  BY DEF SessionsInv, Typed, CallersGo, WellGone, WrittenOnce
<1>1. CASE cache # None /\ Alive(cache)
  <2> DEFINE r == [pc |-> "route", conn |-> cache, on |-> caller[t].on, how |-> "cached"]
  <2>1. /\ r \in CallerStates /\ WellGone(r) /\ ~Connecting(r) /\ r.pc \notin Making
    BY <1>0, <1>1 DEF CallerStates, WellGone, Connecting, Making
  <2>2. caller' = [caller EXCEPT ![t] = r] /\ cache' = cache
    BY <1>1 DEF Looks
  <2> HIDE DEF r
  <2> QED
    BY <1>0, <2>1, <2>2, CallerMoves
<1>2. CASE ~(cache # None /\ Alive(cache))
  <2> DEFINE r == [pc |-> pcMiss, conn |-> None, on |-> caller[t].on, how |-> "new"]
  <2>1. /\ r \in CallerStates /\ WellGone(r) /\ r.pc \notin Making
        /\ Connecting(r) <=> pcMiss = "slot"
    BY <1>0 DEF CallerStates, WellGone, Connecting, Making
  <2>2. caller' = [caller EXCEPT ![t] = r] /\ cache' = None
    BY <1>2 DEF Looks
  <2> HIDE DEF r
  <2> QED
    BY <1>0, <1>2, <2>1, <2>2, CallerMoves
<1> QED
  BY <1>1, <1>2

\* A caller begins: send, open_stream or a reply over a given connection.
LEMMA SendKeeps ==
    ASSUME SessionsInv, NEW t \in Callers,
           Send(t) \/ OpenStream(t) \/ \E c \in Conns : Reply(t, c)
    PROVE  SessionsInv'
<1>0. SessionsInv /\ ~twice
  BY DEF SessionsInv, WrittenOnce
<1>1. CASE Send(t)
  BY <1>0, <1>1, LooksKeep DEF Send, At
<1>2. CASE OpenStream(t)
  <2> DEFINE r == [pc |-> "slot", conn |-> None, on |-> None, how |-> "stream"]
  <2>1. /\ r \in CallerStates /\ WellGone(r) /\ ~Connecting(r) /\ r.pc \notin Making
    BY DEF CallerStates, WellGone, Connecting, Making
  <2>2. /\ caller' = [caller EXCEPT ![t] = r]
        /\ UNCHANGED <<conn, free, tracked, owned, closing, cache, connecting, twice>>
    BY <1>2 DEF OpenStream
  <2> HIDE DEF r
  <2> QED
    BY <1>0, <2>1, <2>2, CallerMoves
<1>3. ASSUME NEW c \in Conns, Reply(t, c)
      PROVE  SessionsInv'
  <2>0. /\ caller[t].pc = "rest"
        /\ UNCHANGED <<conn, free, tracked, owned, closing, connecting, twice>>
    BY <1>3 DEF Reply, At
  <2>1. CASE Alive(c)
    <3> DEFINE r == [pc |-> "route", conn |-> c, on |-> None, how |-> "reply"]
    <3>1. /\ r \in CallerStates /\ WellGone(r) /\ ~Connecting(r) /\ r.pc \notin Making
      BY DEF CallerStates, WellGone, Connecting, Making
    <3>2. caller' = [caller EXCEPT ![t] = r] /\ cache' = cache
      BY <1>3, <2>1 DEF Reply
    <3> HIDE DEF r
    <3> QED
      BY <1>0, <2>0, <3>1, <3>2, CallerMoves
  <2>2. CASE ~Alive(c)
    <3>1. Looks(t, "lock") /\ ~Shutdown
      BY <1>3, <2>2 DEF Reply
    <3> QED
      BY <1>0, <2>0, <3>1, LooksKeep
  <2> QED
    BY <2>1, <2>2
<1> QED
  BY <1>1, <1>2, <1>3

\* A caller gets the connect lock, looks again, or finds the transport shut down.
LEMMA ConnectLockKeeps ==
    ASSUME SessionsInv, NEW t \in Callers, ConnectLock(t)
    PROVE  SessionsInv'
<1>0. /\ caller[t].pc = "lock" /\ connecting = None
      /\ UNCHANGED <<conn, free, tracked, owned, closing, twice>>
  BY DEF ConnectLock, At
<1>1. CASE Shutdown
  BY <1>0, <1>1, CallerReturns DEF ConnectLock
<1>2. CASE ~Shutdown
  BY <1>0, <1>2, LooksKeep DEF ConnectLock
<1> QED
  BY <1>1, <1>2

\* The slot taken, the caller has an unused connection of its own.
LEMMA TakeSlotKeeps ==
    ASSUME SessionsInv, NEW t \in Callers, TakeSlot(t)
    PROVE  SessionsInv'
<1>0. /\ caller[t].pc = "slot"
      /\ UNCHANGED <<cache, tracked, owned, closing, twice>>
  BY DEF TakeSlot, At
<1>1. CASE Returns(t) /\ UNCHANGED <<conn, free>>
  BY <1>0, <1>1, CallerReturns
<1>2. ASSUME NEW c \in Conns, Unused(c), free > 0, free' = free - 1, UNCHANGED connecting,
             conn' = [conn EXCEPT ![c] = [NoConn EXCEPT
                  !.kind = IF caller[t].how = "stream" THEN "stream" ELSE "cached",
                  !.phase = "auth", !.slot = TRUE]],
             caller' = [caller EXCEPT ![t] = [@ EXCEPT !.pc = "dial", !.conn = c]]
      PROVE  SessionsInv'
  <2> DEFINE kind == IF caller[t].how = "stream" THEN "stream" ELSE "cached"
             k == [NoConn EXCEPT !.kind = kind, !.phase = "auth", !.slot = TRUE]
             r == [caller[t] EXCEPT !.pc = "dial", !.conn = c]
  <2>t. /\ caller \in [Callers -> CallerStates] /\ conn \in [Conns -> ConnStates]
        /\ cache \in Conns \union {None} /\ None \notin Conns /\ None \notin Callers
    BY TransportAssumption DEF SessionsInv, Typed
  <2>1. /\ k \in ConnStates /\ PhaseLaw(k) /\ k.slot /\ k.kind = kind /\ k.phase = "auth"
        /\ k.route = "none"
    BY DEF ConnStates, PhaseLaw, NoConn
  <2>2. /\ conn[c].phase = "unused" /\ ~conn[c].slot
    BY <1>2 DEF Unused, SessionsInv, SlotByPhase, PhaseLaw
  <2>3. conn' = [conn EXCEPT ![c] = k] /\ caller' = [caller EXCEPT ![t] = r]
    BY <1>2
  <2>4. caller[t].how \in {"new", "stream"} /\ caller[t].on = None
    BY <1>0 DEF SessionsInv, CallersGo, WellGone
  <2>5. /\ r \in CallerStates /\ r.pc = "dial" /\ r.conn = c /\ r.how = caller[t].how
        /\ r.on = None
    BY <2>t, <2>4 DEF CallerStates
  <2> HIDE DEF k, r
  <2>6. ConnMoved(c, k)
    BY <1>2, <2>1, <2>2, <2>3, SlotTaken
  <2>7. /\ conn' \in [Conns -> ConnStates] /\ free' \in Nat /\ SlotByPhase' /\ SlotsCounted'
        /\ conn'[c] = k /\ \A d \in Conns : d # c => conn'[d] = conn[d]
    BY <2>6 DEF ConnMoved
  <2>8. /\ caller' \in [Callers -> CallerStates] /\ caller'[t] = r
        /\ \A u \in Callers : u # t => caller'[u] = caller[u]
    BY <2>t, <2>3, <2>5
  <2>9. Typed'
    BY <1>0, <2>7, <2>8 DEF SessionsInv, Typed
  <2>10. /\ c \notin tracked \union owned
         /\ \A u \in Callers : caller[u].pc \in Making => caller[u].conn # c
    BY <2>2 DEF SessionsInv, TrackedAreUsed, MadeByOne
  <2>11. MadeByOne'
    BY <1>0, <2>1, <2>5, <2>7, <2>8, <2>10 DEF SessionsInv, MadeByOne
  <2>12. TrackedAreUsed'
    BY <1>0, <2>1, <2>7 DEF SessionsInv, Typed, TrackedAreUsed
  <2>13. CallersGo'
    BY <2>4, <2>5, <2>8 DEF SessionsInv, CallersGo, WellGone, Making
  <2>14. Connecting(r) => Connecting(caller[t]) /\ caller[t].pc # "track"
    BY <1>0, <2>5 DEF Connecting
  <2>15. LockHeld'
    BY <1>2, <2>8, <2>14 DEF SessionsInv, LockHeld
  <2>16. \A d \in Conns : LiveSession(d)' => LiveSession(d)
    BY <2>1, <2>7 DEF LiveSession, Alive
  <2>17. LiveIsCached'
    BY <1>0, <2>8, <2>14, <2>16 DEF SessionsInv, LiveIsCached, Shutdown
  <2>18. WrittenOnce'
    BY <1>0 DEF SessionsInv, WrittenOnce
  <2> QED
    BY <2>7, <2>9, <2>11, <2>12, <2>13, <2>15, <2>17, <2>18 DEF SessionsInv
<1> QED
  BY <1>1, <1>2 DEF TakeSlot

\* The caller with a connection of its own goes on with it.
LEMMA MakingGoesOn ==
    ASSUME SessionsInv, NEW t \in Callers, caller[t].pc \in Making \ {"track"},
           NEW pc \in Making, pc \in {"first", "check", "insert"} => caller[t].how = "new",
           pc = "track" => caller[t].how = "stream",
           caller' = [caller EXCEPT ![t].pc = pc],
           UNCHANGED <<conn, free, connecting, cache, tracked, owned, closing>>, ~twice'
    PROVE  SessionsInv'
<1> DEFINE r == [caller[t] EXCEPT !.pc = pc]
<1>0. /\ caller \in [Callers -> CallerStates] /\ WellGone(caller[t])
  BY DEF SessionsInv, Typed, CallersGo
<1>1. /\ r \in CallerStates /\ r.pc = pc /\ r.conn = caller[t].conn
      /\ r.how = caller[t].how /\ r.on = caller[t].on
  BY <1>0 DEF CallerStates, Making
<1>2. caller' = [caller EXCEPT ![t] = r]
  BY <1>0
<1> HIDE DEF r
<1>3. WellGone(r)
  BY <1>0, <1>1 DEF WellGone, Making
<1>4. Connecting(r) => Connecting(caller[t]) /\ caller[t].pc # "track"
  BY <1>1 DEF Connecting
<1>5. Connecting(r) => connecting' = t
  BY <1>4 DEF SessionsInv, LockHeld
<1> QED
  BY <1>1, <1>2, <1>3, <1>4, <1>5, CallerMoves

\* The caller with the lock dials, authenticates, reads the first record or fails.
LEMMA ConnectsKeeps ==
    ASSUME SessionsInv, NEW t \in Callers,
           Dial(t) \/ Authenticate(t) \/ FirstRecord(t) \/ Failing(t) \/ CheckOpen(t)
    PROVE  SessionsInv'
<1>0. /\ SessionsInv /\ ~twice /\ WellGone(caller[t])
  BY DEF SessionsInv, WrittenOnce, CallersGo
<1>1. CASE Dial(t)
  <2>0. /\ caller[t].pc = "dial"
        /\ UNCHANGED <<cache, tracked, owned, closing, twice>>
    BY <1>1 DEF Dial, At
  <2>1. CASE Goes(t, "auth") /\ UNCHANGED <<conn, free, connecting>>
    BY <1>0, <2>0, <2>1, MakingGoesOn DEF Goes, Making
  <2>2. CASE Dropped(caller[t].conn) /\ Returns(t)
    BY <1>0, <2>0, <2>2, CallerDrops DEF Making
  <2> QED
    BY <1>1, <2>1, <2>2 DEF Dial
<1>2. ASSUME NEW pc \in {"auth", "first"}, NEW next \in {"first", "check", "track"},
             next \in {"first", "check", "insert"} => caller[t].how = "new",
             next = "track" => caller[t].how = "stream",
             Connects(t, pc, next), ~twice'
      PROVE  SessionsInv'
  <2>0. /\ caller[t].pc = pc /\ UNCHANGED <<cache, tracked, owned, closing>>
    BY <1>2 DEF Connects, At
  <2>1. CASE caller' = [caller EXCEPT ![t].pc = next] /\ UNCHANGED <<conn, free, connecting>>
    BY <1>0, <1>2, <2>0, <2>1, MakingGoesOn DEF Making
  <2>2. CASE Goes(t, "failing") /\ UNCHANGED <<conn, free, connecting>>
    BY <1>0, <1>2, <2>0, <2>2, MakingGoesOn DEF Goes, Making
  <2>3. CASE Dropped(caller[t].conn) /\ Returns(t)
    BY <1>0, <1>2, <2>0, <2>3, CallerDrops DEF Making
  <2> QED
    BY <1>2, <2>1, <2>2, <2>3 DEF Connects
<1>3. CASE Authenticate(t)
  <2>1. /\ Connects(t, "auth", IF caller[t].how = "stream" THEN "track" ELSE "first")
        /\ UNCHANGED twice
    BY <1>3 DEF Authenticate
  <2>2. caller[t].how \in {"new", "stream"}
    BY <1>0, <2>1 DEF Connects, At, WellGone, Making
  <2> QED
    BY <1>0, <1>2, <2>1, <2>2
<1>4. CASE FirstRecord(t)
  <2>1. Connects(t, "first", "check") /\ twice' = (twice \/ caller[t].on # None)
    BY <1>4 DEF FirstRecord
  <2>2. caller[t].how = "new" /\ caller[t].on = None
    BY <1>0, <2>1 DEF Connects, At, WellGone
  <2> QED
    BY <1>0, <1>2, <2>1, <2>2
<1>5. CASE Failing(t)
  <2>0. /\ caller[t].pc = "failing" /\ Dropped(caller[t].conn) /\ Returns(t)
        /\ UNCHANGED <<cache, tracked, owned, closing, twice>>
    BY <1>5 DEF Failing, At
  <2> QED
    BY <1>0, <2>0, CallerDrops DEF Making
<1>6. CASE CheckOpen(t)
  <2>0. /\ caller[t].pc = "check" /\ UNCHANGED <<cache, tracked, owned, closing, twice>>
        /\ caller[t].how = "new"
    BY <1>0, <1>6 DEF CheckOpen, At, WellGone
  <2>1. CASE Goes(t, "insert") /\ UNCHANGED <<conn, free, connecting>>
    BY <1>0, <2>0, <2>1, MakingGoesOn DEF Goes, Making
  <2>2. CASE Dropped(caller[t].conn) /\ Returns(t)
    BY <1>0, <2>0, <2>2, CallerDrops DEF Making
  <2> QED
    BY <1>6, <2>1, <2>2 DEF CheckOpen
<1> QED
  BY <1>1, <1>3, <1>4, <1>5, <1>6

\* The session comes alive in the cache: there was none.
LEMMA InsertKeeps ==
    ASSUME SessionsInv, NEW t \in Callers, Insert(t)
    PROVE  SessionsInv'
<1> DEFINE c == caller[t].conn
<1>0. /\ caller[t].pc = "insert" /\ ~twice
      /\ UNCHANGED <<tracked, owned, closing, twice>>
  BY DEF Insert, At, SessionsInv, WrittenOnce
<1> DEFINE k == [conn[c] EXCEPT !.phase = "open", !.route = "alive"]
           r == [caller[t] EXCEPT !.pc = "track"]
<1>t. /\ caller \in [Callers -> CallerStates] /\ conn \in [Conns -> ConnStates]
      /\ None \notin Conns /\ None \notin Callers
  BY TransportAssumption DEF SessionsInv, Typed
<1>1. /\ cache' = c
      /\ conn' = [conn EXCEPT ![c].phase = "open", ![c].route = "alive"]
      /\ caller' = [caller EXCEPT ![t].pc = "track"]
      /\ UNCHANGED <<free, connecting>>
  BY DEF Insert, Goes
<1>2. caller[t].how = "new" /\ caller[t].on = None
  BY <1>0 DEF SessionsInv, CallersGo, WellGone
<1>3. /\ c \in Conns \ (tracked \union owned) /\ conn[c].kind = "cached"
      /\ conn[c].phase = "auth"
  BY <1>0, <1>2 DEF SessionsInv, MadeByOne, Making
<1>4. conn' = [conn EXCEPT ![c] = k] /\ caller' = [caller EXCEPT ![t] = r]
  BY <1>t, <1>1, <1>3
<1>5. /\ k \in ConnStates /\ k.kind = "cached" /\ k.phase = "open" /\ k.route = "alive"
      /\ k.slot = conn[c].slot
  BY <1>t, <1>3 DEF ConnStates
<1>6. /\ r \in CallerStates /\ r.pc = "track" /\ r.conn = c /\ r.how = "new" /\ r.on = None
  BY <1>t, <1>2 DEF CallerStates
<1> HIDE DEF k, r
<1>7. PhaseLaw(k)
  BY <1>3, <1>5 DEF SessionsInv, SlotByPhase, PhaseLaw
<1>8. ConnMoved(c, k)
  BY <1>1, <1>3, <1>4, <1>5, <1>7, SlotKept
<1>9. /\ conn' \in [Conns -> ConnStates] /\ free' \in Nat /\ SlotByPhase' /\ SlotsCounted'
      /\ conn'[c] = k /\ \A d \in Conns : d # c => conn'[d] = conn[d]
  BY <1>8 DEF ConnMoved
<1>10. /\ caller' \in [Callers -> CallerStates] /\ caller'[t] = r
       /\ \A u \in Callers : u # t => caller'[u] = caller[u]
  BY <1>t, <1>4, <1>6
<1>11. Typed'
  BY <1>0, <1>1, <1>3, <1>9, <1>10 DEF SessionsInv, Typed
<1>12. MadeByOne'
  BY <1>0, <1>2, <1>3, <1>5, <1>6, <1>9, <1>10 DEF SessionsInv, MadeByOne, Making
<1>13. TrackedAreUsed'
  BY <1>0, <1>5, <1>9 DEF SessionsInv, Typed, TrackedAreUsed
<1>14. CallersGo'
  BY <1>6, <1>10 DEF SessionsInv, CallersGo, WellGone, Making
<1>15. connecting = t
  BY <1>0, <1>2 DEF SessionsInv, LockHeld, Connecting, Making
<1>16. LockHeld'
  BY <1>1, <1>10, <1>15 DEF SessionsInv, LockHeld
<1>17. \A d \in Conns : ~LiveSession(d)
  BY <1>0, <1>2 DEF SessionsInv, LiveIsCached, Connecting, Making
<1>18. \A d \in Conns : LiveSession(d)' => d = c
  BY <1>9, <1>17 DEF LiveSession, Alive
<1>19. \A u \in Callers : Connecting(caller'[u]) => u = t
  BY <1>10, <1>15 DEF SessionsInv, LockHeld
<1>20. LiveIsCached'
  BY <1>1, <1>6, <1>10, <1>18, <1>19 DEF LiveIsCached
<1> QED
  BY <1>0, <1>9, <1>11, <1>12, <1>13, <1>14, <1>16, <1>20 DEF SessionsInv, WrittenOnce

\* The session gets its task; a stream comes alive only now.
LEMMA TrackKeeps ==
    ASSUME SessionsInv, NEW t \in Callers, Track(t)
    PROVE  SessionsInv'
<1> DEFINE c == caller[t].conn
<1>0. /\ caller[t].pc = "track" /\ ~twice /\ Returns(t)
      /\ UNCHANGED <<owned, closing, twice>>
  BY DEF Track, At, SessionsInv, WrittenOnce
<1>1. CASE Shutdown
  <2>1. /\ Dropped(c) /\ cache' = IF cache = c THEN None ELSE cache
        /\ UNCHANGED tracked
    BY <1>1 DEF Track
  <2> QED
    BY <1>0, <1>1, <2>1, CallerDrops DEF Making
<1>2. CASE ~Shutdown
  <2> DEFINE k == [conn[c] EXCEPT !.phase = IF conn[c].phase = "auth" THEN "open"
                                            ELSE conn[c].phase,
                                  !.route = IF conn[c].route = "none" THEN "alive"
                                            ELSE conn[c].route]
  <2>t. /\ caller \in [Callers -> CallerStates] /\ conn \in [Conns -> ConnStates]
        /\ None \notin Conns /\ None \notin Callers
    BY TransportAssumption DEF SessionsInv, Typed
  <2>1. /\ conn' = [conn EXCEPT ![c] = k]
        /\ tracked' = tracked \union {c}
        /\ UNCHANGED <<free, cache>>
    BY <1>2, <2>t DEF Track
  <2>2. /\ c \in Conns \ (tracked \union owned)
        /\ conn[c].kind = IF caller[t].how = "stream" THEN "stream" ELSE "cached"
        /\ conn[c].phase = IF caller[t].how = "stream" THEN "auth" ELSE "open"
    BY <1>0 DEF SessionsInv, MadeByOne, Making
  <2>3. /\ k \in ConnStates /\ k.kind = conn[c].kind /\ k.slot = conn[c].slot
        /\ k.phase = "open" /\ k.route # "none"
        /\ conn[c].route # "none" => k.route = conn[c].route
    BY <2>t, <2>2 DEF ConnStates
  <2> HIDE DEF k
  <2>4. PhaseLaw(conn[c])
    BY <2>2 DEF SessionsInv, SlotByPhase
  <2>5. PhaseLaw(k)
    BY <2>2, <2>3, <2>4 DEF PhaseLaw
  <2>6. ConnMoved(c, k)
    BY <2>1, <2>2, <2>3, <2>5, SlotKept
  <2>7. /\ conn' \in [Conns -> ConnStates] /\ free' \in Nat /\ SlotByPhase' /\ SlotsCounted'
        /\ conn'[c] = k /\ \A d \in Conns : d # c => conn'[d] = conn[d]
    BY <2>6 DEF ConnMoved
  <2>8. AtRest \in CallerStates /\ WellGone(AtRest) /\ ~Connecting(AtRest)
        /\ AtRest.pc \notin Making
    BY DEF AtRest, CallerStates, WellGone, Connecting, Making
  <2>9. /\ caller' \in [Callers -> CallerStates] /\ caller'[t] = AtRest
        /\ \A u \in Callers : u # t => caller'[u] = caller[u]
        /\ connecting' = IF connecting = t THEN None ELSE connecting
    BY <1>0, <2>t, <2>8 DEF Returns
  <2>10. Typed'
    BY <1>0, <2>1, <2>2, <2>7, <2>9 DEF SessionsInv, Typed
  <2>11. caller[t].pc \in Making
    BY <1>0 DEF Making
  <2>12. MadeByOne'
    BY <1>0, <2>1, <2>7, <2>8, <2>9, <2>11 DEF SessionsInv, MadeByOne
  <2>13. TrackedAreUsed'
    BY <1>0, <2>1, <2>3, <2>7 DEF SessionsInv, Typed, TrackedAreUsed
  <2>14. CallersGo' /\ LockHeld'
    BY <2>8, <2>9 DEF SessionsInv, CallersGo, LockHeld
  <2>15. \A d \in Conns : LiveSession(d)' => LiveSession(d)
    BY <2>2, <2>3, <2>4, <2>7 DEF LiveSession, Alive, PhaseLaw
  <2>16. LiveIsCached'
    BY <1>0, <2>1, <2>8, <2>9, <2>15 DEF SessionsInv, LiveIsCached, Shutdown
  <2> QED
    BY <1>0, <2>7, <2>10, <2>12, <2>13, <2>14, <2>16 DEF SessionsInv, WrittenOnce
<1> QED
  BY <1>1, <1>2

\* Writing on a route: an envelope that was tried is not tried again.
LEMMA RouteKeeps ==
    ASSUME SessionsInv, NEW t \in Callers,
           BeginOnRoute(t) \/ LockWriter(t) \/ RouteWritten(t)
    PROVE  SessionsInv'
<1>0. /\ SessionsInv /\ ~twice /\ WellGone(caller[t])
      /\ caller \in [Callers -> CallerStates]
  BY DEF SessionsInv, WrittenOnce, CallersGo, Typed
<1>1. CASE BeginOnRoute(t)
  <2>0. caller[t].pc = "route" /\ UNCHANGED <<conn, free, tracked, owned, closing, twice>>
    BY <1>1 DEF BeginOnRoute, At
  <2>1. CASE Shutdown \/ ~Alive(caller[t].conn)
    <3>1. /\ Returns(t)
          /\ cache' = IF caller[t].how = "cached" /\ cache = caller[t].conn
                      THEN None ELSE cache
      BY <1>1, <2>1 DEF BeginOnRoute
    <3> QED
      BY <1>0, <2>0, <2>1, <3>1, CallerReturns
  <2>2. CASE ~(Shutdown \/ ~Alive(caller[t].conn))
    <3> DEFINE r == [caller[t] EXCEPT !.pc = "writer"]
    <3>1. /\ caller' = [caller EXCEPT ![t] = r] /\ UNCHANGED <<connecting, cache>>
      BY <1>0, <1>1, <2>2 DEF BeginOnRoute, Goes
    <3>2. /\ r \in CallerStates /\ WellGone(r) /\ ~Connecting(r) /\ r.pc \notin Making
      BY <1>0, <2>0 DEF CallerStates, WellGone, Connecting, Making
    <3> HIDE DEF r
    <3> QED
      BY <1>0, <2>0, <3>1, <3>2, CallerMoves
  <2> QED
    BY <2>1, <2>2
<1>2. CASE LockWriter(t)
  <2> DEFINE r == [caller[t] EXCEPT !.pc = "write", !.on = caller[t].conn]
  <2>0. /\ caller[t].pc = "writer" /\ caller' = [caller EXCEPT ![t] = r]
        /\ UNCHANGED <<conn, free, tracked, owned, closing, connecting, cache>>
        /\ twice' = (twice \/ caller[t].on # None)
    BY <1>2 DEF LockWriter, At
  <2>1. caller[t].conn \in Conns /\ caller[t].on = None
    BY <1>0, <2>0 DEF WellGone
  <2>2. /\ r \in CallerStates /\ WellGone(r) /\ ~Connecting(r) /\ r.pc \notin Making
    BY <1>0, <2>1 DEF CallerStates, WellGone, Connecting, Making
  <2> HIDE DEF r
  <2> QED
    BY <1>0, <2>0, <2>1, <2>2, CallerMoves
<1>3. CASE RouteWritten(t)
  <2>1. Returns(t) /\ UNCHANGED <<conn, free, tracked, owned, closing, cache, twice>>
    BY <1>3 DEF RouteWritten
  <2> QED
    BY <1>0, <2>1, CallerReturns
<1> QED
  BY <1>1, <1>2, <1>3

\* A write that fails takes its route with it.
LEMMA RouteFailsKeeps ==
    ASSUME SessionsInv, NEW t \in Callers, RouteFails(t)
    PROVE  SessionsInv'
<1> DEFINE c == caller[t].conn
<1>t. /\ caller \in [Callers -> CallerStates] /\ conn \in [Conns -> ConnStates]
      /\ cache \in Conns \union {None} /\ None \notin Conns /\ None \notin Callers
  BY TransportAssumption DEF SessionsInv, Typed
<1>0. /\ caller[t].pc \in {"writer", "write"} /\ Returns(t)
      /\ conn' = [conn EXCEPT ![c] = MarkDead(conn[c])]
      /\ cache' = IF caller[t].how = "cached" /\ cache = c THEN None ELSE cache
      /\ UNCHANGED <<free, tracked, owned, closing, twice>>
  BY DEF RouteFails
<1>1. c \in Conns
  BY <1>0 DEF SessionsInv, CallersGo, WellGone
<1>2. /\ ConnMoved(c, MarkDead(conn[c]))
      /\ \A d \in Conns : /\ conn'[d].kind = conn[d].kind
                          /\ conn'[d].phase = conn[d].phase
                          /\ conn'[d].route = "alive" => conn[d].route = "alive"
  BY <1>0, <1>1, DeathKeeps
<1>3. /\ conn' \in [Conns -> ConnStates] /\ free' \in Nat /\ SlotByPhase' /\ SlotsCounted'
      /\ conn'[c] = MarkDead(conn[c])
  BY <1>2 DEF ConnMoved
<1>4. conn'[c].route # "alive"
  BY <1>t, <1>1, <1>3, ConnEnds
<1>5. AtRest \in CallerStates /\ WellGone(AtRest) /\ ~Connecting(AtRest)
      /\ AtRest.pc \notin Making
  BY DEF AtRest, CallerStates, WellGone, Connecting, Making
<1>6. /\ caller' \in [Callers -> CallerStates] /\ caller'[t] = AtRest
      /\ \A u \in Callers : u # t => caller'[u] = caller[u]
      /\ connecting' = IF connecting = t THEN None ELSE connecting
  BY <1>0, <1>t, <1>5 DEF Returns
<1>7. Typed'
  BY <1>t, <1>0, <1>3, <1>6 DEF SessionsInv, Typed
<1>8. MadeByOne'
  BY <1>0, <1>2, <1>5, <1>6 DEF SessionsInv, MadeByOne
<1>9. TrackedAreUsed'
  BY <1>0, <1>2 DEF SessionsInv, Typed, TrackedAreUsed
<1>10. CallersGo' /\ LockHeld' /\ WrittenOnce'
  BY <1>0, <1>5, <1>6 DEF SessionsInv, CallersGo, LockHeld, WrittenOnce
<1>11. /\ \A d \in Conns : LiveSession(d)' => LiveSession(d)
       /\ \A d \in Conns : d = c => ~LiveSession(d)'
  BY <1>2, <1>4 DEF LiveSession, Alive
<1>12. LiveIsCached'
  BY <1>0, <1>5, <1>6, <1>11 DEF SessionsInv, LiveIsCached, Shutdown
<1> QED
  BY <1>3, <1>7, <1>8, <1>9, <1>10, <1>12 DEF SessionsInv

-----------------------------------------------------------------------------
(* The steps of a connection. *)

\* A connection with a task, or in a phase that no caller's is in, is nobody's own.
LEMMA NobodysOwn ==
    ASSUME SessionsInv, NEW c \in Conns,
           \/ c \in tracked \union owned
           \/ conn[c].phase \notin {"auth", "open"}
           \/ conn[c].kind \in {"accepted", "served"}
           \/ conn[c].kind = "stream" /\ conn[c].phase = "open"
    PROVE  \A t \in Callers : caller[t].pc \in Making => caller[t].conn # c
<1> SUFFICES ASSUME NEW t \in Callers, caller[t].pc \in Making, caller[t].conn = c
             PROVE  FALSE
  OBVIOUS
<1>1. /\ c \notin tracked \union owned
      /\ conn[c].kind = IF caller[t].how = "stream" THEN "stream" ELSE "cached"
      /\ conn[c].phase = IF caller[t].pc = "track" /\ caller[t].how # "stream"
                         THEN "open" ELSE "auth"
  BY DEF SessionsInv, MadeByOne
<1> QED
  BY <1>1

\* The accept loop takes a connection under a slot.
LEMMA AcceptKeeps ==
    ASSUME SessionsInv, Accept
    PROVE  SessionsInv'
<1>1. PICK c \in Conns, kind \in {"accepted", "served"} :
         /\ Unused(c)
         /\ conn' = [conn EXCEPT ![c] = [NoConn EXCEPT !.kind = kind, !.phase = "new",
                                                      !.slot = TRUE]]
  BY DEF Accept
<1> DEFINE k == [NoConn EXCEPT !.kind = kind, !.phase = "new", !.slot = TRUE]
<1>2. /\ k \in ConnStates /\ PhaseLaw(k) /\ k.slot /\ k.kind # "cached" /\ k.phase = "new"
  BY DEF ConnStates, PhaseLaw, NoConn
<1>3. conn[c].phase = "unused" /\ ~conn[c].slot
  BY <1>1 DEF Unused, SessionsInv, SlotByPhase, PhaseLaw
<1>4. /\ free > 0 /\ free' = free - 1
      /\ UNCHANGED <<caller, cache, connecting, tracked, closing, owned, twice>>
  BY DEF Accept
<1>5. conn' = [conn EXCEPT ![c] = k]
  BY <1>1
<1> HIDE DEF k
<1>6. ConnMoved(c, k)
  BY <1>2, <1>3, <1>4, <1>5, SlotTaken
<1>7. \A t \in Callers : caller[t].pc \in Making => caller[t].conn # c
  BY <1>3, NobodysOwn
<1> QED
  BY <1>2, <1>4, <1>6, <1>7, ConnMoves

\* A connection that is dropped and was not a caller's.
LEMMA DropsKeeps ==
    ASSUME SessionsInv, NEW c \in Conns, Dropped(c),
           UNCHANGED <<caller, cache, connecting, tracked, owned, closing, twice>>,
           \A t \in Callers : caller[t].pc \in Making => caller[t].conn # c
    PROVE  SessionsInv'
<1>1. PICK k \in ConnStates :
         /\ ConnMoved(c, k)
         /\ k.kind = conn[c].kind /\ k.phase = "closed" /\ k.route # "alive"
  BY DropGives
<1> QED
  BY <1>1, ConnMoves

\* An accepted connection is tracked, or dropped when the transport is closing.
LEMMA AcceptTrackKeeps ==
    ASSUME SessionsInv, NEW c \in Conns, AcceptTrack(c)
    PROVE  SessionsInv'
<1>0. /\ conn[c].phase = "new" /\ conn[c] \in ConnStates /\ PhaseLaw(conn[c])
      /\ conn \in [Conns -> ConnStates]
      /\ UNCHANGED <<caller, cache, connecting, owned, closing, twice>>
  BY DEF AcceptTrack, SessionsInv, Typed, SlotByPhase
<1>1. \A t \in Callers : caller[t].pc \in Making => caller[t].conn # c
  BY <1>0, NobodysOwn
<1>2. CASE Shutdown
  BY <1>0, <1>1, <1>2, DropsKeeps DEF AcceptTrack
<1>3. CASE ~Shutdown
  <2> DEFINE k == [conn[c] EXCEPT !.phase = "auth"]
  <2>1. /\ conn' = [conn EXCEPT ![c] = k] /\ tracked' = tracked \union {c} /\ free' = free
    BY <1>0, <1>3 DEF AcceptTrack
  <2>2. /\ k \in ConnStates /\ k.phase = "auth" /\ k.slot = conn[c].slot
        /\ k.route = conn[c].route
    BY <1>0 DEF ConnStates
  <2> HIDE DEF k
  <2>3. PhaseLaw(k) /\ k.route = "none"
    BY <1>0, <2>2 DEF PhaseLaw
  <2>4. ConnMoved(c, k)
    BY <2>1, <2>2, <2>3, SlotKept
  <2> QED
    BY <1>0, <1>1, <2>1, <2>2, <2>3, <2>4, ConnMoves
<1> QED
  BY <1>2, <1>3

\* An accepted connection authenticates and is served, or is dropped.
LEMMA ServeKeeps ==
    ASSUME SessionsInv, NEW c \in Conns, Serve(c)
    PROVE  SessionsInv'
<1>0. /\ conn[c].kind \in {"accepted", "served"} /\ conn[c].phase = "auth"
      /\ conn[c] \in ConnStates /\ PhaseLaw(conn[c]) /\ conn \in [Conns -> ConnStates]
      /\ UNCHANGED <<caller, cache, connecting, tracked, owned, closing, twice>>
  BY DEF Serve, SessionsInv, Typed, SlotByPhase
<1>1. \A t \in Callers : caller[t].pc \in Making => caller[t].conn # c
  BY <1>0, NobodysOwn
<1>2. CASE Dropped(c)
  BY <1>0, <1>1, <1>2, DropsKeeps
<1>3. CASE /\ conn' = [conn EXCEPT ![c].phase = "open", ![c].route = "alive"]
           /\ UNCHANGED free
  <2> DEFINE k == [conn[c] EXCEPT !.phase = "open", !.route = "alive"]
  <2>1. conn' = [conn EXCEPT ![c] = k] /\ free' = free
    BY <1>0, <1>3
  <2>2. /\ k \in ConnStates /\ k.phase = "open" /\ k.slot = conn[c].slot
        /\ k.route = "alive" /\ k.kind = conn[c].kind
    BY <1>0 DEF ConnStates
  <2> HIDE DEF k
  <2>3. PhaseLaw(k) /\ k.kind # "cached"
    BY <1>0, <2>2 DEF PhaseLaw
  <2>4. ConnMoved(c, k)
    BY <2>1, <2>2, <2>3, SlotKept
  <2> QED
    BY <1>0, <1>1, <2>1, <2>2, <2>3, <2>4, ConnMoves
<1> QED
  BY <1>2, <1>3 DEF Serve

\* What the bus and the pumps do to a stream.
LEMMA StreamKeeps ==
    ASSUME SessionsInv, NEW c \in Conns,
           BusHalfCloses(c) \/ BusStalls(c) \/ PumpFails(c)
    PROVE  SessionsInv'
<1>0. /\ conn[c].kind \in {"stream", "served"} /\ conn[c].phase = "open"
      /\ conn[c] \in ConnStates /\ PhaseLaw(conn[c]) /\ conn \in [Conns -> ConnStates]
      /\ UNCHANGED <<caller, cache, connecting, tracked, owned, closing, twice>> /\ free' = free
  BY DEF BusHalfCloses, BusStalls, PumpFails, IsStream, SessionsInv, Typed, SlotByPhase
<1>1. \A t \in Callers : caller[t].pc \in Making => caller[t].conn # c
  BY <1>0, NobodysOwn
<1>2. ASSUME NEW k \in ConnStates, conn' = [conn EXCEPT ![c] = k],
             k.kind = conn[c].kind, k.phase = "open", k.slot = conn[c].slot, k.route # "none"
      PROVE  SessionsInv'
  <2>1. PhaseLaw(k)
    BY <1>0, <1>2 DEF PhaseLaw
  <2>2. ConnMoved(c, k)
    BY <1>0, <1>2, <2>1, SlotKept
  <2> QED
    BY <1>0, <1>1, <1>2, <2>2, ConnMoves
<1>3. conn[c].route # "none"
  BY <1>0 DEF PhaseLaw
<1>4. CASE BusHalfCloses(c)
  <2> DEFINE k == [conn[c] EXCEPT !.eof = TRUE]
  <2>1. conn' = [conn EXCEPT ![c] = k]
    BY <1>0, <1>4 DEF BusHalfCloses
  <2>2. /\ k \in ConnStates /\ k.phase = conn[c].phase /\ k.slot = conn[c].slot
        /\ k.route = conn[c].route /\ k.kind = conn[c].kind
    BY <1>0 DEF ConnStates
  <2> HIDE DEF k
  <2> QED
    BY <1>0, <1>2, <1>3, <2>1, <2>2
<1>5. CASE BusStalls(c)
  <2> DEFINE k == [conn[c] EXCEPT !.stalled = TRUE]
  <2>1. conn' = [conn EXCEPT ![c] = k]
    BY <1>0, <1>5 DEF BusStalls
  <2>2. /\ k \in ConnStates /\ k.phase = conn[c].phase /\ k.slot = conn[c].slot
        /\ k.route = conn[c].route /\ k.kind = conn[c].kind
    BY <1>0 DEF ConnStates
  <2> HIDE DEF k
  <2> QED
    BY <1>0, <1>2, <1>3, <2>1, <2>2
<1>6. CASE PumpFails(c)
  <2>1. conn' = [conn EXCEPT ![c] = MarkDead(conn[c])]
    BY <1>6 DEF PumpFails
  <2>2. /\ MarkDead(conn[c]) \in ConnStates /\ MarkDead(conn[c]).kind = conn[c].kind
        /\ MarkDead(conn[c]).phase = conn[c].phase /\ MarkDead(conn[c]).slot = conn[c].slot
        /\ MarkDead(conn[c]).route # "none"
    BY <1>0, <1>3, ConnEnds
  <2> QED
    BY <1>0, <1>2, <2>1, <2>2
<1> QED
  BY <1>4, <1>5, <1>6

\* A task ends, gives its slot back and closes the connection, in that order.
LEMMA TaskKeeps ==
    ASSUME SessionsInv, NEW c \in Conns,
           ReaderFails(c) \/ TaskEnds(c) \/ FreeSlot(c) \/ CloseConn(c)
    PROVE  SessionsInv'
<1>0. /\ conn[c] \in ConnStates /\ PhaseLaw(conn[c]) /\ conn \in [Conns -> ConnStates]
  BY DEF SessionsInv, Typed, SlotByPhase
<1>1. CASE ReaderFails(c) \/ TaskEnds(c)
  <2> DEFINE k == [MarkDead(conn[c]) EXCEPT !.phase = "ending"]
  <2>0. /\ conn[c].phase = "open" /\ c \in tracked \union owned
        /\ conn' = [conn EXCEPT ![c] = k]
        /\ cache' = IF cache = c THEN None ELSE cache
        /\ UNCHANGED <<caller, connecting, tracked, owned, closing, twice>> /\ free' = free
    BY <1>1 DEF ReaderFails, TaskEnds, HasTask
  <2>1. MarkDead(conn[c]) \in ConnStates /\ MarkDead(conn[c]).slot = conn[c].slot
        /\ MarkDead(conn[c]).route # "alive"
    BY <1>0, ConnEnds
  <2>2. /\ k \in ConnStates /\ k.phase = "ending" /\ k.slot = conn[c].slot
        /\ k.route # "alive"
    BY <2>1 DEF ConnStates
  <2> HIDE DEF k
  <2>3. PhaseLaw(k)
    BY <1>0, <2>0, <2>2 DEF PhaseLaw
  <2>4. ConnMoved(c, k)
    BY <2>0, <2>2, <2>3, SlotKept
  <2>5. \A t \in Callers : caller[t].pc \in Making => caller[t].conn # c
    BY <2>0, NobodysOwn
  <2> QED
    BY <2>0, <2>2, <2>4, <2>5, ConnMoves
<1>2. CASE FreeSlot(c)
  <2> DEFINE k == [conn[c] EXCEPT !.phase = "released", !.slot = FALSE]
  <2>0. /\ conn[c].phase = "ending" /\ free' = free + 1
        /\ conn' = [conn EXCEPT ![c] = k]
        /\ UNCHANGED <<caller, cache, connecting, tracked, owned, closing, twice>>
    BY <1>0, <1>2 DEF FreeSlot
  <2>1. /\ k \in ConnStates /\ k.phase = "released" /\ k.slot = FALSE
        /\ k.route = conn[c].route /\ k.kind = conn[c].kind
    BY <1>0 DEF ConnStates
  <2> HIDE DEF k
  <2>2. PhaseLaw(k) /\ conn[c].slot
    BY <1>0, <2>0, <2>1 DEF PhaseLaw
  <2>3. ConnMoved(c, k)
    BY <2>0, <2>1, <2>2, SlotGiven
  <2>4. \A t \in Callers : caller[t].pc \in Making => caller[t].conn # c
    BY <2>0, NobodysOwn
  <2> QED
    BY <2>0, <2>1, <2>3, <2>4, ConnMoves DEF LiveSession, Alive
<1>3. CASE CloseConn(c)
  <2> DEFINE k == Over(conn[c])
  <2>0. /\ conn[c].phase = "released" /\ free' = free
        /\ conn' = [conn EXCEPT ![c] = k]
        /\ UNCHANGED <<caller, cache, connecting, tracked, owned, closing, twice>>
    BY <1>3 DEF CloseConn
  <2>1. /\ k \in ConnStates /\ k.phase = "closed" /\ k.slot = conn[c].slot
        /\ k.route # "alive"
    BY <1>0, ConnEnds
  <2> HIDE DEF k
  <2>2. PhaseLaw(k)
    BY <1>0, <2>0, <2>1 DEF PhaseLaw
  <2>3. ConnMoved(c, k)
    BY <2>0, <2>1, <2>2, SlotKept
  <2>4. \A t \in Callers : caller[t].pc \in Making => caller[t].conn # c
    BY <2>0, NobodysOwn
  <2> QED
    BY <2>0, <2>1, <2>3, <2>4, ConnMoves
<1> QED
  BY <1>1, <1>2, <1>3

-----------------------------------------------------------------------------
(* The close. *)

\* The steps of close.
LEMMA CloseKeeps ==
    ASSUME SessionsInv, CloseFlag \/ CloseCache \/ CloseTasks
    PROVE  SessionsInv'
<1>0. SessionsInv
  OBVIOUS
<1>t. /\ caller \in [Callers -> CallerStates] /\ conn \in [Conns -> ConnStates]
      /\ cache \in Conns \union {None} /\ None \notin Conns
  BY TransportAssumption DEF SessionsInv, Typed
<1>1. CASE CloseFlag
  BY <1>0, <1>1
     DEF CloseFlag, SessionsInv, Typed, SlotByPhase, SlotsCounted, Held, MadeByOne,
         TrackedAreUsed, CallersGo, LockHeld, LiveIsCached, LiveSession, Alive, Shutdown,
         WrittenOnce
<1>2. CASE CloseTasks
  <2>1. /\ UNCHANGED <<caller, conn, free, cache, connecting, twice>>
        /\ owned' = tracked /\ tracked' = {} /\ closing' = "tasks"
    BY <1>2 DEF CloseTasks
  <2>2. MadeByOne' /\ TrackedAreUsed'
    BY <1>0, <2>1 DEF SessionsInv, Typed, MadeByOne, TrackedAreUsed
  <2>3. LiveIsCached'
    BY <1>0, <2>1 DEF SessionsInv, LiveIsCached, LiveSession, Alive, Shutdown
  <2> QED
    BY <1>0, <2>1, <2>2, <2>3
       DEF SessionsInv, Typed, SlotByPhase, SlotsCounted, Held, CallersGo, LockHeld,
           WrittenOnce
<1>3. CASE CloseCache
  <2>0. /\ cache' = None /\ Shutdown' /\ Shutdown
        /\ conn' = IF cache = None THEN conn ELSE [conn EXCEPT ![cache] = MarkDead(@)]
        /\ UNCHANGED <<caller, free, connecting, tracked, owned, twice>>
    BY <1>3 DEF CloseCache, Shutdown
  <2>1. /\ conn' \in [Conns -> ConnStates] /\ free' \in Nat
        /\ SlotByPhase' /\ SlotsCounted'
        /\ \A d \in Conns : /\ conn'[d].kind = conn[d].kind
                            /\ conn'[d].phase = conn[d].phase
                            /\ conn'[d].route = "alive" => conn[d].route = "alive"
    <3>1. CASE cache = None
      BY <1>0, <1>t, <2>0, <3>1 DEF SessionsInv, Typed, SlotByPhase, SlotsCounted, Held
    <3>2. CASE cache # None
      <4>1. cache \in Conns /\ conn' = [conn EXCEPT ![cache] = MarkDead(conn[cache])]
        BY <1>t, <2>0, <3>2
      <4> QED
        BY <1>0, <2>0, <4>1, DeathKeeps DEF ConnMoved
    <3> QED
      BY <3>1, <3>2
  <2>2. Typed'
    BY <1>0, <2>0, <2>1 DEF SessionsInv, Typed
  <2>3. MadeByOne' /\ TrackedAreUsed'
    BY <1>0, <2>0, <2>1 DEF SessionsInv, Typed, MadeByOne, TrackedAreUsed
  <2>4. \A d \in Conns : LiveSession(d)' => LiveSession(d)
    BY <2>1 DEF LiveSession, Alive
  <2>5. LiveIsCached'
    BY <1>0, <2>0, <2>4 DEF SessionsInv, LiveIsCached
  <2> QED
    BY <1>0, <2>0, <2>1, <2>2, <2>3, <2>5 DEF SessionsInv, CallersGo, LockHeld, WrittenOnce
<1> QED
  BY <1>1, <1>2, <1>3

\* The tasks that are still running at the deadline are aborted together.
LEMMA CloseWaitKeeps ==
    ASSUME SessionsInv, CloseWait
    PROVE  SessionsInv'
<1> DEFINE rest == {c \in owned : ~TaskDone(c)}
           Gone(k) == [Over(k) EXCEPT !.slot = FALSE]
           given == {c \in rest : conn[c].slot}
<1>0. SessionsInv
  OBVIOUS
<1>t. /\ caller \in [Callers -> CallerStates] /\ conn \in [Conns -> ConnStates]
      /\ cache \in Conns \union {None} /\ free \in Nat
  BY DEF SessionsInv, Typed
<1>1. /\ conn' = [c \in Conns |-> IF c \in rest THEN Gone(conn[c]) ELSE conn[c]]
      /\ free' = free + Cardinality(given)
      /\ Shutdown /\ Shutdown'
      /\ UNCHANGED <<caller, cache, connecting, tracked, owned, twice>>
  BY DEF CloseWait, Shutdown
<1>2. ASSUME NEW c \in Conns
      PROVE  /\ Gone(conn[c]) \in ConnStates /\ Gone(conn[c]).kind = conn[c].kind
             /\ Gone(conn[c]).phase = "closed" /\ Gone(conn[c]).slot = FALSE
             /\ Gone(conn[c]).route # "alive" /\ PhaseLaw(Gone(conn[c]))
  <2>1. /\ Over(conn[c]) \in ConnStates /\ Over(conn[c]).kind = conn[c].kind
        /\ Over(conn[c]).phase = "closed" /\ Over(conn[c]).route # "alive"
    BY <1>t, ConnEnds
  <2>2. /\ Gone(conn[c]) \in ConnStates /\ Gone(conn[c]).kind = conn[c].kind
        /\ Gone(conn[c]).phase = "closed" /\ Gone(conn[c]).slot = FALSE
        /\ Gone(conn[c]).route # "alive"
    BY <2>1 DEF ConnStates
  <2> QED
    BY <2>2 DEF PhaseLaw
<1> HIDE DEF Gone, rest
<1>3. conn' \in [Conns -> ConnStates]
  BY <1>t, <1>1, <1>2
<1>4. SlotByPhase'
  BY <1>0, <1>1, <1>2 DEF SessionsInv, SlotByPhase
<1>5. rest \subseteq Conns
  BY <1>0 DEF SessionsInv, Typed, rest
<1>6. Held' = Held \ rest /\ given = Held \intersect rest
  BY <1>1, <1>2, <1>5 DEF Held
<1>7. IsFiniteSet(Held) /\ free + Cardinality(Held) = MaxSessions
  BY <1>0 DEF SessionsInv, SlotsCounted
<1>8. /\ IsFiniteSet(Held \ rest)
      /\ Cardinality(Held \ rest) = Cardinality(Held) - Cardinality(Held \intersect rest)
  BY <1>7, FS_Difference
<1>9. IsFiniteSet(Held \intersect rest)
  BY <1>7, FS_Intersection
<1>10. Cardinality(Held) \in Nat /\ Cardinality(Held \intersect rest) \in Nat
  BY <1>7, <1>9, FS_CardinalityType
<1>11. free' + Cardinality(Held \ rest) = MaxSessions /\ free' \in Nat
  <2>1. free' = free + Cardinality(Held \intersect rest)
    BY <1>1, <1>6
  <2> QED
    BY <1>t, <1>7, <1>8, <1>10, <2>1
<1>12. SlotsCounted'
  BY <1>6, <1>8, <1>11 DEF SlotsCounted
<1>13. Typed'
  BY <1>0, <1>1, <1>3, <1>11 DEF SessionsInv, Typed
<1>14. rest \subseteq owned
  BY DEF rest
<1>15. \A c \in Conns : c \notin rest => conn'[c] = conn[c]
  BY <1>1
<1>16. \A c \in rest : conn'[c].phase = "closed" /\ conn'[c].route # "alive"
  BY <1>1, <1>2, <1>5
<1>17. MadeByOne'
  BY <1>0, <1>1, <1>14, <1>15 DEF SessionsInv, MadeByOne
<1>18. TrackedAreUsed'
  BY <1>0, <1>1, <1>15, <1>16 DEF SessionsInv, Typed, TrackedAreUsed
<1>19. \A c \in Conns : LiveSession(c)' => LiveSession(c)
  BY <1>15, <1>16 DEF LiveSession, Alive
<1>20. LiveIsCached'
  BY <1>0, <1>1, <1>19 DEF SessionsInv, LiveIsCached
<1> QED
  BY <1>0, <1>1, <1>4, <1>12, <1>13, <1>17, <1>18, <1>20
     DEF SessionsInv, CallersGo, LockHeld, WrittenOnce

-----------------------------------------------------------------------------
(* Theorems. *)

\* The transport starts in the invariant.
LEMMA InitSessions == Init => SessionsInv
<1> SUFFICES ASSUME Init PROVE SessionsInv
  OBVIOUS
<1>1. /\ AtRest \in CallerStates /\ WellGone(AtRest) /\ ~Connecting(AtRest)
      /\ AtRest.pc \notin Making
  BY DEF AtRest, CallerStates, WellGone, Connecting, Making
<1>2. /\ NoConn \in ConnStates /\ PhaseLaw(NoConn) /\ ~NoConn.slot
      /\ NoConn.route = "none"
  BY DEF NoConn, ConnStates, PhaseLaw
<1>3. Typed
  BY <1>1, <1>2, TransportAssumption DEF Init, Typed
<1>4. SlotByPhase
  BY <1>2 DEF Init, SlotByPhase
<1>5. Held = {}
  BY <1>2 DEF Init, Held
<1>6. SlotsCounted
  <2>1. IsFiniteSet(Held) /\ Cardinality(Held) = 0
    BY <1>5, FS_EmptySet
  <2> QED
    BY <2>1, TransportAssumption DEF Init, SlotsCounted
<1>7. MadeByOne /\ TrackedAreUsed /\ CallersGo /\ LockHeld /\ WrittenOnce
  BY <1>1 DEF Init, MadeByOne, TrackedAreUsed, CallersGo, LockHeld, WrittenOnce
<1>8. LiveIsCached
  BY <1>2 DEF Init, LiveIsCached, LiveSession, Alive
<1> QED
  BY <1>3, <1>4, <1>6, <1>7, <1>8 DEF SessionsInv

\* The invariant holds however callers, tasks, the bus and the close interleave
\* (transport.rs and process.rs), for any number of callers and connections.
THEOREM SessionsCorrect == Spec => []SessionsInv
<1>1. Init => SessionsInv
  BY InitSessions
<1>2. SessionsInv /\ [Next]_vars => SessionsInv'
  <2> SUFFICES ASSUME SessionsInv, [Next]_vars PROVE SessionsInv'
    OBVIOUS
  <2>0. SessionsInv
    OBVIOUS
  <2>1. ASSUME NEW t \in Callers,
               Send(t) \/ OpenStream(t) \/ \E c \in Conns : Reply(t, c)
        PROVE  SessionsInv'
    BY <2>0, <2>1, SendKeeps
  <2>2. ASSUME NEW t \in Callers, CallerStep(t) PROVE SessionsInv'
    BY <2>0, <2>2, ConnectLockKeeps, TakeSlotKeeps, ConnectsKeeps, InsertKeeps, TrackKeeps,
       RouteKeeps, RouteFailsKeeps DEF CallerStep
  <2>3. ASSUME NEW c \in Conns,
               \/ \E from \in {"killed", "running"} : ChildExits(c, from)
               \/ ChildWait(c) \/ ChildReap(c) \/ OrphanReaped(c)
        PROVE  SessionsInv'
    BY <2>0, <2>3, Unmoved DEF ChildExits, ChildWait, ChildReap, OrphanReaped
  <2>4. ASSUME NEW c \in Conns,
               \/ AcceptTrack(c) \/ Serve(c) \/ TaskEnds(c) \/ FreeSlot(c) \/ CloseConn(c)
               \/ BusHalfCloses(c) \/ BusStalls(c) \/ PumpFails(c) \/ ReaderFails(c)
        PROVE  SessionsInv'
    BY <2>0, <2>4, AcceptTrackKeeps, ServeKeeps, StreamKeeps, TaskKeeps
  <2>5. CASE Accept
    BY <2>0, <2>5, AcceptKeeps
  <2>6. CASE CloseFlag \/ CloseStep
    BY <2>0, <2>6, CloseKeeps, CloseWaitKeeps DEF CloseStep
  <2>7. CASE UNCHANGED vars
    BY <2>0, <2>7, Unmoved DEF vars
  <2> QED
    BY <2>1, <2>2, <2>3, <2>4, <2>5, <2>6, <2>7 DEF Next, ConnStep
<1> QED
  BY <1>1, <1>2, PTL DEF Spec

\* Slots are conserved and freed before a close shows (FreeSlot before CloseConn in
\* the session tasks of transport.rs), concurrent sends open one session at most
\* (outbound_connect), and an envelope is written on one connection (send_on_route
\* does not retry), for any number of callers, connections and slots.
THEOREM SessionsStaySound == Spec => []SessionsAreSound
<1>1. SessionsInv => SessionsAreSound
  <2> SUFFICES ASSUME SessionsInv PROVE SessionsAreSound
    OBVIOUS
  <2>1. SlotsConserved
    BY DEF SessionsInv, SlotsCounted, Held, SlotsConserved
  <2>2. SlotFreedBeforeClose
    BY DEF SessionsInv, SlotByPhase, PhaseLaw, SlotFreedBeforeClose
  <2>3. OneLiveSession
    <3> DEFINE Live == {c \in Conns : LiveSession(c)}
    <3>1. \A c, d \in Live : c = d
      BY DEF SessionsInv, LiveIsCached
    <3>2. CASE Live = {}
      BY <3>2, FS_EmptySet DEF OneLiveSession, LiveSession
    <3>3. CASE Live # {}
      <4>1. PICK c \in Live : Live = {c}
        BY <3>1, <3>3
      <4>2. Cardinality({c}) = 1
        BY FS_Singleton
      <4>3. Cardinality(Live) <= 1
        BY <4>1, <4>2
      <4> QED
        BY <4>3 DEF OneLiveSession, LiveSession
    <3> QED
      BY <3>2, <3>3
  <2>4. WrittenOnce
    BY DEF SessionsInv
  <2> QED
    BY <2>1, <2>2, <2>3, <2>4 DEF SessionsAreSound
<1> QED
  BY <1>1, SessionsCorrect, PTL
=============================================================================
