------------------------------ MODULE BusProofs ------------------------------
(***************************************************************************)
(* Theorems about the bus.                                                 *)
(*                                                                         *)
(* Envelope sequences, for every block size and sequence space.  Ascending *)
(* is not inductive: a successor starts at what the file holds, so the     *)
(* argument needs that no issued sequence is above what a power loss leaves*)
(* of the file, and where the file can be while a bus is up.               *)
(*                                                                         *)
(* Inboxes, for any number of agents, any messages, any capacity of the    *)
(* nonce cache and any number of envelopes out of turn, under nonces drawn *)
(* or copied: an envelope is handled once at most, a reply that is awaited *)
(* is not lost to answers of others under its correlation, a request is    *)
(* answered by the agent it was put to, and its waiter lives as long as it *)
(* does.                                                                   *)
(*                                                                         *)
(* The session in an SSH channel, for every frame length, every carrier    *)
(* and any number of records, while the revocation logs of both hosts      *)
(* move: open ends have authenticated each other at one generation,        *)
(* records arrive in order without a gap, and none from a revoked peer.    *)
(***************************************************************************)
EXTENDS BusSequence, BusInbox, SshSession, TLAPS

-------------------------------------------------------------------------------
(* Sequences: the inductive invariant *)

\* No sequence was issued from a block that a power loss could take back.
IssuedIsDurable ==
    /\ synced <= file
    /\ \A i \in Positions : issued[i] <= synced

\* While a bus is up, its block covers what it issued, and the file is at
\* the block or, once the block is used up, at the next one; a block in
\* use is one that a power loss leaves.
BlockHeld ==
    up => /\ last <= reserved /\ reserved <= last + Block
          /\ file = reserved \/ (last = reserved /\ file = Through)
          /\ last < reserved => reserved <= synced
          /\ \A i \in Positions : issued[i] <= last

\* A block is only reserved when the one before it is used up.
ReservingNext ==
    step # "idle" => /\ up /\ last = reserved /\ last < MaxSeq
                     /\ step = "renamed" => file = Through

\* The receiver's mark is that of an envelope it accepted, and no envelope
\* under way has been accepted already.
MarkIsAccepted ==
    /\ highest # 0 => \E j \in accepted : issued[j] = highest
    /\ wire \intersect accepted = {}

SequenceInv ==
    /\ TypeOK /\ Ascending /\ IssuedIsDurable /\ BlockHeld /\ ReservingNext
    /\ MarkIsAccepted /\ DroppedOnlyIfOvertaken

\* The issued sequences are sequences of the space.
LEMMA IssuedTyped ==
    ASSUME TypeOK
    PROVE  Len(issued) \in Nat /\ \A i \in Positions : issued[i] \in 1..MaxSeq
<1>1. issued \in Seq(1..MaxSeq)
  BY DEF TypeOK
<1>2. ASSUME NEW S, NEW s \in Seq(S)
      PROVE  Len(s) \in Nat /\ \A i \in 1..Len(s) : s[i] \in S
  OBVIOUS
<1> QED
  BY <1>1, <1>2, Zenon DEF Positions

\* The initial state: nothing was issued, reserved or received.
LEMMA InitSequence == Init => SequenceInv
<1> SUFFICES ASSUME Init PROVE SequenceInv
  OBVIOUS
<1>1. Len(issued) = 0 /\ Positions = {}
  BY DEF Init, Positions
<1>2. TypeOK
  <2>1. issued \in Seq(1..MaxSeq)
    BY DEF Init
  <2>2. 0 \in 0..MaxSeq
    BY SequenceAssumption
  <2> QED
    BY <1>1, <2>1, <2>2, Zenon DEF Init, TypeOK
<1> QED
  BY <1>1, <1>2
     DEF Init, SequenceInv, Ascending, IssuedIsDurable, BlockHeld,
         ReservingNext, MarkIsAccepted, DroppedOnlyIfOvertaken

\* The limit of the next block is a sequence, at or above the present one
\* by at most a block, and above it while sequences remain.
LEMMA ThroughBounds ==
    ASSUME reserved \in 0..MaxSeq
    PROVE  /\ Through \in 0..MaxSeq
           /\ reserved <= Through /\ Through <= reserved + Block
           /\ reserved < MaxSeq => reserved < Through
BY SequenceAssumption DEF Through

\* A step that leaves the envelopes and the receiver alone keeps what is
\* said of them.
LEMMA HistoryKept ==
    ASSUME SequenceInv, UNCHANGED <<issued, wire, receiver>>
    PROVE  /\ Positions' = Positions
           /\ (Ascending /\ MarkIsAccepted /\ DroppedOnlyIfOvertaken)'
BY DEF SequenceInv, Positions, Ascending, MarkIsAccepted,
       DroppedOnlyIfOvertaken, receiver

\* Issuing a sequence above all the issued ones keeps them ascending, and
\* leaves what the receiver holds as it was.
LEMMA IssueAppends ==
    ASSUME SequenceInv, Issue, UNCHANGED receiver, last < MaxSeq,
           \A i \in Positions : issued[i] <= last
    PROVE  /\ issued' \in Seq(1..MaxSeq)
           /\ Positions' = Positions \union {Len(issued) + 1}
           /\ \A i \in Positions : issued'[i] = issued[i]
           /\ issued'[Len(issued) + 1] = last + 1
           /\ wire' \subseteq Positions'
           /\ (Ascending /\ MarkIsAccepted /\ DroppedOnlyIfOvertaken)'
<1>0. TypeOK /\ Ascending /\ MarkIsAccepted /\ DroppedOnlyIfOvertaken
  BY DEF SequenceInv
<1>1. last + 1 \in 1..MaxSeq
  BY <1>0, SequenceAssumption DEF TypeOK
<1>2. /\ issued' \in Seq(1..MaxSeq)
      /\ Len(issued') = Len(issued) + 1
      /\ \A i \in Positions : issued'[i] = issued[i]
      /\ issued'[Len(issued) + 1] = last + 1
      /\ Len(issued) \in Nat
  BY <1>0, <1>1 DEF Issue, TypeOK, Positions
<1>3. Positions' = Positions \union {Len(issued) + 1}
  BY <1>2 DEF Positions
<1>4. wire' \subseteq Positions'
  BY <1>0, <1>3 DEF Issue, TypeOK
<1>5. Ascending'
  <2> SUFFICES ASSUME NEW i \in Positions', NEW j \in Positions', i < j
               PROVE  issued'[i] < issued'[j]
    BY DEF Ascending
  <2>0. i \in 1..(Len(issued) + 1) /\ j \in 1..(Len(issued) + 1)
    BY <1>2, <1>3 DEF Positions
  <2>1. i \in Positions /\ issued[i] \in 1..MaxSeq /\ issued'[i] = issued[i]
    <3>1. i \in 1..Len(issued)
      BY <2>0, <1>2
    <3> QED
      BY <3>1, <1>0, <1>2, IssuedTyped DEF Positions
  <2>2. CASE j = Len(issued) + 1
    BY <2>1, <2>2, <1>0, <1>2, SequenceAssumption DEF TypeOK
  <2>3. CASE j \in Positions
    BY <2>1, <2>3, <1>0, <1>2 DEF Ascending
  <2> QED
    BY <1>3, <2>2, <2>3
<1>6. accepted \subseteq Positions /\ Len(issued) + 1 \notin accepted
  BY <1>0, <1>2 DEF TypeOK, Positions
<1>7. (MarkIsAccepted /\ DroppedOnlyIfOvertaken)'
  BY <1>0, <1>2, <1>6
     DEF MarkIsAccepted, DroppedOnlyIfOvertaken, receiver, Issue
<1> QED
  BY <1>2, <1>3, <1>4, <1>5, <1>7

\* The steps of the bus and of its machine.
LEMMA BusSteps ==
    ASSUME SequenceInv,
           Reserving \/ NextInBlock \/ Stage \/ Rename \/ SyncDirectory
             \/ ReserveFails \/ Crash \/ PowerLoss \/ WriteBack
    PROVE  SequenceInv'
<1> USE SequenceAssumption
<1>0. TypeOK /\ Ascending /\ IssuedIsDurable /\ BlockHeld /\ ReservingNext
      /\ MarkIsAccepted /\ DroppedOnlyIfOvertaken
  BY DEF SequenceInv
<1>t. /\ Through \in 0..MaxSeq
      /\ reserved <= Through /\ Through <= reserved + Block
      /\ reserved < MaxSeq => reserved < Through
  BY <1>0, ThroughBounds DEF TypeOK
<1>n. Len(issued) \in Nat /\ \A i \in Positions : issued[i] \in 1..MaxSeq
  BY <1>0, IssuedTyped
<1>1. CASE Reserving
  <2>1. /\ last' = file /\ reserved' = file /\ up' = TRUE /\ up = FALSE
        /\ UNCHANGED <<file, synced, step, issued, wire, receiver>>
    BY <1>1, <1>0 DEF Reserving, TypeOK, disk
  <2>2. step = "idle"
    BY <1>0, <2>1 DEF ReservingNext
  <2>3. /\ Positions' = Positions
        /\ (Ascending /\ MarkIsAccepted /\ DroppedOnlyIfOvertaken)'
    BY <2>1, HistoryKept
  <2>4. BlockHeld'
    BY <2>1, <2>3, <1>0, <1>n DEF BlockHeld, IssuedIsDurable, TypeOK
  <2> QED
    BY <2>1, <2>2, <2>3, <2>4, <1>0
       DEF SequenceInv, TypeOK, IssuedIsDurable, ReservingNext, receiver
<1>2. CASE NextInBlock
  <2>1. /\ up = TRUE /\ step = "idle" /\ last < MaxSeq /\ last + 1 <= reserved
        /\ Issue /\ last' = last + 1
        /\ UNCHANGED <<file, synced, up, reserved, step, receiver>>
    BY <1>2, <1>0 DEF NextInBlock, Issue, TypeOK, disk
  <2>2. /\ file = reserved /\ reserved <= synced
        /\ \A i \in Positions : issued[i] <= last
    BY <2>1, <1>0 DEF BlockHeld, TypeOK
  <2>3. /\ issued' \in Seq(1..MaxSeq)
        /\ Positions' = Positions \union {Len(issued) + 1}
        /\ \A i \in Positions : issued'[i] = issued[i]
        /\ issued'[Len(issued) + 1] = last + 1
        /\ wire' \subseteq Positions'
        /\ (Ascending /\ MarkIsAccepted /\ DroppedOnlyIfOvertaken)'
    BY <2>1, <2>2, IssueAppends
  <2>4. TypeOK'
    BY <2>1, <2>3, <1>0 DEF TypeOK, receiver
  <2>5. BlockHeld'
    <3>1. ASSUME NEW i \in Positions' PROVE issued'[i] <= last'
      <4>1. CASE i \in Positions
        <5>1. issued'[i] = issued[i] /\ issued[i] <= last /\ issued[i] \in 1..MaxSeq
          BY <4>1, <2>2, <2>3, <1>n
        <5>2. last \in 0..MaxSeq
          BY <1>0 DEF TypeOK
        <5> QED
          BY <5>1, <5>2, <2>1
      <4>2. CASE i = Len(issued) + 1
        BY <4>2, <2>1, <2>3, <1>0 DEF TypeOK
      <4> QED
        BY <4>1, <4>2, <2>3
    <3>2. last' <= reserved' /\ reserved' <= last' + Block
      BY <2>1, <2>2, <1>0 DEF BlockHeld, TypeOK
    <3> QED
      BY <3>1, <3>2, <2>1, <2>2 DEF BlockHeld
  <2>6. IssuedIsDurable'
    <3>1. /\ last \in Int /\ reserved \in Int /\ synced \in Int /\ file \in Int
          /\ synced <= file /\ last + 1 <= synced
      BY <2>1, <2>2, <1>0 DEF IssuedIsDurable, TypeOK
    <3>2. ASSUME NEW i \in Positions' PROVE issued'[i] <= synced
      <4>1. CASE i \in Positions
        BY <4>1, <2>3, <1>0 DEF IssuedIsDurable
      <4>2. CASE i = Len(issued) + 1
        BY <4>2, <2>3, <3>1
      <4> QED
        BY <4>1, <4>2, <2>3
    <3> QED
      BY <3>1, <3>2, <2>1 DEF IssuedIsDurable
  <2> QED
    BY <2>1, <2>3, <2>4, <2>5, <2>6 DEF SequenceInv, ReservingNext
<1>3. CASE Stage
  <2>1. /\ up = TRUE /\ last < MaxSeq /\ last + 1 > reserved /\ step' = "staged"
        /\ UNCHANGED <<file, synced, up, last, reserved, issued, wire, receiver>>
    BY <1>3, <1>0 DEF Stage, TypeOK, disk
  <2>2. /\ Positions' = Positions
        /\ (Ascending /\ MarkIsAccepted /\ DroppedOnlyIfOvertaken)'
    BY <2>1, HistoryKept
  <2>3. last = reserved
    BY <2>1, <1>0 DEF BlockHeld, TypeOK
  <2>4. Through' = Through
    BY <2>1 DEF Through
  <2> QED
    BY <2>1, <2>2, <2>3, <2>4, <1>0
       DEF SequenceInv, TypeOK, IssuedIsDurable, BlockHeld, ReservingNext,
           receiver
<1>4. CASE Rename
  <2>1. /\ step = "staged" /\ step' = "renamed" /\ file' = Through
        /\ UNCHANGED <<synced, up, last, reserved, issued, wire, receiver>>
    BY <1>4 DEF Rename
  <2>2. /\ Positions' = Positions
        /\ (Ascending /\ MarkIsAccepted /\ DroppedOnlyIfOvertaken)'
    BY <2>1, HistoryKept
  <2>3. up = TRUE /\ last = reserved /\ last < MaxSeq
    BY <2>1, <1>0 DEF ReservingNext, TypeOK
  <2>4. Through' = Through
    BY <2>1 DEF Through
  <2>5. file <= Through
    BY <2>3, <1>0, <1>t DEF BlockHeld, TypeOK
  <2>6. TypeOK' /\ IssuedIsDurable'
    BY <2>1, <2>2, <2>5, <1>0, <1>t, <1>n DEF TypeOK, IssuedIsDurable, receiver
  <2>7. BlockHeld' /\ ReservingNext'
    BY <2>1, <2>2, <2>3, <2>4, <1>0 DEF BlockHeld, ReservingNext
  <2> QED
    BY <2>2, <2>6, <2>7 DEF SequenceInv
<1>5. CASE SyncDirectory
  <2>1. /\ step = "renamed" /\ step' = "idle" /\ synced' = file
        /\ reserved' = Through /\ Issue /\ last' = last + 1
        /\ UNCHANGED <<file, up, receiver>>
    BY <1>5 DEF SyncDirectory, Issue
  <2>2. up = TRUE /\ last = reserved /\ last < MaxSeq /\ file = Through
    BY <2>1, <1>0 DEF ReservingNext, TypeOK
  <2>3. \A i \in Positions : issued[i] <= last
    BY <2>2, <1>0 DEF BlockHeld
  <2>4. /\ issued' \in Seq(1..MaxSeq)
        /\ Positions' = Positions \union {Len(issued) + 1}
        /\ \A i \in Positions : issued'[i] = issued[i]
        /\ issued'[Len(issued) + 1] = last + 1
        /\ wire' \subseteq Positions'
        /\ (Ascending /\ MarkIsAccepted /\ DroppedOnlyIfOvertaken)'
    BY <2>1, <2>2, <2>3, IssueAppends
  <2>5. last + 1 <= Through
    BY <2>2, <1>0, <1>t DEF TypeOK
  <2>6. TypeOK'
    BY <2>1, <2>2, <2>4, <1>0, <1>t DEF TypeOK, receiver
  <2>7. BlockHeld'
    <3>1. ASSUME NEW i \in Positions' PROVE issued'[i] <= last'
      <4>1. CASE i \in Positions
        <5>1. issued'[i] = issued[i] /\ issued[i] <= last /\ issued[i] \in 1..MaxSeq
          BY <4>1, <2>3, <2>4, <1>n
        <5>2. last \in 0..MaxSeq
          BY <1>0 DEF TypeOK
        <5> QED
          BY <5>1, <5>2, <2>1
      <4>2. CASE i = Len(issued) + 1
        BY <4>2, <2>1, <2>4, <1>0 DEF TypeOK
      <4> QED
        BY <4>1, <4>2, <2>4
    <3>2. last' <= reserved' /\ reserved' <= last' + Block
      BY <2>1, <2>2, <2>5, <1>0, <1>t DEF TypeOK
    <3>3. file' = reserved' /\ synced' = reserved' /\ reserved' \in Int
      BY <2>1, <2>2, <1>t
    <3>4. reserved' <= synced'
      BY <3>3
    <3> QED
      BY <3>1, <3>2, <3>3, <3>4 DEF BlockHeld
  <2>8. IssuedIsDurable'
    <3>1. ASSUME NEW i \in Positions' PROVE issued'[i] <= Through
      <4>1. CASE i \in Positions
        <5>1. issued'[i] = issued[i] /\ issued[i] <= last /\ issued[i] \in Int
          BY <4>1, <2>3, <2>4, <1>n
        <5>2. last \in Int /\ Through \in Int
          BY <1>0, <1>t DEF TypeOK
        <5> QED
          BY <5>1, <5>2, <2>5
      <4>2. CASE i = Len(issued) + 1
        BY <4>2, <2>4, <2>5
      <4> QED
        BY <4>1, <4>2, <2>4
    <3> QED
      BY <3>1, <2>1, <2>2, <1>t DEF IssuedIsDurable
  <2> QED
    BY <2>1, <2>4, <2>6, <2>7, <2>8 DEF SequenceInv, ReservingNext
<1>6. CASE ReserveFails
  <2>1. /\ step' = "idle"
        /\ UNCHANGED <<file, synced, up, last, reserved, issued, wire, receiver>>
    BY <1>6 DEF ReserveFails, disk
  <2>2. /\ Positions' = Positions
        /\ (Ascending /\ MarkIsAccepted /\ DroppedOnlyIfOvertaken)'
    BY <2>1, HistoryKept
  <2>3. Through' = Through
    BY <2>1 DEF Through
  <2> QED
    BY <2>1, <2>2, <2>3, <1>0
       DEF SequenceInv, TypeOK, IssuedIsDurable, BlockHeld, ReservingNext,
           receiver
<1>7. CASE Crash \/ PowerLoss
  <2>1. /\ up' = FALSE /\ step' = "idle" /\ last' = 0 /\ reserved' = 0
        /\ file' \in {file, synced}
        /\ UNCHANGED <<synced, issued, wire, receiver>>
    BY <1>7 DEF Crash, PowerLoss, disk
  <2>2. /\ Positions' = Positions
        /\ (Ascending /\ MarkIsAccepted /\ DroppedOnlyIfOvertaken)'
    BY <2>1, HistoryKept
  <2>3. TypeOK'
    <3>1. file' \in 0..MaxSeq /\ 0 \in 0..MaxSeq
      BY <2>1, <1>0 DEF TypeOK
    <3> QED
      BY <3>1, <2>1, <2>2, <1>0 DEF TypeOK, receiver
  <2>4. IssuedIsDurable'
    BY <2>1, <2>2, <1>0 DEF TypeOK, IssuedIsDurable
  <2> QED
    BY <2>1, <2>2, <2>3, <2>4 DEF SequenceInv, BlockHeld, ReservingNext
<1>8. CASE WriteBack
  <2>1. synced' = file /\ UNCHANGED <<file, up, last, reserved, step, issued, wire, receiver>>
    BY <1>8 DEF WriteBack, sequencer
  <2>2. /\ Positions' = Positions
        /\ (Ascending /\ MarkIsAccepted /\ DroppedOnlyIfOvertaken)'
    BY <2>1, HistoryKept
  <2>3. Through' = Through
    BY <2>1 DEF Through
  <2>4. TypeOK' /\ IssuedIsDurable'
    BY <2>1, <2>2, <1>0, <1>n DEF TypeOK, IssuedIsDurable, receiver
  <2>5. BlockHeld'
    BY <2>1, <2>2, <2>3, <1>0 DEF BlockHeld, IssuedIsDurable, TypeOK
  <2> QED
    BY <2>1, <2>2, <2>3, <2>4, <2>5, <1>0 DEF SequenceInv, ReservingNext
<1> QED
  BY <1>1, <1>2, <1>3, <1>4, <1>5, <1>6, <1>7, <1>8

\* The steps of the receiver and of the network.
LEMMA ReceiverSteps ==
    ASSUME SequenceInv,
           (\E i \in wire : Arrive(i) \/ Lose(i)) \/ ReceiverRestart
    PROVE  SequenceInv'
<1>0. TypeOK /\ Ascending /\ IssuedIsDurable /\ BlockHeld /\ ReservingNext
      /\ MarkIsAccepted /\ DroppedOnlyIfOvertaken
  BY DEF SequenceInv
<1>n. \A i \in Positions : issued[i] \in 1..MaxSeq
  BY <1>0, IssuedTyped
<1>1. UNCHANGED <<file, synced, up, last, reserved, step, issued>>
  BY DEF Arrive, Lose, ReceiverRestart, disk, sequencer
<1>2. Positions' = Positions /\ Through' = Through
  BY <1>1 DEF Positions, Through
<1>3. (Ascending /\ IssuedIsDurable /\ BlockHeld /\ ReservingNext)'
  BY <1>0, <1>1, <1>2 DEF Ascending, IssuedIsDurable, BlockHeld, ReservingNext
<1>4. ASSUME NEW i \in wire, Arrive(i)
      PROVE  (TypeOK /\ MarkIsAccepted /\ DroppedOnlyIfOvertaken)'
  <2>1. wire' = wire \ {i} /\ CheckAndAdvance(i)
    BY <1>4 DEF Arrive
  <2>2. i \in Positions /\ i \notin accepted /\ issued[i] \in 1..MaxSeq
    <3>1. i \in Positions /\ i \notin accepted
      BY <1>0 DEF TypeOK, MarkIsAccepted
    <3> QED
      BY <3>1, <1>n
  <2>3. CASE issued[i] > highest
    <3>1. /\ highest' = issued[i] /\ accepted' = accepted \union {i}
          /\ dropped' = dropped
      BY <2>1, <2>3 DEF CheckAndAdvance
    <3>2. TypeOK'
      BY <3>1, <2>1, <2>2, <1>0, <1>1, <1>2, SequenceAssumption DEF TypeOK
    <3>3. (MarkIsAccepted /\ DroppedOnlyIfOvertaken)'
      BY <3>1, <2>1, <2>2, <1>0, <1>1 DEF MarkIsAccepted, DroppedOnlyIfOvertaken
    <3> QED
      BY <3>2, <3>3
  <2>4. CASE ~(issued[i] > highest)
    <3>1. /\ dropped' = dropped \union {i}
          /\ UNCHANGED <<highest, accepted>>
      BY <2>1, <2>4 DEF CheckAndAdvance
    <3>2. highest # 0 /\ issued[i] <= highest
      BY <2>2, <2>4, <1>0, SequenceAssumption DEF TypeOK
    <3>3. PICK j \in accepted : issued[j] = highest
      BY <3>2, <1>0 DEF MarkIsAccepted
    <3>4. j \in Positions /\ j # i /\ issued[j] \in 1..MaxSeq
      BY <2>2, <1>0, <1>n DEF TypeOK
    <3>5. ~(j < i)
      BY <3>2, <3>3, <3>4, <2>2, <1>0, SequenceAssumption DEF Ascending
    <3>6. i < j
      BY <3>4, <3>5, <2>2 DEF Positions
    <3>7. TypeOK'
      BY <3>1, <2>1, <2>2, <1>0, <1>1, <1>2 DEF TypeOK
    <3>8. MarkIsAccepted'
      BY <3>1, <2>1, <1>0, <1>1 DEF MarkIsAccepted
    <3>9. DroppedOnlyIfOvertaken'
      BY <3>1, <3>6, <1>0 DEF DroppedOnlyIfOvertaken
    <3> QED
      BY <3>7, <3>8, <3>9
  <2> QED
    BY <2>3, <2>4
<1>5. ASSUME NEW i \in wire, Lose(i)
      PROVE  (TypeOK /\ MarkIsAccepted /\ DroppedOnlyIfOvertaken)'
  BY <1>5, <1>0, <1>1, <1>2
     DEF Lose, receiver, TypeOK, MarkIsAccepted, DroppedOnlyIfOvertaken
<1>6. ASSUME ReceiverRestart
      PROVE  (TypeOK /\ MarkIsAccepted /\ DroppedOnlyIfOvertaken)'
  BY <1>6, <1>0, <1>1, <1>2, SequenceAssumption
     DEF ReceiverRestart, TypeOK, MarkIsAccepted, DroppedOnlyIfOvertaken
<1> QED
  BY <1>3, <1>4, <1>5, <1>6 DEF SequenceInv

\* The invariant holds in every state, for every block size and sequence
\* space.
THEOREM SequenceCorrect == Spec => []SequenceInv
<1>1. ASSUME SequenceInv, [Next]_vars PROVE SequenceInv'
  <2>1. CASE Next
    BY <1>1, <2>1, BusSteps, ReceiverSteps DEF Next
  <2>2. CASE UNCHANGED vars
    BY <1>1, <2>2
       DEF vars, disk, sequencer, receiver, SequenceInv, TypeOK, Ascending,
           IssuedIsDurable, BlockHeld, ReservingNext, MarkIsAccepted,
           DroppedOnlyIfOvertaken, Positions, Through
  <2> QED
    BY <1>1, <2>1, <2>2
<1> QED
  BY <1>1, InitSequence, PTL DEF Spec

\* No sequence is issued twice under a key, whatever crashes (sequence.rs,
\* Sequencer): each is above every one before it.
THEOREM SequencesAscend == Spec => []Ascending
<1>1. SequenceInv => Ascending
  BY DEF SequenceInv
<1> QED
  BY <1>1, SequenceCorrect, PTL

\* A receiver rejects an envelope's sequence only when a later envelope
\* overtook it, however often the sender restarted (agent-mesh#100).
THEOREM SuccessorIsHeard == Spec => []DroppedOnlyIfOvertaken
<1>1. SequenceInv => DroppedOnlyIfOvertaken
  BY DEF SequenceInv
<1> QED
  BY <1>1, SequenceCorrect, PTL

\* A crash of a bus costs at most one block of its sequence space.
THEOREM CrashIsCheap == Spec => []CrashSkipsAtMostABlock
<1>1. SequenceInv => CrashSkipsAtMostABlock
  <2> SUFFICES ASSUME SequenceInv, up PROVE file - last \in 0..Block
    BY DEF CrashSkipsAtMostABlock
  <2>1. Through <= reserved + Block /\ reserved <= Through /\ Through \in 0..MaxSeq
    BY ThroughBounds DEF SequenceInv, TypeOK
  <2> QED
    BY <2>1, SequenceAssumption DEF SequenceInv, BlockHeld, TypeOK
<1> QED
  BY <1>1, SequenceCorrect, PTL

\* All three: the lives of a bus share one numbering (sequence.rs), however often the
\* process or the machine stops between two of its steps.
THEOREM LivesShareANumbering == Spec => []OneNumbering
  BY SequencesAscend, SuccessorIsHeard, CrashIsCheap, PTL DEF OneNumbering

-------------------------------------------------------------------------------
(* Inboxes: the inductive invariant *)

\* An answer of an agent that was not asked, at the bus that asked.
Rival(p) ==
    /\ p.env.kind = "reply" /\ IsRequest(p.env.msg) /\ ~TrueReply(p.env)
    /\ p.at = Requester(p.env.msg)

\* Who signs which request and which reply, to whom and when.
Lawful(e) ==
    /\ e.seq >= 1
    /\ e.kind = "request" =>
          /\ e.from = Requester(e.msg) /\ e.to = Target(e.msg) /\ IsRequest(e.msg)
          /\ call[e.msg] # "idle"
    /\ e.kind = "reply" /\ IsRequest(e.msg) => call[e.msg] # "idle"
    /\ TrueReply(e) => e.to = Requester(e.msg)

SignedLawfully == \A e \in signed : Lawful(e)

\* A message has one request, and a request one reply of the agent that was asked.
OneOfEach ==
    \A e, f \in signed :
        e.msg = f.msg /\ e.kind = f.kind /\ (e.kind = "request" \/ (TrueReply(e) /\ TrueReply(f)))
            => e = f

\* An agent replies once to a request, after it has handled it.
RepliesAreHandled ==
    \A e \in signed :
        TrueReply(e) => \E p \in handled : p.env.msg = e.msg /\ p.env.kind = "request"

Past == {"dispatch", "running", "wake"}

\* What travels is signed, what has a task is admitted, and what is past the checks
\* is accepted.
TasksAreSound ==
    /\ \A p \in packets : p.env \in signed
    /\ \A t \in tasks :
          /\ t = Task(t.packet, t.pc)
          /\ t.packet.env \in signed /\ Admits(t.packet)
          /\ t.pc \in Past =>
                /\ t.packet \in passed
                /\ t.packet.env.seq <= tracker[t.packet.at][t.packet.env.from]
    /\ \A p \in cached \union passed \union refused : p.env \in signed /\ Admits(p)

\* The same envelope at the same bus.
Same(p, q) == p.env = q.env /\ p.at = q.at

\* What was handled is accepted too.  At a bus an envelope is past the checks in one
\* task at most, and in none that would handle it again.
PastOnce ==
    /\ \A p \in handled :
          /\ p.env \in signed /\ Admits(p)
          /\ p.env.seq <= tracker[p.at][p.env.from]
          /\ \A q \in handled : Same(p, q) => p = q
    /\ \A t, u \in tasks :
          t.pc \in Past /\ u.pc \in Past /\ Same(t.packet, u.packet) => t = u
    /\ \A t \in tasks :
          t.pc = "dispatch" => \A p \in handled : ~Same(p, t.packet)

Running ==
    \A t \in tasks :
        t.pc = "running" =>
            /\ t.packet.env.kind = "request" /\ t.packet \in handled
            /\ \A e \in signed : TrueReply(e) => e.msg # t.packet.env.msg

\* The tracker stands at an envelope that was accepted.
TrackerStands ==
    \A a, b \in Agents :
        tracker[a][b] > 0 =>
            \E f \in passed : f.at = a /\ f.env.from = b /\ f.env.seq = tracker[a][b]

RepliedTo(m) == \E f \in passed : TrueReply(f.env) /\ f.env.msg = m

\* The request is over, or its reply has been accepted.
Settled(m) == call[m] \in {"done", "failed"} \/ RepliedTo(m)

\* A nonce in the cache is that of a packet that went in at this bus.  The packet was
\* accepted, overtaken or is to be judged, and an answer out of turn gets as far only
\* when the request is settled.
NoncesTell ==
    /\ \A a \in Agents : \A n \in Range(nonces[a]) :
          \E q \in cached : q.at = a /\ q.env.nonce = n
    /\ \A q \in cached :
          /\ Overtaken(q) \/ ToBeJudged(q)
          /\ Rival(q) => Settled(q.env.msg)

StraysPassLate ==
    \A t \in tasks : Rival(t.packet) /\ t.pc # "peer" => Settled(t.packet.env.msg)

\* The waiters, the answers and the tasks that bring them.
Waiting ==
    /\ \A a \in Agents : \A m \in waiters[a] : a = Requester(m) /\ IsRequest(m)
    /\ \A t \in tasks :
          t.pc = "wake" => TrueReply(t.packet.env) /\ call[t.packet.env.msg] # "idle"
    /\ \A m \in Messages :
          /\ answer[m] # None => answer[m] = Target(m) /\ call[m] # "idle" /\ RepliedTo(m)
          /\ IsRequest(m) /\ call[m] = "done" => answer[m] # None

InboxInv ==
    /\ InboxTypeOK
    /\ SignedLawfully /\ OneOfEach /\ RepliesAreHandled
    /\ TasksAreSound /\ PastOnce /\ Running
    /\ TrackerStands /\ NoncesTell /\ StraysPassLate
    /\ Waiting /\ WaiterLivesWithRequest /\ NeverSpoiled

-------------------------------------------------------------------------------
(* Lemmas *)

\* What the plan says of a message.
LEMMA Planned ==
    /\ \A m \in Messages :
          /\ Requester(m) \in Agents /\ Target(m) \in Agents
          /\ Plan[m].kind \in {"request", "publish"}
    /\ None \notin Agents /\ Capacity \in Nat /\ MaxStrays \in Nat
  BY InboxAssumption DEF Requester, Target

\* An envelope keeps its fields.
LEMMA EnvelopeFields ==
    ASSUME InboxTypeOK,
           NEW k \in {"request", "publish", "reply"}, NEW m \in Messages,
           NEW a \in Agents, NEW b \in Agents \union {None}, NEW n \in Nonces
    PROVE  LET e == Envelope(k, m, a, b, n)
           IN  /\ e \in Envelopes /\ e.kind = k /\ e.msg = m /\ e.from = a /\ e.to = b
               /\ e.nonce = n /\ e.seq >= 1
  <1>1. seq[a] + 1 \in Nat /\ seq[a] + 1 >= 1
    BY DEF InboxTypeOK
  <1> QED
    BY <1>1 DEF Envelope, Envelopes

\* What a nonce is.
LEMMA NonceForms ==
    /\ \A m \in Messages : \A k \in {"request", "publish", "reply"} :
           <<k, m>> \in Nonces
    /\ \A i \in 1..MaxStrays :
           <<"stray", i>> \in Nonces
  BY DEF Nonces

\* What a record of a packet or a task is.
LEMMA PacketFields ==
    ASSUME NEW e \in Envelopes, NEW c \in 0..2, NEW a \in Agents, NEW b \in Agents
    PROVE  LET p == Packet(e, c, a, b)
           IN  p \in Packets /\ p.env = e /\ p.copy = c /\ p.carrier = a /\ p.at = b
  BY DEF Packet, Packets

\* A task keeps its packet and its program counter.
LEMMA TaskFields ==
    \A p, pc : Task(p, pc).packet = p /\ Task(p, pc).pc = pc
  BY DEF Task

\* The types of what a task carries.
LEMMA TaskTypes ==
    ASSUME InboxInv, NEW t \in tasks
    PROVE  /\ t.packet \in Packets /\ t.packet.env \in Envelopes /\ t.packet.at \in Agents
           /\ t.packet.env.msg \in Messages /\ t.packet.env.from \in Agents
           /\ t.packet.env.to \in {t.packet.at, None} /\ t.packet.env.seq \in Nat
           /\ t.packet.env.nonce \in Nonces /\ t.packet.env \in signed
           /\ Lawful(t.packet.env)
           /\ UserOf[t.packet.env.from] = UserOf[t.packet.at]
  BY DEF InboxInv, InboxTypeOK, Packets, Envelopes, TasksAreSound, Admits, SignedLawfully

\* What is settled stays settled when calls that are over stay over.
LEMMA SettledStays ==
    ASSUME passed \subseteq passed',
           \A m \in Messages : call[m] \in {"done", "failed"} => call'[m] \in {"done", "failed"}
    PROVE  \A m \in Messages : Settled(m) => Settled(m)'
  BY DEF Settled, RepliedTo, TrueReply

\* What is signed stays lawful as more is.
LEMMA LawfulStays ==
    ASSUME InboxInv, NEW e \in signed,
           \A m \in Messages : call[m] # "idle" => call'[m] # "idle"
    PROVE  Lawful(e)'
  <1>1. e \in Envelopes /\ Lawful(e)
    BY DEF InboxInv, InboxTypeOK, SignedLawfully
  <1>2. e.msg \in Messages
    BY <1>1 DEF Envelopes
  <1> QED
    BY <1>1, <1>2 DEF Lawful

\* A packet that a bus admitted, of a request or of the reply of the agent asked, is at
\* the bus it is for.
LEMMA WhereItBelongs ==
    ASSUME InboxInv, NEW p, p.env \in signed, Admits(p)
    PROVE  /\ p.env \in Envelopes /\ p.env.msg \in Messages /\ Lawful(p.env)
           /\ p.env.kind = "request" => p.at = Target(p.env.msg)
           /\ TrueReply(p.env) => p.at = Requester(p.env.msg)
  <1>1. p.env \in Envelopes /\ Lawful(p.env) /\ p.env.to \in {p.at, None}
    BY DEF InboxInv, InboxTypeOK, SignedLawfully, Admits
  <1>2. p.env.msg \in Messages
    BY <1>1 DEF Envelopes
  <1>3. Requester(p.env.msg) # None /\ Target(p.env.msg) # None
    BY <1>2, Planned
  <1> QED
    BY <1>1, <1>2, <1>3 DEF Lawful

\* A packet was accepted, overtaken or is to be judged, and stays so while the tasks that
\* are to be judged do.
LEMMA JudgedStays ==
    ASSUME InboxInv, passed \subseteq passed',
           \A t \in tasks : t.pc = "sequence" => Overtaken(t.packet)' \/ ToBeJudged(t.packet)'
    PROVE  \A p : Overtaken(p) \/ ToBeJudged(p) => Overtaken(p)' \/ ToBeJudged(p)'
  BY DEF Overtaken, ToBeJudged

\* What was refused rightly stays so.
LEMMA SpoiledStays ==
    ASSUME InboxInv, cached \subseteq cached',
           \A p : Overtaken(p) \/ ToBeJudged(p) => Overtaken(p)' \/ ToBeJudged(p)',
           \A m \in Messages : call[m] \in {"done", "failed"} => call'[m] \in {"done", "failed"},
           call' \in [Messages -> {"idle", "sending", "waiting", "done", "failed"}]
    PROVE  \A p \in refused :
               \/ p.env.kind = "reply" /\ ~(TrueReply(p.env) /\ Live(p.env.msg)')
               \/ Overtaken(p)' \/ ToBeJudged(p)' \/ NonceTaken(p)'
  <1> SUFFICES ASSUME NEW p \in refused
               PROVE  \/ p.env.kind = "reply" /\ ~(TrueReply(p.env) /\ Live(p.env.msg)')
                      \/ Overtaken(p)' \/ ToBeJudged(p)' \/ NonceTaken(p)'
    OBVIOUS
  <1>1. p.env \in signed /\ p.env.msg \in Messages /\ Lawful(p.env)
    BY WhereItBelongs DEF InboxInv, TasksAreSound
  <1>2. TrueReply(p.env) /\ ~Live(p.env.msg) => ~Live(p.env.msg)'
    BY <1>1 DEF Live, Lawful, TrueReply, InboxInv, InboxTypeOK
  <1>3. NonceTaken(p) => NonceTaken(p)'
    BY DEF NonceTaken
  <1>4. \/ p.env.kind = "reply" /\ ~(TrueReply(p.env) /\ Live(p.env.msg))
        \/ Overtaken(p) \/ ToBeJudged(p) \/ NonceTaken(p)
    BY DEF InboxInv, NeverSpoiled
  <1> QED
    BY <1>2, <1>3, <1>4

\* While the caches and what they refused stay, what they tell stays true.
LEMMA RefusalsStay ==
    ASSUME InboxInv, passed \subseteq passed',
           nonces' = nonces, cached' = cached, refused' = refused,
           \A t \in tasks : t.pc = "sequence" => Overtaken(t.packet)' \/ ToBeJudged(t.packet)',
           \A m \in Messages : call[m] \in {"done", "failed"} => call'[m] \in {"done", "failed"},
           call' \in [Messages -> {"idle", "sending", "waiting", "done", "failed"}]
    PROVE  NoncesTell' /\ NeverSpoiled'
  <1>1. \A m \in Messages : Settled(m) => Settled(m)'
    BY SettledStays
  <1>2. \A p : Overtaken(p) \/ ToBeJudged(p) => Overtaken(p)' \/ ToBeJudged(p)'
    BY JudgedStays
  <1>3. \A q \in cached : q.env.msg \in Messages
    BY DEF InboxInv, InboxTypeOK, Packets, Envelopes
  <1>4. NoncesTell'
    BY <1>1, <1>2, <1>3 DEF InboxInv, NoncesTell, Rival
  <1>5. NeverSpoiled'
    BY <1>2, SpoiledStays DEF NeverSpoiled, Overtaken, ToBeJudged, NonceTaken, Live
  <1> QED
    BY <1>4, <1>5

\* The waiters stand as they did while no call changes and no wake begins or ends.
LEMMA WaitingStays ==
    ASSUME InboxInv, UNCHANGED <<waiters, call, answer>>,
           passed \subseteq passed',
           \A t : t.pc = "wake" => (t \in tasks' <=> t \in tasks)
    PROVE  Waiting' /\ WaiterLivesWithRequest'
  <1>1. \A m \in Messages : RepliedTo(m) => RepliedTo(m)'
    BY DEF RepliedTo
  <1>2. \A m \in Messages : BeingWoken(m)' <=> BeingWoken(m)
    BY DEF BeingWoken
  <1>3. Waiting'
    BY <1>1 DEF InboxInv, Waiting
  <1>4. WaiterLivesWithRequest'
    BY <1>2 DEF InboxInv, WaiterLivesWithRequest, Live
  <1> QED
    BY <1>3, <1>4

\* Answers out of turn that are past the check of their signer stay late.
LEMMA StraysStayLate ==
    ASSUME InboxInv, passed \subseteq passed',
           \A m \in Messages : call[m] \in {"done", "failed"} => call'[m] \in {"done", "failed"},
           \A t \in tasks' : Rival(t.packet) /\ t.pc # "peer" =>
               \E u \in tasks : u.packet = t.packet /\ u.pc # "peer"
    PROVE  StraysPassLate'
  <1>1. \A m \in Messages : Settled(m) => Settled(m)'
    BY SettledStays
  <1>2. \A t \in tasks : t.packet.env.msg \in Messages
    BY TaskTypes
  <1> QED
    BY <1>1, <1>2 DEF InboxInv, StraysPassLate, Rival

-------------------------------------------------------------------------------
(* The steps that sign an envelope *)

\* One more envelope: no second request of a message, and no second true reply.
LEMMA SigningKeeps ==
    ASSUME InboxInv, NEW e \in Envelopes, signed' = signed \union {e},
           Lawful(e)',
           \A f \in signed : e.msg = f.msg /\ e.kind = f.kind =>
               e.kind # "request" /\ ~(TrueReply(e) /\ TrueReply(f)),
           \A m \in Messages : call[m] # "idle" => call'[m] # "idle"
    PROVE  SignedLawfully' /\ OneOfEach'
  <1>1. SignedLawfully'
    <2>1. \A f \in signed : Lawful(f)'
      BY LawfulStays
    <2> QED
      BY <2>1 DEF SignedLawfully
  <1>2. OneOfEach'
    BY DEF InboxInv, OneOfEach
  <1> QED
    BY <1>1, <1>2

\* A request or a publish: it is the first of its message, and its waiter is there before
\* any task can wake it.
LEMMA SendKeeps ==
    ASSUME InboxInv, NEW m \in Messages, Send(m)
    PROVE  InboxInv'
  <1> DEFINE n == <<Plan[m].kind, m>>
  <1> PICK e : e = Envelope(Plan[m].kind, m, Requester(m), Target(m), n)
    OBVIOUS
  <1> PICK p : p = Packet(e, 1, Requester(m), Target(m))
    OBVIOUS
  <1>1. Requester(m) \in Agents /\ Target(m) \in Agents
        /\ Plan[m].kind \in {"request", "publish"} /\ n \in Nonces /\ InboxTypeOK
    BY Planned, NonceForms DEF InboxInv
  <1>2. /\ call[m] = "idle" /\ packets' = packets \union {p} /\ signed' = signed \union {e}
        /\ seq' = [seq EXCEPT ![Requester(m)] = @ + 1]
        /\ call' = [call EXCEPT ![m] = "sending"]
        /\ UNCHANGED <<tasks, nonces, tracker, serving, answer, strays, handled, cached,
                       passed, refused>>
    BY DEF Send, replayState, judged
  <1>3. waiters' = IF IsRequest(m) THEN [waiters EXCEPT ![Requester(m)] = @ \union {m}]
                                   ELSE waiters
    BY DEF Send
  <1>4. /\ e \in Envelopes /\ e.kind = Plan[m].kind /\ e.msg = m /\ e.from = Requester(m)
        /\ e.to = Target(m) /\ e.nonce = n /\ e.seq >= 1
    BY <1>1, EnvelopeFields
  <1>5. p \in Packets /\ p.env = e
    BY <1>1, <1>4, PacketFields
  <1>6. InboxTypeOK'
    <2>1. /\ seq' \in [Agents -> Nat]
          /\ call' \in [Messages -> {"idle", "sending", "waiting", "done", "failed"}]
      BY <1>1, <1>2 DEF InboxTypeOK
    <2>2. waiters' \in [Agents -> SUBSET Messages]
      BY <1>1, <1>3 DEF InboxTypeOK
    <2> QED
      BY <1>1, <1>2, <1>4, <1>5, <2>1, <2>2 DEF InboxTypeOK
  <1>7. \A k \in Messages : call'[k] = IF k = m THEN "sending" ELSE call[k]
    BY <1>1, <1>2 DEF InboxTypeOK
  <1>8. Lawful(e)'
    BY <1>1, <1>4, <1>7 DEF Lawful, IsRequest, TrueReply
  <1>9. \A f \in signed : e.msg = f.msg /\ e.kind = f.kind =>
            e.kind # "request" /\ ~(TrueReply(e) /\ TrueReply(f))
    BY <1>1, <1>2, <1>4 DEF InboxInv, SignedLawfully, Lawful, TrueReply
  <1>10. SignedLawfully' /\ OneOfEach'
    BY <1>2, <1>4, <1>7, <1>8, <1>9, SigningKeeps
  <1>11. e.kind # "reply"
    BY <1>1, <1>4
  <1>12. RepliesAreHandled' /\ Running'
    BY <1>2, <1>11 DEF InboxInv, RepliesAreHandled, Running, TrueReply
  <1>13. TasksAreSound' /\ PastOnce' /\ TrackerStands'
    BY <1>2, <1>5 DEF InboxInv, TasksAreSound, PastOnce, TrackerStands, Admits, Task, Past
  <1>14. NoncesTell' /\ NeverSpoiled'
    BY <1>2, <1>6, <1>7, RefusalsStay DEF ToBeJudged, InboxTypeOK
  <1>15. StraysPassLate'
    <2>1. \A k \in Messages : Settled(k) => Settled(k)'
      BY <1>2, <1>7, SettledStays
    <2> QED
      BY <1>2, <2>1, TaskTypes DEF InboxInv, StraysPassLate, Rival
  <1>16. Waiting'
    <2>1. \A a \in Agents : \A k \in waiters'[a] : a = Requester(k) /\ IsRequest(k)
      BY <1>1, <1>3 DEF InboxInv, Waiting, InboxTypeOK
    <2>2. \A t \in tasks :
              t.pc = "wake" => TrueReply(t.packet.env) /\ call'[t.packet.env.msg] # "idle"
      BY <1>7, TaskTypes DEF InboxInv, Waiting
    <2>3. \A k \in Messages : RepliedTo(k)' <=> RepliedTo(k)
      BY <1>2 DEF RepliedTo
    <2> QED
      BY <1>2, <1>7, <2>1, <2>2, <2>3 DEF InboxInv, Waiting
  <1>17. WaiterLivesWithRequest'
    <2> SUFFICES ASSUME NEW k \in Messages, IsRequest(k)
                 PROVE  k \in waiters'[Requester(k)] <=>
                            Live(k)' /\ answer'[k] = None /\ ~BeingWoken(k)'
      BY DEF WaiterLivesWithRequest
    <2>1. BeingWoken(k)' <=> BeingWoken(k)
      BY <1>2 DEF BeingWoken
    <2>2. CASE k = m
      <3>1. answer[m] = None /\ ~BeingWoken(m)
        BY <1>2 DEF InboxInv, Waiting, BeingWoken
      <3>2. m \in waiters'[Requester(m)]
        BY <1>1, <1>3, <2>2 DEF InboxTypeOK
      <3> QED
        BY <1>2, <1>7, <2>1, <2>2, <3>1, <3>2 DEF Live
    <2>3. CASE k # m
      <3>1. k \in waiters'[Requester(k)] <=> k \in waiters[Requester(k)]
        BY <1>1, <1>3, <2>3, Planned DEF InboxTypeOK
      <3> QED
        BY <1>2, <1>7, <2>1, <2>3, <3>1 DEF Live, InboxInv, WaiterLivesWithRequest
    <2> QED
      BY <2>2, <2>3
  <1> QED
    BY <1>6, <1>10, <1>12, <1>13, <1>14, <1>15, <1>16, <1>17 DEF InboxInv

\* An envelope out of turn is no reply of the agent that was asked, whatever its nonce.
LEMMA StrayKeeps ==
    ASSUME InboxInv, NEW ploy \in Ploys, NEW n, Stray(ploy, n)
    PROVE  InboxInv'
  <1> PICK e : e = Envelope(ploy.kind, ploy.msg, ploy.from, ploy.to, n)
    OBVIOUS
  <1> PICK p : p = Packet(e, 1, ploy.from, ploy.at)
    OBVIOUS
  <1>1. /\ strays < MaxStrays /\ ~TrueReply(ploy)
        /\ ploy.kind = "reply" /\ IsRequest(ploy.msg) => call[ploy.msg] # "idle"
        /\ packets' = packets \union {p} /\ signed' = signed \union {e}
        /\ seq' = [seq EXCEPT ![ploy.from] = @ + 1] /\ strays' = strays + 1
        /\ UNCHANGED <<tasks, nonces, tracker, waiters, serving, call, answer, handled,
                       cached, passed, refused>>
    BY DEF Stray, replayState, judged
  <1>2. /\ ploy.from \in Agents /\ ploy.kind \in {"publish", "reply"} /\ ploy.msg \in Messages
        /\ ploy.to \in Agents \union {None} /\ ploy.at \in Agents
    BY InboxAssumption
  <1>3. strays \in Nat /\ strays + 1 \in 1..MaxStrays /\ InboxTypeOK
    BY <1>1, Planned DEF InboxInv, InboxTypeOK
  <1>4. n \in Nonces
    <2>1. OwnNonce \in Nonces
      BY <1>3, NonceForms DEF OwnNonce
    <2>2. \A f \in signed : f.nonce \in Nonces
      BY <1>3 DEF InboxTypeOK, Envelopes
    <2> QED
      BY <2>1, <2>2 DEF Stray
  <1>5. /\ e \in Envelopes /\ e.kind = ploy.kind /\ e.msg = ploy.msg /\ e.from = ploy.from
        /\ e.to = ploy.to /\ e.nonce = n /\ e.seq >= 1
    <2>1. ploy.kind \in {"request", "publish", "reply"}
      BY <1>2
    <2> QED
      BY <1>2, <1>3, <1>4, <2>1, EnvelopeFields
  <1>6. p \in Packets /\ p.env = e
    BY <1>2, <1>5, PacketFields
  <1>7. ~TrueReply(e) /\ e.kind # "request"
    BY <1>1, <1>2, <1>5 DEF TrueReply
  <1>8. Lawful(e)'
    BY <1>1, <1>5, <1>7 DEF Lawful
  <1>9. SignedLawfully' /\ OneOfEach'
    BY <1>1, <1>5, <1>7, <1>8, SigningKeeps
  <1>10. InboxTypeOK'
    <2>1. seq' \in [Agents -> Nat]
      <3>1. seq \in [Agents -> Nat] /\ ploy.from \in Agents
        BY <1>2, <1>3 DEF InboxTypeOK
      <3>2. seq' = [seq EXCEPT ![ploy.from] = @ + 1]
        BY <1>1
      <3> QED
        BY <3>1, <3>2
    <2>2. strays' \in 0..MaxStrays
      BY <1>1, <1>3, Planned
    <2> QED
      BY <1>1, <1>3, <1>5, <1>6, <2>1, <2>2 DEF InboxTypeOK
  <1>11. RepliesAreHandled' /\ Running'
    BY <1>1, <1>7 DEF InboxInv, RepliesAreHandled, Running
  <1>12. TasksAreSound' /\ PastOnce' /\ TrackerStands'
    BY <1>1, <1>6 DEF InboxInv, TasksAreSound, PastOnce, TrackerStands, Admits, Task, Past
  <1>13. NoncesTell' /\ NeverSpoiled'
    BY <1>1, <1>10, RefusalsStay DEF ToBeJudged, InboxTypeOK
  <1>14. StraysPassLate'
    BY <1>1, StraysStayLate
  <1>15. Waiting' /\ WaiterLivesWithRequest'
    BY <1>1, WaitingStays
  <1> QED
    BY <1>9, <1>10, <1>11, <1>12, <1>13, <1>14, <1>15 DEF InboxInv

\* A task runs one request, and no other task runs it.
LEMMA ReplyKeeps ==
    ASSUME InboxInv, NEW t \in tasks, NEW copies \in 1..2, Reply(t, copies)
    PROVE  InboxInv'
  <1> PICK env : env = t.packet.env
    OBVIOUS
  <1> PICK at : at = t.packet.at
    OBVIOUS
  <1> DEFINE n == <<"reply", env.msg>>
  <1> PICK e : e = Envelope("reply", env.msg, at, env.from, n)
    OBVIOUS
  <1> PICK P : P = {Packet(e, c, at, env.from) : c \in 1..copies}
    OBVIOUS
  <1>1. /\ t.pc = "running" /\ tasks' = tasks \ {t}
        /\ packets' = packets \union P /\ signed' = signed \union {e}
        /\ seq' = [seq EXCEPT ![at] = @ + 1]
        /\ UNCHANGED <<nonces, tracker, waiters, serving, call, answer, strays, handled,
                       cached, passed, refused>>
    BY DEF Reply, End, replayState, judged
  <1>2. /\ env.msg \in Messages /\ at \in Agents /\ env.from \in Agents /\ env \in signed
        /\ Lawful(env) /\ Admits(t.packet) /\ InboxTypeOK /\ n \in Nonces
    BY TaskTypes, NonceForms DEF InboxInv, TasksAreSound
  <1>3. env.kind = "request" /\ t.packet \in handled
        /\ \A f \in signed : TrueReply(f) => f.msg # env.msg
    BY <1>1 DEF InboxInv, Running
  <1>4. /\ env.from = Requester(env.msg) /\ at = Target(env.msg) /\ IsRequest(env.msg)
        /\ call[env.msg] # "idle"
    BY <1>2, <1>3, WhereItBelongs DEF Lawful
  <1>5. /\ e \in Envelopes /\ e.kind = "reply" /\ e.msg = env.msg /\ e.from = at
        /\ e.to = env.from /\ e.nonce = n /\ e.seq >= 1
    BY <1>2, EnvelopeFields
  <1>6. \A p \in P : p \in Packets /\ p.env = e
    <2>1. \A c \in 1..copies : c \in 0..2
      OBVIOUS
    <2>2. \A c \in 1..copies : LET p == Packet(e, c, at, env.from)
                              IN  p \in Packets /\ p.env = e
      <3> TAKE c \in 1..copies
      <3>1. c \in 0..2
        BY <2>1
      <3> QED
        BY <1>2, <1>5, <3>1, PacketFields
    <2> QED
      BY <2>2
  <1>7. seq' \in [Agents -> Nat]
    BY <1>1, <1>2 DEF InboxTypeOK
  <1>8. InboxTypeOK'
    BY <1>1, <1>2, <1>5, <1>6, <1>7 DEF InboxTypeOK
  <1>9. Lawful(e)' /\ TrueReply(e)
    BY <1>1, <1>4, <1>5 DEF Lawful, TrueReply
  <1>10. \A f \in signed : e.msg = f.msg /\ e.kind = f.kind =>
             e.kind # "request" /\ ~(TrueReply(e) /\ TrueReply(f))
    BY <1>3, <1>5
  <1>11. SignedLawfully' /\ OneOfEach'
    BY <1>1, <1>5, <1>9, <1>10, SigningKeeps
  <1>12. RepliesAreHandled'
    BY <1>1, <1>3, <1>5 DEF InboxInv, RepliesAreHandled, TrueReply
  <1>13. Running'
    <2>1. ASSUME NEW u \in tasks, u.pc = "running", u.packet.env.msg = env.msg PROVE u = t
      <3>1. u.packet.env.kind = "request" /\ u.packet.env \in signed /\ Lawful(u.packet.env)
        BY <2>1, TaskTypes DEF InboxInv, Running
      <3>2. u.packet.env = env
        BY <1>2, <1>3, <2>1, <3>1 DEF InboxInv, OneOfEach
      <3>3. u.packet.at = at
        BY <1>4, <2>1, <3>1, WhereItBelongs DEF InboxInv, TasksAreSound
      <3> QED
        BY <1>1, <2>1, <3>2, <3>3 DEF InboxInv, PastOnce, Past, Same
    <2>2. ASSUME NEW u \in tasks', u.pc = "running"
          PROVE  /\ u.packet.env.kind = "request" /\ u.packet \in handled'
                 /\ \A f \in signed' : TrueReply(f) => f.msg # u.packet.env.msg
      <3>1. u \in tasks /\ u # t /\ handled' = handled
        BY <1>1, <2>2
      <3>2. /\ u.packet.env.kind = "request" /\ u.packet \in handled
            /\ \A f \in signed : TrueReply(f) => f.msg # u.packet.env.msg
        BY <2>2, <3>1 DEF InboxInv, Running
      <3>3. e.msg # u.packet.env.msg
        BY <1>5, <2>1, <2>2, <3>1
      <3> QED
        BY <1>1, <3>1, <3>2, <3>3
    <2> QED
      BY <2>2 DEF Running, TrueReply
  <1>14. TasksAreSound' /\ PastOnce' /\ TrackerStands'
    <2>1. TasksAreSound'
      BY <1>1, <1>6 DEF InboxInv, TasksAreSound, Admits, Task, Past
    <2>2. PastOnce'
      BY <1>1 DEF InboxInv, PastOnce, Admits, Past
    <2>3. TrackerStands'
      BY <1>1 DEF InboxInv, TrackerStands
    <2> QED
      BY <2>1, <2>2, <2>3
  <1>15. NoncesTell' /\ NeverSpoiled'
    BY <1>1, <1>8, RefusalsStay DEF ToBeJudged, InboxTypeOK
  <1>16. StraysPassLate'
    BY <1>1, StraysStayLate
  <1>17. Waiting' /\ WaiterLivesWithRequest'
    BY <1>1, WaitingStays
  <1> QED
    BY <1>8, <1>11, <1>12, <1>13, <1>14, <1>15, <1>16, <1>17 DEF InboxInv

-------------------------------------------------------------------------------
(* The steps of a call, and those that leave every task where it is *)

\* A step that changes only calls and waiters keeps all but what relates the two.
LEMMA CallKeeps ==
    ASSUME InboxInv, NEW m \in Messages,
           NEW c \in {"waiting", "done", "failed"}, call[m] \in {"sending", "waiting"},
           call' = [call EXCEPT ![m] = c], waiters' \in [Agents -> SUBSET Messages],
           Waiting', WaiterLivesWithRequest',
           UNCHANGED <<seq, packets, tasks, nonces, tracker, serving, answer, strays, signed,
                       handled, cached, passed, refused>>
    PROVE  InboxInv'
  <1>1. InboxTypeOK /\ InboxTypeOK'
    BY DEF InboxInv, InboxTypeOK
  <1>2. /\ \A k \in Messages : call[k] \in {"done", "failed"} => call'[k] \in {"done", "failed"}
        /\ \A k \in Messages : call[k] # "idle" => call'[k] # "idle"
    BY <1>1 DEF InboxTypeOK
  <1>3. SignedLawfully'
    <2>1. \A f \in signed : Lawful(f)'
      BY <1>2, LawfulStays
    <2> QED
      BY <2>1 DEF SignedLawfully
  <1>4. OneOfEach' /\ RepliesAreHandled' /\ Running'
    BY DEF InboxInv, OneOfEach, RepliesAreHandled, Running
  <1>5. TasksAreSound' /\ PastOnce' /\ TrackerStands'
    BY DEF InboxInv, TasksAreSound, PastOnce, TrackerStands
  <1>6. NoncesTell' /\ NeverSpoiled'
    BY <1>1, <1>2, RefusalsStay DEF ToBeJudged, InboxTypeOK
  <1>7. StraysPassLate'
    BY <1>2, StraysStayLate
  <1> QED
    BY <1>1, <1>3, <1>4, <1>5, <1>6, <1>7 DEF InboxInv

\* The send returns; a request still awaits its reply.
LEMMA SentKeeps ==
    ASSUME InboxInv, NEW m \in Messages, Sent(m)
    PROVE  InboxInv'
  <1>1. /\ call[m] = "sending"
        /\ call' = [call EXCEPT ![m] = IF IsRequest(m) THEN "waiting" ELSE "done"]
        /\ UNCHANGED <<seq, packets, tasks, nonces, tracker, waiters, serving, answer, strays,
                       signed, handled, cached, passed, refused>>
    BY DEF Sent, replayState, judged, history
  <1>2. \A k \in Messages :
            call'[k] = IF k = m THEN (IF IsRequest(m) THEN "waiting" ELSE "done") ELSE call[k]
    BY <1>1 DEF InboxInv, InboxTypeOK
  <1>3. \A k \in Messages : (RepliedTo(k)' <=> RepliedTo(k)) /\ (BeingWoken(k)' <=> BeingWoken(k))
    BY <1>1 DEF RepliedTo, BeingWoken
  <1>4. Waiting'
    BY <1>1, <1>2, <1>3, TaskTypes DEF InboxInv, Waiting
  <1>5. WaiterLivesWithRequest'
    BY <1>1, <1>2, <1>3 DEF InboxInv, WaiterLivesWithRequest, Live
  <1>6. waiters' \in [Agents -> SUBSET Messages]
    BY <1>1 DEF InboxInv, InboxTypeOK
  <1> QED
    BY <1>1, <1>4, <1>5, <1>6, CallKeeps

\* The request returns its answer: the waiter has long been taken.
LEMMA CompleteKeeps ==
    ASSUME InboxInv, NEW m \in Messages, Complete(m)
    PROVE  InboxInv'
  <1>1. /\ call[m] = "waiting" /\ answer[m] # None /\ call' = [call EXCEPT ![m] = "done"]
        /\ UNCHANGED <<seq, packets, tasks, nonces, tracker, waiters, serving, answer, strays,
                       signed, handled, cached, passed, refused>>
    BY DEF Complete, replayState, judged, history
  <1>2. \A k \in Messages : call'[k] = IF k = m THEN "done" ELSE call[k]
    BY <1>1 DEF InboxInv, InboxTypeOK
  <1>3. \A k \in Messages : (RepliedTo(k)' <=> RepliedTo(k)) /\ (BeingWoken(k)' <=> BeingWoken(k))
    BY <1>1 DEF RepliedTo, BeingWoken
  <1>4. Waiting'
    BY <1>1, <1>2, <1>3, TaskTypes DEF InboxInv, Waiting
  <1>5. WaiterLivesWithRequest'
    BY <1>1, <1>2, <1>3 DEF InboxInv, WaiterLivesWithRequest, Live
  <1>6. waiters' \in [Agents -> SUBSET Messages]
    BY <1>1 DEF InboxInv, InboxTypeOK
  <1> QED
    BY <1>1, <1>4, <1>5, <1>6, CallKeeps

\* The request ends without a reply and takes its waiter along.
LEMMA GiveUpKeeps ==
    ASSUME InboxInv, NEW m \in Messages, GiveUp(m)
    PROVE  InboxInv'
  <1>1. /\ call[m] \in {"sending", "waiting"} /\ call' = [call EXCEPT ![m] = "failed"]
        /\ waiters' = [waiters EXCEPT ![Requester(m)] = @ \ {m}]
        /\ UNCHANGED <<seq, packets, tasks, nonces, tracker, serving, answer, strays, signed,
                       handled, cached, passed, refused>>
    BY DEF GiveUp, replayState, judged, history
  <1>2. \A k \in Messages : call'[k] = IF k = m THEN "failed" ELSE call[k]
    BY <1>1 DEF InboxInv, InboxTypeOK
  <1>3. \A k \in Messages : (RepliedTo(k)' <=> RepliedTo(k)) /\ (BeingWoken(k)' <=> BeingWoken(k))
    BY <1>1 DEF RepliedTo, BeingWoken
  <1>4. /\ waiters' \in [Agents -> SUBSET Messages]
        /\ \A a \in Agents : \A k \in Messages :
               k \in waiters'[a] <=> k \in waiters[a] /\ ~(a = Requester(m) /\ k = m)
    BY <1>1, Planned DEF InboxInv, InboxTypeOK
  <1>5. Waiting'
    <2>1. \A a \in Agents : \A k \in waiters'[a] : k \in waiters[a]
      BY <1>4
    <2> QED
      BY <1>1, <1>2, <1>3, <2>1, TaskTypes DEF InboxInv, Waiting
  <1>6. WaiterLivesWithRequest'
    BY <1>1, <1>2, <1>3, <1>4, Planned DEF InboxInv, WaiterLivesWithRequest, Live
  <1> QED
    BY <1>1, <1>4, <1>5, <1>6, CallKeeps

\* Tasks that begin, end or go on before the replay checks disturb nothing behind them.
LEMMA BeforeTheChecks ==
    ASSUME InboxInv, InboxTypeOK', TasksAreSound', StraysPassLate',
           \A u : u.pc \in Past => (u \in tasks' => u \in tasks),
           \A u : u.pc \in {"sequence", "wake"} => (u \in tasks => u \in tasks'),
           UNCHANGED <<nonces, tracker, waiters, call, answer, signed, handled, cached,
                       passed, refused>>
    PROVE  InboxInv'
  <1>1. SignedLawfully'
    <2>1. \A f \in signed : Lawful(f)'
      BY LawfulStays
    <2> QED
      BY <2>1 DEF SignedLawfully
  <1>2. OneOfEach' /\ RepliesAreHandled' /\ Running' /\ PastOnce' /\ TrackerStands'
    BY DEF InboxInv, OneOfEach, RepliesAreHandled, Running, PastOnce, TrackerStands, Past
  <1>3. NoncesTell' /\ NeverSpoiled'
    <2>1. \A u \in tasks : u.pc = "sequence" => ToBeJudged(u.packet)'
      BY DEF ToBeJudged
    <2> QED
      BY <2>1, RefusalsStay DEF InboxInv, InboxTypeOK
  <1>4. Waiting' /\ WaiterLivesWithRequest'
    BY WaitingStays DEF Past
  <1> QED
    BY <1>1, <1>2, <1>3, <1>4 DEF InboxInv

\* A handler is registered.
LEMMA ServeKeeps ==
    ASSUME InboxInv, NEW a \in Agents, Serve(a)
    PROVE  InboxInv'
  <1>1. /\ serving' = serving \union {a}
        /\ UNCHANGED <<seq, packets, tasks, nonces, tracker, waiters, call, answer, strays,
                       signed, handled, cached, passed, refused>>
    BY DEF Serve, replayState, judged, history
  <1>2. InboxTypeOK'
    BY <1>1 DEF InboxInv, InboxTypeOK
  <1>3. TasksAreSound'
    BY <1>1 DEF InboxInv, TasksAreSound
  <1>4. StraysPassLate'
    BY <1>1, StraysStayLate
  <1> QED
    BY <1>1, <1>2, <1>3, <1>4, BeforeTheChecks

\* A signed envelope goes on the wire once more.
LEMMA ForwardKeeps ==
    ASSUME InboxInv, NEW env \in signed, NEW c \in Agents, NEW at \in Agents,
           Forward(env, c, at)
    PROVE  InboxInv'
  <1> PICK p : p = Packet(env, 0, c, at)
    OBVIOUS
  <1>1. /\ strays < MaxStrays /\ packets' = packets \union {p} /\ strays' = strays + 1
        /\ UNCHANGED <<seq, tasks, nonces, tracker, waiters, serving, call, answer,
                       signed, handled, cached, passed, refused>>
    BY DEF Forward, replayState, judged, history
  <1>2. p \in Packets /\ p.env = env
    BY PacketFields DEF InboxInv, InboxTypeOK
  <1>3. strays' \in 0..MaxStrays
    BY <1>1, Planned DEF InboxInv, InboxTypeOK
  <1>4. InboxTypeOK'
    BY <1>1, <1>2, <1>3 DEF InboxInv, InboxTypeOK
  <1>5. TasksAreSound'
    BY <1>1, <1>2 DEF InboxInv, TasksAreSound
  <1>6. StraysPassLate'
    BY <1>1, StraysStayLate
  <1> QED
    BY <1>1, <1>4, <1>5, <1>6, BeforeTheChecks

\* An envelope gets a task when it is admitted, a reply before the check of its signer.
LEMMA AcceptLoopKeeps ==
    ASSUME InboxInv, NEW p \in packets, AcceptLoop(p)
    PROVE  InboxInv'
  <1> DEFINE pc == IF p.env.kind = "reply" THEN "peer" ELSE "nonce"
  <1> PICK t : t = Task(p, pc)
    OBVIOUS
  <1>1. /\ packets' = packets \ {p} /\ tasks' = IF Admits(p) THEN tasks \union {t} ELSE tasks
        /\ UNCHANGED <<seq, nonces, tracker, waiters, serving, call, answer, strays,
                       signed, handled, cached, passed, refused>>
    BY DEF AcceptLoop, replayState, judged, history
  <1>2. t.packet = p /\ t.pc = pc /\ t.pc \in {"peer", "nonce"} /\ t = Task(t.packet, t.pc)
    BY TaskFields
  <1>3. p \in Packets /\ p.env \in signed
    BY DEF InboxInv, InboxTypeOK, TasksAreSound
  <1>4. InboxTypeOK'
    BY <1>1, <1>2, <1>3 DEF InboxInv, InboxTypeOK
  <1>5. TasksAreSound'
    BY <1>1, <1>2, <1>3 DEF InboxInv, TasksAreSound, Past, Admits
  <1>6. StraysPassLate'
    <2>1. Rival(t.packet) => t.pc = "peer"
      BY <1>2 DEF Rival
    <2> QED
      BY <1>1, <2>1, StraysStayLate
  <1>7. \A u : u.pc \in Past => (u \in tasks' => u \in tasks)
    BY <1>1, <1>2 DEF Past
  <1> QED
    BY <1>1, <1>4, <1>5, <1>6, <1>7, BeforeTheChecks

\* A handler fails and no reply is signed.
LEMMA HandlerFailsKeeps ==
    ASSUME InboxInv, NEW t \in tasks, HandlerFails(t)
    PROVE  InboxInv'
  <1>1. /\ t.pc = "running" /\ tasks' = tasks \ {t}
        /\ UNCHANGED <<seq, packets, nonces, tracker, waiters, serving, call, answer, strays,
                       signed, handled, cached, passed, refused>>
    BY DEF HandlerFails, End, replayState, judged, history
  <1>2. InboxTypeOK'
    BY <1>1 DEF InboxInv, InboxTypeOK
  <1>3. TasksAreSound'
    BY <1>1 DEF InboxInv, TasksAreSound
  <1>4. StraysPassLate'
    BY <1>1, StraysStayLate
  <1> QED
    BY <1>1, <1>2, <1>3, <1>4, BeforeTheChecks

\* A reply that nobody awaits is let through only when its request is settled.
LEMMA CheckPeerKeeps ==
    ASSUME InboxInv, NEW t \in tasks, CheckPeer(t)
    PROVE  InboxInv'
  <1> PICK u : u = Task(t.packet, "nonce")
    OBVIOUS
  <1> PICK env : env = t.packet.env
    OBVIOUS
  <1> PICK m : m = env.msg
    OBVIOUS
  <1>1. /\ t.pc = "peer"
        /\ tasks' = IF PeerMismatch(env, t.packet.at) THEN tasks \ {t}
                    ELSE (tasks \ {t}) \union {u}
        /\ UNCHANGED <<seq, packets, nonces, tracker, waiters, serving, call, answer, strays,
                       signed, handled, cached, passed, refused>>
    BY DEF CheckPeer, End, Goto, replayState, judged, history
  <1>2. u.packet = t.packet /\ u.pc = "nonce" /\ u = Task(u.packet, u.pc)
    BY TaskFields
  <1>3. /\ t.packet \in Packets /\ env \in signed /\ m \in Messages /\ Lawful(env)
    BY TaskTypes
  <1>4. InboxTypeOK'
    BY <1>1, <1>2, <1>3 DEF InboxInv, InboxTypeOK
  <1>5. TasksAreSound'
    BY <1>1, <1>2 DEF InboxInv, TasksAreSound, Past, Admits
  <1>6. ASSUME Rival(t.packet), ~PeerMismatch(env, t.packet.at) PROVE Settled(m)
    <2>1. t.packet.at = Requester(m) /\ IsRequest(m) /\ call[m] # "idle"
      BY <1>3, <1>6 DEF Lawful, Rival
    <2>2. m \notin waiters[Requester(m)]
      BY <1>6, <2>1 DEF PeerMismatch, Rival, TrueReply
    <2>3. CASE ~Live(m)
      BY <1>3, <2>1, <2>3 DEF InboxInv, InboxTypeOK, Live, Settled
    <2>4. CASE answer[m] # None
      BY <1>3, <2>4 DEF InboxInv, Waiting, Settled
    <2>5. CASE BeingWoken(m)
      BY <2>5 DEF BeingWoken, InboxInv, Waiting, TasksAreSound, Past, Settled, RepliedTo
    <2> QED
      BY <1>3, <2>1, <2>2, <2>3, <2>4, <2>5 DEF InboxInv, WaiterLivesWithRequest
  <1>7. StraysPassLate'
    <2>1. \A k \in Messages : Settled(k) => Settled(k)'
      BY <1>1, SettledStays
    <2>2. \A v \in tasks : v.packet.env.msg \in Messages
      BY TaskTypes
    <2>3. Rival(t.packet) /\ ~PeerMismatch(env, t.packet.at) => Settled(m)'
      BY <1>3, <1>6, <2>1
    <2> QED
      BY <1>1, <1>2, <2>1, <2>2, <2>3 DEF InboxInv, StraysPassLate, Rival
  <1>8. /\ \A v : v.pc \in Past => (v \in tasks' => v \in tasks)
        /\ \A v : v.pc \in {"sequence", "wake"} => (v \in tasks => v \in tasks')
    BY <1>1, <1>2 DEF Past
  <1> QED
    BY <1>1, <1>4, <1>5, <1>7, <1>8, BeforeTheChecks

-------------------------------------------------------------------------------
(* The replay checks *)

\* What the cache keeps after an insertion.
LEMMA CacheKeeps ==
    ASSUME NEW S, NEW s \in Seq(S), NEW n \in S, NEW cap \in Nat, Len(s) <= cap
    PROVE  LET order == Append(s, n)
               excess == IF Len(order) > cap THEN Len(order) - cap ELSE 0
               kept == SubSeq(order, excess + 1, Len(order))
           IN  kept \in Seq(S) /\ Len(kept) <= cap /\ Range(kept) \subseteq Range(s) \union {n}
  <1> DEFINE order == Append(s, n)
             excess == IF Len(order) > cap THEN Len(order) - cap ELSE 0
             kept == SubSeq(order, excess + 1, Len(order))
  <1>1. order \in Seq(S) /\ Len(order) = Len(s) + 1 /\ Len(s) \in Nat
    OBVIOUS
  <1>2. \A i \in 1..Len(order) : order[i] \in Range(s) \union {n}
    BY DEF Range
  <1>3. excess \in Nat /\ excess <= Len(order) /\ Len(order) - excess <= cap
    BY <1>1
  <1> HIDE DEF order, excess
  <1>4. /\ kept \in Seq(S) /\ Len(kept) = Len(order) - excess
        /\ \A i \in 1..Len(kept) : kept[i] = order[excess + i]
    <2>1. /\ excess + 1 \in 1..(Len(order) + 1) /\ Len(order) \in Nat
          /\ (Len(order) - (excess + 1)) + 1 = Len(order) - excess
      BY <1>1, <1>3
    <2>2. Len(kept) = Len(order) - excess
      BY <2>1, <1>1, <1>3
    <2>3. \A i \in 1..Len(kept) : kept[i] = order[(excess + 1) + i - 1]
      BY <2>1, <2>2, <1>1, <1>3
    <2>4. \A i \in 1..Len(kept) : (excess + 1) + i - 1 = excess + i
      BY <2>2, <1>1, <1>3
    <2>5. kept \in Seq(S)
      BY <2>1, <1>1, <1>3
    <2> QED
      BY <2>2, <2>3, <2>4, <2>5
  <1>5. \A i \in 1..Len(kept) : excess + i \in 1..Len(order)
    BY <1>1, <1>3, <1>4
  <1> HIDE DEF kept
  <1>6. Range(kept) \subseteq Range(s) \union {n}
    <2>1. \A i \in 1..Len(kept) : kept[i] \in Range(s) \union {n}
      BY <1>2, <1>4, <1>5
    <2>2. DOMAIN kept = 1..Len(kept)
      BY <1>4
    <2> QED
      BY <2>1, <2>2 DEF Range
  <1> QED
    BY <1>3, <1>4, <1>6 DEF order, excess, kept

\* A nonce the cache holds is that of the envelope itself, or of an answer out of turn
\* to a request that is settled, or of an envelope that answers no such request.
LEMMA RefusedRightly ==
    ASSUME InboxInv, NEW p \in Packets, p.env \in signed, Admits(p),
           p.env.nonce \in Range(nonces[p.at])
    PROVE  \/ p.env.kind = "reply" /\ ~(TrueReply(p.env) /\ Live(p.env.msg))
           \/ Overtaken(p) \/ ToBeJudged(p) \/ NonceTaken(p)
  <1>1. p.at \in Agents /\ p.env \in Envelopes
    BY DEF Packets
  <1>2. PICK q \in cached :
            /\ q.at = p.at /\ q.env.nonce = p.env.nonce
            /\ Overtaken(q) \/ ToBeJudged(q)
            /\ Rival(q) => Settled(q.env.msg)
    BY <1>1 DEF InboxInv, NoncesTell
  <1>3. CASE q.env = p.env
    BY <1>2, <1>3 DEF Overtaken, ToBeJudged
  <1>4. CASE q.env # p.env /\ ~(q.env.kind = "reply" /\ p.env.kind = "reply" /\ q.env.msg = p.env.msg)
    BY <1>2, <1>4 DEF NonceTaken
  <1>5. CASE /\ q.env # p.env /\ q.env.kind = "reply" /\ p.env.kind = "reply"
             /\ q.env.msg = p.env.msg /\ TrueReply(p.env)
    <2>1. q.env \in signed /\ ~TrueReply(q.env)
      BY <1>5 DEF InboxInv, TasksAreSound, OneOfEach
    <2>2. p.at = Requester(p.env.msg)
      BY <1>5, WhereItBelongs
    <2>3. Settled(p.env.msg)
      BY <1>2, <1>5, <2>1, <2>2 DEF Rival, TrueReply
    <2>4. CASE call[p.env.msg] \in {"done", "failed"}
      BY <1>5, <2>4 DEF Live
    <2>5. CASE RepliedTo(p.env.msg)
      <3>1. PICK f \in passed : TrueReply(f.env) /\ f.env.msg = p.env.msg
        BY <2>5 DEF RepliedTo
      <3>2. f.env \in signed /\ f.at = p.at
        BY <2>2, <3>1, WhereItBelongs DEF InboxInv, TasksAreSound
      <3>3. f.env = p.env
        BY <1>5, <3>1, <3>2 DEF InboxInv, OneOfEach, TrueReply
      <3>4. p.env.seq \in Nat
        BY <1>1 DEF Envelopes
      <3> QED
        BY <3>2, <3>3, <3>4 DEF Overtaken
    <2> QED
      BY <2>3, <2>4, <2>5 DEF Settled
  <1> QED
    BY <1>3, <1>4, <1>5

\* The nonce cache refuses rightly, and remembers only what it may refuse again.
LEMMA CheckNonceKeeps ==
    ASSUME InboxInv, NEW t \in tasks, CheckNonce(t)
    PROVE  InboxInv'
  <1> PICK u : u = Task(t.packet, "sequence")
    OBVIOUS
  <1> PICK env : env = t.packet.env
    OBVIOUS
  <1> PICK at : at = t.packet.at
    OBVIOUS
  <1> DEFINE order == Append(nonces[at], env.nonce)
             excess == IF Len(order) > Capacity THEN Len(order) - Capacity ELSE 0
  <1> PICK kept : kept = SubSeq(order, excess + 1, Len(order))
    OBVIOUS
  <1>1. /\ t.pc = "nonce"
        /\ UNCHANGED <<seq, packets, tracker, waiters, serving, call, answer, strays, signed,
                       handled, passed>>
    BY DEF CheckNonce
  <1>2. \/ /\ env.nonce \in Range(nonces[at]) /\ tasks' = tasks \ {t}
           /\ refused' = refused \union {t.packet} /\ nonces' = nonces /\ cached' = cached
        \/ /\ env.nonce \notin Range(nonces[at]) /\ tasks' = (tasks \ {t}) \union {u}
           /\ nonces' = [nonces EXCEPT ![at] = kept] /\ refused' = refused
           /\ cached' = cached \union {t.packet}
    BY DEF CheckNonce, End, Goto
  <1>3. u.packet = t.packet /\ u.pc = "sequence" /\ u = Task(u.packet, u.pc)
    BY TaskFields
  <1>4. /\ t.packet \in Packets /\ env \in signed /\ env \in Envelopes /\ env.msg \in Messages
        /\ at \in Agents /\ Admits(t.packet) /\ env.nonce \in Nonces
    BY TaskTypes DEF InboxInv, TasksAreSound
  <1>5. kept \in Seq(Nonces) /\ Len(kept) <= Capacity
        /\ Range(kept) \subseteq Range(nonces[at]) \union {env.nonce}
    <2>1. /\ nonces[at] \in Seq(Nonces) /\ Len(nonces[at]) <= Capacity /\ Capacity \in Nat
          /\ env.nonce \in Nonces
      BY <1>4, Planned DEF InboxInv, InboxTypeOK
    <2> QED
      BY <2>1, CacheKeeps
  <1> HIDE DEF order, excess
  <1>6. \A v \in tasks' : v = u \/ v \in tasks
    BY <1>2
  <1>7. InboxTypeOK'
    <2>1. nonces' \in [Agents -> Seq(Nonces)] /\ \A a \in Agents : Len(nonces'[a]) <= Capacity
      BY <1>2, <1>4, <1>5 DEF InboxInv, InboxTypeOK
    <2> QED
      BY <1>1, <1>2, <1>3, <1>4, <1>6, <2>1 DEF InboxInv, InboxTypeOK
  <1>8. TasksAreSound'
    BY <1>1, <1>2, <1>3, <1>4, <1>6 DEF InboxInv, TasksAreSound, Past, Admits
  <1>9. SignedLawfully' /\ OneOfEach' /\ RepliesAreHandled' /\ TrackerStands'
    BY <1>1 DEF InboxInv, SignedLawfully, Lawful, OneOfEach, RepliesAreHandled, TrackerStands
  <1>10. \A v : v.pc \in Past => (v \in tasks' <=> v \in tasks)
    BY <1>1, <1>2, <1>3 DEF Past
  <1>11. Running' /\ PastOnce'
    BY <1>1, <1>10 DEF InboxInv, Running, PastOnce, Past
  <1>12. Waiting' /\ WaiterLivesWithRequest'
    BY <1>1, <1>10, WaitingStays DEF Past
  <1>13. StraysPassLate'
    <2>1. \A v \in tasks' : \E w \in tasks : w.packet = v.packet /\ (v.pc # "peer" => w.pc # "peer")
      BY <1>1, <1>3, <1>6
    <2> QED
      BY <1>1, <2>1, StraysStayLate
  <1>14. \A v \in tasks : v.pc = "sequence" => v \in tasks'
    BY <1>1, <1>2
  <1>15. \A p : Overtaken(p) \/ ToBeJudged(p) => Overtaken(p)' \/ ToBeJudged(p)'
    BY <1>1, <1>14 DEF Overtaken, ToBeJudged
  <1>16. \A m \in Messages : Settled(m) => Settled(m)'
    BY <1>1, SettledStays
  <1>17. \A q \in cached : q.env.msg \in Messages
    BY DEF InboxInv, InboxTypeOK, Packets, Envelopes
  <1>18. NoncesTell'
    <2>1. ASSUME NEW q \in cached'
          PROVE  (Overtaken(q)' \/ ToBeJudged(q)') /\ (Rival(q) => Settled(q.env.msg)')
      <3>1. CASE q \in cached
        BY <1>15, <1>16, <1>17, <3>1 DEF InboxInv, NoncesTell
      <3>2. CASE q = t.packet /\ tasks' = (tasks \ {t}) \union {u}
        <4>1. ToBeJudged(q)'
          BY <1>3, <3>2 DEF ToBeJudged
        <4>2. Rival(q) => Settled(q.env.msg)'
          BY <1>1, <1>4, <1>16, <3>2 DEF InboxInv, StraysPassLate
        <4> QED
          BY <4>1, <4>2
      <3> QED
        BY <1>2, <3>1, <3>2
    <2>2. ASSUME NEW a \in Agents, NEW n \in Range(nonces'[a])
          PROVE  \E q \in cached' : q.at = a /\ q.env.nonce = n
      <3>1. CASE n \in Range(nonces[a])
        BY <1>2, <3>1 DEF InboxInv, NoncesTell
      <3>2. CASE n \notin Range(nonces[a])
        <4>1. nonces' = [nonces EXCEPT ![at] = kept] /\ t.packet \in cached'
          BY <1>2, <2>2, <3>2
        <4>2. a = at /\ nonces'[a] = kept
          BY <1>4, <2>2, <3>2, <4>1 DEF InboxInv, InboxTypeOK
        <4>3. n = env.nonce
          BY <1>5, <2>2, <3>2, <4>2
        <4> QED
          BY <4>1, <4>2, <4>3
      <3> QED
        BY <3>1, <3>2
    <2> QED
      BY <2>1, <2>2 DEF NoncesTell, Rival
  <1>19. NeverSpoiled'
    <2> SUFFICES ASSUME NEW p \in refused'
                 PROVE  \/ p.env.kind = "reply" /\ ~(TrueReply(p.env) /\ Live(p.env.msg)')
                        \/ Overtaken(p)' \/ ToBeJudged(p)' \/ NonceTaken(p)'
      BY DEF NeverSpoiled, Overtaken, ToBeJudged, NonceTaken, Live
    <2>1. cached \subseteq cached'
      BY <1>2
    <2>2. CASE p \in refused
      BY <1>1, <1>7, <1>15, <2>1, <2>2, SpoiledStays DEF InboxTypeOK
    <2>3. CASE p = t.packet /\ env.nonce \in Range(nonces[at])
      <3>1. \/ p.env.kind = "reply" /\ ~(TrueReply(p.env) /\ Live(p.env.msg))
            \/ Overtaken(p) \/ ToBeJudged(p) \/ NonceTaken(p)
        BY <1>4, <2>3, RefusedRightly
      <3>2. Live(p.env.msg)' <=> Live(p.env.msg)
        BY <1>1 DEF Live
      <3>3. NonceTaken(p) => NonceTaken(p)'
        BY <2>1 DEF NonceTaken
      <3> QED
        BY <1>15, <3>1, <3>2, <3>3
    <2> QED
      BY <1>2, <2>2, <2>3
  <1> QED
    BY <1>7, <1>8, <1>9, <1>11, <1>12, <1>13, <1>18, <1>19 DEF InboxInv

\* The tracker lets an envelope past once: it stands at it from then on.
LEMMA CheckSequenceKeeps ==
    ASSUME InboxInv, NEW t \in tasks, CheckSequence(t)
    PROVE  InboxInv'
  <1> PICK u : u = Task(t.packet, "dispatch")
    OBVIOUS
  <1> PICK env : env = t.packet.env
    OBVIOUS
  <1> PICK at : at = t.packet.at
    OBVIOUS
  <1>1. /\ t.pc = "sequence"
        /\ UNCHANGED <<seq, packets, nonces, waiters, serving, call, answer, strays, signed, handled,
                       cached>>
    BY DEF CheckSequence
  <1>2. \/ /\ env.seq > tracker[at][env.from]
           /\ tracker' = [tracker EXCEPT ![at][env.from] = env.seq]
           /\ passed' = passed \union {t.packet} /\ refused' = refused
           /\ tasks' = (tasks \ {t}) \union {u}
        \/ /\ ~(env.seq > tracker[at][env.from]) /\ tasks' = tasks \ {t}
           /\ refused' = refused \union {t.packet} /\ tracker' = tracker /\ passed' = passed
    BY DEF CheckSequence, End, Goto
  <1>3. u.packet = t.packet /\ u.pc = "dispatch" /\ u = Task(u.packet, u.pc)
    BY TaskFields
  <1>4. /\ t.packet \in Packets /\ env \in signed /\ env \in Envelopes /\ env.msg \in Messages
        /\ at \in Agents /\ Admits(t.packet) /\ env.from \in Agents /\ env.seq \in Nat
        /\ tracker[at][env.from] \in Nat /\ env.seq >= 1
    BY TaskTypes DEF InboxInv, InboxTypeOK, Lawful, TasksAreSound
  <1>5. \A v \in tasks' : v = u \/ v \in tasks
    BY <1>2
  <1>6. SignedLawfully' /\ OneOfEach' /\ RepliesAreHandled'
    BY <1>1 DEF InboxInv, SignedLawfully, Lawful, OneOfEach, RepliesAreHandled
  <1>7. Waiting' /\ WaiterLivesWithRequest'
    <2>1. \A v : v.pc = "wake" => (v \in tasks' <=> v \in tasks)
      BY <1>1, <1>2, <1>3
    <2>2. passed \subseteq passed'
      BY <1>2
    <2> QED
      BY <1>1, <2>1, <2>2, WaitingStays
  <1>8. StraysPassLate'
    <2>1. \A v \in tasks' : \E w \in tasks : w.packet = v.packet /\ (v.pc # "peer" => w.pc # "peer")
      BY <1>1, <1>3, <1>5
    <2>2. passed \subseteq passed'
      BY <1>2
    <2> QED
      BY <1>1, <2>1, <2>2, StraysStayLate
  <1>9. CASE env.seq > tracker[at][env.from]
    <2>1. /\ tracker' = [tracker EXCEPT ![at][env.from] = env.seq]
          /\ passed' = passed \union {t.packet} /\ refused' = refused
          /\ tasks' = (tasks \ {t}) \union {u}
      BY <1>2, <1>9
    <2>2. /\ tracker' \in [Agents -> [Agents -> Nat]]
          /\ \A a, b \in Agents :
                 /\ tracker'[a][b] = IF a = at /\ b = env.from THEN env.seq ELSE tracker[a][b]
                 /\ tracker[a][b] <= tracker'[a][b] /\ tracker[a][b] \in Nat
      <3>1. tracker \in [Agents -> [Agents -> Nat]]
        BY DEF InboxInv, InboxTypeOK
      <3>2. tracker' = [tracker EXCEPT ![at] = [tracker[at] EXCEPT ![env.from] = env.seq]]
        BY <1>4, <2>1, <3>1
      <3>3. tracker' \in [Agents -> [Agents -> Nat]]
        BY <1>4, <3>1, <3>2
      <3>4. \A a, b \in Agents :
                tracker'[a][b] = IF a = at /\ b = env.from THEN env.seq ELSE tracker[a][b]
        BY <1>4, <3>1, <3>2
      <3>5. \A a, b \in Agents : tracker[a][b] \in Nat
        BY <3>1
      <3> QED
        BY <1>4, <1>9, <3>3, <3>4, <3>5
    <2>3. InboxTypeOK'
      BY <1>1, <1>3, <1>4, <1>5, <2>1, <2>2 DEF InboxInv, InboxTypeOK
    <2>4. \A v \in tasks : v.pc \in Past => ~Same(v.packet, t.packet)
      <3> SUFFICES ASSUME NEW v \in tasks, v.pc \in Past, Same(v.packet, t.packet) PROVE FALSE
        OBVIOUS
      <3>1. v.packet.env.seq <= tracker[v.packet.at][v.packet.env.from]
        BY DEF InboxInv, TasksAreSound
      <3> QED
        BY <1>4, <1>9, <3>1 DEF Same
    <2>5. \A p \in handled : ~Same(p, t.packet)
      <3> SUFFICES ASSUME NEW p \in handled, Same(p, t.packet) PROVE FALSE
        OBVIOUS
      <3>1. p.env.seq <= tracker[p.at][p.env.from]
        BY DEF InboxInv, PastOnce
      <3> QED
        BY <1>4, <1>9, <3>1 DEF Same
    <2>6. TasksAreSound'
      <3>1. ASSUME NEW v \in tasks, v.pc \in Past
            PROVE  v.packet.env.seq <= tracker'[v.packet.at][v.packet.env.from]
        <4>1. v.packet.env.seq <= tracker[v.packet.at][v.packet.env.from]
          BY <3>1 DEF InboxInv, TasksAreSound
        <4>2. v.packet.at \in Agents /\ v.packet.env.from \in Agents /\ v.packet.env.seq \in Nat
          BY TaskTypes
        <4>3. /\ tracker[v.packet.at][v.packet.env.from] <= tracker'[v.packet.at][v.packet.env.from]
              /\ tracker[v.packet.at][v.packet.env.from] \in Nat
              /\ tracker'[v.packet.at][v.packet.env.from] \in Nat
          BY <2>2, <4>2
        <4> QED
          BY <4>1, <4>2, <4>3
      <3>2. env.seq <= tracker'[at][env.from]
        BY <1>4, <2>2
      <3>3. \A v \in tasks' :
                /\ v = Task(v.packet, v.pc) /\ v.packet.env \in signed /\ Admits(v.packet)
                /\ v.pc \in Past =>
                       /\ v.packet \in passed'
                       /\ v.packet.env.seq <= tracker'[v.packet.at][v.packet.env.from]
        BY <1>3, <1>5, <2>1, <3>1, <3>2 DEF InboxInv, TasksAreSound
      <3> QED
        BY <1>1, <1>4, <2>1, <3>3 DEF InboxInv, TasksAreSound, Admits
    <2>7. PastOnce'
      <3>1. ASSUME NEW p \in handled PROVE p.env.seq <= tracker'[p.at][p.env.from]
        <4>1. p.env.seq <= tracker[p.at][p.env.from]
          BY DEF InboxInv, PastOnce
        <4>2. p.at \in Agents /\ p.env.from \in Agents /\ p.env.seq \in Nat
          BY DEF InboxInv, InboxTypeOK, Packets, Envelopes
        <4>3. /\ tracker[p.at][p.env.from] <= tracker'[p.at][p.env.from]
              /\ tracker[p.at][p.env.from] \in Nat /\ tracker'[p.at][p.env.from] \in Nat
          BY <2>2, <4>2
        <4> QED
          BY <4>1, <4>2, <4>3
      <3>2. \A v, w \in tasks' :
                v.pc \in Past /\ w.pc \in Past /\ Same(v.packet, w.packet) => v = w
        BY <1>3, <1>5, <2>4 DEF InboxInv, PastOnce, Same
      <3>3. \A v \in tasks' : v.pc = "dispatch" => \A p \in handled : ~Same(p, v.packet)
        BY <1>3, <1>5, <2>5 DEF InboxInv, PastOnce
      <3> QED
        BY <1>1, <3>1, <3>2, <3>3 DEF InboxInv, PastOnce, Admits
    <2>8. Running'
      BY <1>1, <1>3, <1>5 DEF InboxInv, Running
    <2>9. TrackerStands'
      BY <1>4, <2>1, <2>2 DEF InboxInv, TrackerStands
    <2>10. NoncesTell' /\ NeverSpoiled'
      <3>1. Overtaken(t.packet)'
        BY <1>4, <2>1 DEF Overtaken
      <3>2. \A v \in tasks : v.pc = "sequence" =>
                Overtaken(v.packet)' \/ ToBeJudged(v.packet)'
        BY <2>1, <3>1 DEF ToBeJudged, Overtaken
      <3> QED
        BY <1>1, <2>1, <2>3, <3>2, RefusalsStay DEF InboxTypeOK
    <2> QED
      BY <1>6, <1>7, <1>8, <2>3, <2>6, <2>7, <2>8, <2>9, <2>10 DEF InboxInv
  <1>10. CASE ~(env.seq > tracker[at][env.from])
    <2>1. /\ tasks' = tasks \ {t} /\ refused' = refused \union {t.packet}
          /\ tracker' = tracker /\ passed' = passed
      BY <1>2, <1>10
    <2>2. InboxTypeOK'
      BY <1>1, <1>4, <2>1 DEF InboxInv, InboxTypeOK
    <2>3. TasksAreSound' /\ PastOnce' /\ Running' /\ TrackerStands'
      BY <1>1, <1>4, <2>1
         DEF InboxInv, TasksAreSound, PastOnce, Running, TrackerStands, Admits, Past
    <2>4. Overtaken(t.packet)
      <3>1. tracker[at][env.from] > 0
        BY <1>4, <1>10
      <3>2. PICK f \in passed :
                f.at = at /\ f.env.from = env.from /\ f.env.seq = tracker[at][env.from]
        BY <1>4, <3>1 DEF InboxInv, TrackerStands
      <3> QED
        BY <1>4, <1>10, <3>2 DEF Overtaken
    <2>5. \A p : Overtaken(p) \/ ToBeJudged(p) => Overtaken(p)' \/ ToBeJudged(p)'
      BY <1>1, <2>1, <2>4 DEF Overtaken, ToBeJudged
    <2>6. \A m \in Messages : Settled(m) => Settled(m)'
      BY <1>1, <2>1, SettledStays
    <2>7. \A q \in cached : q.env.msg \in Messages
      BY DEF InboxInv, InboxTypeOK, Packets, Envelopes
    <2>8. NoncesTell'
      BY <1>1, <2>5, <2>6, <2>7 DEF InboxInv, NoncesTell, Rival
    <2>9. NeverSpoiled'
      <3>1. \A p \in refused :
                \/ p.env.kind = "reply" /\ ~(TrueReply(p.env) /\ Live(p.env.msg)')
                \/ Overtaken(p)' \/ ToBeJudged(p)' \/ NonceTaken(p)'
        BY <1>1, <2>2, <2>5, SpoiledStays DEF InboxTypeOK
      <3>2. Overtaken(t.packet)' \/ ToBeJudged(t.packet)'
        BY <2>4, <2>5
      <3> QED
        BY <2>1, <3>1, <3>2 DEF NeverSpoiled, Overtaken, ToBeJudged, NonceTaken, Live
    <2> QED
      BY <1>6, <1>7, <1>8, <2>2, <2>3, <2>8, <2>9 DEF InboxInv
  <1> QED
    BY <1>9, <1>10

-------------------------------------------------------------------------------
(* Dispatch *)

\* What runs past the checks leaves them as they are.
LEMMA BehindTheChecks ==
    ASSUME InboxInv, NEW t \in tasks, t.pc \in Past, NEW pc \in Past,
           \/ tasks' = tasks \ {t}
           \/ tasks' = (tasks \ {t}) \union {Task(t.packet, pc)},
           waiters' \in [Agents -> SUBSET Messages], answer' \in [Messages -> Agents \union {None}],
           handled' \subseteq handled \union {t.packet},
           UNCHANGED <<seq, packets, nonces, tracker, serving, call, strays, signed, cached,
                       passed, refused>>
    PROVE  /\ InboxTypeOK' /\ SignedLawfully' /\ OneOfEach' /\ TasksAreSound'
           /\ TrackerStands' /\ NoncesTell' /\ StraysPassLate' /\ NeverSpoiled'
  <1> PICK u : u = Task(t.packet, pc)
    OBVIOUS
  <1>1. u.packet = t.packet /\ u.pc = pc /\ u = Task(u.packet, u.pc)
    BY TaskFields
  <1>2. \A v \in tasks' : v = u \/ v \in tasks
    OBVIOUS
  <1>3. t.packet \in Packets
    BY TaskTypes
  <1>4. InboxTypeOK'
    BY <1>1, <1>2, <1>3 DEF InboxInv, InboxTypeOK, Past
  <1>5. SignedLawfully' /\ OneOfEach' /\ TrackerStands'
    BY DEF InboxInv, SignedLawfully, Lawful, OneOfEach, TrackerStands
  <1>6. TasksAreSound'
    BY <1>1, <1>2 DEF InboxInv, TasksAreSound, Admits
  <1>7. NoncesTell' /\ NeverSpoiled'
    <2>1. \A v \in tasks : v.pc = "sequence" => ToBeJudged(v.packet)'
      BY DEF ToBeJudged, Past
    <2> QED
      BY <1>4, <2>1, RefusalsStay DEF InboxTypeOK
  <1>8. StraysPassLate'
    <2>1. \A v \in tasks' : \E w \in tasks : w.packet = v.packet /\ (v.pc # "peer" => w.pc # "peer")
      BY <1>1, <1>2 DEF Past
    <2> QED
      BY <2>1, StraysStayLate
  <1> QED
    BY <1>4, <1>5, <1>6, <1>7, <1>8

\* A request reaches its handler for the first time, and nobody replied to it before.
LEMMA DispatchRequestKeeps ==
    ASSUME InboxInv, NEW t \in tasks, DispatchRequest(t)
    PROVE  InboxInv'
  <1> PICK u : u = Task(t.packet, "running")
    OBVIOUS
  <1> PICK env : env = t.packet.env
    OBVIOUS
  <1>1. /\ t.pc = "dispatch" /\ env.kind = "request"
        /\ UNCHANGED <<seq, packets, nonces, tracker, waiters, serving, call, answer, strays,
                       signed, cached, passed, refused>>
    BY DEF DispatchRequest, replayState
  <1>2. \/ tasks' = (tasks \ {t}) \union {u} /\ handled' = handled \union {t.packet}
        \/ tasks' = tasks \ {t} /\ handled' = handled
    BY DEF DispatchRequest, Goto, End
  <1>3. u.packet = t.packet /\ u.pc = "running" /\ env \in signed /\ Lawful(env)
        /\ env.msg \in Messages
    BY TaskFields, TaskTypes
  <1>4. /\ InboxTypeOK' /\ SignedLawfully' /\ OneOfEach' /\ TasksAreSound'
        /\ TrackerStands' /\ NoncesTell' /\ StraysPassLate' /\ NeverSpoiled'
    BY <1>1, <1>2, BehindTheChecks DEF Past, InboxInv, InboxTypeOK
  <1>5. Waiting' /\ WaiterLivesWithRequest'
    BY <1>1, <1>2, <1>3, WaitingStays
  <1>6. RepliesAreHandled'
    BY <1>1, <1>2 DEF InboxInv, RepliesAreHandled
  <1>7. /\ \A v \in tasks : v.pc \in Past /\ Same(v.packet, t.packet) => v = t
        /\ \A p \in handled : ~Same(p, t.packet)
    BY <1>1 DEF InboxInv, PastOnce, Past
  <1>8. Admits(t.packet) /\ env.seq <= tracker[t.packet.at][env.from]
    BY <1>1 DEF InboxInv, TasksAreSound, Past
  <1>9. \A v \in tasks' : v = u \/ (v \in tasks /\ v # t)
    BY <1>2, <1>3, <1>1
  <1>10. PastOnce'
    <2>1. \A p \in handled' :
              /\ p.env \in signed /\ Admits(p) /\ p.env.seq <= tracker[p.at][p.env.from]
              /\ \A q \in handled' : Same(p, q) => p = q
      BY <1>2, <1>3, <1>7, <1>8 DEF InboxInv, PastOnce, Same
    <2>2. \A v, w \in tasks' :
              v.pc \in Past /\ w.pc \in Past /\ Same(v.packet, w.packet) => v = w
      BY <1>3, <1>7, <1>9 DEF InboxInv, PastOnce, Same
    <2>3. \A v \in tasks' : v.pc = "dispatch" => \A p \in handled' : ~Same(p, v.packet)
      BY <1>2, <1>3, <1>7, <1>9 DEF InboxInv, PastOnce, Past, Same
    <2> QED
      BY <1>1, <2>1, <2>2, <2>3 DEF PastOnce, Admits
  <1>11. \A e \in signed : TrueReply(e) => e.msg # env.msg
    <2> SUFFICES ASSUME NEW e \in signed, TrueReply(e), e.msg = env.msg PROVE FALSE
      OBVIOUS
    <2>1. PICK p \in handled : p.env.msg = env.msg /\ p.env.kind = "request"
      BY DEF InboxInv, RepliesAreHandled
    <2>2. p.env \in signed /\ Admits(p)
      BY DEF InboxInv, PastOnce
    <2>3. p.env = env
      BY <1>1, <1>3, <2>1, <2>2 DEF InboxInv, OneOfEach
    <2>4. p.at = t.packet.at
      BY <1>1, <1>3, <1>8, <2>1, <2>2, WhereItBelongs
    <2> QED
      BY <1>7, <2>3, <2>4 DEF Same
  <1>12. Running'
    BY <1>1, <1>2, <1>3, <1>11 DEF InboxInv, Running
  <1> QED
    BY <1>4, <1>5, <1>6, <1>10, <1>12 DEF InboxInv

\* A publish reaches the subscribers for the first time.
LEMMA DispatchPublishKeeps ==
    ASSUME InboxInv, NEW t \in tasks, DispatchPublish(t)
    PROVE  InboxInv'
  <1> PICK env : env = t.packet.env
    OBVIOUS
  <1>1. /\ t.pc = "dispatch" /\ tasks' = tasks \ {t} /\ handled' = handled \union {t.packet}
        /\ UNCHANGED <<seq, packets, nonces, tracker, waiters, serving, call, answer, strays,
                       signed, cached, passed, refused>>
    BY DEF DispatchPublish, End, replayState
  <1>2. /\ InboxTypeOK' /\ SignedLawfully' /\ OneOfEach' /\ TasksAreSound'
        /\ TrackerStands' /\ NoncesTell' /\ StraysPassLate' /\ NeverSpoiled'
    BY <1>1, BehindTheChecks DEF Past, InboxInv, InboxTypeOK
  <1>3. Waiting' /\ WaiterLivesWithRequest'
    BY <1>1, WaitingStays
  <1>4. RepliesAreHandled' /\ Running'
    BY <1>1 DEF InboxInv, RepliesAreHandled, Running
  <1>5. /\ \A v \in tasks : v.pc \in Past /\ Same(v.packet, t.packet) => v = t
        /\ \A p \in handled : ~Same(p, t.packet)
        /\ env \in signed /\ Admits(t.packet) /\ env.seq <= tracker[t.packet.at][env.from]
    BY <1>1 DEF InboxInv, PastOnce, TasksAreSound, Past
  <1>6. PastOnce'
    <2>1. \A p \in handled' :
              /\ p.env \in signed /\ Admits(p) /\ p.env.seq <= tracker[p.at][p.env.from]
              /\ \A q \in handled' : Same(p, q) => p = q
      BY <1>1, <1>5 DEF InboxInv, PastOnce, Same
    <2>2. \A v \in tasks' : v.pc = "dispatch" => \A p \in handled' : ~Same(p, v.packet)
      BY <1>1, <1>5 DEF InboxInv, PastOnce, Past, Same
    <2> QED
      BY <1>1, <2>1, <2>2 DEF InboxInv, PastOnce, Admits
  <1> QED
    BY <1>2, <1>3, <1>4, <1>6 DEF InboxInv

\* The waiter is taken by the reply of the agent that was asked, and by no other.
LEMMA TakeWaiterKeeps ==
    ASSUME InboxInv, NEW t \in tasks, TakeWaiter(t)
    PROVE  InboxInv'
  <1> PICK u : u = Task(t.packet, "wake")
    OBVIOUS
  <1> PICK env : env = t.packet.env
    OBVIOUS
  <1> PICK at : at = t.packet.at
    OBVIOUS
  <1> PICK m : m = env.msg
    OBVIOUS
  <1>1. /\ t.pc = "dispatch" /\ env.kind = "reply"
        /\ UNCHANGED <<seq, packets, nonces, tracker, serving, call, answer, strays,
                       signed, handled, cached, passed, refused>>
    BY DEF TakeWaiter, replayState, history, judged
  <1>2. \/ /\ m \in waiters[at] /\ Target(m) = env.from
           /\ waiters' = [waiters EXCEPT ![at] = @ \ {m}] /\ tasks' = (tasks \ {t}) \union {u}
        \/ waiters' = waiters /\ tasks' = tasks \ {t}
    BY DEF TakeWaiter, Goto, End, PeerMismatch
  <1>3. u.packet = t.packet /\ u.pc = "wake" /\ env \in signed /\ Lawful(env)
        /\ m \in Messages /\ at \in Agents
    BY TaskFields, TaskTypes
  <1>4. waiters' \in [Agents -> SUBSET Messages]
    <2>1. waiters \in [Agents -> SUBSET Messages]
      BY DEF InboxInv, InboxTypeOK
    <2> QED
      BY <1>2, <1>3, <2>1
  <1>5. /\ InboxTypeOK' /\ SignedLawfully' /\ OneOfEach' /\ TasksAreSound'
        /\ TrackerStands' /\ NoncesTell' /\ StraysPassLate' /\ NeverSpoiled'
    BY <1>1, <1>2, <1>4, BehindTheChecks DEF Past, InboxInv, InboxTypeOK
  <1>6. RepliesAreHandled' /\ Running'
    BY <1>1, <1>2, <1>3 DEF InboxInv, RepliesAreHandled, Running
  <1>7. \A v \in tasks' : v = u \/ (v \in tasks /\ v # t)
    BY <1>1, <1>2, <1>3
  <1>8. PastOnce'
    <2>1. \A v \in tasks : v.pc \in Past /\ Same(v.packet, t.packet) => v = t
      BY <1>1 DEF InboxInv, PastOnce, Past
    <2> QED
      BY <1>1, <1>3, <1>7, <2>1 DEF InboxInv, PastOnce, Admits, Same, Past
  <1>9. CASE waiters' = waiters /\ tasks' = tasks \ {t}
    <2>1. Waiting' /\ WaiterLivesWithRequest'
      BY <1>1, <1>9, WaitingStays
    <2> QED
      BY <1>5, <1>6, <1>8, <2>1 DEF InboxInv
  <1>10. CASE /\ m \in waiters[at] /\ Target(m) = env.from
              /\ waiters' = [waiters EXCEPT ![at] = @ \ {m}] /\ tasks' = (tasks \ {t}) \union {u}
    <2>1. at = Requester(m) /\ IsRequest(m) /\ call[m] # "idle" /\ TrueReply(env)
      BY <1>1, <1>3, <1>10 DEF InboxInv, Waiting, Lawful, TrueReply
    <2>2. \A a \in Agents : \A k \in Messages :
              k \in waiters'[a] <=> k \in waiters[a] /\ ~(a = at /\ k = m)
      BY <1>3, <1>10 DEF InboxInv, InboxTypeOK
    <2>3. Waiting'
      <3>1. \A a \in Agents : \A k \in waiters'[a] : a = Requester(k) /\ IsRequest(k)
        BY <1>4, <2>2 DEF InboxInv, Waiting
      <3>2. \A v \in tasks' :
                v.pc = "wake" => TrueReply(v.packet.env) /\ call[v.packet.env.msg] # "idle"
        BY <1>3, <1>7, <2>1 DEF InboxInv, Waiting
      <3> QED
        BY <1>1, <3>1, <3>2 DEF InboxInv, Waiting, RepliedTo
    <2>4. WaiterLivesWithRequest'
      <3> SUFFICES ASSUME NEW k \in Messages, IsRequest(k)
                   PROVE  k \in waiters'[Requester(k)] <=>
                              Live(k) /\ answer[k] = None /\ ~BeingWoken(k)'
        BY <1>1 DEF WaiterLivesWithRequest, Live
      <3>1. CASE k = m
        <4>1. BeingWoken(m)'
          BY <1>3, <1>10 DEF BeingWoken
        <4> QED
          BY <1>3, <2>1, <2>2, <3>1, <4>1
      <3>2. CASE k # m
        <4>1. BeingWoken(k)' <=> BeingWoken(k)
          BY <1>1, <1>3, <1>10, <3>2 DEF BeingWoken
        <4> QED
          BY <2>2, <3>2, <4>1, Planned DEF InboxInv, WaiterLivesWithRequest
      <3> QED
        BY <3>1, <3>2
    <2> QED
      BY <1>5, <1>6, <1>8, <2>3, <2>4 DEF InboxInv
  <1> QED
    BY <1>2, <1>9, <1>10

\* The reply goes into the channel, unless the request is over.
LEMMA WakeKeeps ==
    ASSUME InboxInv, NEW t \in tasks, Wake(t)
    PROVE  InboxInv'
  <1> PICK env : env = t.packet.env
    OBVIOUS
  <1> PICK m : m = env.msg
    OBVIOUS
  <1>1. /\ t.pc = "wake" /\ tasks' = tasks \ {t}
        /\ answer' = IF Live(m) THEN [answer EXCEPT ![m] = env.from] ELSE answer
        /\ UNCHANGED <<seq, packets, nonces, tracker, waiters, serving, call, strays,
                       signed, handled, cached, passed, refused>>
    BY DEF Wake, End, Live, replayState, history, judged
  <1>2. env \in signed /\ m \in Messages /\ env.from \in Agents
    BY TaskTypes
  <1>3. t.packet \in passed /\ TrueReply(env) /\ call[m] # "idle"
    BY <1>1 DEF InboxInv, TasksAreSound, Waiting, Past
  <1>4. /\ answer' \in [Messages -> Agents \union {None}]
        /\ \A k \in Messages : answer'[k] = IF k = m /\ Live(m) THEN env.from ELSE answer[k]
    BY <1>1, <1>2 DEF InboxInv, InboxTypeOK
  <1>5. /\ InboxTypeOK' /\ SignedLawfully' /\ OneOfEach' /\ TasksAreSound'
        /\ TrackerStands' /\ NoncesTell' /\ StraysPassLate' /\ NeverSpoiled'
    BY <1>1, <1>4, BehindTheChecks DEF Past, InboxInv, InboxTypeOK
  <1>6. RepliesAreHandled' /\ Running' /\ PastOnce'
    BY <1>1 DEF InboxInv, RepliesAreHandled, Running, PastOnce, Admits
  <1>7. Waiting'
    <2>1. \A k \in Messages : RepliedTo(k)' <=> RepliedTo(k)
      BY <1>1 DEF RepliedTo
    <2>2. env.from = Target(m) /\ RepliedTo(m)
      BY <1>3 DEF TrueReply, RepliedTo
    <2>3. call[m] = "done" => ~Live(m)
      BY DEF Live
    <2> QED
      BY <1>1, <1>2, <1>3, <1>4, <2>1, <2>2, <2>3 DEF InboxInv, Waiting
  <1>8. WaiterLivesWithRequest'
    <2> SUFFICES ASSUME NEW k \in Messages, IsRequest(k)
                 PROVE  k \in waiters[Requester(k)] <=>
                            Live(k) /\ answer'[k] = None /\ ~BeingWoken(k)'
      BY <1>1 DEF WaiterLivesWithRequest, Live
    <2>1. CASE k = m
      <3>1. BeingWoken(m)
        BY <1>1 DEF BeingWoken
      <3>2. None \notin Agents
        BY Planned
      <3> QED
        BY <1>2, <1>4, <2>1, <3>1, <3>2 DEF InboxInv, WaiterLivesWithRequest
    <2>2. CASE k # m
      <3>1. BeingWoken(k)' <=> BeingWoken(k)
        BY <1>1, <2>2 DEF BeingWoken
      <3> QED
        BY <1>4, <2>2, <3>1 DEF InboxInv, WaiterLivesWithRequest
    <2> QED
      BY <2>1, <2>2
  <1> QED
    BY <1>5, <1>6, <1>7, <1>8 DEF InboxInv

-------------------------------------------------------------------------------
(* Theorems *)

\* The inboxes start in the invariant.
LEMMA InitInbox ==
    ASSUME InboxInit
    PROVE  InboxInv
  <1>1. InboxTypeOK
    <2>1. strays \in 0..MaxStrays
      BY Planned DEF InboxInit
    <2>2. nonces \in [Agents -> Seq(Nonces)] /\ \A a \in Agents : Len(nonces[a]) <= Capacity
      BY Planned DEF InboxInit
    <2> QED
      BY <2>1, <2>2 DEF InboxInit, InboxTypeOK
  <1>2. SignedLawfully /\ OneOfEach /\ RepliesAreHandled /\ TasksAreSound /\ PastOnce /\ Running
    BY DEF InboxInit, SignedLawfully, OneOfEach, RepliesAreHandled, TasksAreSound, PastOnce, Running
  <1>3. TrackerStands /\ StraysPassLate /\ NeverSpoiled
    BY DEF InboxInit, TrackerStands, StraysPassLate, NeverSpoiled
  <1>4. NoncesTell
    BY DEF InboxInit, NoncesTell, Range
  <1>5. Waiting
    BY DEF InboxInit, Waiting
  <1>6. WaiterLivesWithRequest
    BY Planned DEF InboxInit, WaiterLivesWithRequest, Live
  <1> QED
    BY <1>1, <1>2, <1>3, <1>4, <1>5, <1>6 DEF InboxInv

\* Every step keeps the invariant.
LEMMA NextInbox ==
    ASSUME InboxInv, [InboxNext]_inboxVars
    PROVE  InboxInv'
  <1>1. CASE UNCHANGED inboxVars
    <2>1. UNCHANGED <<seq, packets, tasks, nonces, tracker, waiters, serving, call, answer,
                      strays, signed, handled, cached, passed, refused>>
      BY <1>1 DEF inboxVars, replayState, judged, history
    <2> QED
      BY <2>1 DEF InboxInv, InboxTypeOK, SignedLawfully, Lawful, OneOfEach, RepliesAreHandled,
                  TasksAreSound, PastOnce, Running, TrackerStands, NoncesTell, StraysPassLate,
                  Waiting, WaiterLivesWithRequest, NeverSpoiled, Settled, RepliedTo, Overtaken,
                  ToBeJudged, NonceTaken, Live, BeingWoken
  <1>2. CASE \E m \in Messages : Send(m) \/ Sent(m) \/ Complete(m) \/ GiveUp(m)
    BY <1>2, SendKeeps, SentKeeps, CompleteKeeps, GiveUpKeeps
  <1>3. CASE \E m \in Messages : IsRequest(m) /\ Serve(Target(m))
    BY <1>3, ServeKeeps, Planned
  <1>4. CASE \E p \in packets : AcceptLoop(p)
    BY <1>4, AcceptLoopKeeps
  <1>5. CASE \E env \in signed, c, at \in Agents : Forward(env, c, at)
    BY <1>5, ForwardKeeps
  <1>6. CASE \E ploy \in Ploys, nonce \in {OwnNonce} \union {env.nonce : env \in signed} :
                 Stray(ploy, nonce)
    BY <1>6, StrayKeeps
  <1>7. CASE \E t \in tasks : TaskStep(t)
    BY <1>7, CheckPeerKeeps, CheckNonceKeeps, CheckSequenceKeeps, DispatchRequestKeeps,
       DispatchPublishKeeps, ReplyKeeps, HandlerFailsKeeps, TakeWaiterKeeps, WakeKeeps
       DEF TaskStep
  <1> QED
    BY <1>1, <1>2, <1>3, <1>4, <1>5, <1>6, <1>7 DEF InboxNext

\* The inboxes keep their inductive invariant, whoever else puts envelopes on the wire
\* (Inbox::on_envelope, ReplyWaiter, NonceCache and SequenceTracker).
THEOREM InboxCorrect == InboxSpec => []InboxInv
  <1>1. InboxInit => InboxInv
    BY InitInbox
  <1>2. InboxInv /\ [InboxNext]_inboxVars => InboxInv'
    BY NextInbox
  <1> QED
    BY <1>1, <1>2, PTL DEF InboxSpec

\* An envelope is handled once at most at a bus, by its addressee and within one user; an
\* awaited reply is not lost to the answers of others under its correlation, copied nonces
\* included; a request is answered by the agent it was put to, and its waiter lives exactly
\* as long as it waits (inbox.rs, reply.rs, #97).
THEOREM EachIsTakenOnce == InboxSpec => []InboxTakesEachOnce
  <1>1. InboxInv => InboxTakesEachOnce
    <2> SUFFICES ASSUME InboxInv PROVE InboxTakesEachOnce
      OBVIOUS
    <2>1. HandledOnce
      BY DEF InboxInv, PastOnce, Admits, HandledOnce, Same
    <2>2. AnsweredByTarget
      <3> SUFFICES ASSUME NEW m \in Messages, IsRequest(m), call[m] = "done"
                   PROVE  /\ answer[m] = Target(m)
                          /\ \E p \in handled : p.env.msg = m /\ p.env.kind = "request"
        BY DEF AnsweredByTarget
      <3>1. answer[m] = Target(m) /\ RepliedTo(m)
        BY DEF InboxInv, Waiting
      <3>2. PICK f \in passed : TrueReply(f.env) /\ f.env.msg = m
        BY <3>1 DEF RepliedTo
      <3> QED
        BY <3>1, <3>2 DEF InboxInv, TasksAreSound, RepliesAreHandled
    <2> QED
      BY <2>1, <2>2 DEF InboxInv, InboxTakesEachOnce
  <1> QED
    BY <1>1, InboxCorrect, PTL

-------------------------------------------------------------------------------
(* The SSH session: the inductive invariant *)

SshAgents == {Caller, Wanted, Sibling, Root}
Logs == [len : Nat, generation : Nat, revoked : SUBSET SshAgents]
Hellos == [kind : {"hello"}, role : Ends, cert : SshAgents, generation : Nat,
           expected : {Wanted, NoAgent}]
Proofs == [kind : {"proof"}, role : Ends, id : Hellos \X Hellos]
Records == [kind : {"record"}, from : Ends, counter : Nat, msg : Nat]
Frames == {NoFrame} \union Hellos \union Proofs \union Records

\* What an end may have put on the carrier: a Hello that tells who it is and the
\* generation it runs at, and records numbered as the envelopes it began to send.
Said(e) ==
    {f \in Frames :
        /\ f.kind = "hello" => /\ phase[e] # "start"
                               /\ f.role = e /\ f.cert = who[e]
                               /\ f.generation = state[e].generation
        /\ f.kind = "record" => /\ f.from = e /\ f.msg = f.counter
                                /\ f.msg \in 1..Len(tried[e])}

PiecesOf(F) == [frame : F, k : 1..Size]

\* The envelopes of an end, numbered in order.
Numbering(s) == s \in Seq(Nat) /\ \A i \in 1..Len(s) : s[i] = i

SshTyped ==
    /\ who \in [Ends -> SshAgents] /\ who["initiator"] = Caller
    /\ log \in [Ends -> Logs]
    /\ phase \in [Ends -> {"start", "hello", "proof", "open", "ended"}]
    /\ state \in [Ends -> Logs]
    /\ peer \in [Ends -> {NoFrame} \union Hellos]
    /\ DOMAIN out = Ends /\ DOMAIN pipe = Ends /\ DOMAIN inb = Ends
    /\ reading \in [Ends -> BOOLEAN]
    /\ sendCounter \in [Ends -> Nat] /\ recvCounter \in [Ends -> Nat]
    /\ sendPoisoned \in [Ends -> BOOLEAN] /\ recvPoisoned \in [Ends -> BOOLEAN]
    /\ live \in [Ends -> Nat]
    /\ tried \in [Ends -> Seq(Nat)] /\ got \in [Ends -> Seq(Nat)]

\* Everything between the two ends was said by the one it comes from.
OnTheWay(e) ==
    /\ out[e] \in [frame : Said(e), left : 0..Size]
    /\ pipe[e] \in Seq(PiecesOf(Said(e)))
    /\ inb[e] \in Seq(PiecesOf(Said(Opposite(e))))

\* An end past the first flight knows the other, which was past its start and at
\* the same generation.
Met(e) ==
    phase[e] \in {"proof", "open"} =>
        /\ phase[Opposite(e)] # "start"
        /\ peer[e] \in Hellos /\ peer[e].cert = who[Opposite(e)]
        /\ state[e].generation = state[Opposite(e)].generation
        /\ e = "initiator" => who["responder"] = Wanted

\* A half that is not poisoned has sent what was tried, but for the record that it
\* is at.
Sending(e) ==
    /\ Numbering(tried[e])
    /\ phase[e] = "hello" => out[e].frame \in Hellos
    /\ phase[e] # "open" => out[e].frame.kind # "record"
    /\ ~sendPoisoned[e] /\ phase[e] # "ended" =>
          Len(tried[e]) = sendCounter[e] + (IF out[e].frame.kind = "record" THEN 1 ELSE 0)

\* A half that is not poisoned has handed on what it counted.
Receiving(e) ==
    /\ Numbering(got[e])
    /\ Len(got[e]) <= Len(tried[Opposite(e)])
    /\ reading[e] => phase[e] = "open" /\ ~recvPoisoned[e]
    /\ ~recvPoisoned[e] => recvCounter[e] = Len(got[e])

\* The peer stood in the log when it had the length that was last passed.
Passed(e) ==
    live[e] # 0 =>
        /\ phase[e] \in {"open", "ended"}
        /\ live[e] <= log[e].len
        /\ live[e] = log[e].len => VerifyWith(peer[e].cert, log[e])

SshInv ==
    /\ SshTyped
    /\ \A e \in Ends : OnTheWay(e) /\ Met(e) /\ Sending(e) /\ Receiving(e) /\ Passed(e)

-------------------------------------------------------------------------------
(* Frames, pieces and numberings *)

LEMMA OppositeEnd ==
    \A e \in Ends : /\ Opposite(e) \in Ends /\ Opposite(e) # e
                    /\ Opposite(Opposite(e)) = e
                    /\ \A d \in Ends : d = e \/ d = Opposite(e)
  BY DEF Ends, Opposite

LEMMA FrameKinds ==
    /\ NoFrame \in Frames /\ NoFrame.kind = "none"
    /\ \A f \in Hellos : f \in Frames /\ f.kind = "hello"
    /\ \A f \in Proofs : f \in Frames /\ f.kind = "proof"
    /\ \A f \in Records : f \in Frames /\ f.kind = "record"
    /\ \A f \in Frames : f.kind = "hello" => f \in Hellos
    /\ \A f \in Frames : f.kind = "record" => f \in Records
<1>1. \A f \in Hellos : f.kind = "hello"
  BY DEF Hellos
<1>2. \A f \in Proofs : f.kind = "proof"
  BY DEF Proofs
<1>3. \A f \in Records : f.kind = "record"
  BY DEF Records
<1>4. NoFrame.kind = "none"
  BY DEF NoFrame
<1> QED
  BY <1>1, <1>2, <1>3, <1>4 DEF Frames

LEMMA PiecesGrow ==
    ASSUME NEW F, NEW G, F \subseteq G, NEW s \in Seq(PiecesOf(F))
    PROVE  s \in Seq(PiecesOf(G))
<1>1. PiecesOf(F) \subseteq PiecesOf(G)
  BY DEF PiecesOf
<1>2. ASSUME NEW S, NEW T, S \subseteq T, NEW t \in Seq(S)
      PROVE  t \in Seq(T)
  BY <1>2
<1> QED
  BY <1>1, <1>2, Zenon

LEMMA SequenceEnds ==
    ASSUME NEW S, NEW s \in Seq(S)
    PROVE  /\ <<>> \in Seq(S)
           /\ \A x \in S : Append(s, x) \in Seq(S)
           /\ s # <<>> => Head(s) \in S /\ Tail(s) \in Seq(S)
           /\ Len(s) \in Nat
           /\ \A i \in 1..Len(s) : s[i] \in S
  OBVIOUS

LEMMA NumberingGrows ==
    ASSUME NEW s, Numbering(s)
    PROVE  /\ Len(s) \in Nat
           /\ Len(Append(s, Len(s) + 1)) = Len(s) + 1
           /\ Numbering(Append(s, Len(s) + 1))
<1>1. s \in Seq(Nat) /\ Len(s) \in Nat
  BY DEF Numbering
<1>2. Append(s, Len(s) + 1) \in Seq(Nat) /\ Len(Append(s, Len(s) + 1)) = Len(s) + 1
  BY <1>1
<1>3. ASSUME NEW i \in 1..(Len(s) + 1)
      PROVE  Append(s, Len(s) + 1)[i] = i
  BY <1>1, <1>3 DEF Numbering
<1> QED
  BY <1>1, <1>2, <1>3 DEF Numbering

LEMMA NumberingPrefix ==
    ASSUME NEW s, NEW t, Numbering(s), Numbering(t), Len(s) <= Len(t)
    PROVE  IsPrefix(s, t)
<1>1. s \in Seq(Nat) /\ t \in Seq(Nat) /\ Len(s) \in Nat /\ Len(t) \in Nat
  BY DEF Numbering
<1>2. \A i \in 1..Len(s) : s[i] = t[i]
  BY <1>1 DEF Numbering
<1>3. SubSeq(s, 1, Len(s)) = [i \in 1..Len(s) |-> s[i]]
  BY <1>1
<1>4. SubSeq(t, 1, Len(s)) = [i \in 1..Len(s) |-> t[i]]
  BY <1>1
<1> QED
  BY <1>1, <1>2, <1>3, <1>4 DEF IsPrefix

\* What the pieces read make up was said by the other end, or is no frame.
LEMMA AssembledWasSaid ==
    ASSUME NEW F, NoFrame \in F, NEW ps \in Seq(PiecesOf(F)), Len(ps) = Size
    PROVE  Assembled(ps) \in F
<1>1. 1 \in 1..Len(ps)
  BY SshAssumption
<1>2. ps[1] \in PiecesOf(F)
  BY <1>1, SequenceEnds, Zenon
<1>3. ps[1].frame \in F
  BY <1>2 DEF PiecesOf
<1> QED
  BY <1>3, Zenon DEF Assembled

\* What was said stays said: an end's identity never changes, nor its generation
\* once it has begun.
LEMMA SaidStays ==
    ASSUME SshTyped, NEW e \in Ends, UNCHANGED who,
           phase[e] # "start" => phase'[e] # "start" /\ state'[e] = state[e],
           Len(tried[e]) \in Nat, Len(tried'[e]) \in Nat, Len(tried[e]) <= Len(tried'[e])
    PROVE  Said(e) \subseteq Said(e)'
  BY DEF Said

LEMMA NothingIsSaid ==
    \A e \in Ends : NoFrame \in Said(e) /\ (\A f \in Proofs : f \in Said(e))
  BY FrameKinds DEF Said

\* The pieces under way, when what was said stays said.
LEMMA OnTheWayStays ==
    ASSUME SshInv, NEW e \in Ends,
           \A d \in Ends : Said(d) \subseteq Said(d)'
    PROVE  /\ out'[e] = out[e] => out'[e] \in [frame : Said(e)', left : 0..Size]
           /\ pipe'[e] = pipe[e] => pipe'[e] \in Seq(PiecesOf(Said(e)'))
           /\ inb'[e] = inb[e] => inb'[e] \in Seq(PiecesOf(Said(Opposite(e))'))
<1>1. Said(e) \subseteq Said(e)' /\ Said(Opposite(e)) \subseteq Said(Opposite(e))'
  BY OppositeEnd
<1>2. OnTheWay(e)
  BY DEF SshInv
<1>3. out[e] \in [frame : Said(e)', left : 0..Size]
  BY <1>1, <1>2 DEF OnTheWay
<1>4. pipe[e] \in Seq(PiecesOf(Said(e)'))
  BY <1>1, <1>2, PiecesGrow, Zenon DEF OnTheWay
<1>5. inb[e] \in Seq(PiecesOf(Said(Opposite(e))'))
  BY <1>1, <1>2, PiecesGrow, Zenon DEF OnTheWay
<1> QED
  BY <1>3, <1>4, <1>5

\* An idle end says nothing, and nothing read is nothing heard.
LEMMA IdleSays ==
    \A e \in Ends : /\ Idle \in [frame : Said(e), left : 0..Size]
                    /\ <<>> \in Seq(PiecesOf(Said(e)))
<1>1. 0 \in 0..Size
  BY SshAssumption
<1> QED
  BY <1>1, NothingIsSaid, SequenceEnds DEF Idle

-------------------------------------------------------------------------------
(* Each step of the session keeps the invariant *)

LEMMA InitSsh == SshInit => SshInv
<1> SUFFICES ASSUME SshInit PROVE SshInv
  OBVIOUS
<1>1. SshTyped
  BY DEF SshInit, SshTyped, SshAgents, Logs, Ends
<1>2. ASSUME NEW e \in Ends
      PROVE  OnTheWay(e) /\ Met(e) /\ Sending(e) /\ Receiving(e) /\ Passed(e)
  <2>1. OnTheWay(e)
    BY IdleSays, OppositeEnd DEF SshInit, OnTheWay
  <2>2. Numbering(<<>>) /\ Len(<<>>) = 0
    BY DEF Numbering
  <2>3. Sending(e)
    BY <2>2, FrameKinds DEF SshInit, Sending, Idle
  <2>4. Receiving(e)
    BY <2>2, OppositeEnd DEF SshInit, Receiving
  <2>5. Met(e) /\ Passed(e)
    BY DEF SshInit, Met, Passed
  <2> QED
    BY <2>1, <2>3, <2>4, <2>5
<1> QED
  BY <1>1, <1>2 DEF SshInv

\* An end that lets go.
LEMMA EndedKeeps ==
    ASSUME SshInv, NEW d \in Ends, Ended(d)
    PROVE  SshInv'
<1>1. SshTyped'
  BY DEF SshInv, SshTyped, Ended, LetGo, trust, tally
<1>2. \A e \in Ends : Said(e) \subseteq Said(e)'
  <2> SUFFICES ASSUME NEW e \in Ends PROVE Said(e) \subseteq Said(e)'
    OBVIOUS
  <2>1. Len(tried[e]) \in Nat
    BY DEF SshInv, SshTyped
  <2> QED
    BY <2>1, SaidStays DEF SshInv, SshTyped, Ended, LetGo, trust, tally
<1>3. ASSUME NEW e \in Ends
      PROVE  (OnTheWay(e) /\ Met(e) /\ Sending(e) /\ Receiving(e) /\ Passed(e))'
  <2> USE <1>3
  <2>1. /\ out'[e] = out[e] \/ out'[e] = Idle
        /\ pipe'[e] = pipe[e]
        /\ inb'[e] = inb[e] \/ inb'[e] = <<>>
    BY DEF SshInv, SshTyped, Ended, LetGo
  <2>2. Idle \in [frame : Said(e)', left : 0..Size] /\ <<>> \in Seq(PiecesOf(Said(Opposite(e))'))
    BY IdleSays, OppositeEnd, <1>2, NothingIsSaid, SshAssumption DEF Idle
  <2>3. OnTheWay(e)'
    BY <2>1, <2>2, <1>2, OnTheWayStays DEF OnTheWay
  <2>4. Met(e)'
    BY OppositeEnd DEF SshInv, SshTyped, Met, Ended, LetGo, trust
  <2>5. Sending(e)'
    BY FrameKinds DEF SshInv, SshTyped, Sending, Ended, LetGo, Idle, tally
  <2>6. Receiving(e)'
    BY OppositeEnd DEF SshInv, SshTyped, Receiving, Ended, LetGo, tally
  <2>7. Passed(e)'
    BY DEF SshInv, SshTyped, Passed, Ended, LetGo, trust, VerifyWith
  <2> QED
    BY <2>3, <2>4, <2>5, <2>6, <2>7
<1> QED
  BY <1>1, <1>3 DEF SshInv

\* The carrier.
LEMMA WriteKeeps ==
    ASSUME SshInv, NEW d \in Ends, Write(d)
    PROVE  SshInv'
<1> USE DEF trust, shake, halves, tally
<1>1. SshTyped'
  BY DEF SshInv, SshTyped, Write
<1>2. \A e \in Ends : Said(e)' = Said(e)
  BY DEF Said, Write
<1>3. ASSUME NEW e \in Ends
      PROVE  OnTheWay(e)'
  <2>1. CASE e # d
    BY <2>1, <1>2, <1>3, OnTheWayStays DEF OnTheWay, Write, SshInv, SshTyped
  <2>2. CASE e = d
    <3>1. out[e] \in [frame : Said(e), left : 0..Size] /\ out[e].left > 0
      BY <2>2 DEF SshInv, OnTheWay, Write
    <3>2. PICK n \in 1..Size : n = Size - out[e].left + 1
      BY <3>1, SshAssumption
    <3>3. Piece(out[e].frame, n) \in PiecesOf(Said(e))
      BY <3>1 DEF Piece, PiecesOf
    <3>4. pipe[e] \in Seq(PiecesOf(Said(e)))
      BY DEF SshInv, OnTheWay
    <3>5. pipe'[e] = Append(pipe[e], Piece(out[e].frame, n))
      BY <2>2, <3>2 DEF Write, SshInv, SshTyped
    <3>6. pipe'[e] \in Seq(PiecesOf(Said(e)'))
      BY <3>3, <3>4, <3>5, <1>2, SequenceEnds
    <3>7. out'[e] = [out[e] EXCEPT !.left = out[e].left - 1]
      BY <2>2 DEF Write, SshInv, SshTyped
    <3>8. out'[e] \in [frame : Said(e)', left : 0..Size]
      BY <3>1, <3>7, <1>2, SshAssumption
    <3> QED
      BY <3>6, <3>8, <1>2, OnTheWayStays DEF OnTheWay, Write
  <2> QED
    BY <2>1, <2>2
<1>4. ASSUME NEW e \in Ends
      PROVE  (Met(e) /\ Sending(e) /\ Receiving(e) /\ Passed(e))'
  <2>1. out'[e].frame = out[e].frame
    <3>1. out[e] \in [frame : Said(e), left : 0..Size]
      BY <1>4 DEF SshInv, OnTheWay
    <3> QED
      BY <3>1, <1>4 DEF Write, SshInv, SshTyped
  <2>2. Met(e)' /\ Receiving(e)' /\ Passed(e)'
    BY <1>4 DEF SshInv, Write, Met, Receiving, Passed, VerifyWith
  <2>3. Sending(e)'
    BY <1>4, <2>1 DEF SshInv, Write, Sending
  <2> QED
    BY <2>2, <2>3
<1> QED
  BY <1>1, <1>3, <1>4 DEF SshInv

LEMMA ReadKeeps ==
    ASSUME SshInv, NEW d \in Ends, Read(d)
    PROVE  SshInv'
<1> USE DEF trust, shake, halves, tally
<1>1. SshTyped'
  BY DEF SshInv, SshTyped, Read
<1>2. \A e \in Ends : Said(e)' = Said(e)
  BY DEF Said, Read
<1>3. ASSUME NEW e \in Ends
      PROVE  OnTheWay(e)'
  <2>1. PICK o \in Ends : o = Opposite(d)
    BY OppositeEnd
  <2>2. pipe[o] \in Seq(PiecesOf(Said(o))) /\ pipe[o] # <<>>
    BY <2>1 DEF SshInv, OnTheWay, Read
  <2>3. Head(pipe[o]) \in PiecesOf(Said(o)) /\ Tail(pipe[o]) \in Seq(PiecesOf(Said(o)))
    BY <2>2, SequenceEnds
  <2>4. inb[d] \in Seq(PiecesOf(Said(o)))
    BY <2>1 DEF SshInv, OnTheWay
  <2>5. Append(inb[d], Head(pipe[o])) \in Seq(PiecesOf(Said(o)))
    BY <2>3, <2>4, SequenceEnds
  <2>6. /\ pipe'[e] = IF e = o THEN Tail(pipe[o]) ELSE pipe[e]
        /\ inb'[e] = IF e = d THEN Append(inb[d], Head(pipe[o])) ELSE inb[e]
        /\ out'[e] = out[e]
    BY <1>3, <2>1 DEF Read, SshInv, SshTyped
  <2> QED
    BY <1>2, <1>3, <2>1, <2>3, <2>5, <2>6, OnTheWayStays DEF OnTheWay
<1>4. ASSUME NEW e \in Ends
      PROVE  (Met(e) /\ Sending(e) /\ Receiving(e) /\ Passed(e))'
  BY <1>4 DEF SshInv, Read, Met, Receiving, Passed, VerifyWith, Sending
<1> QED
  BY <1>1, <1>3, <1>4 DEF SshInv

\* The handshake.
LEMMA StartKeeps ==
    ASSUME SshInv, NEW d \in Ends, Start(d)
    PROVE  SshInv'
<1> USE DEF trust, shake, halves, tally
<1>1. CASE ~VerifyWith(who[d], log[d])
  BY <1>1, EndedKeeps DEF Start
<1>2. CASE VerifyWith(who[d], log[d])
  <2>1. /\ phase[d] = "start"
        /\ state' = [state EXCEPT ![d] = log[d]]
        /\ phase' = [phase EXCEPT ![d] = "hello"]
        /\ out' = [out EXCEPT ![d] = [frame |-> Hello(d), left |-> Size]]
        /\ UNCHANGED <<who, log, peer, pipe, inb, sendCounter, recvCounter, sendPoisoned,
                       recvPoisoned, live, reading, tried, got>>
    BY <1>2 DEF Start
  <2>2. SshTyped'
    BY <2>1 DEF SshInv, SshTyped
  <2>3. \A e \in Ends : Said(e) \subseteq Said(e)'
    <3> SUFFICES ASSUME NEW e \in Ends PROVE Said(e) \subseteq Said(e)'
      OBVIOUS
    <3>1. Len(tried[e]) \in Nat
      BY DEF SshInv, SshTyped
    <3>2. phase[e] # "start" => phase'[e] # "start" /\ state'[e] = state[e]
      BY <2>1 DEF SshInv, SshTyped
    <3> QED
      BY <2>1, <3>1, <3>2, SaidStays DEF SshInv
  <2>4. PICK h : h = Hello(d)
    OBVIOUS
  <2>5. h \in Hellos /\ h.role = d /\ h.cert = who[d] /\ h.generation = state'[d].generation
    <3>1. state'[d] \in Logs /\ who[d] \in SshAgents
      BY <2>2, <2>1 DEF SshTyped
    <3>2. state'[d].generation \in Nat
      BY <3>1 DEF Logs
    <3> QED
      BY <3>1, <3>2, <2>4 DEF Hello, Hellos
  <2>6. h \in Said(d)' /\ h.kind = "hello"
    BY <2>1, <2>5, FrameKinds DEF Said, SshInv, SshTyped
  <2>7. out'[d] = [frame |-> h, left |-> Size] /\ Size \in 0..Size
    BY <2>1, <2>4, SshAssumption DEF SshInv, SshTyped
  <2>8. ASSUME NEW e \in Ends
        PROVE  (OnTheWay(e) /\ Met(e) /\ Sending(e) /\ Receiving(e) /\ Passed(e))'
    <3> USE <2>8
    <3>1. e # d => out'[e] = out[e]
      BY <2>1 DEF SshInv, SshTyped
    <3>2. out'[e] \in [frame : Said(e)', left : 0..Size]
      BY <2>3, <2>6, <2>7, <3>1, OnTheWayStays
    <3>3. OnTheWay(e)'
      BY <2>1, <2>3, <3>2, OnTheWayStays DEF OnTheWay
    <3>4. Met(e)'
      BY <2>1, OppositeEnd DEF SshInv, SshTyped, Met
    <3>5. Sending(e)'
      <4>1. CASE e = d
        BY <4>1, <2>1, <2>5, <2>6, <2>7 DEF SshInv, SshTyped, Sending
      <4>2. CASE e # d
        BY <4>2, <3>1, <2>1 DEF SshInv, SshTyped, Sending
      <4> QED
        BY <4>1, <4>2
    <3>6. Receiving(e)'
      BY <2>1, OppositeEnd DEF SshInv, SshTyped, Receiving
    <3>7. Passed(e)'
      BY <2>1 DEF SshInv, SshTyped, Passed, VerifyWith
    <3> QED
      BY <3>3, <3>4, <3>5, <3>6, <3>7
  <2> QED
    BY <2>2, <2>8 DEF SshInv
<1> QED
  BY <1>1, <1>2

LEMMA HelloReadKeeps ==
    ASSUME SshInv, NEW d \in Ends, HelloRead(d)
    PROVE  SshInv'
<1> USE DEF trust, shake, halves, tally
<1>1. PICK h : h = Assembled(inb[d])
  OBVIOUS
<1>2. CASE ~ValidatePeerHello(d, h)
  BY <1>1, <1>2, EndedKeeps DEF HelloRead
<1>3. CASE ValidatePeerHello(d, h)
  <2>1. PICK p : p = Proof(d, TranscriptId(d, out[d].frame, h))
    OBVIOUS
  <2>2. /\ phase[d] = "hello" /\ Len(inb[d]) = Size
        /\ peer' = [peer EXCEPT ![d] = h]
        /\ phase' = [phase EXCEPT ![d] = "proof"]
        /\ out' = [out EXCEPT ![d] = [frame |-> p, left |-> Size]]
        /\ inb' = [inb EXCEPT ![d] = <<>>]
        /\ UNCHANGED <<who, log, state, pipe, sendCounter, recvCounter, sendPoisoned,
                       recvPoisoned, live, reading, tried, got>>
    BY <1>1, <1>3, <2>1 DEF HelloRead, FlightDone
  <2>3. PICK o \in Ends : o = Opposite(d)
    BY OppositeEnd
  <2>4. h \in Said(o)
    BY <1>1, <2>2, <2>3, NothingIsSaid, AssembledWasSaid DEF SshInv, OnTheWay
  <2>5. h.kind = "hello" /\ h.generation = state[d].generation
        /\ (d = "initiator" => h.cert = Wanted)
    BY <1>3 DEF ValidatePeerHello
  <2>6. /\ phase[o] # "start" /\ h.cert = who[o] /\ h.generation = state[o].generation
        /\ h \in Hellos
    BY <2>4, <2>5, FrameKinds DEF Said
  <2>7. p \in Proofs
    <3>1. out[d].frame \in Hellos
      BY <2>2 DEF SshInv, Sending
    <3> QED
      BY <2>1, <2>6, <3>1 DEF Proof, TranscriptId, Proofs
  <2>8. SshTyped'
    BY <2>2, <2>6 DEF SshInv, SshTyped
  <2>9. \A e \in Ends : Said(e) \subseteq Said(e)'
    <3> SUFFICES ASSUME NEW e \in Ends PROVE Said(e) \subseteq Said(e)'
      OBVIOUS
    <3>1. Len(tried[e]) \in Nat
      BY DEF SshInv, SshTyped
    <3>2. phase[e] # "start" => phase'[e] # "start" /\ state'[e] = state[e]
      BY <2>2 DEF SshInv, SshTyped
    <3> QED
      BY <2>2, <3>1, <3>2, SaidStays DEF SshInv
  <2>10. ASSUME NEW e \in Ends
         PROVE  (OnTheWay(e) /\ Met(e) /\ Sending(e) /\ Receiving(e) /\ Passed(e))'
    <3> USE <2>10
    <3>1. /\ out'[e] = IF e = d THEN [frame |-> p, left |-> Size] ELSE out[e]
          /\ inb'[e] = IF e = d THEN <<>> ELSE inb[e]
      BY <2>2 DEF SshInv, SshTyped
    <3>2. p \in Said(d)' /\ Size \in 0..Size
      BY <2>7, <2>9, NothingIsSaid, SshAssumption
    <3>3. out'[e] \in [frame : Said(e)', left : 0..Size]
      BY <2>9, <3>1, <3>2, OnTheWayStays
    <3>4. inb'[e] \in Seq(PiecesOf(Said(Opposite(e))'))
      BY <2>9, <3>1, SequenceEnds, OnTheWayStays
    <3>5. OnTheWay(e)'
      BY <2>2, <2>9, <3>3, <3>4, OnTheWayStays DEF OnTheWay
    <3>6. Met(e)'
      <4>1. CASE e = d
        BY <4>1, <2>2, <2>3, <2>5, <2>6, OppositeEnd DEF SshInv, SshTyped, Met, Opposite
      <4>2. CASE e # d
        BY <4>2, <2>2, OppositeEnd DEF SshInv, SshTyped, Met
      <4> QED
        BY <4>1, <4>2
    <3>7. Sending(e)'
      <4>1. CASE e = d
        BY <4>1, <2>2, <2>7, <3>1, FrameKinds DEF SshInv, SshTyped, Sending
      <4>2. CASE e # d
        BY <4>2, <3>1, <2>2 DEF SshInv, SshTyped, Sending
      <4> QED
        BY <4>1, <4>2
    <3>8. Receiving(e)'
      BY <2>2, OppositeEnd DEF SshInv, SshTyped, Receiving
    <3>9. Passed(e)'
      BY <2>2 DEF SshInv, SshTyped, Passed, VerifyWith
    <3> QED
      BY <3>5, <3>6, <3>7, <3>8, <3>9
  <2> QED
    BY <2>8, <2>10 DEF SshInv
<1> QED
  BY <1>2, <1>3

LEMMA ProofReadKeeps ==
    ASSUME SshInv, NEW d \in Ends, ProofRead(d)
    PROVE  SshInv'
<1> USE DEF trust, shake, halves, tally
<1>1. CASE Ended(d)
  BY <1>1, EndedKeeps
<1>2. CASE ~Ended(d)
  <2>1. /\ phase[d] = "proof"
        /\ VerifyWith(peer[d].cert, log[d])
        /\ phase' = [phase EXCEPT ![d] = "open"]
        /\ live' = [live EXCEPT ![d] = log[d].len]
        /\ out' = [out EXCEPT ![d] = Idle]
        /\ inb' = [inb EXCEPT ![d] = <<>>]
        /\ UNCHANGED <<who, log, state, peer, pipe, sendCounter, recvCounter, sendPoisoned,
                       recvPoisoned, reading, tried, got>>
    BY <1>2 DEF ProofRead, FlightDone
  <2>2. SshTyped'
    <3>1. log[d].len \in Nat
      BY DEF SshInv, SshTyped, Logs
    <3> QED
      BY <2>1, <3>1 DEF SshInv, SshTyped
  <2>3. \A e \in Ends : Said(e) \subseteq Said(e)'
    <3> SUFFICES ASSUME NEW e \in Ends PROVE Said(e) \subseteq Said(e)'
      OBVIOUS
    <3>1. Len(tried[e]) \in Nat
      BY DEF SshInv, SshTyped
    <3>2. phase[e] # "start" => phase'[e] # "start" /\ state'[e] = state[e]
      BY <2>1 DEF SshInv, SshTyped
    <3> QED
      BY <2>1, <3>1, <3>2, SaidStays DEF SshInv
  <2>4. ASSUME NEW e \in Ends
        PROVE  (OnTheWay(e) /\ Met(e) /\ Sending(e) /\ Receiving(e) /\ Passed(e))'
    <3> USE <2>4
    <3>1. /\ out'[e] = out[e] \/ out'[e] = Idle
          /\ inb'[e] = inb[e] \/ inb'[e] = <<>>
      BY <2>1 DEF SshInv, SshTyped
    <3>2. Idle \in [frame : Said(e)', left : 0..Size] /\ <<>> \in Seq(PiecesOf(Said(Opposite(e))'))
      BY IdleSays, OppositeEnd, <2>3, NothingIsSaid, SshAssumption DEF Idle
    <3>3. OnTheWay(e)'
      BY <2>1, <2>3, <3>1, <3>2, OnTheWayStays DEF OnTheWay
    <3>4. Met(e)'
      BY <2>1, OppositeEnd DEF SshInv, SshTyped, Met
    <3>5. Sending(e)'
      <4>1. CASE e = d
        BY <4>1, <2>1, FrameKinds DEF SshInv, SshTyped, Sending, Idle
      <4>2. CASE e # d
        BY <4>2, <2>1 DEF SshInv, SshTyped, Sending
      <4> QED
        BY <4>1, <4>2
    <3>6. Receiving(e)'
      BY <2>1, OppositeEnd DEF SshInv, SshTyped, Receiving
    <3>7. Passed(e)'
      <4>1. CASE e = d
        <5>1. log[d].len \in Nat
          BY DEF SshInv, SshTyped, Logs
        <5> QED
          BY <4>1, <5>1, <2>1 DEF SshInv, SshTyped, Passed, VerifyWith
      <4>2. CASE e # d
        BY <4>2, <2>1 DEF SshInv, SshTyped, Passed, VerifyWith
      <4> QED
        BY <4>1, <4>2
    <3> QED
      BY <3>3, <3>4, <3>5, <3>6, <3>7
  <2> QED
    BY <2>2, <2>4 DEF SshInv
<1> QED
  BY <1>1, <1>2

\* A peer that is admitted stands in the log as it is.
LEMMA AdmittedStands ==
    ASSUME SshInv, NEW e \in Ends, LiveAdmits(e)
    PROVE  live[e] # 0 /\ VerifyWith(peer[e].cert, log[e])
  BY DEF SshInv, Passed, LiveAdmits

\* The parts of the invariant that a change of live alone can disturb.
LEMMA LiveMoves ==
    ASSUME SshInv, NEW d \in Ends, UNCHANGED <<log, phase, peer>>,
           \/ Admitted(d) /\ LiveAdmits(d)
           \/ Refused(d)
           \/ UNCHANGED live
    PROVE  /\ live' \in [Ends -> Nat]
           /\ \A e \in Ends : Passed(e)'
<1>1. \A e \in Ends : log[e].len \in Nat
  BY DEF SshInv, SshTyped, Logs
<1>2. live \in [Ends -> Nat] /\ \A e \in Ends : Passed(e)
  BY DEF SshInv, SshTyped
<1>3. CASE Admitted(d) /\ LiveAdmits(d)
  <2>1. live[d] # 0 /\ VerifyWith(peer[d].cert, log[d])
    BY <1>3, AdmittedStands
  <2>2. live' = [live EXCEPT ![d] = log[d].len]
    BY <1>3 DEF Admitted
  <2> QED
    BY <1>1, <1>2, <2>1, <2>2 DEF Passed, VerifyWith
<1>4. CASE Refused(d)
  BY <1>2, <1>4 DEF Refused, Passed, VerifyWith
<1>5. CASE UNCHANGED live
  BY <1>2, <1>5 DEF Passed, VerifyWith
<1> QED
  BY <1>3, <1>4, <1>5

\* Records.
LEMMA SendEnvelopeKeeps ==
    ASSUME SshInv, NEW d \in Ends, SendEnvelope(d)
    PROVE  SshInv'
<1> USE DEF trust, shake, halves, tally
<1>1. /\ phase[d] = "open" /\ out[d] = Idle /\ ~sendPoisoned[d]
      /\ UNCHANGED <<who, log, phase, state, peer, pipe, inb, sendCounter, recvCounter,
                     recvPoisoned, reading, got>>
  BY DEF SendEnvelope
<1>2. live' \in [Ends -> Nat] /\ \A e \in Ends : Passed(e)'
  BY <1>1, LiveMoves DEF SendEnvelope
<1>3. CASE ~LiveAdmits(d)
  <2>1. /\ sendPoisoned' = [sendPoisoned EXCEPT ![d] = TRUE]
        /\ UNCHANGED <<out, tried>>
    BY <1>3 DEF SendEnvelope
  <2>2. SshTyped'
    BY <1>1, <1>2, <2>1 DEF SshInv, SshTyped
  <2>3. \A e \in Ends : Said(e)' = Said(e)
    BY <1>1, <2>1 DEF Said
  <2>4. ASSUME NEW e \in Ends
        PROVE  (OnTheWay(e) /\ Met(e) /\ Sending(e) /\ Receiving(e))'
    <3>1. OnTheWay(e)'
      BY <1>1, <2>1, <2>3, <2>4, OnTheWayStays DEF OnTheWay
    <3>2. Met(e)' /\ Receiving(e)'
      BY <1>1, <2>1, <2>4 DEF SshInv, Met, Receiving
    <3>3. Sending(e)'
      BY <1>1, <2>1, <2>4 DEF SshInv, SshTyped, Sending
    <3> QED
      BY <3>1, <3>2, <3>3
  <2> QED
    BY <2>2, <2>4, <1>2 DEF SshInv
<1>4. CASE LiveAdmits(d)
  <2>1. PICK m : m = Len(tried[d]) + 1
    OBVIOUS
  <2>2. PICK r : r = Record(d, sendCounter[d] + 1, m)
    OBVIOUS
  <2>3. /\ out' = [out EXCEPT ![d] = [frame |-> r, left |-> Size]]
        /\ tried' = [tried EXCEPT ![d] = Append(@, m)]
        /\ UNCHANGED sendPoisoned
    BY <1>4, <2>1, <2>2 DEF SendEnvelope
  <2>4. Numbering(tried[d]) /\ Len(tried[d]) = sendCounter[d] /\ Len(tried[d]) \in Nat
    <3>1. out[d].frame.kind # "record"
      BY <1>1, FrameKinds DEF Idle
    <3>2. Numbering(tried[d]) /\ Len(tried[d]) = sendCounter[d] + 0
      BY <1>1, <3>1 DEF SshInv, Sending
    <3>3. sendCounter[d] \in Nat
      BY DEF SshInv, SshTyped
    <3> QED
      BY <3>2, <3>3
  <2>5. /\ tried'[d] = Append(tried[d], m) /\ Numbering(tried'[d])
        /\ Len(tried'[d]) = m /\ m \in Nat /\ Len(tried[d]) <= Len(tried'[d])
    <3>1. tried'[d] = Append(tried[d], Len(tried[d]) + 1)
      BY <2>1, <2>3 DEF SshInv, SshTyped
    <3>2. Numbering(tried'[d]) /\ Len(tried'[d]) = Len(tried[d]) + 1
      BY <2>4, <3>1, NumberingGrows
    <3> QED
      BY <2>1, <2>4, <3>1, <3>2
  <2>6. \A e \in Ends : e # d => tried'[e] = tried[e]
    BY <2>3 DEF SshInv, SshTyped
  <2>7. SshTyped'
    <3>1. tried' \in [Ends -> Seq(Nat)]
      BY <2>3, <2>5, <2>6 DEF SshInv, SshTyped, Numbering
    <3> QED
      BY <1>1, <1>2, <2>3, <3>1 DEF SshInv, SshTyped
  <2>8. \A e \in Ends : Said(e) \subseteq Said(e)'
    <3> SUFFICES ASSUME NEW e \in Ends PROVE Said(e) \subseteq Said(e)'
      OBVIOUS
    <3>1. Len(tried[e]) \in Nat /\ Len(tried'[e]) \in Nat /\ Len(tried[e]) <= Len(tried'[e])
      <4>1. Len(tried[e]) \in Nat
        BY DEF SshInv, SshTyped
      <4>2. CASE e = d
        BY <4>1, <4>2, <2>5
      <4>3. CASE e # d
        BY <4>1, <4>3, <2>6
      <4> QED
        BY <4>2, <4>3
    <3> QED
      BY <1>1, <3>1, SaidStays DEF SshInv
  <2>9. r \in Records /\ r.kind = "record" /\ r.from = d /\ r.msg = m /\ r.counter = m
    BY <2>1, <2>2, <2>4, <2>5 DEF Record, Records
  <2>10. r \in Said(d)'
    <3>1. m \in 1..Len(tried'[d])
      BY <2>1, <2>4, <2>5
    <3> QED
      BY <2>9, <3>1, FrameKinds DEF Said
  <2>11. ASSUME NEW e \in Ends
         PROVE  (OnTheWay(e) /\ Met(e) /\ Sending(e) /\ Receiving(e))'
    <3> USE <2>11
    <3>1. out'[e] = IF e = d THEN [frame |-> r, left |-> Size] ELSE out[e]
      BY <2>3 DEF SshInv, SshTyped
    <3>2. out'[e] \in [frame : Said(e)', left : 0..Size]
      BY <2>8, <2>10, <3>1, SshAssumption, OnTheWayStays
    <3>3. OnTheWay(e)'
      BY <1>1, <2>8, <3>2, OnTheWayStays DEF OnTheWay
    <3>4. Met(e)'
      BY <1>1 DEF SshInv, Met
    <3>5. Sending(e)'
      <4>1. CASE e = d
        <5>1. out'[e].frame.kind = "record" /\ phase'[e] = "open"
          BY <4>1, <3>1, <2>9, <1>1
        <5>2. Len(tried'[e]) = sendCounter'[e] + 1
          BY <4>1, <2>1, <2>4, <2>5, <1>1
        <5> QED
          BY <4>1, <5>1, <5>2, <2>5 DEF Sending
      <4>2. CASE e # d
        BY <4>2, <1>1, <2>3, <2>6, <3>1 DEF SshInv, Sending
      <4> QED
        BY <4>1, <4>2
    <3>6. Receiving(e)'
      <4>1. PICK o \in Ends : o = Opposite(e)
        BY OppositeEnd
      <4>2. Len(got[e]) \in Nat /\ Len(tried[o]) \in Nat /\ Len(got[e]) <= Len(tried[o])
        <5>1. Len(got[e]) \in Nat /\ Len(tried[o]) \in Nat
          BY SMTT(30) DEF SshInv, SshTyped
        <5>2. Len(got[e]) <= Len(tried[o])
          BY <4>1 DEF SshInv, Receiving
        <5> QED
          BY <5>1, <5>2
      <4>3. Len(got[e]) <= Len(tried'[o])
        BY <4>2, <2>4, <2>5, <2>6
      <4> QED
        BY <4>1, <4>3, <1>1 DEF SshInv, Receiving
    <3> QED
      BY <3>3, <3>4, <3>5, <3>6
  <2> QED
    BY <1>2, <2>7, <2>11 DEF SshInv
<1> QED
  BY <1>3, <1>4

\* A record is written, or given up.
LEMMA RecordLeaves ==
    ASSUME SshInv, NEW d \in Ends, RecordSent(d) \/ SendGivenUp(d)
    PROVE  SshInv'
<1> USE DEF trust, shake, halves, tally
<1>1. /\ phase[d] = "open" /\ out[d].frame.kind = "record"
      /\ out' = [out EXCEPT ![d] = Idle]
      /\ UNCHANGED <<who, log, phase, state, peer, pipe, inb, recvCounter,
                     recvPoisoned, live, reading, tried, got>>
  BY DEF RecordSent, SendGivenUp
<1>2. \/ sendPoisoned' = [sendPoisoned EXCEPT ![d] = TRUE] /\ UNCHANGED sendCounter
      \/ sendCounter' = [sendCounter EXCEPT ![d] = @ + 1] /\ UNCHANGED sendPoisoned
  BY DEF RecordSent, SendGivenUp
<1>3. SshTyped'
  <2>1. /\ sendCounter \in [Ends -> Nat] /\ sendCounter[d] + 1 \in Nat
        /\ sendPoisoned \in [Ends -> BOOLEAN]
    BY DEF SshInv, SshTyped
  <2>2. sendCounter' \in [Ends -> Nat]
    BY <1>2, <2>1
  <2>3. sendPoisoned' \in [Ends -> BOOLEAN]
    BY <1>2, <2>1
  <2>4. DOMAIN out' = Ends
    BY <1>1 DEF SshInv, SshTyped
  <2> QED
    BY <1>1, <2>2, <2>3, <2>4 DEF SshInv, SshTyped
<1>4. \A e \in Ends : Said(e)' = Said(e)
  BY <1>1 DEF Said
<1>5. ASSUME NEW e \in Ends
      PROVE  (OnTheWay(e) /\ Met(e) /\ Sending(e) /\ Receiving(e) /\ Passed(e))'
  <2> USE <1>5
  <2>1. out'[e] = IF e = d THEN Idle ELSE out[e]
    BY <1>1 DEF SshInv, SshTyped
  <2>2. OnTheWay(e)'
    BY <1>1, <1>4, <2>1, IdleSays, OnTheWayStays DEF OnTheWay
  <2>3. Met(e)' /\ Receiving(e)' /\ Passed(e)'
    BY <1>1 DEF SshInv, Met, Receiving, Passed, VerifyWith
  <2>4. Sending(e)'
    <3>1. CASE e = d
      <4>1. out'[e].frame.kind = "none" /\ phase'[e] = "open"
        BY <1>1, <2>1, <3>1, FrameKinds DEF Idle
      <4>2. ~sendPoisoned'[e] => Len(tried'[e]) = sendCounter'[e] + 0
        <5>1. ~sendPoisoned[e] => Len(tried[e]) = sendCounter[e] + 1
          BY <1>1, <3>1 DEF SshInv, Sending
        <5>2. sendCounter \in [Ends -> Nat] /\ sendPoisoned \in [Ends -> BOOLEAN]
          BY DEF SshInv, SshTyped
        <5> QED
          BY <1>1, <1>2, <3>1, <5>1, <5>2
      <4> QED
        BY <1>1, <4>1, <4>2 DEF SshInv, Sending
    <3>2. CASE e # d
      BY <3>2, <1>1, <1>2, <2>1 DEF SshInv, SshTyped, Sending
    <3> QED
      BY <3>1, <3>2
  <2> QED
    BY <2>2, <2>3, <2>4
<1> QED
  BY <1>3, <1>5 DEF SshInv

LEMMA RecvEnvelopeKeeps ==
    ASSUME SshInv, NEW d \in Ends, RecvEnvelope(d)
    PROVE  SshInv'
<1> USE DEF trust, shake, halves, tally
<1>1. SshTyped'
  BY DEF SshInv, SshTyped, RecvEnvelope
<1>2. \A e \in Ends : Said(e)' = Said(e)
  BY DEF Said, RecvEnvelope
<1>3. ASSUME NEW e \in Ends
      PROVE  (OnTheWay(e) /\ Met(e) /\ Sending(e) /\ Receiving(e) /\ Passed(e))'
  <2> USE <1>3
  <2>1. OnTheWay(e)'
    BY <1>2, OnTheWayStays DEF OnTheWay, RecvEnvelope
  <2>2. Met(e)' /\ Sending(e)' /\ Passed(e)'
    BY DEF RecvEnvelope, SshInv, Met, Sending, Passed, VerifyWith
  <2>3. Receiving(e)'
    BY DEF RecvEnvelope, SshInv, SshTyped, Receiving
  <2> QED
    BY <2>1, <2>2, <2>3
<1> QED
  BY <1>1, <1>3 DEF SshInv

\* A read is given up.
LEMMA RecvGivenUpKeeps ==
    ASSUME SshInv, NEW d \in Ends, RecvGivenUp(d)
    PROVE  SshInv'
<1> USE DEF trust, shake, halves, tally
<1>1. SshTyped'
  BY DEF SshInv, SshTyped, RecvGivenUp
<1>2. \A e \in Ends : Said(e)' = Said(e)
  BY DEF Said, RecvGivenUp
<1>3. ASSUME NEW e \in Ends
      PROVE  (OnTheWay(e) /\ Met(e) /\ Sending(e) /\ Receiving(e) /\ Passed(e))'
  <2> USE <1>3
  <2>1. inb'[e] = IF e = d THEN <<>> ELSE inb[e]
    BY DEF RecvGivenUp, SshInv, SshTyped
  <2>2. OnTheWay(e)'
    BY <1>2, <2>1, IdleSays, OppositeEnd, OnTheWayStays DEF OnTheWay, RecvGivenUp
  <2>3. Met(e)' /\ Sending(e)' /\ Passed(e)'
    BY DEF RecvGivenUp, SshInv, Met, Sending, Passed, VerifyWith
  <2>4. Receiving(e)'
    BY DEF RecvGivenUp, SshInv, SshTyped, Receiving
  <2> QED
    BY <2>2, <2>3, <2>4
<1> QED
  BY <1>1, <1>3 DEF SshInv

\* The record that a read takes: the next envelope of the other end.
LEMMA AcceptableIsNext ==
    ASSUME SshInv, NEW d \in Ends, reading[d], Len(inb[d]) = Size,
           Acceptable(d, Assembled(inb[d]))
    PROVE  /\ recvCounter[d] = Len(got[d])
           /\ Assembled(inb[d]).msg = Len(got[d]) + 1
           /\ Len(got[d]) + 1 <= Len(tried[Opposite(d)])
<1>1. PICK o \in Ends : o = Opposite(d)
  BY OppositeEnd
<1>2. PICK f : f = Assembled(inb[d])
  OBVIOUS
<1>3. f \in Said(o)
  BY <1>1, <1>2, NothingIsSaid, AssembledWasSaid DEF SshInv, OnTheWay
<1>4. f.msg = f.counter /\ f.msg \in 1..Len(tried[o]) /\ f.counter = recvCounter[d] + 1
  BY <1>2, <1>3 DEF Said, Acceptable
<1>5. recvCounter[d] = Len(got[d])
  BY DEF SshInv, Receiving
<1>6. Len(tried[o]) \in Nat /\ Len(got[d]) \in Nat
  BY DEF SshInv, SshTyped
<1> QED
  BY <1>1, <1>2, <1>4, <1>5, <1>6

LEMMA RecordReadKeeps ==
    ASSUME SshInv, NEW d \in Ends, RecordRead(d)
    PROVE  SshInv'
<1> USE DEF trust, shake, halves, tally
<1>1. /\ reading[d] /\ Len(inb[d]) = Size
      /\ reading' = [reading EXCEPT ![d] = FALSE]
      /\ inb' = [inb EXCEPT ![d] = <<>>]
      /\ UNCHANGED <<who, log, phase, state, peer, out, pipe, sendCounter, sendPoisoned, tried>>
  BY DEF RecordRead
<1>2. live' \in [Ends -> Nat] /\ \A e \in Ends : Passed(e)'
  BY <1>1, LiveMoves DEF RecordRead
<1>3. \/ /\ Acceptable(d, Assembled(inb[d]))
         /\ recvCounter' = [recvCounter EXCEPT ![d] = @ + 1]
         /\ got' = [got EXCEPT ![d] = Append(@, Assembled(inb[d]).msg)]
         /\ UNCHANGED recvPoisoned
      \/ /\ recvCounter' = [recvCounter EXCEPT ![d] = @ + 1] \/ UNCHANGED recvCounter
         /\ recvPoisoned' = [recvPoisoned EXCEPT ![d] = TRUE]
         /\ UNCHANGED got
  BY DEF RecordRead
<1>4. ~recvPoisoned[d] /\ recvCounter[d] = Len(got[d]) /\ Numbering(got[d])
  BY <1>1 DEF SshInv, Receiving
<1>5. got'[d] # got[d] => /\ got'[d] = Append(got[d], Len(got[d]) + 1)
                          /\ Len(got[d]) + 1 <= Len(tried[Opposite(d)])
  BY <1>1, <1>3, AcceptableIsNext DEF SshInv, SshTyped
<1>6. /\ Numbering(got'[d]) /\ Len(got'[d]) <= Len(tried[Opposite(d)])
      /\ ~recvPoisoned'[d] => recvCounter'[d] = Len(got'[d])
  <2>1. /\ Len(got[d]) \in Nat /\ Len(Append(got[d], Len(got[d]) + 1)) = Len(got[d]) + 1
        /\ Numbering(Append(got[d], Len(got[d]) + 1))
    BY <1>4, NumberingGrows
  <2>2. Len(got[d]) <= Len(tried[Opposite(d)])
    BY DEF SshInv, Receiving
  <2>3. Numbering(got'[d]) /\ Len(got'[d]) <= Len(tried[Opposite(d)])
    BY <1>4, <1>5, <2>1, <2>2
  <2>4. ASSUME ~recvPoisoned'[d] PROVE recvCounter'[d] = Len(got'[d])
    <3>1. /\ Acceptable(d, Assembled(inb[d]))
          /\ recvCounter'[d] = recvCounter[d] + 1
          /\ got'[d] = Append(got[d], Assembled(inb[d]).msg)
      BY <1>3, <2>4 DEF SshInv, SshTyped
    <3>2. Assembled(inb[d]).msg = Len(got[d]) + 1
      BY <1>1, <3>1, AcceptableIsNext
    <3> QED
      BY <1>4, <2>1, <3>1, <3>2
  <2> QED
    BY <2>3, <2>4
<1>7. SshTyped'
  <2>1. got' \in [Ends -> Seq(Nat)]
    <3>1. DOMAIN got' = Ends /\ \A e \in Ends : e # d => got'[e] = got[e]
      BY <1>3 DEF SshInv, SshTyped
    <3>2. got' = [e \in Ends |-> got'[e]]
      BY <1>3 DEF SshInv, SshTyped
    <3> QED
      BY <1>6, <3>1, <3>2 DEF SshInv, SshTyped, Numbering
  <2>2. recvCounter' \in [Ends -> Nat] /\ recvPoisoned' \in [Ends -> BOOLEAN]
    <3>1. /\ recvCounter \in [Ends -> Nat] /\ recvCounter[d] + 1 \in Nat
          /\ recvPoisoned \in [Ends -> BOOLEAN]
      BY DEF SshInv, SshTyped
    <3>2. recvCounter' \in [Ends -> Nat]
      BY <1>3, <3>1
    <3>3. recvPoisoned' \in [Ends -> BOOLEAN]
      BY <1>3, <3>1
    <3> QED
      BY <3>2, <3>3
  <2> QED
    BY <1>1, <1>2, <2>1, <2>2 DEF SshInv, SshTyped
<1>8. \A e \in Ends : Said(e)' = Said(e)
  BY <1>1 DEF Said
<1>9. ASSUME NEW e \in Ends
      PROVE  (OnTheWay(e) /\ Met(e) /\ Sending(e) /\ Receiving(e))'
  <2> USE <1>9
  <2>1. inb'[e] = IF e = d THEN <<>> ELSE inb[e]
    BY <1>1 DEF SshInv, SshTyped
  <2>2. OnTheWay(e)'
    BY <1>1, <1>8, <2>1, IdleSays, OppositeEnd, OnTheWayStays DEF OnTheWay
  <2>3. Met(e)' /\ Sending(e)'
    BY <1>1 DEF SshInv, Met, Sending
  <2>4. Receiving(e)'
    <3>1. CASE e = d
      <4>1. ~reading'[e]
        BY <1>1, <3>1 DEF SshInv, SshTyped
      <4> QED
        BY <1>1, <1>6, <3>1, <4>1 DEF Receiving
    <3>2. CASE e # d
      <4>1. /\ got'[e] = got[e] /\ reading'[e] = reading[e]
            /\ recvPoisoned'[e] = recvPoisoned[e] /\ recvCounter'[e] = recvCounter[e]
        BY <1>1, <1>3, <3>2 DEF SshInv, SshTyped
      <4> QED
        BY <1>1, <4>1 DEF SshInv, Receiving
    <3> QED
      BY <3>1, <3>2
  <2> QED
    BY <2>2, <2>3, <2>4
<1> QED
  BY <1>2, <1>7, <1>9 DEF SshInv

\* The logs move, and nothing else.
LEMMA LogGrows ==
    ASSUME SshInv, NEW d \in Ends,
           (\E a \in {Root, Wanted} : Revoke(d, a)) \/ BumpGeneration(d)
    PROVE  SshInv'
<1> USE DEF trust, shake, halves, tally
<1>1. UNCHANGED <<who, phase, state, peer, out, pipe, inb, sendCounter, recvCounter,
                  sendPoisoned, recvPoisoned, live, reading, tried, got>>
  BY DEF Revoke, BumpGeneration
<1>2. log \in [Ends -> Logs] /\ log[d] \in Logs
  BY DEF SshInv, SshTyped
<1>3. PICK l \in Logs : log' = [log EXCEPT ![d] = l] /\ l.len = log[d].len + 1
  <2>1. PICK n \in Nat, g \in Nat, R \in SUBSET SshAgents :
          log[d] = [len |-> n, generation |-> g, revoked |-> R]
    BY <1>2 DEF Logs
  <2>2. n + 1 \in Nat /\ g + 1 \in Nat
    OBVIOUS
  <2>3. CASE BumpGeneration(d)
    <3>1. PICK l : l = [len |-> n + 1, generation |-> g + 1, revoked |-> R]
      OBVIOUS
    <3>2. l \in Logs /\ l.len = log[d].len + 1
      BY <2>1, <2>2, <3>1 DEF Logs
    <3>3. log' = [log EXCEPT ![d] = l]
      BY <1>2, <2>1, <2>3, <3>1 DEF BumpGeneration
    <3> QED
      BY <3>2, <3>3
  <2>4. CASE \E a \in {Root, Wanted} : Revoke(d, a)
    <3>1. PICK a \in {Root, Wanted} : Revoke(d, a)
      BY <2>4
    <3>2. PICK Q \in SUBSET SshAgents : Q = R \union {a}
      BY DEF SshAgents
    <3>3. PICK l : l = [len |-> n + 1, generation |-> g, revoked |-> Q]
      OBVIOUS
    <3>4. l \in Logs /\ l.len = log[d].len + 1
      BY <2>1, <2>2, <3>2, <3>3 DEF Logs
    <3>5. log' = [log EXCEPT ![d] = l]
      BY <2>1, <3>1, <3>2, <3>3 DEF Revoke
    <3> QED
      BY <3>4, <3>5
  <2> QED
    BY <2>3, <2>4
<1>4. SshTyped'
  BY <1>1, <1>3 DEF SshInv, SshTyped
<1>5. \A e \in Ends : Said(e)' = Said(e)
  BY <1>1 DEF Said
<1>6. ASSUME NEW e \in Ends
      PROVE  (OnTheWay(e) /\ Met(e) /\ Sending(e) /\ Receiving(e) /\ Passed(e))'
  <2> USE <1>6
  <2>1. OnTheWay(e)'
    BY <1>1, <1>5, OnTheWayStays DEF OnTheWay
  <2>2. Met(e)' /\ Sending(e)' /\ Receiving(e)'
    BY <1>1 DEF SshInv, Met, Sending, Receiving
  <2>3. Passed(e)'
    <3>1. log[e].len \in Nat /\ live[e] \in Nat
      BY DEF SshInv, SshTyped, Logs
    <3>2. CASE e = d
      <4>1. log'[e].len = log[e].len + 1
        BY <1>3, <3>2 DEF SshInv, SshTyped
      <4> QED
        BY <1>1, <3>1, <4>1 DEF SshInv, Passed
    <3>3. CASE e # d
      <4>1. log'[e] = log[e]
        BY <1>3, <3>3 DEF SshInv, SshTyped
      <4> QED
        BY <1>1, <4>1 DEF SshInv, Passed, VerifyWith
    <3> QED
      BY <3>2, <3>3
  <2> QED
    BY <2>1, <2>2, <2>3
<1> QED
  BY <1>4, <1>6 DEF SshInv

LEMMA NextSsh ==
    ASSUME SshInv, [SshNext]_sshVars
    PROVE  SshInv'
<1>1. CASE UNCHANGED sshVars
  <2> USE DEF sshVars, trust, shake, halves, tally
  <2>1. \A e \in Ends : Said(e)' = Said(e)
    BY <1>1 DEF Said
  <2>2. SshTyped'
    BY <1>1 DEF SshInv, SshTyped
  <2>3. ASSUME NEW e \in Ends
        PROVE  (OnTheWay(e) /\ Met(e) /\ Sending(e) /\ Receiving(e) /\ Passed(e))'
    <3>1. OnTheWay(e)'
      BY <1>1, <2>1, <2>3, OppositeEnd DEF SshInv, OnTheWay
    <3>2. (Met(e) /\ Sending(e) /\ Receiving(e) /\ Passed(e))'
      BY <1>1, <2>3 DEF SshInv, Met, Sending, Receiving, Passed, VerifyWith
    <3> QED
      BY <3>1, <3>2
  <2> QED
    BY <2>2, <2>3 DEF SshInv
<1>2. CASE SshNext
  <2>1. PICK e \in Ends :
           \/ Step(e) \/ AuthenticationTimeout(e)
           \/ SendEnvelope(e) \/ RecordSent(e) \/ SendGivenUp(e)
           \/ RecvEnvelope(e) \/ RecordRead(e) \/ RecvGivenUp(e)
           \/ HangUp(e)
           \/ (\E a \in {Root, Wanted} : Revoke(e, a)) \/ BumpGeneration(e)
    BY <1>2 DEF SshNext
  <2>2. CASE Step(e)
    BY <2>2, StartKeeps, WriteKeeps, ReadKeeps, HelloReadKeeps, ProofReadKeeps, EndedKeeps
       DEF Step, AuthenticationCut
  <2>3. CASE AuthenticationTimeout(e) \/ HangUp(e)
    BY <2>3, EndedKeeps DEF AuthenticationTimeout, HangUp
  <2> QED
    BY <2>1, <2>2, <2>3, SendEnvelopeKeeps, RecordLeaves, RecvEnvelopeKeeps, RecordReadKeeps,
       RecvGivenUpKeeps, LogGrows
<1> QED
  BY <1>1, <1>2

-------------------------------------------------------------------------------
(* The SSH session: the theorems *)

\* The inductive invariant holds for every frame length, carrier and number of
\* records, and whenever the two logs move.
THEOREM SshCorrect == SshSpec => []SshInv
<1>1. SshInit => SshInv
  BY InitSsh
<1>2. SshInv /\ [SshNext]_sshVars => SshInv'
  BY NextSsh
<1> QED
  BY <1>1, <1>2, PTL DEF SshSpec

\* Open ends have authenticated each other at one generation (validate_peer_hello),
\* and what an end hands on is what the other began to send, without a gap, although
\* writes are given up half-way (PoisonOnIncompleteRecord).
THEOREM SshSessionsAgree == SshSpec => []SshEndsAgree
<1>1. SshInv => SshEndsAgree
  <2> SUFFICES ASSUME SshInv PROVE PeersAgree /\ NoGap
    BY DEF SshEndsAgree
  <2>1. PeersAgree
    BY OppositeEnd DEF SshInv, Met, PeersAgree, Ends, Opposite
  <2>2. ASSUME NEW e \in Ends PROVE IsPrefix(got[e], tried[Opposite(e)])
    <3>1. /\ Numbering(got[e]) /\ Numbering(tried[Opposite(e)])
          /\ Len(got[e]) <= Len(tried[Opposite(e)])
      BY <2>2, OppositeEnd DEF SshInv, Sending, Receiving
    <3> QED
      BY <3>1, NumberingPrefix
  <2> QED
    BY <2>1, <2>2 DEF NoGap
<1> QED
  BY <1>1, SshCorrect, PTL

\* An envelope is handed on only while the log of the receiving host has its sender
\* stand (LiveCheck::admit, after the record is read).
THEOREM RevokedPeersAreSilent == SshSpec => RevokedPeerIsSilent
<1>1. ASSUME SshInv, [SshNext]_sshVars, NEW e \in Ends, got'[e] # got[e]
      PROVE  VerifyWith(who[Opposite(e)], log[e])
  <2> USE DEF trust, shake, halves, tally
  <2>1. SshNext /\ got' # got
    BY <1>1 DEF sshVars
  <2>2. PICK d \in Ends : RecordRead(d)
    BY <2>1 DEF SshNext, Step, Start, Write, Read, HelloRead, ProofRead, AuthenticationCut,
         AuthenticationTimeout, Ended, SendEnvelope, RecordSent, SendGivenUp, RecvEnvelope,
         RecvGivenUp, HangUp, Revoke, BumpGeneration
  <2>3. e = d /\ reading[d] /\ LiveAdmits(d)
    BY <1>1, <2>2 DEF RecordRead, SshInv, SshTyped
  <2>4. VerifyWith(peer[e].cert, log[e])
    BY <1>1, <2>3, AdmittedStands
  <2>5. peer[e].cert = who[Opposite(e)]
    BY <1>1, <2>3 DEF SshInv, Receiving, Met
  <2> QED
    BY <2>4, <2>5
<1>2. SshInv /\ [SshNext]_sshVars
        => [\A e \in Ends : got'[e] # got[e] => VerifyWith(who[Opposite(e)], log[e])]_sshVars
  BY <1>1
<1> QED
  BY <1>2, SshCorrect, PTL DEF SshSpec, RevokedPeerIsSilent
=============================================================================
