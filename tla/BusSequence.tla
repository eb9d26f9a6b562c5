------------------------------ MODULE BusSequence ------------------------------
(***************************************************************************)
(* The envelope sequence of one agent key over every life of its bus       *)
(* (agent-mesh-bus sequence.rs), and the receiver that judges it           *)
(* (replay.rs, SequenceTracker).                                           *)
(*                                                                         *)
(* A bus issues a sequence only from a block it has durably reserved: the  *)
(* new limit is staged and synced, renamed over the reservation file, and  *)
(* the directory is synced.  The process may die between any two of these  *)
(* steps, the machine may lose power, a sync may fail.  Envelopes travel   *)
(* on connections of their own and may be lost or overtake one another;    *)
(* the receiver may outlive any number of buses, or restart itself.        *)
(*                                                                         *)
(* Only one bus at a time is bound to a reservation file, as               *)
(* SequenceReservations requires, and next() holds the sequencer's mutex   *)
(* throughout, so at most one reservation is under way.                    *)
(***************************************************************************)
EXTENDS Integers, Sequences

CONSTANTS
    Block,    \* RESERVATION_BLOCK
    MaxSeq    \* u64::MAX, where a sequence space ends

ASSUME SequenceAssumption == Block \in Nat \ {0} /\ MaxSeq \in Nat \ {0}

VARIABLES
    file,      \* what reserved() would read now; 0 when there is no file
    synced,    \* what a power loss would leave of it
    up,        \* whether a bus is bound
    last,      \* Issued.last of that bus
    reserved,  \* Issued.reserved of that bus
    step,      \* where next() is in reserving a block
    issued,    \* every sequence ever issued under the key, in order of issue
    wire,      \* positions in issued of the envelopes still under way
    highest,   \* the receiver's last accepted sequence of this sender
    accepted,  \* positions the receiver accepted in its present life
    dropped    \* positions it rejected in its present life

disk == <<file, synced>>
sequencer == <<up, last, reserved, step>>
receiver == <<highest, accepted, dropped>>
vars == <<disk, sequencer, issued, wire, receiver>>

Init ==
    /\ file = 0 /\ synced = 0
    /\ up = FALSE /\ last = 0 /\ reserved = 0 /\ step = "idle"
    /\ issued = <<>> /\ wire = {}
    /\ highest = 0 /\ accepted = {} /\ dropped = {}

-------------------------------------------------------------------------------
(* The bus *)

\* A plausible bug: a new bus numbering from the start of the last block.
ResumeBlock ==
    /\ ~up
    /\ up' = TRUE
    /\ last' = (IF file > Block THEN file - Block ELSE 0) /\ reserved' = file
    /\ UNCHANGED <<disk, step, issued, wire, receiver>>

\* Sequencer::reserving: a successor starts above all that was reserved.
Reserving ==
    /\ ~up
    /\ up' = TRUE
    /\ last' = file /\ reserved' = file
    /\ UNCHANGED <<disk, step, issued, wire, receiver>>

\* The end of next(): the sequence goes into an envelope, which is sent.
Issue ==
    /\ last' = last + 1
    /\ issued' = Append(issued, last + 1)
    /\ wire' = wire \union {Len(issued) + 1}

\* next() inside the reserved block; it fails once the u64 is exhausted.
NextInBlock ==
    /\ up /\ step = "idle"
    /\ last < MaxSeq
    /\ last + 1 <= reserved
    /\ Issue
    /\ UNCHANGED <<disk, up, reserved, step, receiver>>

\* A plausible bug: no saturation at the end of the sequence space.
ThroughUnbounded == reserved + Block

\* A plausible bug: reserving from what the file holds rather than from the bus's own block.
ThroughFromFile == IF file + Block > MaxSeq THEN MaxSeq ELSE file + Block

\* reserved.saturating_add(RESERVATION_BLOCK)
Through == IF reserved + Block > MaxSeq THEN MaxSeq ELSE reserved + Block

\* next() past the block: reserve_unix stages the new limit and syncs it.
Stage ==
    /\ up /\ step = "idle"
    /\ last < MaxSeq
    /\ last + 1 > reserved
    /\ step' = "staged"
    /\ UNCHANGED <<disk, up, last, reserved, issued, wire, receiver>>

\* A plausible bug: issuing as soon as the rename is visible.
IssueOnRename ==
    /\ step = "staged"
    /\ step' = "idle"
    /\ file' = Through /\ reserved' = Through
    /\ Issue
    /\ UNCHANGED <<synced, up, receiver>>

\* staged.persist(path): the destination changes, atomically.
Rename ==
    /\ step = "staged"
    /\ step' = "renamed"
    /\ file' = Through
    /\ UNCHANGED <<synced, up, last, reserved, issued, wire, receiver>>

\* The directory is synced: only now is the block ours, and next() issues.
SyncDirectory ==
    /\ step = "renamed"
    /\ step' = "idle"
    /\ synced' = file
    /\ reserved' = Through
    /\ Issue
    /\ UNCHANGED <<file, up, receiver>>

\* Persisting or syncing the directory failed: next() returns the error and
\* leaves Issued as it was, wherever the file got to.
ReserveFails ==
    /\ step \in {"staged", "renamed"}
    /\ step' = "idle"
    /\ UNCHANGED <<disk, up, last, reserved, issued, wire, receiver>>

-------------------------------------------------------------------------------
(* The machine *)

\* The bus is closed, or its process dies at any point.
Crash ==
    /\ up
    /\ up' = FALSE /\ step' = "idle" /\ last' = 0 /\ reserved' = 0
    /\ UNCHANGED <<disk, issued, wire, receiver>>

\* A power loss takes the process and every rename not yet on disk.
PowerLoss ==
    /\ file' = synced
    /\ up' = FALSE /\ step' = "idle" /\ last' = 0 /\ reserved' = 0
    /\ UNCHANGED <<synced, issued, wire, receiver>>

\* The kernel writes the directory back of its own accord.
WriteBack ==
    /\ synced # file
    /\ synced' = file
    /\ UNCHANGED <<file, sequencer, issued, wire, receiver>>

-------------------------------------------------------------------------------
(* The receiver *)

\* SequenceTracker::check_and_advance on the envelope at position i.
CheckAndAdvance(i) ==
    IF issued[i] > highest
    THEN /\ highest' = issued[i]
         /\ accepted' = accepted \union {i}
         /\ UNCHANGED dropped
    ELSE /\ dropped' = dropped \union {i}
         /\ UNCHANGED <<highest, accepted>>

Arrive(i) ==
    /\ i \in wire
    /\ wire' = wire \ {i}
    /\ CheckAndAdvance(i)
    /\ UNCHANGED <<disk, sequencer, issued>>

\* An envelope is lost: its dial or its stream fails.
Lose(i) ==
    /\ i \in wire
    /\ wire' = wire \ {i}
    /\ UNCHANGED <<disk, sequencer, issued, receiver>>

\* The receiver restarts with an empty tracker.
ReceiverRestart ==
    /\ highest # 0
    /\ highest' = 0 /\ accepted' = {} /\ dropped' = {}
    /\ UNCHANGED <<disk, sequencer, issued, wire>>

Next ==
    \/ Reserving \/ NextInBlock
    \/ Stage \/ Rename \/ SyncDirectory \/ ReserveFails
    \/ Crash \/ PowerLoss \/ WriteBack
    \/ \E i \in wire : Arrive(i) \/ Lose(i)
    \/ ReceiverRestart

Spec == Init /\ [][Next]_vars

-------------------------------------------------------------------------------
(* Properties *)

Positions == 1..Len(issued)

\* Every variable keeps its type, and the positions name issued sequences.
TypeOK ==
    /\ file \in 0..MaxSeq /\ synced \in 0..MaxSeq
    /\ up \in BOOLEAN
    /\ last \in 0..MaxSeq /\ reserved \in 0..MaxSeq
    /\ step \in {"idle", "staged", "renamed"}
    /\ issued \in Seq(1..MaxSeq)
    /\ wire \subseteq Positions
    /\ highest \in 0..MaxSeq
    /\ accepted \subseteq Positions /\ dropped \subseteq Positions

\* Over every life of the bus, through crashes, power losses and failed
\* syncs, each sequence issued under the key exceeds all those before it
\* (sequence.rs: "a successor's sequences are simply always higher").
Ascending == \A i, j \in Positions : i < j => issued[i] < issued[j]

\* A receiver that outlived a predecessor still hears its successor: it
\* rejects an envelope only when one sent later has overtaken it, never
\* because the numbering started again (agent-mesh#100).
DroppedOnlyIfOvertaken == \A i \in dropped : \E j \in accepted : i < j

\* A crash at any point costs at most one block of the sequence space
\* ("A crash mid-block only skips the rest of it").
CrashSkipsAtMostABlock == up => file - last \in 0..Block

\* The lives of a bus share one numbering: no number comes twice or late, whoever listens
\* hears the latest, and a life that ends takes no more than a block with it.
OneNumbering == Ascending /\ DroppedOnlyIfOvertaken /\ CrashSkipsAtMostABlock
=============================================================================
