------------------------------- MODULE FlockReader -------------------------------
(***************************************************************************)
(* A reader of the flock's stream that keeps what it verified on disk      *)
(* (agent-mesh-flock-session reader.rs and fs.rs, follow.rs of the         *)
(* server): it opens its checkpoint, asks the server for what follows,     *)
(* verifies and saves each frame, and only then shows it.  The process and *)
(* the machine crash, every file operation can fail, and the server can    *)
(* come back with an older or another history.                             *)
(*                                                                         *)
(* A frame is a value, its hash links included: two histories with the     *)
(* same frames are the same.                                               *)
(***************************************************************************)
EXTENDS Integers, Sequences, SequencesExt

CONSTANTS
    Frames,      \* what a frame can hold
    MaxFrames,   \* bound on the server's history
    MaxFaults    \* bound on crashes, failed file operations and server restores together

VARIABLES
    history,   \* the server's history
    frames,    \* Reader.frames: what the reader holds in memory
    pc,        \* where the reader is
    at,        \* the stream: the next index it sends, 0 when there is none
    file,      \* reader.state as any process sees it
    durable,   \* reader.state as a power loss would leave it
    tmp,       \* reader.state.tmp
    locked,    \* whether reader.lock is held
    shown,     \* history variable: the longest history the reader has shown as verified
    faults

readerVars == <<history, frames, pc, at, file, durable, tmp, locked, shown, faults>>

\* The content of a file that does not exist: a reader that saved nothing holds nothing.
NoFile == <<>>

ReaderInit ==
    /\ history = <<>> /\ frames = <<>>
    /\ pc = "down" /\ at = 0
    /\ file = NoFile /\ durable = NoFile /\ tmp = NoFile
    /\ locked = FALSE /\ shown = <<>> /\ faults = 0

Fault == faults < MaxFaults /\ faults' = faults + 1

-------------------------------------------------------------------------------
(* The server, as the reader sees it *)

Publish(f) ==
    /\ Len(history) < MaxFrames
    /\ history' = Append(history, f)
    /\ UNCHANGED <<frames, pc, at, file, durable, tmp, locked, shown, faults>>

\* The server is restored from an older copy; its streams end.
Restore ==
    /\ Fault /\ history # <<>>
    /\ history' = Front(history)
    /\ at' = 0
    /\ UNCHANGED <<frames, pc, file, durable, tmp, locked, shown>>

-------------------------------------------------------------------------------
(* Opening *)

\* Reader::open: the lock, the leftover of an interrupted save, then the saved state.
OpenReader ==
    /\ pc = "down" /\ ~locked
    /\ locked' = TRUE /\ tmp' = NoFile
    /\ pc' = IF file = NoFile THEN "idle" ELSE "opening"
    /\ frames' = <<>>
    /\ shown' = IF file = NoFile THEN <<>> ELSE shown
    /\ UNCHANGED <<history, at, file, durable, faults>>

\* A plausible bug: the state read is shown without making it durable.
OpenUnsynced ==
    /\ pc = "opening"
    /\ frames' = file /\ shown' = file
    /\ pc' = "idle"
    /\ UNCHANGED <<history, at, file, durable, tmp, locked, faults>>

\* What was read is made durable (sync_file, sync_dir), verified, and is the saved prefix.
OpenSynced ==
    /\ pc = "opening"
    /\ durable' = file
    /\ frames' = file /\ shown' = file
    /\ pc' = "idle"
    /\ UNCHANGED <<history, at, file, tmp, locked, faults>>

\* If a sync fails the reader does not open; the lock goes with it.
OpenFails ==
    /\ pc = "opening" /\ Fault
    /\ pc' = "down" /\ locked' = FALSE
    /\ UNCHANGED <<history, frames, at, file, durable, tmp, shown>>

-------------------------------------------------------------------------------
(* Following *)

\* Watch::open_on: the server resumes after the reader's head, or says it is behind it
\* or on another history (ReaderError::Rollback).
Watch ==
    /\ pc = "idle" /\ at = 0
    /\ IF IsPrefix(frames, history) THEN at' = Len(frames) + 1 /\ pc' = pc
       ELSE at' = at /\ pc' = "rollback"
    /\ UNCHANGED <<history, frames, file, durable, tmp, locked, shown, faults>>

\* The reader is told and gives up; the caller may try again.
RollbackTold ==
    /\ pc = "rollback"
    /\ pc' = "idle"
    /\ UNCHANGED <<history, frames, at, file, durable, tmp, locked, shown, faults>>

\* Follower::apply, in memory: the frame must follow the reader's own head.
ApplyFrame ==
    /\ pc = "idle" /\ at \in 1..Len(history)
    /\ at' = at + 1
    /\ IF at = Len(frames) + 1
       THEN frames' = Append(frames, history[at]) /\ pc' = "write"
       ELSE frames' = frames /\ pc' = "rollback"
    /\ UNCHANGED <<history, file, durable, tmp, locked, shown, faults>>

\* The stream ends: the server stops, or the session is over.
StreamEnds ==
    /\ pc = "idle" /\ at # 0
    /\ at' = 0
    /\ UNCHANGED <<history, frames, pc, file, durable, tmp, locked, shown, faults>>

-------------------------------------------------------------------------------
(* Saving: save_atomic, one step at a time *)

WriteTmp ==
    /\ pc = "write"
    /\ tmp' = frames
    /\ pc' = "sync"
    /\ UNCHANGED <<history, frames, at, file, durable, locked, shown, faults>>

SyncTmp ==
    /\ pc = "sync"
    /\ pc' = "rename"
    /\ UNCHANGED <<history, frames, at, file, durable, tmp, locked, shown, faults>>

Rename ==
    /\ pc = "rename"
    /\ file' = tmp /\ tmp' = NoFile
    /\ pc' = "syncdir"
    /\ UNCHANGED <<history, frames, at, durable, locked, shown, faults>>

\* The save is durable, and the frame is shown (Seen::Frame).
SyncParent ==
    /\ pc = "syncdir"
    /\ durable' = file
    /\ shown' = frames
    /\ pc' = "idle"
    /\ UNCHANGED <<history, frames, at, file, tmp, locked, faults>>

\* A plausible bug: the frame stays applied and is shown although it was not saved.
SaveFailsShown ==
    /\ pc \in {"write", "sync", "rename", "syncdir"} /\ Fault
    /\ shown' = frames
    /\ pc' = "idle" /\ at' = 0
    /\ UNCHANGED <<history, frames, file, durable, tmp, locked>>

\* apply_saved: any step of the save fails, and the frame is taken back.  A renamed file
\* stays where it is.
SaveFails ==
    /\ pc \in {"write", "sync", "rename", "syncdir"} /\ Fault
    /\ frames' = Front(frames)
    /\ pc' = "idle" /\ at' = 0
    /\ UNCHANGED <<history, file, durable, tmp, locked, shown>>

-------------------------------------------------------------------------------
(* Crashes *)

Ended ==
    /\ pc' = "down" /\ frames' = <<>> /\ at' = 0 /\ locked' = FALSE
    /\ UNCHANGED <<history, shown>>

\* The process ends: what it wrote stays visible.
ProcessCrash ==
    /\ pc # "down" /\ Fault
    /\ Ended
    /\ UNCHANGED <<file, durable, tmp>>

\* The machine ends: a rename that was not synced may or may not have reached the disk.
MachineCrash ==
    /\ Fault
    /\ \E left \in {file, durable} : file' = left /\ durable' = left
    /\ tmp' = NoFile
    /\ Ended

-------------------------------------------------------------------------------
ReaderNext ==
    \/ \E f \in Frames : Publish(f)
    \/ Restore
    \/ OpenReader \/ OpenSynced \/ OpenFails
    \/ Watch \/ RollbackTold \/ ApplyFrame \/ StreamEnds
    \/ WriteTmp \/ SyncTmp \/ Rename \/ SyncParent \/ SaveFails
    \/ ProcessCrash \/ MachineCrash

ReaderSpec == ReaderInit /\ [][ReaderNext]_readerVars

-------------------------------------------------------------------------------
(* Properties *)

\* What a reader has once shown it shows for ever: no crash, failed save or server that
\* went back makes it show a history without it.  (OpenReader, OpenSynced and SyncParent are
\* where something is shown.)
ShownOnlyGrows == [][IsPrefix(shown, shown')]_readerVars

===============================================================================
