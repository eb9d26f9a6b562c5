------------------------------ MODULE FlockLog ------------------------------
(***************************************************************************)
(* The server's two append-only files (admissions and refusals), the       *)
(* recovery that opens them, the journal that publishes what was committed *)
(* and the readers, with a crash or a power loss between any two steps:    *)
(* log.rs, frame.rs, journal.rs, the write path and `open` of server.rs,   *)
(* the refusal chain of refusal.rs and the lock-free snapshot of read.rs.  *)
(*                                                                         *)
(* A frame is named by the submission that produced it.  A file is the     *)
(* whole frames that a process reading it sees, whether an incomplete one  *)
(* follows them, and how many are known to be on the medium.  Whether an   *)
(* event is admitted or refused is FlockServer's business: here either may *)
(* happen.  The server's mutex is held across an append, so there is one   *)
(* append at a time; readers take no such lock.                            *)
(***************************************************************************)
EXTENDS Naturals, Sequences

CONSTANTS
    Events,       \* submissions, by content id
    MaxRefusals,  \* bound on the refusals file
    None          \* no submission

ASSUME LogAssumption == None \notin Events /\ MaxRefusals \in Nat

VARIABLES
    log,        \* the admissions file
    ref,        \* the refusals file
    phase,      \* where the server process is
    job,        \* the submission being appended
    published,  \* the journal, and the admitted part of the live state
    refused,    \* the refusal chain in memory
    acked,      \* submissions whose sender has a receipt
    seen,       \* what the watcher was sent
    cursor,     \* its place in the journal, 0 when it has none: next frame
    snap        \* the last snapshot taken of the admissions file

vars == <<log, ref, phase, job, published, refused, acked, seen, cursor, snap>>

-----------------------------------------------------------------------------
(* Files. *)

Refusal == [event: Events, admitted: Nat]

File(S) == [frames: Seq(S), torn: BOOLEAN, synced: Nat]

Empty == [frames |-> <<>>, torn |-> FALSE, synced |-> 0]

\* The part of a file that a power loss cannot take away.
Durable(f) == SubSeq(f.frames, 1, f.synced)

PartlyWritten(f) == [f EXCEPT !.torn = TRUE]

\* The write starts at the end the process knows, over whatever is there.
Written(f, end, x) ==
    [frames |-> Append(SubSeq(f.frames, 1, end), x),
     torn |-> FALSE, synced |-> f.synced]

Synced(f) == [f EXCEPT !.synced = Len(f.frames)]

\* Mutant: without an incomplete frame to cut, recovery has nothing to do.
RecoveredLazy(f) ==
    IF f.torn THEN [frames |-> f.frames, torn |-> FALSE, synced |-> Len(f.frames)]
    ELSE f

\* Mutant: recovery cuts at the start of the last whole frame.
RecoveredShort(f) ==
    [frames |-> SubSeq(f.frames, 1, Len(f.frames) - 1),
     torn |-> FALSE, synced |-> f.synced]

\* Recovery cuts the incomplete frame and syncs the rest, which a server that
\* died between its write and its fsync may have left unsynced.
Recovered(f) ==
    [frames |-> f.frames, torn |-> FALSE, synced |-> Len(f.frames)]

\* What a power loss may leave: everything synced, and any prefix of the rest.
AfterPowerLoss(f) ==
    {[frames |-> SubSeq(f.frames, 1, left[1]), torn |-> left[2], synced |-> left[1]] :
        left \in (f.synced..Len(f.frames)) \X
                {t \in BOOLEAN : t => f.torn \/ f.synced < Len(f.frames)}}

\* The refusal chain as `open` verifies it: the admission count each refusal
\* records never goes back and never exceeds the log's.
RefusalsVerify(entries, total) ==
    \A i \in DOMAIN entries :
        /\ entries[i].admitted <= total
        /\ i > 1 => entries[i - 1].admitted <= entries[i].admitted

-----------------------------------------------------------------------------
(* The server process.                                                     *)
(*   down      no process                                                  *)
(*   verified  both files read and verified, nothing written yet           *)
(*   repaired  the admissions file recovered, the refusals file not yet    *)
(*   idle      serving                                                     *)
(*   writing, written     an admission being written, and before its fsync *)
(*   refusing, recorded   the same for a refusal                           *)
(*   poisoned  an append failed: every request is turned away              *)

Phases == {"down", "verified", "repaired", "idle", "writing", "written",
           "refusing", "recorded", "poisoned"}

Init ==
    /\ log = Empty
    /\ ref = Empty
    /\ phase = "down"
    /\ job = None
    /\ published = <<>>
    /\ refused = <<>>
    /\ acked = {}
    /\ seen = <<>>
    /\ cursor = 0
    /\ snap = <<>>

Open ==
    /\ phase = "down"
    /\ RefusalsVerify(ref.frames, Len(log.frames))
    /\ phase' = "verified"
    /\ UNCHANGED <<log, ref, job, published, refused, acked, seen, cursor, snap>>

RecoverLog ==
    /\ phase = "verified"
    /\ log' = Recovered(log)
    /\ phase' = "repaired"
    /\ UNCHANGED <<ref, job, published, refused, acked, seen, cursor, snap>>

RecoverRefusals ==
    /\ phase = "repaired"
    /\ ref' = Recovered(ref)
    /\ published' = log.frames
    /\ refused' = ref.frames
    /\ phase' = "idle"
    /\ UNCHANGED <<log, job, acked, seen, cursor, snap>>

Admitted(e) == \E i \in DOMAIN published : published[i] = e

\* A submission already in the log gets its receipt again, and nothing else.
Duplicate(e) ==
    /\ phase = "idle"
    /\ Admitted(e)
    /\ acked' = acked \cup {e}
    /\ UNCHANGED <<log, ref, phase, job, published, refused, seen, cursor, snap>>

\* Mutant: a submission sent again is admitted again.
AdmitAgain(e) ==
    /\ phase = "idle"
    /\ phase' = "writing"
    /\ job' = e
    /\ UNCHANGED <<log, ref, published, refused, acked, seen, cursor, snap>>

Admit(e) ==
    /\ phase = "idle"
    /\ ~Admitted(e)
    /\ phase' = "writing"
    /\ job' = e
    /\ UNCHANGED <<log, ref, published, refused, acked, seen, cursor, snap>>

WriteFrame ==
    /\ phase = "writing"
    /\ \/ log' = PartlyWritten(log) /\ UNCHANGED phase
       \/ log' = Written(log, Len(published), job) /\ phase' = "written"
    /\ UNCHANGED <<ref, job, published, refused, acked, seen, cursor, snap>>

\* Mutant: the receipt and the journal do not wait for the fsync.
CommitUnsynced ==
    /\ phase = "written"
    /\ published' = Append(published, job)
    /\ acked' = acked \cup {job}
    /\ phase' = "idle"
    /\ job' = None
    /\ UNCHANGED <<log, ref, refused, seen, cursor, snap>>

\* The fsync, then the live state, the journal and the receipt.
Commit ==
    /\ phase = "written"
    /\ log' = Synced(log)
    /\ published' = Append(published, job)
    /\ acked' = acked \cup {job}
    /\ phase' = "idle"
    /\ job' = None
    /\ UNCHANGED <<ref, refused, seen, cursor, snap>>

RefusalOf(e) == [event |-> e, admitted |-> Len(published)]

Refuse(e) ==
    /\ phase = "idle"
    /\ ~Admitted(e)
    /\ Len(refused) < MaxRefusals
    /\ phase' = "refusing"
    /\ job' = e
    /\ UNCHANGED <<log, ref, published, refused, acked, seen, cursor, snap>>

WriteRefusal ==
    /\ phase = "refusing"
    /\ \/ ref' = PartlyWritten(ref) /\ UNCHANGED phase
       \/ ref' = Written(ref, Len(refused), RefusalOf(job)) /\ phase' = "recorded"
    /\ UNCHANGED <<log, job, published, refused, acked, seen, cursor, snap>>

CommitRefusal ==
    /\ phase = "recorded"
    /\ ref' = Synced(ref)
    /\ refused' = Append(refused, RefusalOf(job))
    /\ phase' = "idle"
    /\ job' = None
    /\ UNCHANGED <<log, published, acked, seen, cursor, snap>>

\* Mutant: an append that failed does not stop the server.
FailAppendAndGoOn ==
    /\ phase \in {"writing", "written", "refusing", "recorded"}
    /\ phase' = "idle"
    /\ job' = None
    /\ \/ phase = "written" /\ log' = Synced(log) /\ UNCHANGED ref
       \/ phase = "recorded" /\ ref' = Synced(ref) /\ UNCHANGED log
       \/ UNCHANGED <<log, ref>>
    /\ UNCHANGED <<published, refused, acked, seen, cursor, snap>>

\* An I/O error.  A failed fsync may have reached the medium or not.
FailAppend ==
    /\ phase \in {"writing", "written", "refusing", "recorded"}
    /\ phase' = "poisoned"
    /\ job' = None
    /\ \/ phase = "written" /\ log' = Synced(log) /\ UNCHANGED ref
       \/ phase = "recorded" /\ ref' = Synced(ref) /\ UNCHANGED log
       \/ UNCHANGED <<log, ref>>
    /\ UNCHANGED <<published, refused, acked, seen, cursor, snap>>

Forget ==
    /\ phase' = "down"
    /\ job' = None
    /\ published' = <<>>
    /\ refused' = <<>>
    /\ cursor' = 0
    /\ UNCHANGED <<acked, seen, snap>>

\* The process dies or is stopped: the files are as they were.
Crash ==
    /\ phase # "down"
    /\ Forget
    /\ UNCHANGED <<log, ref>>

PowerLoss ==
    /\ Forget
    /\ log' \in AfterPowerLoss(log)
    /\ ref' \in AfterPowerLoss(ref)

-----------------------------------------------------------------------------
(* Readers. *)

Serving == phase \in {"idle", "writing", "written", "refusing", "recorded",
                      "poisoned"}

\* Whether the journal can be what the watcher's saved head extends.
Resumes ==
    /\ Len(seen) <= Len(published)
    /\ seen # <<>> => published[Len(seen)] = seen[Len(seen)]

Connect ==
    /\ Serving
    /\ cursor = 0
    /\ Resumes
    /\ cursor' = Len(seen) + 1
    /\ UNCHANGED <<log, ref, phase, job, published, refused, acked, seen, snap>>

Deliver ==
    /\ Serving
    /\ cursor \in DOMAIN published
    /\ seen' = Append(seen, published[cursor])
    /\ cursor' = cursor + 1
    /\ UNCHANGED <<log, ref, phase, job, published, refused, acked, snap>>

\* The whole frames in the file, whatever the server is doing to it.
TakeSnapshot ==
    /\ snap' = log.frames
    /\ UNCHANGED <<log, ref, phase, job, published, refused, acked, seen, cursor>>

-----------------------------------------------------------------------------

Next ==
    \/ Open \/ RecoverLog \/ RecoverRefusals
    \/ \E e \in Events : Duplicate(e) \/ Admit(e) \/ Refuse(e)
    \/ WriteFrame \/ Commit \/ WriteRefusal \/ CommitRefusal
    \/ FailAppend \/ Crash \/ PowerLoss
    \/ Connect \/ Deliver \/ TakeSnapshot

Spec == Init /\ [][Next]_vars

-----------------------------------------------------------------------------
(* Properties. *)

FileOK(f) == f.synced <= Len(f.frames)

TypeOK ==
    /\ log \in File(Events) /\ FileOK(log)
    /\ ref \in File(Refusal) /\ FileOK(ref)
    /\ phase \in Phases
    /\ job \in Events \cup {None}
    /\ published \in Seq(Events)
    /\ refused \in Seq(Refusal)
    /\ acked \subseteq Events
    /\ seen \in Seq(Events)
    /\ cursor \in Nat
    /\ snap \in Seq(Events)

PrefixOf(s, t) == Len(s) <= Len(t) /\ s = SubSeq(t, 1, Len(s))

\* Whatever a watcher was sent or a sender got a receipt for is on the medium,
\* so no crash loses it: "nothing a reader sees can be lost" (journal.rs).
\* The hard case is a frame whole in the file but never synced, found by a
\* restart and published.
NothingSeenIsLost ==
    /\ PrefixOf(seen, Durable(log))
    /\ \A e \in acked : \E i \in DOMAIN Durable(log) : Durable(log)[i] = e

\* A watcher can always resume at a serving server: no crash makes the server
\* answer that its history is shorter than, or not, the watcher's.
WatcherResumes == Serving => Resumes

\* Stopping the server at any point leaves files it can open again: no crash
\* makes the refusal chain claim more admissions than the log holds.
CanReopen == phase = "down" => RefusalsVerify(ref.frames, Len(log.frames))

\* A submission is in the log once, however often its sender retried it after
\* a failure that left it in doubt.
AdmittedOnce ==
    \A i, j \in DOMAIN log.frames : log.frames[i] = log.frames[j] => i = j

\* What anyone was told is on the medium, a watcher can resume, the files can be
\* opened again, and a retried submission is in the log once.
LogSurvives == NothingSeenIsLost /\ WatcherResumes /\ CanReopen /\ AdmittedOnce

\* While an append is in flight no snapshot shows its frame: "An append in
\* flight is either not yet visible or an incomplete final frame, which is
\* left unread" (the comment on Snapshot in read.rs).
InFlightUnseen ==
    phase \in {"writing", "written"} => \A i \in DOMAIN snap : snap[i] # job

\* The server implements the promise of FlockHistory: the history is what is
\* on the medium, told as far as the watcher was sent it.
History ==
    INSTANCE FlockHistory WITH hist <- Durable(log), told <- Len(seen)

ImplementsHistory == History!Spec

=============================================================================
