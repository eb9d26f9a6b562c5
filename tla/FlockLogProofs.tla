--------------------------- MODULE FlockLogProofs ---------------------------
(***************************************************************************)
(* Theorems about the log and those who live by it.                        *)
(*                                                                         *)
(* The server's log, for every set of submissions and every bound on the   *)
(* refusals: whatever crashes, and whatever an fsync leaves in doubt,      *)
(* nothing that anyone was told is lost, the server opens again, and the   *)
(* log implements the history that FlockHistory promises.                  *)
(*                                                                         *)
(* The reader's checkpoint, for any frames, crashes and failed file        *)
(* operations: what a reader has shown it shows for ever.                  *)
(*                                                                         *)
(* The nudging adapter, for any briefs, panes, restarts and changes under  *)
(* its hands: what it records is what happened at that terminal.           *)
(*                                                                         *)
(* The MCP tools, for any flocks, peers and calls: each event goes to the  *)
(* flock it is for, and each line that wants an answer gets its own.       *)
(***************************************************************************)
EXTENDS FlockLog, FlockReader, FlockNudge, McpServer, TLAPS

-----------------------------------------------------------------------------
(* The inductive invariant. *)

\* At most one frame of the log is not known to be on the medium.
OneInDoubt == Len(log.frames) <= log.synced + 1

Settled == {"idle", "writing", "refusing", "recorded"}

\* What the journal holds, as against the file.  After a failed append the file
\* may have a frame more, which is why the server turns everyone away.
JournalIsFile ==
    /\ phase = "repaired" => log.synced = Len(log.frames)
    /\ phase \in Settled =>
          log.frames = published /\ log.synced = Len(published)
    /\ phase = "written" =>
          log.frames = Append(published, job) /\ log.synced = Len(published)
    /\ phase = "poisoned" =>
          /\ Len(published) <= log.synced
          /\ \A i \in 1..Len(published) : published[i] = log.frames[i]

\* The submission under way, which an admission does not find in the journal.
JobUnderWay ==
    /\ phase \in {"writing", "written", "refusing", "recorded"} => job \in Events
    /\ phase \in {"writing", "written"} =>
          \A i \in 1..Len(published) : published[i] # job

\* The refusal chain verifies against what a power loss would leave of the log.
RefusalsStand == RefusalsVerify(ref.frames, log.synced)

ChainIsFile ==
    /\ phase \in {"idle", "writing", "written", "refusing"} => ref.frames = refused
    /\ phase = "recorded" => ref.frames = Append(refused, RefusalOf(job))

\* What was told is on the medium.
ToldIsDurable ==
    /\ Len(seen) <= log.synced
    /\ \A i \in 1..Len(seen) : seen[i] = log.frames[i]
    /\ \A e \in acked : \E i \in 1..log.synced : log.frames[i] = e

Watching ==
    /\ Serving => Len(seen) <= Len(published)
    /\ cursor # 0 => Serving /\ cursor = Len(seen) + 1

LogInv ==
    /\ TypeOK
    /\ OneInDoubt
    /\ AdmittedOnce
    /\ JournalIsFile
    /\ JobUnderWay
    /\ RefusalsStand
    /\ ChainIsFile
    /\ ToldIsDurable
    /\ Watching

-----------------------------------------------------------------------------
(* Files. *)

\* A file is a record of its fields.
LEMMA FileFields ==
    ASSUME NEW S, NEW f \in File(S)
    PROVE  /\ f.frames \in Seq(S) /\ f.torn \in BOOLEAN /\ f.synced \in Nat
           /\ Len(f.frames) \in Nat
           /\ DOMAIN f.frames = 1..Len(f.frames)
           /\ \A i \in 1..Len(f.frames) : f.frames[i] \in S
BY DEF File

\* What recovery, a partial write and an fsync do to a file.
LEMMA FileKept ==
    ASSUME NEW S, NEW f \in File(S), FileOK(f)
    PROVE  /\ Recovered(f) \in File(S) /\ FileOK(Recovered(f))
           /\ Recovered(f).frames = f.frames
           /\ Recovered(f).synced = Len(f.frames)
           /\ PartlyWritten(f) \in File(S) /\ FileOK(PartlyWritten(f))
           /\ PartlyWritten(f).frames = f.frames
           /\ PartlyWritten(f).synced = f.synced
           /\ Synced(f) \in File(S) /\ FileOK(Synced(f))
           /\ Synced(f).frames = f.frames
           /\ Synced(f).synced = Len(f.frames)
<1>1. /\ f.frames \in Seq(S) /\ f.torn \in BOOLEAN /\ f.synced \in Nat
      /\ Len(f.frames) \in Nat
  BY FileFields
<1>2. Recovered(f) \in File(S) /\ FileOK(Recovered(f))
  BY <1>1 DEF File, FileOK, Recovered
<1>3. PartlyWritten(f) \in File(S) /\ FileOK(PartlyWritten(f))
  BY <1>1 DEF File, FileOK, PartlyWritten
<1>4. Synced(f) \in File(S) /\ FileOK(Synced(f))
  BY <1>1 DEF File, FileOK, Synced
<1> QED
  BY <1>2, <1>3, <1>4 DEF Recovered, PartlyWritten, Synced, File

\* A frame written at the end of a file follows its frames.
LEMMA FileWritten ==
    ASSUME NEW S, NEW f \in File(S), FileOK(f), NEW x \in S
    PROVE  LET g == Written(f, Len(f.frames), x) IN
           /\ g \in File(S) /\ FileOK(g)
           /\ g.frames = Append(f.frames, x)
           /\ g.synced = f.synced
<1>1. f.frames \in Seq(S) /\ f.synced \in Nat /\ Len(f.frames) \in Nat
  BY FileFields
<1>2. SubSeq(f.frames, 1, Len(f.frames)) = f.frames
  BY <1>1
<1>3. /\ Append(f.frames, x) \in Seq(S)
      /\ Len(Append(f.frames, x)) = Len(f.frames) + 1
  BY <1>1
<1> QED
  BY <1>1, <1>2, <1>3 DEF Written, File, FileOK

\* A power loss leaves what was synced, and a prefix of the rest.
LEMMA FileLoses ==
    ASSUME NEW S, NEW f \in File(S), FileOK(f), NEW g \in AfterPowerLoss(f)
    PROVE  /\ g \in File(S) /\ FileOK(g)
           /\ g.synced \in f.synced..Len(f.frames)
           /\ g.synced = Len(g.frames)
           /\ g.frames = SubSeq(f.frames, 1, g.synced)
           /\ \A i \in 1..g.synced : g.frames[i] = f.frames[i]
<1>1. f.frames \in Seq(S) /\ f.synced \in Nat /\ Len(f.frames) \in Nat
  BY FileFields
<1>2. PICK left \in (f.synced..Len(f.frames)) \X BOOLEAN :
         g = [frames |-> SubSeq(f.frames, 1, left[1]), torn |-> left[2],
              synced |-> left[1]]
  BY DEF AfterPowerLoss
<1> DEFINE n == left[1]
<1>3. n \in Nat /\ n <= Len(f.frames)
  BY <1>1, <1>2
<1>4. /\ SubSeq(f.frames, 1, n) \in Seq(S)
      /\ Len(SubSeq(f.frames, 1, n)) = n
      /\ \A i \in 1..n : SubSeq(f.frames, 1, n)[i] = f.frames[i]
  BY <1>1, <1>3
<1> QED
  BY <1>1, <1>2, <1>3, <1>4 DEF File, FileOK

-----------------------------------------------------------------------------
(* Steps. *)

\* The parts of the invariant, as facts about sequences.
LEMMA InvFacts ==
    ASSUME LogInv
    PROVE  /\ log \in File(Events) /\ FileOK(log)
           /\ ref \in File(Refusal) /\ FileOK(ref)
           /\ log.frames \in Seq(Events) /\ log.synced \in Nat
           /\ ref.frames \in Seq(Refusal) /\ ref.synced \in Nat
           /\ Len(log.frames) \in Nat /\ Len(ref.frames) \in Nat
           /\ DOMAIN log.frames = 1..Len(log.frames)
           /\ DOMAIN ref.frames = 1..Len(ref.frames)
           /\ log.synced <= Len(log.frames)
           /\ published \in Seq(Events) /\ Len(published) \in Nat
           /\ DOMAIN published = 1..Len(published)
           /\ refused \in Seq(Refusal) /\ Len(refused) \in Nat
           /\ seen \in Seq(Events) /\ Len(seen) \in Nat
           /\ cursor \in Nat
<1>1. log \in File(Events) /\ FileOK(log) /\ ref \in File(Refusal) /\ FileOK(ref)
  BY DEF LogInv, TypeOK
<1>2. /\ log.frames \in Seq(Events) /\ log.synced \in Nat
      /\ Len(log.frames) \in Nat /\ DOMAIN log.frames = 1..Len(log.frames)
  BY <1>1, FileFields
<1>3. /\ ref.frames \in Seq(Refusal) /\ ref.synced \in Nat
      /\ Len(ref.frames) \in Nat /\ DOMAIN ref.frames = 1..Len(ref.frames)
  BY <1>1, FileFields
<1> QED
  BY <1>1, <1>2, <1>3 DEF LogInv, TypeOK, FileOK

\* The log starts in the invariant.
LEMMA InitLog == Init => LogInv
<1> SUFFICES ASSUME Init PROVE LogInv
  OBVIOUS
<1>1. /\ Empty \in File(Events) /\ Empty \in File(Refusal) /\ FileOK(Empty)
      /\ Empty.frames = <<>> /\ Empty.synced = 0
  BY DEF Empty, File, FileOK
<1>2. TypeOK
  BY <1>1 DEF Init, TypeOK, Phases
<1> QED
  BY <1>1, <1>2
     DEF Init, LogInv, OneInDoubt, AdmittedOnce, JournalIsFile, Settled, JobUnderWay,
         RefusalsStand, RefusalsVerify, ChainIsFile, ToldIsDurable, Watching, Serving

\* The steps that leave both files alone.
LEMMA QuietSteps ==
    ASSUME LogInv,
           \/ Open
           \/ \E e \in Events : Duplicate(e) \/ Admit(e) \/ Refuse(e)
           \/ Connect \/ TakeSnapshot \/ UNCHANGED vars
    PROVE  LogInv'
<1>0. LogInv
  OBVIOUS
<1>f. /\ published \in Seq(Events) /\ Len(published) \in Nat
      /\ DOMAIN published = 1..Len(published)
      /\ log.frames \in Seq(Events) /\ Len(seen) \in Nat
  BY InvFacts
<1>1. CASE Open
  BY <1>0, <1>1
     DEF Open, LogInv, TypeOK, Phases, OneInDoubt, AdmittedOnce, JournalIsFile, Settled,
         JobUnderWay, RefusalsStand, ChainIsFile, ToldIsDurable, Watching, Serving
<1>2. ASSUME NEW e \in Events, Duplicate(e) PROVE LogInv'
  BY <1>0, <1>2, <1>f
     DEF Duplicate, Admitted, LogInv, TypeOK, OneInDoubt, AdmittedOnce, JournalIsFile,
         Settled, JobUnderWay, RefusalsStand, ChainIsFile, ToldIsDurable, Watching,
         Serving, RefusalOf
<1>3. ASSUME NEW e \in Events, Admit(e) PROVE LogInv'
  BY <1>0, <1>3, <1>f
     DEF Admit, Admitted, LogInv, TypeOK, Phases, OneInDoubt, AdmittedOnce,
         JournalIsFile, Settled, JobUnderWay, RefusalsStand, ChainIsFile,
         ToldIsDurable, Watching, Serving
<1>4. ASSUME NEW e \in Events, Refuse(e) PROVE LogInv'
  BY <1>0, <1>4
     DEF Refuse, LogInv, TypeOK, Phases, OneInDoubt, AdmittedOnce, JournalIsFile,
         Settled, JobUnderWay, RefusalsStand, ChainIsFile, ToldIsDurable, Watching,
         Serving
<1>5. CASE Connect
  <2>1. TypeOK'
    BY <1>0, <1>5, <1>f DEF Connect, LogInv, TypeOK
  <2>2. Watching'
    BY <1>0, <1>5, <1>f DEF Connect, LogInv, Watching, Serving
  <2> QED
    BY <1>0, <1>5, <2>1, <2>2
       DEF Connect, LogInv, OneInDoubt, AdmittedOnce, JournalIsFile, JobUnderWay,
           RefusalsStand, ChainIsFile, RefusalOf, ToldIsDurable
<1>6. CASE TakeSnapshot
  BY <1>0, <1>6, <1>f
     DEF TakeSnapshot, LogInv, TypeOK, OneInDoubt, AdmittedOnce, JournalIsFile,
         JobUnderWay, RefusalsStand, ChainIsFile, RefusalOf, ToldIsDurable, Watching,
         Serving
<1>7. CASE UNCHANGED vars
  BY <1>0, <1>7
     DEF vars, LogInv, TypeOK, OneInDoubt, AdmittedOnce, JournalIsFile, JobUnderWay,
         RefusalsStand, ChainIsFile, RefusalOf, ToldIsDurable, Watching, Serving
<1> QED
  BY <1>1, <1>2, <1>3, <1>4, <1>5, <1>6, <1>7

\* The watcher is sent the next frame of the journal.
LEMMA DeliverStep == ASSUME LogInv, Deliver PROVE LogInv'
<1>1. cursor = Len(seen) + 1 /\ cursor \in 1..Len(published)
  BY InvFacts DEF Deliver, LogInv, Watching
<1>2. Len(published) <= log.synced /\ published[cursor] = log.frames[cursor]
  <2>1. CASE phase = "written"
    <3>1. log.frames = Append(published, job) /\ log.synced = Len(published)
      BY <2>1 DEF LogInv, JournalIsFile
    <3>2. Append(published, job)[cursor] = published[cursor]
      BY <1>1, InvFacts
    <3> QED
      BY <3>1, <3>2, InvFacts
  <2>2. CASE phase # "written"
    BY <1>1, <2>2, InvFacts DEF Deliver, Serving, LogInv, JournalIsFile, Settled
  <2> QED
    BY <2>1, <2>2
<1>3. /\ seen' \in Seq(Events) /\ Len(seen') = cursor
      /\ \A i \in 1..Len(seen) : seen'[i] = seen[i]
      /\ seen'[cursor] = published[cursor]
  BY <1>1, InvFacts DEF Deliver
<1>4. TypeOK'
  BY <1>1, <1>3 DEF Deliver, LogInv, TypeOK
<1>5. ToldIsDurable'
  BY <1>1, <1>2, <1>3, InvFacts DEF Deliver, LogInv, ToldIsDurable
<1>6. Watching'
  BY <1>1, <1>3, InvFacts DEF Deliver, LogInv, Watching, Serving
<1> QED
  BY <1>4, <1>5, <1>6
     DEF Deliver, LogInv, OneInDoubt, AdmittedOnce, JournalIsFile, JobUnderWay,
         RefusalsStand, ChainIsFile, RefusalOf, Serving

\* A refusal chain that verifies against a log verifies against a longer one.
LEMMA RefusalsStandFurther ==
    ASSUME LogInv, NEW n \in Nat, log.synced <= n
    PROVE  RefusalsVerify(ref.frames, n)
<1> SUFFICES ASSUME NEW i \in DOMAIN ref.frames
             PROVE  /\ ref.frames[i].admitted <= n
                    /\ i > 1 => ref.frames[i - 1].admitted <= ref.frames[i].admitted
  BY DEF RefusalsVerify
<1>1. ref.frames[i] \in Refusal
  BY InvFacts
<1>2. ref.frames[i].admitted \in Nat
  BY <1>1 DEF Refusal
<1>3. /\ ref.frames[i].admitted <= log.synced
      /\ i > 1 => ref.frames[i - 1].admitted <= ref.frames[i].admitted
  BY DEF LogInv, RefusalsStand, RefusalsVerify
<1>4. log.synced \in Nat
  BY InvFacts
<1> QED
  BY <1>2, <1>3, <1>4

\* Recovery cuts what is incomplete, and syncs the rest before it is published.
LEMMA RecoverySteps == ASSUME LogInv, RecoverLog \/ RecoverRefusals PROVE LogInv'
<1>0. LogInv
  OBVIOUS
<1>1. CASE RecoverLog
  <2>1. /\ log' \in File(Events) /\ FileOK(log')
        /\ log'.frames = log.frames /\ log'.synced = Len(log.frames)
    BY <1>0, <1>1, FileKept, InvFacts DEF RecoverLog
  <2>2. TypeOK'
    BY <1>0, <1>1, <2>1 DEF RecoverLog, LogInv, TypeOK, Phases
  <2>3. OneInDoubt' /\ AdmittedOnce'
    BY <1>0, <2>1, InvFacts DEF LogInv, OneInDoubt, AdmittedOnce
  <2>4. JournalIsFile' /\ JobUnderWay' /\ ChainIsFile'
    BY <1>1, <2>1 DEF RecoverLog, JournalIsFile, JobUnderWay, ChainIsFile, Settled
  <2>5. RefusalsStand'
    BY <1>0, <1>1, <2>1, RefusalsStandFurther, InvFacts DEF RecoverLog, RefusalsStand
  <2>6. ToldIsDurable' /\ Watching'
    BY <1>0, <1>1, <2>1, InvFacts
       DEF RecoverLog, LogInv, ToldIsDurable, Watching, Serving
  <2> QED
    BY <2>2, <2>3, <2>4, <2>5, <2>6 DEF LogInv
<1>2. CASE RecoverRefusals
  <2>1. /\ ref' \in File(Refusal) /\ FileOK(ref') /\ ref'.frames = ref.frames
    BY <1>0, <1>2, FileKept, InvFacts DEF RecoverRefusals
  <2>2. log.synced = Len(log.frames)
    BY <1>0, <1>2 DEF RecoverRefusals, LogInv, JournalIsFile
  <2>3. TypeOK'
    BY <1>0, <1>2, <2>1, InvFacts DEF RecoverRefusals, LogInv, TypeOK, Phases
  <2>4. JournalIsFile' /\ JobUnderWay' /\ ChainIsFile'
    BY <1>2, <2>1, <2>2
       DEF RecoverRefusals, JournalIsFile, JobUnderWay, ChainIsFile, Settled
  <2>5. ToldIsDurable' /\ Watching'
    BY <1>0, <1>2, <2>2, InvFacts
       DEF RecoverRefusals, LogInv, ToldIsDurable, Watching, Serving
  <2> QED
    BY <1>0, <1>2, <2>1, <2>3, <2>4, <2>5
       DEF RecoverRefusals, LogInv, OneInDoubt, AdmittedOnce, RefusalsStand,
           RefusalsVerify
<1> QED
  BY <1>1, <1>2

\* An admission: its frame is new to the file, and is on the medium before anyone
\* is told.
LEMMA AdmissionSteps == ASSUME LogInv, WriteFrame \/ Commit PROVE LogInv'
<1>0. LogInv
  OBVIOUS
<1>1. CASE WriteFrame /\ log' = PartlyWritten(log) /\ UNCHANGED phase
  <2>1. /\ log' \in File(Events) /\ FileOK(log')
        /\ log'.frames = log.frames /\ log'.synced = log.synced
    BY <1>0, <1>1, FileKept, InvFacts
  <2> QED
    BY <1>0, <1>1, <2>1
       DEF WriteFrame, LogInv, TypeOK, OneInDoubt, AdmittedOnce, JournalIsFile, Settled,
           JobUnderWay, RefusalsStand, RefusalsVerify, ChainIsFile, ToldIsDurable,
           Watching, Serving
<1>2. CASE /\ WriteFrame /\ phase' = "written"
           /\ log' = Written(log, Len(published), job)
  <2>1. /\ log.frames = published /\ log.synced = Len(published) /\ job \in Events
        /\ \A i \in 1..Len(published) : published[i] # job
    BY <1>0, <1>2 DEF WriteFrame, LogInv, JournalIsFile, Settled, JobUnderWay
  <2>2. /\ log' \in File(Events) /\ FileOK(log')
        /\ log'.frames = Append(published, job) /\ log'.synced = log.synced
    <3>1. log \in File(Events) /\ FileOK(log)
      BY <1>0, InvFacts
    <3>2. log' = Written(log, Len(log.frames), job)
      BY <1>2, <2>1
    <3>3. /\ Written(log, Len(log.frames), job) \in File(Events)
          /\ FileOK(Written(log, Len(log.frames), job))
          /\ Written(log, Len(log.frames), job).frames = Append(log.frames, job)
          /\ Written(log, Len(log.frames), job).synced = log.synced
      BY <2>1, <3>1, FileWritten
    <3> QED
      BY <2>1, <3>2, <3>3
  <2>3. /\ Len(log'.frames) = Len(published) + 1
        /\ DOMAIN log'.frames = 1..(Len(published) + 1)
        /\ \A i \in 1..Len(published) : log'.frames[i] = published[i]
        /\ log'.frames[Len(published) + 1] = job
    BY <1>0, <2>1, <2>2, InvFacts
  <2>4. TypeOK'
    BY <1>0, <1>2, <2>2 DEF WriteFrame, LogInv, TypeOK, Phases
  <2>5. OneInDoubt'
    BY <1>0, <2>1, <2>2, <2>3, InvFacts DEF OneInDoubt
  <2>6. AdmittedOnce'
    <3>1. \A i, j \in 1..Len(published) : published[i] = published[j] => i = j
      BY <1>0, <2>1, InvFacts DEF LogInv, AdmittedOnce
    <3> QED
      BY <1>0, <3>1, <2>1, <2>3, InvFacts DEF AdmittedOnce
  <2>7. JournalIsFile' /\ JobUnderWay' /\ ChainIsFile' /\ RefusalsStand'
    BY <1>0, <1>2, <2>1, <2>2
       DEF WriteFrame, LogInv, JournalIsFile, JobUnderWay, ChainIsFile, RefusalsStand,
           RefusalsVerify, Settled
  <2>8. ToldIsDurable' /\ Watching'
    BY <1>0, <1>2, <2>1, <2>2, <2>3, InvFacts
       DEF WriteFrame, LogInv, ToldIsDurable, Watching, Serving
  <2> QED
    BY <2>4, <2>5, <2>6, <2>7, <2>8 DEF LogInv
<1>3. CASE Commit
  <2>1. /\ log.frames = Append(published, job) /\ log.synced = Len(published)
        /\ job \in Events /\ ref.frames = refused
    BY <1>0, <1>3 DEF Commit, LogInv, JournalIsFile, JobUnderWay, ChainIsFile
  <2>2. /\ log' \in File(Events) /\ FileOK(log')
        /\ log'.frames = log.frames /\ log'.synced = Len(log.frames)
    BY <1>0, <1>3, FileKept, InvFacts DEF Commit
  <2>3. /\ Len(log.frames) = Len(published) + 1
        /\ log.frames[Len(published) + 1] = job
        /\ published' \in Seq(Events) /\ published' = log.frames
    BY <1>0, <1>3, <2>1, InvFacts DEF Commit
  <2>4. TypeOK'
    BY <1>0, <1>3, <2>1, <2>2, <2>3 DEF Commit, LogInv, TypeOK, Phases
  <2>5. OneInDoubt' /\ AdmittedOnce'
    BY <1>0, <2>2, InvFacts DEF LogInv, OneInDoubt, AdmittedOnce
  <2>6. JournalIsFile' /\ JobUnderWay' /\ ChainIsFile'
    BY <1>3, <2>1, <2>2, <2>3
       DEF Commit, JournalIsFile, JobUnderWay, ChainIsFile, Settled
  <2>7. RefusalsStand'
    BY <1>0, <1>3, <2>2, RefusalsStandFurther, InvFacts DEF Commit, RefusalsStand
  <2>8. ToldIsDurable' /\ Watching'
    BY <1>0, <1>3, <2>1, <2>2, <2>3, InvFacts
       DEF Commit, LogInv, ToldIsDurable, Watching, Serving
  <2> QED
    BY <2>4, <2>5, <2>6, <2>7, <2>8 DEF LogInv
<1> QED
  BY <1>1, <1>2, <1>3 DEF WriteFrame

\* A refusal records the admissions that its journal has, all of them synced.
LEMMA RefusalSteps == ASSUME LogInv, WriteRefusal \/ CommitRefusal PROVE LogInv'
<1>0. LogInv
  OBVIOUS
<1>1. CASE WriteRefusal /\ ref' = PartlyWritten(ref) /\ UNCHANGED phase
  <2>1. ref' \in File(Refusal) /\ FileOK(ref') /\ ref'.frames = ref.frames
    BY <1>0, <1>1, FileKept, InvFacts
  <2> QED
    BY <1>0, <1>1, <2>1
       DEF WriteRefusal, LogInv, TypeOK, OneInDoubt, AdmittedOnce, JournalIsFile, Settled,
           JobUnderWay, RefusalsStand, RefusalsVerify, ChainIsFile, ToldIsDurable,
           Watching, Serving
<1>2. CASE /\ WriteRefusal /\ phase' = "recorded"
           /\ ref' = Written(ref, Len(refused), RefusalOf(job))
  <2>1. /\ ref.frames = refused /\ job \in Events
        /\ log.synced = Len(published)
    BY <1>0, <1>2
       DEF WriteRefusal, LogInv, JournalIsFile, Settled, JobUnderWay, ChainIsFile
  <2>2. RefusalOf(job) \in Refusal /\ RefusalOf(job).admitted = log.synced
    BY <1>0, <2>1, InvFacts DEF RefusalOf, Refusal
  <2>3. /\ ref' \in File(Refusal) /\ FileOK(ref')
        /\ ref'.frames = Append(refused, RefusalOf(job))
    BY <1>0, <1>2, <2>1, <2>2, FileWritten, InvFacts
  <2>4. TypeOK'
    BY <1>0, <1>2, <2>3 DEF WriteRefusal, LogInv, TypeOK, Phases
  <2>5. RefusalsStand'
    <3>1. /\ DOMAIN ref'.frames = 1..(Len(refused) + 1)
          /\ \A i \in 1..Len(refused) : ref'.frames[i] = refused[i]
          /\ ref'.frames[Len(refused) + 1] = RefusalOf(job)
      BY <1>0, <2>2, <2>3, InvFacts
    <3>2. \A i \in 1..Len(refused) :
             /\ refused[i].admitted <= log.synced
             /\ i > 1 => refused[i - 1].admitted <= refused[i].admitted
      BY <1>0, <2>1, InvFacts DEF LogInv, RefusalsStand, RefusalsVerify
    <3>3. log.synced \in Nat /\ Len(refused) \in Nat /\ log' = log
      BY <1>0, <1>2, InvFacts DEF WriteRefusal
    <3> SUFFICES ASSUME NEW i \in 1..(Len(refused) + 1)
                 PROVE  /\ ref'.frames[i].admitted <= log.synced
                        /\ i > 1 => ref'.frames[i - 1].admitted <= ref'.frames[i].admitted
      BY <3>1, <3>3 DEF RefusalsStand, RefusalsVerify
    <3>4. CASE i \in 1..Len(refused)
      <4>1. i > 1 => i - 1 \in 1..Len(refused)
        BY <3>3, <3>4
      <4> QED
        BY <3>1, <3>2, <3>4, <4>1
    <3>5. CASE i = Len(refused) + 1
      <4>1. i > 1 => i - 1 \in 1..Len(refused)
        BY <3>3, <3>5
      <4> QED
        BY <3>1, <3>2, <3>3, <3>5, <4>1, <2>2
    <3> QED
      BY <3>3, <3>4, <3>5
  <2>6. JournalIsFile' /\ JobUnderWay' /\ ChainIsFile'
    BY <1>0, <1>2, <2>1, <2>3
       DEF WriteRefusal, LogInv, JournalIsFile, JobUnderWay, ChainIsFile, RefusalOf,
           Settled
  <2> QED
    BY <1>0, <1>2, <2>4, <2>5, <2>6
       DEF WriteRefusal, LogInv, OneInDoubt, AdmittedOnce, ToldIsDurable, Watching,
           Serving
<1>3. CASE CommitRefusal
  <2>1. /\ ref.frames = Append(refused, RefusalOf(job)) /\ job \in Events
        /\ log.frames = published /\ log.synced = Len(published)
    BY <1>0, <1>3
       DEF CommitRefusal, LogInv, JournalIsFile, Settled, JobUnderWay, ChainIsFile
  <2>2. ref' \in File(Refusal) /\ FileOK(ref') /\ ref'.frames = ref.frames
    BY <1>0, <1>3, FileKept, InvFacts DEF CommitRefusal
  <2>3. refused' = ref.frames
    BY <1>3, <2>1 DEF CommitRefusal
  <2>4. TypeOK'
    BY <1>0, <1>3, <2>2, <2>3, InvFacts DEF CommitRefusal, LogInv, TypeOK, Phases
  <2>5. JournalIsFile' /\ JobUnderWay' /\ ChainIsFile'
    BY <1>3, <2>1, <2>2, <2>3
       DEF CommitRefusal, JournalIsFile, JobUnderWay, ChainIsFile, Settled
  <2> QED
    BY <1>0, <1>3, <2>2, <2>4, <2>5
       DEF CommitRefusal, LogInv, OneInDoubt, AdmittedOnce, ToldIsDurable, Watching,
           Serving, RefusalsStand, RefusalsVerify
<1> QED
  BY <1>1, <1>2, <1>3 DEF WriteRefusal

\* A failed append leaves its frame in doubt and the server without further ones.
LEMMA FailureStep == ASSUME LogInv, FailAppend PROVE LogInv'
<1>1. /\ Len(published) <= log.synced
      /\ \A i \in 1..Len(published) : published[i] = log.frames[i]
  <2>1. CASE phase = "written"
    <3>1. /\ log.frames = Append(published, job) /\ log.synced = Len(published)
      BY <2>1 DEF LogInv, JournalIsFile
    <3>2. \A i \in 1..Len(published) : Append(published, job)[i] = published[i]
      BY InvFacts
    <3> QED
      BY <3>1, <3>2, InvFacts
  <2>2. CASE phase # "written"
    BY <2>2, InvFacts DEF FailAppend, LogInv, JournalIsFile, Settled
  <2> QED
    BY <2>1, <2>2
<1>2. /\ log' \in File(Events) /\ FileOK(log') /\ log'.frames = log.frames
      /\ log'.synced \in {log.synced, Len(log.frames)}
  BY FileKept, InvFacts DEF FailAppend
<1>3. ref' \in File(Refusal) /\ FileOK(ref') /\ ref'.frames = ref.frames
  BY FileKept, InvFacts DEF FailAppend
<1>4. log.synced <= log'.synced /\ log'.synced \in Nat
  BY <1>2, InvFacts
<1>5. TypeOK'
  BY <1>2, <1>3, InvFacts DEF FailAppend, LogInv, TypeOK, Phases
<1>6. OneInDoubt' /\ AdmittedOnce'
  BY <1>2, <1>4, InvFacts DEF LogInv, OneInDoubt, AdmittedOnce
<1>7. JournalIsFile' /\ JobUnderWay' /\ ChainIsFile'
  BY <1>1, <1>2, <1>4, InvFacts
     DEF FailAppend, JournalIsFile, JobUnderWay, ChainIsFile, Settled
<1>8. RefusalsStand'
  BY <1>3, <1>4, RefusalsStandFurther DEF RefusalsStand
<1>9. ToldIsDurable'
  <2>1. ToldIsDurable /\ seen' = seen /\ acked' = acked
    BY DEF FailAppend, LogInv
  <2>2. Len(seen') <= log'.synced
    BY <2>1, <1>4, InvFacts DEF ToldIsDurable
  <2>3. \A i \in 1..log.synced : i \in 1..log'.synced
    BY <1>4, InvFacts
  <2> QED
    BY <2>1, <2>2, <2>3, <1>2 DEF ToldIsDurable
<1>10. Watching'
  <2>1. Watching /\ seen' = seen /\ published' = published /\ cursor' = cursor
    BY DEF FailAppend, LogInv
  <2>2. Serving /\ Serving'
    BY DEF FailAppend, Serving
  <2> QED
    BY <2>1, <2>2 DEF Watching
<1> QED
  BY <1>5, <1>6, <1>7, <1>8, <1>9, <1>10 DEF LogInv

\* The process dies, and with it what it held in memory; a power loss also takes
\* what was not synced.
LEMMA CrashSteps == ASSUME LogInv, Crash \/ PowerLoss PROVE LogInv'
<1>0. LogInv /\ Forget
  BY DEF Crash, PowerLoss
<1>1. <<>> \in Seq(Events) /\ <<>> \in Seq(Refusal)
  OBVIOUS
<1>2. JournalIsFile' /\ JobUnderWay' /\ ChainIsFile' /\ Watching'
  BY <1>0 DEF Forget, JournalIsFile, JobUnderWay, ChainIsFile, Watching, Serving, Settled
<1>3. CASE Crash
  <2>1. TypeOK'
    BY <1>0, <1>1, <1>3 DEF Crash, Forget, LogInv, TypeOK, Phases
  <2> QED
    BY <1>0, <1>2, <1>3, <2>1
       DEF Crash, Forget, LogInv, OneInDoubt, AdmittedOnce, RefusalsStand, ToldIsDurable
<1>4. CASE PowerLoss
  <2>1. /\ log' \in File(Events) /\ FileOK(log')
        /\ log'.synced \in log.synced..Len(log.frames)
        /\ log'.synced = Len(log'.frames)
        /\ \A i \in 1..log'.synced : log'.frames[i] = log.frames[i]
    BY <1>0, <1>4, FileLoses, InvFacts DEF PowerLoss
  <2>2. /\ ref' \in File(Refusal) /\ FileOK(ref')
        /\ ref'.synced \in ref.synced..Len(ref.frames)
        /\ ref'.synced = Len(ref'.frames)
        /\ \A i \in 1..ref'.synced : ref'.frames[i] = ref.frames[i]
    BY <1>0, <1>4, FileLoses, InvFacts DEF PowerLoss
  <2>3. /\ DOMAIN log'.frames = 1..log'.synced
        /\ DOMAIN ref'.frames = 1..ref'.synced
        /\ log'.synced \in Nat /\ ref'.synced \in Nat
    BY <2>1, <2>2, FileFields
  <2>4. TypeOK'
    BY <1>0, <1>1, <2>1, <2>2 DEF Forget, LogInv, TypeOK, Phases
  <2>5. OneInDoubt'
    BY <2>1, <2>3 DEF OneInDoubt
  <2>6. AdmittedOnce'
    <3>1. \A i \in 1..log'.synced : i \in DOMAIN log.frames
      BY <1>0, <2>1, <2>3, InvFacts
    <3>2. \A i, j \in DOMAIN log.frames : log.frames[i] = log.frames[j] => i = j
      BY <1>0 DEF LogInv, AdmittedOnce
    <3> QED
      BY <2>1, <2>3, <3>1, <3>2 DEF AdmittedOnce
  <2>7. RefusalsStand'
    <3>1. RefusalsVerify(ref.frames, log'.synced)
      BY <1>0, <2>1, <2>3, RefusalsStandFurther, InvFacts
    <3> SUFFICES ASSUME NEW i \in 1..ref'.synced
                 PROVE  /\ ref'.frames[i].admitted <= log'.synced
                        /\ i > 1 => ref'.frames[i - 1].admitted <= ref'.frames[i].admitted
      BY <2>3 DEF RefusalsStand, RefusalsVerify
    <3>2. i \in DOMAIN ref.frames /\ (i > 1 => i - 1 \in 1..ref'.synced)
      BY <1>0, <2>2, <2>3, InvFacts
    <3> QED
      BY <2>2, <3>1, <3>2 DEF RefusalsVerify
  <2>8. ToldIsDurable'
    <3>1. log.synced <= log'.synced /\ \A i \in 1..log.synced : i \in 1..log'.synced
      BY <1>0, <2>1, <2>3, InvFacts
    <3>2. \A i \in 1..Len(seen) : i \in 1..log.synced
      BY <1>0, InvFacts DEF LogInv, ToldIsDurable
    <3>3. Len(seen) <= log'.synced
      BY <1>0, <2>3, <3>1, InvFacts DEF LogInv, ToldIsDurable
    <3>4. \A i \in 1..log.synced : log'.frames[i] = log.frames[i]
      BY <2>1, <3>1
    <3> QED
      BY <1>0, <3>1, <3>2, <3>3, <3>4 DEF Forget, LogInv, ToldIsDurable
  <2> QED
    BY <1>2, <2>4, <2>5, <2>6, <2>7, <2>8 DEF LogInv
<1> QED
  BY <1>3, <1>4

\* The invariant holds in every state.
THEOREM LogCorrect == Spec => []LogInv
<1>1. ASSUME LogInv, [Next]_vars PROVE LogInv'
  BY <1>1, QuietSteps, DeliverStep, RecoverySteps, AdmissionSteps, RefusalSteps,
     FailureStep, CrashSteps DEF Next
<1> QED
  BY <1>1, InitLog, PTL DEF Spec

\* Every variable keeps its type, and no file claims more synced than it has.
THEOREM TypeCorrect == Spec => []TypeOK
<1>1. LogInv => TypeOK
  BY DEF LogInv
<1> QED
  BY <1>1, LogCorrect, PTL

\* The part of a file that is on the medium, frame by frame.
LEMMA DurablePart ==
    ASSUME NEW S, NEW f \in File(S), FileOK(f)
    PROVE  /\ Durable(f) \in Seq(S)
           /\ Len(Durable(f)) = f.synced
           /\ DOMAIN Durable(f) = 1..f.synced
           /\ \A i \in 1..f.synced : Durable(f)[i] = f.frames[i]
BY FileFields DEF Durable, FileOK

\* Whatever crashes between any two steps of the server, what a watcher or a sender
\* was told stays on the medium, a watcher resumes at any server, the files open
\* again, and a submission sent again after a failure in doubt is in the log once
\* (log.rs, journal.rs, server.rs `open`).
THEOREM LogOutlivesCrashes == Spec => []LogSurvives
<1>1. ASSUME LogInv PROVE LogSurvives
  <2>0. LogInv
    BY <1>1
  <2>d. /\ Durable(log) \in Seq(Events)
        /\ Len(Durable(log)) = log.synced
        /\ DOMAIN Durable(log) = 1..log.synced
        /\ \A i \in 1..log.synced : Durable(log)[i] = log.frames[i]
    BY <2>0, InvFacts, DurablePart
  <2>1. NothingSeenIsLost
    <3>1. PrefixOf(seen, Durable(log))
      <4>1. Len(seen) <= log.synced /\ \A i \in 1..Len(seen) : seen[i] = log.frames[i]
        BY <2>0 DEF LogInv, ToldIsDurable
      <4>2. \A i \in 1..Len(seen) : seen[i] = Durable(log)[i]
        BY <2>0, <4>1, <2>d, InvFacts
      <4>3. /\ SubSeq(Durable(log), 1, Len(seen)) \in Seq(Events)
            /\ Len(SubSeq(Durable(log), 1, Len(seen))) = Len(seen)
            /\ \A i \in 1..Len(seen) :
                  SubSeq(Durable(log), 1, Len(seen))[i] = Durable(log)[i]
        BY <2>0, <4>1, <2>d, InvFacts
      <4>4. seen = SubSeq(Durable(log), 1, Len(seen))
        BY <2>0, <4>2, <4>3, InvFacts
      <4> QED
        BY <2>0, <4>1, <4>4, <2>d DEF PrefixOf
    <3>2. \A e \in acked : \E i \in DOMAIN Durable(log) : Durable(log)[i] = e
      BY <2>0, <2>d DEF LogInv, ToldIsDurable
    <3> QED
      BY <3>1, <3>2 DEF NothingSeenIsLost
  <2>2. WatcherResumes
    <3> SUFFICES ASSUME Serving, seen # <<>>
                 PROVE  published[Len(seen)] = seen[Len(seen)]
      BY <2>0 DEF WatcherResumes, Resumes, LogInv, Watching
    <3>1. Len(seen) \in 1..Len(published) /\ Len(seen) \in 1..Len(seen)
      BY <2>0, InvFacts DEF LogInv, Watching
    <3>2. published[Len(seen)] = log.frames[Len(seen)]
      <4>1. CASE phase = "written"
        <5>1. log.frames = Append(published, job)
          BY <2>0, <4>1 DEF LogInv, JournalIsFile
        <5> QED
          BY <2>0, <3>1, <5>1, InvFacts
      <4>2. CASE phase # "written"
        BY <2>0, <3>1, <4>2 DEF Serving, LogInv, JournalIsFile, Settled
      <4> QED
        BY <4>1, <4>2
    <3> QED
      BY <2>0, <3>1, <3>2 DEF LogInv, ToldIsDurable
  <2>3. CanReopen
    BY <2>0, RefusalsStandFurther, InvFacts DEF CanReopen
  <2> QED
    BY <2>0, <2>1, <2>2, <2>3 DEF LogSurvives, LogInv
<1> QED
  BY <1>1, LogCorrect, PTL

-----------------------------------------------------------------------------
(* The refinement. *)

\* No step takes a frame off the medium, and none puts more than one on it.
LEMMA MediumGrows ==
    ASSUME LogInv, Next
    PROVE  /\ log'.synced \in {log.synced, log.synced + 1}
           /\ \A i \in 1..log.synced : log'.frames[i] = log.frames[i]
<1>0. LogInv
  OBVIOUS
<1>1. CASE RecoverLog \/ Commit \/ FailAppend
  <2>1. /\ log'.frames = log.frames
        /\ log'.synced \in {log.synced, Len(log.frames)}
    BY <1>0, <1>1, FileKept, InvFacts DEF RecoverLog, Commit, FailAppend
  <2>2. Len(log.frames) \in {log.synced, log.synced + 1}
    BY <1>0, InvFacts DEF LogInv, OneInDoubt
  <2> QED
    BY <2>1, <2>2
<1>2. CASE WriteFrame
  <2>1. log.frames = published /\ log.synced = Len(published) /\ job \in Events
    BY <1>0, <1>2 DEF WriteFrame, LogInv, JournalIsFile, Settled, JobUnderWay
  <2>2. CASE log' = PartlyWritten(log)
    BY <1>0, <2>2, FileKept, InvFacts
  <2>3. CASE log' = Written(log, Len(published), job)
    <3>1. log' = Written(log, Len(log.frames), job)
      BY <2>1, <2>3
    <3>2. log'.frames = Append(log.frames, job) /\ log'.synced = log.synced
      BY <1>0, <2>1, <3>1, FileWritten, InvFacts
    <3> QED
      BY <1>0, <2>1, <3>2, InvFacts
  <2> QED
    BY <1>2, <2>2, <2>3 DEF WriteFrame
<1>3. CASE PowerLoss
  <2>1. /\ log'.synced \in log.synced..Len(log.frames)
        /\ \A i \in 1..log'.synced : log'.frames[i] = log.frames[i]
    BY <1>0, <1>3, FileLoses, InvFacts DEF PowerLoss
  <2>2. Len(log.frames) <= log.synced + 1
    BY <1>0 DEF LogInv, OneInDoubt
  <2>4. log.synced \in Nat /\ Len(log.frames) \in Nat
    BY <1>0, InvFacts
  <2>5. /\ log'.synced \in Nat /\ log.synced <= log'.synced
        /\ log'.synced <= log.synced + 1
    BY <2>1, <2>2, <2>4
  <2>3. log'.synced \in {log.synced, log.synced + 1}
    BY <2>4, <2>5
  <2> QED
    BY <1>0, <2>1, <2>3, InvFacts
<1>4. CASE UNCHANGED log
  BY <1>4
<1>5. RecoverLog \/ Commit \/ FailAppend \/ WriteFrame \/ PowerLoss \/ UNCHANGED log
  BY DEF Next, Open, RecoverRefusals, Duplicate, Admit, Refuse, WriteRefusal,
         CommitRefusal, Crash, Connect, Deliver, TakeSnapshot
<1> QED
  BY <1>1, <1>2, <1>3, <1>4, <1>5

\* The server implements FlockHistory: one history, extended by one submission at a
\* time that it does not have yet, and told in order; each of the server's steps,
\* crashes, power losses and recoveries included, is a step of it or none.
THEOREM HistoryIsImplemented == Spec => ImplementsHistory
<1>1. Init => History!Init
  <2> SUFFICES ASSUME Init PROVE Durable(log) = <<>> /\ Len(seen) = 0
    BY DEF History!Init
  <2>1. LogInv /\ log.synced = 0
    BY InitLog DEF Init, Empty
  <2>2. Durable(log) \in Seq(Events) /\ Len(Durable(log)) = 0
    BY <2>1, DurablePart, InvFacts
  <2> QED
    BY <2>2 DEF Init
<1>2. ASSUME LogInv, LogInv', [Next]_vars
      PROVE  [History!Next]_<<Durable(log), Len(seen)>>
  <2>0. LogInv /\ LogInv'
    BY <1>2
  <2>1. CASE UNCHANGED vars
    BY <2>1 DEF vars, Durable
  <2>2. CASE Deliver
    <3>1. UNCHANGED Durable(log)
      BY <2>2 DEF Deliver, Durable
    <3>2. Len(seen') = Len(seen) + 1
      BY <2>0, <2>2, InvFacts DEF Deliver
    <3>3. Len(seen) < Len(Durable(log))
      <4>1. Len(seen') <= log'.synced /\ log' = log
        BY <2>0, <2>2 DEF Deliver, LogInv, ToldIsDurable
      <4> QED
        BY <2>0, <3>2, <4>1, DurablePart, InvFacts
    <3> QED
      BY <3>1, <3>2, <3>3 DEF History!Next, History!Tell
  <2>3. CASE Next /\ ~Deliver
    <3>1. seen' = seen
      BY <2>3 DEF Next, Open, RecoverLog, RecoverRefusals, Duplicate, Admit, Refuse,
                  WriteFrame, Commit, WriteRefusal, CommitRefusal, FailAppend, Crash,
                  PowerLoss, Forget, Connect, TakeSnapshot
    <3>2. /\ log'.synced \in {log.synced, log.synced + 1}
          /\ \A i \in 1..log.synced : log'.frames[i] = log.frames[i]
      BY <2>0, <2>3, MediumGrows
    <3>3. /\ Durable(log') \in Seq(Events)
          /\ Len(Durable(log')) = log'.synced
          /\ \A i \in 1..log'.synced : Durable(log')[i] = log'.frames[i]
      <4>1. log' \in File(Events) /\ FileOK(log')
        BY <2>0 DEF LogInv, TypeOK
      <4> QED
        BY <4>1, DurablePart
    <3>d. /\ Durable(log) \in Seq(Events)
          /\ Len(Durable(log)) = log.synced /\ log.synced \in Nat
          /\ DOMAIN Durable(log) = 1..log.synced
          /\ \A i \in 1..log.synced : Durable(log)[i] = log.frames[i]
      BY <2>0, DurablePart, InvFacts
    <3>4. CASE log'.synced = log.synced
      <4>1. Durable(log') = Durable(log)
        BY <3>2, <3>3, <3>d, <3>4
      <4> QED
        BY <3>1, <4>1
    <3>5. CASE log'.synced = log.synced + 1
      <4> DEFINE e == log'.frames[log.synced + 1]
      <4>1. /\ log.synced + 1 \in DOMAIN log'.frames /\ e \in Events
            /\ \A i \in 1..log.synced : i \in DOMAIN log'.frames
        <5>1. log' \in File(Events) /\ log'.synced <= Len(log'.frames)
          BY <2>0 DEF LogInv, TypeOK, FileOK
        <5>2. /\ log'.frames \in Seq(Events) /\ Len(log'.frames) \in Nat
              /\ DOMAIN log'.frames = 1..Len(log'.frames)
              /\ \A i \in 1..Len(log'.frames) : log'.frames[i] \in Events
          BY <5>1, FileFields
        <5> QED
          BY <5>1, <5>2, <3>d, <3>5
      <4>2. \A i \in DOMAIN Durable(log) : Durable(log)[i] # e
        <5>1. \A i, j \in DOMAIN log'.frames : log'.frames[i] = log'.frames[j] => i = j
          BY <2>0 DEF LogInv, AdmittedOnce
        <5> QED
          BY <3>2, <3>d, <4>1, <5>1
      <4>3. Durable(log') = Append(Durable(log), e)
        <5>1. /\ Append(Durable(log), e) \in Seq(Events)
              /\ Len(Append(Durable(log), e)) = log.synced + 1
              /\ Append(Durable(log), e)[log.synced + 1] = e
              /\ \A i \in 1..log.synced : Append(Durable(log), e)[i] = log.frames[i]
          BY <3>d, <4>1
        <5>2. \A i \in 1..(log.synced + 1) : Durable(log')[i] = Append(Durable(log), e)[i]
          BY <3>2, <3>3, <3>d, <3>5, <5>1
        <5> QED
          BY <3>3, <3>5, <5>1, <5>2
      <4> QED
        BY <3>1, <4>1, <4>2, <4>3 DEF History!Next, History!Extend
    <3> QED
      BY <3>2, <3>4, <3>5
  <2> QED
    BY <1>2, <2>1, <2>2, <2>3
<1> QED
  BY <1>1, <1>2, LogCorrect, PTL DEF Spec, ImplementsHistory, History!Spec

-----------------------------------------------------------------------------
(* The reader: the inductive invariant. *)

Saving == {"write", "sync", "rename", "syncdir"}

ReaderTyped ==
    /\ history \in Seq(Frames) /\ frames \in Seq(Frames)
    /\ file \in Seq(Frames) /\ durable \in Seq(Frames) /\ tmp \in Seq(Frames)
    /\ shown \in Seq(Frames)
    /\ at \in Nat
    /\ pc \in {"down", "opening", "idle", "rollback"} \union Saving

\* A frame that is not saved is the last one, and the rest has been shown.
AheadByOne ==
    /\ pc \in {"idle", "rollback"} => frames = shown
    /\ pc \in Saving => \E f \in Frames : frames = Append(shown, f)

\* What a save has written so far.
SaveHolds ==
    /\ pc \in {"sync", "rename"} => tmp = frames
    /\ pc = "syncdir" => file = frames

\* What was shown is in the file, however the machine ends.
ShownIsSaved == IsPrefix(shown, file) /\ IsPrefix(shown, durable)

ReaderInv == ReaderTyped /\ AheadByOne /\ SaveHolds /\ ShownIsSaved

\* PrefixFacts and fronts.
LEMMA PrefixFacts ==
    ASSUME NEW S, NEW s \in Seq(S)
    PROVE  /\ IsPrefix(s, s) /\ IsPrefix(<<>>, s)
           /\ IsPrefix(s, <<>>) => s = <<>>
           /\ \A x \in S : /\ Append(s, x) \in Seq(S) /\ IsPrefix(s, Append(s, x))
                           /\ Front(Append(s, x)) = s
<1>1. IsPrefix(s, s)
  BY DEF IsPrefix
<1>2. IsPrefix(<<>>, s)
  BY DEF IsPrefix
<1>3. IsPrefix(s, <<>>) => s = <<>>
  BY DEF IsPrefix
<1>4. ASSUME NEW x \in S
      PROVE  /\ Append(s, x) \in Seq(S) /\ IsPrefix(s, Append(s, x))
             /\ Front(Append(s, x)) = s
  <2>1. /\ Append(s, x) \in Seq(S) /\ Len(Append(s, x)) = Len(s) + 1
        /\ \A i \in 1..Len(s) : Append(s, x)[i] = s[i]
    OBVIOUS
  <2>2. SubSeq(Append(s, x), 1, Len(s)) = s
    BY <2>1
  <2>3. SubSeq(s, 1, Len(s)) = s
    OBVIOUS
  <2>4. Len(s) \in Nat /\ Len(s) <= Len(s) + 1 /\ Len(s) + 1 - 1 = Len(s)
    OBVIOUS
  <2>5. IsPrefix(s, Append(s, x))
    BY <2>1, <2>2, <2>3, <2>4 DEF IsPrefix
  <2>6. Front(Append(s, x)) = s
    BY <2>1, <2>2, <2>4 DEF Front
  <2> QED
    BY <2>1, <2>5, <2>6
<1> QED
  BY <1>1, <1>2, <1>3, <1>4

LEMMA InitReader == ReaderInit => ReaderInv
<1> SUFFICES ASSUME ReaderInit PROVE ReaderInv
  OBVIOUS
<1>1. <<>> \in Seq(Frames)
  OBVIOUS
<1>2. IsPrefix(<<>>, <<>>)
  BY <1>1, PrefixFacts
<1> QED
  BY <1>1, <1>2 DEF ReaderInit, NoFile, ReaderInv, ReaderTyped, AheadByOne, SaveHolds,
                    ShownIsSaved, Saving

\* The server's side of it does not touch what the reader holds.
LEMMA ServerKeeps ==
    ASSUME ReaderInv, (\E f \in Frames : Publish(f)) \/ Restore
    PROVE  ReaderInv' /\ IsPrefix(shown, shown')
<1> USE DEF ReaderInv
<1>1. /\ UNCHANGED <<frames, pc, file, durable, tmp, shown>>
      /\ history' \in Seq(Frames) /\ at' \in Nat
  <2>1. CASE Restore
    <3>1. history # <<>> /\ history \in Seq(Frames)
      BY <2>1 DEF Restore, ReaderTyped
    <3>2. Front(history) \in Seq(Frames)
      BY <3>1 DEF Front
    <3> QED
      BY <2>1, <3>2 DEF Restore
  <2>2. CASE \E f \in Frames : Publish(f)
    BY <2>2 DEF Publish, ReaderTyped
  <2> QED
    BY <2>1, <2>2
<1>2. ReaderTyped'
  BY <1>1 DEF ReaderTyped
<1>3. AheadByOne' /\ SaveHolds' /\ ShownIsSaved'
  BY <1>1 DEF AheadByOne, SaveHolds, ShownIsSaved
<1> QED
  BY <1>1, <1>2, <1>3, PrefixFacts DEF ReaderTyped

LEMMA OpeningKeeps ==
    ASSUME ReaderInv, OpenReader \/ OpenSynced \/ OpenFails
    PROVE  ReaderInv' /\ IsPrefix(shown, shown')
<1> USE DEF ReaderInv
<1>1. <<>> \in Seq(Frames)
  OBVIOUS
<1>2. CASE OpenReader
  <2>1. file = NoFile => shown = <<>>
    BY PrefixFacts DEF ReaderTyped, ShownIsSaved, NoFile
  <2>2. shown' = shown
    BY <1>2, <2>1 DEF OpenReader
  <2>3. ReaderTyped'
    BY <1>1, <1>2, <2>2 DEF OpenReader, ReaderTyped, NoFile
  <2>4. AheadByOne' /\ SaveHolds'
    BY <1>2, <2>1, <2>2 DEF OpenReader, AheadByOne, SaveHolds, Saving
  <2>5. ShownIsSaved'
    BY <1>2, <2>2 DEF OpenReader, ShownIsSaved
  <2> QED
    BY <2>2, <2>3, <2>4, <2>5, PrefixFacts DEF ReaderTyped
<1>3. CASE OpenSynced
  <2>1. ReaderTyped' /\ AheadByOne' /\ SaveHolds'
    BY <1>3 DEF OpenSynced, ReaderTyped, AheadByOne, SaveHolds, Saving
  <2>2. ShownIsSaved'
    BY <1>3, PrefixFacts DEF OpenSynced, ShownIsSaved, ReaderTyped
  <2> QED
    BY <1>3, <2>1, <2>2 DEF OpenSynced, ShownIsSaved
<1>4. CASE OpenFails
  <2>1. ReaderTyped' /\ AheadByOne' /\ SaveHolds' /\ ShownIsSaved'
    BY <1>4 DEF OpenFails, ReaderTyped, AheadByOne, SaveHolds, Saving, ShownIsSaved
  <2> QED
    BY <1>4, <2>1, PrefixFacts DEF OpenFails, ReaderTyped
<1> QED
  BY <1>2, <1>3, <1>4

LEMMA FollowingKeeps ==
    ASSUME ReaderInv, Watch \/ RollbackTold \/ ApplyFrame \/ StreamEnds
    PROVE  ReaderInv' /\ IsPrefix(shown, shown')
<1> USE DEF ReaderInv
<1>1. UNCHANGED <<history, file, durable, tmp, shown>>
  BY DEF Watch, RollbackTold, ApplyFrame, StreamEnds
<1>2. ShownIsSaved' /\ IsPrefix(shown, shown')
  BY <1>1, PrefixFacts DEF ShownIsSaved, ReaderTyped
<1>3. CASE Watch \/ RollbackTold \/ StreamEnds
  <2>1. Len(frames) \in Nat
    BY DEF ReaderTyped
  <2> QED
    BY <1>1, <1>2, <1>3, <2>1 DEF Watch, RollbackTold, StreamEnds, ReaderTyped, AheadByOne,
                                  SaveHolds, Saving
<1>4. CASE ApplyFrame
  <2>1. frames = shown
    BY <1>4 DEF ApplyFrame, AheadByOne
  <2>2. PICK f \in Frames : f = history[at]
    BY <1>4 DEF ApplyFrame, ReaderTyped
  <2>3. \/ frames' = Append(frames, f) /\ pc' = "write"
        \/ frames' = frames /\ pc' = "rollback"
    BY <1>4, <2>2 DEF ApplyFrame
  <2>4. at' \in Nat
    BY <1>4 DEF ApplyFrame, ReaderTyped
  <2>5. frames' \in Seq(Frames)
    <3>1. frames \in Seq(Frames)
      BY DEF ReaderTyped
    <3>2. Append(frames, f) \in Seq(Frames)
      BY <3>1
    <3> QED
      BY <2>3, <3>1, <3>2
  <2>6. ReaderTyped'
    BY <1>1, <2>3, <2>4, <2>5 DEF ReaderTyped, Saving
  <2>7. AheadByOne'
    BY <1>1, <2>1, <2>3 DEF AheadByOne, Saving
  <2>8. SaveHolds'
    BY <2>3 DEF SaveHolds
  <2> QED
    BY <1>2, <2>6, <2>7, <2>8
<1> QED
  BY <1>3, <1>4

LEMMA SavingKeeps ==
    ASSUME ReaderInv, WriteTmp \/ SyncTmp \/ Rename \/ SyncParent \/ SaveFails
    PROVE  ReaderInv' /\ IsPrefix(shown, shown')
<1> USE DEF ReaderInv
<1>1. pc \in Saving
  BY DEF WriteTmp, SyncTmp, Rename, SyncParent, SaveFails, Saving
<1>2. PICK f \in Frames : frames = Append(shown, f)
  BY <1>1 DEF AheadByOne
<1>3. IsPrefix(shown, frames) /\ Front(frames) = shown /\ IsPrefix(shown, shown)
  BY <1>2, PrefixFacts DEF ReaderTyped
<1>4. CASE WriteTmp \/ SyncTmp
  <2>1. ReaderTyped' /\ SaveHolds' /\ ShownIsSaved'
    BY <1>4 DEF WriteTmp, SyncTmp, ReaderTyped, SaveHolds, ShownIsSaved, Saving
  <2>2. AheadByOne'
    BY <1>2, <1>4 DEF WriteTmp, SyncTmp, AheadByOne, Saving
  <2> QED
    BY <1>3, <1>4, <2>1, <2>2 DEF WriteTmp, SyncTmp
<1>5. CASE Rename
  <2>1. ReaderTyped'
    BY <1>5 DEF Rename, ReaderTyped, Saving, NoFile
  <2>2. SaveHolds' /\ ShownIsSaved'
    BY <1>3, <1>5 DEF Rename, SaveHolds, ShownIsSaved
  <2>3. AheadByOne'
    BY <1>2, <1>5 DEF Rename, AheadByOne, Saving
  <2> QED
    BY <1>3, <1>5, <2>1, <2>2, <2>3 DEF Rename
<1>6. CASE SyncParent
  <2>1. ReaderTyped' /\ SaveHolds' /\ AheadByOne'
    BY <1>6 DEF SyncParent, ReaderTyped, SaveHolds, AheadByOne, Saving
  <2>2. file = frames /\ IsPrefix(frames, frames)
    BY <1>6, PrefixFacts DEF SyncParent, SaveHolds, ReaderTyped
  <2>3. ShownIsSaved'
    BY <1>6, <2>2 DEF SyncParent, ShownIsSaved
  <2> QED
    BY <1>3, <1>6, <2>1, <2>3 DEF SyncParent
<1>7. CASE SaveFails
  <2>1. frames' = shown /\ pc' = "idle" /\ at' = 0
        /\ UNCHANGED <<history, file, durable, tmp, shown>>
    BY <1>3, <1>7 DEF SaveFails
  <2>2. ReaderTyped' /\ SaveHolds' /\ AheadByOne' /\ ShownIsSaved'
    BY <2>1 DEF ReaderTyped, SaveHolds, AheadByOne, ShownIsSaved, Saving
  <2> QED
    BY <1>3, <2>1, <2>2
<1> QED
  BY <1>4, <1>5, <1>6, <1>7

LEMMA CrashKeeps ==
    ASSUME ReaderInv, ProcessCrash \/ MachineCrash
    PROVE  ReaderInv' /\ IsPrefix(shown, shown')
<1> USE DEF ReaderInv
<1>1. pc' = "down" /\ frames' = <<>> /\ at' = 0 /\ UNCHANGED <<history, shown>>
  BY DEF ProcessCrash, MachineCrash, Ended
<1>2. file' \in {file, durable} /\ durable' \in {file, durable} /\ tmp' \in {tmp, <<>>}
  BY DEF ProcessCrash, MachineCrash, NoFile
<1>3. ReaderTyped'
  <2>1. /\ history' \in Seq(Frames) /\ shown' \in Seq(Frames)
        /\ file' \in Seq(Frames) /\ durable' \in Seq(Frames)
    BY <1>1, <1>2 DEF ReaderTyped
  <2>2. <<>> \in Seq(Frames)
    OBVIOUS
  <2>3. frames' \in Seq(Frames) /\ tmp' \in Seq(Frames)
    BY <1>1, <1>2, <2>2 DEF ReaderTyped
  <2> QED
    BY <1>1, <2>1, <2>3 DEF ReaderTyped
<1>4. AheadByOne' /\ SaveHolds'
  BY <1>1 DEF AheadByOne, SaveHolds, Saving
<1>5. ShownIsSaved'
  BY <1>1, <1>2 DEF ShownIsSaved
<1> QED
  BY <1>1, <1>3, <1>4, <1>5, PrefixFacts DEF ReaderTyped

LEMMA NextReader ==
    ASSUME ReaderInv, [ReaderNext]_readerVars
    PROVE  ReaderInv' /\ IsPrefix(shown, shown')
<1>1. CASE UNCHANGED readerVars
  <2>1. ReaderInv'
    BY <1>1 DEF readerVars, ReaderInv, ReaderTyped, AheadByOne, SaveHolds, ShownIsSaved
  <2>2. shown \in Seq(Frames) /\ shown' = shown
    BY <1>1 DEF readerVars, ReaderInv, ReaderTyped
  <2> QED
    BY <2>1, <2>2, PrefixFacts
<1>2. CASE ReaderNext
  BY <1>2, ServerKeeps, OpeningKeeps, FollowingKeeps, SavingKeeps, CrashKeeps DEF ReaderNext
<1> QED
  BY <1>1, <1>2

-----------------------------------------------------------------------------
(* The reader: the theorem. *)

\* What a reader has shown it shows for ever (Reader::open, apply_saved and
\* save_atomic), for every set of frames, any number of crashes, failed file
\* operations and restored servers.
THEOREM ReaderNeverGoesBack == ReaderSpec => ShownOnlyGrows
<1>1. ReaderInit => ReaderInv
  BY InitReader
<1>2. ReaderInv /\ [ReaderNext]_readerVars => ReaderInv'
  BY NextReader
<1>3. ReaderInv /\ [ReaderNext]_readerVars => [IsPrefix(shown, shown')]_readerVars
  BY NextReader
<1> QED
  BY <1>1, <1>2, <1>3, PTL DEF ReaderSpec, ShownOnlyGrows

-----------------------------------------------------------------------------
(* The adapter that nudges: the inductive invariant. *)

Rows == [listed : BOOLEAN, label : Labels, term : Nat, idle : BOOLEAN]
Records == {"nudged", "misfire"}
Entries == [kind : {"brief", "taken", "demote"} \union Records, of : Briefs \union {NotGiven}]
AtABrief == {"observe", "settle", "prompt", "check", "record"}

NudgeTyped ==
    /\ board \in Seq(Entries) /\ view \in 0..Len(board)
    /\ herdr \in [Panes -> Rows] /\ paneChanges \in Nat
    /\ DOMAIN adapter = {"pc", "live", "of", "pane", "before", "found"}
    /\ adapter.pc \in {"down", "follow", "act"} \union AtABrief
    /\ adapter.live \in BOOLEAN
    /\ adapter.found \in {"none", "status"} \union Records
    /\ prompts \in [Briefs -> Nat] /\ unrecorded \in [Briefs -> Nat]
    /\ DOMAIN landed = Briefs

\* The nudge under way is of a brief of this run, in a pane of herdr.
AtItsBrief ==
    /\ adapter.pc \in AtABrief =>
          adapter.of \in Briefs /\ adapter.of \in tried /\ adapter.live
    /\ adapter.pc = "act" => adapter.live
    /\ adapter.pc \in {"settle", "prompt", "check"} => adapter.pane \in Panes
    /\ adapter.pc = "record" => adapter.found # "none"

\* Terminals are numbered by the changes, so the one a pane has is never an earlier one:
\* a pane that has at the last look the terminal of the first look had it in between.
TerminalsAscend ==
    /\ \A p \in Panes : herdr[p].term <= paneChanges
    /\ adapter.pc \in {"prompt", "check"} =>
          adapter.before[3] \in Nat /\ adapter.before[3] <= herdr[adapter.pane].term
    /\ adapter.pc = "check" =>
          /\ landed[adapter.of] \in Nat /\ prompts[adapter.of] > 0
          /\ adapter.before[3] <= landed[adapter.of]
          /\ landed[adapter.of] <= herdr[adapter.pane].term

\* The brief has a record on the board.
Recorded(b) == \E i \in 1..Len(board) : board[i].kind \in Records /\ board[i].of = b

\* A record that this run has not read is its own.
UnreadIsOwn ==
    adapter.live => \A i \in 1..Len(board) :
                       i > view /\ board[i].kind \in Records => board[i].of \in tried

\* A brief was prompted and its record is still to be made.
InFlight(b) ==
    /\ adapter.of = b
    /\ adapter.pc = "check" \/ (adapter.pc = "record" /\ adapter.found # "status")

\* Every prompt but the last lost its record, and that one is recorded or being so.
PromptsAccounted ==
    /\ adapter.pc \in AtABrief => ~Recorded(adapter.of)
    /\ \A b \in Briefs :
          prompts[b] <= unrecorded[b] + (IF Recorded(b) \/ InFlight(b) THEN 1 ELSE 0)

NudgeInv ==
    /\ NudgeTyped /\ AtItsBrief /\ TerminalsAscend /\ UnreadIsOwn /\ PromptsAccounted
    /\ RecordIsTrue

-----------------------------------------------------------------------------
(* The adapter that nudges: each step keeps it. *)

LEMMA InitNudge == NudgeInit => NudgeInv
<1> SUFFICES ASSUME NudgeInit PROVE NudgeInv
  OBVIOUS
<1> USE DEF NudgeInit, Down
<1>1. Len(board) = 0 /\ board \in Seq(Entries)
  OBVIOUS
<1>2. NudgeTyped
  BY <1>1 DEF NudgeTyped, Rows, Labels, NoLabel
<1>3. AtItsBrief /\ TerminalsAscend
  BY DEF AtItsBrief, TerminalsAscend, AtABrief
<1>4. UnreadIsOwn /\ PromptsAccounted /\ RecordIsTrue
  BY <1>1 DEF UnreadIsOwn, PromptsAccounted, RecordIsTrue, AtABrief
<1> QED
  BY <1>2, <1>3, <1>4 DEF NudgeInv

\* An event is put on the board.
LEMMA PostAppends ==
    ASSUME NudgeTyped, NEW k \in {"brief", "taken", "demote"} \union Records,
           NEW o \in Briefs \union {NotGiven}, Post(k, o)
    PROVE  /\ board' \in Seq(Entries) /\ Len(board') = Len(board) + 1 /\ Len(board) \in Nat
           /\ board'[Len(board) + 1].kind = k /\ board'[Len(board) + 1].of = o
           /\ \A i \in 1..Len(board) : board'[i] = board[i]
<1>1. PICK x : x = [kind |-> k, of |-> o]
  OBVIOUS
<1>2. x \in Entries /\ x.kind = k /\ x.of = o
  BY <1>1 DEF Entries
<1>3. board \in Seq(Entries) /\ board' = Append(board, x)
  BY <1>1 DEF NudgeTyped, Post
<1> HIDE DEF Entries
<1> QED
  BY <1>2, <1>3

LEMMA BoardMovesKeeps ==
    ASSUME NudgeInv, NEW k \in {"brief", "taken", "demote"},
           NEW o \in Briefs \union {NotGiven}, BoardMoves(k, o)
    PROVE  NudgeInv'
<1> USE DEF NudgeInv
<1>1. UNCHANGED <<view, herdr, paneChanges, adapter, tried, prompts, unrecorded, landed>>
  BY DEF BoardMoves
<1>2. /\ board' \in Seq(Entries) /\ Len(board') = Len(board) + 1 /\ Len(board) \in Nat
      /\ board'[Len(board) + 1].kind = k
      /\ \A i \in 1..Len(board) : board'[i] = board[i]
  BY PostAppends DEF BoardMoves
<1>3. k \notin Records
  BY DEF Records
<1>4. NudgeTyped'
  BY <1>1, <1>2 DEF NudgeTyped
<1>5. AtItsBrief' /\ TerminalsAscend' /\ RecordIsTrue'
  BY <1>1 DEF AtItsBrief, TerminalsAscend, RecordIsTrue
<1>6. \A i \in 1..Len(board') : board'[i].kind \in Records => i \in 1..Len(board)
  BY <1>2, <1>3
<1>7. UnreadIsOwn'
  BY <1>1, <1>2, <1>6 DEF UnreadIsOwn
<1>8. \A b : Recorded(b)' <=> Recorded(b)
  BY <1>2, <1>6 DEF Recorded
<1>9. PromptsAccounted'
  BY <1>1, <1>8 DEF PromptsAccounted, InFlight
<1> QED
  BY <1>4, <1>5, <1>7, <1>9

LEMMA HerdrKeeps ==
    ASSUME NudgeInv, NEW p \in Panes, HerdrMoves(p)
    PROVE  NudgeInv'
<1> USE DEF NudgeInv
<1>1. herdr \in [Panes -> Rows] /\ paneChanges \in Nat /\ herdr[p] \in Rows
  BY DEF NudgeTyped
<1>2. PICK row : /\ HerdrChanges(p, row)
                 /\ \/ \E l \in Labels : row = [herdr[p] EXCEPT !.label = l]
                    \/ row = [herdr[p] EXCEPT !.term = paneChanges + 1]
                    \/ row = [herdr[p] EXCEPT !.listed = ~herdr[p].listed]
                    \/ row = [herdr[p] EXCEPT !.idle = ~herdr[p].idle]
  BY DEF HerdrMoves
<1>3. row \in Rows /\ row.term \in {herdr[p].term, paneChanges + 1}
  <2>1. CASE \E l \in Labels : row = [herdr[p] EXCEPT !.label = l]
    BY <1>1, <2>1 DEF Rows
  <2>2. CASE row = [herdr[p] EXCEPT !.term = paneChanges + 1]
    BY <1>1, <2>2 DEF Rows
  <2>3. CASE row = [herdr[p] EXCEPT !.listed = ~herdr[p].listed]
    <3>1. PICK b \in BOOLEAN : row = [herdr[p] EXCEPT !.listed = b]
      BY <2>3
    <3> QED
      BY <1>1, <3>1 DEF Rows
  <2>4. CASE row = [herdr[p] EXCEPT !.idle = ~herdr[p].idle]
    <3>1. PICK b \in BOOLEAN : row = [herdr[p] EXCEPT !.idle = b]
      BY <2>4
    <3> QED
      BY <1>1, <3>1 DEF Rows
  <2> QED
    BY <1>2, <2>1, <2>2, <2>3, <2>4
<1>4. /\ paneChanges' = paneChanges + 1 /\ herdr' = [herdr EXCEPT ![p] = row]
      /\ UNCHANGED <<board, view, adapter, tried, prompts, unrecorded, landed>>
  BY <1>2 DEF HerdrChanges
<1>5. \A q \in Panes : /\ herdr[q].term \in Nat /\ herdr'[q].term \in Nat
                       /\ herdr[q].term <= herdr'[q].term /\ herdr'[q].term <= paneChanges'
  <2> SUFFICES ASSUME NEW q \in Panes
               PROVE  /\ herdr[q].term \in Nat /\ herdr'[q].term \in Nat
                      /\ herdr[q].term <= herdr'[q].term /\ herdr'[q].term <= paneChanges'
    OBVIOUS
  <2>1. herdr[q].term \in Nat /\ herdr[q].term <= paneChanges
    BY <1>1 DEF Rows, TerminalsAscend
  <2>2. herdr'[q] = IF q = p THEN row ELSE herdr[q]
    BY <1>1, <1>4
  <2> QED
    BY <1>1, <1>3, <1>4, <2>1, <2>2
<1>6. NudgeTyped'
  BY <1>1, <1>3, <1>4 DEF NudgeTyped
<1>7. AtItsBrief' /\ RecordIsTrue'
  BY <1>4 DEF AtItsBrief, RecordIsTrue
<1>8. TerminalsAscend'
  BY <1>4, <1>5 DEF TerminalsAscend, AtItsBrief
<1>9. UnreadIsOwn'
  BY <1>4 DEF UnreadIsOwn
<1>10. PromptsAccounted'
  BY <1>4 DEF PromptsAccounted, Recorded, InFlight
<1> QED
  BY <1>6, <1>7, <1>8, <1>9, <1>10

\* A step that leaves the adapter between two nudges.
LEMMA BetweenNudges ==
    ASSUME NudgeInv, UNCHANGED <<board, herdr, paneChanges, prompts, unrecorded, landed>>,
           view' \in 0..Len(board), view <= view',
           adapter.pc \notin AtABrief,
           DOMAIN adapter' = DOMAIN Down,
           adapter'.pc \in {"down", "follow", "act"}, adapter'.live \in BOOLEAN,
           adapter'.found \in {"none", "status"} \union Records,
           adapter'.pc = "act" => adapter'.live,
           adapter'.live => \/ adapter.live /\ tried' = tried
                            \/ view' = Len(board)
    PROVE  NudgeInv'
<1> USE DEF NudgeInv
<1>1. NudgeTyped'
  BY DEF NudgeTyped, Down
<1>2. AtItsBrief' /\ TerminalsAscend' /\ RecordIsTrue'
  BY DEF AtItsBrief, TerminalsAscend, RecordIsTrue, AtABrief
<1>3. UnreadIsOwn'
  <2>1. view \in Nat /\ view' \in Nat /\ Len(board) \in Nat
    BY DEF NudgeTyped
  <2> QED
    BY <2>1 DEF UnreadIsOwn
<1>4. PromptsAccounted'
  <2>1. \A b \in Briefs : ~InFlight(b) /\ ~InFlight(b)'
    BY DEF InFlight, AtABrief
  <2>2. \A b \in Briefs : Recorded(b)' <=> Recorded(b)
    BY DEF Recorded
  <2> QED
    BY <2>1, <2>2 DEF PromptsAccounted, AtABrief
<1> QED
  BY <1>1, <1>2, <1>3, <1>4

LEMMA FollowKeeps ==
    ASSUME NudgeInv, Start \/ Frame \/ Caught \/ Acted
    PROVE  NudgeInv'
<1> USE DEF NudgeInv
<1>1. UNCHANGED <<board, herdr, paneChanges, prompts, unrecorded, landed>>
  BY DEF Start, Frame, Caught, Acted
<1>2. adapter.pc \notin AtABrief
  BY DEF Start, Frame, Caught, Acted, AtABrief
<1>3. view \in 0..Len(board) /\ Len(board) \in Nat
  BY DEF NudgeTyped
<1>4. CASE Start
  <2>1. /\ adapter' = [Down EXCEPT !.pc = "follow"] /\ UNCHANGED view
    BY <1>4 DEF Start
  <2>2. DOMAIN adapter' = DOMAIN Down /\ adapter'.pc = "follow" /\ adapter'.live = FALSE
        /\ adapter'.found = "none"
    BY <2>1 DEF Down
  <2>3. view' \in 0..Len(board) /\ view <= view'
    BY <1>3, <2>1
  <2> QED
    BY <1>1, <1>2, <2>2, <2>3, BetweenNudges
<1>5. CASE Frame \/ Caught
  <2>1. /\ view' \in 0..Len(board) /\ view <= view' /\ UNCHANGED tried
        /\ adapter.live \/ view' = Len(board) \/ UNCHANGED adapter
        /\ UNCHANGED adapter \/ Acts(view')
        /\ adapter.pc = "follow"
    BY <1>3, <1>5 DEF Frame, Caught
  <2>2. CASE UNCHANGED adapter
    BY <1>1, <1>2, <1>3, <2>1, <2>2, BetweenNudges DEF NudgeTyped, Down
  <2>3. CASE Acts(view') /\ ~UNCHANGED adapter
    <3>1. /\ DOMAIN adapter' = DOMAIN Down
          /\ \/ adapter'.pc = "down" /\ adapter'.live = FALSE /\ adapter'.found = "none"
             \/ adapter'.pc = "act" /\ adapter'.live = TRUE /\ adapter'.found = adapter.found
      <4>1. CASE adapter' = Down
        BY <4>1 DEF Down
      <4>2. CASE adapter' = [adapter EXCEPT !.pc = "act", !.live = TRUE]
        BY <4>2 DEF NudgeTyped, Down
      <4> QED
        BY <2>3, <4>1, <4>2 DEF Acts
    <3>2. adapter.found \in {"none", "status"} \union Records
      BY DEF NudgeTyped
    <3> QED
      BY <1>1, <1>2, <1>3, <2>1, <2>3, <3>1, <3>2, BetweenNudges
  <2> QED
    BY <2>1, <2>2, <2>3
<1>6. CASE Acted
  <2>1. adapter' = [adapter EXCEPT !.pc = "follow"] /\ UNCHANGED <<view, tried>>
    BY <1>6 DEF Acted
  <2>2. /\ DOMAIN adapter' = DOMAIN Down /\ adapter'.pc = "follow"
        /\ adapter'.live = adapter.live /\ adapter'.found = adapter.found
    BY <2>1 DEF NudgeTyped, Down
  <2>3. adapter.live \in BOOLEAN /\ adapter.found \in {"none", "status"} \union Records
    BY DEF NudgeTyped
  <2> QED
    BY <1>1, <1>2, <1>3, <2>1, <2>2, <2>3, BetweenNudges
<1> QED
  BY <1>4, <1>5, <1>6
-----------------------------------------------------------------------------
(* The adapter that nudges: the nudge itself. *)

\* A step of the nudge that puts nothing on the board and prompts nothing.
LEMMA NudgeGoesOn ==
    ASSUME NudgeInv, UNCHANGED <<board, view, herdr, paneChanges, tried, prompts, unrecorded, landed>>,
           adapter.pc \in AtABrief, adapter'.pc \in AtABrief,
           DOMAIN adapter' = DOMAIN adapter, adapter'.of = adapter.of,
           adapter'.live = adapter.live,
           adapter'.found \in {"none", "status"} \union Records,
           adapter'.pc \in {"settle", "prompt", "check"} => adapter'.pane \in Panes,
           adapter'.pc \in {"prompt", "check"} =>
               adapter'.before[3] \in Nat /\ adapter'.before[3] <= herdr[adapter'.pane].term,
           adapter'.pc # "check", adapter'.pc = "record" => adapter'.found # "none",
           InFlight(adapter.of) => adapter'.pc = "record" /\ adapter'.found # "status",
           RecordIsTrue'
    PROVE  NudgeInv'
<1> USE DEF NudgeInv
<1>1. NudgeTyped'
  BY DEF NudgeTyped
<1>2. AtItsBrief' /\ TerminalsAscend'
  BY DEF AtItsBrief, TerminalsAscend, AtABrief
<1>3. UnreadIsOwn'
  BY DEF UnreadIsOwn
<1>4. \A b : Recorded(b)' <=> Recorded(b)
  BY DEF Recorded
<1>5. \A b : InFlight(b) => InFlight(b)'
  BY DEF InFlight
<1>6. PromptsAccounted'
  <2>1. prompts \in [Briefs -> Nat] /\ unrecorded \in [Briefs -> Nat]
    BY DEF NudgeTyped
  <2> QED
    BY <1>4, <1>5, <2>1 DEF PromptsAccounted
<1> QED
  BY <1>1, <1>2, <1>3, <1>6

LEMMA TryKeeps ==
    ASSUME NudgeInv, NEW b \in Briefs, Try(b)
    PROVE  NudgeInv'
<1> USE DEF NudgeInv
<1>1. /\ adapter.pc = "act" /\ b \in Pending(view) /\ b \notin tried
      /\ adapter' = [adapter EXCEPT !.pc = "observe", !.of = b]
      /\ tried' = tried \union {b}
      /\ UNCHANGED <<board, view, herdr, paneChanges, prompts, unrecorded, landed>>
  BY DEF Try
<1>2. /\ DOMAIN adapter' = DOMAIN adapter /\ adapter'.pc = "observe" /\ adapter'.of = b
      /\ adapter'.live = adapter.live /\ adapter'.found = adapter.found
  BY <1>1 DEF NudgeTyped
<1>3. NudgeTyped'
  BY <1>1, <1>2 DEF NudgeTyped, AtABrief
<1>4. AtItsBrief' /\ TerminalsAscend' /\ RecordIsTrue'
  BY <1>1, <1>2 DEF AtItsBrief, TerminalsAscend, RecordIsTrue
<1>5. UnreadIsOwn'
  BY <1>1, <1>2 DEF UnreadIsOwn
<1>6. ~Recorded(b)
  <2> SUFFICES ASSUME NEW i \in 1..Len(board), board[i].kind \in Records, board[i].of = b
               PROVE  FALSE
    BY DEF Recorded
  <2>1. adapter.live /\ view \in 0..Len(board) /\ Len(board) \in Nat
    BY <1>1 DEF AtItsBrief, NudgeTyped
  <2>2. i \in 1..view
    BY <1>1, <2>1 DEF UnreadIsOwn
  <2>3. HasEvent(view, {"taken", "nudged", "misfire"}, b)
    BY <2>2 DEF HasEvent, Told, Records
  <2> QED
    BY <1>1, <2>3 DEF Pending
<1>7. \A c : /\ Recorded(c)' <=> Recorded(c)
             /\ ~InFlight(c)
  BY <1>1 DEF Recorded, InFlight
<1>8. PromptsAccounted'
  <2>1. prompts \in [Briefs -> Nat] /\ unrecorded \in [Briefs -> Nat]
    BY DEF NudgeTyped
  <2> QED
    BY <1>1, <1>2, <1>6, <1>7, <2>1 DEF PromptsAccounted
<1> QED
  BY <1>3, <1>4, <1>5, <1>8

\* What is resolved is a pane of herdr.
LEMMA ResolvedIsAPane == Resolve \subseteq Panes
BY DEF Resolve, Placed, Listed, Labelled

LEMMA ObserveKeeps ==
    ASSUME NudgeInv, NEW ok \in BOOLEAN, Observe(ok)
    PROVE  NudgeInv'
<1> USE DEF NudgeInv
<1>1. /\ adapter.pc = "observe" /\ adapter.pc \in AtABrief
      /\ UNCHANGED <<board, view, herdr, paneChanges, tried, prompts, unrecorded, landed>>
  BY DEF Observe, AtABrief
<1>2. ~InFlight(adapter.of)
  BY <1>1 DEF InFlight
<1>3. CASE Found("status")
  <2>1. /\ DOMAIN adapter' = DOMAIN adapter /\ adapter'.pc = "record"
        /\ adapter'.found = "status" /\ adapter'.of = adapter.of /\ adapter'.live = adapter.live
    BY <1>3 DEF Found, NudgeTyped
  <2>2. RecordIsTrue'
    BY <2>1 DEF RecordIsTrue
  <2>3. adapter'.pc \in AtABrief
    BY <2>1 DEF AtABrief
  <2> QED
    BY <1>1, <1>2, <2>1, <2>2, <2>3, NudgeGoesOn
<1>4. CASE ~Found("status")
  <2>1. PICK p \in Resolve :
          adapter' = [adapter EXCEPT !.pc = "settle", !.pane = p, !.before = Identity(p)]
    BY <1>4 DEF Observe
  <2>2. /\ DOMAIN adapter' = DOMAIN adapter /\ adapter'.pc = "settle"
        /\ adapter'.found = adapter.found /\ adapter'.of = adapter.of
        /\ adapter'.live = adapter.live /\ adapter'.pane = p
    BY <2>1 DEF NudgeTyped
  <2>3. p \in Panes
    BY ResolvedIsAPane
  <2>4. RecordIsTrue'
    BY <2>2 DEF RecordIsTrue
  <2>5. adapter'.pc \in AtABrief
    BY <2>2 DEF AtABrief
  <2>6. adapter.found \in {"none", "status"} \union Records
    BY DEF NudgeTyped
  <2> QED
    BY <1>1, <1>2, <2>2, <2>3, <2>4, <2>5, <2>6, NudgeGoesOn
<1> QED
  BY <1>3, <1>4

LEMMA SettledKeeps ==
    ASSUME NudgeInv, NEW ok \in BOOLEAN, PaneSettled(ok)
    PROVE  NudgeInv'
<1> USE DEF NudgeInv
<1>1. /\ adapter.pc = "settle" /\ adapter.pc \in AtABrief
      /\ UNCHANGED <<board, view, herdr, paneChanges, tried, prompts, unrecorded, landed>>
  BY DEF PaneSettled, AtABrief
<1>2. ~InFlight(adapter.of)
  BY <1>1 DEF InFlight
<1>3. CASE Found("status")
  <2>1. /\ DOMAIN adapter' = DOMAIN adapter /\ adapter'.pc = "record"
        /\ adapter'.found = "status" /\ adapter'.of = adapter.of /\ adapter'.live = adapter.live
    BY <1>3 DEF Found, NudgeTyped
  <2>2. RecordIsTrue'
    BY <2>1 DEF RecordIsTrue
  <2>3. adapter'.pc \in AtABrief
    BY <2>1 DEF AtABrief
  <2> QED
    BY <1>1, <1>2, <2>1, <2>2, <2>3, NudgeGoesOn
<1>4. CASE ~Found("status")
  <2>1. /\ adapter' = [adapter EXCEPT !.pc = "prompt"]
        /\ Identity(adapter.pane) = adapter.before
    BY <1>4 DEF PaneSettled
  <2>2. /\ DOMAIN adapter' = DOMAIN adapter /\ adapter'.pc = "prompt"
        /\ adapter'.found = adapter.found /\ adapter'.of = adapter.of
        /\ adapter'.live = adapter.live /\ adapter'.pane = adapter.pane
        /\ adapter'.before = adapter.before
    BY <2>1 DEF NudgeTyped
  <2>3. adapter.pane \in Panes
    BY <1>1 DEF AtItsBrief
  <2>4. adapter.before[3] = herdr[adapter.pane].term
    BY <2>1 DEF Identity
  <2>5. herdr[adapter.pane].term \in Nat
    BY <2>3 DEF NudgeTyped, Rows
  <2>6. RecordIsTrue'
    BY <2>2 DEF RecordIsTrue
  <2>7. adapter'.pc \in AtABrief
    BY <2>2 DEF AtABrief
  <2>8. adapter.found \in {"none", "status"} \union Records
    BY DEF NudgeTyped
  <2> QED
    BY <1>1, <1>2, <2>2, <2>3, <2>4, <2>5, <2>6, <2>7, <2>8, NudgeGoesOn
<1> QED
  BY <1>3, <1>4

LEMMA CheckKeeps ==
    ASSUME NudgeInv, NEW ok \in BOOLEAN, Check(ok)
    PROVE  NudgeInv'
<1> USE DEF NudgeInv
<1>1. /\ adapter.pc = "check" /\ adapter.pc \in AtABrief
      /\ UNCHANGED <<board, view, herdr, paneChanges, tried, prompts, unrecorded, landed>>
  BY DEF Check, AtABrief
<1>2. PICK what \in Records :
        /\ adapter' = [adapter EXCEPT !.pc = "record", !.found = what]
        /\ what = "nudged" => Identity(adapter.pane) = adapter.before
  BY DEF Check, Found, Records
<1>3. /\ DOMAIN adapter' = DOMAIN adapter /\ adapter'.pc = "record"
      /\ adapter'.found = what /\ adapter'.of = adapter.of
      /\ adapter'.live = adapter.live /\ adapter'.before = adapter.before
  BY <1>2 DEF NudgeTyped
<1>4. what = "nudged" => landed[adapter.of] = adapter.before[3] /\ prompts[adapter.of] > 0
  <2> SUFFICES ASSUME what = "nudged"
               PROVE  landed[adapter.of] = adapter.before[3] /\ prompts[adapter.of] > 0
    OBVIOUS
  <2>1. adapter.pane \in Panes
    BY <1>1 DEF AtItsBrief
  <2>2. adapter.before[3] = herdr[adapter.pane].term
    BY <1>2 DEF Identity
  <2>3. /\ adapter.before[3] \in Nat /\ landed[adapter.of] \in Nat /\ prompts[adapter.of] > 0
        /\ adapter.before[3] <= landed[adapter.of]
        /\ landed[adapter.of] <= herdr[adapter.pane].term
    BY <1>1 DEF TerminalsAscend
  <2> QED
    BY <2>2, <2>3
<1>5. RecordIsTrue'
  BY <1>1, <1>3, <1>4 DEF RecordIsTrue
<1>6. adapter'.pc \in AtABrief /\ what # "status" /\ what # "none"
  BY <1>3 DEF AtABrief, Records
<1> QED
  BY <1>1, <1>3, <1>5, <1>6, NudgeGoesOn

LEMMA PromptKeeps ==
    ASSUME NudgeInv, Prompt
    PROVE  NudgeInv'
<1> USE DEF NudgeInv
<1>1. /\ adapter.pc = "prompt" /\ adapter.pc \in AtABrief
      /\ prompts' = [prompts EXCEPT ![adapter.of] = prompts[adapter.of] + 1]
      /\ landed' = [landed EXCEPT ![adapter.of] = herdr[adapter.pane].term]
      /\ adapter' = [adapter EXCEPT !.pc = "check"]
      /\ UNCHANGED <<board, view, herdr, paneChanges, tried, unrecorded>>
  BY DEF Prompt, AtABrief
<1>2. /\ DOMAIN adapter' = DOMAIN adapter /\ adapter'.pc = "check"
      /\ adapter'.found = adapter.found /\ adapter'.of = adapter.of
      /\ adapter'.live = adapter.live /\ adapter'.pane = adapter.pane
      /\ adapter'.before = adapter.before
  BY <1>1 DEF NudgeTyped
<1>3. adapter.of \in Briefs /\ adapter.pane \in Panes
  BY <1>1 DEF AtItsBrief
<1>4. herdr[adapter.pane].term \in Nat
  BY <1>3 DEF NudgeTyped, Rows
<1>5. /\ prompts[adapter.of] \in Nat /\ prompts \in [Briefs -> Nat]
      /\ unrecorded \in [Briefs -> Nat] /\ DOMAIN landed = Briefs
  BY <1>3 DEF NudgeTyped
<1>6. /\ prompts'[adapter.of] = prompts[adapter.of] + 1
      /\ landed'[adapter.of] = herdr[adapter.pane].term
      /\ DOMAIN landed' = Briefs /\ prompts' \in [Briefs -> Nat]
      /\ \A b \in Briefs : b # adapter.of => prompts'[b] = prompts[b]
  BY <1>1, <1>3, <1>5
<1>7. NudgeTyped'
  BY <1>1, <1>2, <1>6 DEF NudgeTyped, AtABrief
<1>8. AtItsBrief' /\ RecordIsTrue'
  BY <1>1, <1>2, <1>3 DEF AtItsBrief, RecordIsTrue, AtABrief
<1>9. TerminalsAscend'
  BY <1>1, <1>2, <1>4, <1>5, <1>6 DEF TerminalsAscend
<1>10. UnreadIsOwn'
  BY <1>1, <1>2 DEF UnreadIsOwn
<1>11. \A b : Recorded(b)' <=> Recorded(b)
  BY <1>1 DEF Recorded
<1>12. /\ InFlight(adapter.of)' /\ \A b : ~InFlight(b)
       /\ \A b : InFlight(b)' => b = adapter.of
  BY <1>1, <1>2 DEF InFlight
<1>13. PromptsAccounted'
  <2>1. ~Recorded(adapter.of)
    BY <1>1 DEF PromptsAccounted
  <2>2. ASSUME NEW b \in Briefs
        PROVE  prompts'[b] <= unrecorded[b] + (IF Recorded(b)' \/ InFlight(b)' THEN 1 ELSE 0)
    <3>1. prompts[b] \in Nat /\ unrecorded[b] \in Nat
      BY <1>5
    <3>2. CASE b = adapter.of
      <4>1. prompts[b] <= unrecorded[b]
        BY <1>12, <2>1, <3>1, <3>2 DEF PromptsAccounted
      <4> QED
        BY <1>6, <1>12, <3>1, <3>2, <4>1
    <3>3. CASE b # adapter.of
      BY <1>6, <1>11, <1>12, <3>1, <3>3 DEF PromptsAccounted
    <3> QED
      BY <3>2, <3>3
  <2> QED
    BY <1>1, <1>2, <1>11, <2>1, <2>2 DEF PromptsAccounted
<1> QED
  BY <1>7, <1>8, <1>9, <1>10, <1>13

LEMMA PromptFailsKeeps ==
    ASSUME NudgeInv, NEW reached \in BOOLEAN, PromptFails(reached)
    PROVE  NudgeInv'
<1> USE DEF NudgeInv
<1>1. /\ adapter.pc = "prompt" /\ adapter.pc \in AtABrief
      /\ adapter' = [adapter EXCEPT !.pc = "record", !.found = "status"]
      /\ UNCHANGED <<board, view, herdr, paneChanges, tried, landed>>
  BY DEF PromptFails, Found, AtABrief
<1>2. /\ DOMAIN adapter' = DOMAIN adapter /\ adapter'.pc = "record"
      /\ adapter'.found = "status" /\ adapter'.of = adapter.of
      /\ adapter'.live = adapter.live
  BY <1>1 DEF NudgeTyped
<1>3. adapter.of \in Briefs
  BY <1>1 DEF AtItsBrief
<1>4. prompts \in [Briefs -> Nat] /\ unrecorded \in [Briefs -> Nat]
  BY DEF NudgeTyped
<1>5. PICK n \in {0, 1} :
        /\ prompts' = [prompts EXCEPT ![adapter.of] = prompts[adapter.of] + n]
        /\ unrecorded' = [unrecorded EXCEPT ![adapter.of] = unrecorded[adapter.of] + n]
  <2>1. prompts[adapter.of] \in Nat /\ unrecorded[adapter.of] \in Nat
    BY <1>3, <1>4
  <2>2. CASE reached
    BY <2>2 DEF PromptFails
  <2>3. CASE ~reached
    <3>1. prompts[adapter.of] + 0 = prompts[adapter.of]
          /\ unrecorded[adapter.of] + 0 = unrecorded[adapter.of]
      BY <2>1
    <3>2. /\ prompts' = [prompts EXCEPT ![adapter.of] = prompts[adapter.of]]
          /\ unrecorded' = [unrecorded EXCEPT ![adapter.of] = unrecorded[adapter.of]]
      BY <2>3 DEF PromptFails
    <3> QED
      BY <3>1, <3>2
  <2> QED
    BY <2>2, <2>3
<1>6. \A b \in Briefs :
        /\ prompts'[b] = prompts[b] + (IF b = adapter.of THEN n ELSE 0)
        /\ unrecorded'[b] = unrecorded[b] + (IF b = adapter.of THEN n ELSE 0)
  BY <1>3, <1>4, <1>5
<1>7. prompts' \in [Briefs -> Nat] /\ unrecorded' \in [Briefs -> Nat]
  BY <1>3, <1>4, <1>5
<1>8. NudgeTyped'
  BY <1>1, <1>2, <1>7 DEF NudgeTyped, AtABrief
<1>9. AtItsBrief' /\ TerminalsAscend' /\ RecordIsTrue'
  BY <1>1, <1>2, <1>3 DEF AtItsBrief, TerminalsAscend, RecordIsTrue, AtABrief
<1>10. UnreadIsOwn'
  BY <1>1, <1>2 DEF UnreadIsOwn
<1>11. \A b : (Recorded(b)' <=> Recorded(b)) /\ ~InFlight(b)
  BY <1>1 DEF Recorded, InFlight
<1>12. PromptsAccounted'
  <2>1. ASSUME NEW b \in Briefs
        PROVE  prompts'[b] <= unrecorded'[b] + (IF Recorded(b)' \/ InFlight(b)' THEN 1 ELSE 0)
    <3>1. prompts[b] \in Nat /\ unrecorded[b] \in Nat
      BY <1>4
    <3>2. prompts[b] <= unrecorded[b] + (IF Recorded(b) THEN 1 ELSE 0)
      BY <1>11 DEF PromptsAccounted
    <3>3. prompts'[b] <= unrecorded'[b] + (IF Recorded(b) THEN 1 ELSE 0)
      BY <1>6, <3>1, <3>2
    <3>4. unrecorded'[b] \in Nat /\ prompts'[b] \in Nat
      BY <1>7
    <3> QED
      BY <1>11, <3>3, <3>4
  <2> QED
    BY <1>1, <1>2, <1>11, <2>1 DEF PromptsAccounted
<1> QED
  BY <1>8, <1>9, <1>10, <1>12

\* The adapter leaves a nudge, recorded on the board or counted as unrecorded.
LEMMA LeavesTheNudge ==
    ASSUME NudgeInv, UNCHANGED <<view, herdr, paneChanges, prompts, landed>>,
           NEW after \in {"down", "act"},
           adapter' = [pc |-> after, live |-> (after = "act"), of |-> NotGiven, pane |-> NotGiven,
                       before |-> <<>>, found |-> "none"],
           after = "act" => adapter.live /\ UNCHANGED tried,
           board' \in Seq(Entries), Len(board') \in Nat, Len(board) <= Len(board'),
           \A i \in 1..Len(board) : board'[i] = board[i],
           after = "act" => \A i \in 1..Len(board') :
                               i > Len(board) => board'[i].of \in tried,
           unrecorded' \in [Briefs -> Nat],
           \A b \in Briefs : unrecorded[b] <= unrecorded'[b],
           \A b \in Briefs : InFlight(b) =>
               Recorded(b)' \/ unrecorded'[b] = unrecorded[b] + 1
    PROVE  NudgeInv'
<1> USE DEF NudgeInv
<1>1. /\ DOMAIN adapter' = DOMAIN adapter /\ adapter'.pc = after
      /\ adapter'.live \in BOOLEAN /\ (adapter'.live <=> after = "act")
      /\ adapter'.found = "none"
  BY DEF NudgeTyped
<1>2. view \in 0..Len(board) /\ Len(board) \in Nat
  BY DEF NudgeTyped
<1>3. NudgeTyped'
  BY <1>1, <1>2 DEF NudgeTyped
<1>4. AtItsBrief' /\ TerminalsAscend' /\ RecordIsTrue'
  BY <1>1 DEF AtItsBrief, TerminalsAscend, RecordIsTrue, AtABrief
<1>5. UnreadIsOwn'
  <2> SUFFICES ASSUME after = "act", NEW i \in 1..Len(board'), i > view,
                      board'[i].kind \in Records
               PROVE  board'[i].of \in tried'
    BY <1>1 DEF UnreadIsOwn
  <2>1. CASE i > Len(board)
    BY <2>1
  <2>2. CASE i \in 1..Len(board)
    BY <2>2 DEF UnreadIsOwn
  <2> QED
    BY <1>2, <2>1, <2>2
<1>6. \A b : Recorded(b) => Recorded(b)'
  <2> SUFFICES ASSUME NEW b, Recorded(b) PROVE Recorded(b)'
    OBVIOUS
  <2>1. PICK i \in 1..Len(board) : board[i].kind \in Records /\ board[i].of = b
    BY DEF Recorded
  <2>2. i \in 1..Len(board') /\ board'[i] = board[i]
    BY <1>2
  <2> QED
    BY <2>1, <2>2 DEF Recorded
<1>7. PromptsAccounted'
  <2>1. ASSUME NEW b \in Briefs
        PROVE  prompts[b] <= unrecorded'[b] + (IF Recorded(b)' \/ InFlight(b)' THEN 1 ELSE 0)
    <3>1. prompts[b] \in Nat /\ unrecorded[b] \in Nat /\ unrecorded'[b] \in Nat
          /\ unrecorded[b] <= unrecorded'[b]
      BY DEF NudgeTyped
    <3>2. prompts[b] <= unrecorded[b] + (IF Recorded(b) \/ InFlight(b) THEN 1 ELSE 0)
      BY DEF PromptsAccounted
    <3>3. CASE Recorded(b)'
      BY <3>1, <3>2, <3>3
    <3>4. CASE ~Recorded(b)' /\ InFlight(b)
      BY <3>1, <3>2, <3>4
    <3>5. CASE ~Recorded(b)' /\ ~InFlight(b)
      BY <1>6, <3>1, <3>2, <3>5
    <3> QED
      BY <3>3, <3>4, <3>5
  <2> QED
    BY <1>1, <2>1 DEF PromptsAccounted, AtABrief
<1> QED
  BY <1>3, <1>4, <1>5, <1>7

LEMMA RecordKeeps ==
    ASSUME NudgeInv, NEW admitted \in BOOLEAN, Record(admitted)
    PROVE  NudgeInv'
<1> USE DEF NudgeInv
<1>1. adapter.pc = "record" /\ adapter.pc \in AtABrief
      /\ UNCHANGED <<view, herdr, paneChanges, tried, prompts, landed>>
  BY DEF Record, AtABrief
<1>2. /\ adapter.of \in Briefs /\ adapter.of \in tried /\ adapter.live
      /\ board \in Seq(Entries) /\ Len(board) \in Nat
      /\ unrecorded \in [Briefs -> Nat]
      /\ adapter.found \in {"none", "status"} \union Records
  BY <1>1 DEF AtItsBrief, NudgeTyped
<1>3. PICK after \in {"down", "act"} : after = "act"
  OBVIOUS
<1>4. adapter' = [pc |-> after, live |-> (after = "act"), of |-> NotGiven, pane |-> NotGiven,
                  before |-> <<>>, found |-> "none"]
  BY <1>3 DEF Record, Down
<1>5. CASE admitted /\ IsAdapter(Len(board)) /\ adapter.found # "status"
  <2>1. Post(adapter.found, adapter.of) /\ UNCHANGED unrecorded
    BY <1>5 DEF Record
  <2>2. adapter.found \in Records
    BY <1>1, <1>2, <1>5 DEF AtItsBrief
  <2>3. /\ board' \in Seq(Entries) /\ Len(board') = Len(board) + 1 /\ Len(board) \in Nat
        /\ board'[Len(board) + 1].kind = adapter.found
        /\ board'[Len(board) + 1].of = adapter.of
        /\ \A i \in 1..Len(board) : board'[i] = board[i]
    BY <1>2, <2>1, <2>2, PostAppends
  <2>4. Len(board') \in Nat /\ Len(board) <= Len(board') /\ Len(board) + 1 \in 1..Len(board')
    BY <2>3
  <2>5. \A i \in 1..Len(board') : i > Len(board) => board'[i].of \in tried
    BY <1>2, <2>3
  <2>6. PICK o \in Briefs : o = adapter.of
    BY <1>2
  <2>7. \A b \in Briefs : InFlight(b) => Recorded(b)'
    <3>1. Recorded(o)'
      BY <2>2, <2>3, <2>4, <2>6 DEF Recorded
    <3> QED
      BY <2>6, <3>1 DEF InFlight
  <2>8. /\ unrecorded' \in [Briefs -> Nat]
        /\ \A b \in Briefs : unrecorded[b] <= unrecorded'[b]
    BY <1>2, <2>1
  <2> HIDE DEF NudgeInv
  <2> QED
    BY <1>1, <1>2, <1>4, <2>3, <2>4, <2>5, <2>7, <2>8, LeavesTheNudge
<1>6. CASE ~(admitted /\ IsAdapter(Len(board)) /\ adapter.found # "status")
  <2>1. /\ board' = board
        /\ unrecorded' = IF adapter.found = "status" THEN unrecorded
                         ELSE [unrecorded EXCEPT ![adapter.of] = unrecorded[adapter.of] + 1]
    BY <1>6 DEF Record
  <2>2. unrecorded[adapter.of] \in Nat
    BY <1>2
  <2>3. /\ unrecorded' \in [Briefs -> Nat]
        /\ \A b \in Briefs : unrecorded[b] <= unrecorded'[b]
    BY <1>2, <2>1, <2>2
  <2>4. \A b \in Briefs : InFlight(b) => unrecorded'[b] = unrecorded[b] + 1
    BY <1>1, <1>2, <2>1 DEF InFlight
  <2>5. /\ board' \in Seq(Entries) /\ Len(board') \in Nat /\ Len(board) <= Len(board')
        /\ \A i \in 1..Len(board) : board'[i] = board[i]
        /\ \A i \in 1..Len(board') : i > Len(board) => board'[i].of \in tried
    BY <1>2, <2>1
  <2> HIDE DEF NudgeInv
  <2> QED
    BY <1>1, <1>2, <1>4, <2>3, <2>4, <2>5, LeavesTheNudge
<1> QED
  BY <1>5, <1>6

LEMMA AdapterDiesKeeps ==
    ASSUME NudgeInv, AdapterDies
    PROVE  NudgeInv'
<1> USE DEF NudgeInv
<1>1. UNCHANGED <<board, view, herdr, paneChanges, prompts, landed>>
  BY DEF AdapterDies
<1>2. /\ board \in Seq(Entries) /\ Len(board) \in Nat
      /\ unrecorded \in [Briefs -> Nat]
  BY DEF NudgeTyped
<1>3. PICK after \in {"down", "act"} : after = "down"
  OBVIOUS
<1>4. adapter' = [pc |-> after, live |-> (after = "act"), of |-> NotGiven, pane |-> NotGiven,
                  before |-> <<>>, found |-> "none"]
  BY <1>3 DEF AdapterDies, Down
<1>5. /\ unrecorded' \in [Briefs -> Nat]
      /\ \A b \in Briefs : unrecorded[b] <= unrecorded'[b]
      /\ \A b \in Briefs : InFlight(b) => unrecorded'[b] = unrecorded[b] + 1
  <2>1. CASE adapter.pc = "check" \/ (adapter.pc = "record" /\ adapter.found # "status")
    <3>1. adapter.of \in Briefs
      BY <2>1 DEF AtItsBrief, AtABrief
    <3>2. unrecorded' = [unrecorded EXCEPT ![adapter.of] = unrecorded[adapter.of] + 1]
      BY <2>1 DEF AdapterDies
    <3>3. unrecorded[adapter.of] \in Nat
      BY <1>2, <3>1
    <3> QED
      BY <1>2, <3>1, <3>2, <3>3 DEF InFlight
  <2>2. CASE ~(adapter.pc = "check" \/ (adapter.pc = "record" /\ adapter.found # "status"))
    <3>1. unrecorded' = unrecorded
      BY <2>2 DEF AdapterDies
    <3> QED
      BY <1>2, <2>2, <3>1 DEF InFlight
  <2> QED
    BY <2>1, <2>2
<1>6. /\ board' \in Seq(Entries) /\ Len(board') \in Nat /\ Len(board) <= Len(board')
      /\ \A i \in 1..Len(board) : board'[i] = board[i]
  BY <1>1, <1>2
<1> HIDE DEF NudgeInv
<1> QED
  BY <1>1, <1>3, <1>4, <1>5, <1>6, LeavesTheNudge

-----------------------------------------------------------------------------
(* The adapter that nudges: the theorem. *)

LEMMA NudgeStutters == NudgeInv /\ UNCHANGED nudgeVars => NudgeInv'
BY DEF NudgeInv, NudgeTyped, AtItsBrief, TerminalsAscend, UnreadIsOwn, PromptsAccounted,
       RecordIsTrue, Recorded, InFlight, nudgeVars

LEMMA NudgeStep == NudgeInv /\ [NudgeNext]_nudgeVars => NudgeInv'
<1> SUFFICES ASSUME NudgeInv, NudgeNext PROVE NudgeInv'
  BY NudgeStutters
<1>1. CASE \E k \in {"brief", "taken", "demote"}, b \in Briefs \union {NotGiven} : BoardMoves(k, b)
  BY <1>1, BoardMovesKeeps
<1>2. CASE \E p \in Panes : HerdrMoves(p)
  BY <1>2, HerdrKeeps
<1>3. CASE Start \/ Frame \/ Caught \/ Acted
  BY <1>3, FollowKeeps
<1>4. CASE \E b \in Briefs : Try(b)
  BY <1>4, TryKeeps
<1>5. CASE Prompt \/ AdapterDies
  BY <1>5, PromptKeeps, AdapterDiesKeeps
<1>6. CASE \E ok \in BOOLEAN : Observe(ok) \/ PaneSettled(ok)
  BY <1>6, ObserveKeeps, SettledKeeps
<1>7. CASE \E ok \in BOOLEAN : PromptFails(ok) \/ Check(ok) \/ Record(ok)
  BY <1>7, PromptFailsKeeps, CheckKeeps, RecordKeeps
<1> QED
  BY <1>1, <1>2, <1>3, <1>4, <1>5, <1>6, <1>7 DEF NudgeNext

\* A recorded nudge is true, and a brief is prompted again only if its record was lost
\* (Ctx::act and nudge in nudge.rs): for any panes, changes in herdr, and restarts.
THEOREM NudgesAreRecorded == NudgeSpec => []NudgedIsTrue
<1>1. NudgeInv => NudgedIsTrue
  <2> SUFFICES ASSUME NudgeInv, NEW b \in Briefs PROVE prompts[b] <= 1 + unrecorded[b]
    BY DEF NudgeInv, NudgedIsTrue, PromptedAgainOnlyIfLost
  <2>1. prompts[b] \in Nat /\ unrecorded[b] \in Nat
    BY DEF NudgeInv, NudgeTyped
  <2>2. prompts[b] <= unrecorded[b] + (IF Recorded(b) \/ InFlight(b) THEN 1 ELSE 0)
    BY DEF NudgeInv, PromptsAccounted
  <2> QED
    BY <2>1, <2>2
<1> QED
  BY InitNudge, NudgeStep, <1>1, PTL DEF NudgeSpec

-----------------------------------------------------------------------------
(* The MCP tools: the inductive invariant. *)

Answers == [line : Nat, ok : BOOLEAN]
Stages == {"rest", "args", "request", "guard", "guarded", "emit"}

McpTyped ==
    /\ lines \in Seq(Line) /\ read \in 0..Len(lines)
    /\ DOMAIN tool = {"at", "name"} /\ tool.at \in Stages
    /\ tool = NoTool <=> tool.at = "rest"
    /\ tool.at # "rest" => read >= 1
    /\ out \in Seq(Answers)

\* The first n lines are answered, in their order, where an answer is wanted.
AnsweredUpTo(n) ==
    /\ \A i, j \in DOMAIN out : i < j => out[i].line < out[j].line
    /\ {out[i].line : i \in DOMAIN out} = {i \in 1..n : ~Unanswered(lines[i])}

Handled == IF tool = NoTool THEN read ELSE read - 1

\* What is sent was looked for and found at home, by the same call.
FoundAtHome == tool.at = "emit" => found = Home

McpInv == McpTyped /\ AnsweredUpTo(Handled) /\ FoundAtHome /\ RightDestination

-----------------------------------------------------------------------------
(* The MCP tools: what the steps keep. *)

LEMMA InitMcp == McpInit => McpInv
<1> SUFFICES ASSUME McpInit PROVE McpInv
  OBVIOUS
<1> USE DEF McpInit
<1>1. McpTyped
  BY DEF McpTyped, NoTool, Stages
<1>2. Handled = 0
  BY DEF Handled
<1>3. AnsweredUpTo(0)
  BY DEF AnsweredUpTo
<1>4. FoundAtHome /\ RightDestination
  BY DEF FoundAtHome, RightDestination
<1> QED
  BY <1>1, <1>2, <1>3, <1>4 DEF McpInv

\* AnswerLine extends the answered lines by the next one, whether it wants an
\* answer or not.
LEMMA AnswerIsNext ==
    ASSUME out \in Seq(Answers), NEW k \in Nat, k >= 1, AnsweredUpTo(k - 1),
           NEW ok \in BOOLEAN, AnswerLine(k, ok), lines' = lines
    PROVE  out' \in Seq(Answers) /\ AnsweredUpTo(k)'
<1> DEFINE Wants(n) == {i \in 1..n : ~Unanswered(lines[i])}
           LinesOf(o) == {o[i].line : i \in DOMAIN o}
<1>1. LinesOf(out) = Wants(k - 1)
  BY DEF AnsweredUpTo
<1>2. AnsweredUpTo(k)' <=>
        /\ \A i, j \in DOMAIN out' : i < j => out'[i].line < out'[j].line
        /\ LinesOf(out') = Wants(k)
  BY DEF AnsweredUpTo, Unanswered
<1>3. CASE Unanswered(lines[k])
  <2>1. out' = out
    BY <1>3 DEF AnswerLine
  <2>2. Wants(k) = Wants(k - 1)
    <3>1. \A i : i \in 1..k <=> i \in 1..(k - 1) \/ i = k
      BY SMT
    <3> QED
      BY <3>1, <1>3
  <2> QED
    BY <2>1, <2>2, <1>1, <1>2 DEF AnsweredUpTo
<1>4. CASE ~Unanswered(lines[k])
  <2>1. PICK a : a = [line |-> k, ok |-> ok]
    OBVIOUS
  <2>2. out' = Append(out, a) /\ a \in Answers /\ a.line = k
    BY <1>4, <2>1 DEF AnswerLine, Answers
  <2> HIDE DEF Answers
  <2>3. /\ out' \in Seq(Answers) /\ DOMAIN out' = 1..(Len(out) + 1) /\ DOMAIN out = 1..Len(out)
        /\ Len(out) \in Nat /\ out'[Len(out) + 1] = a
        /\ \A i \in 1..Len(out) : out'[i] = out[i]
    BY <2>2
  <2>4. Wants(k) = Wants(k - 1) \union {k}
    <3>1. \A i : i \in 1..k <=> i \in 1..(k - 1) \/ i = k
      BY SMT
    <3> QED
      BY <3>1, <1>4
  <2>5. LinesOf(out') = LinesOf(out) \union {k}
    <3>1. \A i : i \in DOMAIN out' <=> i \in DOMAIN out \/ i = Len(out) + 1
      BY <2>3
    <3>2. \A i \in DOMAIN out : out'[i].line = out[i].line
      BY <2>3
    <3>3. out'[Len(out) + 1].line = k
      BY <2>2, <2>3
    <3> QED
      BY <3>1, <3>2, <3>3
  <2>6. ASSUME NEW i \in DOMAIN out', NEW j \in DOMAIN out', i < j
        PROVE  out'[i].line < out'[j].line
    <3>1. i \in 1..Len(out) /\ out'[i] = out[i]
      BY <2>3, <2>6
    <3>2. CASE j \in 1..Len(out)
      BY <3>1, <3>2, <2>3, <2>6 DEF AnsweredUpTo
    <3>3. CASE j = Len(out) + 1
      <4>1. out[i].line \in 1..(k - 1)
        BY <3>1, <2>3, <1>1
      <4> QED
        BY <4>1, <3>1, <3>3, <2>2, <2>3
    <3> QED
      BY <3>2, <3>3, <2>3
  <2> QED
    BY <2>3, <2>4, <2>5, <2>6, <1>1, <1>2
<1> QED
  BY <1>3, <1>4

\* A call that ends is answered under its own line.
LEMMA CallEnds ==
    ASSUME McpTyped, AnsweredUpTo(Handled), tool.at # "rest", NEW ok \in BOOLEAN, ToolEnds(ok),
           lines' = lines, read' = read
    PROVE  McpTyped' /\ AnsweredUpTo(Handled)' /\ FoundAtHome'
<1>1. read \in Nat /\ read >= 1 /\ out \in Seq(Answers) /\ tool # NoTool
  <2>1. Len(lines) \in Nat
    BY DEF McpTyped
  <2> QED
    BY <2>1 DEF McpTyped
<1>2. Handled = read - 1
  BY <1>1 DEF Handled
<1>3. out' \in Seq(Answers) /\ AnsweredUpTo(read)'
  <2>1. AnswerLine(read, ok) /\ AnsweredUpTo(read - 1)
    BY <1>2 DEF ToolEnds
  <2>2. PICK k \in Nat : k = read
    BY <1>1
  <2>3. out' \in Seq(Answers) /\ AnsweredUpTo(k)'
    BY <2>1, <2>2, <1>1, AnswerIsNext
  <2> QED
    BY <2>2, <2>3 DEF AnsweredUpTo, Unanswered
<1>4. tool' = NoTool
  BY DEF ToolEnds
<1>5. Handled' = read'
  BY <1>4 DEF Handled
<1>6. AnsweredUpTo(Handled)'
  BY <1>3, <1>5 DEF AnsweredUpTo
<1>7. McpTyped'
  BY <1>3, <1>4 DEF McpTyped, NoTool, Stages
<1>8. FoundAtHome'
  BY <1>4 DEF FoundAtHome, NoTool
<1> QED
  BY <1>6, <1>7, <1>8

\* A call that goes on is at a stage that it can send from only if it found
\* its flock at home.
LEMMA CallGoesOn ==
    ASSUME McpTyped, AnsweredUpTo(Handled), tool.at # "rest", NEW stage \in Stages \ {"rest"},
           tool' = [tool EXCEPT !.at = stage], stage = "emit" => found' = Home,
           UNCHANGED <<lines, read, out>>
    PROVE  McpTyped' /\ AnsweredUpTo(Handled)' /\ FoundAtHome'
<1>1. tool'.at = stage /\ DOMAIN tool' = {"at", "name"} /\ tool' # NoTool /\ tool # NoTool
  BY DEF McpTyped, NoTool
<1>2. McpTyped'
  BY <1>1 DEF McpTyped
<1>3. AnsweredUpTo(Handled)'
  BY <1>1 DEF AnsweredUpTo, Handled, Unanswered
<1>4. FoundAtHome'
  BY <1>1 DEF FoundAtHome
<1> QED
  BY <1>2, <1>3, <1>4

LEMMA ServeMcp ==
    ASSUME McpInv, Serve
    PROVE  McpInv'
<1>1. McpTyped /\ AnsweredUpTo(Handled) /\ RightDestination
  BY DEF McpInv
<1>2. /\ tool = NoTool /\ read < Len(lines) /\ read' = read + 1 /\ lines' = lines
      /\ UNCHANGED <<found, emitted, asked>>
  BY DEF Serve
<1>3. read \in Nat /\ Len(lines) \in Nat /\ read' \in 1..Len(lines) /\ out \in Seq(Answers)
  <2>1. Len(lines) \in Nat
    BY <1>1 DEF McpTyped
  <2> QED
    BY <2>1, <1>1, <1>2 DEF McpTyped
<1>4. RightDestination'
  BY <1>1, <1>2 DEF RightDestination
<1>5. AnsweredUpTo(read)
  BY <1>1, <1>2 DEF Handled
<1>6. CASE \E stage \in {"guard", "args"}, name \in Tools : tool' = [at |-> stage, name |-> name] /\ out' = out
  <2>1. PICK stage \in {"guard", "args"}, name \in Tools : tool' = [at |-> stage, name |-> name] /\ out' = out
    BY <1>6
  <2>2. tool'.at = stage /\ DOMAIN tool' = {"at", "name"} /\ tool' # NoTool
    BY <2>1 DEF NoTool
  <2>3. McpTyped'
    BY <2>1, <2>2, <1>1, <1>2, <1>3 DEF McpTyped, Stages
  <2>4. Handled' = read
    BY <2>2, <1>2, <1>3 DEF Handled
  <2>5. AnsweredUpTo(Handled)'
    BY <2>1, <2>4, <1>2, <1>5 DEF AnsweredUpTo, Unanswered
  <2>6. FoundAtHome'
    BY <2>2 DEF FoundAtHome
  <2> QED
    BY <2>3, <2>5, <2>6, <1>4 DEF McpInv
<1>7. CASE \E ok \in BOOLEAN : tool' = NoTool /\ AnswerLine(read + 1, ok)
  <2>1. PICK ok \in BOOLEAN : tool' = NoTool /\ AnswerLine(read + 1, ok)
    BY <1>7
  <2>2. PICK k \in Nat : k = read + 1
    BY <1>3
  <2>3. k >= 1 /\ AnsweredUpTo(k - 1)
    <3>1. k - 1 = read
      BY <2>2, <1>3
    <3> QED
      BY <3>1, <2>2, <1>3, <1>5
  <2>4. out' \in Seq(Answers) /\ AnsweredUpTo(k)'
    BY <2>1, <2>2, <2>3, <1>2, <1>3, AnswerIsNext
  <2>5. McpTyped'
    BY <2>1, <2>4, <1>1, <1>2, <1>3 DEF McpTyped, NoTool, Stages
  <2>6. Handled' = k
    BY <2>1, <2>2, <1>2 DEF Handled
  <2>7. AnsweredUpTo(Handled)'
    BY <2>4, <2>6 DEF AnsweredUpTo
  <2>8. FoundAtHome'
    BY <2>1 DEF FoundAtHome, NoTool
  <2> QED
    BY <2>5, <2>7, <2>8, <1>4 DEF McpInv
<1> QED
  <2>1. PICK l \in Line : l = lines[read + 1]
    <3>1. read + 1 \in 1..Len(lines)
      BY <1>2, <1>3
    <3> QED
      BY <3>1, <1>1 DEF McpTyped
  <2>2. l.name \in Tools
    <3>1. \/ l = Blank \/ l = Garbage
          \/ \E id \in BOOLEAN, method \in Methods : l = Request(id, method, "unknown")
          \/ \E id \in BOOLEAN, name \in Tools : l = Request(id, "tools/call", name)
      BY DEF Line
    <3>2. "unknown" \in Tools
      BY DEF Tools
    <3>3. \A id, method, name : Request(id, method, name).name = name
      BY DEF Request
    <3>4. Blank.name = "unknown" /\ Garbage.name = "unknown"
      BY DEF Blank, Garbage
    <3> QED
      BY <3>1, <3>2, <3>3, <3>4
  <2>3. CASE l.is = "request" /\ l.method = "tools/call" /\ l.name # "unknown"
    BY <2>1, <2>2, <2>3, <1>6 DEF Serve
  <2>4. CASE ~(l.is = "request" /\ l.method = "tools/call" /\ l.name # "unknown")
    BY <2>1, <2>4, <1>7 DEF Serve
  <2> QED
    BY <2>3, <2>4

LEMMA LookMcp ==
    ASSUME McpInv, NEW from \in Stages \ {"rest"}, NEW to \in Stages \ {"rest"}, Look(from, to)
    PROVE  McpInv'
<1>1. McpTyped /\ AnsweredUpTo(Handled) /\ RightDestination /\ tool.at # "rest"
  BY DEF McpInv, Look
<1>2. UNCHANGED <<lines, read, emitted, asked>> /\ found' = session
  BY DEF Look
<1>3. CASE BelongsHere
  BY <1>1, <1>2, <1>3, CallGoesOn DEF Look, BelongsHere, McpInv, RightDestination
<1>4. CASE ~BelongsHere
  BY <1>1, <1>2, <1>4, CallEnds DEF Look, McpInv, RightDestination
<1> QED
  BY <1>3, <1>4

LEMMA ResolveMcp ==
    ASSUME McpInv, ResolvePeer
    PROVE  McpInv'
<1>1. McpTyped /\ AnsweredUpTo(Handled) /\ RightDestination /\ tool.at # "rest"
  BY DEF McpInv, ResolvePeer
<1>2. UNCHANGED <<lines, read, emitted>>
  BY DEF ResolvePeer
<1>3. RightDestination'
  BY <1>1 DEF ResolvePeer, RightDestination
<1>4. CASE Cardinality(known) = 1
  <2>1. tool' = [tool EXCEPT !.at = "request"] /\ out' = out /\ "request" \in Stages \ {"rest"}
    BY <1>4 DEF ResolvePeer, Stages
  <2>2. McpTyped' /\ AnsweredUpTo(Handled)' /\ FoundAtHome'
    BY <2>1, <1>1, <1>2, CallGoesOn
  <2> QED
    BY <2>2, <1>3 DEF McpInv
<1>5. CASE Cardinality(known) # 1
  BY <1>1, <1>2, <1>3, <1>5, CallEnds DEF ResolvePeer, McpInv
<1> QED
  BY <1>4, <1>5

LEMMA SendMcp ==
    ASSUME McpInv, NEW ok \in BOOLEAN, Send(ok)
    PROVE  McpInv'
<1>1. McpTyped /\ AnsweredUpTo(Handled) /\ RightDestination /\ tool.at = "emit" /\ found = Home
  BY DEF McpInv, Send, FoundAtHome
<1>2. UNCHANGED <<lines, read, asked>>
  BY DEF Send
<1>3. RightDestination'
  BY <1>1 DEF Send, RightDestination
<1>4. PICK b \in BOOLEAN : b = (session # NoFlock /\ ok)
  OBVIOUS
<1>5. ToolEnds(b)
  BY <1>4 DEF Send
<1> QED
  BY <1>1, <1>2, <1>3, <1>5, CallEnds DEF McpInv

\* What ends a call without more, and what the client and the host do.
LEMMA OthersMcp ==
    ASSUME McpInv,
           \/ ToolPeers \/ BadArguments \/ FlockRead
           \/ \E ok \in BOOLEAN : Requested(ok)
           \/ \E l \in Line : ClientWrites(l)
           \/ \E p \in Peers : PeerKnown(p)
           \/ \E f \in HostFlocks \union {NoFlock} : SessionMoves(f)
    PROVE  McpInv'
<1>1. McpTyped /\ AnsweredUpTo(Handled) /\ RightDestination /\ FoundAtHome
  BY DEF McpInv
<1>2. ASSUME NEW ok \in BOOLEAN, ToolEnds(ok), tool.at # "rest", UNCHANGED <<lines, read, emitted, asked>>
      PROVE  McpInv'
  BY <1>1, <1>2, CallEnds DEF McpInv, RightDestination
<1>3. CASE ToolPeers \/ BadArguments \/ FlockRead \/ \E ok \in BOOLEAN : Requested(ok)
  BY <1>2, <1>3 DEF ToolPeers, BadArguments, FlockRead, Requested
<1>4. ASSUME NEW l \in Line, ClientWrites(l) PROVE McpInv'
  <2>1. UNCHANGED <<read, tool, out, found, emitted, asked>> /\ lines' = Append(lines, l)
    BY <1>4 DEF ClientWrites
  <2>2. /\ lines' \in Seq(Line) /\ Len(lines') = Len(lines) + 1 /\ Len(lines) \in Nat
        /\ \A i \in 1..Len(lines) : lines'[i] = lines[i]
    BY <2>1, <1>1 DEF McpTyped
  <2>3. McpTyped'
    BY <2>1, <2>2, <1>1 DEF McpTyped
  <2>4. Handled' = Handled /\ \A i \in 1..Handled : i \in 1..Len(lines)
    BY <2>1, <2>2, <1>1 DEF Handled, McpTyped
  <2>5. AnsweredUpTo(Handled)'
    <3>1. \A i \in 1..Handled : lines'[i] = lines[i]
      BY <2>2, <2>4
    <3> QED
      BY <3>1, <2>1, <2>4, <1>1 DEF AnsweredUpTo, Unanswered
  <2> QED
    BY <2>1, <2>3, <2>5, <1>1 DEF McpInv, FoundAtHome, RightDestination
<1>5. ASSUME UNCHANGED <<lines, read, tool, out, found, emitted, asked>> PROVE McpInv'
  BY <1>1, <1>5 DEF McpInv, McpTyped, AnsweredUpTo, Handled, Unanswered, FoundAtHome, RightDestination
<1> QED
  BY <1>3, <1>4, <1>5 DEF PeerKnown, SessionMoves

LEMMA NextMcp == McpInv /\ [McpNext]_mcpVars => McpInv'
<1> SUFFICES ASSUME McpInv, [McpNext]_mcpVars PROVE McpInv'
  OBVIOUS
<1>1. CASE UNCHANGED mcpVars
  BY <1>1 DEF mcpVars, McpInv, McpTyped, AnsweredUpTo, Handled, Unanswered, FoundAtHome, RightDestination
<1>2. CASE Look("guard", "guarded") \/ FlockEmit
  BY <1>2, LookMcp DEF FlockEmit, Stages
<1>3. CASE \E ok \in BOOLEAN : Send(ok)
  BY <1>3, SendMcp
<1> QED
  BY <1>1, <1>2, <1>3, ServeMcp, ResolveMcp, OthersMcp DEF McpNext

\* An event goes to a session of the flock the tools were started for, or to one
\* that took the socket over after it was looked at for this event (Where::session,
\* FlockTools::call), and a prefix to the one peer that had it (resolve_peer), for
\* any flocks, peers and number of calls.
THEOREM EventsGoHome == McpSpec => []RightDestination
<1>1. McpInv => RightDestination
  BY DEF McpInv
<1> QED
  BY <1>1, InitMcp, NextMcp, PTL DEF McpSpec

\* Every line that wants an answer has one, in the order they came, for any
\* number of lines (serve).
THEOREM AnswersComeInOrder == McpSpec => []AnsweredInOrder
<1>1. McpInv => AnsweredInOrder
  BY DEF McpInv, AnsweredInOrder, AnsweredUpTo, Handled
<1> QED
  BY <1>1, InitMcp, NextMcp, PTL DEF McpSpec

\* Both at once: a call is answered in its turn, and what it sends goes where it
\* belongs (serve, FlockTools::call, resolve_peer).
THEOREM CallsStayServed == McpSpec => []CallsAreServed
  BY EventsGoHome, AnswersComeInOrder, PTL DEF CallsAreServed

=============================================================================
