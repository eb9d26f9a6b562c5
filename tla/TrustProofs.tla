------------------------------ MODULE TrustProofs ----------------------------
(***************************************************************************)
(* Theorems about whose word counts, for any number of commands, guards,   *)
(* keys and grants.                                                        *)
(*                                                                         *)
(* The revocation log of a home: no reported revocation is lost, guards    *)
(* decide by logs that only grow, and an envelope that waited is not       *)
(* handed on by a check that began after its sender was reported.          *)
(*                                                                         *)
(* Certificate chains: one that verifies allows no more than its links.    *)
(*                                                                         *)
(* Grant chains: one that is trusted, and the fence admitted under it,     *)
(* stay within the root.                                                   *)
(*                                                                         *)
(* The ratchet: sessions are opened with who published the key, and read   *)
(* once.                                                                   *)
(***************************************************************************)
EXTENDS Revocation, Certificates, Authority, Ratchet, WellFoundedInduction,
        FiniteSetTheorems, TLAPS

-------------------------------------------------------------------------------
(* Revocation: the inductive invariant *)

Logs == Seq({Peer, Parent, "bump"})

CommandStates ==
    [pc : {"rest", "locked", "read", "checked"}, op : Ops \union {"none"},
     read : Logs \union {NoLog}]

GuardStates ==
    [pc : {"idle", "read", "locked", "verified"},
     why : {"none", "connect", "arrive", "take"}, bytes : Logs \union {NoLog}]

FilesTyped ==
    /\ log \in Logs \union {NoLog}
    /\ command \in [Commands -> CommandStates]
    /\ reported \subseteq {Peer, Parent}
    /\ restored \in BOOLEAN

ChecksTyped ==
    /\ seen \in Logs \union {NoLog}
    /\ guard \in [Guards -> GuardStates]
    /\ cache \in [Guards -> Logs \union {NoLog}]
    /\ live \in [Guards -> Logs \union {NoLog, Refused}]
    /\ queue \in [Guards -> 0..MaxQueue]
    /\ knew \in [Guards -> SUBSET {Peer, Parent}]
    /\ top \in Logs

\* A command works under the lock of the log, on the log that is in place unless
\* the owner put an older one back.
CommandsHold ==
    \A c \in Commands :
        /\ command[c].pc # "rest" => logLock = c
        /\ command[c].pc \in {"read", "checked"} =>
              /\ IF command[c].op = "init" THEN command[c].read = NoLog
                 ELSE command[c].op \in Ops /\ command[c].read \in Logs
              /\ ~restored => command[c].read = log

\* What was reported is in the log.
ReportedStands ==
    ~restored => reported \subseteq (IF log = NoLog THEN {} ELSE RevokedBy(log))

\* A guard at work has read a log; one that loads it holds the lock of Seen, and
\* what it loaded extends Seen.
GuardsHold ==
    \A g \in Guards :
        /\ guard[g].pc # "idle" => guard[g].bytes \in Logs
        /\ guard[g].pc \in {"locked", "verified"} => seenLock = g
        /\ guard[g].pc = "verified" => seen = NoLog \/ IsPrefix(seen, guard[g].bytes)

\* A call that takes an envelope finds one, and a call for one that arrives finds room.
CallsCounted ==
    \A g \in Guards :
        guard[g].pc # "idle" =>
            /\ guard[g].why # "none"
            /\ guard[g].why = "take" => queue[g] > 0
            /\ guard[g].why = "arrive" => queue[g] < MaxQueue

\* Every decision was by a log that Seen has taken in.
DecidedIsSeen == IF seen = NoLog THEN top = <<>> ELSE IsPrefix(top, seen)

\* A session goes by a log that its peer passed.
LivePassed ==
    \A g \in Guards : live[g] \in Logs => VerifyWith(live[g])

\* What was reported before a call is in the bytes that the call works with.
KnownIsRead ==
    \A g \in Guards :
        /\ knew[g] \subseteq reported
        /\ ~restored /\ guard[g].pc # "idle" => knew[g] \subseteq RevokedBy(guard[g].bytes)

FilesInv == FilesTyped /\ CommandsHold /\ ReportedStands

RevocationInv ==
    /\ FilesInv
    /\ ChecksTyped
    /\ GuardsHold
    /\ CallsCounted
    /\ DecidedIsSeen
    /\ LivePassed
    /\ KnownIsRead

-------------------------------------------------------------------------------
(* Revocation: logs *)

\* No mark of the model is a log.
LEMMA MarksAreNoLogs == NoLog \notin Logs /\ Refused \notin Logs /\ <<>> \in Logs
<1>1. \A l \in Logs : Len(l) > 0 => l[1] \in {Peer, Parent, "bump"}
  BY DEF Logs
<1>2. "none" \notin {Peer, Parent, "bump"} /\ "refused" \notin {Peer, Parent, "bump"}
  BY RevocationAssumption
<1>3. /\ Len(NoLog) = 1 /\ NoLog[1] = "none"
      /\ Len(Refused) = 1 /\ Refused[1] = "refused"
  BY DEF NoLog, Refused
<1> QED
  BY <1>1, <1>2, <1>3 DEF Logs

\* A prefix, element by element.
LEMMA PrefixByElements ==
    ASSUME NEW s \in Logs, NEW t \in Logs
    PROVE  IsPrefix(s, t) <=>
              Len(s) <= Len(t) /\ \A i \in 1..Len(s) : s[i] = t[i]
<1>1. Len(s) \in Nat /\ Len(t) \in Nat
  BY DEF Logs
<1>2. ASSUME Len(s) <= Len(t)
      PROVE  SubSeq(s, 1, Len(s)) = SubSeq(t, 1, Len(s)) <=>
                \A i \in 1..Len(s) : s[i] = t[i]
  <2>1. /\ SubSeq(s, 1, Len(s)) = [i \in 1..Len(s) |-> s[i]]
        /\ SubSeq(t, 1, Len(s)) = [i \in 1..Len(s) |-> t[i]]
    BY <1>1, <1>2 DEF Logs
  <2> QED
    BY <2>1
<1> QED
  BY <1>2 DEF IsPrefix

\* A log is a prefix of itself.
LEMMA PrefixIsReflexive ==
    ASSUME NEW l \in Logs
    PROVE  IsPrefix(l, l)
BY DEF Logs, IsPrefix

\* Logs that grow one from another grow from the first.
LEMMA PrefixIsTransitive ==
    ASSUME NEW r \in Logs, NEW s \in Logs, NEW t \in Logs,
           IsPrefix(r, s), IsPrefix(s, t)
    PROVE  IsPrefix(r, t)
<1>1. Len(r) \in Nat /\ Len(s) \in Nat /\ Len(t) \in Nat
  BY DEF Logs
<1>2. Len(r) <= Len(s) /\ \A i \in 1..Len(r) : r[i] = s[i]
  BY PrefixByElements
<1>3. Len(s) <= Len(t) /\ \A i \in 1..Len(s) : s[i] = t[i]
  BY PrefixByElements
<1>4. Len(r) <= Len(t) /\ \A i \in 1..Len(r) : r[i] = t[i]
  BY <1>1, <1>2, <1>3
<1> QED
  BY <1>4, PrefixByElements

\* Every log grows from the empty one.
LEMMA EmptyIsPrefix ==
    ASSUME NEW l \in Logs
    PROVE  IsPrefix(<<>>, l)
<1>1. <<>> \in Logs /\ Len(<<>>) = 0 /\ Len(l) \in Nat
  BY DEF Logs
<1>2. Len(<<>>) <= Len(l) /\ \A i \in 1..Len(<<>>) : <<>>[i] = l[i]
  BY <1>1
<1> QED
  BY <1>1, <1>2, PrefixByElements

\* A log that grows by an entry revokes what it did, and the agent of the entry.
LEMMA AppendRevokes ==
    ASSUME NEW l \in Logs, NEW op \in {Peer, Parent, "bump"}
    PROVE  /\ Append(l, op) \in Logs
           /\ RevokedBy(l) \subseteq RevokedBy(Append(l, op))
           /\ {op} \ {"bump", "init"} \subseteq RevokedBy(Append(l, op))
<1> DEFINE m == Append(l, op)
<1>1. /\ m \in Logs /\ Len(l) \in Nat
      /\ DOMAIN l = 1..Len(l) /\ DOMAIN m = 1..(Len(l) + 1)
      /\ \A i \in 1..Len(l) : m[i] = l[i]
      /\ m[Len(l) + 1] = op
  BY DEF Logs
<1>2. ToSet(l) \subseteq ToSet(m)
  BY <1>1 DEF ToSet
<1>3. op \in ToSet(m)
  <2>1. Len(l) + 1 \in DOMAIN m
    BY <1>1
  <2> QED
    BY <1>1, <2>1 DEF ToSet
<1> QED
  BY <1>1, <1>2, <1>3 DEF RevokedBy

\* A log without its last entry is a log.
LEMMA FrontIsLog ==
    ASSUME NEW l \in Logs, l # <<>>
    PROVE  Front(l) \in Logs
BY DEF Logs, Front

-------------------------------------------------------------------------------
(* Revocation: the commands *)

\* Store and guards start in the invariant.
LEMMA InitRevocation == Init => RevocationInv
<1> SUFFICES ASSUME Init PROVE RevocationInv
  OBVIOUS
<1>1. Resting \in CommandStates /\ Resting.pc = "rest"
  BY DEF Resting, CommandStates, Ops
<1>2. Idle \in GuardStates /\ Idle.pc = "idle"
  BY DEF Idle, GuardStates
<1>3. FilesInv
  BY <1>1, MarksAreNoLogs
     DEF Init, FilesInv, FilesTyped, CommandsHold, ReportedStands
<1>4. ChecksTyped
  BY <1>2, MarksAreNoLogs, RevocationAssumption DEF Init, ChecksTyped
<1>5. GuardsHold /\ CallsCounted /\ KnownIsRead
  BY <1>2 DEF Init, GuardsHold, CallsCounted, KnownIsRead
<1>6. DecidedIsSeen /\ LivePassed
  BY MarksAreNoLogs DEF Init, DecidedIsSeen, LivePassed
<1> QED
  BY <1>3, <1>4, <1>5, <1>6 DEF RevocationInv

\* Only one command works at a time.
LEMMA OneCommandWorks ==
    ASSUME FilesInv, NEW c \in Commands, command[c].pc # "rest"
    PROVE  \A d \in Commands : d # c => command[d].pc = "rest"
BY DEF FilesInv, CommandsHold

\* A command that is over has nothing in hand.
LEMMA CommandOver ==
    ASSUME FilesInv, NEW c \in Commands, command[c].pc # "rest",
           Over(c)
    PROVE  /\ command' \in [Commands -> CommandStates]
           /\ \A d \in Commands : command'[d].pc = "rest"
<1>1. Resting \in CommandStates /\ Resting.pc = "rest"
  BY DEF Resting, CommandStates, Ops
<1>2. command \in [Commands -> CommandStates] /\ command' = [command EXCEPT ![c] = Resting]
  BY DEF FilesInv, FilesTyped, Over
<1> QED
  BY <1>1, <1>2, OneCommandWorks

\* What a working command would write.
LEMMA AppendedIsLog ==
    ASSUME FilesInv, NEW c \in Commands, command[c].pc \in {"read", "checked"}
    PROVE  /\ Appended(c) \in Logs
           /\ ~restored =>
                 reported \union ({command[c].op} \ {"bump", "init"})
                    \subseteq RevokedBy(Appended(c))
<1>1. IF command[c].op = "init" THEN command[c].read = NoLog
      ELSE command[c].op \in Ops /\ command[c].read \in Logs
  BY DEF FilesInv, CommandsHold
<1>2. ~restored => command[c].read = log
  BY DEF FilesInv, CommandsHold
<1>3. ~restored => reported \subseteq (IF log = NoLog THEN {} ELSE RevokedBy(log))
  BY DEF FilesInv, ReportedStands
<1>4. CASE command[c].op = "init"
  BY <1>1, <1>2, <1>3, <1>4, MarksAreNoLogs DEF Appended
<1>5. CASE command[c].op # "init"
  <2>1. command[c].op \in {Peer, Parent, "bump"} /\ command[c].read \in Logs
    BY <1>1, <1>5 DEF Ops
  <2>2. Appended(c) = Append(command[c].read, command[c].op)
    BY <1>5 DEF Appended
  <2> QED
    BY <1>2, <1>3, <2>1, <2>2, AppendRevokes, MarksAreNoLogs
<1> QED
  BY <1>4, <1>5

\* The steps of a command, and what they leave of a revocation that was reported.
LEMMA CommandKeepsFiles ==
    ASSUME FilesInv, NEW c \in Commands,
           \/ Begin(c) \/ \E op \in Ops : Read(c, op)
           \/ SaveChecks(c) \/ SaveWrites(c) \/ CommandDies(c)
    PROVE  FilesInv' /\ UNCHANGED <<restored, checks>> /\ reported \subseteq reported'
<1>0. FilesInv
  OBVIOUS
<1>t. /\ log \in Logs \union {NoLog} /\ reported \subseteq {Peer, Parent}
      /\ command \in [Commands -> CommandStates] /\ restored \in BOOLEAN
  BY DEF FilesInv, FilesTyped
<1>1. CASE Begin(c)
  <2>1. \A d \in Commands : command[d].pc = "rest"
    BY <1>1, RevocationAssumption DEF Begin, FilesInv, CommandsHold
  <2>2. /\ command' = [command EXCEPT ![c].pc = "locked"] /\ logLock' = c
        /\ UNCHANGED <<log, reported, restored, checks>>
    BY <1>1 DEF Begin
  <2>3. /\ command' \in [Commands -> CommandStates]
        /\ \A d \in Commands : d # c => command'[d].pc = "rest"
        /\ command'[c].pc = "locked"
    BY <1>t, <2>1, <2>2 DEF CommandStates
  <2>4. CommandsHold'
    BY <2>2, <2>3 DEF CommandsHold
  <2> QED
    BY <1>t, <2>2, <2>3, <2>4 DEF FilesInv, FilesTyped, ReportedStands
<1>2. ASSUME NEW op \in Ops, Read(c, op)
      PROVE  FilesInv' /\ UNCHANGED <<restored, checks>> /\ reported \subseteq reported'
  <2>0. /\ command[c].pc = "locked" /\ UNCHANGED <<log, restored, checks>>
    BY <1>2 DEF Read
  <2>1. CASE Over(c) /\ UNCHANGED reported
    <3>1. /\ command' \in [Commands -> CommandStates]
          /\ \A d \in Commands : command'[d].pc = "rest"
      BY <2>0, <2>1, CommandOver
    <3> QED
      BY <1>t, <2>0, <2>1, <3>1 DEF FilesInv, FilesTyped, CommandsHold, ReportedStands
  <2>2. CASE /\ op # "init" /\ log # NoLog /\ op \in RevokedBy(log)
             /\ Over(c) /\ reported' = reported \union {op}
    <3>1. /\ command' \in [Commands -> CommandStates]
          /\ \A d \in Commands : command'[d].pc = "rest"
      BY <2>0, <2>2, CommandOver
    <3>2. op \in {Peer, Parent}
      BY <2>2 DEF Ops, RevokedBy
    <3> QED
      BY <1>t, <2>0, <2>2, <3>1, <3>2
         DEF FilesInv, FilesTyped, CommandsHold, ReportedStands
  <2>3. CASE /\ IF op = "init" THEN log = NoLog ELSE log # NoLog /\ op \notin RevokedBy(log)
             /\ command' = [command EXCEPT ![c] = [pc |-> "read", op |-> op, read |-> log]]
             /\ UNCHANGED <<logLock, reported>>
    <3>1. /\ command' \in [Commands -> CommandStates]
          /\ command'[c] = [pc |-> "read", op |-> op, read |-> log]
          /\ \A d \in Commands : d # c => command'[d] = command[d] /\ command[d].pc = "rest"
      BY <1>t, <2>0, <2>3, OneCommandWorks DEF CommandStates
    <3>2. logLock' = c
      BY <2>0, <2>3 DEF FilesInv, CommandsHold
    <3>3. CommandsHold'
      BY <1>t, <2>0, <2>3, <3>1, <3>2 DEF CommandsHold
    <3> QED
      BY <1>t, <2>0, <2>3, <3>1, <3>3 DEF FilesInv, FilesTyped, ReportedStands
  <2> QED
    BY <1>2, <2>1, <2>2, <2>3 DEF Read
<1>3. CASE SaveChecks(c)
  <2>0. /\ command[c].pc = "read" /\ UNCHANGED <<log, reported, restored, checks>>
    BY <1>3 DEF SaveChecks
  <2>1. CASE Over(c)
    <3>1. /\ command' \in [Commands -> CommandStates]
          /\ \A d \in Commands : command'[d].pc = "rest"
      BY <2>0, <2>1, CommandOver
    <3> QED
      BY <1>t, <2>0, <3>1 DEF FilesInv, FilesTyped, CommandsHold, ReportedStands
  <2>2. CASE command' = [command EXCEPT ![c].pc = "checked"] /\ UNCHANGED logLock
    <3>1. /\ command' \in [Commands -> CommandStates]
          /\ command'[c].pc = "checked"
          /\ command'[c].op = command[c].op /\ command'[c].read = command[c].read
          /\ \A d \in Commands : d # c => command'[d] = command[d]
      BY <1>t, <2>2 DEF CommandStates
    <3>2. CommandsHold'
      BY <2>0, <2>2, <3>1 DEF FilesInv, CommandsHold
    <3> QED
      BY <1>t, <2>0, <3>1, <3>2 DEF FilesInv, FilesTyped, ReportedStands
  <2> QED
    BY <1>3, <2>1, <2>2 DEF SaveChecks
<1>4. CASE SaveWrites(c)
  <2>0. /\ command[c].pc = "checked" /\ UNCHANGED <<restored, checks>>
        /\ log' = Appended(c) /\ Over(c)
        /\ reported' \in {reported, reported \union ({command[c].op} \ {"bump", "init"})}
    BY <1>4 DEF SaveWrites
  <2>1. /\ command' \in [Commands -> CommandStates]
        /\ \A d \in Commands : command'[d].pc = "rest"
    BY <2>0, CommandOver
  <2>2. /\ log' \in Logs
        /\ ~restored => reported' \subseteq RevokedBy(log')
    BY <2>0, AppendedIsLog
  <2>3. {command[c].op} \ {"bump", "init"} \subseteq {Peer, Parent}
    BY <2>0 DEF FilesInv, CommandsHold, Ops
  <2> QED
    BY <1>t, <2>0, <2>1, <2>2, <2>3, MarksAreNoLogs
       DEF FilesInv, FilesTyped, CommandsHold, ReportedStands
<1>5. CASE CommandDies(c)
  <2>0. /\ command[c].pc # "rest" /\ UNCHANGED <<log, reported, restored, checks>>
        /\ Over(c)
    BY <1>5 DEF CommandDies
  <2>1. /\ command' \in [Commands -> CommandStates]
        /\ \A d \in Commands : command'[d].pc = "rest"
    BY <2>0, CommandOver
  <2> QED
    BY <1>t, <2>0, <2>1 DEF FilesInv, FilesTyped, CommandsHold, ReportedStands
<1> QED
  BY <1>1, <1>2, <1>3, <1>4, <1>5

\* The owner's restore.
LEMMA RestoreKeepsFiles ==
    ASSUME FilesInv, Restore
    PROVE  FilesInv' /\ restored' /\ UNCHANGED <<checks, reported>>
<1>1. log' \in Logs /\ restored' = TRUE /\ UNCHANGED <<logLock, command, reported, checks>>
  BY FrontIsLog DEF Restore, FilesInv, FilesTyped
<1> QED
  BY <1>1 DEF FilesInv, FilesTyped, CommandsHold, ReportedStands

-------------------------------------------------------------------------------
(* Revocation: the guards *)

\* The part of the invariant that is about the guards.
GuardsInv ==
    /\ ChecksTyped /\ GuardsHold /\ CallsCounted
    /\ DecidedIsSeen /\ LivePassed /\ KnownIsRead

\* Only one guard loads the log at a time.
LEMMA OneGuardLoads ==
    ASSUME GuardsHold, NEW g \in Guards, guard[g].pc \in {"locked", "verified"}
    PROVE  \A h \in Guards : h # g => guard[h].pc \notin {"locked", "verified"}
BY DEF GuardsHold

\* The facts that the end of a call leaves of the sessions and the guards.
CallEnded(g) ==
    /\ guard' \in [Guards -> GuardStates] /\ guard'[g] = Idle
    /\ \A h \in Guards : h # g => guard'[h] = guard[h]
    /\ live' \in [Guards -> Logs \union {NoLog, Refused}]
    /\ queue' \in [Guards -> 0..MaxQueue]
    /\ CallsCounted' /\ LivePassed'

\* A refusal ends the guard's check and hands nothing on.
LEMMA RefusalEnds ==
    ASSUME GuardsInv, NEW g \in Guards, guard[g].pc # "idle", Refuse(g)
    PROVE  CallEnded(g) /\ UNCHANGED handed
<1>t. /\ guard \in [Guards -> GuardStates] /\ queue \in [Guards -> 0..MaxQueue]
      /\ live \in [Guards -> Logs \union {NoLog, Refused}] /\ MaxQueue \in Nat
  BY RevocationAssumption DEF GuardsInv, ChecksTyped
<1>1. Idle \in GuardStates /\ Idle.pc = "idle"
  BY DEF Idle, GuardStates
<1>2. /\ guard' \in [Guards -> GuardStates] /\ guard'[g] = Idle
      /\ \A h \in Guards : h # g => guard'[h] = guard[h]
  BY <1>t, <1>1 DEF Refuse
<1>3. /\ live' \in [Guards -> Logs \union {NoLog, Refused}]
      /\ \A h \in Guards : live'[h] = live[h] \/ live'[h] = Refused
  BY <1>t DEF Refuse
<1>4. guard[g].why = "take" => queue[g] > 0
  BY DEF GuardsInv, CallsCounted
<1>5. /\ queue' \in [Guards -> 0..MaxQueue]
      /\ \A h \in Guards : h # g => queue'[h] = queue[h]
  <2>1. queue' = [queue EXCEPT ![g] = IF guard[g].why = "take" THEN queue[g] - 1 ELSE queue[g]]
    BY DEF Refuse
  <2>2. (IF guard[g].why = "take" THEN queue[g] - 1 ELSE queue[g]) \in 0..MaxQueue
    BY <1>t, <1>4
  <2> QED
    BY <1>t, <2>1, <2>2
<1>6. CallsCounted'
  BY <1>1, <1>2, <1>5 DEF GuardsInv, CallsCounted
<1>7. LivePassed'
  BY <1>3, MarksAreNoLogs DEF GuardsInv, LivePassed
<1>8. UNCHANGED handed
  BY DEF Refuse
<1> QED
  BY <1>2, <1>3, <1>5, <1>6, <1>7, <1>8 DEF CallEnded

\* A call that ends by a log: only an envelope that is taken is handed on, and the
\* peer passes that log.
LEMMA VerdictEnds ==
    ASSUME GuardsInv, NEW g \in Guards, guard[g].pc # "idle", NEW l \in Logs,
           Verdict(g, l)
    PROVE  /\ CallEnded(g) /\ top' = l
           /\ handed' # handed => queue'[g] < queue[g] /\ VerifyWith(l)
<1>t. /\ guard \in [Guards -> GuardStates] /\ queue \in [Guards -> 0..MaxQueue]
      /\ live \in [Guards -> Logs \union {NoLog, Refused}] /\ MaxQueue \in Nat
  BY RevocationAssumption DEF GuardsInv, ChecksTyped
<1>0. top' = l
  BY DEF Verdict
<1>1. CASE (guard[g].why # "connect" /\ live[g] = l) \/ VerifyWith(l)
  <2>0. /\ live' = [live EXCEPT ![g] = l]
        /\ queue' = [queue EXCEPT ![g] = CASE guard[g].why = "arrive" -> queue[g] + 1
                                           [] guard[g].why = "take" -> queue[g] - 1
                                           [] OTHER -> queue[g]]
        /\ handed' = IF guard[g].why = "take" THEN ~handed ELSE handed
        /\ guard' = [guard EXCEPT ![g] = Idle]
    BY <1>1 DEF Verdict
  <2>1. Idle \in GuardStates /\ Idle.pc = "idle"
    BY DEF Idle, GuardStates
  <2>2. /\ guard' \in [Guards -> GuardStates] /\ guard'[g] = Idle
        /\ \A h \in Guards : h # g => guard'[h] = guard[h]
    BY <1>t, <2>0, <2>1
  <2>3. VerifyWith(l)
    BY <1>1 DEF GuardsInv, LivePassed
  <2>4. /\ live' \in [Guards -> Logs \union {NoLog, Refused}] /\ LivePassed'
    BY <1>t, <2>0, <2>3 DEF GuardsInv, LivePassed
  <2>5. /\ guard[g].why = "take" => queue[g] > 0
        /\ guard[g].why = "arrive" => queue[g] < MaxQueue
    BY DEF GuardsInv, CallsCounted
  <2> DEFINE q == CASE guard[g].why = "arrive" -> queue[g] + 1
                    [] guard[g].why = "take" -> queue[g] - 1
                    [] OTHER -> queue[g]
  <2>6. /\ guard[g].why = "take" => q = queue[g] - 1
        /\ guard[g].why = "arrive" => q = queue[g] + 1
        /\ guard[g].why \notin {"arrive", "take"} => q = queue[g]
    OBVIOUS
  <2>7. queue[g] \in 0..MaxQueue /\ q \in 0..MaxQueue
    <3> HIDE DEF q
    <3> QED
      BY <1>t, <2>5, <2>6
  <2>8. /\ queue' \in [Guards -> 0..MaxQueue] /\ queue'[g] = q
        /\ \A h \in Guards : h # g => queue'[h] = queue[h]
    <3> HIDE DEF q
    <3>1. queue' = [queue EXCEPT ![g] = q]
      BY <2>0 DEF q
    <3> QED
      BY <1>t, <2>7, <3>1
  <2>9. CallsCounted'
    BY <2>1, <2>2, <2>8 DEF GuardsInv, CallsCounted
  <2>10. handed' # handed => queue'[g] < queue[g]
    <3> HIDE DEF q
    <3>1. handed' # handed => guard[g].why = "take"
      BY <2>0
    <3> QED
      BY <3>1, <1>t, <2>6, <2>7, <2>8
  <2> QED
    BY <1>0, <2>2, <2>3, <2>4, <2>8, <2>9, <2>10 DEF CallEnded
<1>2. CASE ~((guard[g].why # "connect" /\ live[g] = l) \/ VerifyWith(l))
  <2>1. Refuse(g)
    BY <1>2 DEF Verdict
  <2> QED
    BY <1>0, <2>1, RefusalEnds
<1> QED
  BY <1>1, <1>2

\* What a step of a guard must respect, besides the invariant.
Lawful(g) ==
    /\ IsPrefix(top, top')
    /\ handed' # handed =>
          restored \/ (queue'[g] < queue[g] /\ {Peer, Parent} \intersect knew'[g] = {})

\* A call begins: what is reported by then is in the log that is read.
LEMMA CallKeeps ==
    ASSUME RevocationInv, NEW g \in Guards, NEW why \in {"connect", "arrive", "take"},
           Call(g, why)
    PROVE  GuardsInv' /\ UNCHANGED files /\ Lawful(g)
<1>0. RevocationInv
  OBVIOUS
<1>t. /\ guard \in [Guards -> GuardStates] /\ queue \in [Guards -> 0..MaxQueue]
      /\ live \in [Guards -> Logs \union {NoLog, Refused}] /\ MaxQueue \in Nat
      /\ cache \in [Guards -> Logs \union {NoLog}]
      /\ knew \in [Guards -> SUBSET {Peer, Parent}] /\ top \in Logs
      /\ log \in Logs \union {NoLog} /\ reported \subseteq {Peer, Parent}
      /\ seen \in Logs \union {NoLog}
  BY RevocationAssumption DEF RevocationInv, ChecksTyped, FilesInv, FilesTyped
<1>1. /\ guard[g] = Idle /\ UNCHANGED <<files, seen, seenLock, top, handed>>
      /\ knew' = [knew EXCEPT ![g] = reported]
      /\ why = "arrive" => queue[g] < MaxQueue
      /\ why = "take" => queue[g] > 0
  BY DEF Call
<1>2. Idle.pc = "idle" /\ Idle \in GuardStates
  BY DEF Idle, GuardStates
<1>3. /\ knew' \in [Guards -> SUBSET {Peer, Parent}]
      /\ knew'[g] = reported
      /\ \A h \in Guards : h # g => knew'[h] = knew[h]
  BY <1>t, <1>1
<1>4. Lawful(g)
  BY <1>t, <1>1, PrefixIsReflexive DEF Lawful
<1>5. DecidedIsSeen'
  BY <1>1 DEF RevocationInv, DecidedIsSeen
<1>6. CASE (why # "connect" /\ live[g] = Refused) \/ log = NoLog
  <2>0. /\ live' = [live EXCEPT ![g] = IF why = "connect" THEN live[g] ELSE Refused]
        /\ queue' = [queue EXCEPT ![g] = IF why = "take" THEN queue[g] - 1 ELSE queue[g]]
        /\ cache' = [cache EXCEPT ![g] = IF log = NoLog THEN NoLog ELSE cache[g]]
        /\ UNCHANGED guard
    BY <1>6 DEF Call
  <2>1. /\ live' \in [Guards -> Logs \union {NoLog, Refused}]
        /\ \A h \in Guards : live'[h] = live[h] \/ live'[h] = Refused
    BY <1>t, <2>0
  <2>2. LivePassed'
    BY <2>1, MarksAreNoLogs DEF RevocationInv, LivePassed
  <2>3. cache' \in [Guards -> Logs \union {NoLog}]
    BY <1>t, <2>0
  <2>4. /\ queue' \in [Guards -> 0..MaxQueue]
        /\ \A h \in Guards : h # g => queue'[h] = queue[h]
    <3>1. (IF why = "take" THEN queue[g] - 1 ELSE queue[g]) \in 0..MaxQueue
      BY <1>t, <1>1
    <3> QED
      BY <1>t, <2>0, <3>1
  <2>5. ChecksTyped'
    BY <1>t, <1>1, <1>3, <2>0, <2>1, <2>3, <2>4 DEF ChecksTyped
  <2>6. GuardsHold'
    BY <1>1, <2>0 DEF RevocationInv, GuardsHold
  <2>7. CallsCounted'
    BY <1>1, <1>2, <2>0, <2>4 DEF RevocationInv, CallsCounted
  <2>8. KnownIsRead'
    BY <1>1, <1>2, <1>3, <2>0 DEF RevocationInv, KnownIsRead, files
  <2> QED
    BY <1>1, <1>4, <1>5, <2>2, <2>5, <2>6, <2>7, <2>8 DEF GuardsInv
<1>7. CASE ~((why # "connect" /\ live[g] = Refused) \/ log = NoLog)
  <2>0. /\ guard' = [guard EXCEPT ![g] = [pc |-> "read", why |-> why, bytes |-> log]]
        /\ UNCHANGED <<live, queue, cache>>
    BY <1>7 DEF Call
  <2>1. log \in Logs
    BY <1>t, <1>7
  <2>2. /\ guard' \in [Guards -> GuardStates]
        /\ guard'[g] = [pc |-> "read", why |-> why, bytes |-> log]
        /\ \A h \in Guards : h # g => guard'[h] = guard[h]
    BY <1>t, <2>0, <2>1 DEF GuardStates
  <2>3. ChecksTyped'
    BY <1>t, <1>1, <1>3, <2>0, <2>2 DEF ChecksTyped
  <2>4. GuardsHold'
    BY <1>1, <2>1, <2>2 DEF RevocationInv, GuardsHold
  <2>5. CallsCounted'
    BY <1>1, <2>0, <2>2 DEF RevocationInv, CallsCounted
  <2>6. LivePassed'
    BY <2>0 DEF RevocationInv, LivePassed
  <2>7. ~restored => reported \subseteq RevokedBy(log)
    BY <1>7 DEF RevocationInv, FilesInv, ReportedStands
  <2>8. KnownIsRead'
    BY <1>1, <1>3, <2>2, <2>7 DEF RevocationInv, KnownIsRead, files
  <2> QED
    BY <1>1, <1>4, <1>5, <2>3, <2>4, <2>5, <2>6, <2>8 DEF GuardsInv
<1> QED
  BY <1>6, <1>7

\* A call that is served from the cache.
LEMMA HitKeeps ==
    ASSUME RevocationInv, NEW g \in Guards, Hit(g)
    PROVE  GuardsInv' /\ UNCHANGED files /\ Lawful(g)
<1>0. RevocationInv /\ GuardsInv
  BY DEF RevocationInv, GuardsInv
<1> DEFINE l == cache[g]
<1>1. /\ guard[g].pc = "read" /\ l # NoLog /\ l = guard[g].bytes /\ seen = l
      /\ Verdict(g, l)
      /\ UNCHANGED <<files, seen, seenLock, cache, knew, calls>>
  BY DEF Hit, CacheStands
<1>2. l \in Logs /\ top \in Logs
  BY <1>0, <1>1 DEF GuardsInv, ChecksTyped
<1>3. /\ CallEnded(g) /\ top' = l
      /\ handed' # handed => queue'[g] < queue[g] /\ VerifyWith(l)
  BY <1>0, <1>1, <1>2, VerdictEnds
<1>4. IsPrefix(top, l)
  BY <1>0, <1>1 DEF RevocationInv, DecidedIsSeen
<1>5. ~restored => knew[g] \subseteq RevokedBy(l)
  BY <1>0, <1>1 DEF RevocationInv, KnownIsRead
<1>6. Lawful(g)
  BY <1>1, <1>3, <1>4, <1>5 DEF Lawful, VerifyWith
<1>7. Idle.pc = "idle"
  BY DEF Idle
<1>8. ChecksTyped'
  BY <1>0, <1>1, <1>2, <1>3 DEF RevocationInv, ChecksTyped, CallEnded
<1>9. GuardsHold' /\ KnownIsRead'
  BY <1>0, <1>1, <1>3, <1>7 DEF RevocationInv, GuardsHold, KnownIsRead, CallEnded, files
<1>10. DecidedIsSeen'
  BY <1>1, <1>2, <1>3, PrefixIsReflexive DEF DecidedIsSeen
<1> QED
  BY <1>1, <1>3, <1>6, <1>8, <1>9, <1>10 DEF GuardsInv, CallEnded

\* A call that has to load the log takes the lock of Seen.
LEMMA MissKeeps ==
    ASSUME RevocationInv, NEW g \in Guards, Miss(g)
    PROVE  GuardsInv' /\ UNCHANGED files /\ Lawful(g)
<1>0. RevocationInv
  OBVIOUS
<1>t. /\ guard \in [Guards -> GuardStates] /\ top \in Logs
      /\ cache \in [Guards -> Logs \union {NoLog}]
  BY DEF RevocationInv, ChecksTyped
<1>1. /\ guard[g].pc = "read" /\ seenLock = Free /\ seenLock' = g
      /\ cache' = [cache EXCEPT ![g] = NoLog]
      /\ guard' = [guard EXCEPT ![g].pc = "locked"]
      /\ UNCHANGED <<files, seen, live, queue, knew, top, handed, calls>>
  BY DEF Miss
<1>2. /\ guard' \in [Guards -> GuardStates] /\ guard'[g].pc = "locked"
      /\ guard'[g].why = guard[g].why /\ guard'[g].bytes = guard[g].bytes
      /\ \A h \in Guards : h # g => guard'[h] = guard[h]
  BY <1>t, <1>1 DEF GuardStates
<1>3. cache' \in [Guards -> Logs \union {NoLog}]
  BY <1>t, <1>1
<1>4. ChecksTyped'
  BY <1>1, <1>2, <1>3 DEF RevocationInv, ChecksTyped
<1>5. \A h \in Guards : guard[h].pc \notin {"locked", "verified"}
  BY <1>1, RevocationAssumption DEF RevocationInv, GuardsHold
<1>6. GuardsHold'
  BY <1>1, <1>2, <1>5 DEF RevocationInv, GuardsHold
<1>7. CallsCounted' /\ KnownIsRead'
  BY <1>1, <1>2 DEF RevocationInv, CallsCounted, KnownIsRead, files
<1>8. DecidedIsSeen' /\ LivePassed'
  BY <1>1 DEF RevocationInv, DecidedIsSeen, LivePassed
<1>9. Lawful(g)
  BY <1>t, <1>1, PrefixIsReflexive DEF Lawful
<1> QED
  BY <1>1, <1>4, <1>6, <1>7, <1>8, <1>9 DEF GuardsInv

\* The log is loaded inside the lock; it must extend what was seen.
LEMMA LoadKeeps ==
    ASSUME RevocationInv, NEW g \in Guards, Load(g)
    PROVE  GuardsInv' /\ UNCHANGED files /\ Lawful(g)
<1>0. RevocationInv /\ GuardsInv
  BY DEF RevocationInv, GuardsInv
<1>t. /\ guard \in [Guards -> GuardStates] /\ top \in Logs
      /\ log \in Logs \union {NoLog}
  BY DEF RevocationInv, ChecksTyped, FilesInv, FilesTyped
<1>1. guard[g].pc = "locked" /\ UNCHANGED <<files, seen, cache, knew, calls>>
  BY DEF Load
<1>2. \A h \in Guards : h # g => guard[h].pc \notin {"locked", "verified"}
  BY <1>0, <1>1, OneGuardLoads DEF GuardsInv
<1>3. seenLock = g
  BY <1>0, <1>1 DEF GuardsInv, GuardsHold
<1>4. CASE log # NoLog /\ (seen = NoLog \/ IsPrefix(seen, log))
  <2>0. /\ guard' = [guard EXCEPT ![g].pc = "verified", ![g].bytes = log]
        /\ UNCHANGED <<seenLock, live, queue, top, handed>>
    BY <1>4 DEF Load
  <2>1. log \in Logs
    BY <1>t, <1>4
  <2>2. /\ guard' \in [Guards -> GuardStates] /\ guard'[g].pc = "verified"
        /\ guard'[g].why = guard[g].why /\ guard'[g].bytes = log
        /\ \A h \in Guards : h # g => guard'[h] = guard[h]
    BY <1>t, <2>0, <2>1 DEF GuardStates
  <2>3. ChecksTyped'
    BY <1>1, <2>0, <2>2 DEF RevocationInv, ChecksTyped
  <2>4. GuardsHold'
    BY <1>1, <1>3, <1>4, <2>0, <2>1, <2>2 DEF RevocationInv, GuardsHold
  <2>5. ~restored => reported \subseteq RevokedBy(log)
    BY <1>4 DEF RevocationInv, FilesInv, ReportedStands
  <2>6. KnownIsRead'
    BY <1>1, <2>2, <2>5 DEF RevocationInv, KnownIsRead, files
  <2>7. CallsCounted'
    BY <1>1, <2>0, <2>2 DEF RevocationInv, CallsCounted
  <2>8. DecidedIsSeen' /\ LivePassed'
    BY <1>1, <2>0 DEF RevocationInv, DecidedIsSeen, LivePassed
  <2>9. Lawful(g)
    BY <1>t, <2>0, PrefixIsReflexive DEF Lawful
  <2> QED
    BY <1>1, <2>3, <2>4, <2>6, <2>7, <2>8, <2>9 DEF GuardsInv
<1>5. CASE ~(log # NoLog /\ (seen = NoLog \/ IsPrefix(seen, log)))
  <2>0. Refuse(g) /\ seenLock' = Free /\ UNCHANGED top
    BY <1>5 DEF Load
  <2>1. CallEnded(g) /\ UNCHANGED handed
    BY <1>0, <1>1, <2>0, RefusalEnds
  <2>2. Idle.pc = "idle"
    BY DEF Idle
  <2>3. ChecksTyped'
    BY <1>1, <2>0, <2>1 DEF RevocationInv, ChecksTyped, CallEnded
  <2>4. GuardsHold' /\ KnownIsRead'
    BY <1>1, <1>2, <2>1, <2>2
       DEF RevocationInv, GuardsHold, KnownIsRead, CallEnded, files
  <2>5. DecidedIsSeen'
    BY <1>1, <2>0 DEF RevocationInv, DecidedIsSeen
  <2>6. Lawful(g)
    BY <1>t, <2>0, <2>1, PrefixIsReflexive DEF Lawful
  <2> QED
    BY <1>1, <2>1, <2>3, <2>4, <2>5, <2>6 DEF GuardsInv, CallEnded
<1> QED
  BY <1>4, <1>5

\* Seen takes in the log that was loaded before the call is decided by it.
LEMMA AdvanceKeeps ==
    ASSUME RevocationInv, NEW g \in Guards, Advance(g)
    PROVE  GuardsInv' /\ UNCHANGED files /\ Lawful(g)
<1>0. RevocationInv /\ GuardsInv
  BY DEF RevocationInv, GuardsInv
<1> DEFINE l == guard[g].bytes
<1>1. guard[g].pc = "verified" /\ seenLock' = Free /\ UNCHANGED <<files, knew, calls>>
  BY DEF Advance
<1>2. \A h \in Guards : h # g => guard[h].pc \notin {"locked", "verified"}
  BY <1>0, <1>1, OneGuardLoads DEF GuardsInv
<1>3. l \in Logs /\ (seen = NoLog \/ IsPrefix(seen, l))
  BY <1>0, <1>1 DEF GuardsInv, GuardsHold
<1>4. seen \in Logs \union {NoLog} /\ top \in Logs /\ cache \in [Guards -> Logs \union {NoLog}]
  BY <1>0 DEF GuardsInv, ChecksTyped
<1>5. IsPrefix(top, l)
  <2>1. CASE seen = NoLog
    BY <1>0, <1>3, <2>1, EmptyIsPrefix DEF GuardsInv, DecidedIsSeen
  <2>2. CASE seen # NoLog
    <3>1. IsPrefix(top, seen) /\ IsPrefix(seen, l) /\ seen \in Logs
      BY <1>0, <1>3, <1>4, <2>2 DEF GuardsInv, DecidedIsSeen
    <3> QED
      BY <1>3, <1>4, <3>1, PrefixIsTransitive
  <2> QED
    BY <2>1, <2>2
<1>6. Idle.pc = "idle"
  BY DEF Idle
<1>7. CASE /\ seen' = l /\ cache' = [cache EXCEPT ![g] = l] /\ Verdict(g, l)
  <2>1. /\ CallEnded(g) /\ top' = l
        /\ handed' # handed => queue'[g] < queue[g] /\ VerifyWith(l)
    BY <1>0, <1>1, <1>3, <1>7, VerdictEnds
  <2>2. ~restored => knew[g] \subseteq RevokedBy(l)
    BY <1>0, <1>1 DEF RevocationInv, KnownIsRead
  <2>3. Lawful(g)
    BY <1>1, <1>5, <2>1, <2>2 DEF Lawful, VerifyWith
  <2>4. cache' \in [Guards -> Logs \union {NoLog}]
    BY <1>3, <1>4, <1>7
  <2>5. ChecksTyped'
    BY <1>0, <1>1, <1>3, <1>7, <2>1, <2>4 DEF RevocationInv, ChecksTyped, CallEnded
  <2>6. GuardsHold' /\ KnownIsRead'
    BY <1>0, <1>1, <1>2, <1>6, <2>1
       DEF RevocationInv, GuardsHold, KnownIsRead, CallEnded, files
  <2>7. DecidedIsSeen'
    BY <1>3, <1>7, <2>1, PrefixIsReflexive, MarksAreNoLogs DEF DecidedIsSeen
  <2> QED
    BY <1>1, <2>1, <2>3, <2>5, <2>6, <2>7 DEF GuardsInv, CallEnded
<1>8. CASE /\ seen' \in {seen, l} /\ Refuse(g) /\ UNCHANGED <<cache, top>>
  <2>1. CallEnded(g) /\ UNCHANGED handed
    BY <1>0, <1>1, <1>8, RefusalEnds
  <2>2. Lawful(g)
    BY <1>4, <1>8, <2>1, PrefixIsReflexive DEF Lawful
  <2>3. ChecksTyped'
    BY <1>0, <1>1, <1>3, <1>8, <2>1 DEF RevocationInv, ChecksTyped, CallEnded
  <2>4. GuardsHold' /\ KnownIsRead'
    BY <1>0, <1>1, <1>2, <1>6, <2>1
       DEF RevocationInv, GuardsHold, KnownIsRead, CallEnded, files
  <2>5. DecidedIsSeen'
    BY <1>0, <1>3, <1>5, <1>8, MarksAreNoLogs DEF GuardsInv, DecidedIsSeen
  <2> QED
    BY <1>1, <2>1, <2>2, <2>3, <2>4, <2>5 DEF GuardsInv, CallEnded
<1> QED
  BY <1>7, <1>8 DEF Advance

\* A process that restarts forgets its call and its sessions, and nothing else.
LEMMA RestartKeeps ==
    ASSUME RevocationInv, NEW g \in Guards, Restart(g)
    PROVE  GuardsInv' /\ UNCHANGED files /\ Lawful(g)
<1>0. RevocationInv
  OBVIOUS
<1>t. /\ guard \in [Guards -> GuardStates] /\ queue \in [Guards -> 0..MaxQueue]
      /\ live \in [Guards -> Logs \union {NoLog, Refused}] /\ MaxQueue \in Nat
      /\ cache \in [Guards -> Logs \union {NoLog}] /\ top \in Logs
  BY RevocationAssumption DEF RevocationInv, ChecksTyped
<1>1. /\ guard' = [guard EXCEPT ![g] = Idle] /\ cache' = [cache EXCEPT ![g] = NoLog]
      /\ live' = [live EXCEPT ![g] = NoLog] /\ queue' = [queue EXCEPT ![g] = 0]
      /\ seenLock' = IF seenLock = g THEN Free ELSE seenLock
      /\ UNCHANGED <<files, seen, knew, top, handed, calls>>
  BY DEF Restart
<1>2. Idle.pc = "idle" /\ Idle \in GuardStates
  BY DEF Idle, GuardStates
<1>3. /\ guard' \in [Guards -> GuardStates] /\ guard'[g] = Idle
      /\ \A h \in Guards : h # g => guard'[h] = guard[h] /\ queue'[h] = queue[h]
  BY <1>t, <1>1, <1>2
<1>4. /\ cache' \in [Guards -> Logs \union {NoLog}]
      /\ live' \in [Guards -> Logs \union {NoLog, Refused}]
      /\ \A h \in Guards : live'[h] = live[h] \/ live'[h] = NoLog
      /\ queue' \in [Guards -> 0..MaxQueue]
  BY <1>t, <1>1
<1>5. ChecksTyped'
  BY <1>1, <1>3, <1>4 DEF RevocationInv, ChecksTyped
<1>6. GuardsHold' /\ CallsCounted' /\ KnownIsRead'
  BY <1>1, <1>2, <1>3 DEF RevocationInv, GuardsHold, CallsCounted, KnownIsRead, files
<1>7. LivePassed'
  BY <1>4, MarksAreNoLogs DEF RevocationInv, LivePassed
<1>8. DecidedIsSeen'
  BY <1>1 DEF RevocationInv, DecidedIsSeen
<1>9. Lawful(g)
  BY <1>t, <1>1, PrefixIsReflexive DEF Lawful
<1> QED
  BY <1>1, <1>5, <1>6, <1>7, <1>8, <1>9 DEF GuardsInv

-------------------------------------------------------------------------------
(* Revocation: every step *)

\* The files and the guards share what is reported: a step on the files leaves the
\* guards' part of the invariant.
LEMMA FilesLeaveGuards ==
    ASSUME RevocationInv, FilesInv', UNCHANGED checks, reported \subseteq reported',
           restored => restored'
    PROVE  RevocationInv'
<1>1. ChecksTyped' /\ GuardsHold' /\ CallsCounted' /\ DecidedIsSeen' /\ LivePassed'
  BY DEF checks, RevocationInv, ChecksTyped, GuardsHold, CallsCounted, DecidedIsSeen,
         LivePassed
<1>2. KnownIsRead'
  BY DEF checks, RevocationInv, KnownIsRead
<1> QED
  BY <1>1, <1>2 DEF RevocationInv

\* A step of the guards keeps what holds of the files.
LEMMA GuardsLeaveFiles ==
    ASSUME RevocationInv, GuardsInv', UNCHANGED files
    PROVE  RevocationInv'
<1>1. FilesInv'
  BY DEF files, RevocationInv, FilesInv, FilesTyped, CommandsHold, ReportedStands
<1> QED
  BY <1>1 DEF RevocationInv, GuardsInv

\* Every step keeps the invariant, lets the store only grow, and hands a session on only
\* when no revocation of its chain is known to the check, or after a restore.
LEMMA StepKeeps ==
    ASSUME RevocationInv, [Next]_vars
    PROVE  /\ RevocationInv'
           /\ IsPrefix(top, top')
           /\ handed' # handed =>
                 restored \/ \E g \in Guards :
                    queue'[g] < queue[g] /\ {Peer, Parent} \intersect knew'[g] = {}
<1>0. RevocationInv /\ FilesInv /\ IsPrefix(top, top)
  BY PrefixIsReflexive DEF RevocationInv, ChecksTyped
<1>1. ASSUME NEW c \in Commands,
             \/ Begin(c) \/ \E op \in Ops : Read(c, op)
             \/ SaveChecks(c) \/ SaveWrites(c) \/ CommandDies(c)
      PROVE  RevocationInv' /\ UNCHANGED <<top, handed>>
  <2>1. FilesInv' /\ UNCHANGED <<restored, checks>> /\ reported \subseteq reported'
    BY <1>0, <1>1, CommandKeepsFiles
  <2> QED
    BY <1>0, <2>1, FilesLeaveGuards DEF checks
<1>2. CASE Restore
  <2>1. FilesInv' /\ restored' /\ UNCHANGED <<checks, reported>>
    BY <1>0, <1>2, RestoreKeepsFiles
  <2>2. RevocationInv'
    BY <1>0, <2>1, FilesLeaveGuards
  <2> QED
    BY <1>0, <2>1, <2>2 DEF checks
<1>3. ASSUME NEW g \in Guards,
             \/ \E why \in {"connect", "arrive", "take"} : Call(g, why)
             \/ Hit(g) \/ Miss(g) \/ Load(g) \/ Advance(g) \/ Restart(g)
      PROVE  RevocationInv' /\ Lawful(g)
  <2>1. GuardsInv' /\ UNCHANGED files /\ Lawful(g)
    BY <1>0, <1>3, CallKeeps, HitKeeps, MissKeeps, LoadKeeps, AdvanceKeeps, RestartKeeps
  <2> QED
    BY <1>0, <2>1, GuardsLeaveFiles
<1>4. CASE UNCHANGED vars
  <2>1. UNCHANGED files /\ UNCHANGED checks
    BY <1>4 DEF vars, files, checks
  <2>2. FilesInv'
    BY <1>0, <2>1 DEF files, FilesInv, FilesTyped, CommandsHold, ReportedStands
  <2>3. RevocationInv'
    BY <1>0, <2>1, <2>2, FilesLeaveGuards DEF files
  <2> QED
    BY <1>0, <2>1, <2>3 DEF checks
<1>5. QED
  BY <1>0, <1>1, <1>2, <1>3, <1>4 DEF Next, Lawful

-------------------------------------------------------------------------------
(* Revocation: theorems *)

\* The invariant holds of every run of commands and guards (revocation.rs of the CLI
\* and guard.rs of the protocol crate), whatever is killed and whenever.
THEOREM RevocationCorrect == Spec => []RevocationInv
<1>1. Init => RevocationInv
  BY InitRevocation
<1>2. RevocationInv /\ [Next]_vars => RevocationInv'
  BY StepKeeps
<1> QED
  BY <1>1, <1>2, PTL DEF Spec

\* What amesh has reported as revoked stays in the log (save in revocation.rs), for
\* any number of commands side by side; only the owner's restore takes it back.
THEOREM ReportedStaysRevoked == Spec => []NoRevocationLost
<1>1. RevocationInv => NoRevocationLost
  BY DEF RevocationInv, FilesInv, ReportedStands, NoRevocationLost
<1> QED
  BY <1>1, RevocationCorrect, PTL

\* Whichever guards of a home decide, they decide by logs that only grow
\* (RevocationGuard::check and the Seen record of guard.rs), and no check that began
\* after an agent was reported hands on an envelope of it (LiveCheck::admit), for
\* any number of guards, any queue and any length of the log.
THEOREM RevocationIsFinal == Spec => RevocationLasts
<1>1. RevocationInv /\ [Next]_vars => [IsPrefix(top, top')]_vars
  BY StepKeeps
<1>2. RevocationInv /\ [Next]_vars =>
         [handed' # handed =>
            restored \/ \E g \in Guards :
               queue'[g] < queue[g] /\ {Peer, Parent} \intersect knew'[g] = {}]_vars
  BY StepKeeps
<1>3. Spec => DecidedByGrowingLogs
  BY <1>1, RevocationCorrect, PTL DEF Spec, DecidedByGrowingLogs
<1>4. Spec => RevokedIsNotHanded
  BY <1>2, RevocationCorrect, PTL DEF Spec, RevokedIsNotHanded
<1> QED
  BY <1>3, <1>4 DEF RevocationLasts

-------------------------------------------------------------------------------
(* The lattice of caveats *)

\* Every nonempty set of naturals has a least element: chains are gone through by it.
LEMMA LeastIndex ==
    ASSUME NEW T, T \subseteq Nat, T # {}
    PROVE  \E x \in T : \A y \in T : x <= y
<1>1. IsWellFoundedOn({p \in Nat \X Nat : p[1] < p[2]}, Nat)
  BY NatLessThanWellFounded DEF OpToRel
<1>2. PICK R : R = {p \in Nat \X Nat : p[1] < p[2]}
  OBVIOUS
<1>3. \A a, b \in Nat : a < b => <<a, b>> \in R
  BY <1>2
<1>4. IsWellFoundedOn(R, Nat)
  BY <1>1, <1>2
<1>5. PICK x \in T : \A y \in T : ~(<<y, x>> \in R)
  BY <1>4, WFMin
<1>6. \A y \in T : ~(y < x)
  BY <1>3, <1>5
<1> QED
  BY <1>6

\* What scopes and bounds on calls look like.
LEMMA ScopeShape ==
    ASSUME NEW S, NEW a \in Scopes(S)
    PROVE  a = ScopeTop \/ (a = Only(a.only) /\ a.only \subseteq S)
<1>1. CASE a \in [all : {TRUE}, only : {{}}]
  BY <1>1 DEF ScopeTop
<1>2. CASE a \in [all : {FALSE}, only : SUBSET S]
  BY <1>2 DEF Only
<1> QED
  BY <1>1, <1>2 DEF Scopes

LEMMA CountShape ==
    ASSUME NEW a \in Counts
    PROVE  a = Unlimited \/ (a = AtMost(a.n) /\ a.n \in Nat)
<1>1. CASE a \in [unlimited : {TRUE}, n : {0}]
  BY <1>1 DEF Unlimited
<1>2. CASE a \in [unlimited : {FALSE}, n : Nat]
  BY <1>2 DEF AtMost
<1> QED
  BY <1>1, <1>2 DEF Counts

\* A scope is at most itself, the order is transitive, and what is at most another is the
\* meet of the two.
LEMMA ScopeOrder ==
    ASSUME NEW S
    PROVE  /\ ScopeTop \in Scopes(S)
           /\ \A a \in Scopes(S) : ScopeLeq(a, a) /\ ScopeMeet(ScopeTop, a) = a
           /\ \A a, b \in Scopes(S) : ScopeLeq(a, b) => ScopeMeet(a, b) = a
           /\ \A a, b, c \in Scopes(S) : ScopeLeq(a, b) /\ ScopeLeq(b, c) => ScopeLeq(a, c)
<1>1. ScopeTop \in Scopes(S)
  BY DEF ScopeTop, Scopes
<1>2. ASSUME NEW a \in Scopes(S)
      PROVE  ScopeLeq(a, a) /\ ScopeMeet(ScopeTop, a) = a
  <2>1. ScopeMeet(ScopeTop, a) = a
    BY DEF ScopeMeet, ScopeTop
  <2>2. CASE a = ScopeTop
    BY <2>1, <2>2 DEF ScopeLeq, ScopeTop
  <2>3. CASE a = Only(a.only)
    <3>1. ~a.all
      BY <2>3 DEF Only
    <3> QED
      BY <2>1, <3>1 DEF ScopeLeq
  <2> QED
    BY <2>2, <2>3, ScopeShape
<1>3. ASSUME NEW a \in Scopes(S), NEW b \in Scopes(S), ScopeLeq(a, b)
      PROVE  ScopeMeet(a, b) = a
  <2>1. CASE b = ScopeTop
    <3>1. CASE a = ScopeTop
      BY <2>1, <3>1 DEF ScopeMeet, ScopeTop
    <3>2. CASE a = Only(a.only)
      <4>1. ~a.all /\ b.all
        BY <2>1, <3>2 DEF Only, ScopeTop
      <4> QED
        BY <4>1 DEF ScopeMeet
    <3> QED
      BY <3>1, <3>2, ScopeShape
  <2>2. CASE b = Only(b.only)
    <3>1. ~b.all
      BY <2>2 DEF Only
    <3>2. ~a.all /\ a.only \subseteq b.only
      BY <1>3, <3>1 DEF ScopeLeq
    <3>3. a = Only(a.only)
      BY <3>2, ScopeShape DEF ScopeTop
    <3>4. a.only \intersect b.only = a.only
      BY <3>2
    <3>5. ScopeMeet(a, b) = Only(a.only \intersect b.only)
      BY <3>1, <3>2 DEF ScopeMeet
    <3> QED
      BY <3>3, <3>4, <3>5
  <2> QED
    BY <2>1, <2>2, ScopeShape
<1>4. ASSUME NEW a \in Scopes(S), NEW b \in Scopes(S), NEW c \in Scopes(S),
             ScopeLeq(a, b), ScopeLeq(b, c)
      PROVE  ScopeLeq(a, c)
  BY <1>4 DEF ScopeLeq
<1> QED
  BY <1>1, <1>2, <1>3, <1>4

\* The same of bounds on calls.
LEMMA CountOrder ==
    /\ Unlimited \in Counts
    /\ \A a \in Counts : CountLeq(a, a) /\ CountMeet(Unlimited, a) = a
    /\ \A a, b \in Counts : CountLeq(a, b) => CountMeet(a, b) = a
    /\ \A a, b, c \in Counts : CountLeq(a, b) /\ CountLeq(b, c) => CountLeq(a, c)
<1>1. Unlimited \in Counts
  BY DEF Unlimited, Counts
<1>2. ASSUME NEW a \in Counts
      PROVE  CountLeq(a, a) /\ CountMeet(Unlimited, a) = a
  <2>1. CountMeet(Unlimited, a) = a
    BY DEF CountMeet, Unlimited
  <2>2. CASE a = Unlimited
    BY <2>1, <2>2 DEF CountLeq, Unlimited
  <2>3. CASE a = AtMost(a.n) /\ a.n \in Nat
    <3>1. ~a.unlimited /\ a.n <= a.n
      BY <2>3 DEF AtMost
    <3> QED
      BY <2>1, <3>1 DEF CountLeq
  <2> QED
    BY <2>2, <2>3, CountShape
<1>3. ASSUME NEW a \in Counts, NEW b \in Counts, CountLeq(a, b)
      PROVE  CountMeet(a, b) = a
  <2>1. CASE b = Unlimited
    <3>1. CASE a = Unlimited
      BY <2>1, <3>1 DEF CountMeet, Unlimited
    <3>2. CASE a = AtMost(a.n)
      <4>1. ~a.unlimited /\ b.unlimited
        BY <2>1, <3>2 DEF AtMost, Unlimited
      <4> QED
        BY <4>1 DEF CountMeet
    <3> QED
      BY <3>1, <3>2, CountShape
  <2>2. CASE b = AtMost(b.n)
    <3>1. ~b.unlimited
      BY <2>2 DEF AtMost
    <3>2. ~a.unlimited /\ a.n <= b.n
      BY <1>3, <3>1 DEF CountLeq
    <3>3. a = AtMost(a.n)
      BY <3>2, CountShape DEF Unlimited
    <3>4. CountMeet(a, b) = AtMost(a.n)
      BY <3>1, <3>2 DEF CountMeet
    <3> QED
      BY <3>3, <3>4
  <2> QED
    BY <2>1, <2>2, CountShape
<1>4. ASSUME NEW a \in Counts, NEW b \in Counts, NEW c \in Counts,
             CountLeq(a, b), CountLeq(b, c)
      PROVE  CountLeq(a, c)
  <2>1. CASE c = Unlimited
    BY <2>1 DEF CountLeq, Unlimited
  <2>2. CASE c = AtMost(c.n) /\ c.n \in Nat
    <3>1. ~c.unlimited
      BY <2>2 DEF AtMost
    <3>2. ~b.unlimited /\ b.n <= c.n
      BY <1>4, <3>1 DEF CountLeq
    <3>3. ~a.unlimited /\ a.n <= b.n
      BY <1>4, <3>2 DEF CountLeq
    <3>4. a.n \in Nat /\ b.n \in Nat /\ c.n \in Nat
      BY <2>2, <3>2, <3>3, CountShape DEF Unlimited
    <3>5. a.n <= c.n
      BY <3>2, <3>3, <3>4
    <3> QED
      BY <3>3, <3>5 DEF CountLeq
  <2> QED
    BY <2>1, <2>2, CountShape
<1> QED
  BY <1>1, <1>2, <1>3, <1>4

\* Caveats have the order and the meet of their fields.
LEMMA CaveatsOrder ==
    ASSUME NEW S
    PROVE  /\ CaveatsTop \in Caveats(S)
           /\ \A a \in Caveats(S) : Leq(a, a) /\ Meet(CaveatsTop, a) = a
           /\ \A a, b \in Caveats(S) : Leq(a, b) => Meet(a, b) = a
           /\ \A a, b, c \in Caveats(S) : Leq(a, b) /\ Leq(b, c) => Leq(a, c)
<1>1. CaveatsTop \in Caveats(S)
  BY ScopeOrder, CountOrder DEF CaveatsTop, Caveats
<1>2. ASSUME NEW a \in Caveats(S)
      PROVE  /\ a.fs_read \in Scopes(S) /\ a.fs_write \in Scopes(S)
             /\ a.exec \in Scopes(S) /\ a.net \in Scopes(S)
             /\ a.max_calls \in Counts /\ a.valid_for_generation \in Scopes(Nat)
             /\ a = [fs_read |-> a.fs_read, fs_write |-> a.fs_write, exec |-> a.exec,
                     net |-> a.net, max_calls |-> a.max_calls,
                     valid_for_generation |-> a.valid_for_generation]
  BY DEF Caveats
<1>3. ASSUME NEW a \in Caveats(S)
      PROVE  Leq(a, a) /\ Meet(CaveatsTop, a) = a
  <2>1. Leq(a, a)
    BY <1>2, ScopeOrder, CountOrder DEF Leq
  <2>2. /\ ScopeMeet(CaveatsTop.fs_read, a.fs_read) = a.fs_read
        /\ ScopeMeet(CaveatsTop.fs_write, a.fs_write) = a.fs_write
        /\ ScopeMeet(CaveatsTop.exec, a.exec) = a.exec
        /\ ScopeMeet(CaveatsTop.net, a.net) = a.net
        /\ CountMeet(CaveatsTop.max_calls, a.max_calls) = a.max_calls
        /\ ScopeMeet(CaveatsTop.valid_for_generation, a.valid_for_generation)
              = a.valid_for_generation
    BY <1>2, ScopeOrder, CountOrder DEF CaveatsTop
  <2> QED
    BY <1>2, <2>1, <2>2 DEF Meet
<1>4. ASSUME NEW a \in Caveats(S), NEW b \in Caveats(S), Leq(a, b)
      PROVE  Meet(a, b) = a
  <2>1. /\ ScopeMeet(a.fs_read, b.fs_read) = a.fs_read
        /\ ScopeMeet(a.fs_write, b.fs_write) = a.fs_write
        /\ ScopeMeet(a.exec, b.exec) = a.exec
        /\ ScopeMeet(a.net, b.net) = a.net
        /\ CountMeet(a.max_calls, b.max_calls) = a.max_calls
        /\ ScopeMeet(a.valid_for_generation, b.valid_for_generation)
              = a.valid_for_generation
    BY <1>2, <1>4, ScopeOrder, CountOrder DEF Leq
  <2> QED
    BY <1>2, <2>1 DEF Meet
<1>5. ASSUME NEW a \in Caveats(S), NEW b \in Caveats(S), NEW c \in Caveats(S),
             Leq(a, b), Leq(b, c)
      PROVE  Leq(a, c)
  <2>1. /\ ScopeLeq(a.fs_read, c.fs_read) /\ ScopeLeq(a.fs_write, c.fs_write)
        /\ ScopeLeq(a.exec, c.exec) /\ ScopeLeq(a.net, c.net)
    BY <1>2, <1>5, ScopeOrder DEF Leq
  <2>2. CountLeq(a.max_calls, c.max_calls)
    BY <1>2, <1>5, CountOrder DEF Leq
  <2>3. ScopeLeq(a.valid_for_generation, c.valid_for_generation)
    BY <1>2, <1>5, ScopeOrder DEF Leq
  <2> QED
    BY <2>1, <2>2, <2>3 DEF Leq
<1> QED
  BY <1>1, <1>3, <1>4, <1>5

-------------------------------------------------------------------------------
(* What a verifier concludes from a chain, whoever put it together *)

\* The links a chain is made of.
Links == [key : Keys, caveats : Caveats(Resources), issuer : Keys \union {User},
          sig : [signer : Keys \union {User}, over : Keys \X Allowances]]

\* Every link of a chain holds.
Holds(ch) == \A i \in 1..Len(ch) : LinkHolds(ch, i)

\* What the links of a chain allow is caveats.
LEMMA LinkCaveats ==
    ASSUME NEW ch \in Seq(Links), NEW i \in 1..Len(ch)
    PROVE  ch[i] \in Links /\ ch[i].caveats \in Caveats(Resources) /\ ch[i].key \in Keys
<1>1. ch[i] \in Links
  <2> HIDE DEF Links
  <2> QED
    OBVIOUS
<1>2. \A l \in Links : l.caveats \in Caveats(Resources) /\ l.key \in Keys
  BY DEF Links
<1> QED
  BY <1>1, <1>2

\* When every link holds, the leaf is allowed no more than any link.
LEMMA LeafIsLeast ==
    ASSUME NEW ch \in Seq(Links), Holds(ch), NEW n \in 1..Len(ch)
    PROVE  Leq(ch[1].caveats, ch[n].caveats)
<1> DEFINE T == {i \in 1..Len(ch) : ~Leq(ch[1].caveats, ch[i].caveats)}
<1>1. \A i \in 1..Len(ch) : ch[i].caveats \in Caveats(Resources)
  BY LinkCaveats
<1>2. 1 \notin T
  BY <1>1, CaveatsOrder
<1>3. ASSUME T # {}
      PROVE  FALSE
  <2>1. PICK x \in T : \A y \in T : x <= y
    <3>1. T \subseteq Nat
      OBVIOUS
    <3> HIDE DEF T
    <3> QED
      BY <1>3, <3>1, LeastIndex
  <2>2. x - 1 \in 1..Len(ch) /\ x \in 1..Len(ch)
    BY <1>2, <2>1
  <2>3. x - 1 \notin T
    BY <2>1, <2>2
  <2>4. Leq(ch[1].caveats, ch[x - 1].caveats)
    BY <2>2, <2>3
  <2>5. LinkHolds(ch, x - 1) /\ x - 1 # Len(ch) /\ x - 1 + 1 = x
    BY <2>2 DEF Holds
  <2>6. Leq(ch[x - 1].caveats, ch[x].caveats)
    BY <2>5 DEF LinkHolds
  <2>7. Leq(ch[1].caveats, ch[x].caveats)
    <3>1. 1 \in 1..Len(ch)
      BY <2>2
    <3> QED
      BY <1>1, <2>2, <2>4, <2>6, <3>1, CaveatsOrder
  <2> QED
    BY <2>1, <2>7
<1> QED
  BY <1>3

\* The meet of all its links is then what the leaf is allowed: the fold stays there.
LEMMA AllowedIsLeaf ==
    ASSUME NEW ch \in Seq(Links), ch # <<>>, Holds(ch)
    PROVE  Allowed(ch) = ch[1].caveats
<1> DEFINE n == Len(ch)
           Body(m, i) == IF i = 0 THEN CaveatsTop ELSE Meet(m[i - 1], ch[i].caveats)
           leaf == ch[1].caveats
           g == [i \in 0..n |-> IF i = 0 THEN CaveatsTop ELSE leaf]
           m == CHOOSE m : m = [i \in 0..n |-> Body(m, i)]
<1>1. n \in Nat /\ n # 0 /\ 1 \in 1..n
  OBVIOUS
<1>2. \A i \in 1..n : ch[i].caveats \in Caveats(Resources) /\ Leq(leaf, ch[i].caveats)
  BY LeafIsLeast, LinkCaveats
<1>3. leaf \in Caveats(Resources)
  BY <1>1, <1>2
<1> HIDE DEF n, leaf
<1>4. ASSUME NEW i \in 1..n
      PROVE  Meet(g[i - 1], ch[i].caveats) = leaf
  <2>1. CASE i = 1
    <3>1. g[i - 1] = CaveatsTop
      BY <1>1, <2>1
    <3>2. ch[i].caveats = leaf
      BY <2>1 DEF leaf
    <3> QED
      BY <1>3, <3>1, <3>2, CaveatsOrder
  <2>2. CASE i # 1
    <3>1. g[i - 1] = leaf
      BY <1>1, <2>2
    <3> QED
      BY <1>2, <1>3, <3>1, CaveatsOrder
  <2> QED
    BY <2>1, <2>2
<1>5. ASSUME NEW i \in 0..n
      PROVE  g[i] = Body(g, i)
  <2>1. CASE i = 0
    BY <1>1, <2>1
  <2>2. CASE i # 0
    <3>1. i \in 1..n /\ g[i] = leaf
      BY <1>1, <2>2
    <3> QED
      BY <1>4, <2>2, <3>1
  <2> QED
    BY <2>1, <2>2
<1>6. g = [i \in 0..n |-> Body(g, i)]
  <2> HIDE DEF Body
  <2> QED
    BY <1>5
<1>7. m = [i \in 0..n |-> Body(m, i)]
  <2> HIDE DEF g, Body
  <2> QED
    BY <1>6
<1>8. Allowed(ch) = m[n]
  BY DEF Allowed, n
<1> HIDE DEF m
<1>9. \A i \in 0..n : m[i] = Body(m, i)
  <2> HIDE DEF Body
  <2> QED
    BY <1>7
<1>10. m[0] = g[0]
  BY <1>1, <1>9
<1>11. ASSUME NEW i \in 1..n, m[i - 1] = g[i - 1]
       PROVE  m[i] = g[i]
  <2>1. i \in 0..n /\ i # 0
    BY <1>1
  <2>2. m[i] = Meet(m[i - 1], ch[i].caveats)
    BY <1>9, <2>1
  <2>3. g[i] = leaf
    BY <2>1
  <2> HIDE DEF g
  <2> QED
    BY <1>4, <1>11, <2>2, <2>3
<1>12. g[n] = leaf
  BY <1>1
<1> HIDE DEF g
<1>13. m[n] = g[n]
  <2> DEFINE T == {i \in 0..n : m[i] # g[i]}
  <2>1. ASSUME T # {}
        PROVE  FALSE
    <3>1. PICK x \in T : \A y \in T : x <= y
      <4>1. T \subseteq Nat
        BY <1>1
      <4> HIDE DEF T
      <4> QED
        BY <2>1, <4>1, LeastIndex
    <3>2. x \in 1..n /\ x - 1 \in 0..n
      BY <1>1, <1>10, <3>1
    <3>3. x - 1 \notin T
      BY <3>1, <3>2
    <3> QED
      BY <1>11, <3>1, <3>2, <3>3
  <2> QED
    BY <1>1, <2>1
<1> QED
  BY <1>8, <1>12, <1>13 DEF leaf

\* A chain that verifies allows its leaf no more than all of its links, whatever it is.
LEMMA VerifiedChain ==
    ASSUME NEW ch \in Seq(Links), NEW g, VerifyInner(ch, g)
    PROVE  /\ ch # <<>> /\ Holds(ch) /\ Len(ch) \in 1..Len(ch)
           /\ Allowed(ch) = ch[1].caveats
           /\ ch[Len(ch)].issuer = User
           /\ Leq(ch[1].caveats, ch[Len(ch)].caveats)
           /\ ch[1].issuer = User => Len(ch) = 1
<1>1. ch # <<>> /\ Holds(ch)
  BY DEF VerifyInner, Holds
<1>2. Len(ch) \in 1..Len(ch) /\ 1 \in 1..Len(ch) /\ Len(ch) \in Nat
  BY <1>1
<1>3. ch[Len(ch)].issuer = User
  BY <1>1, <1>2 DEF Holds, LinkHolds
<1>4. ASSUME ch[1].issuer = User, Len(ch) # 1
      PROVE  FALSE
  <2>1. 2 \in 1..Len(ch) /\ 1 + 1 = 2
    <3>1. \A n \in Nat : (1 \in 1..n /\ n # 1) => (2 \in 1..n /\ 1 + 1 = 2)
      OBVIOUS
    <3> QED
      BY <1>2, <1>4, <3>1, Zenon
  <2>2. ch[2].key \in Keys
    BY <2>1, LinkCaveats
  <2>3. LinkHolds(ch, 1)
    BY <1>1, <1>2 DEF Holds
  <2>4. ch[1].issuer = ch[2].key
    BY <1>4, <2>1, <2>3 DEF LinkHolds
  <2> QED
    BY <1>4, <2>2, <2>4, CertAssumption
<1> QED
  BY <1>1, <1>2, <1>3, <1>4, AllowedIsLeaf, LeafIsLeast

-------------------------------------------------------------------------------
(* Chains that are issued and delegated *)

\* A link put before a chain.
LEMMA ChainCons ==
    ASSUME NEW ch \in Seq(Links), NEW l \in Links
    PROVE  /\ <<l>> \o ch \in Seq(Links)
           /\ <<l>> \o ch # <<>>
           /\ Len(<<l>> \o ch) = Len(ch) + 1
           /\ (<<l>> \o ch)[1] = l
           /\ \A i \in 1..Len(ch) : (<<l>> \o ch)[i + 1] = ch[i]
<1> HIDE DEF Links
<1>1. <<l>> \in Seq(Links) /\ Len(<<l>>) = 1 /\ <<l>>[1] = l
  OBVIOUS
<1>2. <<l>> \o ch \in Seq(Links) /\ Len(<<l>> \o ch) = Len(ch) + 1
  BY <1>1
<1>3. (<<l>> \o ch)[1] = l
  BY <1>1
<1>4. ASSUME NEW i \in 1..Len(ch)
      PROVE  (<<l>> \o ch)[i + 1] = ch[i]
  BY <1>1
<1>5. <<l>> \o ch # <<>>
  BY <1>2
<1> QED
  BY <1>2, <1>3, <1>4, <1>5

\* A key that the holder of the leaf certifies, within what it is allowed itself, makes
\* a chain of which every link holds.
LEMMA CertifiedHolds ==
    ASSUME NEW ch \in Seq(Links), ch # <<>>, Holds(ch), NEW k \in Keys, NEW c,
           Leq(c, ch[1].caveats),
           Link(k, c, ch[1].key, Signed(ch[1].key, k, c)) \in Links
    PROVE  Holds(<<Link(k, c, ch[1].key, Signed(ch[1].key, k, c))>> \o ch)
<1>1. PICK l \in Links : l = Link(k, c, ch[1].key, Signed(ch[1].key, k, c))
  OBVIOUS
<1>2. /\ l.sig = Signed(l.issuer, l.key, l.caveats)
      /\ l.issuer = ch[1].key /\ l.caveats = c
  BY <1>1 DEF Link
<1>3. PICK new : new = <<l>> \o ch
  OBVIOUS
<1>4. /\ Len(new) = Len(ch) + 1 /\ new[1] = l
      /\ \A i \in 1..Len(ch) : new[i + 1] = ch[i]
  BY <1>3, ChainCons
<1>5. Len(ch) \in Nat /\ Len(ch) # 0 /\ 1 \in 1..Len(ch)
  OBVIOUS
<1>6. ASSUME NEW i \in 1..Len(new)
      PROVE  LinkHolds(new, i)
  <2>1. CASE i = 1
    <3>1. i # Len(new) /\ new[i + 1] = ch[1] /\ new[i] = l
      BY <1>4, <1>5, <2>1
    <3> QED
      BY <1>2, <3>1 DEF LinkHolds
  <2>2. CASE i # 1
    <3>1. PICK j \in 1..Len(ch) : i = j + 1
      <4>1. i - 1 \in 1..Len(ch) /\ i = (i - 1) + 1
        BY <1>4, <1>5, <2>2
      <4> QED
        BY <4>1
    <3>2. new[i] = ch[j] /\ LinkHolds(ch, j)
      BY <1>4, <3>1 DEF Holds
    <3>3. CASE j = Len(ch)
      <4>1. i = Len(new)
        BY <1>4, <3>1, <3>3
      <4> QED
        BY <3>2, <3>3, <4>1 DEF LinkHolds
    <3>4. CASE j # Len(ch)
      <4>1. i # Len(new) /\ j + 1 \in 1..Len(ch)
        BY <1>4, <1>5, <3>1, <3>4
      <4>2. new[i + 1] = ch[j + 1]
        BY <1>4, <3>1, <4>1
      <4> QED
        BY <3>2, <3>4, <4>1, <4>2 DEF LinkHolds
    <3> QED
      BY <3>3, <3>4
  <2> QED
    BY <2>1, <2>2
<1> QED
  BY <1>1, <1>3, <1>6 DEF Holds

\* The inductive invariant: the chain is made of links, every link of a minted chain
\* holds, and keys were taken with their proofs.
CertInv ==
    /\ chain \in Seq(Links)
    /\ minted \in BOOLEAN
    /\ \A ch \in asked : ch.issuer \in Keys /\ ch.subject \in Keys
    /\ minted => Holds(chain)
    /\ TakenWithProof

\* One link that a party puts before the chain is one of the links.
LEMMA LinkTyped ==
    ASSUME NEW k \in Keys, NEW c \in Allowances, NEW by \in Keys \union {User},
           NEW s \in Keys \union {User}
    PROVE  Link(k, c, by, Signed(s, k, c)) \in Links
<1>1. c \in Caveats(Resources)
  BY CertAssumption
<1>2. Signed(s, k, c) \in [signer : Keys \union {User}, over : Keys \X Allowances]
  BY DEF Signed
<1> HIDE DEF Signed
<1> QED
  BY <1>1, <1>2 DEF Link, Links

LEMMA CertInvInit == CertInit => CertInv
<1> SUFFICES ASSUME CertInit PROVE CertInv
  OBVIOUS
<1>1. chain = <<>> /\ minted = TRUE /\ asked = {} /\ proved = {} /\ taken = {}
  BY DEF CertInit
<1>2. chain \in Seq(Links)
  <2> HIDE DEF Links
  <2> QED
    BY <1>1
<1>3. Holds(chain)
  <2>1. Len(chain) = 0
    BY <1>1
  <2> QED
    BY <2>1 DEF Holds
<1> QED
  BY <1>1, <1>2, <1>3 DEF CertInv, TakenWithProof

\* The holder of the leaf certifies a key: the chain stays one of links, and its links
\* go on holding.
LEMMA CertifyKeeps ==
    ASSUME CertInv, NEW k \in Keys, NEW c \in Allowances, CertifyPubkey(k, c)
    PROVE  /\ chain' \in Seq(Links) /\ chain' # <<>>
           /\ Holds(chain) => Holds(chain')
<1>1. chain \in Seq(Links) /\ chain # <<>> /\ Leq(c, chain[1].caveats)
  BY DEF CertInv, CertifyPubkey
<1>2. 1 \in 1..Len(chain)
  BY <1>1
<1>3. chain[1].key \in Keys
  BY <1>1, <1>2, LinkCaveats
<1>4. Link(k, c, chain[1].key, Signed(chain[1].key, k, c)) \in Links
  BY <1>3, LinkTyped
<1>5. chain' = <<Link(k, c, chain[1].key, Signed(chain[1].key, k, c))>> \o chain
  BY DEF CertifyPubkey
<1>6. chain' \in Seq(Links) /\ chain' # <<>>
  BY <1>1, <1>4, <1>5, ChainCons
<1>7. Holds(chain) => Holds(chain')
  BY <1>1, <1>4, <1>5, CertifiedHolds
<1> QED
  BY <1>6, <1>7

\* A chain of one link, the user's own, holds.
LEMMA IssuedHolds ==
    ASSUME NEW k \in Keys, NEW c \in Allowances
    PROVE  /\ <<Link(k, c, User, Signed(User, k, c))>> \in Seq(Links)
           /\ Holds(<<Link(k, c, User, Signed(User, k, c))>>)
<1>1. PICK l \in Links : l = Link(k, c, User, Signed(User, k, c))
  BY LinkTyped
<1>2. l.sig = Signed(l.issuer, l.key, l.caveats) /\ l.issuer = User
  BY <1>1 DEF Link
<1>3. <<l>> \in Seq(Links) /\ Len(<<l>>) = 1 /\ <<l>>[1] = l
  <2> HIDE DEF Links
  <2> QED
    BY <1>1
<1>4. ASSUME NEW i \in 1..Len(<<l>>)
      PROVE  LinkHolds(<<l>>, i)
  <2>1. i = 1 /\ i = Len(<<l>>)
    BY <1>3
  <2> QED
    BY <1>2, <1>3, <2>1 DEF LinkHolds
<1> QED
  BY <1>1, <1>3, <1>4 DEF Holds

\* Every step keeps the invariant.
LEMMA CertInvStep == CertInv /\ [CertNext]_certVars => CertInv'
<1> SUFFICES ASSUME CertInv, [CertNext]_certVars PROVE CertInv'
  OBVIOUS
<1>0. /\ chain \in Seq(Links) /\ minted \in BOOLEAN
      /\ \A ch \in asked : ch.issuer \in Keys /\ ch.subject \in Keys
      /\ minted => Holds(chain)
      /\ TakenWithProof
  BY DEF CertInv
<1>1. ASSUME NEW k \in Keys, NEW c \in Allowances, Issue(k, c)
      PROVE  CertInv'
  <2>1. chain' \in Seq(Links) /\ Holds(chain')
    BY <1>1, IssuedHolds DEF Issue
  <2>2. minted' = minted /\ asked' = asked /\ proved' = proved /\ taken' = taken
    BY <1>1 DEF Issue
  <2> QED
    BY <1>0, <2>1, <2>2 DEF CertInv, TakenWithProof
<1>2. ASSUME NEW k \in Keys, NEW c \in Allowances, Delegate(k, c)
      PROVE  CertInv'
  <2>1. chain' \in Seq(Links) /\ (Holds(chain) => Holds(chain'))
    BY <1>2, CertifyKeeps DEF Delegate
  <2>2. minted' = minted /\ asked' = asked /\ proved' = proved /\ taken' = taken
    BY <1>2 DEF Delegate
  <2> QED
    BY <1>0, <2>1, <2>2 DEF CertInv, TakenWithProof
<1>3. ASSUME NEW i \in Keys, NEW k \in Keys, PossessionChallenge(i, k)
      PROVE  CertInv'
  <2>1. /\ chain' = chain /\ minted' = minted /\ proved' = proved /\ taken' = taken
        /\ asked' = asked \union {[issuer |-> i, subject |-> k, nonce |-> Cardinality(asked)]}
    BY <1>3 DEF PossessionChallenge
  <2>2. \A ch \in asked' : ch.issuer \in Keys /\ ch.subject \in Keys
    BY <1>0, <2>1
  <2> QED
    BY <1>0, <2>1, <2>2 DEF CertInv, TakenWithProof, Holds, LinkHolds
<1>4. ASSUME NEW ch \in asked \ proved, Prove(ch)
      PROVE  CertInv'
  <2>1. /\ chain' = chain /\ minted' = minted /\ asked' = asked /\ taken' = taken
        /\ proved' = proved \union {ch}
    BY <1>4 DEF Prove
  <2>2. TakenWithProof'
    BY <1>0, <2>1 DEF TakenWithProof
  <2> QED
    BY <1>0, <2>1, <2>2 DEF CertInv, Holds, LinkHolds
<1>5. ASSUME NEW ch \in asked, NEW c \in Allowances, DelegateExternal(ch, c)
      PROVE  CertInv'
  <2>1. /\ ch.issuer = chain[1].key /\ ch \in proved
        /\ CertifyPubkey(ch.subject, c)
        /\ taken' = taken \union {[issuer |-> chain[1].key, subject |-> ch.subject]}
        /\ minted' = minted /\ asked' = asked /\ proved' = proved
    BY <1>5 DEF DelegateExternal, AcceptProof
  <2>2. ch.subject \in Keys
    BY <1>0
  <2>3. chain' \in Seq(Links) /\ (Holds(chain) => Holds(chain'))
    BY <2>1, <2>2, CertifyKeeps
  <2>4. TakenWithProof'
    <3>1. ASSUME NEW t \in taken'
          PROVE  \E p \in proved' : p.issuer = t.issuer /\ p.subject = t.subject
      <4>1. CASE t \in taken
        BY <1>0, <2>1, <4>1 DEF TakenWithProof
      <4>2. CASE t = [issuer |-> chain[1].key, subject |-> ch.subject]
        <5>1. ch.issuer = t.issuer /\ ch.subject = t.subject
          BY <2>1, <4>2
        <5> QED
          BY <2>1, <5>1
      <4> QED
        BY <2>1, <4>1, <4>2
    <3> QED
      BY <3>1 DEF TakenWithProof
  <2> QED
    BY <1>0, <2>1, <2>3, <2>4 DEF CertInv
<1>6. ASSUME NEW k \in Keys, NEW c \in Allowances, NEW by \in Keys \union {User},
             NEW s \in Keys, HandBuilt(k, c, by, s)
      PROVE  CertInv'
  <2>1. /\ chain' = <<Link(k, c, by, Signed(s, k, c))>> \o chain
        /\ minted' = FALSE /\ asked' = asked /\ proved' = proved /\ taken' = taken
    BY <1>6 DEF HandBuilt
  <2>2. Link(k, c, by, Signed(s, k, c)) \in Links
    BY LinkTyped
  <2>3. chain' \in Seq(Links)
    BY <1>0, <2>1, <2>2, ChainCons
  <2> QED
    BY <1>0, <2>1, <2>3 DEF CertInv, TakenWithProof
<1>7. CASE UNCHANGED certVars
  <2>1. /\ chain' = chain /\ minted' = minted /\ asked' = asked
        /\ proved' = proved /\ taken' = taken
    BY <1>7 DEF certVars
  <2> QED
    BY <1>0, <2>1 DEF CertInv, TakenWithProof, Holds, LinkHolds
<1>8. User \in Keys \union {User} /\ Keys \subseteq Keys \union {User}
  OBVIOUS
<1> QED
  BY <1>1, <1>2, <1>3, <1>4, <1>5, <1>6, <1>7, <1>8 DEF CertNext

\* What the leaf's generations are, every link above it is for.
LEMMA GenerationsGrow ==
    ASSUME NEW a, NEW b, Leq(a, b), NEW g,
           CheckGeneration(a.valid_for_generation, g)
    PROVE  CheckGeneration(b.valid_for_generation, g)
<1>1. ScopeLeq(a.valid_for_generation, b.valid_for_generation)
  BY DEF Leq
<1> QED
  BY <1>1 DEF ScopeLeq, CheckGeneration

\* The invariant says what the runs check of chains.
LEMMA CertInvHolds == CertInv => ChainsHold
<1> SUFFICES ASSUME CertInv PROVE ChainsHold
  OBVIOUS
<1>0. chain \in Seq(Links) /\ (minted => Holds(chain)) /\ TakenWithProof
  BY DEF CertInv
<1>1. ASSUME NEW g, VerifyInner(chain, g)
      PROVE  Allowed(chain) = chain[1].caveats
  BY <1>0, <1>1, VerifiedChain
<1>2. ASSUME NEW g, NEW r \in Keys, AssertionVerifies(chain, r, g)
      PROVE  \E i \in 1..Len(chain) : /\ chain[i].key = r /\ chain[i].issuer = User
                                      /\ Leq(chain[1].caveats, chain[i].caveats)
  <2>1. VerifyInner(chain, g) /\ chain[Len(chain)].key = r
    BY <1>2 DEF AssertionVerifies
  <2>2. /\ Len(chain) \in 1..Len(chain) /\ chain[Len(chain)].issuer = User
        /\ Leq(chain[1].caveats, chain[Len(chain)].caveats)
    BY <1>0, <2>1, VerifiedChain
  <2> QED
    BY <2>1, <2>2
<1>3. ASSUME NEW g, AssertionVerifiesUser(chain, g)
      PROVE  Len(chain) = 1
  BY <1>0, <1>3, VerifiedChain DEF AssertionVerifiesUser
<1>4. ASSUME EnvelopeVerifies(chain), NEW n
      PROVE  VerifyInner(chain, {n})
  <2>1. VerifyInner(chain, {})
    BY <1>4 DEF EnvelopeVerifies
  <2>2. ASSUME NEW s, CheckGeneration(s, {})
        PROVE  CheckGeneration(s, {n})
    BY <2>2 DEF CheckGeneration
  <2> QED
    BY <2>1, <2>2 DEF VerifyInner
<1>5. VerifiedNeverAmplifies
  BY <1>1, <1>2, <1>3, <1>4 DEF VerifiedNeverAmplifies
<1>6. ASSUME minted, chain # <<>>, NEW n
      PROVE  VerifyInner(chain, {n})
                <=> CheckGeneration(chain[1].caveats.valid_for_generation, {n})
  <2>1. Holds(chain) /\ 1 \in 1..Len(chain)
    BY <1>0, <1>6
  <2>2. ASSUME CheckGeneration(chain[1].caveats.valid_for_generation, {n}),
               NEW i \in 1..Len(chain)
        PROVE  CheckGeneration(chain[i].caveats.valid_for_generation, {n})
    <3>1. Leq(chain[1].caveats, chain[i].caveats)
      BY <1>0, <2>1, LeafIsLeast
    <3> QED
      BY <2>2, <3>1, GenerationsGrow
  <2> QED
    BY <1>6, <2>1, <2>2 DEF VerifyInner, Holds
<1>7. MintedVerifies
  BY <1>6 DEF MintedVerifies
<1> QED
  BY <1>0, <1>5, <1>7 DEF ChainsHold

\* For any keys, caveats and generations, and chains of any length: a chain that verifies
\* allows its leaf no more than all of its links together, whoever put it together; one
\* that was issued and delegated verifies exactly where its leaf is valid; and a key of
\* another party is certified only on a proof made to the very agent that certifies it.
THEOREM ChainsStaySound == CertSpec => []ChainsHold
<1>1. CertSpec => []CertInv
  BY CertInvInit, CertInvStep, PTL DEF CertSpec
<1> QED
  BY <1>1, CertInvHolds, PTL

-------------------------------------------------------------------------------
(* Chains of grants *)

\* A grant with the body it was bound to.
IsBound(x) == x.body \in Caveats(Items) /\ x.grant.authority = x.body

\* The chain is a sequence of such.
BoundChain(gs) == \E S : gs \in Seq(S) /\ \A x \in S : IsBound(x)

LEMMA BoundLinks ==
    ASSUME NEW gs, BoundChain(gs)
    PROVE  Len(gs) \in Nat /\ (gs # <<>> => Len(gs) # 0) /\ \A i \in 1..Len(gs) : IsBound(gs[i])
<1>1. PICK S : gs \in Seq(S) /\ \A x \in S : IsBound(x)
  BY DEF BoundChain
<1>2. Len(gs) \in Nat /\ (gs # <<>> => Len(gs) # 0)
  BY <1>1
<1>3. \A i \in 1..Len(gs) : gs[i] \in S
  BY <1>1
<1> QED
  BY <1>1, <1>2, <1>3

LEMMA BoundCons ==
    ASSUME NEW gs, BoundChain(gs), NEW x, IsBound(x)
    PROVE  BoundChain(<<x>> \o gs)
<1>1. PICK S : gs \in Seq(S) /\ \A y \in S : IsBound(y)
  BY DEF BoundChain
<1>2. PICK R : R = S \union {x}
  OBVIOUS
<1>3. \A y \in R : IsBound(y)
  BY <1>1, <1>2
<1>4. gs \in Seq(R) /\ <<x>> \in Seq(R)
  BY <1>1, <1>2
<1>5. <<x>> \o gs \in Seq(R)
  BY <1>4
<1> QED
  BY <1>3, <1>5 DEF BoundChain

\* An edge of a trusted chain that no elevation makes is an attenuation.
LEMMA TrustedEdge ==
    ASSUME NEW gs, BoundChain(gs), Trusted(gs), NEW i \in 1..Len(gs), i # Len(gs),
           i \notin Elevated(gs)
    PROVE  Leq(gs[i].body, gs[i + 1].body)
<1>1. Len(gs) \in Nat
  BY BoundLinks
<1>2. i \in 1..Len(gs) - 1
  BY <1>1
<1>3. gs[i].grant.derivation.kind # "root" /\ CheckDerivation(gs[i], gs[i + 1])
  BY <1>2 DEF Trusted
<1>4. gs[i].grant.derivation.kind # "elevation"
  BY DEF Elevated
<1> QED
  BY <1>3, <1>4 DEF CheckDerivation

\* Up to the last elevation, the leaf is allowed no more than any grant of the chain.
LEMMA LeafIsLeastGrant ==
    ASSUME NEW gs, BoundChain(gs), Trusted(gs), NEW n \in 1..Len(gs),
           \A j \in Elevated(gs) : n <= j
    PROVE  Leq(gs[1].body, gs[n].body)
<1> DEFINE T == {i \in 1..Len(gs) : i <= n /\ ~Leq(gs[1].body, gs[i].body)}
<1>0. Len(gs) \in Nat
  BY BoundLinks
<1>1. \A i \in 1..Len(gs) : gs[i].body \in Caveats(Items)
  BY BoundLinks DEF IsBound
<1>2. 1 \notin T
  BY <1>1, CaveatsOrder
<1>3. ASSUME T # {}
      PROVE  FALSE
  <2>1. PICK x \in T : \A y \in T : x <= y
    <3>1. T \subseteq Nat
      BY <1>0
    <3> HIDE DEF T
    <3> QED
      BY <1>3, <3>1, LeastIndex
  <2>2. /\ x \in 1..Len(gs) /\ x <= n
        /\ x - 1 \in 1..Len(gs) /\ x - 1 < n /\ x - 1 # Len(gs) /\ (x - 1) + 1 = x
    BY <1>0, <1>2, <2>1
  <2>3. x - 1 \notin T
    BY <2>1, <2>2
  <2>4. Leq(gs[1].body, gs[x - 1].body)
    BY <2>2, <2>3
  <2>5. x - 1 \notin Elevated(gs)
    BY <2>2
  <2>6. Leq(gs[x - 1].body, gs[x].body)
    BY <2>2, <2>5, TrustedEdge
  <2>7. Leq(gs[1].body, gs[x].body)
    <3>1. 1 \in 1..Len(gs)
      BY <2>2
    <3> QED
      BY <1>1, <2>2, <2>4, <2>6, <3>1, CaveatsOrder
  <2> QED
    BY <2>1, <2>7
<1> QED
  BY <1>3

\* An elevation of a trusted chain was attested for the grant it stands on there.
LEMMA ElevationAttested ==
    ASSUME NEW gs, BoundChain(gs), Trusted(gs), NEW i \in Elevated(gs)
    PROVE  gs[i].grant.derivation.attestation.parent = gs[i + 1].grant
<1>0. Len(gs) \in Nat
  BY BoundLinks
<1>1. i \in 1..Len(gs) /\ gs[i].grant.derivation.kind = "elevation"
  BY DEF Elevated
<1>2. gs[Len(gs)].grant.derivation.kind = "root"
  BY DEF Trusted, RootGrant
<1>3. i \in 1..Len(gs) - 1
  BY <1>0, <1>1, <1>2
<1>4. CheckDerivation(gs[i], gs[i + 1])
  BY <1>3 DEF Trusted
<1> QED
  BY <1>1, <1>4 DEF CheckDerivation, VerifyElevation

\* What a trusted chain without elevations allows is within the configured root.
LEMMA WithinRoot ==
    ASSUME NEW gs, BoundChain(gs), Trusted(gs), Elevated(gs) = {}
    PROVE  gs[1].body \in Caveats(Items) /\ Leq(gs[1].body, Root)
<1>0. Len(gs) \in Nat /\ Len(gs) # 0
  BY BoundLinks DEF Trusted
<1>1. 1 \in 1..Len(gs) /\ Len(gs) \in 1..Len(gs)
  BY <1>0
<1>2. Leq(gs[1].body, gs[Len(gs)].body)
  BY <1>1, LeafIsLeastGrant
<1>3. gs[Len(gs)].body = Root
  <2>1. gs[Len(gs)].grant.authority = gs[Len(gs)].body
    BY <1>1, BoundLinks DEF IsBound
  <2>2. gs[Len(gs)].grant.authority = Root
    BY DEF Trusted, RootGrant
  <2> QED
    BY <2>1, <2>2
<1> QED
  BY <1>1, <1>2, <1>3, BoundLinks DEF IsBound

-------------------------------------------------------------------------------
(* Fences *)

LEMMA ResolvedShape ==
    ASSUME NEW s \in ResolvedScopes
    PROVE  \/ s = Unbounded
           \/ s = Unknown
           \/ /\ s = Bounded(s.concrete, s.classes) /\ s.kind = "bounded"
              /\ s.concrete \subseteq Items /\ s.classes \subseteq Classes
<1>1. CASE s \in {Unbounded, Unknown}
  BY <1>1
<1>2. CASE s \in {Bounded(cs, ls) : cs \in SUBSET Items, ls \in SUBSET Classes}
  <2>1. PICK cs \in SUBSET Items, ls \in SUBSET Classes : s = Bounded(cs, ls)
    BY <1>2
  <2>2. s.concrete = cs /\ s.classes = ls /\ s.kind = "bounded"
    BY <2>1 DEF Bounded
  <2> QED
    BY <2>1, <2>2
<1> QED
  BY <1>1, <1>2 DEF ResolvedScopes

\* The kinds of scopes are told apart, and the bounded ones are resolved scopes.
LEMMA ResolvedKinds ==
    /\ Unbounded # Unknown /\ Unbounded \in ResolvedScopes /\ Unknown \in ResolvedScopes
    /\ \A cs, ls : Bounded(cs, ls) # Unbounded /\ Bounded(cs, ls) # Unknown
    /\ \A cs \in SUBSET Items, ls \in SUBSET Classes : Bounded(cs, ls) \in ResolvedScopes
<1>1. Unbounded.kind = "unbounded" /\ Unknown.kind = "unknown"
  BY DEF Unbounded, Unknown
<1>2. \A cs, ls : Bounded(cs, ls).kind = "bounded"
  BY DEF Bounded
<1>3. Unbounded # Unknown /\ \A cs, ls : Bounded(cs, ls) # Unbounded /\ Bounded(cs, ls) # Unknown
  BY <1>1, <1>2
<1>4. Unbounded \in ResolvedScopes /\ Unknown \in ResolvedScopes
  BY DEF ResolvedScopes
<1>5. \A cs \in SUBSET Items, ls \in SUBSET Classes : Bounded(cs, ls) \in ResolvedScopes
  BY DEF ResolvedScopes
<1> QED
  BY <1>3, <1>4, <1>5

\* Whatever the classes mean, what scopes of each kind reach.
LEMMA ReachesBy ==
    ASSUME NEW meaning \in [Classes -> SUBSET Items]
    PROVE  /\ Reaches(Unbounded, meaning) = Items
           /\ \A cs, ls : Reaches(Bounded(cs, ls), meaning)
                             = cs \union UNION {meaning[l] : l \in ls}
           /\ \A s \in ResolvedScopes : Reaches(s, meaning) \subseteq Items
<1>1. Reaches(Unbounded, meaning) = Items
  BY DEF Reaches, Unbounded
<1>2. Reaches(Unknown, meaning) = {}
  BY DEF Reaches, Unknown
<1>3. ASSUME NEW cs, NEW ls
      PROVE  Reaches(Bounded(cs, ls), meaning) = cs \union UNION {meaning[l] : l \in ls}
  <2>1. /\ Bounded(cs, ls).kind = "bounded" /\ Bounded(cs, ls).concrete = cs
        /\ Bounded(cs, ls).classes = ls
    BY DEF Bounded
  <2> QED
    BY <2>1 DEF Reaches
<1>4. ASSUME NEW s \in ResolvedScopes
      PROVE  Reaches(s, meaning) \subseteq Items
  <2>1. CASE s = Unbounded
    BY <1>1, <2>1
  <2>2. CASE s = Unknown
    BY <1>2, <2>2
  <2>3. CASE /\ s = Bounded(s.concrete, s.classes)
             /\ s.concrete \subseteq Items /\ s.classes \subseteq Classes
    <3>1. Reaches(s, meaning) = s.concrete \union UNION {meaning[l] : l \in s.classes}
      BY <1>3, <2>3
    <3>2. \A l \in s.classes : meaning[l] \subseteq Items
      BY <2>3
    <3> QED
      BY <2>3, <3>1, <3>2
  <2> QED
    BY <2>1, <2>2, <2>3, ResolvedShape
<1> QED
  BY <1>1, <1>3, <1>4

\* A scope that is related to its bound as equal or subset is known, so is the bound, and
\* the scope reaches no more.
LEMMA RelatedReaches ==
    ASSUME NEW s \in ResolvedScopes, NEW b \in ResolvedScopes,
           Relate(s, b) \in {"equal", "subset"},
           NEW meaning \in [Classes -> SUBSET Items]
    PROVE  s # Unknown /\ b # Unknown /\ Reaches(s, meaning) \subseteq Reaches(b, meaning)
<1>1. s # Unknown /\ b # Unknown
  BY DEF Relate
<1>2. CASE s = b
  BY <1>1, <1>2
<1>3. CASE s # b
  <2>1. s # Unbounded
    BY <1>1, <1>3 DEF Relate
  <2>2. CASE b = Unbounded
    BY <1>1, <2>2, ReachesBy
  <2>3. CASE b # Unbounded
    <3>1. Relate(s, b) = IF s.concrete \subseteq b.concrete /\ s.classes \subseteq b.classes
                         THEN "subset"
                         ELSE IF b.concrete \subseteq s.concrete /\ b.classes \subseteq s.classes
                              THEN "superset" ELSE "incomparable"
      BY <1>1, <1>3, <2>1, <2>3 DEF Relate
    <3>2. s.concrete \subseteq b.concrete /\ s.classes \subseteq b.classes
      BY <3>1
    <3>3. s = Bounded(s.concrete, s.classes) /\ b = Bounded(b.concrete, b.classes)
      BY <1>1, <2>1, <2>3, ResolvedShape
    <3>4. /\ Reaches(s, meaning) = s.concrete \union UNION {meaning[l] : l \in s.classes}
          /\ Reaches(b, meaning) = b.concrete \union UNION {meaning[l] : l \in b.classes}
      BY <3>3, ReachesBy
    <3> QED
      BY <1>1, <3>2, <3>4
  <2> QED
    BY <2>2, <2>3
<1> QED
  BY <1>2, <1>3

\* A known union of two scopes reaches what one of them does.
LEMMA UnionReaches ==
    ASSUME NEW s \in ResolvedScopes, NEW t \in ResolvedScopes
    PROVE  /\ Union(s, t) \in ResolvedScopes
           /\ \A meaning \in [Classes -> SUBSET Items] :
                Union(s, t) # Unknown =>
                   Reaches(Union(s, t), meaning)
                      \subseteq Reaches(s, meaning) \union Reaches(t, meaning)
<1>1. CASE s = Unknown \/ t = Unknown
  <2>1. Union(s, t) = Unknown
    BY <1>1 DEF Union
  <2> QED
    BY <2>1, ResolvedKinds
<1>2. CASE s # Unknown /\ t # Unknown /\ (s = Unbounded \/ t = Unbounded)
  <2>1. Union(s, t) = Unbounded
    BY <1>2 DEF Union
  <2>2. ASSUME NEW meaning \in [Classes -> SUBSET Items]
        PROVE  Reaches(Union(s, t), meaning)
                  \subseteq Reaches(s, meaning) \union Reaches(t, meaning)
    BY <1>2, <2>1, ReachesBy
  <2> QED
    BY <2>1, <2>2, ResolvedKinds
<1>3. CASE s # Unknown /\ t # Unknown /\ s # Unbounded /\ t # Unbounded
  <2>1. Union(s, t) = Bounded(s.concrete \union t.concrete, s.classes \union t.classes)
    BY <1>3 DEF Union
  <2>2. /\ s = Bounded(s.concrete, s.classes) /\ t = Bounded(t.concrete, t.classes)
        /\ s.concrete \subseteq Items /\ s.classes \subseteq Classes
        /\ t.concrete \subseteq Items /\ t.classes \subseteq Classes
    BY <1>3, ResolvedShape
  <2>3. Union(s, t) \in ResolvedScopes
    <3>1. /\ s.concrete \union t.concrete \in SUBSET Items
          /\ s.classes \union t.classes \in SUBSET Classes
      BY <2>2
    <3> QED
      BY <2>1, <3>1, ResolvedKinds
  <2>4. ASSUME NEW meaning \in [Classes -> SUBSET Items]
        PROVE  Reaches(Union(s, t), meaning)
                  \subseteq Reaches(s, meaning) \union Reaches(t, meaning)
    <3>1. /\ Reaches(s, meaning) = s.concrete \union UNION {meaning[l] : l \in s.classes}
          /\ Reaches(t, meaning) = t.concrete \union UNION {meaning[l] : l \in t.classes}
          /\ Reaches(Union(s, t), meaning)
               = (s.concrete \union t.concrete)
                    \union UNION {meaning[l] : l \in s.classes \union t.classes}
      BY <2>1, <2>2, ReachesBy
    <3> QED
      BY <3>1
  <2> QED
    BY <2>3, <2>4
<1> QED
  BY <1>1, <1>2, <1>3

\* Delegating less reaches less.
LEMMA FromScopeReaches ==
    ASSUME NEW a \in Scopes(Items), NEW b \in Scopes(Items), ScopeLeq(a, b),
           NEW meaning \in [Classes -> SUBSET Items]
    PROVE  /\ FromScope(a) \in ResolvedScopes
           /\ Reaches(FromScope(a), meaning) \subseteq Reaches(FromScope(b), meaning)
<1>1. FromScope(a) \in ResolvedScopes
  <2>1. CASE a = ScopeTop
    BY <2>1, ResolvedKinds DEF FromScope, ScopeTop
  <2>2. CASE a = Only(a.only) /\ a.only \subseteq Items
    <3>1. FromScope(a) = Bounded(a.only, {})
      BY <2>2 DEF FromScope, Only
    <3> QED
      BY <2>2, <3>1, ResolvedKinds
  <2> QED
    BY <2>1, <2>2, ScopeShape
<1>2. CASE b.all
  BY <1>1, <1>2, ReachesBy DEF FromScope
<1>3. CASE ~b.all
  <2>1. ~a.all /\ a.only \subseteq b.only
    BY <1>3 DEF ScopeLeq
  <2>2. FromScope(a) = Bounded(a.only, {}) /\ FromScope(b) = Bounded(b.only, {})
    BY <1>3, <2>1 DEF FromScope
  <2>3. /\ Reaches(FromScope(a), meaning) = a.only \union UNION {meaning[l] : l \in {}}
        /\ Reaches(FromScope(b), meaning) = b.only \union UNION {meaning[l] : l \in {}}
    BY <2>2, ReachesBy
  <2> QED
    BY <1>1, <2>1, <2>3
<1> QED
  BY <1>1, <1>2, <1>3

\* Caveats have a scope on each axis, and the order of caveats is one on each.
LEMMA AxisOrder ==
    ASSUME NEW c \in Caveats(Items), NEW d \in Caveats(Items), Leq(c, d), NEW a \in Axes
    PROVE  c[a] \in Scopes(Items) /\ d[a] \in Scopes(Items) /\ ScopeLeq(c[a], d[a])
<1>1. CASE a = "fs_read"
  BY <1>1 DEF Caveats, Leq
<1>2. CASE a = "fs_write"
  BY <1>2 DEF Caveats, Leq
<1>3. CASE a = "exec"
  BY <1>3 DEF Caveats, Leq
<1>4. CASE a = "net"
  BY <1>4 DEF Caveats, Leq
<1> QED
  BY <1>1, <1>2, <1>3, <1>4 DEF Axes

-------------------------------------------------------------------------------
(* Presenting and deciding *)

\* The inductive invariant: what is presented is bound to its bodies, and what is admitted
\* was decided for the trusted chain that still stands.
AuthInv ==
    /\ BoundChain(grants)
    /\ fence \in [Axes -> ResolvedScopes]
    /\ closure \in [Axes -> ResolvedScopes]
    /\ admitted => Trusted(grants) /\ Admits(fence, grants[1].body, closure)

LEMMA QuietTyped == Quiet \in [Axes -> ResolvedScopes]
<1>1. Nothing \in ResolvedScopes
  BY ResolvedKinds DEF Nothing
<1> QED
  BY <1>1 DEF Quiet

LEMMA AuthInvInit == AuthInit => AuthInv
<1> SUFFICES ASSUME AuthInit PROVE AuthInv
  OBVIOUS
<1>1. BoundChain(grants)
  <2>1. grants \in Seq({})
    BY DEF AuthInit
  <2> QED
    BY <2>1 DEF BoundChain
<1> QED
  BY <1>1, QuietTyped DEF AuthInit, AuthInv

LEMMA PresentKeeps ==
    ASSUME AuthInv, NEW g, NEW body \in Bodies, Present(g, body)
    PROVE  AuthInv'
<1>1. /\ g.authority = body /\ grants' = <<[grant |-> g, body |-> body]>> \o grants
      /\ admitted' = FALSE /\ fence' = Quiet /\ closure' = Quiet
  BY DEF Present, Bind
<1>2. IsBound([grant |-> g, body |-> body])
  BY <1>1, AuthAssumption DEF IsBound
<1>3. BoundChain(grants)
  BY DEF AuthInv
<1>4. BoundChain(grants')
  BY <1>1, <1>2, <1>3, BoundCons
<1> QED
  BY <1>1, <1>4, QuietTyped DEF AuthInv

LEMMA DecideKeeps ==
    ASSUME AuthInv, NEW a \in Axes, NEW f \in ResolvedScopes, NEW cl \in ResolvedScopes,
           Decide(a, f, cl)
    PROVE  AuthInv'
<1>1. /\ Trusted(grants) /\ grants' = grants
      /\ fence' = [Quiet EXCEPT ![a] = f] /\ closure' = [Quiet EXCEPT ![a] = cl]
      /\ admitted' = Admits(fence', grants[1].body, closure')
  BY DEF Decide
<1>2. fence' \in [Axes -> ResolvedScopes] /\ closure' \in [Axes -> ResolvedScopes]
  <2> HIDE DEF Axes
  <2> QED
    BY <1>1, QuietTyped
<1>3. BoundChain(grants)
  BY DEF AuthInv
<1>4. BoundChain(grants') /\ Trusted(grants')
  BY <1>1, <1>3
<1>5. admitted' => Admits(fence', grants'[1].body, closure')
  BY <1>1
<1> QED
  BY <1>2, <1>4, <1>5 DEF AuthInv

LEMMA AuthInvStep == AuthInv /\ [AuthNext]_authVars => AuthInv'
<1> SUFFICES ASSUME AuthInv, [AuthNext]_authVars PROVE AuthInv'
  OBVIOUS
<1>1. ASSUME NEW g, NEW body \in Bodies, Present(g, body)
      PROVE  AuthInv'
  BY <1>1, PresentKeeps
<1>2. ASSUME NEW a \in Axes, NEW f \in ResolvedScopes, NEW cl \in ResolvedScopes,
             Decide(a, f, cl)
      PROVE  AuthInv'
  BY <1>2, DecideKeeps
<1>3. CASE UNCHANGED authVars
  <2>1. grants' = grants /\ fence' = fence /\ closure' = closure /\ admitted' = admitted
    BY <1>3 DEF authVars
  <2> QED
    BY <2>1 DEF AuthInv
<1> QED
  BY <1>1, <1>2, <1>3 DEF AuthNext

\* The invariant says what the runs check of grants.
LEMMA AuthInvBounds == AuthInv => GrantsAreBounded
<1> SUFFICES ASSUME AuthInv PROVE GrantsAreBounded
  OBVIOUS
<1>0. /\ BoundChain(grants)
      /\ fence \in [Axes -> ResolvedScopes] /\ closure \in [Axes -> ResolvedScopes]
      /\ admitted => Trusted(grants) /\ Admits(fence, grants[1].body, closure)
  BY DEF AuthInv
<1>1. ASSUME Trusted(grants)
      PROVE  /\ \A i \in 1..Len(grants) :
                  (\A j \in Elevated(grants) : i <= j) =>
                     Leq(grants[1].grant.authority, grants[i].grant.authority)
             /\ \A i \in Elevated(grants) :
                  grants[i].grant.derivation.attestation.parent = grants[i + 1].grant
  <2>1. ASSUME NEW i \in 1..Len(grants), \A j \in Elevated(grants) : i <= j
        PROVE  Leq(grants[1].grant.authority, grants[i].grant.authority)
    <3>1. Leq(grants[1].body, grants[i].body)
      BY <1>0, <1>1, <2>1, LeafIsLeastGrant
    <3>2. 1 \in 1..Len(grants)
      BY <1>0, BoundLinks
    <3>3. /\ grants[1].grant.authority = grants[1].body
          /\ grants[i].grant.authority = grants[i].body
      BY <1>0, <3>2, BoundLinks DEF IsBound
    <3> QED
      BY <3>1, <3>3
  <2>2. \A i \in Elevated(grants) :
           grants[i].grant.derivation.attestation.parent = grants[i + 1].grant
    BY <1>0, <1>1, ElevationAttested
  <2> QED
    BY <2>1, <2>2
<1>2. ASSUME admitted, Elevated(grants) = {}, NEW a \in Axes,
             NEW meaning \in [Classes -> SUBSET Items]
      PROVE  /\ fence[a] # Unknown
             /\ Reaches(fence[a], meaning)
                  \subseteq Reaches(FromScope(Root[a]), meaning)
                              \union Reaches(closure[a], meaning)
  <2>1. PICK body : body = grants[1].body
    OBVIOUS
  <2>2. body \in Caveats(Items) /\ Leq(body, Root)
    BY <1>0, <1>2, <2>1, WithinRoot
  <2>3. body[a] \in Scopes(Items) /\ Root[a] \in Scopes(Items) /\ ScopeLeq(body[a], Root[a])
    BY <2>2, AxisOrder, AuthAssumption
  <2>4. /\ FromScope(body[a]) \in ResolvedScopes
        /\ Reaches(FromScope(body[a]), meaning) \subseteq Reaches(FromScope(Root[a]), meaning)
    BY <2>3, FromScopeReaches
  <2>5. fence[a] \in ResolvedScopes /\ closure[a] \in ResolvedScopes
    BY <1>0
  <2>6. Relate(fence[a], Union(FromScope(body[a]), closure[a])) \in {"equal", "subset"}
    <3>1. FromDelegated(body)[a] = FromScope(body[a])
      BY DEF FromDelegated
    <3>2. Relate(fence[a], Union(FromDelegated(body)[a], closure[a])) \in {"equal", "subset"}
      BY <1>0, <1>2, <2>1 DEF Admits
    <3> QED
      BY <3>1, <3>2
  <2>7. PICK u : u = Union(FromScope(body[a]), closure[a])
    OBVIOUS
  <2>8. /\ u \in ResolvedScopes
        /\ u # Unknown =>
             Reaches(u, meaning) \subseteq Reaches(FromScope(body[a]), meaning)
                                             \union Reaches(closure[a], meaning)
    BY <2>4, <2>5, <2>7, UnionReaches
  <2>9. /\ fence[a] # Unknown /\ u # Unknown
        /\ Reaches(fence[a], meaning) \subseteq Reaches(u, meaning)
    BY <2>5, <2>6, <2>7, <2>8, RelatedReaches
  <2> QED
    BY <2>4, <2>8, <2>9
<1>3. ASSUME admitted, NEW a \in Axes
      PROVE  fence[a] # Unknown
  <2>1. Relate(fence[a], Union(FromDelegated(grants[1].body)[a], closure[a]))
           \in {"equal", "subset"}
    BY <1>0, <1>3 DEF Admits
  <2> QED
    BY <2>1 DEF Relate
<1>4. TrustedIsBounded
  BY <1>1 DEF TrustedIsBounded
<1>5. AdmittedWithinRoot
  BY <1>2, <1>3 DEF AdmittedWithinRoot
<1> QED
  BY <1>4, <1>5 DEF GrantsAreBounded

\* For any items, classes and bodies, and chains of any length: a trusted chain of grants
\* allows its leaf no more than the configured root, or than the last elevation, which was
\* attested for its place in the chain; and an admitted fence reaches nothing beyond root
\* and closure, whatever the classes stand for.
THEOREM GrantsStayBounded == AuthSpec => []GrantsAreBounded
<1>1. AuthSpec => []AuthInv
  BY AuthInvInit, AuthInvStep, PTL DEF AuthSpec
<1> QED
  BY <1>1, AuthInvBounds, PTL

-------------------------------------------------------------------------------
(* The ratchet: the inductive invariant *)

\* The keys that an account has made.
OwnKeys(a) == {<<a, n>> : n \in 1..made[a]}

RatchetTyped ==
    /\ made \in [Agents -> Nat]
    /\ private \in [Agents -> SUBSET (Anyone \X Nat)]
    /\ unpublished \in [Agents -> SUBSET (Anyone \X Nat)]
    /\ read \in [1..MaxSessions -> [Sides -> [1..MaxMessages -> Nat]]]

\* An account holds and offers keys of its own making only.
KeysAreOwn ==
    \A a \in Agents : private[a] \subseteq OwnKeys(a) /\ unpublished[a] \subseteq OwnKeys(a)

\* What is published is signed by its account, over a key that it made.
BundlesAreOwn ==
    \A b \in bundles :
        /\ b.by \in Agents /\ b.curve = b.by /\ b.cert = b.by
        /\ b.key \in OwnKeys(b.by) /\ b.over = <<b.by, b.key>>

\* Sessions are told apart by their number.
SessionsAreNumbered ==
    /\ IsFiniteSet(sessions) /\ Cardinality(sessions) <= MaxSessions
    /\ \A s \in sessions : s.id \in 1..Cardinality(sessions)
    /\ \A s, t \in sessions : s.id = t.id => s = t

\* A session that was accepted has used its key up, and before that none of its messages
\* was read.
KeysAreSpent ==
    /\ accepted \subseteq sessions
    /\ \A s \in accepted : s.key \notin private[s.to]
    /\ \A i \in 1..MaxSessions, n \in 1..MaxMessages :
          read[i]["initiator"][n] # 0 => \E s \in accepted : s.id = i

RatchetInv ==
    /\ RatchetTyped
    /\ KeysAreOwn
    /\ BundlesAreOwn
    /\ SessionsAreNumbered
    /\ KeysAreSpent
    /\ OpenedWithThePublisher
    /\ ReadOnce

\* A bundle that verifies, however it was put together, is of an account of the user and
\* names a key that this account published: its signature was made by an agent, so for a
\* bundle of that agent's.  (SignedPrekeyBundle::verify.)
LEMMA VerifiedIsPublished ==
    ASSUME BundlesAreOwn, NEW b \in Seen, NEW user \in Users, Verify(b, user)
    PROVE  /\ b.curve \in Agents /\ UserOf[b.curve] = user
           /\ \E p \in bundles : p.cert = b.curve /\ p.key = b.key
  <1> DEFINE own == <<Outsider, <<Outsider, 1>> >>
             pairs == {own} \cup {<<p.curve, p.key>> : p \in bundles}
             sigs == {[by |-> p.by, over |-> p.over] : p \in bundles}
                       \cup {[by |-> Outsider, over |-> own]}
  <1>1. PICK p \in pairs, q \in pairs, a \in Agents, s \in sigs :
            b = [curve |-> p[1], key |-> q[2], cert |-> a, by |-> s.by, over |-> s.over]
    BY DEF Seen
  <1>2. /\ b.cert = a /\ b.by = s.by /\ b.over = s.over
        /\ b.by = b.cert /\ b.over = <<b.curve, b.key>> /\ UserOf[b.cert] = user
    BY <1>1 DEF Verify
  <1>3. s.by # Outsider
    BY <1>2, RatchetAssumption
  <1>4. PICK c \in bundles : s = [by |-> c.by, over |-> c.over]
    BY <1>3
  <1>5. /\ c.by = a /\ c.cert = a
        /\ <<b.curve, b.key>> = <<a, c.key>>
    BY <1>2, <1>4 DEF BundlesAreOwn
  <1>6. b.curve = a /\ b.key = c.key
    BY <1>5
  <1> QED BY <1>2, <1>5, <1>6

LEMMA RatchetBegins == RatchetInit => RatchetInv
  <1> SUFFICES ASSUME RatchetInit PROVE RatchetInv
    OBVIOUS
  <1> USE RatchetAssumption DEF RatchetInit
  <1>1. RatchetTyped
    BY DEF RatchetTyped
  <1>2. KeysAreOwn /\ BundlesAreOwn
    BY DEF KeysAreOwn, BundlesAreOwn
  <1>3. SessionsAreNumbered
    BY FS_EmptySet DEF SessionsAreNumbered
  <1>4. KeysAreSpent /\ ReadOnce
    BY DEF KeysAreSpent, ReadOnce, Sides
  <1>5. OpenedWithThePublisher
    BY DEF OpenedWithThePublisher
  <1> QED BY <1>1, <1>2, <1>3, <1>4, <1>5 DEF RatchetInv

LEMMA GenerateKeeps ==
    ASSUME RatchetInv, NEW a \in Agents, NEW count \in 1..MaxKeys, GenerateOneTimeKeys(a, count)
    PROVE  RatchetInv'
  <1> DEFINE new == {<<a, n>> : n \in made[a] + 1..made[a] + count}
  <1> USE RatchetAssumption DEF RatchetInv
  <1>1. /\ unpublished' = [unpublished EXCEPT ![a] = @ \cup new]
        /\ private' = [private EXCEPT ![a] = @ \cup new]
        /\ made' = [made EXCEPT ![a] = @ + count]
        /\ UNCHANGED <<bundles, sessions, accepted, sent, replied, read>>
    BY DEF GenerateOneTimeKeys
  <1>2. made[a] \in Nat /\ count \in Nat \ {0}
    BY DEF RatchetTyped
  <1>3. new \in SUBSET (Anyone \X Nat)
    BY <1>2 DEF Anyone
  <1> HIDE DEF new
  <1>4. RatchetTyped'
    BY <1>1, <1>2, <1>3 DEF RatchetTyped
  <1>5. \A c \in Agents : OwnKeys(c) \subseteq OwnKeys(c)'
    BY <1>1, <1>2 DEF OwnKeys, RatchetTyped
  <1>6. new \subseteq OwnKeys(a)' /\ new \cap OwnKeys(a) = {}
    BY <1>1, <1>2 DEF OwnKeys, RatchetTyped, new
  <1>7. KeysAreOwn'
    BY <1>1, <1>5, <1>6 DEF KeysAreOwn, RatchetTyped
  <1>8. BundlesAreOwn'
    BY <1>1, <1>5 DEF BundlesAreOwn
  <1>9. SessionsAreNumbered' /\ OpenedWithThePublisher' /\ ReadOnce'
    BY <1>1 DEF SessionsAreNumbered, OpenedWithThePublisher, ReadOnce
  <1>10. ASSUME NEW s \in accepted PROVE s.key \notin private'[s.to]
    <2>1. PICK b \in bundles : b.cert = s.to /\ b.key = s.key
      BY DEF KeysAreSpent, OpenedWithThePublisher
    <2>2. s.key \in OwnKeys(s.to) /\ s.to \in Agents
      BY <2>1 DEF BundlesAreOwn
    <2>3. s.key \notin private[s.to]
      BY DEF KeysAreSpent
    <2> QED BY <1>1, <1>6, <2>2, <2>3 DEF RatchetTyped
  <1>11. KeysAreSpent'
    BY <1>1, <1>10 DEF KeysAreSpent
  <1> QED BY <1>4, <1>7, <1>8, <1>9, <1>11

LEMMA PublishKeeps ==
    ASSUME RatchetInv, NEW a \in Agents, SignedPrekeyBundle(a)
    PROVE  RatchetInv'
  <1> USE RatchetAssumption DEF RatchetInv
  <1>1. PICK k \in unpublished[a] :
            bundles' = bundles \cup {[curve |-> a, key |-> k, cert |-> a, by |-> a, over |-> <<a, k>>]}
    BY DEF SignedPrekeyBundle
  <1>2. /\ unpublished' = [unpublished EXCEPT ![a] = {}]
        /\ UNCHANGED <<made, private, sessions, accepted, sent, replied, read>>
    BY DEF SignedPrekeyBundle
  <1>3. \A c \in Agents : OwnKeys(c)' = OwnKeys(c)
    BY <1>2 DEF OwnKeys
  <1>4. RatchetTyped' /\ KeysAreOwn'
    BY <1>2, <1>3 DEF RatchetTyped, KeysAreOwn
  <1>5. k \in OwnKeys(a)
    BY DEF KeysAreOwn
  <1>6. BundlesAreOwn'
    BY <1>1, <1>3, <1>5 DEF BundlesAreOwn
  <1>7. SessionsAreNumbered' /\ ReadOnce' /\ KeysAreSpent'
    BY <1>2 DEF SessionsAreNumbered, ReadOnce, KeysAreSpent
  <1>8. OpenedWithThePublisher'
    BY <1>1, <1>2 DEF OpenedWithThePublisher
  <1> QED BY <1>4, <1>6, <1>7, <1>8

LEMMA InitiateKeeps ==
    ASSUME RatchetInv, NEW a \in Agents, NEW b \in Seen, NEW user \in Users, Initiate(a, b, user)
    PROVE  RatchetInv'
  <1> USE RatchetAssumption DEF RatchetInv
  <1>1. PICK new : new = [id |-> Cardinality(sessions) + 1, by |-> a, to |-> b.curve,
                          key |-> b.key, user |-> user]
    OBVIOUS
  <1>2. /\ Cardinality(sessions) < MaxSessions /\ Verify(b, user)
        /\ sessions' = sessions \cup {new}
        /\ UNCHANGED <<made, unpublished, private, bundles, accepted, sent, replied, read>>
    BY <1>1 DEF Initiate
  <1>3. Cardinality(sessions) \in Nat
    BY FS_CardinalityType DEF SessionsAreNumbered
  <1>4. new.id = Cardinality(sessions) + 1 /\ new \notin sessions
    BY <1>1, <1>3 DEF SessionsAreNumbered
  <1>5. IsFiniteSet(sessions') /\ Cardinality(sessions') = Cardinality(sessions) + 1
    BY <1>2, <1>4, FS_AddElement DEF SessionsAreNumbered
  <1>6. SessionsAreNumbered'
    <2>1. Cardinality(sessions') <= MaxSessions
      BY <1>2, <1>3, <1>5
    <2>2. \A s \in sessions : s.id \in 1..Cardinality(sessions)
      BY DEF SessionsAreNumbered
    <2>3. \A s \in sessions' : s.id \in 1..Cardinality(sessions')
      BY <1>2, <1>3, <1>4, <1>5, <2>2
    <2>4. \A s \in sessions : s.id # new.id
      BY <1>3, <1>4, <2>2
    <2>5. \A s, t \in sessions' : s.id = t.id => s = t
      BY <1>2, <2>4 DEF SessionsAreNumbered
    <2> QED BY <1>5, <2>1, <2>3, <2>5 DEF SessionsAreNumbered
  <1>7. RatchetTyped' /\ ReadOnce'
    BY <1>2 DEF RatchetTyped, ReadOnce
  <1>8. KeysAreOwn' /\ BundlesAreOwn'
    BY <1>2 DEF KeysAreOwn, BundlesAreOwn, OwnKeys
  <1>9. KeysAreSpent'
    BY <1>2 DEF KeysAreSpent
  <1>10. /\ new.to \in Agents /\ UserOf[new.to] = new.user
         /\ \E p \in bundles : p.cert = new.to /\ p.key = new.key
    BY <1>1, <1>2, VerifiedIsPublished
  <1>11. OpenedWithThePublisher'
    BY <1>2, <1>10 DEF OpenedWithThePublisher
  <1> QED BY <1>6, <1>7, <1>8, <1>9, <1>11

\* What was read stays so, and of one side of a session there may be more.
ReadMore(i, side) ==
    /\ read' \in [1..MaxSessions -> [Sides -> [1..MaxMessages -> Nat]]]
    /\ \A j \in 1..MaxSessions, d \in Sides, m \in 1..MaxMessages :
          /\ read'[j][d][m] <= 1
          /\ read'[j][d][m] # 0 => read[j][d][m] # 0 \/ (j = i /\ d = side)

\* One more reading of a message that was not read.
LEMMA PlaintextOnce ==
    ASSUME RatchetTyped, ReadOnce,
           NEW s, s.id \in 1..MaxSessions, NEW side \in Sides, NEW n \in 1..MaxMessages,
           read[s.id][side][n] = 0, Plaintext(side, s, n)
    PROVE  ReadMore(s.id, side)
  BY DEF Plaintext, RatchetTyped, ReadOnce, ReadMore

LEMMA AcceptKeeps ==
    ASSUME RatchetInv, NEW s \in sessions, NEW peer \in Agents, NEW n \in 1..MaxMessages,
           Accept(s, peer, n)
    PROVE  RatchetInv'
  <1> USE RatchetAssumption DEF RatchetInv
  <1>1. /\ s.to \in Agents /\ s.key \in private[s.to]
        /\ private' = [private EXCEPT ![s.to] = @ \ {s.key}]
        /\ unpublished' = [unpublished EXCEPT ![s.to] = @ \ {s.key}]
        /\ accepted' = accepted \cup {s}
        /\ Plaintext("initiator", s, n)
        /\ UNCHANGED <<made, bundles, sessions, sent, replied>>
    BY DEF Accept
  <1>2. s \notin accepted
    BY <1>1 DEF KeysAreSpent
  <1>3. s.id \in 1..MaxSessions
    BY FS_CardinalityType DEF SessionsAreNumbered
  <1>4. read[s.id]["initiator"][n] = 0
    BY <1>2, <1>3 DEF KeysAreSpent, SessionsAreNumbered
  <1>5. ReadMore(s.id, "initiator")
    BY <1>1, <1>3, <1>4, PlaintextOnce DEF Sides
  <1>6. RatchetTyped'
    BY <1>1, <1>5 DEF RatchetTyped, ReadMore
  <1>7. KeysAreOwn' /\ BundlesAreOwn'
    BY <1>1 DEF KeysAreOwn, BundlesAreOwn, OwnKeys, RatchetTyped
  <1>8. SessionsAreNumbered' /\ OpenedWithThePublisher'
    BY <1>1 DEF SessionsAreNumbered, OpenedWithThePublisher
  <1>9. \A t \in sessions : \E k \in 1..made[t.to] : t.key = <<t.to, k>>
    BY DEF OpenedWithThePublisher, BundlesAreOwn, OwnKeys
  <1>10. \A t \in accepted : t.key # s.key
    <2> SUFFICES ASSUME NEW t \in accepted, t.key = s.key PROVE FALSE
      OBVIOUS
    <2>1. t.to = s.to
      BY <1>9 DEF KeysAreSpent
    <2> QED BY <1>1, <2>1 DEF KeysAreSpent
  <1>11. ReadOnce'
    BY <1>1, <1>5, <1>10 DEF ReadOnce, ReadMore
  <1>12. \A t \in accepted' : t.key \notin private'[t.to]
    BY <1>1 DEF KeysAreSpent, RatchetTyped
  <1>13. \A i \in 1..MaxSessions, m \in 1..MaxMessages :
            read'[i]["initiator"][m] # 0 => \E t \in accepted' : t.id = i
    BY <1>1, <1>5 DEF KeysAreSpent, Sides, ReadMore
  <1>14. KeysAreSpent'
    BY <1>1, <1>12, <1>13 DEF KeysAreSpent
  <1> QED BY <1>6, <1>7, <1>8, <1>11, <1>14

LEMMA DecryptKeeps ==
    ASSUME RatchetInv, NEW s \in sessions, NEW side \in Sides, NEW n \in 1..MaxMessages,
           Decrypt(side, s, n)
    PROVE  RatchetInv'
  <1> USE RatchetAssumption DEF RatchetInv
  <1>1. /\ read[s.id][side][n] = 0 /\ Plaintext(side, s, n)
        /\ UNCHANGED <<made, unpublished, private, bundles, sessions, accepted, sent>>
    BY DEF Decrypt
  <1>2. side = "initiator" => s \in accepted
    BY DEF Decrypt, Has
  <1>3. s.id \in 1..MaxSessions
    BY FS_CardinalityType DEF SessionsAreNumbered
  <1>4. ReadMore(s.id, side)
    BY <1>1, <1>3, PlaintextOnce
  <1>5. RatchetTyped'
    BY <1>1, <1>4 DEF RatchetTyped, ReadMore
  <1>6. KeysAreOwn' /\ BundlesAreOwn'
    BY <1>1 DEF KeysAreOwn, BundlesAreOwn, OwnKeys
  <1>7. SessionsAreNumbered' /\ OpenedWithThePublisher'
    BY <1>1 DEF SessionsAreNumbered, OpenedWithThePublisher
  <1>8. ReadOnce'
    BY <1>1, <1>4 DEF ReadOnce, ReadMore
  <1>9. \A i \in 1..MaxSessions, m \in 1..MaxMessages :
            read'[i]["initiator"][m] # 0 => \E t \in accepted : t.id = i
    BY <1>2, <1>4 DEF KeysAreSpent, Sides, ReadMore
  <1>10. KeysAreSpent'
    BY <1>1, <1>9 DEF KeysAreSpent
  <1> QED BY <1>5, <1>6, <1>7, <1>8, <1>10

\* A step that leaves keys, bundles, sessions and plaintexts alone.
LEMMA RatchetRests ==
    ASSUME RatchetInv,
           UNCHANGED <<made, unpublished, private, bundles, sessions, accepted, read>>
    PROVE  RatchetInv'
  <1>1. RatchetTyped' /\ KeysAreOwn' /\ BundlesAreOwn'
    BY DEF RatchetInv, RatchetTyped, KeysAreOwn, BundlesAreOwn, OwnKeys
  <1>2. SessionsAreNumbered' /\ KeysAreSpent'
    BY DEF RatchetInv, SessionsAreNumbered, KeysAreSpent
  <1>3. OpenedWithThePublisher' /\ ReadOnce'
    BY DEF RatchetInv, OpenedWithThePublisher, ReadOnce
  <1> QED BY <1>1, <1>2, <1>3 DEF RatchetInv

LEMMA RatchetSteps == RatchetInv /\ [RatchetNext]_ratchetVars => RatchetInv'
  <1> SUFFICES ASSUME RatchetInv, [RatchetNext]_ratchetVars PROVE RatchetInv'
    OBVIOUS
  <1>1. CASE UNCHANGED ratchetVars
    BY <1>1, RatchetRests DEF ratchetVars
  <1>2. ASSUME NEW a \in Agents, SignedPrekeyBundle(a) PROVE RatchetInv'
    BY <1>2, PublishKeeps
  <1>3. ASSUME NEW a \in Agents, NEW count \in 1..MaxKeys, GenerateOneTimeKeys(a, count)
        PROVE  RatchetInv'
    BY <1>3, GenerateKeeps
  <1>4. ASSUME NEW a \in Agents, NEW b \in Seen, NEW user \in Users, Initiate(a, b, user)
        PROVE  RatchetInv'
    BY <1>4, InitiateKeeps
  <1>5. ASSUME NEW s \in sessions, NEW side \in Sides, Encrypt(side, s) PROVE RatchetInv'
    BY <1>5, RatchetRests DEF Encrypt
  <1>6. ASSUME NEW s \in sessions, NEW n \in 1..MaxMessages, NEW peer \in Agents,
               Accept(s, peer, n)
        PROVE  RatchetInv'
    BY <1>6, AcceptKeeps
  <1>7. ASSUME NEW s \in sessions, NEW side \in Sides, NEW n \in 1..MaxMessages,
               Decrypt(side, s, n)
        PROVE  RatchetInv'
    BY <1>7, DecryptKeeps
  <1> QED BY <1>1, <1>2, <1>3, <1>4, <1>5, <1>6, <1>7 DEF RatchetNext

\* For any agents, users and outsider, and any number of keys, sessions and messages:
\* whatever bundles are put together from pieces of others, a session that `initiate` opens
\* on a user's word is with the account that published the key; and however first messages
\* are repeated to `accept` and `decrypt`, a one-time key opens one session and a plaintext
\* is handed over once.
THEOREM RatchetsReadOnce == RatchetSpec => []RatchetReadsOnce
  <1>1. RatchetInv => RatchetReadsOnce
    BY DEF RatchetInv, RatchetReadsOnce
  <1> QED BY <1>1, RatchetBegins, RatchetSteps, PTL DEF RatchetSpec

===============================================================================
