-------------------------------- MODULE FlockAttach --------------------------------
(***************************************************************************)
(* `amesh flock attach`: the directory on a remote host that stands for a  *)
(* flock (agent-mesh-cli flock_bridge.rs, Attachment).  The home's genesis *)
(* is fetched and checked, the directory is taken with a lock, and the     *)
(* genesis is pinned there, once; then the proxy serves.                   *)
(***************************************************************************)
EXTENDS Integers, FiniteSets

CONSTANTS
    Attachers,  \* attach commands
    Flocks,     \* flock ids (also: the genesis each one names)
    MaxStarts   \* bound on the commands started

Unset == 0

ASSUME AttachAssumption == Unset \notin Attachers /\ Unset \notin Flocks /\ MaxStarts \in Nat

VARIABLES
    errand,     \* where each command is
    wants,      \* the flock it was asked for
    attachLock, \* who holds attach.lock
    pinTmp,     \* the temporary file of each command: what it holds, or Unset
    pin,        \* the genesis file
    pinDurable, \* what the genesis file is after a power loss
    starts      \* history variable: commands started

attachVars == <<errand, wants, attachLock, pinTmp, pin, pinDurable, starts>>

AttachInit ==
    /\ errand = [a \in Attachers |-> "idle"] /\ wants = [a \in Attachers |-> Unset]
    /\ attachLock = Unset /\ pinTmp = [a \in Attachers |-> Unset]
    /\ pin = Unset /\ pinDurable = Unset /\ starts = 0

Goes(a, to) == errand' = [errand EXCEPT ![a] = to]

\* fetch_genesis and check_genesis: what the home sends is refused, in memory, unless it is
\* the genesis the id names.
Fetch(a, f, got) ==
    /\ errand[a] = "idle" /\ starts < MaxStarts
    /\ starts' = starts + 1
    /\ Goes(a, IF got = f THEN "fetched" ELSE "idle")
    /\ wants' = [wants EXCEPT ![a] = f]
    /\ UNCHANGED <<attachLock, pinTmp, pin, pinDurable>>

\* A plausible bug: the directory is not locked.
OpenUnlocked(a) ==
    /\ errand[a] = "fetched"
    /\ Goes(a, "open")
    /\ UNCHANGED <<wants, attachLock, pinTmp, pin, pinDurable, starts>>

\* Attachment::open
OpenAttachment(a) ==
    /\ errand[a] = "fetched" /\ attachLock = Unset
    /\ attachLock' = a
    /\ Goes(a, "open")
    /\ UNCHANGED <<wants, pinTmp, pin, pinDurable, starts>>

AttachmentHeld(a) ==
    /\ errand[a] = "fetched" /\ attachLock # Unset
    /\ Goes(a, "idle")
    /\ UNCHANGED <<wants, attachLock, pinTmp, pin, pinDurable, starts>>

\* Attachment::pin: a genesis that is there is left as it is, and must be the one wanted.
PinThere(a) ==
    /\ errand[a] = "open" /\ pin # Unset
    /\ IF pin = wants[a]
       THEN Goes(a, "serving") /\ UNCHANGED attachLock
       ELSE Goes(a, "idle") /\ attachLock' = Unset
    /\ UNCHANGED <<wants, pinTmp, pin, pinDurable, starts>>

\* Nothing there: a new temporary file, written and synced ...
PinWrite(a) ==
    /\ errand[a] = "open" /\ pin = Unset
    /\ pinTmp' = [pinTmp EXCEPT ![a] = wants[a]]
    /\ Goes(a, "written")
    /\ UNCHANGED <<wants, attachLock, pin, pinDurable, starts>>

\* ... renamed, with no look at what is there by now ...
PinRename(a) ==
    /\ errand[a] = "written"
    /\ pin' = pinTmp[a] /\ pinTmp' = [pinTmp EXCEPT ![a] = Unset]
    /\ Goes(a, "renamed")
    /\ UNCHANGED <<wants, attachLock, pinDurable, starts>>

\* ... and the directory synced.
PinSync(a) ==
    /\ errand[a] = "renamed"
    /\ pinDurable' = pin
    /\ Goes(a, "serving")
    /\ UNCHANGED <<wants, attachLock, pinTmp, pin, starts>>

\* The command ends, at any point, and its lock with it; a temporary file, named by the process, is
\* never looked at again.
Dies(a) ==
    /\ errand[a] # "idle"
    /\ Goes(a, "idle")
    /\ attachLock' = IF attachLock = a THEN Unset ELSE attachLock
    /\ pinTmp' = [pinTmp EXCEPT ![a] = Unset]
    /\ UNCHANGED <<wants, pin, pinDurable, starts>>

\* The host goes down: a rename that was not synced may or may not have happened.
HostDown(kept) ==
    /\ \E a \in Attachers : errand[a] # "idle"
    /\ errand' = [a \in Attachers |-> "idle"]
    /\ attachLock' = Unset /\ pinTmp' = [a \in Attachers |-> Unset]
    /\ pin' = IF kept THEN pin ELSE pinDurable
    /\ pinDurable' = pin'
    /\ UNCHANGED <<wants, starts>>

AttachNext ==
    \/ \E a \in Attachers :
         \/ \E f, got \in Flocks : Fetch(a, f, got)
         \/ OpenAttachment(a) \/ AttachmentHeld(a) \/ PinThere(a) \/ PinWrite(a) \/ PinRename(a) \/ PinSync(a)
         \/ Dies(a)
    \/ \E kept \in BOOLEAN : HostDown(kept)

AttachSpec == AttachInit /\ [][AttachNext]_attachVars

-------------------------------------------------------------------------------
(* Properties *)

\* A directory serves the flock it is pinned to, and one command at a time does: whatever
\* attach commands are started for whatever flocks, and wherever one is killed or the power
\* lost, none serves under a genesis other than the one it was asked for.  (That a pin lasts
\* is not claimed: a command killed before PinSync leaves one that a power loss can take.)
ServedAsPinned ==
    /\ \A a \in Attachers : errand[a] = "serving" => pin = wants[a]
    /\ \A a, b \in Attachers : errand[a] = "serving" /\ errand[b] = "serving" => a = b

===============================================================================
