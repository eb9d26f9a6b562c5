-------------------------------- MODULE FlockSetup --------------------------------
(***************************************************************************)
(* A flock's directory: `amesh flock init` makes the server key, the       *)
(* signed genesis and the empty logs (flock-server init.rs, keyfile.rs),   *)
(* `amesh flock serve` opens them under the log's lock and takes the       *)
(* socket (server.rs open, lock.rs, private.rs, cli flock/mod.rs serve).   *)
(*                                                                         *)
(* Commands run at the same time, are killed at any step, and the power    *)
(* goes: then each name is what it was when the directory was last synced  *)
(* or what it has become since, and a file that was not synced is torn.    *)
(***************************************************************************)
EXTENDS FiniteSets, Integers

CONSTANTS
    Processes,  \* the commands that are run
    MaxLosses   \* bound on power losses and clean-ups

Nobody == 0   \* no process is called so

ASSUME SetupAssumption == Nobody \notin Processes /\ MaxLosses \in Nat

VARIABLES
    stage,  \* how far each command is
    names,  \* what the names in the directory are
    disk,   \* what of that a power loss leaves for certain
    ok,     \* init commands that have returned Ok
    lock,   \* who holds the lock on the log
    socket, \* whose listener run/serve.sock leads to
    losses

setupVars == <<stage, names, disk, ok, lock, socket, losses>>

Files == {"key", "genesis", "log", "refusals"}
Missing == [by |-> Nobody, whole |-> FALSE]
Whole(p) == [by |-> p, whole |-> TRUE]
Torn(p) == [by |-> p, whole |-> FALSE]

SetupInit ==
    /\ stage = [p \in Processes |-> "idle"]
    /\ names = [f \in Files |-> Missing] /\ disk = names
    /\ ok = {} /\ lock = Nobody /\ socket = Nobody /\ losses = 0

Go(p, to) == stage' = [stage EXCEPT ![p] = to]

-------------------------------------------------------------------------------
(* init *)

\* None of the three files is there, the roster is well formed, and a key is made.  The
\* directory is not locked.
InitCheck(p) ==
    /\ stage[p] = "idle"
    /\ \A f \in {"key", "genesis", "log"} : names[f] = Missing
    /\ Go(p, "key")
    /\ UNCHANGED <<names, disk, ok, lock, socket, losses>>

\* A plausible bug: a key file that is there is written over.
StoreKeyOver(p) ==
    /\ stage[p] = "key"
    /\ names' = [names EXCEPT !["key"] = Torn(p)] /\ Go(p, "keywrite")
    /\ UNCHANGED <<disk, ok, lock, socket, losses>>

\* store_server_key: create_new refuses a file that is there
StoreKey(p) ==
    /\ stage[p] = "key"
    /\ IF names["key"] = Missing
       THEN names' = [names EXCEPT !["key"] = Torn(p)] /\ Go(p, "keywrite")
       ELSE names' = names /\ Go(p, "idle")
    /\ UNCHANGED <<disk, ok, lock, socket, losses>>

\* write_all and sync_all
WriteKey(p) ==
    /\ stage[p] = "keywrite"
    /\ names' = [names EXCEPT !["key"] = Whole(p)]
    /\ Go(p, "genesis")
    /\ UNCHANGED <<disk, ok, lock, socket, losses>>

\* genesis.tmp is written and synced, then renamed: "genesis appears whole or not at all"
RenameGenesis(p) ==
    /\ stage[p] = "genesis"
    /\ names' = [names EXCEPT !["genesis"] = Whole(p)]
    /\ Go(p, "log")
    /\ UNCHANGED <<disk, ok, lock, socket, losses>>

\* The log, then the refusals: create_new each
CreateLog(p, f, next) ==
    /\ stage[p] = f
    /\ IF names[f] = Missing
       THEN names' = [names EXCEPT ![f] = Whole(p)] /\ Go(p, next)
       ELSE names' = names /\ Go(p, "idle")
    /\ UNCHANGED <<disk, ok, lock, socket, losses>>

\* A plausible bug: the directory is not synced.
SyncNothing(p) ==
    /\ stage[p] = "sync"
    /\ Go(p, "idle") /\ ok' = ok \cup {p}
    /\ UNCHANGED <<names, disk, lock, socket, losses>>

\* File::open(dir)?.sync_all(), and the flock's id is returned
SyncDir(p) ==
    /\ stage[p] = "sync"
    /\ disk' = names
    /\ Go(p, "idle") /\ ok' = ok \cup {p}
    /\ UNCHANGED <<names, lock, socket, losses>>

-------------------------------------------------------------------------------
(* serve *)

\* load_genesis and load_server_key verify; the key must be the one the genesis names
Opens ==
    /\ names["genesis"].whole /\ names["key"].whole
    /\ names["key"].by = names["genesis"].by
    /\ names["log"] # Missing /\ names["refusals"] # Missing

\* Server::open, which ends with the lock: non-blocking, held until the file is dropped
OpenServer(p) ==
    /\ stage[p] = "idle" /\ Opens /\ lock = Nobody
    /\ lock' = p /\ Go(p, "bind")
    /\ UNCHANGED <<names, disk, ok, socket, losses>>

\* A plausible bug: the socket is taken before the log is opened.
BindAtOnce(p) ==
    /\ stage[p] \in {"idle", "bind"}
    /\ socket' = p /\ Go(p, "serving")
    /\ UNCHANGED <<names, disk, ok, lock, losses>>

\* bind_private: whatever is at the path is removed
Bind(p) ==
    /\ stage[p] = "bind"
    /\ socket' = p /\ Go(p, "serving")
    /\ UNCHANGED <<names, disk, ok, lock, losses>>

\* A command ends or is killed at any step; a file it was writing stays torn, its socket stays.
CommandEnds(p) ==
    /\ stage[p] # "idle"
    /\ Go(p, "idle")
    /\ lock' = IF lock = p THEN Nobody ELSE lock
    /\ UNCHANGED <<names, disk, ok, socket, losses>>

-------------------------------------------------------------------------------
\* The power goes.  A name that was made since the last sync may be gone or there.
PowerGoes ==
    /\ losses < MaxLosses /\ losses' = losses + 1
    /\ \E kept \in SUBSET Files :
          names' = [f \in Files |-> IF f \in kept THEN names[f] ELSE disk[f]]
    /\ disk' = names'
    /\ stage' = [p \in Processes |-> "idle"] /\ lock' = Nobody
    /\ UNCHANGED <<ok, socket>>

\* Someone removes what an init that failed has left, when no command is running.
CleanUp ==
    /\ losses < MaxLosses /\ losses' = losses + 1
    /\ \A p \in Processes : stage[p] = "idle"
    /\ ok = {} /\ ~Opens
    /\ names' = [f \in Files |-> Missing] /\ disk' = names'
    /\ UNCHANGED <<stage, ok, lock, socket>>

-------------------------------------------------------------------------------
SetupNext ==
    \/ \E p \in Processes :
         \/ InitCheck(p) \/ StoreKey(p) \/ WriteKey(p) \/ RenameGenesis(p)
         \/ CreateLog(p, "log", "refusals") \/ CreateLog(p, "refusals", "sync") \/ SyncDir(p)
         \/ OpenServer(p) \/ Bind(p) \/ CommandEnds(p)
    \/ PowerGoes \/ CleanUp

SetupSpec == SetupInit /\ [][SetupNext]_setupVars

-------------------------------------------------------------------------------
(* Properties *)

\* Once an init has returned the flock's id, the directory is one that `serve` opens, under
\* the key and the genesis of that very init, whatever init commands were started beside it
\* and however often the power goes; and no second one has returned.  (The order of
\* store_server_key, the rename and the directory's sync.)
ReturnedMeansOpens ==
    \A p \in ok : Opens /\ names["genesis"].by = p

\* The socket never leads to a process that is serving without the log's lock: "The log lock
\* is ours, so any socket file left behind is stale".  (serve binds after Server::open.)
SocketIsTheServers ==
    \A p \in Processes : stage[p] = "serving" => lock = p /\ socket = p

\* What the directory promises: an init that returned left a flock that opens, and the socket
\* leads to the server that holds the log.
OkMeansOpens == ReturnedMeansOpens /\ SocketIsTheServers

===============================================================================
