------------------------------ MODULE MCHistory ------------------------------
(***************************************************************************)
(* The log of a flock and what lives by it: the file under the server, the *)
(* reader that keeps a copy, the session that writes, the adapter that     *)
(* nudges, the files that events cite, and the commands that set a         *)
(* directory up, attach it and serve its tools.  A behaviour explores one  *)
(* of them.                                                                *)
(***************************************************************************)
EXTENDS FlockLog, FlockReader, FlockMember, FlockNudge, FlockFiles, FlockSetup,
        FlockAttach, McpServer

VARIABLE which   \* the component that this behaviour is of

allVars == <<which, vars, readerVars, memberVars, nudgeVars, filesVars, setupVars,
             attachVars, mcpVars>>

MCInit ==
    /\ which \in {"log", "reader", "member", "nudge", "files", "setup", "attach",
                  "mcp"}
    /\ Init
    /\ ReaderInit
    /\ MemberInit
    /\ NudgeInit
    /\ FilesInit
    /\ SetupInit
    /\ AttachInit
    /\ McpInit
    /\ which # "member" => pending = FALSE
    /\ which # "nudge" => claim = 1 /\ scope = {} /\ map = 2
    /\ which # "files" => openat2 /\ content["inside"] = <<1>>

\* These may come to rest.
Rests ==
    /\ which \in {"reader", "member", "nudge", "files", "setup", "attach", "mcp"}
    /\ UNCHANGED allVars

MCNext ==
    \/ which = "log" /\ Next
       /\ UNCHANGED <<which, readerVars, memberVars, nudgeVars, filesVars, setupVars,
                     attachVars, mcpVars>>
    \/ which = "reader" /\ ReaderNext
       /\ UNCHANGED <<which, vars, memberVars, nudgeVars, filesVars, setupVars,
                     attachVars, mcpVars>>
    \/ which = "member" /\ MemberNext
       /\ UNCHANGED <<which, vars, readerVars, nudgeVars, filesVars, setupVars,
                     attachVars, mcpVars>>
    \/ which = "nudge" /\ NudgeNext
       /\ UNCHANGED <<which, vars, readerVars, memberVars, filesVars, setupVars,
                     attachVars, mcpVars>>
    \/ which = "files" /\ FilesNext
       /\ UNCHANGED <<which, vars, readerVars, memberVars, nudgeVars, setupVars,
                     attachVars, mcpVars>>
    \/ which = "setup" /\ SetupNext
       /\ UNCHANGED <<which, vars, readerVars, memberVars, nudgeVars, filesVars,
                     attachVars, mcpVars>>
    \/ which = "attach" /\ AttachNext
       /\ UNCHANGED <<which, vars, readerVars, memberVars, nudgeVars, filesVars,
                     setupVars, mcpVars>>
    \/ which = "mcp" /\ McpNext
       /\ UNCHANGED <<which, vars, readerVars, memberVars, nudgeVars, filesVars,
                     setupVars, attachVars>>
    \/ Rests

MCSpec == MCInit /\ [][MCNext]_allVars

===============================================================================
