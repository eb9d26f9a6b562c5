-------------------------------- MODULE FlockFiles --------------------------------
(***************************************************************************)
(* Files that events cite: how the home host, the citer and the board's    *)
(* reader open one beneath a root (flock-server beneath.rs, files.rs,      *)
(* cite.rs, serve.rs file_resp), and how a client takes the answer         *)
(* (flock-session files.rs, tui drift.rs), while the owner of the tree     *)
(* moves directories, swaps them for links and writes to the files.        *)
(*                                                                         *)
(* The tree is a root with one directory `d`, a file `f` in it, and a      *)
(* directory outside of the root that also holds an `f`.  A content id is  *)
(* the content (hashes do not collide); one step reads one byte.           *)
(***************************************************************************)
EXTENDS Sequences, Integers

CONSTANTS
    Bytes,       \* what a byte inside the tree may be
    Foreign,     \* the byte that only the file outside of the root holds
    MaxFile,     \* MAX_FILE, what the server sends in one message
    MaxCited,    \* MAX_CITED_BYTES, what citing and checking read
    MaxChanges   \* bound on the owner's changes and on lies

ASSUME FilesAssumption == MaxFile \in Nat /\ Foreign \notin Bytes

Absent == "none"
NoId == <<>>   \* the files here are never empty
Readers == {"serve", "cite", "check"}
Paths == {<<"d", "f">>, <<"..", "f">>}

Regular(i) == [kind |-> "file", to |-> i]
Dir(i) == [kind |-> "dir", to |-> i]
Link(i) == [kind |-> "link", to |-> i]
NoEntry == [kind |-> Absent, to |-> Absent]

VARIABLES
    tree,      \* what a name in a directory is
    content,   \* what each file holds
    openat2,   \* this host's kernel has it
    readers,   \* each reader's progress: where it is, what it holds, what it has read
    readable,  \* session_may_read and root_dir: the session and the root are still good
    wanted,     \* the client's request, if one is under way: a `File` with an id, or a `FileStat`
    resp,      \* the answer on its way to the client
    cited,     \* the id in the event, or NoId
    taken,     \* what the client made of the answer
    changes

filesVars == <<tree, content, openat2, readers, readable, wanted, resp, cited, taken, changes>>

Idle == [at |-> "idle", path |-> <<>>, dir |-> Absent, file |-> NoEntry, bytes |-> <<>>]
Answer(is, id) == [is |-> is, id |-> id]
NoAnswer == Answer(Absent, <<>>)

FilesInit ==
    /\ tree = [root |-> [d |-> Dir("dir"), f |-> NoEntry, up |-> Dir("outside")],
               dir |-> [d |-> NoEntry, f |-> Regular("inside"), up |-> Dir("root")],
               outside |-> [d |-> NoEntry, f |-> Regular("foreign"), up |-> NoEntry]]
    /\ \E b \in Bytes, n \in 1..MaxFile + 1 :
          content = [inside |-> [i \in 1..n |-> b], foreign |-> <<Foreign>>]
    /\ openat2 \in BOOLEAN
    /\ readers = [r \in Readers |-> Idle]
    /\ readable = TRUE
    /\ wanted = NoAnswer /\ resp = NoAnswer /\ cited = NoId /\ taken = NoAnswer
    /\ changes = 0

Limit(r) == IF r = "serve" THEN MaxFile ELSE MaxCited

-------------------------------------------------------------------------------
(* Beneath *)

\* The components a path has; only names of files and directories are let through.
Parts(path) == IF ".." \in {path[i] : i \in 1..Len(path)} THEN <<>> ELSE path

\* What a name is in a directory that is held open; ".." is an entry like another.
Entry(dir, name) == tree[dir][IF name = ".." THEN "up" ELSE name]

\* A plausible bug: the link is followed.
FollowsLinks(dir, name) ==
    LET e == Entry(dir, name)
    IN IF e.kind = "link" THEN (IF e.to = "foreign" THEN Regular(e.to) ELSE Dir(e.to)) ELSE e

\* openat with O_NOFOLLOW: a link is refused, whatever it points at
OpenAt(dir, name) == LET e == Entry(dir, name) IN IF e.kind = "link" THEN NoEntry ELSE e

Step(r, next) ==
    /\ readers' = [readers EXCEPT ![r] = next]
    /\ UNCHANGED <<tree, content, openat2, readable, cited, taken, changes>>

Keep == UNCHANGED <<wanted, resp>>

\* Every error path ends the same way: `Unavailable` to the client, an error of the command, a
\* state of the file on the board.
Fail(r) ==
    /\ Step(r, Idle)
    /\ resp' = IF r = "serve" THEN Answer("unavailable", <<>>) ELSE resp
    /\ wanted' = wanted

\* root: the anchor is opened by its path, once.  The path is looked at before the files are.
Root(r) ==
    /\ readers[r].at = "root"
    /\ IF Parts(readers[r].path) = <<>> THEN Fail(r)
       ELSE Step(r, [readers[r] EXCEPT !.at = "walk", !.dir = "root", !.path = Parts(@)]) /\ Keep

\* What an open leaves: the inode that was there, a directory included
Opened(r, e) ==
    IF e.kind = Absent THEN Fail(r)
    ELSE Step(r, [readers[r] EXCEPT !.at = "stat", !.file = e, !.path = <<>>]) /\ Keep

\* open_linux: one resolution, RESOLVE_BENEATH and RESOLVE_NO_SYMLINKS
OpenLinux(r) ==
    LET w == readers[r]
        first == OpenAt("root", w.path[1])
    IN /\ w.at = "walk" /\ openat2
       /\ Opened(r, IF first.kind = "dir" THEN OpenAt(first.to, w.path[2]) ELSE NoEntry)

\* walk: one component, relative to the descriptor of the one before; O_DIRECTORY on all but
\* the last
WalkStep(r) ==
    LET w == readers[r]
        e == OpenAt(w.dir, Head(w.path))
    IN /\ w.at = "walk" /\ ~openat2
       /\ \/ Len(w.path) = 1 /\ Opened(r, e)
          \/ /\ Len(w.path) > 1 /\ e.kind = "dir"
             /\ Step(r, [w EXCEPT !.dir = e.to, !.path = Tail(@)]) /\ Keep
          \/ Len(w.path) > 1 /\ e.kind # "dir" /\ Fail(r)

\* read_under and file_id look at the descriptor: a regular file that is not too large
StatFile(r) ==
    LET w == readers[r]
    IN /\ w.at = "stat"
       /\ IF w.file.kind # "file" THEN Fail(r)
          ELSE IF Len(content[w.file.to]) > Limit(r) THEN Fail(r)
          ELSE Step(r, [w EXCEPT !.at = "read"]) /\ Keep

\* take(limit + 1).read_to_end: what the inode holds by the time each byte is read
AtEnd(r) ==
    \/ Len(readers[r].bytes) >= Len(content[readers[r].file.to])
    \/ Len(readers[r].bytes) = Limit(r) + 1

ReadByte(r) ==
    LET w == readers[r]
    IN /\ w.at = "read" /\ ~AtEnd(r)
       /\ Step(r, [w EXCEPT !.bytes = Append(@, content[w.file.to][Len(@) + 1])]) /\ Keep

\* A plausible bug: the size is only looked at before the read.
WholeFileOnceStatted(r) == readers[r].at = "read" /\ AtEnd(r)

\* The read ended within the limit.
WholeFile(r) == readers[r].at = "read" /\ AtEnd(r) /\ Len(readers[r].bytes) <= Limit(r)

TooLarge(r) ==
    /\ readers[r].at = "read" /\ Len(readers[r].bytes) > Limit(r)
    /\ Fail(r)

-------------------------------------------------------------------------------
(* cite::resolve: the citer hashes the bytes itself *)

CiteBegins(path) ==
    /\ readers["cite"].at = "idle" /\ cited = NoId /\ readable
    /\ Step("cite", [Idle EXCEPT !.at = "root", !.path = path]) /\ Keep

CiteEnds ==
    /\ WholeFile("cite")
    /\ cited' = readers["cite"].bytes
    /\ readers' = [readers EXCEPT !["cite"] = Idle]
    /\ UNCHANGED <<tree, content, openat2, readable, wanted, resp, taken, changes>>

-------------------------------------------------------------------------------
(* drift::check_with: the board's reader looks at a root this host maps *)

CheckBegins(path) ==
    /\ readers["check"].at = "idle" /\ cited # NoId /\ taken = NoAnswer
    /\ Step("check", [Idle EXCEPT !.at = "root", !.path = path]) /\ Keep

CheckEnds ==
    /\ WholeFile("check") /\ taken = NoAnswer
    /\ taken' = Answer(IF readers["check"].bytes = cited THEN "same" ELSE "changed",
                       readers["check"].bytes)
    /\ readers' = [readers EXCEPT !["check"] = Idle]
    /\ UNCHANGED <<tree, content, openat2, readable, wanted, resp, cited, changes>>

-------------------------------------------------------------------------------
(* Files::read, Files::stat, and file_resp that answers them *)

\* The id it carries, or none: `stat` asks what the file hashes to
Ask(stat) ==
    /\ cited # NoId /\ wanted = NoAnswer /\ resp = NoAnswer /\ taken = NoAnswer
    /\ wanted' = IF stat THEN Answer("stat", NoId) ELSE Answer("file", cited)
    /\ UNCHANGED <<tree, content, openat2, readers, readable, resp, cited, taken, changes>>

\* file_resp: the session and the root are looked at under the server's lock, the file is read
\* outside of it.
FileResp(path) ==
    /\ wanted # NoAnswer /\ resp = NoAnswer /\ readers["serve"].at = "idle"
    /\ IF readable
       THEN Step("serve", [Idle EXCEPT !.at = "root", !.path = path]) /\ Keep
       ELSE /\ resp' = Answer("refused", <<>>)
            /\ UNCHANGED <<tree, content, openat2, readers, readable, wanted, cited, taken, changes>>

FileAnswers ==
    LET current == readers["serve"].bytes
    IN /\ WholeFile("serve")
       /\ resp' = CASE wanted.is = "stat" -> Answer("id", current)
                    [] wanted.id = current -> Answer("file", current)
                    [] OTHER -> Answer("changed", current)
       /\ readers' = [readers EXCEPT !["serve"] = Idle]
       /\ UNCHANGED <<tree, content, openat2, readable, wanted, cited, taken, changes>>

\* A plausible bug: what the server calls the file is taken for it.
TrustsTheServer(r) ==
    CASE r.is = "file" /\ wanted.is = "file" -> Answer("bytes", r.id)
      [] r.is = "changed" /\ wanted.is = "file" /\ r.id # wanted.id -> r
      [] r.is = "id" /\ wanted.is = "stat" -> Answer(IF r.id = cited THEN "same" ELSE "changed", r.id)
      [] r.is = "unavailable" -> r
      [] OTHER -> Answer("error", <<>>)

\* What read and stat (and `ask` of the board) make of an answer: bytes are hashed again, a
\* report of a change must name another id, and an answer to something else is an error.
Taken(r) ==
    CASE r.is = "file" /\ wanted.is = "file" /\ r.id = wanted.id /\ Len(r.id) <= MaxFile -> Answer("bytes", r.id)
      [] r.is = "changed" /\ wanted.is = "file" /\ r.id # wanted.id -> r
      [] r.is = "id" /\ wanted.is = "stat" -> Answer(IF r.id = cited THEN "same" ELSE "changed", r.id)
      [] r.is = "unavailable" -> r
      [] OTHER -> Answer("error", <<>>)

Take ==
    /\ wanted # NoAnswer /\ resp # NoAnswer
    /\ taken' = Taken(resp)
    /\ wanted' = NoAnswer /\ resp' = NoAnswer
    /\ UNCHANGED <<tree, content, openat2, readers, readable, cited, changes>>

\* The caller is done with it.
PutAside ==
    /\ taken # NoAnswer
    /\ taken' = NoAnswer
    /\ UNCHANGED <<tree, content, openat2, readers, readable, wanted, resp, cited, changes>>

-------------------------------------------------------------------------------
(* The owner of the tree, the roster, and a server that answers wrongly *)

Change ==
    /\ changes < MaxChanges
    /\ changes' = changes + 1
    /\ UNCHANGED <<openat2, readers, wanted, cited, taken>>

\* A name in the root or in the directory becomes something else.
Swap ==
    /\ \/ \E e \in {Dir("dir"), Link("dir"), Link("outside"), NoEntry} :
            tree' = [tree EXCEPT !["root"]["d"] = e]
       \/ \E e \in {Regular("inside"), Link("foreign"), Dir("root"), NoEntry} :
            tree' = [tree EXCEPT !["dir"]["f"] = e]
    /\ tree' # tree
    /\ Change /\ UNCHANGED <<content, readable, resp>>

\* The file grows, shrinks, or a byte of it is written over.
Write ==
    /\ \/ /\ Len(content["inside"]) <= MaxFile
          /\ \E b \in Bytes : content' = [content EXCEPT !["inside"] = Append(@, b)]
       \/ Len(content["inside"]) > 1 /\ content' = [content EXCEPT !["inside"] = Tail(@)]
       \/ \E b \in Bytes, i \in DOMAIN content["inside"] :
             content' = [content EXCEPT !["inside"][i] = b]
    /\ content' # content
    /\ Change /\ UNCHANGED <<tree, readable, resp>>

\* The session ends, or its member goes, or the root is no longer declared or mapped.
NoLonger == readable /\ readable' = FALSE /\ Change /\ UNCHANGED <<tree, content, resp>>

\* The answer is not what file_resp said: the home host is another one, or is not honest.
\* (A message that is too long is not read at all.)
Lie ==
    /\ resp # NoAnswer
    /\ \E is \in {"file", "changed", "id"}, id \in {content["inside"], content["foreign"], cited} :
          Len(id) <= MaxFile /\ resp' = Answer(is, id)
    /\ resp' # resp
    /\ Change /\ UNCHANGED <<tree, content, readable>>

-------------------------------------------------------------------------------
FilesNext ==
    \/ \E r \in Readers :
         \/ Root(r) \/ OpenLinux(r) \/ WalkStep(r) \/ StatFile(r) \/ ReadByte(r) \/ TooLarge(r)
    \/ \E path \in Paths : CiteBegins(path) \/ CheckBegins(path) \/ FileResp(path)
    \/ \E stat \in BOOLEAN : Ask(stat)
    \/ CiteEnds \/ CheckEnds \/ FileAnswers \/ Take \/ PutAside
    \/ Swap \/ Write \/ NoLonger \/ Lie

FilesSpec == FilesInit /\ [][FilesNext]_filesVars

-------------------------------------------------------------------------------
(* Properties *)

\* No reader ever holds a directory or a file outside of the root, however directories are
\* swapped for links while a path is walked; what is cited, and what is answered by an honest
\* server, is therefore of the tree.  (Beneath: descriptors, no second look at a path.)
OnlyBeneathTheRoot ==
    /\ \A r \in Readers :
          /\ readers[r].dir # "outside"
          /\ readers[r].file.to \notin {"outside", "foreign"}
    /\ cited # NoId => Foreign \notin {cited[i] : i \in DOMAIN cited}

\* What is handed over as the cited file is the cited file, whatever became of the path, the
\* file or the server's word since, and no answer is larger than a message may be although a
\* file may grow while it is read.  (read_under, Files::read.)
CitedFileOrNothing ==
    /\ taken.is \in {"bytes", "same"} => taken.id = cited
    /\ taken.is = "changed" => taken.id # cited
    /\ resp.is = "file" => Len(resp.id) <= MaxFile

\* Files are served as cited, and none that is not of the tree.
FilesAreGuarded == OnlyBeneathTheRoot /\ CitedFileOrNothing

===============================================================================
