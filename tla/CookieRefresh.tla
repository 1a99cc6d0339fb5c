--------------------------- MODULE CookieRefresh ---------------------------
(***************************************************************************)
(* The refresh of the YouTube cookies by programs that never call each     *)
(* other.  The worker raises a marker file on a bot check                  *)
(* (integrations/ytdlp.py).  A cron script on the host                     *)
(* (scripts/cookies-refresh.sh) sees it, exports the browser's cookies     *)
(* (scripts/refresh_cookies.py), moves them over cookies.txt and removes   *)
(* the marker; cron starts it every minute and nothing locks it.  From     *)
(* another machine scripts/jumpto-cookie-auto.sh copies an export of its   *)
(* own into cookies.txt (scripts/redeploy_cookies.sh).                     *)
(*                                                                         *)
(* Cookies are known by the browser session they were exported from.       *)
(* Files are inodes: "mv" gives a name another inode, "cp" writes the one  *)
(* it has, and the worker's container, which bind-mounts the single file   *)
(* cookies.txt (docker-compose.yml), keeps the inode the name had when it  *)
(* started.                                                                *)
(***************************************************************************)
EXTENDS Integers

CONSTANTS
    Cron,           \* runs of the script that may overlap
    Deploy,         \* deploys that may overlap
    MaxRotations,   \* bound: times YouTube invalidates the session's cookies
    Inodes          \* bound: 0 .. Inodes are the inodes the file system reuses

ASSUME CookieAssumption ==
    /\ Cron \cap Deploy = {}
    /\ MaxRotations \in Nat
    /\ Inodes \in Nat \ {0}

VARIABLES
    session,    \* the session whose cookies YouTube accepts
    content,    \* [inode -> the session its cookies are from]
    fresh,      \* the inode of fresh-cookies.txt, None if there is no such file
    cookies,    \* the inode of cookies.txt on the host
    marker,     \* whether the refresh marker exists
    at,         \* where each run of the script, and each deploy, is
    took,       \* the session each run of the script has exported and not yet written
    fd,         \* the inode each of them has open for writing, or None
    crossed     \* observed: whether the runs now going on have met another writer

host  == <<fresh, cookies>>
files == <<content, fd>>
vars  == <<session, files, host, marker, at, took, crossed>>

Torn == -1      \* content: a file truncated and not yet written
Mixed == -2     \* content: what two writers have left of it
None == -1      \* no inode

Session == 0 .. MaxRotations
Inode == 0 .. Inodes
Process == Cron \cup Deploy

TypeOK ==
    /\ session \in Session
    /\ content \in [Inode -> Session \cup {Torn, Mixed}]
    /\ fresh \in Inode \cup {None}
    /\ cookies \in Inode
    /\ marker \in BOOLEAN
    /\ at \in [Process -> {"idle", "fetch", "open", "write", "check", "move", "clear"}]
    /\ took \in [Cron -> Session]
    /\ fd \in [Process -> Inode \cup {None}]
    /\ crossed \in BOOLEAN

Init ==
    /\ session = 0
    /\ content = [i \in Inode |-> 0]
    /\ fresh = None
    /\ cookies = 0
    /\ marker = FALSE
    /\ at = [p \in Process |-> "idle"]
    /\ took = [c \in Cron |-> 0]
    /\ fd = [p \in Process |-> None]
    /\ crossed = FALSE

-----------------------------------------------------------------------------
(* The worker. *)

\* request_cookie_refresh creates the marker, if it has seen none before: that
\* is any step which raises it.  A bot check may come with any cookies, and need
\* not come with outdated ones: a run with those may end by another error, which
\* asks for nothing, and an OSError leaves no marker either.
Touch ==
    /\ ~marker
    /\ marker' = TRUE
    /\ UNCHANGED <<session, files, host, at, took, crossed>>

-----------------------------------------------------------------------------
(* Files and their writers. *)

Goto(p, place) == at' = [at EXCEPT ![p] = place]

Writing(i) == {p \in Process : fd[p] = i}

InUse == {cookies, fresh} \cup {fd[p] : p \in Process}

\* The file is emptied under whoever else is writing it.
Truncate(p, i) ==
    /\ content' = [content EXCEPT ![i] = IF Writing(i) = {} THEN Torn ELSE Mixed]
    /\ fd' = [fd EXCEPT ![p] = i]

\* What is written to a file that is not empty may be mixed with what is there.
Put(p, v) ==
    /\ fd' = [fd EXCEPT ![p] = None]
    /\ \E x \in {v} \cup (IF content[fd[p]] = Torn THEN {} ELSE {Mixed}) :
          content' = [content EXCEPT ![fd[p]] = x]

\* A writer that fails leaves the file as it is.
Drop(p) ==
    /\ fd' = [fd EXCEPT ![p] = None]
    /\ UNCHANGED content

Running == {c \in Cron : at[c] # "idle"}
Copying == {d \in Deploy : at[d] = "write"}

-----------------------------------------------------------------------------
(* cookies-refresh.sh. *)

Begin(c) ==
    /\ at[c] = "idle"
    /\ Goto(c, "fetch")
    /\ crossed' = (crossed \/ Running \cup Copying # {})
    /\ UNCHANGED <<session, files, host, marker, took>>

\* The marker gate, ...
Wake(c) == marker /\ Begin(c)

\* ... which --force passes by.
Forced(c) == Begin(c)

Exit(c) ==
    /\ Goto(c, "idle")
    /\ crossed' = (crossed /\ Running # {c})
    /\ took' = [took EXCEPT ![c] = 0]

\* The exporter reads the browser's cookies ...
Fetch(c) ==
    /\ at[c] = "fetch"
    /\ took' = [took EXCEPT ![c] = session]
    /\ Goto(c, "open")
    /\ UNCHANGED <<session, files, host, marker, crossed>>

\* ... or fails, perhaps in the middle of writing, and the script exits with
\* the marker in place.
ExportFails(c) ==
    /\ at[c] \in {"open", "write"}
    /\ Exit(c)
    /\ UNCHANGED <<session, host, marker>>
    /\ Drop(c)

\* Faulty variant: the export goes straight onto cookies.txt.
OpenInPlace(c) ==
    /\ at[c] = "open"
    /\ Truncate(c, cookies)
    /\ fresh' = cookies
    /\ Goto(c, "write")
    /\ UNCHANGED <<session, cookies, marker, took, crossed>>

\* write_text truncates fresh-cookies.txt, or creates it ...
Open(c) ==
    /\ at[c] = "open"
    /\ \E i \in IF fresh # None THEN {fresh} ELSE Inode \ InUse :
          /\ fresh' = i
          /\ Truncate(c, i)
    /\ Goto(c, "write")
    /\ UNCHANGED <<session, cookies, marker, took, crossed>>

\* ... and writes it.
Write(c) ==
    /\ at[c] = "write"
    /\ Goto(c, "check")
    /\ took' = [took EXCEPT ![c] = 0]
    /\ UNCHANGED <<session, host, marker, crossed>>
    /\ Put(c, took[c])

\* [ ! -s fresh-cookies.txt ]: a file somebody is writing may or may not be
\* empty, ...
Check(c) ==
    /\ at[c] = "check"
    /\ fresh # None
    /\ Goto(c, "move")
    /\ UNCHANGED <<session, files, host, marker, took, crossed>>

\* ... and one that another run has moved is not there.
CheckFails(c) ==
    /\ at[c] = "check"
    /\ fresh # None => content[fresh] \in {Torn, Mixed}
    /\ Exit(c)
    /\ UNCHANGED <<session, files, host, marker>>

\* Faulty variant: a file that is there is not overwritten (mv -n).
MoveNoClobber(c) ==
    /\ at[c] = "move"
    /\ Goto(c, "clear")
    /\ UNCHANGED <<session, files, host, marker, took, crossed>>

\* Faulty variant: cookies.txt is removed first.
MoveRemoved(c) ==
    /\ at[c] = "move"
    /\ cookies' = fresh /\ fresh' = None
    /\ Goto(c, "clear")
    /\ UNCHANGED <<session, files, marker, took, crossed>>

\* mv: a rename.  It fails when another run has moved the file, and the script
\* goes on all the same (set -u, no set -e).
Move(c) ==
    /\ at[c] = "move"
    /\ IF fresh # None THEN cookies' = fresh /\ fresh' = None
                       ELSE UNCHANGED host
    /\ Goto(c, "clear")
    /\ UNCHANGED <<session, files, marker, took, crossed>>

\* rm -f the marker, though it may have been raised since the export.
Clear(c) ==
    /\ at[c] = "clear"
    /\ marker' = FALSE
    /\ Exit(c)
    /\ UNCHANGED <<session, files, host>>

-----------------------------------------------------------------------------
(* redeploy_cookies.sh. *)

\* cp truncates the file cookies.txt names ...
DeployOpen(d) ==
    /\ at[d] = "idle"
    /\ Truncate(d, cookies)
    /\ crossed' = (crossed \/ Running # {})
    /\ Goto(d, "write")
    /\ UNCHANGED <<session, host, marker, took>>

\* ... and writes what has been uploaded: an export of any age, or, as deploys
\* share one path for it, of two of them.
DeployWrite(d) ==
    /\ at[d] = "write"
    /\ Goto(d, "idle")
    /\ UNCHANGED <<session, host, marker, took, crossed>>
    /\ \E v \in 0 .. session \cup (IF Deploy = {d} THEN {} ELSE {Mixed}) : Put(d, v)

\* It may fail in the middle.
DeployFails(d) ==
    /\ at[d] = "write"
    /\ Goto(d, "idle")
    /\ UNCHANGED <<session, host, marker, took, crossed>>
    /\ Drop(d)

\* YouTube rotates the session: the browser holds the new cookies, every
\* exported file the old ones.
Rotate ==
    /\ session < MaxRotations
    /\ session' = session + 1
    /\ UNCHANGED <<files, host, marker, at, took, crossed>>

Script(c) ==
    \/ Wake(c)
    \/ Fetch(c)
    \/ Open(c)
    \/ Write(c)
    \/ Check(c)
    \/ CheckFails(c)
    \/ Move(c)
    \/ Clear(c)

Next ==
    \/ Touch
    \/ \E c \in Cron : Script(c) \/ Forced(c) \/ ExportFails(c)
    \/ \E d \in Deploy : DeployOpen(d) \/ DeployWrite(d) \/ DeployFails(d)
    \/ Rotate

Spec == Init /\ [][Next]_vars

\* Cron keeps running the script, and an export that is tried again and again
\* succeeds again and again.  Of the worker and the deploys nothing is assumed.
Fairness ==
    \A c \in Cron : /\ WF_vars(Script(c))
                    /\ SF_vars(Open(c))
                    /\ SF_vars(Write(c))

FairSpec == Spec /\ Fairness

-----------------------------------------------------------------------------
(* Properties. *)

\* No run of the script has been overlapped by another writer, and no deploy
\* has cookies.txt open.
Undisturbed == ~crossed /\ Copying = {}

\* "Atomic replace", as far as it goes.  But for deploys, which write in place,
\* and for runs of the script that overlap, cookies.txt changes only to a whole
\* export of a later session, whatever earlier overlaps, failed exports and
\* failed deploys have left behind; and the inode a reader has, by that name or
\* by an earlier mount of it, is never written.
ReplacedWhole ==
    [][ Undisturbed /\ Undisturbed' =>
          /\ content'[cookies'] # content[cookies] =>
                /\ content'[cookies'] \in Session
                /\ content[cookies] \in Session => content'[cookies'] > content[cookies]
          /\ \A i \in Inode : content'[i] # content[i] => i = fresh' ]_vars

Current == content[cookies] = session

\* Nothing that overlapping runs, failed exports, deploys and lost requests do
\* to cookies.txt lasts: once the overlaps cease, and if the worker goes on
\* asking for cookies as long as the file is not current, it becomes current
\* and stays so.
Recovers == <>[]Undisturbed /\ []<>(Current \/ marker) => <>[]Current

=============================================================================
