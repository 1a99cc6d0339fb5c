---------------------------- MODULE CookieCopies ----------------------------
(***************************************************************************)
(* The writable copies of the cookie file in one worker process            *)
(* (integrations/ytdlp.py).  Every yt-dlp run asks for a copy, may share   *)
(* the cached one, and releases it when it is over.  The runs of a process *)
(* overlap: a thread that outlived its task goes on beside the next one,   *)
(* and nothing locks the cache or a copy.  yt-dlp, which is external,      *)
(* reads the copy when a run opens, if it is there, and when it closes     *)
(* empties it and writes it back.                                          *)
(*                                                                         *)
(* Of the cookie file nothing is assumed but that every change gives it    *)
(* another mtime or size.  Its states are numbered as they come: a later   *)
(* one may be half written, or of an older export (CookieRefresh).         *)
(***************************************************************************)
EXTENDS Naturals

CONSTANTS
    Version,    \* the states the cookie file goes through
    Thread,     \* threads that run yt-dlp
    Copy,       \* bound: names of copies, reused when nobody knows them
    None,       \* no copy, no key
    Blank,      \* in place of cookies: what yt-dlp writes when it has none
    Torn,       \* a file emptied or in part written, and a jar read from one
    Undecoded   \* a copy given up at bytes that are no UTF-8

ASSUME CopiesAssumption ==
    /\ Version \subseteq Nat /\ 0 \in Version
    /\ None \notin Copy \cup Version \cup {Blank, Torn, Undecoded}
    /\ Blank \notin Version \cup {Torn, Undecoded}
    /\ Torn \notin Version \cup {Undecoded}
    /\ Undecoded \notin Version

VARIABLES
    version,    \* the state of the cookie file
    cache,      \* _cookie_copy_cache: [version -> copy]; the path is one
    registry,   \* _temp_cookie_copies
    disk,       \* [copy -> the cookies in it], None when there is no such file
    at,         \* [thread -> where its run is]
    key,        \* [thread -> the identity the file had when it asked]
    held,       \* [thread -> the copy in its options]
    loaded,     \* [thread -> the cookies its run has loaded]
    sure,       \* observed: threads whose run nothing has disturbed; see Stat
    raced,      \* observed: whether two copies have ever been made at once
    spoilt      \* observed: copies in which a run has met another one's save

copies == <<cache, registry, disk, spoilt>>
threads == <<at, key, held, loaded, sure, raced>>

Making == {"look", "evict", "copy", "register"}
Using == {"load", "open", "save", "lost"}

CopiesTypeOK ==
    /\ version \in Version
    /\ cache \in [Version -> Copy \cup {None}]
    /\ registry \subseteq Copy
    /\ disk \in [Copy -> Version \cup {Blank, None, Torn, Undecoded}]
    /\ at \in [Thread -> Making \cup Using \cup {"idle", "made", "closed", "failed"}]
    /\ key \in [Thread -> Version \cup {None}]
    /\ held \in [Thread -> Copy \cup {None}]
    /\ loaded \in [Thread -> Version \cup {Blank, None, Torn}]
    /\ sure \subseteq Thread
    /\ raced \in BOOLEAN
    /\ spoilt \in SUBSET Copy

CopiesInit ==
    /\ version = 0
    /\ cache = [v \in Version |-> None]
    /\ registry = {}
    /\ disk = [c \in Copy |-> None]
    /\ at = [t \in Thread |-> "idle"]
    /\ key = [t \in Thread |-> None]
    /\ held = [t \in Thread |-> None]
    /\ loaded = [t \in Thread |-> None]
    /\ sure = {}
    /\ raced = FALSE
    /\ spoilt = {}

Goto(t, place) == at' = [at EXCEPT ![t] = place]

Cached == {cache[v] : v \in Version} \ {None}

-----------------------------------------------------------------------------
(* build_ydlp_options *)

\* The file's identity, or none when it cannot be read.  The run counts as
\* undisturbed until a thread asks while another is making a copy, the file
\* changes, or cannot be read.
Stat(t) ==
    /\ at[t] = "idle"
    /\ \E k \in {version, None} :
          /\ key' = [key EXCEPT ![t] = k]
          /\ LET making == {u \in Thread \ {t} : at[u] \in Making} IN
             /\ raced' = (raced \/ making # {})
             /\ sure' = IF k = None THEN {}
                        ELSE IF making = {} THEN sure \cup {t}
                        ELSE sure \ (making \cup {t})
    /\ Goto(t, "look")
    /\ UNCHANGED <<version, copies, held, loaded>>

\* The copy cached under it, if it is still there.
Look(t) ==
    /\ at[t] = "look"
    /\ LET c == IF key[t] = None THEN None ELSE cache[key[t]] IN
       IF c # None /\ disk[c] # None
       THEN held' = [held EXCEPT ![t] = c] /\ Goto(t, "made")
       ELSE UNCHANGED held /\ Goto(t, "evict")
    /\ UNCHANGED <<version, copies, key, loaded, sure, raced>>

\* Removes copies.  Of a run that is just saving one, only the file it writes
\* loses its name.
Unlink(gone) ==
    /\ disk' = [c \in Copy |-> IF c \in gone THEN None ELSE disk[c]]
    /\ registry' = registry \ gone

Stray(gone) == {t \in Thread : at[t] = "save" /\ held[t] \in gone}

MoveOn(t, place, gone) ==
    at' = [u \in Thread |-> IF u = t THEN place
                            ELSE IF u \in Stray(gone) THEN "lost" ELSE at[u]]

\* _evict_cookie_copy: every copy of the file, whoever uses it.
Evict(t) ==
    /\ at[t] = "evict"
    /\ cache' = [v \in Version |-> None]
    /\ Unlink(Cached)
    /\ MoveOn(t, "copy", Cached)
    /\ UNCHANGED <<version, key, held, loaded, sure, raced, spoilt>>

Unused == {c \in Copy \ (Cached \cup {held[u] : u \in Thread}) : disk[c] = None}

\* mkstemp and _sanitize_cookie_lines: what the file holds now or, if it has
\* changed since, perhaps a part, ...
MakeCopy(t) ==
    /\ at[t] = "copy"
    /\ \E c \in Unused : \E v \in {version} \cup (IF key[t] = version THEN {} ELSE {Torn}) :
          /\ disk' = [disk EXCEPT ![c] = v]
          /\ held' = [held EXCEPT ![t] = c]
          /\ spoilt' = spoilt \ {c}
    /\ Goto(t, "register")
    /\ UNCHANGED <<version, cache, registry, key, loaded, sure, raced>>

\* ... or an OSError, which leaves no copy and reaches the caller, ...
MakeFails(t) ==
    /\ at[t] = "copy"
    /\ Goto(t, "failed")
    /\ UNCHANGED <<version, copies, key, held, loaded, sure, raced>>

\* ... or a UnicodeDecodeError, which the except clause does not name: it
\* reaches the caller too, and leaves a file nobody knows.
MakeUndecoded(t) ==
    /\ at[t] = "copy"
    /\ \E c \in Unused : disk' = [disk EXCEPT ![c] = Undecoded]
    /\ Goto(t, "failed")
    /\ UNCHANGED <<version, cache, registry, spoilt, key, held, loaded, sure, raced>>

\* Faulty variant: the copy is cached under the identity the file has by now.
RegisterNow(t) ==
    /\ at[t] = "register"
    /\ cache' = IF key[t] = None THEN cache ELSE [cache EXCEPT ![version] = held[t]]
    /\ registry' = registry \cup {held[t]}
    /\ Goto(t, "made")
    /\ UNCHANGED <<version, disk, spoilt, key, held, loaded, sure, raced>>

Register(t) ==
    /\ at[t] = "register"
    /\ cache' = IF key[t] = None THEN cache ELSE [cache EXCEPT ![key[t]] = held[t]]
    /\ registry' = registry \cup {held[t]}
    /\ Goto(t, "made")
    /\ UNCHANGED <<version, disk, spoilt, key, held, loaded, sure, raced>>

-----------------------------------------------------------------------------
(* The run. *)

\* Others have the copy open, in one of these phases, and the run meets them.
Meet(t, phases) ==
    spoilt' = spoilt \cup (IF \E u \in Thread \ {t} : at[u] \in phases /\ held[u] = held[t]
                           THEN {held[t]} ELSE {})

\* YoutubeDL opens its cookies, if the file is there, ...
Load(t) ==
    /\ at[t] = "made"
    /\ loaded' = [loaded EXCEPT ![t] = disk[held[t]]]
    /\ Meet(t, {"save"})
    /\ Goto(t, "load")
    /\ UNCHANGED <<version, cache, registry, disk, key, held, sure, raced>>

\* ... and has read them, or a part if another run saves its own meanwhile.
Open(t) ==
    /\ at[t] = "load"
    /\ \E v \in {loaded[t]} \cup (IF held[t] \in spoilt THEN {Torn} ELSE {}) :
          loaded' = [loaded EXCEPT ![t] = v]
    /\ Goto(t, "open")
    /\ UNCHANGED <<version, copies, key, held, sure, raced>>

\* It saves them: it empties the file, and so creates it when an eviction has
\* removed it, ...
Empty(t) ==
    /\ at[t] = "open"
    /\ disk' = [disk EXCEPT ![held[t]] = Torn]
    /\ Meet(t, {"load", "save"})
    /\ Goto(t, "save")
    /\ UNCHANGED <<version, cache, registry, key, held, loaded, sure, raced>>

\* ... and writes it, which mixes with what another run has written meanwhile,
\* or goes to a file without a name.
Close(t) ==
    /\ \/ /\ at[t] = "save"
          /\ LET own == IF loaded[t] = None THEN Blank ELSE loaded[t] IN
             \E v \in {own} \cup (IF held[t] \in spoilt THEN {Torn} ELSE {}) :
                disk' = [disk EXCEPT ![held[t]] = v]
       \/ at[t] = "lost" /\ UNCHANGED disk
    /\ Goto(t, "closed")
    /\ UNCHANGED <<version, cache, registry, spoilt, key, held, loaded, sure, raced>>

\* Another attempt with the same options (providers/media.py).
Reopen(t) ==
    /\ at[t] = "closed"
    /\ Goto(t, "made")
    /\ UNCHANGED <<version, copies, key, held, loaded, sure, raced>>

Over(t) ==
    /\ key' = [key EXCEPT ![t] = None]
    /\ held' = [held EXCEPT ![t] = None]
    /\ loaded' = [loaded EXCEPT ![t] = None]
    /\ sure' = sure \ {t}
    /\ UNCHANGED <<version, cache, raced, spoilt>>

\* Faulty variant: a copy that is not registered any more is taken for gone.
ReleaseRegistered(t) ==
    /\ at[t] = "closed"
    /\ LET gone == ({held[t]} \cap registry) \ Cached IN
       Unlink(gone) /\ MoveOn(t, "idle", gone)
    /\ Over(t)

\* release_temp_cookie, in a finally clause: the cached copy is kept.
Release(t) ==
    /\ at[t] = "closed"
    /\ LET gone == {held[t]} \ Cached IN
       Unlink(gone) /\ MoveOn(t, "idle", gone)
    /\ Over(t)

\* The error of the copy ends the run before it begins.
Fail(t) ==
    /\ at[t] = "failed"
    /\ Goto(t, "idle")
    /\ Over(t)
    /\ UNCHANGED <<registry, disk>>

\* Whatever the host does to the file.
Replace ==
    /\ \E v \in Version : v > version /\ version' = v
    /\ sure' = {}
    /\ UNCHANGED <<copies, at, key, held, loaded, raced>>

\* The steps that make a copy ready ...
Prepare(t) ==
    \/ Look(t)
    \/ Evict(t)
    \/ MakeCopy(t)
    \/ MakeFails(t)
    \/ MakeUndecoded(t)
    \/ Register(t)

\* ... and the whole of a run.
Run(t) ==
    \/ Stat(t)
    \/ Prepare(t)
    \/ Load(t)
    \/ Open(t)
    \/ Empty(t)
    \/ Close(t)
    \/ Reopen(t)
    \/ Release(t)
    \/ Fail(t)

-----------------------------------------------------------------------------
(* Properties. *)

\* A copy on disk belongs to a run that will release it, or is registered for
\* the end of the process and, unless two copies have been made at once, still
\* cached: an evicted copy that yt-dlp has written again does not stay behind.
\* (Of two copies cached under one identity the first is forgotten, and one
\* its run has already left stays until the process ends.)  But for a copy of a
\* file that is no UTF-8: nobody ever removes that one.
CopiesReclaimed ==
    \A c \in Copy : disk[c] \notin {None, Undecoded} =>
        \/ \E t \in Thread : held[t] = c
        \/ c \in registry /\ (raced \/ c \in Cached)

\* A run's cookies are never of a state the file had left before the run asked,
\* whatever happens to the file between the stat and the copy, and whoever saves
\* a copy late.  And it does have all the cookies of such a state unless another
\* run was making a copy at the time, or the file changed or could not be read
\* since, when the copy may be evicted under it; or its copy is one that a run
\* has met while another one was saving it, which lasts as long as the copy.
CurrentCookies ==
    \A t \in Thread : at[t] = "open" =>
        /\ loaded[t] \in Version /\ key[t] # None => loaded[t] >= key[t]
        /\ t \in sure /\ held[t] \notin spoilt => loaded[t] \in Version

=============================================================================
