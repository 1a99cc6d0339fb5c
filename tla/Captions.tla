------------------------------ MODULE Captions ------------------------------
(***************************************************************************)
(* The caption fast path in its thread: the metadata of the video          *)
(* (providers/media.py), the choice of the caption tracks, their           *)
(* downloads one after another (providers/transcript.py), and the words    *)
(* of the one that is found.  Each download is a run of CookieCopies with  *)
(* a temporary directory, beside whatever other yt-dlp run the worker      *)
(* process still has.                                                      *)
(***************************************************************************)
EXTENDS CookieCopies, TranscriptWords

CONSTANTS
    Fetcher,            \* the thread of the fast path
    ManualTracks, AutoTracks,  \* bounds: the tracks a video may have
    MetadataAttempts    \* _METADATA_RETRY_ATTEMPTS

Language == {"en", "ar"}
Track == [base : Language, form : {"orig", "plain", "region"}]

ASSUME CaptionsAssumption ==
    /\ Fetcher \in Thread
    /\ ManualTracks \subseteq Track /\ AutoTracks \subseteq Track
    /\ MetadataAttempts \in Nat \ {0}

VARIABLES
    stage,      \* what the fast path does
    attempt,    \* metadata attempts made
    outcome,    \* of the run that has closed
    info,       \* the metadata
    targets,    \* the tracks left to download
    temp,       \* whether its temporary directory exists
    caption,    \* what the file shows, and how
    words       \* of the submission

fetch == <<stage, attempt, outcome, info, targets, temp, caption, words>>
vars == <<version, copies, threads, fetch>>

Info == [manual : SUBSET ManualTracks, auto : SUBSET AutoTracks,
         original : Language \cup {""}, language : Language \cup {""}]
NoInfo == [manual |-> {}, auto |-> {}, original |-> "", language |-> ""]
NoCaption == [lines |-> <<>>, rolling |-> FALSE]

CaptionTypeOK ==
    /\ CopiesTypeOK
    /\ stage \in {"media", "pick", "next", "run", "read", "submitted", "missed", "raised"}
    /\ attempt \in 0 .. MetadataAttempts
    /\ outcome \in {"none", "found", "nothing", "error"}
    /\ info \in Info
    /\ targets \in {<<>>} \cup {<<t>> : t \in Track} \cup (Track \X Track)
    /\ temp \in BOOLEAN
    /\ caption = NoCaption \/ (caption.lines \in Spoken /\ caption.rolling \in BOOLEAN)
    /\ \A i \in DOMAIN words : words[i].word \in Word

CaptionInit ==
    /\ CopiesInit
    /\ stage = "media"
    /\ attempt = 0
    /\ outcome = "none"
    /\ info = NoInfo
    /\ targets = <<>>
    /\ temp = FALSE
    /\ caption = NoCaption
    /\ words = <<>>

-----------------------------------------------------------------------------
(* The choice of the tracks. *)

Of(language, tracks) == {t \in tracks : t.base = language}

\* Faulty variant: only manual tracks are looked through for the hint.
PrimaryManual(i) ==
    IF i.original # "" THEN i.original
    ELSE IF Of(i.language, i.manual) # {} THEN i.language
    ELSE ""

\* The language the tracks are restricted to: the original one, though it may
\* have no track; else the hint, if it has one; else none.
Primary(i) ==
    IF i.original # "" THEN i.original
    ELSE IF Of(i.language, i.manual \cup i.auto) # {} THEN i.language
    ELSE ""

Restricted(i, tracks) == IF Primary(i) = "" THEN tracks ELSE Of(Primary(i), tracks)

\* _best_track: a manual track, then the form.  (The first field of the code's
\* rank is the same for all, once the tracks are restricted; its last one, the
\* name, is any order here.)
Rank(t, manual) ==
    (IF t \in manual THEN 0 ELSE 3)
    + (CASE t.form = "orig" -> 0 [] t.form = "plain" -> 1 [] OTHER -> 2)

BestTracks(manual, auto) ==
    {t \in manual \cup auto : \A u \in manual \cup auto : Rank(t, manual) <= Rank(u, manual)}

\* The best track, and the plain one of its language.
CaptionTargets(i) ==
    LET manual == Restricted(i, i.manual)
        auto == Restricted(i, i.auto)
        plain(t) == [t EXCEPT !.form = "plain"]
        rest(t) == IF t # plain(t) /\ plain(t) \in manual \cup auto
                   THEN <<plain(t)>> ELSE <<>> IN
    IF manual \cup auto = {} THEN {<<>>}
    ELSE {<<t>> \o rest(t) : t \in BestTracks(manual, auto)}

-----------------------------------------------------------------------------
(* The metadata: one copy of the cookies for up to MetadataAttempts attempts. *)

BeginMedia ==
    /\ stage = "media" /\ outcome = "none"
    /\ Stat(Fetcher)
    /\ UNCHANGED fetch

CloseMedia ==
    /\ stage = "media"
    /\ Close(Fetcher)
    /\ attempt' = attempt + 1
    /\ outcome' \in {"found", "nothing", "error"}
    /\ UNCHANGED <<stage, info, targets, temp, caption, words>>

\* Faulty variant: one attempt too many.
RetryMediaOffByOne ==
    /\ stage = "media" /\ outcome = "nothing"
    /\ attempt <= MetadataAttempts
    /\ Reopen(Fetcher)
    /\ outcome' = "none"
    /\ UNCHANGED <<stage, attempt, info, targets, temp, caption, words>>

\* A DownloadError other than a bot check is tried again.
RetryMedia ==
    /\ stage = "media" /\ outcome = "nothing"
    /\ attempt < MetadataAttempts
    /\ Reopen(Fetcher)
    /\ outcome' = "none"
    /\ UNCHANGED <<stage, attempt, info, targets, temp, caption, words>>

EndMedia ==
    /\ stage = "media"
    /\ outcome = "nothing" => attempt = MetadataAttempts
    /\ Release(Fetcher)
    /\ attempt' = 0
    /\ outcome' = "none"
    /\ IF outcome = "found"
       THEN stage' = "pick" /\ info' \in Info
       ELSE stage' = "raised" /\ UNCHANGED info
    /\ UNCHANGED <<targets, temp, caption, words>>

-----------------------------------------------------------------------------
(* The download. *)

Pick ==
    /\ stage = "pick"
    /\ targets' \in CaptionTargets(info)
    /\ stage' = IF targets' = <<>> THEN "missed" ELSE "next"
    /\ info' = NoInfo
    /\ UNCHANGED <<version, copies, threads, attempt, outcome, temp, caption, words>>

\* mkdtemp, and build_ydlp_options.
BeginTarget ==
    /\ stage = "next"
    /\ Stat(Fetcher)
    /\ temp' = TRUE
    /\ stage' = "run"
    /\ UNCHANGED <<attempt, outcome, info, targets, caption, words>>

Ready ==
    /\ Prepare(Fetcher) \/ Load(Fetcher) \/ Open(Fetcher) \/ Empty(Fetcher)
    /\ UNCHANGED fetch

\* An error of the copy is raised outside of the try statement: the temporary
\* directory stays.
CopyRaises ==
    /\ Fail(Fetcher)
    /\ stage' = "raised"
    /\ UNCHANGED <<attempt, outcome, info, targets, temp, caption, words>>

\* A file, none, or a DownloadError.
CloseTarget ==
    /\ stage = "run"
    /\ Close(Fetcher)
    /\ outcome' \in {"found", "nothing", "error"}
    /\ UNCHANGED <<stage, attempt, info, targets, temp, caption, words>>

\* The finally clause: the text of a file has been read; without one the next
\* target has its turn; an error ends the fast path.
EndTarget ==
    /\ stage = "run"
    /\ Release(Fetcher)
    /\ temp' = FALSE
    /\ outcome' = IF outcome = "error" THEN "error" ELSE "none"
    /\ targets' = Tail(targets)
    /\ stage' = CASE outcome = "error" -> "raised"
                  [] outcome = "found" -> "read"
                  [] OTHER -> IF targets' = <<>> THEN "missed" ELSE "next"
    /\ UNCHANGED <<attempt, info, caption, words>>

\* _parse_vtt and, once the transcript is submitted, build_submission.
Submit ==
    /\ stage = "read"
    /\ \E lines \in Spoken, rolling \in BOOLEAN :
          /\ caption' = [lines |-> lines, rolling |-> rolling]
          /\ words' = BuildSubmission(ParseVtt(
                          IF rolling THEN RollingCues(lines) ELSE ManualCues(lines)))
    /\ stage' = "submitted"
    /\ targets' = <<>>
    /\ UNCHANGED <<version, copies, threads, attempt, outcome, info, temp>>

\* The other runs of the process.
Other(t) ==
    /\ Run(t)
    /\ UNCHANGED fetch

CaptionNext ==
    \/ BeginMedia
    \/ CloseMedia
    \/ RetryMedia
    \/ EndMedia
    \/ Pick
    \/ BeginTarget
    \/ Ready
    \/ CopyRaises
    \/ CloseTarget
    \/ EndTarget
    \/ Submit
    \/ \E t \in Thread \ {Fetcher} : Other(t)
    \/ Replace /\ UNCHANGED fetch

CaptionSpec == CaptionInit /\ [][CaptionNext]_vars

-----------------------------------------------------------------------------
(* Properties. *)

\* Nothing of a run is left on disk when it is over, but for the temporary
\* directory of a caption download whose copy of the cookies failed.
FilesReclaimed ==
    /\ CopiesReclaimed
    /\ temp => stage \in {"run", "raised"}
    /\ temp /\ stage = "raised" => outcome # "error"

\* The tracks the documentation of _caption_targets allows: the original
\* language alone, when it is known; else the reported one, when it has a
\* track.
Allowed(i) ==
    {t \in i.manual \cup i.auto :
        IF i.original # "" THEN t.base = i.original
        ELSE \/ t.base = i.language
             \/ \A u \in i.manual \cup i.auto : u.base # i.language}

Beats(i, t, u) ==
    \/ t \in i.manual /\ u \notin i.manual
    \/ t.base = u.base /\ t.form = "orig" /\ u.form = "plain"
       /\ (u \in i.manual => t \in i.manual)

\* "Translated subtitles must never pollute the search index": only allowed
\* tracks are downloaded, one whenever there is one, and first the track that
\* no other beats.
OriginalLanguage ==
    [][ stage = "pick" /\ stage' # "pick" =>
          /\ targets' = <<>> <=> Allowed(info) = {}
          /\ \A k \in DOMAIN targets' : targets'[k] \in Allowed(info)
          /\ targets' # <<>> => \A t \in Allowed(info) : ~Beats(info, t, targets'[1]) ]_vars

\* The words a file gives.  Human captions give every word; YouTube's own, all
\* but the first of each line, which never has a time stamp: of a line of one
\* word they give nothing.
Given(lines, rolling) ==
    LET untimed == IF rolling THEN {1} ELSE {} IN
    UNION {{lines[l][p] : p \in DOMAIN lines[l] \ untimed} : l \in DOMAIN lines}

\* However a file repeats its lines, what is submitted are the words it gives,
\* neither more nor less, but for those that normalisation empties: each of
\* them once, in the order spoken, and over when the next begins.  That the
\* others are lost is what the code does.  (Nothing is said of rolling captions
\* none of whose lines has a second word: those submit each line twice.)
WordsOnce ==
    LET lines == caption.lines IN
    stage = "submitted" /\ (caption.rolling => \E k \in DOMAIN lines : Len(lines[k]) > 1) =>
        /\ \A k \in 1 .. Len(words) - 1 :
              /\ words[k].word.n < words[k + 1].word.n
              /\ words[k].start <= words[k].end /\ words[k].end <= words[k + 1].start
        /\ {words[k].word : k \in DOMAIN words} =
              {w \in Given(lines, caption.rolling) : w.kind = "word"}

=============================================================================
