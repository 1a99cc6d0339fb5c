--------------------------- MODULE CaptionsProofs ---------------------------
(***************************************************************************)
(* Proofs about Captions and the CookieCopies beneath it: any number of    *)
(* yt-dlp runs in one process, whatever becomes of the cookie file, and    *)
(* any tracks a video may have and any words it says.                      *)
(***************************************************************************)
EXTENDS Captions, FiniteSetTheorems, SequenceTheorems, TLAPS

\* A step of the copies: some run's, a change of the file, or none.
CopiesNext ==
    \/ \E t \in Thread : Run(t)
    \/ Replace
    \/ UNCHANGED <<version, copies, threads>>

-----------------------------------------------------------------------------
(* The invariant of the copies. *)

\* A run has a copy once one was made for it or found, and cookies only after
\* it has opened that; the identity it asked for is no newer than the file.
RunInv(t) ==
    /\ held[t] # None <=> at[t] \in {"register", "made", "closed"} \cup Using
    /\ at[t] \in Making \cup {"idle"} => loaded[t] = None
    /\ key[t] # None => key[t] <= version

\* Nobody has, or will find, a copy that was given up.
DecodedInv ==
    /\ \A t \in Thread : held[t] # None => disk[held[t]] # Undecoded
    /\ \A v \in Version : cache[v] # None => disk[cache[v]] # Undecoded

\* Nothing in the copy, or in the hands of a run that may write it back there,
\* is older than v.
NoOlder(c, v) ==
    /\ disk[c] \in Version => disk[c] >= v
    /\ \A t \in Thread : held[t] = c /\ loaded[t] \in Version => loaded[t] >= v

FloorInv ==
    /\ \A t \in Thread : held[t] # None /\ key[t] # None => NoOlder(held[t], key[t])
    /\ \A v \in Version : cache[v] # None => v <= version /\ NoOlder(cache[v], v)

\* A copy that was just made is its maker's alone, and whole if the file has
\* not changed since the maker asked.
FreshInv ==
    \A t \in Thread : at[t] = "register" =>
        /\ held[t] \notin Cached
        /\ disk[held[t]] # None
        /\ key[t] = version => disk[held[t]] \in Version
        /\ \A u \in Thread \ {t} : held[u] # held[t]

\* A cached copy is registered and exists, and every run that may write it has
\* found it there: what an eviction lets yt-dlp write is never cached again.
CachedInv ==
    \A c \in Cached :
        /\ c \in registry
        /\ disk[c] # None
        /\ \A t \in Thread : held[t] = c /\ at[t] \in Using \cup {"closed"} => loaded[t] # None

\* The copy cached for the file as it is, while no run has met another one's
\* save in it: it is whole unless a run is just saving it, and so is all that
\* its runs have loaded from it and will write there.
WholeCopy(c) ==
    /\ disk[c] \in Version \/ \E t \in Thread : at[t] = "save" /\ held[t] = c
    /\ \A t \in Thread : held[t] = c /\ at[t] \in Using \cup {"closed"} => loaded[t] \in Version

WholeInv ==
    cache[version] # None /\ cache[version] \notin spoilt => WholeCopy(cache[version])

\* An undisturbed run makes its copy alone, and then has the one that is cached
\* for the file as it is; nobody else makes another.
SureInv ==
    \A t \in sure :
        /\ key[t] = version
        /\ at[t] \in Making => \A u \in Thread \ {t} : at[u] \notin Making
        /\ at[t] \in {"made", "closed"} \cup Using =>
               /\ held[t] = cache[version]
               /\ \A u \in Thread : at[u] \notin {"evict", "copy", "register"}
               /\ \A u \in Thread : at[u] = "look" => key[u] = version

\* Without a race one run at a time makes a copy, after the eviction of all.
AloneInv ==
    ~raced =>
        /\ \A t, u \in Thread : at[t] \in Making /\ at[u] \in Making => t = u
        /\ (\E t \in Thread : at[t] \in {"copy", "register"}) => Cached = {}

Types == CopiesTypeOK /\ DecodedInv /\ \A t \in Thread : RunInv(t)

CopiesInv ==
    /\ Types
    /\ FloorInv
    /\ FreshInv
    /\ CachedInv
    /\ WholeInv
    /\ SureInv
    /\ AloneInv
    /\ CopiesReclaimed

-----------------------------------------------------------------------------
(* Types, and what is cached. *)

LEMMA Constants ==
    /\ None \notin Copy /\ None \notin Version /\ None # Blank /\ Blank \notin Version
    /\ None # Torn /\ Torn \notin Version /\ Torn # Undecoded
    /\ None # Undecoded /\ Undecoded \notin Version /\ Blank # Undecoded /\ Blank # Torn
    /\ \A v \in Version : v \in Nat
    /\ 0 \in Version
BY CopiesAssumption

LEMMA CopiesStart == CopiesInit => CopiesInv
<1> SUFFICES ASSUME CopiesInit PROVE CopiesInv
  OBVIOUS
<1>1. Cached = {}
  BY DEF CopiesInit, Cached
<1>2. Types
  BY Constants DEF CopiesInit, Types, DecodedInv, CopiesTypeOK, RunInv, Making, Using
<1>3. FloorInv /\ FreshInv /\ CachedInv /\ SureInv /\ WholeInv
  BY <1>1, Constants DEF CopiesInit, FloorInv, FreshInv, CachedInv, SureInv, WholeInv
<1>4. AloneInv /\ CopiesReclaimed
  BY <1>1 DEF CopiesInit, AloneInv, CopiesReclaimed, Making
<1>5. QED
  BY <1>2, <1>3, <1>4 DEF CopiesInv

\* Who removes copies moves the runs that are just saving them, and no others.
LEMMA Moved ==
    ASSUME CopiesTypeOK, NEW t \in Thread, NEW place, NEW gone, MoveOn(t, place, gone)
    PROVE  /\ at'[t] = place
           /\ \A u \in Thread \ {t} :
                 \/ at'[u] = at[u]
                 \/ at[u] = "save" /\ at'[u] = "lost" /\ held[u] \in gone
           /\ at' = [u \in Thread |-> at'[u]]
BY DEF MoveOn, Stray, CopiesTypeOK

\* Who asks notes whether another run is making a copy.
LEMMA Asks ==
    ASSUME CopiesTypeOK, NEW t \in Thread, Stat(t)
    PROVE  /\ at[t] = "idle" /\ at' = [at EXCEPT ![t] = "look"]
           /\ UNCHANGED <<version, cache, registry, disk, spoilt, held, loaded>>
           /\ \A u \in Thread \ {t} : at[u] \in Making => raced' /\ t \notin sure' /\ u \notin sure'
           /\ raced' \in BOOLEAN /\ sure' \subseteq Thread
           /\ ~raced' => ~raced
           /\ \A s \in sure' : s = t \/ s \in sure
           /\ \A s \in sure' : key'[t] = version
           /\ key'[t] \in {version, None}
           /\ key' = [key EXCEPT ![t] = key'[t]]
<1>1. PICK k \in {version, None} :
        /\ key' = [key EXCEPT ![t] = k]
        /\ LET making == {u \in Thread \ {t} : at[u] \in Making} IN
           /\ raced' = (raced \/ making # {})
           /\ sure' = IF k = None THEN {}
                      ELSE IF making = {} THEN sure \cup {t} ELSE sure \ (making \cup {t})
  BY DEF Stat
<1>2. key'[t] = k /\ key' = [key EXCEPT ![t] = key'[t]]
  BY <1>1 DEF CopiesTypeOK
<1>3. /\ at[t] = "idle" /\ at' = [at EXCEPT ![t] = "look"]
      /\ UNCHANGED <<version, cache, registry, disk, spoilt, held, loaded>>
  BY DEF Stat, Goto, copies
<1>4. raced' \in BOOLEAN /\ sure' \subseteq Thread
  BY <1>1 DEF CopiesTypeOK
<1>5. QED
  BY <1>1, <1>2, <1>3, <1>4

LEMMA CachedCopies ==
    ASSUME CopiesTypeOK
    PROVE  \A c : c \in Cached <=> c \in Copy /\ \E v \in Version : cache[v] = c
BY Constants DEF CopiesTypeOK, Cached

\* A copy is made in a file that nobody knows, and whole if the file has not
\* changed since its maker asked.
LEMMA Made ==
    ASSUME CopiesTypeOK, NEW t \in Thread, MakeCopy(t)
    PROVE  \E c \in Copy, v \in Version \cup {Torn} :
              /\ c \notin Cached /\ \A u \in Thread : held[u] # c
              /\ key[t] = version => v = version
              /\ v \in Version => v = version
              /\ disk' = [disk EXCEPT ![c] = v]
              /\ held' = [held EXCEPT ![t] = c]
              /\ spoilt' = spoilt \ {c}
              /\ at[t] = "copy" /\ at' = [at EXCEPT ![t] = "register"]
              /\ UNCHANGED <<version, cache, registry, key, loaded, sure, raced>>
<1>1. PICK c \in Unused : \E v \in {version} \cup (IF key[t] = version THEN {} ELSE {Torn}) :
              /\ disk' = [disk EXCEPT ![c] = v]
              /\ held' = [held EXCEPT ![t] = c]
              /\ spoilt' = spoilt \ {c}
  BY DEF MakeCopy
<1>2. PICK v \in {version} \cup (IF key[t] = version THEN {} ELSE {Torn}) :
              /\ disk' = [disk EXCEPT ![c] = v]
              /\ held' = [held EXCEPT ![t] = c]
              /\ spoilt' = spoilt \ {c}
  BY <1>1
<1>3. /\ v \in Version \cup {Torn}
      /\ key[t] = version => v = version
      /\ v \in Version => v = version
  BY <1>2, Constants DEF CopiesTypeOK
<1>4. c \in Copy /\ c \notin Cached /\ \A u \in Thread : held[u] # c
  BY DEF Unused
<1>5. /\ at[t] = "copy" /\ at' = [at EXCEPT ![t] = "register"]
      /\ UNCHANGED <<version, cache, registry, key, loaded, sure, raced>>
  BY DEF MakeCopy, Goto
<1>6. QED
  BY <1>2, <1>3, <1>4, <1>5

LEMMA Released ==
    ASSUME CopiesTypeOK, NEW t \in Thread, Release(t)
    PROVE  /\ at[t] = "closed" /\ at'[t] = "idle"
           /\ \A u \in Thread \ {t} :
                 at'[u] = at[u] \/ (at[u] = "save" /\ at'[u] = "lost" /\ held[u] \notin Cached)
           /\ key' = [key EXCEPT ![t] = None]
           /\ held' = [held EXCEPT ![t] = None]
           /\ loaded' = [loaded EXCEPT ![t] = None]
           /\ sure' = sure \ {t}
           /\ \A c \in Copy : disk'[c] = IF c = held[t] /\ c \notin Cached THEN None ELSE disk[c]
           /\ \A c \in registry : (c = held[t] /\ c \notin Cached) \/ c \in registry'
           /\ UNCHANGED <<version, cache, raced, spoilt>>
<1> DEFINE gone == {held[t]} \ Cached
<1>1. at[t] = "closed" /\ Unlink(gone) /\ MoveOn(t, "idle", gone) /\ Over(t)
  BY DEF Release
<1>2. at'[t] = "idle" /\ \A u \in Thread \ {t} :
         at'[u] = at[u] \/ (at[u] = "save" /\ at'[u] = "lost" /\ held[u] \in gone)
  BY <1>1, Moved
<1>3. QED
  BY <1>1, <1>2 DEF Unlink, Over

LEMMA TypesStep == Types /\ CopiesNext => Types'
<1> SUFFICES ASSUME Types, CopiesNext PROVE Types'
  OBVIOUS
<1> USE Constants DEF Types, DecodedInv, CopiesTypeOK, RunInv, Making, Using, copies, threads,
        Goto
<1>1. ASSUME NEW t \in Thread, Stat(t) PROVE Types'
  <2>1. held[t] = None
    BY <1>1 DEF Stat
  <2>2. QED
    BY <1>1, <2>1, Asks
<1>2. ASSUME NEW t \in Thread, Look(t) PROVE Types'
  BY <1>2 DEF Look
<1>3. ASSUME NEW t \in Thread, Evict(t) PROVE Types'
  <2>1. /\ at[t] = "evict" /\ cache' = [v \in Version |-> None]
        /\ disk' = [c \in Copy |-> IF c \in Cached THEN None ELSE disk[c]]
        /\ registry' = registry \ Cached
        /\ UNCHANGED <<version, key, held, loaded, sure, raced, spoilt>>
    BY <1>3 DEF Evict, Unlink
  <2>2. /\ at'[t] = "copy" /\ at' = [u \in Thread |-> at'[u]]
        /\ \A u \in Thread \ {t} : at'[u] = at[u] \/ (at[u] = "save" /\ at'[u] = "lost")
    BY <1>3, Moved DEF Evict
  <2>3. QED
    BY <2>1, <2>2
<1>4. ASSUME NEW t \in Thread, MakeCopy(t) PROVE Types'
  BY <1>4, Made
<1>5. ASSUME NEW t \in Thread, MakeFails(t) PROVE Types'
  BY <1>5 DEF MakeFails
<1>6. ASSUME NEW t \in Thread, MakeUndecoded(t) PROVE Types'
  <2>1. PICK c \in Unused : disk' = [disk EXCEPT ![c] = Undecoded]
    BY <1>6 DEF MakeUndecoded
  <2>2. /\ at[t] = "copy" /\ at' = [at EXCEPT ![t] = "failed"]
        /\ UNCHANGED <<version, cache, registry, spoilt, key, held, loaded, sure, raced>>
    BY <1>6 DEF MakeUndecoded
  <2>3. c \in Copy /\ c \notin Cached /\ \A u \in Thread : held[u] # c
    BY DEF Unused
  <2>4. \A v \in Version : cache[v] # c
    BY <2>3, CachedCopies
  <2>5. disk' \in [Copy -> Version \cup {Blank, None, Torn, Undecoded}]
        /\ \A d \in Copy : d # c => disk'[d] = disk[d]
    BY <2>1, <2>3
  <2>6. CopiesTypeOK'
    BY <2>2, <2>5
  <2>7. DecodedInv'
    BY <2>2, <2>3, <2>4, <2>5
  <2>8. \A u \in Thread : RunInv(u)'
    BY <2>2
  <2>9. QED
    BY <2>6, <2>7, <2>8
<1>7. ASSUME NEW t \in Thread, Register(t) PROVE Types'
  BY <1>7 DEF Register
<1>8. ASSUME NEW t \in Thread, Load(t) PROVE Types'
  BY <1>8 DEF Load, Meet
<1>9. ASSUME NEW t \in Thread, Open(t) PROVE Types'
  BY <1>9 DEF Open
<1>10. ASSUME NEW t \in Thread, Empty(t) PROVE Types'
  BY <1>10 DEF Empty, Meet
<1>11. ASSUME NEW t \in Thread, Close(t) PROVE Types'
  BY <1>11 DEF Close
<1>12. ASSUME NEW t \in Thread, Reopen(t) PROVE Types'
  BY <1>12 DEF Reopen
<1>13. ASSUME NEW t \in Thread, Release(t) PROVE Types'
  <2> DEFINE gone == {held[t]} \ Cached
  <2>1. /\ at[t] = "closed"
        /\ disk' = [c \in Copy |-> IF c \in gone THEN None ELSE disk[c]]
        /\ registry' = registry \ gone
    BY <1>13 DEF Release, Unlink
  <2>2. /\ at'[t] = "idle" /\ at' = [u \in Thread |-> at'[u]]
        /\ \A u \in Thread \ {t} : at'[u] = at[u] \/ (at[u] = "save" /\ at'[u] = "lost")
    BY <1>13, Moved DEF Release
  <2>3. /\ key' = [key EXCEPT ![t] = None]
        /\ held' = [held EXCEPT ![t] = None]
        /\ loaded' = [loaded EXCEPT ![t] = None]
        /\ sure' = sure \ {t}
        /\ UNCHANGED <<version, cache, raced, spoilt>>
    BY <1>13 DEF Release, Over
  <2> HIDE DEF gone
  <2>4. CopiesTypeOK'
    BY <2>1, <2>2, <2>3
  <2>5. DecodedInv'
    BY <2>1, <2>3
  <2>6. \A u \in Thread : RunInv(u)'
    BY <2>2, <2>3
  <2>7. QED
    BY <2>4, <2>5, <2>6
<1>14. ASSUME NEW t \in Thread, Fail(t) PROVE Types'
  BY <1>14 DEF Fail, Over
<1>15. CASE Replace
  BY <1>15 DEF Replace
<1>16. CASE UNCHANGED <<version, copies, threads>>
  BY <1>16
<1>17. QED
  BY <1>1, <1>2, <1>3, <1>4, <1>5, <1>6, <1>7, <1>8, <1>9, <1>10, <1>11, <1>12, <1>13, <1>14,
     <1>15, <1>16 DEF CopiesNext, Run, Prepare

\* Only a registration adds to the cache, and only an eviction empties it.
LEMMA EvictCache ==
    ASSUME NEW t \in Thread, Evict(t)
    PROVE  cache' = [v \in Version |-> None] /\ Cached' = {}
BY DEF Evict, Cached

LEMMA RegisterCache ==
    ASSUME Types, CopiesNext, NEW t \in Thread, Register(t)
    PROVE  /\ \A c \in Cached' : c = held[t] \/ c \in Cached
           /\ \/ UNCHANGED cache /\ key[t] = None
              \/ /\ key[t] \in Version /\ held[t] \in Copy
                 /\ cache' = [cache EXCEPT ![key[t]] = held[t]]
                 /\ held[t] \in Cached'
<1>1. CASE key[t] = None
  BY <1>1 DEF Register, Cached
<1>2. CASE key[t] # None
  <2>1. /\ key[t] \in Version /\ held[t] \in Copy
        /\ cache' = [cache EXCEPT ![key[t]] = held[t]]
    BY <1>2 DEF Register, Types, CopiesTypeOK, RunInv
  <2>2. CopiesTypeOK'
    BY TypesStep DEF Types
  <2>3. \A c : c \in Cached' <=> c \in Copy /\ \E v \in Version : cache'[v] = c
    BY <2>2, Constants DEF CopiesTypeOK, Cached
  <2>4. QED
    BY <2>1, <2>3, CachedCopies DEF Types, CopiesTypeOK
<1>3. QED
  BY <1>1, <1>2

LEMMA CacheKept == ASSUME UNCHANGED cache PROVE Cached' = Cached
BY DEF Cached

-----------------------------------------------------------------------------
(* The steps, one part of the invariant after the other. *)

LEMMA FloorStep == CopiesInv /\ CopiesNext => FloorInv'
<1> SUFFICES ASSUME CopiesInv, CopiesNext PROVE FloorInv'
  OBVIOUS
<1>0. Types /\ FloorInv /\ Types'
  BY TypesStep DEF CopiesInv
<1> USE <1>0, Constants DEF Types, CopiesTypeOK, RunInv, Making, Using, FloorInv, NoOlder, copies,
        threads, Goto
<1>1. ASSUME NEW t \in Thread, Stat(t) PROVE FloorInv'
  BY <1>1 DEF Stat
<1>2. ASSUME NEW t \in Thread, Look(t) PROVE FloorInv'
  BY <1>2 DEF Look
<1>3. ASSUME NEW t \in Thread, Evict(t) PROVE FloorInv'
  BY <1>3 DEF Evict, Unlink
<1>4. ASSUME NEW t \in Thread, MakeCopy(t) PROVE FloorInv'
  BY <1>4, Made, CachedCopies
<1>5. ASSUME NEW t \in Thread, MakeFails(t) PROVE FloorInv'
  BY <1>5 DEF MakeFails
<1>6. ASSUME NEW t \in Thread, MakeUndecoded(t) PROVE FloorInv'
  BY <1>6 DEF MakeUndecoded, Unused
<1>7. ASSUME NEW t \in Thread, Register(t) PROVE FloorInv'
  BY <1>7 DEF Register
<1>8. ASSUME NEW t \in Thread, Load(t) PROVE FloorInv'
  BY <1>8 DEF Load
<1>9. ASSUME NEW t \in Thread, Open(t) PROVE FloorInv'
  BY <1>9 DEF Open
<1>10. ASSUME NEW t \in Thread, Empty(t) PROVE FloorInv'
  BY <1>10 DEF Empty
<1>11. ASSUME NEW t \in Thread, Close(t) PROVE FloorInv'
  BY <1>11 DEF Close
<1>12. ASSUME NEW t \in Thread, Reopen(t) PROVE FloorInv'
  BY <1>12 DEF Reopen
<1>13. ASSUME NEW t \in Thread, Release(t) PROVE FloorInv'
  BY <1>13 DEF Release, Over, Unlink
<1>14. ASSUME NEW t \in Thread, Fail(t) PROVE FloorInv'
  BY <1>14 DEF Fail, Over
<1>15. CASE Replace
  BY <1>15 DEF Replace
<1>16. CASE UNCHANGED <<version, copies, threads>>
  BY <1>16
<1>17. QED
  BY <1>1, <1>2, <1>3, <1>4, <1>5, <1>6, <1>7, <1>8, <1>9, <1>10, <1>11, <1>12, <1>13, <1>14,
     <1>15, <1>16 DEF CopiesNext, Run, Prepare

LEMMA FreshStep == CopiesInv /\ CopiesNext => FreshInv'
<1> DEFINE Fresh(f) ==
       /\ held[f] \notin Cached
       /\ disk[held[f]] # None
       /\ key[f] = version => disk[held[f]] \in Version
       /\ \A u \in Thread \ {f} : held[u] # held[f]
<1> SUFFICES ASSUME CopiesInv, CopiesNext, NEW f \in Thread, at'[f] = "register"
             PROVE  Fresh(f)'
  BY DEF FreshInv
<1>0. Types /\ Types'
  BY TypesStep DEF CopiesInv
<1>a. \A t \in Thread : at[t] = "register" => Fresh(t) /\ held[t] \in Copy
  BY <1>0 DEF CopiesInv, FreshInv, Types, CopiesTypeOK, RunInv
<1>b. \A c : c \in Cached <=> c \in Copy /\ \E v \in Version : cache[v] = c
  BY <1>0, CachedCopies DEF Types
<1>c. UNCHANGED cache => Cached' = Cached
  BY CacheKept
<1> USE <1>0, <1>a, <1>b, Constants DEF Types, CopiesTypeOK, RunInv, Using, copies, threads, Goto
<1>1. ASSUME NEW t \in Thread, Stat(t) PROVE Fresh(f)'
  BY <1>1, <1>c DEF Stat
<1>2. ASSUME NEW t \in Thread, MakeFails(t) \/ Reopen(t) \/ Open(t) PROVE Fresh(f)'
  BY <1>2, <1>c DEF MakeFails, Reopen, Open
<1>3. ASSUME NEW t \in Thread, Look(t) PROVE Fresh(f)'
  <2>1. held'[f] = held[f] /\ (\A u \in Thread : held'[u] = held[u] \/ held'[u] \in Cached)
    BY <1>3 DEF Look
  <2>2. at[f] = "register" /\ UNCHANGED <<version, disk, cache, key>>
    BY <1>3 DEF Look
  <2>3. QED
    BY <2>1, <2>2, <1>c
<1>4. ASSUME NEW t \in Thread, Evict(t) PROVE Fresh(f)'
  <2>1. Cached' = {}
    BY <1>4, EvictCache
  <2>2. /\ disk' = [c \in Copy |-> IF c \in Cached THEN None ELSE disk[c]]
        /\ UNCHANGED <<version, key, held>>
    BY <1>4 DEF Evict, Unlink
  <2>3. at[f] = "register"
    BY <1>4, Moved DEF Evict
  <2>4. disk'[held[f]] = disk[held[f]]
    BY <2>2, <2>3
  <2>5. QED
    BY <2>1, <2>2, <2>3, <2>4
<1>5. ASSUME NEW t \in Thread, MakeCopy(t) PROVE Fresh(f)'
  BY <1>5, <1>c, Made
<1>6. ASSUME NEW t \in Thread, MakeUndecoded(t) PROVE Fresh(f)'
  <2>1. PICK c \in Unused : disk' = [disk EXCEPT ![c] = Undecoded]
    BY <1>6 DEF MakeUndecoded
  <2>2. c \in Copy /\ \A u \in Thread : held[u] # c
    BY DEF Unused
  <2>3. /\ Cached' = Cached /\ at' = [at EXCEPT ![t] = "failed"]
        /\ UNCHANGED <<version, key, held>>
    BY <1>6, <1>c DEF MakeUndecoded
  <2>4. QED
    BY <2>1, <2>2, <2>3
<1>7. ASSUME NEW t \in Thread, Register(t) PROVE Fresh(f)'
  <2>1. f # t /\ at[f] = "register" /\ at[t] = "register"
        /\ UNCHANGED <<version, disk, key, held>>
    BY <1>7 DEF Register
  <2>2. QED
    BY <1>7, <2>1, RegisterCache
<1>8. ASSUME NEW t \in Thread, Load(t) PROVE Fresh(f)'
  BY <1>8, <1>c DEF Load
<1>9. ASSUME NEW t \in Thread, Empty(t) PROVE Fresh(f)'
  BY <1>9, <1>c DEF Empty
<1>10. ASSUME NEW t \in Thread, Close(t) PROVE Fresh(f)'
  BY <1>10, <1>c DEF Close
<1>11. ASSUME NEW t \in Thread, Release(t) PROVE Fresh(f)'
  BY <1>11, <1>c, Released
<1>12. ASSUME NEW t \in Thread, Fail(t) PROVE Fresh(f)'
  BY <1>12, <1>c DEF Fail, Over
<1>13. CASE Replace \/ UNCHANGED <<version, copies, threads>>
  BY <1>13, <1>c DEF Replace
<1> HIDE DEF Fresh
<1>14. QED
  BY <1>1, <1>2, <1>3, <1>4, <1>5, <1>6, <1>7, <1>8, <1>9, <1>10, <1>11, <1>12, <1>13
     DEF CopiesNext, Run, Prepare

LEMMA CachedStep == CopiesInv /\ CopiesNext => CachedInv'
<1> DEFINE Kept(c) ==
       /\ c \in registry
       /\ disk[c] # None
       /\ \A u \in Thread : held[u] = c /\ at[u] \in Using \cup {"closed"} => loaded[u] # None
<1> SUFFICES ASSUME CopiesInv, CopiesNext, NEW c \in Cached' PROVE Kept(c)'
  BY DEF CachedInv
<1>0. Types /\ Types' /\ FreshInv
  BY TypesStep DEF CopiesInv
<1>a. c \in Cached => c \in Copy /\ c # None /\ Kept(c)
  BY <1>0, CachedCopies, Constants DEF CopiesInv, CachedInv, Types
<1>b. UNCHANGED cache => c \in Cached
  BY CacheKept
<1>c. \A d \in Unused : d \in Copy /\ d \notin Cached /\ \A u \in Thread : held[u] # d
  BY DEF Unused
<1> USE <1>0, <1>a, Constants DEF Types, CopiesTypeOK, RunInv, Using, copies, threads, Goto
<1>1. ASSUME NEW t \in Thread, Stat(t) \/ MakeFails(t) \/ Reopen(t) \/ Look(t) PROVE Kept(c)'
  BY <1>1, <1>b DEF Stat, MakeFails, Reopen, Look
<1>2. ASSUME NEW t \in Thread, Evict(t) PROVE Kept(c)'
  BY <1>2, EvictCache
<1>3. ASSUME NEW t \in Thread, MakeCopy(t) PROVE Kept(c)'
  BY <1>3, <1>b, Made
<1>4. ASSUME NEW t \in Thread, MakeUndecoded(t) PROVE Kept(c)'
  BY <1>4, <1>b, <1>c DEF MakeUndecoded
<1>5. ASSUME NEW t \in Thread, Register(t) PROVE Kept(c)'
  <2>1. /\ at[t] = "register" /\ at' = [at EXCEPT ![t] = "made"]
        /\ registry' = registry \cup {held[t]} /\ UNCHANGED <<disk, held, loaded>>
    BY <1>5 DEF Register
  <2>2. CASE c = held[t]
    BY <2>1, <2>2 DEF FreshInv
  <2>3. CASE c # held[t]
    <3>1. c \in Cached
      BY <1>5, <2>3, RegisterCache
    <3>2. QED
      BY <2>1, <3>1
  <2>4. QED
    BY <2>2, <2>3
<1>6. ASSUME NEW t \in Thread, Load(t) PROVE Kept(c)'
  BY <1>6, <1>b DEF Load
<1>7. ASSUME NEW t \in Thread, Open(t) PROVE Kept(c)'
  BY <1>7, <1>b DEF Open
<1>8. ASSUME NEW t \in Thread, Empty(t) PROVE Kept(c)'
  BY <1>8, <1>b DEF Empty
<1>9. ASSUME NEW t \in Thread, Close(t) PROVE Kept(c)'
  BY <1>9, <1>b DEF Close
<1>10. ASSUME NEW t \in Thread, Release(t) PROVE Kept(c)'
  BY <1>10, <1>b, Released
<1>11. ASSUME NEW t \in Thread, Fail(t) PROVE Kept(c)'
  BY <1>11, <1>b DEF Fail, Over
<1>12. CASE Replace \/ UNCHANGED <<version, copies, threads>>
  BY <1>12, <1>b DEF Replace
<1> HIDE DEF Kept
<1>13. QED
  BY <1>1, <1>2, <1>3, <1>4, <1>5, <1>6, <1>7, <1>8, <1>9, <1>10, <1>11, <1>12
     DEF CopiesNext, Run, Prepare

LEMMA WholeStep == CopiesInv /\ CopiesNext => WholeInv'
<1> SUFFICES ASSUME CopiesInv, CopiesNext, cache'[version'] # None, cache'[version'] \notin spoilt'
             PROVE  WholeCopy(cache[version])'
  BY DEF WholeInv
<1>0. Types /\ Types' /\ FreshInv /\ FloorInv
  BY TypesStep DEF CopiesInv
<1> DEFINE c == cache[version]
<1>a. c # None /\ c \notin spoilt => WholeCopy(c)
  BY DEF CopiesInv, WholeInv
<1>b. c \in Copy \cup {None} /\ (c # None => c \in Cached)
  BY <1>0, CachedCopies DEF Types, CopiesTypeOK
<1>c. \A d \in Unused : d \in Copy /\ d \notin Cached /\ \A u \in Thread : held[u] # d
  BY DEF Unused
<1>d. \A v \in Version : v > version => cache[v] = None
  BY <1>0, Constants DEF FloorInv, Types, CopiesTypeOK
<1> HIDE DEF c
<1> USE <1>0, <1>a, <1>b, Constants DEF Types, CopiesTypeOK, RunInv, Using, copies, threads, Goto,
        WholeCopy
<1>e. UNCHANGED <<version, cache>> => cache'[version'] = c
  BY DEF c
<1>1. ASSUME NEW t \in Thread, Stat(t) \/ MakeFails(t) \/ Reopen(t) \/ Look(t)
      PROVE  WholeCopy(cache[version])'
  BY <1>1, <1>e DEF Stat, MakeFails, Reopen, Look
<1>2. ASSUME NEW t \in Thread, Evict(t) PROVE WholeCopy(cache[version])'
  BY <1>2, EvictCache
<1>3. ASSUME NEW t \in Thread, MakeCopy(t) PROVE WholeCopy(cache[version])'
  BY <1>3, <1>e, Made
<1>4. ASSUME NEW t \in Thread, MakeUndecoded(t) PROVE WholeCopy(cache[version])'
  BY <1>4, <1>c, <1>e DEF MakeUndecoded
<1>5. ASSUME NEW t \in Thread, Register(t) PROVE WholeCopy(cache[version])'
  <2>1. /\ at[t] = "register" /\ at' = [at EXCEPT ![t] = "made"]
        /\ UNCHANGED <<version, disk, spoilt, held, loaded>>
    BY <1>5 DEF Register
  <2>2. CASE key[t] = version
    <3>1. cache'[version'] = held[t]
      BY <1>5, <2>1, <2>2, RegisterCache
    <3>2. QED
      BY <2>1, <2>2, <3>1 DEF FreshInv
  <2>3. CASE key[t] # version
    <3>1. cache'[version'] = c
      BY <1>5, <2>1, <2>3, RegisterCache DEF c
    <3>2. QED
      BY <2>1, <3>1
  <2>4. QED
    BY <2>2, <2>3
<1>6. ASSUME NEW t \in Thread, Load(t) PROVE WholeCopy(cache[version])'
  BY <1>6, <1>e DEF Load, Meet
<1>7. ASSUME NEW t \in Thread, Open(t) PROVE WholeCopy(cache[version])'
  BY <1>7, <1>e DEF Open
<1>8. ASSUME NEW t \in Thread, Empty(t) PROVE WholeCopy(cache[version])'
  BY <1>8, <1>e DEF Empty, Meet
<1>9. ASSUME NEW t \in Thread, Close(t) PROVE WholeCopy(cache[version])'
  BY <1>9, <1>e DEF Close
<1>10. ASSUME NEW t \in Thread, Release(t) PROVE WholeCopy(cache[version])'
  BY <1>10, <1>e, Released
<1>11. ASSUME NEW t \in Thread, Fail(t) PROVE WholeCopy(cache[version])'
  BY <1>11, <1>e DEF Fail, Over
<1>12. CASE Replace
  BY <1>12, <1>d DEF Replace
<1>13. CASE UNCHANGED <<version, copies, threads>>
  BY <1>13, <1>e
<1> HIDE DEF WholeCopy
<1>14. QED
  BY <1>1, <1>2, <1>3, <1>4, <1>5, <1>6, <1>7, <1>8, <1>9, <1>10, <1>11, <1>12, <1>13
     DEF CopiesNext, Run, Prepare

LEMMA SureStep == CopiesInv /\ CopiesNext => SureInv'
<1> DEFINE Sure(s) ==
       /\ key[s] = version
       /\ at[s] \in Making => \A u \in Thread \ {s} : at[u] \notin Making
       /\ at[s] \in {"made", "closed"} \cup Using =>
            /\ held[s] = cache[version]
            /\ \A u \in Thread : at[u] \notin {"evict", "copy", "register"}
            /\ \A u \in Thread : at[u] = "look" => key[u] = version
<1> SUFFICES ASSUME CopiesInv, CopiesNext, NEW s \in sure' PROVE Sure(s)'
  BY DEF SureInv
<1>0. Types /\ Types' /\ s \in Thread
  BY TypesStep DEF CopiesInv, Types, CopiesTypeOK
<1>a. s \in sure => Sure(s)
  BY DEF CopiesInv, SureInv
<1> USE <1>0, <1>a, Constants DEF Types, CopiesTypeOK, RunInv, copies, threads, Goto, Making, Using
<1>1. ASSUME NEW t \in Thread, Stat(t) PROVE Sure(s)'
  BY <1>1, Asks
<1>2. ASSUME NEW t \in Thread, Look(t) PROVE Sure(s)'
  <2>1. /\ s \in sure /\ at[t] = "look"
        /\ UNCHANGED <<version, cache, key>>
        /\ \/ /\ at' = [at EXCEPT ![t] = "made"]
              /\ held' = [held EXCEPT ![t] = cache[key[t]]] /\ key[t] # None
           \/ at' = [at EXCEPT ![t] = "evict"] /\ UNCHANGED held
              /\ (key[t] # None /\ cache[key[t]] # None => disk[cache[key[t]]] = None)
    BY <1>2 DEF Look
  <2>2. CASE s = t
    BY <2>1, <2>2
  <2>3. CASE s # t /\ at[s] \in {"made", "closed"} \cup Using
    <3>1. key[t] = version /\ version # None /\ cache[version] = held[s] /\ held[s] # None
      BY <2>1, <2>3
    <3>2. held[s] \in Cached
      BY <3>1, CachedCopies
    <3>3. disk[held[s]] # None
      BY <3>2 DEF CopiesInv, CachedInv
    <3>4. QED
      BY <2>1, <2>3, <3>1, <3>3
  <2>4. CASE s # t /\ at[s] \notin {"made", "closed"} \cup Using
    BY <2>1, <2>4
  <2>5. QED
    BY <2>2, <2>3, <2>4
<1>3. ASSUME NEW t \in Thread, Evict(t) PROVE Sure(s)'
  <2>1. /\ at[t] = "evict" /\ at'[t] = "copy" /\ s \in sure
        /\ \A u \in Thread \ {t} : at'[u] = at[u] \/ (at[u] = "save" /\ at'[u] = "lost")
        /\ UNCHANGED <<version, key, held>>
    BY <1>3, Moved DEF Evict
  <2>2. QED
    BY <2>1
<1>4. ASSUME NEW t \in Thread, MakeCopy(t) PROVE Sure(s)'
  BY <1>4, Made
<1>5. ASSUME NEW t \in Thread, MakeFails(t) \/ MakeUndecoded(t) PROVE Sure(s)'
  BY <1>5 DEF MakeFails, MakeUndecoded
<1>6. ASSUME NEW t \in Thread, Register(t) PROVE Sure(s)'
  BY <1>6 DEF Register
<1>7. ASSUME NEW t \in Thread, Load(t) \/ Open(t) PROVE Sure(s)'
  BY <1>7 DEF Load, Open
<1>8. ASSUME NEW t \in Thread, Empty(t) \/ Close(t) \/ Reopen(t) PROVE Sure(s)'
  BY <1>8 DEF Empty, Close, Reopen
<1>9. ASSUME NEW t \in Thread, Release(t) PROVE Sure(s)'
  BY <1>9, Released
<1>10. ASSUME NEW t \in Thread, Fail(t) PROVE Sure(s)'
  BY <1>10 DEF Fail, Over
<1>11. CASE Replace \/ UNCHANGED <<version, copies, threads>>
  BY <1>11 DEF Replace
<1> HIDE DEF Sure
<1>12. QED
  BY <1>1, <1>2, <1>3, <1>4, <1>5, <1>6, <1>7, <1>8, <1>9, <1>10, <1>11
     DEF CopiesNext, Run, Prepare

LEMMA AloneStep == CopiesInv /\ CopiesNext => AloneInv'
<1> SUFFICES ASSUME CopiesInv, CopiesNext PROVE AloneInv'
  OBVIOUS
<1>0. Types /\ AloneInv
  BY DEF CopiesInv
<1>b. UNCHANGED cache => Cached' = Cached
  BY CacheKept
<1> USE <1>0 DEF Types, CopiesTypeOK, copies, threads, Goto, Making, AloneInv
<1>1. ASSUME NEW t \in Thread, Stat(t) PROVE AloneInv'
  BY <1>1, <1>b, Asks
<1>2. ASSUME NEW t \in Thread, Look(t) PROVE AloneInv'
  BY <1>2, <1>b DEF Look
<1>3. ASSUME NEW t \in Thread, Evict(t) PROVE AloneInv'
  <2>1. Cached' = {}
    BY <1>3, EvictCache
  <2>2. /\ at[t] = "evict" /\ at'[t] = "copy" /\ UNCHANGED raced
        /\ \A u \in Thread \ {t} : at'[u] = at[u] \/ (at[u] = "save" /\ at'[u] = "lost")
    BY <1>3, Moved DEF Evict
  <2>3. QED
    BY <2>1, <2>2
<1>4. ASSUME NEW t \in Thread, MakeCopy(t) PROVE AloneInv'
  BY <1>4, <1>b, Made
<1>5. ASSUME NEW t \in Thread, MakeFails(t) \/ MakeUndecoded(t) PROVE AloneInv'
  BY <1>5, <1>b DEF MakeFails, MakeUndecoded
<1>6. ASSUME NEW t \in Thread, Register(t) PROVE AloneInv'
  BY <1>6 DEF Register
<1>7. ASSUME NEW t \in Thread, Load(t) \/ Open(t) PROVE AloneInv'
  BY <1>7, <1>b DEF Load, Open
<1>8. ASSUME NEW t \in Thread, Empty(t) \/ Close(t) \/ Reopen(t) PROVE AloneInv'
  BY <1>8, <1>b DEF Empty, Close, Reopen
<1>9. ASSUME NEW t \in Thread, Release(t) PROVE AloneInv'
  BY <1>9, <1>b, Released
<1>10. ASSUME NEW t \in Thread, Fail(t) PROVE AloneInv'
  BY <1>10, <1>b DEF Fail, Over
<1>11. CASE Replace \/ UNCHANGED <<version, copies, threads>>
  BY <1>11, <1>b DEF Replace
<1> HIDE DEF AloneInv
<1>12. QED
  BY <1>1, <1>2, <1>3, <1>4, <1>5, <1>6, <1>7, <1>8, <1>9, <1>10, <1>11
     DEF CopiesNext, Run, Prepare

LEMMA ReclaimedStep == CopiesInv /\ CopiesNext => CopiesReclaimed'
<1> DEFINE Known(c) ==
       disk[c] \notin {None, Undecoded} =>
         \/ \E u \in Thread : held[u] = c
         \/ c \in registry /\ (raced \/ c \in Cached)
<1> SUFFICES ASSUME CopiesInv, CopiesNext, NEW c \in Copy PROVE Known(c)'
  BY DEF CopiesReclaimed
<1>0. Types
  BY DEF CopiesInv
<1>a. Known(c)
  BY DEF CopiesInv, CopiesReclaimed
<1>b. UNCHANGED cache => Cached' = Cached
  BY CacheKept
<1> USE <1>0, <1>a, Constants DEF Types, CopiesTypeOK, RunInv, copies, threads, Goto, Using
<1>1. ASSUME NEW t \in Thread, Stat(t) PROVE Known(c)'
  BY <1>1, <1>b, Asks
<1>2. ASSUME NEW t \in Thread, Look(t) PROVE Known(c)'
  BY <1>2, <1>b DEF Look
<1>3. ASSUME NEW t \in Thread, Evict(t) PROVE Known(c)'
  BY <1>3 DEF Evict, Unlink
<1>4. ASSUME NEW t \in Thread, MakeCopy(t) PROVE Known(c)'
  BY <1>4, <1>b, Made
<1>5. ASSUME NEW t \in Thread, MakeFails(t) \/ MakeUndecoded(t) PROVE Known(c)'
  BY <1>5, <1>b DEF MakeFails, MakeUndecoded, Unused
<1>6. ASSUME NEW t \in Thread, Register(t) PROVE Known(c)'
  <2>1. raced \/ Cached = {}
    BY <1>6 DEF Register, CopiesInv, AloneInv
  <2>2. UNCHANGED <<disk, held, raced>> /\ registry' = registry \cup {held[t]}
    BY <1>6 DEF Register
  <2>3. QED
    BY <2>1, <2>2
<1>7. ASSUME NEW t \in Thread, Load(t) \/ Open(t) PROVE Known(c)'
  BY <1>7, <1>b DEF Load, Open
<1>8. ASSUME NEW t \in Thread, Empty(t) PROVE Known(c)'
  BY <1>8, <1>b DEF Empty
<1>9. ASSUME NEW t \in Thread, Close(t) PROVE Known(c)'
  BY <1>9, <1>b DEF Close
<1>10. ASSUME NEW t \in Thread, Reopen(t) PROVE Known(c)'
  BY <1>10, <1>b DEF Reopen
<1>11. ASSUME NEW t \in Thread, Release(t) PROVE Known(c)'
  BY <1>11, <1>b, Released DEF CopiesInv, CachedInv
<1>12. ASSUME NEW t \in Thread, Fail(t) PROVE Known(c)'
  BY <1>12, <1>b DEF Fail, Over
<1>13. CASE Replace \/ UNCHANGED <<version, copies, threads>>
  BY <1>13, <1>b DEF Replace
<1> HIDE DEF Known
<1>14. QED
  BY <1>1, <1>2, <1>3, <1>4, <1>5, <1>6, <1>7, <1>8, <1>9, <1>10, <1>11, <1>12, <1>13
     DEF CopiesNext, Run, Prepare

LEMMA CopiesStep == CopiesInv /\ CopiesNext => CopiesInv'
BY TypesStep, FloorStep, FreshStep, CachedStep, WholeStep, SureStep, AloneStep, ReclaimedStep
  DEF CopiesInv

-----------------------------------------------------------------------------
(* The fast path. *)

\* Every step of the fast path is one of its run's, or leaves the copies alone.
LEMMA CaptionsAreRuns == [CaptionNext]_vars => CopiesNext
<1> SUFFICES ASSUME [CaptionNext]_vars PROVE CopiesNext
  OBVIOUS
<1>1. Fetcher \in Thread
  BY CaptionsAssumption
<1> USE <1>1 DEF CopiesNext
<1>2. CASE BeginMedia \/ BeginTarget
  BY <1>2 DEF BeginMedia, BeginTarget, Run
<1>3. CASE CloseMedia \/ CloseTarget
  BY <1>3 DEF CloseMedia, CloseTarget, Run
<1>4. CASE RetryMedia \/ EndMedia \/ EndTarget
  BY <1>4 DEF RetryMedia, EndMedia, EndTarget, Run
<1>5. CASE Ready \/ CopyRaises
  BY <1>5 DEF Ready, CopyRaises, Run
<1>6. CASE Pick \/ Submit \/ UNCHANGED vars
  BY <1>6 DEF Pick, Submit, vars
<1>7. CASE \E t \in Thread \ {Fetcher} : Other(t)
  BY <1>7 DEF Other
<1>8. CASE Replace /\ UNCHANGED fetch
  BY <1>8
<1>9. QED
  BY <1>2, <1>3, <1>4, <1>5, <1>6, <1>7, <1>8 DEF CaptionNext

\* The fast path has a run only while it asks for metadata or a track, and
\* that run's outcome only when it has closed; its temporary directory is that
\* of the run, or was left by a copy that failed.
FetchInv ==
    /\ stage \notin {"media", "run"} => at[Fetcher] = "idle"
    /\ outcome # "none" => at[Fetcher] = "closed" \/ stage = "raised"
    /\ temp => stage \in {"run", "raised"}
    /\ temp /\ stage = "raised" => outcome # "error"

LEMMA FetchStep == CopiesTypeOK /\ FetchInv /\ [CaptionNext]_vars => FetchInv'
<1> SUFFICES ASSUME CopiesTypeOK, FetchInv, [CaptionNext]_vars PROVE FetchInv'
  OBVIOUS
<1>1. Fetcher \in Thread
  BY CaptionsAssumption
<1> USE <1>1 DEF CopiesTypeOK, FetchInv, fetch, threads, Goto
<1>2. CASE BeginMedia
  BY <1>2 DEF BeginMedia, Stat
<1>3. CASE CloseMedia
  BY <1>3 DEF CloseMedia, Close
<1>4. CASE RetryMedia
  BY <1>4 DEF RetryMedia, Reopen
<1>5. CASE EndMedia
  BY <1>5, Released DEF EndMedia
<1>6. CASE Pick \/ Submit
  BY <1>6 DEF Pick, Submit
<1>7. CASE BeginTarget
  BY <1>7 DEF BeginTarget, Stat
<1>8. CASE Ready
  <2>1. outcome = "none" /\ stage \in {"media", "run"} /\ UNCHANGED fetch
    BY <1>8 DEF Ready, Prepare, Look, Evict, MakeCopy, MakeFails, MakeUndecoded, Register, Load,
       Open, Empty
  <2>2. QED
    BY <2>1
<1>9. CASE CopyRaises
  BY <1>9 DEF CopyRaises, Fail, Over
<1>10. CASE CloseTarget
  BY <1>10 DEF CloseTarget, Close
<1>11. CASE EndTarget
  BY <1>11, Released DEF EndTarget
<1>12. ASSUME NEW t \in Thread \ {Fetcher}, Other(t) PROVE FetchInv'
  <2>1. at'[Fetcher] = at[Fetcher] \/ (at[Fetcher] = "save" /\ at'[Fetcher] = "lost")
    <3>1. CASE Evict(t)
      BY <1>12, <3>1, Moved DEF Evict
    <3>2. CASE Release(t)
      BY <1>12, <3>2, Released
    <3>3. CASE ~Evict(t) /\ ~Release(t)
      BY <1>12, <3>3 DEF Other, Run, Prepare, Stat, Look, MakeCopy, MakeFails, MakeUndecoded,
         Register, Load, Open, Empty, Close, Reopen, Fail, Over
    <3>4. QED
      BY <3>1, <3>2, <3>3
  <2>2. QED
    BY <1>12, <2>1 DEF Other
<1>13. CASE Replace /\ UNCHANGED fetch
  BY <1>13 DEF Replace
<1>14. CASE UNCHANGED vars
  BY <1>14 DEF vars
<1>15. QED
  BY <1>2, <1>3, <1>4, <1>5, <1>6, <1>7, <1>8, <1>9, <1>10, <1>11, <1>12, <1>13, <1>14
     DEF CaptionNext

-----------------------------------------------------------------------------
(* The choice of the tracks. *)

\* What the restriction leaves is what the documentation allows.
LEMMA RestrictedAllowed ==
    ASSUME NEW i \in Info
    PROVE  /\ Restricted(i, i.manual) = Allowed(i) \cap i.manual
           /\ Restricted(i, i.auto) = Allowed(i) \cap i.auto
<1>1. /\ i.manual \subseteq Track /\ i.auto \subseteq Track
      /\ \A t \in i.manual \cup i.auto : t.base \in Language /\ t.base # ""
  BY CaptionsAssumption DEF Info, Track, Language
<1>2. CASE i.original # ""
  BY <1>2 DEF Restricted, Primary, Allowed, Of
<1>3. CASE i.original = "" /\ Of(i.language, i.manual \cup i.auto) # {}
  <2>1. i.language # "" /\ Primary(i) = i.language
    BY <1>1, <1>3 DEF Primary, Of
  <2>2. Allowed(i) = {t \in i.manual \cup i.auto : t.base = i.language}
    BY <1>3 DEF Allowed, Of
  <2>3. QED
    BY <2>1, <2>2 DEF Restricted, Of
<1>4. CASE i.original = "" /\ Of(i.language, i.manual \cup i.auto) = {}
  <2>1. Primary(i) = ""
    BY <1>4 DEF Primary
  <2>2. Allowed(i) = i.manual \cup i.auto
    BY <1>4 DEF Allowed, Of
  <2>3. QED
    BY <2>1, <2>2 DEF Restricted
<1>5. QED
  BY <1>2, <1>3, <1>4

\* A track of the lowest rank is beaten by no allowed one.
LEMMA BestUnbeaten ==
    ASSUME NEW i \in Info, NEW t \in Allowed(i),
           \A u \in Allowed(i) :
              Rank(t, Allowed(i) \cap i.manual) <= Rank(u, Allowed(i) \cap i.manual)
    PROVE  \A u \in Allowed(i) : ~Beats(i, u, t)
<1> SUFFICES ASSUME NEW u \in Allowed(i), Beats(i, u, t) PROVE FALSE
  OBVIOUS
<1>1. Rank(u, Allowed(i) \cap i.manual) < Rank(t, Allowed(i) \cap i.manual)
  BY DEF Beats, Rank
<1>2. /\ Rank(u, Allowed(i) \cap i.manual) \in Nat
      /\ Rank(t, Allowed(i) \cap i.manual) \in Nat
  BY DEF Rank
<1>3. Rank(t, Allowed(i) \cap i.manual) <= Rank(u, Allowed(i) \cap i.manual)
  OBVIOUS
<1>4. QED
  BY <1>1, <1>2, <1>3

LEMMA Pair == ASSUME NEW a, NEW b PROVE <<a>> \o <<b>> = <<a, b>>
<1> DEFINE S == {a, b}
<1>1. <<a>> \in Seq(S) /\ <<b>> \in Seq(S) /\ <<a, b>> \in Seq(S)
  OBVIOUS
<1>2. Len(<<a>>) = 1 /\ Len(<<b>>) = 1 /\ Len(<<a, b>>) = 2
  OBVIOUS
<1>3. /\ <<a>> \o <<b>> \in Seq(S)
      /\ Len(<<a>> \o <<b>>) = Len(<<a>>) + Len(<<b>>)
      /\ \A k \in 1 .. Len(<<a>>) + Len(<<b>>) :
            (<<a>> \o <<b>>)[k] = IF k <= Len(<<a>>) THEN <<a>>[k] ELSE <<b>>[k - Len(<<a>>)]
  BY <1>1, ConcatProperties
<1>4. /\ Len(<<a>> \o <<b>>) = 2
      /\ (<<a>> \o <<b>>)[1] = a /\ (<<a>> \o <<b>>)[2] = b
  BY <1>2, <1>3
<1>5. \A k \in 1 .. Len(<<a>> \o <<b>>) : (<<a>> \o <<b>>)[k] = <<a, b>>[k]
  BY <1>4
<1> HIDE DEF S
<1>6. QED
  BY <1>1, <1>2, <1>3, <1>4, <1>5, SeqEqual

\* The targets are none, the best track, or that and another allowed one.
LEMMA TargetShape ==
    ASSUME NEW i \in Info, NEW s \in CaptionTargets(i)
    PROVE  LET best == {t \in Allowed(i) : \A u \in Allowed(i) :
                          Rank(t, Allowed(i) \cap i.manual) <= Rank(u, Allowed(i) \cap i.manual)}
           IN \/ s = <<>> /\ Allowed(i) = {}
              \/ \E t \in best : s = <<t>>
              \/ \E t \in best, u \in Allowed(i) : s = <<t, u>>
<1> DEFINE manual == Restricted(i, i.manual)
           auto == Restricted(i, i.auto)
           plain(t) == [t EXCEPT !.form = "plain"]
<1>1. manual = Allowed(i) \cap i.manual /\ manual \cup auto = Allowed(i)
  BY RestrictedAllowed DEF Allowed
<1>2. CASE Allowed(i) = {}
  BY <1>1, <1>2 DEF CaptionTargets
<1>3. CASE Allowed(i) # {}
  <2>1. PICK t \in BestTracks(manual, auto) :
          s = <<t>> \o (IF t # plain(t) /\ plain(t) \in manual \cup auto
                        THEN <<plain(t)>> ELSE <<>>)
    BY <1>1, <1>3 DEF CaptionTargets
  <2>2. t \in Allowed(i)
        /\ \A u \in Allowed(i) :
              Rank(t, Allowed(i) \cap i.manual) <= Rank(u, Allowed(i) \cap i.manual)
    BY <1>1, <2>1 DEF BestTracks
  <2>3. CASE t # plain(t) /\ plain(t) \in Allowed(i)
    <3>1. s = <<t>> \o <<plain(t)>>
      BY <1>1, <2>1, <2>3
    <3>2. s = <<t, plain(t)>>
      BY <3>1, Pair
    <3>3. QED
      BY <2>2, <2>3, <3>2
  <2>4. CASE ~(t # plain(t) /\ plain(t) \in Allowed(i))
    <3>1. s = <<t>> \o <<>>
      BY <1>1, <2>1, <2>4
    <3>2. s = <<t>>
      BY <3>1
    <3>3. QED
      BY <2>2, <3>2
  <2>5. QED
    BY <2>3, <2>4
<1>4. QED
  BY <1>2, <1>3

-----------------------------------------------------------------------------
(* What is read in order. *)

\* A strict order in which any two elements of S can be compared.
Ordering(S, precedes) ==
    /\ \A x \in S : <<x, x>> \notin precedes
    /\ \A x, y, z \in S : <<x, y>> \in precedes /\ <<y, z>> \in precedes => <<x, z>> \in precedes
    /\ \A x, y \in S : x = y \/ <<x, y>> \in precedes \/ <<y, x>> \in precedes

\* s has each element of S once, in that order.
Lists(s, S, precedes) ==
    /\ DOMAIN s = 1 .. Cardinality(S)
    /\ \A k \in DOMAIN s : s[k] \in S
    /\ \A j, k \in DOMAIN s : j < k => <<s[j], s[k]>> \in precedes
    /\ \A x \in S : \E k \in DOMAIN s : s[k] = x

\* InOrder does: as many elements as stand before one, so many are counted,
\* and no two have the same count.
LEMMA InOrderLists ==
    ASSUME NEW S, NEW precedes, IsFiniteSet(S), Ordering(S, precedes)
    PROVE  Cardinality(S) \in Nat /\ Lists(InOrder(S, precedes), S, precedes)
<1> DEFINE n == Cardinality(S)
           below(x) == {y \in S : <<y, x>> \in precedes}
           rank(x) == Cardinality(below(x))
           s == InOrder(S, precedes)
<1>1. n \in Nat
  BY FS_CardinalityType
<1>2. ASSUME NEW x \in S
      PROVE  IsFiniteSet(below(x)) /\ rank(x) \in Nat /\ rank(x) < n
  <2>1. IsFiniteSet(below(x)) /\ rank(x) <= n /\ (n = rank(x) => S = below(x))
    BY FS_Subset
  <2>2. x \notin below(x)
    BY DEF Ordering
  <2>3. rank(x) \in Nat
    BY <2>1, FS_CardinalityType
  <2>4. QED
    BY <1>1, <2>1, <2>2, <2>3
<1>3. ASSUME NEW x \in S, NEW y \in S, <<x, y>> \in precedes
      PROVE  rank(x) < rank(y)
  <2>0. rank(x) \in Nat /\ rank(y) \in Nat
    BY <1>2
  <2>1. below(x) \cup {x} \subseteq below(y) /\ x \notin below(x)
    BY <1>3 DEF Ordering
  <2>2. Cardinality(below(x) \cup {x}) = rank(x) + 1
    BY <1>2, <2>1, FS_AddElement
  <2>3. Cardinality(below(x) \cup {x}) <= rank(y)
    BY <1>2, <2>1, FS_Subset
  <2> HIDE DEF rank, below
  <2>4. QED
    BY <2>0, <2>2, <2>3
<1> HIDE DEF rank, n
<1>11. /\ \A x \in S : rank(x) \in Nat /\ rank(x) < n
       /\ \A x, y \in S : <<x, y>> \in precedes => rank(x) < rank(y)
  BY <1>2, <1>3
<1> HIDE DEF below
<1>4. ASSUME NEW x \in S, NEW y \in S, rank(x) = rank(y)
      PROVE  x = y
  <2>1. x = y \/ <<x, y>> \in precedes \/ <<y, x>> \in precedes
    BY DEF Ordering
  <2>2. rank(x) \in Nat /\ rank(y) \in Nat
    BY <1>11
  <2>3. ~(rank(x) < rank(y)) /\ ~(rank(y) < rank(x))
    BY <1>4, <2>2
  <2>4. QED
    BY <1>11, <2>1, <2>3
<1>5. ASSUME NEW k \in 1 .. n
      PROVE  \E x \in S : rank(x) = k - 1
  <2> SUFFICES ASSUME \A x \in S : rank(x) # k - 1
               PROVE  FALSE
    OBVIOUS
  <2> DEFINE T == (0 .. n - 1) \ {k - 1}
             f == [x \in S |-> rank(x)]
  <2>1. IsFiniteSet(0 .. n - 1) /\ Cardinality(0 .. n - 1) = n /\ k - 1 \in 0 .. n - 1
    BY <1>1, FS_Interval
  <2>2. IsFiniteSet(T) /\ Cardinality(T) = n - 1
    BY <2>1, FS_RemoveElement
  <2>3. \A x \in S : rank(x) \in T
    BY <1>1, <1>11
  <2>4. f \in [S -> T]
    BY <2>3
  <2>5. Cardinality(T) < Cardinality(S)
    BY <1>1, <2>2 DEF n
  <2> HIDE DEF T, f
  <2>6. \E x, y \in S : x # y /\ f[x] = f[y]
    BY <2>2, <2>4, <2>5, FS_PigeonHole
  <2>7. QED
    BY <1>4, <2>6 DEF f
<1>6. DOMAIN s = 1 .. n /\ \A k \in 1 .. n : s[k] = CHOOSE x \in S : rank(x) = k - 1
  BY DEF InOrder, n, rank, below
<1> HIDE DEF s
<1>7. \A k \in 1 .. n : s[k] \in S /\ rank(s[k]) = k - 1
  BY <1>5, <1>6
<1>8. ASSUME NEW j \in 1 .. n, NEW k \in 1 .. n, j < k
      PROVE  <<s[j], s[k]>> \in precedes
  <2>1. rank(s[j]) < rank(s[k]) /\ s[j] \in S /\ s[k] \in S
    BY <1>1, <1>7, <1>8
  <2>2. s[j] # s[k] /\ <<s[k], s[j]>> \notin precedes
    BY <1>11, <2>1
  <2>3. QED
    BY <2>1, <2>2 DEF Ordering
<1>9. ASSUME NEW x \in S PROVE \E k \in 1 .. n : s[k] = x
  <2>1. rank(x) + 1 \in 1 .. n /\ rank(s[rank(x) + 1]) = rank(x) /\ s[rank(x) + 1] \in S
    BY <1>1, <1>7, <1>11
  <2>2. s[rank(x) + 1] = x
    BY <1>4, <2>1
  <2>3. QED
    BY <2>1, <2>2
<1>10. QED
  BY <1>1, <1>6, <1>7, <1>8, <1>9 DEF Lists, s, n

\* A function from 1 .. n is a sequence.
LEMMA Sequence ==
    ASSUME NEW S, NEW n \in Nat, NEW s \in [1 .. n -> S]
    PROVE  s \in Seq(S) /\ Len(s) = n
<1>1. s \in Seq(S)
  BY SeqDef
<1>2. Len(s) \in Nat /\ 1 .. Len(s) = 1 .. n
  BY <1>1, LenProperties
<1>3. QED
  BY <1>1, <1>2

\* The places of a text are pairs, and no more than can be listed.
LEMMA PlacesOf ==
    ASSUME NEW S, NEW texts \in Seq(Seq(S))
    PROVE  /\ IsFiniteSet(Places(texts))
           /\ \A t \in Places(texts) : /\ t = <<t[1], t[2]>>
                                       /\ t[1] \in DOMAIN texts /\ t[2] \in DOMAIN texts[t[1]]
                                       /\ t[1] \in Nat /\ t[2] \in Nat
           /\ \A l \in DOMAIN texts : \A p \in DOMAIN texts[l] : <<l, p>> \in Places(texts)
<1>1. Len(texts) \in Nat /\ DOMAIN texts = 1 .. Len(texts)
  BY LenProperties
<1>2. ASSUME NEW l \in DOMAIN texts
      PROVE  Len(texts[l]) \in Nat /\ DOMAIN texts[l] = 1 .. Len(texts[l])
  BY <1>1, ElementOfSeq, LenProperties
<1>3. IsFiniteSet(Places(texts))
  <2> DEFINE line(l) == {l} \X DOMAIN texts[l]
             f == [l \in DOMAIN texts |-> line(l)]
             T == {line(l) : l \in DOMAIN texts}
  <2>1. IsFiniteSet(DOMAIN texts)
    BY <1>1, FS_Interval
  <2>2. ASSUME NEW l \in DOMAIN texts PROVE IsFiniteSet(line(l))
    <3>1. IsFiniteSet({l})
      BY FS_Singleton
    <3>2. IsFiniteSet(1 .. Len(texts[l]))
      BY <1>2, FS_Interval
    <3>3. IsFiniteSet(DOMAIN texts[l])
      BY <1>2, <3>2
    <3>4. QED
      BY <3>1, <3>3, FS_Product
  <2> HIDE DEF line
  <2>3. f \in Surjection(DOMAIN texts, T)
    BY DEF Surjection
  <2>4. IsFiniteSet(T)
    BY <2>1, <2>3, FS_Surjection
  <2>5. \A L \in T : IsFiniteSet(L)
    BY <2>2
  <2>6. IsFiniteSet(UNION T)
    BY <2>4, <2>5, FS_UNION
  <2>7. QED
    BY <2>6 DEF Places, line
<1>4. ASSUME NEW t \in Places(texts)
      PROVE  /\ t = <<t[1], t[2]>>
             /\ t[1] \in DOMAIN texts /\ t[2] \in DOMAIN texts[t[1]]
  BY DEF Places
<1>5. \A l \in DOMAIN texts : \A p \in DOMAIN texts[l] : <<l, p>> \in Places(texts)
  BY DEF Places
<1>6. \A t \in Places(texts) : t[1] \in Nat /\ t[2] \in Nat
  BY <1>1, <1>2, <1>4
<1>7. QED
  BY <1>3, <1>4, <1>5, <1>6

\* Some places in reading order.
LEMMA Reading ==
    ASSUME NEW S, IsFiniteSet(S),
           \A t \in S : t = <<t[1], t[2]>> /\ t[1] \in Nat /\ t[2] \in Nat
    PROVE  LET s == AsRead(S) IN
           /\ Cardinality(S) \in Nat
           /\ DOMAIN s = 1 .. Cardinality(S)
           /\ \A k \in DOMAIN s : s[k] \in S
           /\ \A j, k \in DOMAIN s : j < k => Before(s[j], s[k])
           /\ \A t \in S : \E k \in DOMAIN s : s[k] = t
<1> DEFINE precedes == {pair \in S \X S : Before(pair[1], pair[2])}
<1>1. \A t, u \in S : <<t, u>> \in precedes <=> Before(t, u)
  OBVIOUS
<1> HIDE DEF precedes
<1>2. Ordering(S, precedes)
  <2>1. \A t \in S : ~Before(t, t)
    BY DEF Before
  <2>2. \A t, u, v \in S : Before(t, u) /\ Before(u, v) => Before(t, v)
    BY DEF Before
  <2>3. \A t, u \in S : t = u \/ Before(t, u) \/ Before(u, t)
    <3> SUFFICES ASSUME NEW t \in S, NEW u \in S, ~Before(t, u), ~Before(u, t)
                 PROVE  t = u
      OBVIOUS
    <3>1. t[1] = u[1] /\ t[2] = u[2]
      BY DEF Before
    <3>2. t = <<t[1], t[2]>> /\ u = <<u[1], u[2]>>
      OBVIOUS
    <3>3. QED
      BY <3>1, <3>2
  <2>4. QED
    BY <1>1, <2>1, <2>2, <2>3 DEF Ordering
<1>3. Cardinality(S) \in Nat /\ Lists(InOrder(S, precedes), S, precedes)
  BY <1>2, InOrderLists
<1>4. AsRead(S) = InOrder(S, precedes)
  BY DEF AsRead, precedes
<1>5. QED
  BY <1>1, <1>3, <1>4 DEF Lists

-----------------------------------------------------------------------------
(* The words of a submission. *)

TimedWord == [word : Word, start : Int, end : Int]

\* Words and their starts in order.
Heard(w) == \A i, j \in DOMAIN w : i < j => w[i].word.n < w[j].word.n /\ w[i].start <= w[j].start

\* Each word ends where the next begins.
LEMMA Closed ==
    ASSUME NEW w \in Seq(TimedWord)
    PROVE  LET v == CloseTimes(w) IN
           /\ v \in Seq(TimedWord)
           /\ DOMAIN v = DOMAIN w
           /\ \A i \in DOMAIN w : v[i].word = w[i].word /\ v[i].start = w[i].start
           /\ Heard(w) => /\ Heard(v)
                          /\ \A i, j \in DOMAIN v : i < j => /\ v[i].start <= v[i].end
                                                            /\ v[i].end <= v[j].start
<1> DEFINE v == CloseTimes(w)
           n == Len(w)
           end(i) == IF i < n THEN w[i + 1].start ELSE w[i].start + Gap
<1>1. n \in Nat /\ DOMAIN w = 1 .. n /\ \A i \in 1 .. n : w[i] \in TimedWord
  BY LenProperties, ElementOfSeq
<1>2. DOMAIN v = 1 .. n /\ \A i \in 1 .. n : v[i] = [w[i] EXCEPT !.end = end(i)]
  BY <1>1 DEF CloseTimes
<1> HIDE DEF v, n
<1>3. ASSUME NEW i \in 1 .. n
      PROVE  /\ v[i] \in TimedWord /\ v[i].word = w[i].word /\ v[i].start = w[i].start
             /\ v[i].end = end(i)
  <2>1. w[i] \in TimedWord /\ end(i) \in Int
    <3>1. i < n => w[i + 1] \in TimedWord
      BY <1>1
    <3>2. QED
      BY <1>1, <3>1 DEF TimedWord, Gap
  <2>2. QED
    BY <1>2, <2>1 DEF TimedWord
<1>4. v \in Seq(TimedWord)
  <2>1. v = [i \in 1 .. n |-> v[i]]
    BY <1>1 DEF v, CloseTimes
  <2>2. v \in [1 .. n -> TimedWord]
    BY <1>3, <2>1
  <2>3. QED
    BY <1>1, <2>2, Sequence
<1>5. ASSUME Heard(w), NEW i \in 1 .. n, NEW j \in 1 .. n, i < j
      PROVE  v[i].start <= v[i].end /\ v[i].end <= v[j].start
  <2>1. i + 1 \in 1 .. n /\ i < n /\ (i + 1 < j \/ i + 1 = j)
    BY <1>1, <1>5
  <2>2. v[i].end = w[i + 1].start /\ v[i].start = w[i].start /\ v[j].start = w[j].start
    BY <1>3, <2>1
  <2>3. w[i].start <= w[i + 1].start
    BY <1>1, <1>5, <2>1 DEF Heard
  <2>4. w[i + 1].start <= w[j].start
    <3>1. w[j].start \in Int
      BY <1>1 DEF TimedWord
    <3>2. QED
      BY <1>1, <1>5, <2>1, <3>1 DEF Heard
  <2>5. QED
    BY <2>2, <2>3, <2>4
<1>6. Heard(w) => Heard(v)
  BY <1>1, <1>2, <1>3 DEF Heard
<1>7. QED
  BY <1>1, <1>2, <1>3, <1>4, <1>5, <1>6 DEF v

\* Every word is submitted but the symbols, and where the words were in order
\* the submission is.
LEMMA Built ==
    ASSUME NEW w \in Seq(TimedWord)
    PROVE  LET s == BuildSubmission(CloseTimes(w)) IN
           /\ \A k \in DOMAIN s : s[k].word \in Word
           /\ \A k \in DOMAIN s : \E i \in DOMAIN w :
                 w[i].word.kind = "word" /\ s[k].word = w[i].word
           /\ \A i \in DOMAIN w : w[i].word.kind = "word" =>
                 \E k \in DOMAIN s : s[k].word = w[i].word
           /\ Heard(w) =>
                 \A k \in 1 .. Len(s) - 1 :
                    /\ s[k].word.n < s[k + 1].word.n
                    /\ s[k].start <= s[k].end /\ s[k].end <= s[k + 1].start
<1> DEFINE v == CloseTimes(w)
           s == BuildSubmission(v)
           heard == {i \in DOMAIN v : v[i].word.kind = "word"}
           precedes == {pair \in heard \X heard : pair[1] < pair[2]}
           kept == InOrder(heard, precedes)
           n == Cardinality(heard)
<1>1. /\ v \in Seq(TimedWord) /\ DOMAIN v = DOMAIN w
      /\ \A i \in DOMAIN w : v[i].word = w[i].word /\ v[i].start = w[i].start
      /\ Heard(w) => /\ Heard(v)
                     /\ \A i, j \in DOMAIN v : i < j => /\ v[i].start <= v[i].end
                                                       /\ v[i].end <= v[j].start
  BY Closed
<1>2. Len(v) \in Nat /\ DOMAIN v = 1 .. Len(v) /\ \A i \in DOMAIN v : v[i] \in TimedWord
  BY <1>1, LenProperties, ElementOfSeq
<1>3. /\ DOMAIN s = DOMAIN kept
      /\ \A k \in DOMAIN kept :
            s[k] = [word_index |-> k - 1, word |-> v[kept[k]].word,
                    start |-> v[kept[k]].start, end |-> v[kept[k]].end]
      /\ s = [k \in DOMAIN kept |-> s[k]]
  BY DEF BuildSubmission
<1> HIDE DEF v, s
<1>4. heard \subseteq 1 .. Len(v) /\ IsFiniteSet(heard)
  <2>1. heard \in SUBSET (1 .. Len(v)) /\ Len(v) \in Int /\ 1 \in Int
    BY <1>2
  <2>2. IsFiniteSet(1 .. Len(v))
    BY <2>1, FS_Interval
  <2>3. QED
    BY <2>1, <2>2, FS_Subset
<1>5. \A i, j \in heard : <<i, j>> \in precedes <=> i < j
  OBVIOUS
<1> HIDE DEF precedes
<1>6. Ordering(heard, precedes)
  <2>1. \A i \in heard : i \in Nat
    BY <1>2, <1>4
  <2> HIDE DEF heard
  <2>2. QED
    BY <1>5, <2>1 DEF Ordering
<1>7. n \in Nat /\ Lists(kept, heard, precedes)
  BY <1>4, <1>6, InOrderLists
<1> HIDE DEF kept, n
<1>8. /\ DOMAIN s = 1 .. n /\ DOMAIN kept = 1 .. n
      /\ \A k \in 1 .. n : kept[k] \in heard
      /\ \A j, k \in 1 .. n : j < k => kept[j] < kept[k]
      /\ \A i \in heard : \E k \in 1 .. n : kept[k] = i
  BY <1>3, <1>5, <1>7 DEF Lists, n
<1>9. \A k \in 1 .. n : /\ kept[k] \in DOMAIN v
                        /\ s[k].word = v[kept[k]].word
                        /\ s[k].start = v[kept[k]].start /\ s[k].end = v[kept[k]].end
  BY <1>3, <1>8
<1>10. \A k \in DOMAIN s : s[k].word \in Word
  BY <1>2, <1>8, <1>9 DEF TimedWord
<1>11. ASSUME NEW i \in DOMAIN w, w[i].word.kind = "word"
       PROVE  \E k \in DOMAIN s : s[k].word = w[i].word
  <2>1. i \in heard
    BY <1>1, <1>11
  <2>2. QED
    BY <1>1, <1>8, <1>9, <2>1
<1>12. ASSUME NEW k \in DOMAIN s
       PROVE  \E i \in DOMAIN w : w[i].word.kind = "word" /\ s[k].word = w[i].word
  <2>1. kept[k] \in DOMAIN w /\ v[kept[k]].word.kind = "word"
    BY <1>1, <1>8
  <2>2. QED
    BY <1>1, <1>8, <1>9, <2>1
<1>13. Len(s) = n
  <2> DEFINE S == {s[k] : k \in 1 .. n}
  <2>1. s \in [1 .. n -> S]
    BY <1>3, <1>8
  <2>2. QED
    BY <1>7, <2>1, Sequence
<1>14. ASSUME Heard(w), NEW k \in 1 .. n - 1
       PROVE  /\ s[k].word.n < s[k + 1].word.n
              /\ s[k].start <= s[k].end /\ s[k].end <= s[k + 1].start
  <2>1. k \in 1 .. n /\ k + 1 \in 1 .. n /\ k < k + 1
    BY <1>7
  <2>2. kept[k] < kept[k + 1]
    BY <1>8, <2>1
  <2>3. kept[k] \in DOMAIN v /\ kept[k + 1] \in DOMAIN v
    BY <1>9, <2>1
  <2>4. /\ v[kept[k]].word.n < v[kept[k + 1]].word.n
        /\ v[kept[k]].start <= v[kept[k]].end /\ v[kept[k]].end <= v[kept[k + 1]].start
    BY <1>1, <1>14, <2>2, <2>3 DEF Heard
  <2>5. QED
    BY <1>9, <2>1, <2>4
<1>15. QED
  BY <1>10, <1>11, <1>12, <1>13, <1>14 DEF s, v

-----------------------------------------------------------------------------
(* What a caption file shows. *)

CueToken == [word : Word, time : Int]
CueOf == [start : Int, end : Int, text : Seq(CueToken)]

LEMMA TokensOf ==
    ASSUME NEW cues \in Seq(CueOf)
    PROVE  /\ IsFiniteSet(Tokens(cues))
           /\ \A t \in Tokens(cues) : /\ t = <<t[1], t[2]>> /\ t[1] \in Nat /\ t[2] \in Nat
                                      /\ t[1] \in DOMAIN cues /\ cues[t[1]] \in CueOf
                                      /\ t[2] \in DOMAIN cues[t[1]].text
                                      /\ Token(cues, t) \in CueToken
           /\ \A c \in DOMAIN cues : \A p \in DOMAIN cues[c].text : <<c, p>> \in Tokens(cues)
<1> DEFINE texts == [c \in DOMAIN cues |-> cues[c].text]
<1>1. /\ Len(cues) \in Nat /\ DOMAIN cues = 1 .. Len(cues)
      /\ \A c \in DOMAIN cues : cues[c] \in CueOf
  BY LenProperties, ElementOfSeq
<1>2. \A c \in DOMAIN cues : cues[c].text \in Seq(CueToken)
  BY <1>1 DEF CueOf
<1>3. texts \in Seq(Seq(CueToken))
  BY <1>1, <1>2, Sequence
<1>4. DOMAIN texts = DOMAIN cues /\ \A c \in DOMAIN cues : texts[c] = cues[c].text
  OBVIOUS
<1> HIDE DEF texts
<1>5. /\ IsFiniteSet(Places(texts))
      /\ \A t \in Places(texts) : /\ t = <<t[1], t[2]>>
                                  /\ t[1] \in DOMAIN texts /\ t[2] \in DOMAIN texts[t[1]]
                                  /\ t[1] \in Nat /\ t[2] \in Nat
      /\ \A l \in DOMAIN texts : \A p \in DOMAIN texts[l] : <<l, p>> \in Places(texts)
  BY <1>3, PlacesOf
<1>6. Tokens(cues) = Places(texts)
  BY DEF Tokens, texts
<1>7. ASSUME NEW t \in Tokens(cues) PROVE Token(cues, t) \in CueToken
  <2>1. t[1] \in DOMAIN cues /\ t[2] \in DOMAIN cues[t[1]].text
    BY <1>4, <1>5, <1>6
  <2>2. cues[t[1]].text \in Seq(CueToken)
    BY <1>2, <2>1
  <2>3. QED
    BY <2>1, <2>2, LenProperties, ElementOfSeq DEF Token
<1>8. QED
  BY <1>1, <1>4, <1>5, <1>6, <1>7

\* The words with a time stamp are those of some tokens, in their order.
LEMMA Stamps ==
    ASSUME NEW cues \in Seq(CueOf)
    PROVE  LET w == StampedWords(cues)
               stamped == {t \in Tokens(cues) : Token(cues, t).time # Untimed}
               shown(i, t) == /\ w[i].word = Token(cues, t).word
                              /\ w[i].start = Token(cues, t).time IN
           /\ w \in Seq(TimedWord)
           /\ \A i \in DOMAIN w : \E t \in stamped : shown(i, t)
           /\ \A i, j \in DOMAIN w : i < j =>
                 \E t, u \in stamped : Before(t, u) /\ shown(i, t) /\ shown(j, u)
           /\ \A t \in stamped : \E i \in DOMAIN w : shown(i, t)
<1> DEFINE S == {t \in Tokens(cues) : Token(cues, t).time # Untimed}
           o == AsRead(S)
           n == Cardinality(S)
           w == StampedWords(cues)
<1>1. /\ S \subseteq Tokens(cues) /\ IsFiniteSet(S)
      /\ \A t \in S : /\ t = <<t[1], t[2]>> /\ t[1] \in Nat /\ t[2] \in Nat
                      /\ Token(cues, t) \in CueToken
  BY TokensOf, FS_Subset
<1> HIDE DEF S
<1>2. /\ n \in Nat /\ DOMAIN o = 1 .. n
      /\ \A k \in DOMAIN o : o[k] \in S
      /\ \A j, k \in DOMAIN o : j < k => Before(o[j], o[k])
      /\ \A t \in S : \E k \in DOMAIN o : o[k] = t
  BY <1>1, Reading
<1>3. w = [i \in DOMAIN o |-> [word |-> Token(cues, o[i]).word, start |-> Token(cues, o[i]).time,
                               end |-> Token(cues, o[i]).time]]
  BY DEF StampedWords, S
<1> HIDE DEF o, n, w
<1>4. \A i \in 1 .. n : /\ w[i] \in TimedWord
                        /\ w[i].word = Token(cues, o[i]).word
                        /\ w[i].start = Token(cues, o[i]).time
  BY <1>1, <1>2, <1>3 DEF CueToken, TimedWord
<1>5. DOMAIN w = 1 .. n /\ w \in [1 .. n -> TimedWord]
  BY <1>2, <1>3, <1>4
<1>6. w \in Seq(TimedWord)
  BY <1>2, <1>5, Sequence
<1>7. \A i \in DOMAIN w : \E t \in S : /\ w[i].word = Token(cues, t).word
                                       /\ w[i].start = Token(cues, t).time
  BY <1>2, <1>4, <1>5
<1>8. ASSUME NEW i \in DOMAIN w, NEW j \in DOMAIN w, i < j
      PROVE  \E t, u \in S : /\ Before(t, u)
                             /\ w[i].word = Token(cues, t).word /\ w[i].start = Token(cues, t).time
                             /\ w[j].word = Token(cues, u).word /\ w[j].start = Token(cues, u).time
  <2>1. o[i] \in S /\ o[j] \in S /\ Before(o[i], o[j])
    BY <1>2, <1>5, <1>8
  <2>2. QED
    BY <1>4, <1>5, <2>1
<1>9. ASSUME NEW t \in S
      PROVE  \E i \in DOMAIN w : w[i].word = Token(cues, t).word /\ w[i].start = Token(cues, t).time
  <2>1. PICK i \in 1 .. n : o[i] = t
    BY <1>2
  <2>2. QED
    BY <1>4, <1>5, <2>1
<1>10. QED
  BY <1>6, <1>7, <1>8, <1>9 DEF w, S

\* The words of the cues are those of all tokens, in their order.
LEMMA CueTimes ==
    ASSUME NEW cues \in Seq(CueOf)
    PROVE  LET w == CueWords(cues)
               shown(i, t) == /\ w[i].word = Token(cues, t).word
                              /\ w[i].start = cues[t[1]].start IN
           /\ w \in Seq(TimedWord)
           /\ \A i \in DOMAIN w : \E t \in Tokens(cues) : shown(i, t)
           /\ \A i, j \in DOMAIN w : i < j =>
                 \E t, u \in Tokens(cues) : Before(t, u) /\ shown(i, t) /\ shown(j, u)
           /\ \A t \in Tokens(cues) : \E i \in DOMAIN w : shown(i, t)
<1> DEFINE S == Tokens(cues)
           o == AsRead(S)
           n == Cardinality(S)
           w == CueWords(cues)
<1>1. /\ IsFiniteSet(S)
      /\ \A t \in S : /\ t = <<t[1], t[2]>> /\ t[1] \in Nat /\ t[2] \in Nat
                      /\ Token(cues, t) \in CueToken /\ cues[t[1]] \in CueOf
  BY TokensOf
<1> HIDE DEF S
<1>2. /\ n \in Nat /\ DOMAIN o = 1 .. n
      /\ \A k \in DOMAIN o : o[k] \in S
      /\ \A j, k \in DOMAIN o : j < k => Before(o[j], o[k])
      /\ \A t \in S : \E k \in DOMAIN o : o[k] = t
  BY <1>1, Reading
<1>3. w = [i \in DOMAIN o |-> [word |-> Token(cues, o[i]).word, start |-> cues[o[i][1]].start,
                               end |-> cues[o[i][1]].end]]
  BY DEF CueWords, S
<1> HIDE DEF o, n, w
<1>4. \A i \in 1 .. n : /\ w[i] \in TimedWord
                        /\ w[i].word = Token(cues, o[i]).word
                        /\ w[i].start = cues[o[i][1]].start
  BY <1>1, <1>2, <1>3 DEF CueToken, CueOf, TimedWord
<1>5. DOMAIN w = 1 .. n /\ w \in [1 .. n -> TimedWord]
  BY <1>2, <1>3, <1>4
<1>6. w \in Seq(TimedWord)
  BY <1>2, <1>5, Sequence
<1>7. ASSUME NEW i \in DOMAIN w, NEW j \in DOMAIN w, i < j
      PROVE  \E t, u \in S : /\ Before(t, u)
                             /\ w[i].word = Token(cues, t).word /\ w[i].start = cues[t[1]].start
                             /\ w[j].word = Token(cues, u).word /\ w[j].start = cues[u[1]].start
  <2>1. o[i] \in S /\ o[j] \in S /\ Before(o[i], o[j])
    BY <1>2, <1>5, <1>7
  <2>2. QED
    BY <1>4, <1>5, <2>1
<1>8. ASSUME NEW t \in S
      PROVE  \E i \in DOMAIN w : w[i].word = Token(cues, t).word /\ w[i].start = cues[t[1]].start
  <2>1. PICK i \in 1 .. n : o[i] = t
    BY <1>2
  <2>2. QED
    BY <1>4, <1>5, <2>1
<1>9. \A i \in DOMAIN w : \E t \in S : /\ w[i].word = Token(cues, t).word
                                       /\ w[i].start = cues[t[1]].start
  BY <1>2, <1>4, <1>5
<1>10. QED
  BY <1>6, <1>7, <1>8, <1>9 DEF w, S

\* The words of what is spoken.
LEMMA SpokenWords ==
    ASSUME NEW lines \in Spoken
    PROVE  /\ Len(lines) \in Nat /\ DOMAIN lines = 1 .. Len(lines)
           /\ \A l \in DOMAIN lines : /\ lines[l] \in Seq(Word) /\ Len(lines[l]) \in Nat \ {0}
                                      /\ DOMAIN lines[l] = 1 .. Len(lines[l])
           /\ \A l \in DOMAIN lines : \A p \in DOMAIN lines[l] :
                 lines[l][p] \in Word /\ Time(lines[l][p]) \in Nat
           /\ \A l, m \in DOMAIN lines : \A p \in DOMAIN lines[l] : \A q \in DOMAIN lines[m] :
                 l < m \/ (l = m /\ p < q) => lines[l][p].n < lines[m][q].n
<1>1. lines \in Seq(Seq(Word) \ {<<>>})
  BY SpokenAssumption
<1>2. Len(lines) \in Nat /\ DOMAIN lines = 1 .. Len(lines) /\ lines \in Seq(Seq(Word))
  <2>1. Seq(Word) \ {<<>>} \subseteq Seq(Word)
    OBVIOUS
  <2>2. QED
    BY <1>1, <2>1, LenProperties, SeqMonotonic
<1>3. \A l \in DOMAIN lines : lines[l] \in Seq(Word) \ {<<>>}
  BY <1>1, <1>2, ElementOfSeq
<1>4. \A l \in DOMAIN lines : Len(lines[l]) \in Nat \ {0} /\ DOMAIN lines[l] = 1 .. Len(lines[l])
  BY <1>3, LenProperties, EmptySeq
<1>5. \A l \in DOMAIN lines : \A p \in DOMAIN lines[l] : lines[l][p] \in Word
  BY <1>3, <1>4, ElementOfSeq
<1>6. ASSUME NEW l \in DOMAIN lines, NEW m \in DOMAIN lines,
             NEW p \in DOMAIN lines[l], NEW q \in DOMAIN lines[m], l < m \/ (l = m /\ p < q)
      PROVE  lines[l][p].n < lines[m][q].n
  <2> DEFINE t == <<l, p>>
             u == <<m, q>>
  <2>1. t \in Places(lines) /\ u \in Places(lines)
    BY <1>2, PlacesOf
  <2>2. t[1] = l /\ t[2] = p /\ u[1] = m /\ u[2] = q
    OBVIOUS
  <2> HIDE DEF t, u
  <2>3. Before(t, u)
    BY <1>6, <2>2 DEF Before
  <2>4. lines[t[1]][t[2]].n < lines[u[1]][u[2]].n
    BY <2>1, <2>3, SpokenAssumption
  <2>5. QED
    BY <2>2, <2>4
<1>7. \A l \in DOMAIN lines : \A p \in DOMAIN lines[l] : Time(lines[l][p]) \in Nat
  BY <1>5 DEF Time, Word
<1>8. QED
  BY <1>2, <1>3, <1>4, <1>5, <1>6, <1>7

-----------------------------------------------------------------------------
(* The files of what is spoken. *)

LEMMA LineTokens ==
    ASSUME NEW line \in Seq(Word)
    PROVE  /\ Plain(line) \in Seq(CueToken) /\ Len(Plain(line)) = Len(line)
           /\ Stamped(line) \in Seq(CueToken) /\ Len(Stamped(line)) = Len(line)
<1>1. Len(line) \in Nat /\ DOMAIN line = 1 .. Len(line) /\ \A i \in DOMAIN line : line[i] \in Word
  BY LenProperties, ElementOfSeq
<1>2. \A i \in DOMAIN line : Time(line[i]) \in Int
  BY <1>1 DEF Time, Word
<1>3. Plain(line) \in [1 .. Len(line) -> CueToken]
  BY <1>1 DEF Plain, CueToken, Untimed
<1>4. Stamped(line) \in [1 .. Len(line) -> CueToken]
  BY <1>1, <1>2 DEF Stamped, CueToken, Untimed
<1>5. QED
  BY <1>1, <1>3, <1>4, Sequence

LEMMA LineCue ==
    ASSUME NEW line \in Seq(Word), Len(line) # 0, NEW text \in Seq(CueToken)
    PROVE  /\ Cue(line, text) \in CueOf
           /\ Cue(line, text).start = Time(line[1])
           /\ Cue(line, text).text = text
<1>1. Len(line) \in Nat /\ Len(line) # 0 /\ DOMAIN line = 1 .. Len(line)
      /\ \A i \in DOMAIN line : line[i] \in Word
  BY LenProperties, ElementOfSeq
<1>2. line[1] \in Word /\ line[Len(line)] \in Word
  BY <1>1
<1>3. Head(line) = line[1] /\ Last(line) = line[Len(line)]
  BY <1>1, EmptySeq, HeadTailProperties DEF Last
<1>4. Time(line[1]) \in Int /\ Time(line[Len(line)]) + 10 \in Int
  BY <1>2 DEF Time, Word
<1>5. QED
  BY <1>3, <1>4 DEF Cue, CueOf

\* A cue of human captions is a line without time stamps.
LEMMA ManualFile ==
    ASSUME NEW lines \in Spoken
    PROVE  LET cues == ManualCues(lines) IN
           /\ cues \in Seq(CueOf) /\ DOMAIN cues = DOMAIN lines
           /\ \A c \in DOMAIN lines :
                 /\ cues[c].start = Time(lines[c][1])
                 /\ DOMAIN cues[c].text = DOMAIN lines[c]
                 /\ \A p \in DOMAIN lines[c] :
                       cues[c].text[p].word = lines[c][p] /\ cues[c].text[p].time = Untimed
<1> DEFINE cues == ManualCues(lines)
<1>1. /\ Len(lines) \in Nat /\ DOMAIN lines = 1 .. Len(lines)
      /\ \A l \in DOMAIN lines : lines[l] \in Seq(Word) /\ Len(lines[l]) \in Nat \ {0}
  BY SpokenWords
<1>2. DOMAIN cues = DOMAIN lines /\ \A c \in DOMAIN lines : cues[c] = Cue(lines[c], Plain(lines[c]))
  BY DEF ManualCues
<1>3. cues = [c \in 1 .. Len(lines) |-> cues[c]]
  BY <1>1 DEF ManualCues
<1> HIDE DEF cues
<1>4. ASSUME NEW c \in DOMAIN lines
      PROVE  /\ cues[c] \in CueOf
             /\ cues[c].start = Time(lines[c][1])
             /\ cues[c].text = Plain(lines[c])
  BY <1>1, <1>2, LineTokens, LineCue
<1>5. cues \in Seq(CueOf)
  <2>1. cues \in [1 .. Len(lines) -> CueOf]
    BY <1>1, <1>3, <1>4
  <2>2. QED
    BY <1>1, <2>1, Sequence
<1>6. \A c \in DOMAIN lines :
        /\ DOMAIN Plain(lines[c]) = DOMAIN lines[c]
        /\ \A p \in DOMAIN lines[c] : /\ Plain(lines[c])[p].word = lines[c][p]
                                      /\ Plain(lines[c])[p].time = Untimed
  BY DEF Plain
<1>7. QED
  BY <1>2, <1>4, <1>5, <1>6 DEF cues

\* How many words of the line before a cue of YouTube's own repeats.
Repeated(lines, c) == IF c = 1 THEN 0 ELSE Len(lines[c - 1])

\* In it, every word of its own line but the first has a time stamp, and
\* nothing else has.
LEMMA RollingFile ==
    ASSUME NEW lines \in Spoken
    PROVE  LET cues == RollingCues(lines) IN
           /\ cues \in Seq(CueOf) /\ DOMAIN cues = DOMAIN lines
           /\ \A c \in DOMAIN lines :
                 /\ Repeated(lines, c) \in Nat
                 /\ DOMAIN cues[c].text = 1 .. Repeated(lines, c) + Len(lines[c])
                 /\ \A p \in DOMAIN cues[c].text :
                       LET q == p - Repeated(lines, c) IN
                       /\ cues[c].text[p].time # Untimed <=> q > 1
                       /\ q > 1 => /\ q \in DOMAIN lines[c]
                                   /\ cues[c].text[p].word = lines[c][q]
                                   /\ cues[c].text[p].time = Time(lines[c][q])
<1> DEFINE cues == RollingCues(lines)
           before(c) == IF c = 1 THEN <<>> ELSE Plain(lines[c - 1])
<1>1. /\ Len(lines) \in Nat /\ DOMAIN lines = 1 .. Len(lines)
      /\ \A l \in DOMAIN lines : /\ lines[l] \in Seq(Word) /\ Len(lines[l]) \in Nat \ {0}
                                 /\ DOMAIN lines[l] = 1 .. Len(lines[l])
      /\ \A l \in DOMAIN lines : \A p \in DOMAIN lines[l] : Time(lines[l][p]) \in Nat
  BY SpokenWords
<1>2. /\ DOMAIN cues = DOMAIN lines
      /\ \A c \in DOMAIN lines : cues[c] = Cue(lines[c], before(c) \o Stamped(lines[c]))
  BY DEF RollingCues
<1>3. cues = [c \in 1 .. Len(lines) |-> cues[c]]
  BY <1>1 DEF RollingCues
<1> HIDE DEF cues
<1>4. ASSUME NEW c \in DOMAIN lines
      PROVE  /\ before(c) \in Seq(CueToken) /\ Len(before(c)) = Repeated(lines, c)
             /\ Repeated(lines, c) \in Nat
             /\ \A p \in 1 .. Repeated(lines, c) : before(c)[p].time = Untimed
  <2>1. CASE c = 1
    <3>1. before(c) = <<>> /\ Repeated(lines, c) = 0
      BY <2>1 DEF Repeated
    <3>2. <<>> \in Seq(CueToken) /\ Len(<<>>) = 0
      BY EmptySeq
    <3>3. 1 .. Repeated(lines, c) = {}
      BY <3>1
    <3> HIDE DEF before
    <3>4. QED
      BY <3>1, <3>2, <3>3
  <2>2. CASE c # 1
    <3>1. c - 1 \in DOMAIN lines
      BY <1>1, <2>2
    <3>2. before(c) = Plain(lines[c - 1]) /\ Repeated(lines, c) = Len(lines[c - 1])
      BY <2>2 DEF Repeated
    <3>3. \A p \in DOMAIN lines[c - 1] : Plain(lines[c - 1])[p].time = Untimed
      BY DEF Plain
    <3>4. QED
      BY <1>1, <3>1, <3>2, <3>3, LineTokens
  <2>3. QED
    BY <2>1, <2>2
<1> HIDE DEF before
<1>5. ASSUME NEW c \in DOMAIN lines
      PROVE  LET text == before(c) \o Stamped(lines[c]) IN
             /\ text \in Seq(CueToken)
             /\ DOMAIN text = 1 .. Repeated(lines, c) + Len(lines[c])
             /\ \A p \in DOMAIN text : text[p] = IF p <= Repeated(lines, c) THEN before(c)[p]
                                                 ELSE Stamped(lines[c])[p - Repeated(lines, c)]
  <2> DEFINE text == before(c) \o Stamped(lines[c])
  <2>1. Stamped(lines[c]) \in Seq(CueToken) /\ Len(Stamped(lines[c])) = Len(lines[c])
    BY <1>1, LineTokens
  <2>2. /\ text \in Seq(CueToken) /\ Len(text) = Repeated(lines, c) + Len(lines[c])
        /\ \A p \in 1 .. Repeated(lines, c) + Len(lines[c]) :
              text[p] = IF p <= Repeated(lines, c) THEN before(c)[p]
                        ELSE Stamped(lines[c])[p - Repeated(lines, c)]
    BY <1>4, <2>1, ConcatProperties
  <2>3. DOMAIN text = 1 .. Len(text)
    BY <2>2, LenProperties
  <2>4. QED
    BY <2>2, <2>3
<1>6. ASSUME NEW c \in DOMAIN lines
      PROVE  cues[c] \in CueOf /\ cues[c].text = before(c) \o Stamped(lines[c])
  <2> DEFINE text == before(c) \o Stamped(lines[c])
  <2>1. text \in Seq(CueToken) /\ cues[c] = Cue(lines[c], text)
    BY <1>2, <1>5
  <2>2. lines[c] \in Seq(Word) /\ Len(lines[c]) # 0
    BY <1>1
  <2> HIDE DEF text
  <2>3. cues[c] \in CueOf /\ cues[c].text = text
    BY <2>1, <2>2, LineCue
  <2>4. QED
    BY <2>3 DEF text
<1>7. cues \in Seq(CueOf)
  <2>1. cues \in [1 .. Len(lines) -> CueOf]
    BY <1>1, <1>3, <1>6
  <2>2. QED
    BY <1>1, <2>1, Sequence
<1>8. ASSUME NEW c \in DOMAIN lines, NEW p \in DOMAIN cues[c].text
      PROVE  LET q == p - Repeated(lines, c) IN
             /\ cues[c].text[p].time # Untimed <=> q > 1
             /\ q > 1 => /\ q \in DOMAIN lines[c]
                         /\ cues[c].text[p].word = lines[c][q]
                         /\ cues[c].text[p].time = Time(lines[c][q])
  <2> DEFINE q == p - Repeated(lines, c)
  <2>1. p \in 1 .. Repeated(lines, c) + Len(lines[c]) /\ Repeated(lines, c) \in Nat
        /\ Len(lines[c]) \in Nat
    BY <1>1, <1>4, <1>5, <1>6
  <2>2. CASE p <= Repeated(lines, c)
    <3>1. cues[c].text[p].time = Untimed
      BY <1>4, <1>5, <1>6, <2>1, <2>2
    <3>2. QED
      BY <2>1, <2>2, <3>1
  <2>3. CASE ~(p <= Repeated(lines, c))
    <3>1. q \in 1 .. Len(lines[c])
      BY <2>1, <2>3
    <3>2. q \in DOMAIN lines[c]
      BY <1>1, <3>1
    <3>3. cues[c].text[p] = Stamped(lines[c])[q]
      BY <1>5, <1>6, <2>3
    <3>4. /\ cues[c].text[p].word = lines[c][q]
          /\ cues[c].text[p].time = IF q = 1 THEN Untimed ELSE Time(lines[c][q])
      BY <3>2, <3>3 DEF Stamped
    <3>5. Time(lines[c][q]) # Untimed
      BY <1>1, <3>2 DEF Untimed
    <3>6. q = 1 \/ q > 1
      BY <3>1
    <3>7. QED
      BY <3>2, <3>4, <3>5, <3>6
  <2>4. QED
    BY <2>2, <2>3
<1>9. QED
  BY <1>2, <1>4, <1>5, <1>6, <1>7, <1>8 DEF cues

\* Whatever the file is, its words are words.
LEMMA Parsed ==
    ASSUME NEW cues \in Seq(CueOf)
    PROVE  \E w \in Seq(TimedWord) : ParseVtt(cues) = CloseTimes(w)
BY Stamps, CueTimes DEF ParseVtt

\* All the words of human captions, in order.
LEMMA ManualHeard ==
    ASSUME NEW lines \in Spoken
    PROVE  \E w \in Seq(TimedWord) :
              /\ ParseVtt(ManualCues(lines)) = CloseTimes(w)
              /\ Heard(w)
              /\ \A l \in DOMAIN lines : \A p \in DOMAIN lines[l] :
                    \E i \in DOMAIN w : w[i].word = lines[l][p]
              /\ \A i \in DOMAIN w :
                    \E l \in DOMAIN lines : \E p \in DOMAIN lines[l] : w[i].word = lines[l][p]
<1> DEFINE cues == ManualCues(lines)
           w == CueWords(cues)
<1>1. /\ cues \in Seq(CueOf) /\ DOMAIN cues = DOMAIN lines
      /\ \A c \in DOMAIN lines :
            /\ cues[c].start = Time(lines[c][1])
            /\ DOMAIN cues[c].text = DOMAIN lines[c]
            /\ \A p \in DOMAIN lines[c] :
                  cues[c].text[p].word = lines[c][p] /\ cues[c].text[p].time = Untimed
  BY ManualFile
<1>2. /\ Len(lines) \in Nat /\ DOMAIN lines = 1 .. Len(lines)
      /\ \A l \in DOMAIN lines : /\ Len(lines[l]) \in Nat \ {0}
                                 /\ DOMAIN lines[l] = 1 .. Len(lines[l])
      /\ \A l \in DOMAIN lines : \A p \in DOMAIN lines[l] : lines[l][p] \in Word
      /\ \A l, m \in DOMAIN lines : \A p \in DOMAIN lines[l] : \A q \in DOMAIN lines[m] :
            l < m \/ (l = m /\ p < q) => lines[l][p].n < lines[m][q].n
  BY SpokenWords
<1> HIDE DEF cues, w
<1>3. /\ \A t \in Tokens(cues) : /\ t[1] \in DOMAIN lines /\ t[2] \in DOMAIN lines[t[1]]
                                 /\ Token(cues, t).word = lines[t[1]][t[2]]
                                 /\ Token(cues, t).time = Untimed
      /\ \A l \in DOMAIN lines : \A p \in DOMAIN lines[l] : <<l, p>> \in Tokens(cues)
  BY <1>1, TokensOf DEF Token
<1>4. ParseVtt(cues) = CloseTimes(w)
  <2>1. StampedWords(cues) = <<>>
    <3>1. {t \in Tokens(cues) : Token(cues, t).time # Untimed} = {}
      BY <1>3
    <3>2. StampedWords(cues) \in Seq(TimedWord) /\ DOMAIN StampedWords(cues) = {}
      BY <1>1, <3>1, Stamps
    <3>3. Len(StampedWords(cues)) \in Nat /\ 1 .. Len(StampedWords(cues)) = {}
      BY <3>2, LenProperties
    <3>4. Len(StampedWords(cues)) = 0
      BY <3>3
    <3>5. QED
      BY <3>2, <3>4, EmptySeq
  <2>2. QED
    BY <2>1 DEF ParseVtt, w
<1>5. /\ w \in Seq(TimedWord)
      /\ \A i \in DOMAIN w : \E t \in Tokens(cues) : w[i].word = Token(cues, t).word
      /\ \A i, j \in DOMAIN w : i < j =>
            \E t, u \in Tokens(cues) :
               /\ Before(t, u)
               /\ w[i].word = Token(cues, t).word /\ w[i].start = cues[t[1]].start
               /\ w[j].word = Token(cues, u).word /\ w[j].start = cues[u[1]].start
      /\ \A t \in Tokens(cues) : \E i \in DOMAIN w : w[i].word = Token(cues, t).word
  BY <1>1, CueTimes DEF w
<1>6. ASSUME NEW i \in DOMAIN w, NEW j \in DOMAIN w, i < j
      PROVE  w[i].word.n < w[j].word.n /\ w[i].start <= w[j].start
  <2>1. PICK t \in Tokens(cues), u \in Tokens(cues) :
           /\ Before(t, u)
           /\ w[i].word = Token(cues, t).word /\ w[i].start = cues[t[1]].start
           /\ w[j].word = Token(cues, u).word /\ w[j].start = cues[u[1]].start
    BY <1>5, <1>6
  <2>2. w[i].word.n < w[j].word.n
    BY <1>2, <1>3, <2>1 DEF Before
  <2>3. 1 \in DOMAIN lines[t[1]] /\ 1 \in DOMAIN lines[u[1]]
    BY <1>2, <1>3
  <2>4. lines[t[1]][1] \in Word /\ lines[u[1]][1] \in Word
    BY <1>2, <1>3, <2>3
  <2>5. lines[t[1]][1].n <= lines[u[1]][1].n
    <3>1. CASE t[1] = u[1]
      BY <2>4, <3>1 DEF Word
    <3>2. CASE t[1] < u[1]
      <4>1. lines[t[1]][1].n < lines[u[1]][1].n
        BY <1>2, <1>3, <2>3, <3>2
      <4>2. QED
        BY <2>4, <4>1 DEF Word
    <3>3. QED
      BY <2>1, <3>1, <3>2 DEF Before
  <2>6. w[i].start = Time(lines[t[1]][1]) /\ w[j].start = Time(lines[u[1]][1])
    BY <1>1, <1>3, <2>1
  <2>7. QED
    BY <2>2, <2>4, <2>5, <2>6 DEF Time, Word
<1>7. ASSUME NEW l \in DOMAIN lines, NEW p \in DOMAIN lines[l]
      PROVE  \E i \in DOMAIN w : w[i].word = lines[l][p]
  <2>1. <<l, p>> \in Tokens(cues)
    BY <1>3
  <2>2. Token(cues, <<l, p>>).word = lines[l][p]
    BY <1>3, <2>1
  <2>3. QED
    BY <1>5, <2>1, <2>2
<1>8. \A i \in DOMAIN w :
         \E l \in DOMAIN lines : \E p \in DOMAIN lines[l] : w[i].word = lines[l][p]
  BY <1>3, <1>5
<1>9. QED
  BY <1>4, <1>5, <1>6, <1>7, <1>8 DEF Heard, cues

\* All the words of rolling captions that have a time stamp, in order, when
\* there is one.
LEMMA RollingHeard ==
    ASSUME NEW lines \in Spoken, \E k \in DOMAIN lines : Len(lines[k]) > 1
    PROVE  \E w \in Seq(TimedWord) :
              /\ ParseVtt(RollingCues(lines)) = CloseTimes(w)
              /\ Heard(w)
              /\ \A l \in DOMAIN lines : \A p \in DOMAIN lines[l] \ {1} :
                    \E i \in DOMAIN w : w[i].word = lines[l][p]
              /\ \A i \in DOMAIN w :
                    \E l \in DOMAIN lines : \E p \in DOMAIN lines[l] \ {1} : w[i].word = lines[l][p]
<1> DEFINE cues == RollingCues(lines)
           w == StampedWords(cues)
           own(t) == t[2] - Repeated(lines, t[1])
           stamped == {t \in Tokens(cues) : Token(cues, t).time # Untimed}
<1>1. /\ cues \in Seq(CueOf) /\ DOMAIN cues = DOMAIN lines
      /\ \A c \in DOMAIN lines :
            /\ Repeated(lines, c) \in Nat
            /\ DOMAIN cues[c].text = 1 .. Repeated(lines, c) + Len(lines[c])
            /\ \A p \in DOMAIN cues[c].text :
                  LET q == p - Repeated(lines, c) IN
                  /\ cues[c].text[p].time # Untimed <=> q > 1
                  /\ q > 1 => /\ q \in DOMAIN lines[c]
                              /\ cues[c].text[p].word = lines[c][q]
                              /\ cues[c].text[p].time = Time(lines[c][q])
  BY RollingFile
<1>2. /\ Len(lines) \in Nat /\ DOMAIN lines = 1 .. Len(lines)
      /\ \A l \in DOMAIN lines : /\ Len(lines[l]) \in Nat \ {0}
                                 /\ DOMAIN lines[l] = 1 .. Len(lines[l])
      /\ \A l \in DOMAIN lines : \A p \in DOMAIN lines[l] : lines[l][p] \in Word
      /\ \A l, m \in DOMAIN lines : \A p \in DOMAIN lines[l] : \A q \in DOMAIN lines[m] :
            l < m \/ (l = m /\ p < q) => lines[l][p].n < lines[m][q].n
  BY SpokenWords
<1> HIDE DEF cues, w
<1>3. ASSUME NEW t \in stamped
      PROVE  /\ t[1] \in DOMAIN lines /\ t[1] \in Nat /\ t[2] \in Nat
             /\ own(t) \in DOMAIN lines[t[1]] /\ own(t) > 1
             /\ Token(cues, t).word = lines[t[1]][own(t)]
             /\ Token(cues, t).time = Time(lines[t[1]][own(t)])
  BY <1>1, TokensOf DEF Token
<1>4. ASSUME NEW l \in DOMAIN lines, NEW p \in DOMAIN lines[l], p # 1
      PROVE  \E t \in stamped : Token(cues, t).word = lines[l][p]
  <2> DEFINE q == p + Repeated(lines, l)
  <2>1. p \in Nat /\ p > 1 /\ q \in DOMAIN cues[l].text /\ q - Repeated(lines, l) = p
    BY <1>1, <1>2, <1>4
  <2> HIDE DEF q
  <2>2. cues[l].text[q].time # Untimed /\ cues[l].text[q].word = lines[l][p]
    BY <1>1, <2>1
  <2>3. <<l, q>> \in Tokens(cues)
    BY <1>1, <2>1, TokensOf
  <2>4. Token(cues, <<l, q>>) = cues[l].text[q]
    BY DEF Token
  <2>5. QED
    BY <2>2, <2>3, <2>4
<1>5. /\ w \in Seq(TimedWord)
      /\ \A i \in DOMAIN w : \E t \in stamped : w[i].word = Token(cues, t).word
      /\ \A i, j \in DOMAIN w : i < j =>
            \E t, u \in stamped :
               /\ Before(t, u)
               /\ w[i].word = Token(cues, t).word /\ w[i].start = Token(cues, t).time
               /\ w[j].word = Token(cues, u).word /\ w[j].start = Token(cues, u).time
      /\ \A t \in stamped : \E i \in DOMAIN w : w[i].word = Token(cues, t).word
  BY <1>1, Stamps DEF w
<1>6. ParseVtt(cues) = CloseTimes(w)
  <2>1. PICK k \in DOMAIN lines : Len(lines[k]) > 1
    OBVIOUS
  <2>2. 2 \in DOMAIN lines[k]
    BY <1>2, <2>1
  <2>3. w # <<>>
    BY <1>4, <1>5, <2>2
  <2>4. QED
    BY <2>3 DEF ParseVtt, w
<1>7. ASSUME NEW i \in DOMAIN w, NEW j \in DOMAIN w, i < j
      PROVE  w[i].word.n < w[j].word.n /\ w[i].start <= w[j].start
  <2>1. PICK t \in stamped, u \in stamped :
           /\ Before(t, u)
           /\ w[i].word = Token(cues, t).word /\ w[i].start = Token(cues, t).time
           /\ w[j].word = Token(cues, u).word /\ w[j].start = Token(cues, u).time
    BY <1>5, <1>7
  <2> HIDE DEF stamped
  <2>2. /\ t[1] \in DOMAIN lines /\ u[1] \in DOMAIN lines
        /\ own(t) \in DOMAIN lines[t[1]] /\ own(u) \in DOMAIN lines[u[1]]
        /\ w[i].word = lines[t[1]][own(t)] /\ w[j].word = lines[u[1]][own(u)]
        /\ w[i].start = Time(lines[t[1]][own(t)]) /\ w[j].start = Time(lines[u[1]][own(u)])
    BY <1>3, <2>1
  <2>3. t[1] < u[1] \/ (t[1] = u[1] /\ own(t) < own(u))
    <3>1. /\ t[2] \in Nat /\ u[2] \in Nat
          /\ Repeated(lines, t[1]) \in Nat /\ Repeated(lines, u[1]) \in Nat
      BY <1>1, <1>3, <2>1, <2>2
    <3>2. CASE t[1] < u[1]
      BY <3>2
    <3>3. CASE t[1] = u[1] /\ t[2] < u[2]
      <4>1. Repeated(lines, t[1]) = Repeated(lines, u[1])
        BY <3>3
      <4>2. own(t) < own(u)
        BY <3>1, <3>3, <4>1
      <4>3. QED
        BY <3>3, <4>2
    <3>4. QED
      BY <2>1, <3>2, <3>3 DEF Before
  <2> HIDE DEF own
  <2>4. lines[t[1]][own(t)].n < lines[u[1]][own(u)].n
    BY <1>2, <2>2, <2>3
  <2>5. lines[t[1]][own(t)] \in Word /\ lines[u[1]][own(u)] \in Word
    BY <1>2, <2>2
  <2>6. QED
    BY <2>2, <2>4, <2>5 DEF Time, Word
<1>8. ASSUME NEW l \in DOMAIN lines, NEW p \in DOMAIN lines[l] \ {1}
      PROVE  \E i \in DOMAIN w : w[i].word = lines[l][p]
  BY <1>4, <1>5
<1>9. ASSUME NEW i \in DOMAIN w
      PROVE  \E l \in DOMAIN lines : \E p \in DOMAIN lines[l] \ {1} : w[i].word = lines[l][p]
  <2>1. PICK t \in stamped : w[i].word = Token(cues, t).word
    BY <1>5
  <2> HIDE DEF stamped
  <2>2. t[1] \in DOMAIN lines /\ own(t) \in DOMAIN lines[t[1]] /\ own(t) > 1
        /\ w[i].word = lines[t[1]][own(t)]
    BY <1>3, <2>1
  <2> HIDE DEF own
  <2>3. own(t) # 1
    BY <2>2
  <2>4. QED
    BY <2>2, <2>3
<1>10. QED
  BY <1>5, <1>6, <1>7, <1>8, <1>9 DEF Heard, cues

\* The words s of a submission are what these captions show.
WordsOf(s, lines, rolling) ==
    /\ \A k \in DOMAIN s : s[k].word \in Word
    /\ (rolling => \E k \in DOMAIN lines : Len(lines[k]) > 1) =>
          /\ \A k \in 1 .. Len(s) - 1 :
                /\ s[k].word.n < s[k + 1].word.n
                /\ s[k].start <= s[k].end /\ s[k].end <= s[k + 1].start
          /\ {s[k].word : k \in DOMAIN s} = {w \in Given(lines, rolling) : w.kind = "word"}

\* What is submitted, by either kind of captions.
LEMMA Submitted ==
    ASSUME NEW lines \in Spoken, NEW rolling \in BOOLEAN
    PROVE  WordsOf(BuildSubmission(ParseVtt(IF rolling THEN RollingCues(lines)
                                                       ELSE ManualCues(lines))),
                   lines, rolling)
<1> DEFINE cues == IF rolling THEN RollingCues(lines) ELSE ManualCues(lines)
           s == BuildSubmission(ParseVtt(cues))
<1>1. cues \in Seq(CueOf)
  BY ManualFile, RollingFile
<1>2. \A k \in DOMAIN s : s[k].word \in Word
  BY <1>1, Parsed, Built
<1>3. ASSUME rolling => \E k \in DOMAIN lines : Len(lines[k]) > 1
      PROVE  \E w \in Seq(TimedWord) :
                /\ ParseVtt(cues) = CloseTimes(w)
                /\ Heard(w)
                /\ \A l \in DOMAIN lines : \A p \in DOMAIN lines[l] :
                      ~(rolling /\ p = 1) => \E i \in DOMAIN w : w[i].word = lines[l][p]
                /\ \A i \in DOMAIN w : \E l \in DOMAIN lines : \E p \in DOMAIN lines[l] :
                      ~(rolling /\ p = 1) /\ w[i].word = lines[l][p]
  <2>1. CASE rolling
    <3>1. \E k \in DOMAIN lines : Len(lines[k]) > 1
      BY <1>3, <2>1
    <3>2. PICK w \in Seq(TimedWord) :
             /\ ParseVtt(RollingCues(lines)) = CloseTimes(w)
             /\ Heard(w)
             /\ \A l \in DOMAIN lines : \A p \in DOMAIN lines[l] \ {1} :
                   \E i \in DOMAIN w : w[i].word = lines[l][p]
             /\ \A i \in DOMAIN w :
                   \E l \in DOMAIN lines : \E p \in DOMAIN lines[l] \ {1} : w[i].word = lines[l][p]
      BY <3>1, RollingHeard
    <3>3. cues = RollingCues(lines)
      BY <2>1
    <3> HIDE DEF cues
    <3>4. \A l \in DOMAIN lines : \A p \in DOMAIN lines[l] :
             ~(rolling /\ p = 1) => \E i \in DOMAIN w : w[i].word = lines[l][p]
      BY <2>1, <3>2
    <3>5. \A i \in DOMAIN w : \E l \in DOMAIN lines : \E p \in DOMAIN lines[l] :
             ~(rolling /\ p = 1) /\ w[i].word = lines[l][p]
      BY <3>2
    <3>6. QED
      BY <3>2, <3>3, <3>4, <3>5
  <2>2. CASE ~rolling
    <3>1. PICK w \in Seq(TimedWord) :
             /\ ParseVtt(ManualCues(lines)) = CloseTimes(w)
             /\ Heard(w)
             /\ \A l \in DOMAIN lines : \A p \in DOMAIN lines[l] :
                   \E i \in DOMAIN w : w[i].word = lines[l][p]
             /\ \A i \in DOMAIN w :
                   \E l \in DOMAIN lines : \E p \in DOMAIN lines[l] : w[i].word = lines[l][p]
      BY ManualHeard
    <3>2. cues = ManualCues(lines)
      BY <2>2
    <3> HIDE DEF cues
    <3>3. \A i \in DOMAIN w : \E l \in DOMAIN lines : \E p \in DOMAIN lines[l] :
             ~(rolling /\ p = 1) /\ w[i].word = lines[l][p]
      BY <2>2, <3>1
    <3>4. QED
      BY <3>1, <3>2, <3>3
  <2>3. QED
    BY <2>1, <2>2
<1>4. \A w : w \in Given(lines, rolling) <=>
         \E l \in DOMAIN lines : \E p \in DOMAIN lines[l] : ~(rolling /\ p = 1) /\ w = lines[l][p]
  BY DEF Given
<1>5. ASSUME rolling => \E k \in DOMAIN lines : Len(lines[k]) > 1
      PROVE  /\ \A k \in 1 .. Len(s) - 1 :
                   /\ s[k].word.n < s[k + 1].word.n
                   /\ s[k].start <= s[k].end /\ s[k].end <= s[k + 1].start
             /\ {s[k].word : k \in DOMAIN s} = {w \in Given(lines, rolling) : w.kind = "word"}
  <2>1. PICK w \in Seq(TimedWord) :
           /\ ParseVtt(cues) = CloseTimes(w)
           /\ Heard(w)
           /\ \A l \in DOMAIN lines : \A p \in DOMAIN lines[l] :
                 ~(rolling /\ p = 1) => \E i \in DOMAIN w : w[i].word = lines[l][p]
           /\ \A i \in DOMAIN w : \E l \in DOMAIN lines : \E p \in DOMAIN lines[l] :
                 ~(rolling /\ p = 1) /\ w[i].word = lines[l][p]
    BY <1>3, <1>5
  <2>2. s = BuildSubmission(CloseTimes(w))
    BY <2>1
  <2> HIDE DEF s, cues
  <2>3. /\ \A k \in DOMAIN s : \E i \in DOMAIN w :
              w[i].word.kind = "word" /\ s[k].word = w[i].word
        /\ \A i \in DOMAIN w : w[i].word.kind = "word" =>
              \E k \in DOMAIN s : s[k].word = w[i].word
        /\ \A k \in 1 .. Len(s) - 1 :
              /\ s[k].word.n < s[k + 1].word.n
              /\ s[k].start <= s[k].end /\ s[k].end <= s[k + 1].start
    BY <2>1, <2>2, Built
  <2>4. ASSUME NEW g \in Given(lines, rolling), g.kind = "word"
        PROVE  \E k \in DOMAIN s : s[k].word = g
    <3>1. PICK i \in DOMAIN w : w[i].word = g
      BY <1>4, <2>1
    <3>2. PICK k \in DOMAIN s : s[k].word = w[i].word
      BY <2>3, <2>4, <3>1
    <3>3. QED
      BY <3>1, <3>2
  <2>5. ASSUME NEW k \in DOMAIN s
        PROVE  s[k].word \in Given(lines, rolling) /\ s[k].word.kind = "word"
    <3>1. PICK i \in DOMAIN w : w[i].word.kind = "word" /\ s[k].word = w[i].word
      BY <2>3
    <3>2. w[i].word \in Given(lines, rolling)
      BY <1>4, <2>1
    <3>3. QED
      BY <3>1, <3>2
  <2>6. QED
    BY <2>3, <2>4, <2>5
<1>6. QED
  BY <1>2, <1>5 DEF WordsOf, s, cues

-----------------------------------------------------------------------------
(* The theorems. *)

\* What the fast path keeps besides the copies, but for the words: an attempt
\* is under way only while one is left, and a download only for a target.
FetchTypes ==
    /\ stage \in {"media", "pick", "next", "run", "read", "submitted", "missed", "raised"}
    /\ attempt \in 0 .. MetadataAttempts
    /\ stage = "media" /\ outcome = "none" => attempt < MetadataAttempts
    /\ outcome \in {"none", "found", "nothing", "error"}
    /\ info \in Info
    /\ targets \in {<<>>} \cup {<<t>> : t \in Track} \cup (Track \X Track)
    /\ stage \in {"next", "run"} => targets # <<>>
    /\ temp \in BOOLEAN
    /\ caption = NoCaption \/ (caption.lines \in Spoken /\ caption.rolling \in BOOLEAN)

LEMMA CaptionsStart == CaptionInit => CopiesInv /\ FetchInv /\ FetchTypes
<1> SUFFICES ASSUME CaptionInit PROVE CopiesInv /\ FetchInv /\ FetchTypes
  OBVIOUS
<1>1. CopiesInv
  BY CopiesStart DEF CaptionInit
<1>2. FetchInv
  BY CaptionsAssumption DEF CaptionInit, CopiesInit, FetchInv
<1>3. NoInfo \in Info
  BY DEF NoInfo, Info
<1>4. FetchTypes
  <2>1. attempt \in 0 .. MetadataAttempts /\ attempt < MetadataAttempts
    BY CaptionsAssumption DEF CaptionInit
  <2>2. QED
    BY <1>3, <2>1 DEF CaptionInit, FetchTypes
<1>5. QED
  BY <1>1, <1>2, <1>4

\* All of it holds at any time.
LEMMA CopiesHold == CaptionSpec => []CopiesInv
<1>1. CaptionInit => CopiesInv
  BY CaptionsStart
<1>2. CopiesInv /\ [CaptionNext]_vars => CopiesInv'
  BY CaptionsAreRuns, CopiesStep
<1>3. QED
  BY <1>1, <1>2, PTL DEF CaptionSpec

LEMMA FetchHolds == CaptionSpec => []FetchInv
<1>1. CaptionInit => FetchInv
  BY CaptionsStart
<1>2. CopiesInv => CopiesTypeOK
  BY DEF CopiesInv, Types
<1>3. CopiesInv /\ FetchInv /\ [CaptionNext]_vars => FetchInv'
  BY <1>2, FetchStep
<1>4. QED
  BY <1>1, <1>3, CopiesHold, PTL DEF CaptionSpec

\* The copies, the cache and the runs keep their types.
THEOREM CopiesTypes == CaptionSpec => []CopiesTypeOK
<1>1. CopiesInv => CopiesTypeOK
  BY DEF CopiesInv, Types
<1>2. QED
  BY <1>1, CopiesHold, PTL

LEMMA TargetTypes ==
    ASSUME NEW i \in Info, NEW s \in CaptionTargets(i)
    PROVE  s \in {<<>>} \cup {<<t>> : t \in Track} \cup (Track \X Track)
<1>1. Allowed(i) \subseteq Track
  BY CaptionsAssumption DEF Allowed, Info
<1>2. \/ s = <<>>
      \/ \E t \in Allowed(i) : s = <<t>>
      \/ \E t \in Allowed(i), u \in Allowed(i) : s = <<t, u>>
  BY TargetShape
<1>3. CASE s = <<>>
  BY <1>3
<1>4. CASE \E t \in Allowed(i) : s = <<t>>
  BY <1>1, <1>4
<1>5. CASE \E t \in Allowed(i), u \in Allowed(i) : s = <<t, u>>
  BY <1>1, <1>5
<1>6. QED
  BY <1>2, <1>3, <1>4, <1>5

LEMMA TailTypes ==
    ASSUME NEW s \in {<<>>} \cup {<<t>> : t \in Track} \cup (Track \X Track), s # <<>>
    PROVE  Tail(s) \in {<<>>} \cup {<<t>> : t \in Track}
<1>1. CASE s \in {<<t>> : t \in Track}
  <2>1. PICK t \in Track : s = <<t>>
    BY <1>1
  <2>2. Tail(<<t>>) = <<>>
    OBVIOUS
  <2>3. QED
    BY <2>1, <2>2
<1>2. CASE s \in Track \X Track
  <2>1. PICK t \in Track, u \in Track : s = <<t, u>>
    BY <1>2
  <2>2. Tail(<<t, u>>) = <<u>>
    OBVIOUS
  <2>3. QED
    BY <2>1, <2>2
<1>3. QED
  BY <1>1, <1>2

LEMMA FetchTypesStep == FetchInv /\ FetchTypes /\ [CaptionNext]_vars => FetchTypes'
<1> SUFFICES ASSUME FetchInv, FetchTypes, [CaptionNext]_vars PROVE FetchTypes'
  OBVIOUS
<1> USE CaptionsAssumption DEF FetchTypes, fetch
<1>1. CASE BeginMedia \/ Ready \/ UNCHANGED vars
  BY <1>1 DEF BeginMedia, Ready, vars
<1>2. CASE CloseMedia
  <2>1. outcome = "none"
    BY <1>2 DEF CloseMedia, Close, FetchInv
  <2>2. attempt' \in 0 .. MetadataAttempts
    BY <1>2, <2>1 DEF CloseMedia
  <2>3. QED
    BY <1>2, <2>2 DEF CloseMedia
<1>3. CASE RetryMedia
  BY <1>3 DEF RetryMedia
<1>4. CASE EndMedia
  BY <1>4 DEF EndMedia
<1>5. CASE Pick
  <2>1. targets' \in {<<>>} \cup {<<t>> : t \in Track} \cup (Track \X Track)
    BY <1>5, TargetTypes DEF Pick
  <2>2. info' \in Info
    BY <1>5 DEF Pick, NoInfo, Info
  <2>3. QED
    BY <1>5, <2>1, <2>2 DEF Pick
<1>6. CASE BeginTarget
  BY <1>6 DEF BeginTarget
<1>7. CASE CopyRaises
  BY <1>7 DEF CopyRaises
<1>8. CASE CloseTarget
  BY <1>8 DEF CloseTarget
<1>9. CASE EndTarget
  <2>1. targets' \in {<<>>} \cup {<<t>> : t \in Track}
    BY <1>9, TailTypes DEF EndTarget
  <2>2. /\ stage' \in {"raised", "read", "missed", "next"}
        /\ stage' = "next" => targets' # <<>>
    BY <1>9 DEF EndTarget
  <2>3. QED
    BY <1>9, <2>1, <2>2 DEF EndTarget
<1>10. CASE Submit
  <2>1. caption'.lines \in Spoken /\ caption'.rolling \in BOOLEAN
    BY <1>10 DEF Submit
  <2>2. QED
    BY <1>10, <2>1 DEF Submit
<1>11. CASE \E t \in Thread \ {Fetcher} : Other(t)
  BY <1>11 DEF Other
<1>12. CASE Replace /\ UNCHANGED fetch
  BY <1>12
<1>13. QED
  BY <1>1, <1>2, <1>3, <1>4, <1>5, <1>6, <1>7, <1>8, <1>9, <1>10, <1>11, <1>12
    DEF CaptionNext

\* The fast path makes no more metadata attempts than MetadataAttempts, knows
\* tracks only, and begins no download without a target.
THEOREM FetchKeepsTypes == CaptionSpec => []FetchTypes
<1>1. CaptionInit => FetchTypes
  BY CaptionsStart
<1>2. FetchInv /\ FetchTypes /\ [CaptionNext]_vars => FetchTypes'
  BY FetchTypesStep
<1>3. QED
  BY <1>1, <1>2, FetchHolds, PTL DEF CaptionSpec

\* Whatever the runs of a process do at once and whatever the host does to the
\* file, no run's cookies are of a state the file had left before it asked.  And
\* a run has all the cookies of such a state unless another run was making a
\* copy at the time, the file changed since or could not be read, or a run has
\* met another one's save in its copy.
THEOREM CookiesAreCurrent == CaptionSpec => []CurrentCookies
<1>1. CopiesInv => CurrentCookies
  <2> SUFFICES ASSUME CopiesInv, NEW t \in Thread, at[t] = "open"
               PROVE  /\ loaded[t] \in Version /\ key[t] # None => loaded[t] >= key[t]
                      /\ t \in sure /\ held[t] \notin spoilt => loaded[t] \in Version
    BY DEF CurrentCookies
  <2>1. held[t] # None /\ Types
    BY DEF CopiesInv, Types, RunInv, Using
  <2>2. loaded[t] \in Version /\ key[t] # None => loaded[t] >= key[t]
    BY <2>1 DEF CopiesInv, FloorInv, NoOlder
  <2>3. ASSUME t \in sure, held[t] \notin spoilt PROVE loaded[t] \in Version
    <3>1. held[t] = cache[version]
      BY <2>3 DEF CopiesInv, SureInv, Using
    <3>2. WholeCopy(cache[version])
      BY <2>1, <2>3, <3>1 DEF CopiesInv, WholeInv
    <3>3. QED
      BY <3>1, <3>2 DEF WholeCopy, Using
  <2>4. QED
    BY <2>2, <2>3
<1>2. QED
  BY <1>1, CopiesHold, PTL

\* No run leaves a file behind: neither a copy of the cookies, evicted under
\* it or not, nor a temporary directory, but for what a copy that failed leaves.
THEOREM FilesAreReclaimed == CaptionSpec => []FilesReclaimed
<1>1. CopiesInv /\ FetchInv => FilesReclaimed
  BY DEF CopiesInv, FetchInv, FilesReclaimed
<1>2. QED
  BY <1>1, CopiesHold, FetchHolds, PTL

\* Whatever tracks a video has, only those of its original language are
\* downloaded, one if there is one, and the best of them first.
THEOREM OnlyTheOriginalLanguage == CaptionSpec => OriginalLanguage
<1>1. ASSUME FetchInv, FetchTypes, [CaptionNext]_vars, stage = "pick", stage' # "pick"
      PROVE  /\ targets' = <<>> <=> Allowed(info) = {}
             /\ \A k \in DOMAIN targets' : targets'[k] \in Allowed(info)
             /\ targets' # <<>> => \A t \in Allowed(info) : ~Beats(info, t, targets'[1])
  <2>1. ~CopyRaises
    BY <1>1 DEF FetchInv, CopyRaises, Fail
  <2>2. Pick
    <3>1. ~(Ready \/ (Replace /\ UNCHANGED fetch) \/ UNCHANGED vars)
      BY <1>1 DEF Ready, fetch, vars
    <3>2. ~\E t \in Thread \ {Fetcher} : Other(t)
      BY <1>1 DEF Other, fetch
    <3>3. ~(BeginMedia \/ CloseMedia \/ RetryMedia \/ EndMedia)
      BY <1>1 DEF BeginMedia, CloseMedia, RetryMedia, EndMedia
    <3>4. ~(BeginTarget \/ CloseTarget \/ EndTarget \/ Submit)
      BY <1>1 DEF BeginTarget, CloseTarget, EndTarget, Submit
    <3>5. QED
      BY <1>1, <2>1, <3>1, <3>2, <3>3, <3>4 DEF CaptionNext
  <2> DEFINE rank(t) == Rank(t, Allowed(info) \cap info.manual)
             best == {t \in Allowed(info) : \A u \in Allowed(info) : rank(t) <= rank(u)}
  <2>3. info \in Info /\ targets' \in CaptionTargets(info)
    BY <1>1, <2>2 DEF FetchTypes, Pick
  <2>4. \/ targets' = <<>> /\ Allowed(info) = {}
        \/ \E t \in best : targets' = <<t>>
        \/ \E t \in best, u \in Allowed(info) : targets' = <<t, u>>
    BY <2>3, TargetShape
  <2>5. \A t \in best : t \in Allowed(info) /\ \A u \in Allowed(info) : ~Beats(info, u, t)
    BY <2>3, BestUnbeaten
  <2> HIDE DEF best
  <2>6. CASE targets' = <<>> /\ Allowed(info) = {}
    BY <2>6
  <2>7. CASE \E t \in best : targets' = <<t>>
    <3>1. PICK t \in best : targets' = <<t>>
      BY <2>7
    <3>2. DOMAIN targets' = {1} /\ targets'[1] = t /\ targets' # <<>>
      BY <3>1
    <3>3. QED
      BY <2>5, <3>2
  <2>8. CASE \E t \in best, u \in Allowed(info) : targets' = <<t, u>>
    <3>1. PICK t \in best, u \in Allowed(info) : targets' = <<t, u>>
      BY <2>8
    <3>2. /\ DOMAIN targets' = {1, 2} /\ targets'[1] = t /\ targets'[2] = u
          /\ targets' # <<>>
      BY <3>1
    <3>3. QED
      BY <2>5, <3>2
  <2>9. QED
    BY <2>4, <2>6, <2>7, <2>8
<1>2. QED
  BY <1>1, FetchHolds, FetchKeepsTypes, PTL DEF CaptionSpec, OriginalLanguage

\* The words of what was submitted.
WordsInv ==
    /\ \A i \in DOMAIN words : words[i].word \in Word
    /\ WordsOnce

LEMMA WordsHold == CaptionSpec => []WordsInv
<1>1. CaptionInit => WordsInv
  <2> SUFFICES ASSUME CaptionInit PROVE WordsInv
    OBVIOUS
  <2>1. words = <<>> /\ stage = "media"
    BY DEF CaptionInit
  <2>2. \A i \in DOMAIN words : words[i].word \in Word
    <3>1. DOMAIN words = {}
      BY <2>1
    <3>2. QED
      BY <3>1
  <2>3. QED
    BY <2>1, <2>2 DEF WordsInv, WordsOnce
<1>2. WordsInv /\ [CaptionNext]_vars => WordsInv'
  <2> SUFFICES ASSUME WordsInv, [CaptionNext]_vars PROVE WordsInv'
    OBVIOUS
  <2>1. CASE Submit
    <3>1. PICK lines \in Spoken, rolling \in BOOLEAN :
             /\ caption' = [lines |-> lines, rolling |-> rolling]
             /\ words' = BuildSubmission(ParseVtt(
                             IF rolling THEN RollingCues(lines) ELSE ManualCues(lines)))
      BY <2>1 DEF Submit
    <3>2. caption'.lines = lines /\ caption'.rolling = rolling
      BY <3>1
    <3>3. WordsOf(words', lines, rolling)
      BY <3>1, Submitted
    <3>4. QED
      BY <3>2, <3>3 DEF WordsOf, WordsInv, WordsOnce
  <2>2. CASE ~Submit
    <3>1. UNCHANGED <<caption, words>> /\ (stage' = "submitted" => stage = "submitted")
      <4>1. CASE BeginMedia \/ CloseMedia \/ RetryMedia \/ EndMedia
        BY <4>1 DEF BeginMedia, CloseMedia, RetryMedia, EndMedia, fetch
      <4>2. CASE Pick \/ BeginTarget \/ Ready \/ CopyRaises
        BY <4>2 DEF Pick, BeginTarget, Ready, CopyRaises, fetch
      <4>3. CASE CloseTarget \/ EndTarget
        BY <4>3 DEF CloseTarget, EndTarget
      <4>4. CASE (\E t \in Thread \ {Fetcher} : Other(t)) \/ UNCHANGED fetch
        BY <4>4 DEF Other, fetch
      <4>5. QED
        BY <2>2, <4>1, <4>2, <4>3, <4>4 DEF CaptionNext, vars
    <3>2. QED
      BY <3>1 DEF WordsInv, WordsOnce
  <2>3. QED
    BY <2>1, <2>2
<1>3. QED
  BY <1>1, <1>2, PTL DEF CaptionSpec

\* Whatever is spoken and whichever way a file repeats it, every word it gives
\* is submitted once, in order and in time, and nothing else is: all words of
\* human captions and, of rolling ones with any stamp at all, those after the
\* first of their line, so that a line of one word is lost whole.
THEOREM WordsAreOnce == CaptionSpec => []WordsOnce
<1>1. WordsInv => WordsOnce
  BY DEF WordsInv
<1>2. QED
  BY <1>1, WordsHold, PTL

\* The copies, the fast path and the words it submits keep their types.
THEOREM CaptionTypes == CaptionSpec => []CaptionTypeOK
<1>1. CopiesTypeOK /\ FetchTypes /\ WordsInv => CaptionTypeOK
  BY DEF FetchTypes, WordsInv, CaptionTypeOK
<1>2. QED
  BY <1>1, CopiesTypes, FetchKeepsTypes, WordsHold, PTL

=============================================================================
