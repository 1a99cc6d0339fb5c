------------------------- MODULE CookieRefreshProofs -------------------------
(***************************************************************************)
(* Proofs about CookieRefresh, for any number of overlapping runs of the   *)
(* script and of deploys, and any rotations and inodes.                    *)
(***************************************************************************)
EXTENDS CookieRefresh, TLAPS

\* Only a writer has a file open; and as long as the runs have not crossed,
\* there is one at most, and no deploy beside it.
AloneInv ==
    /\ \A p \in Process : fd[p] # None => at[p] = "write"
    /\ \A d \in Deploy : at[d] \in {"idle", "write"}
    /\ ~crossed =>
          /\ \A c, e \in Cron : at[c] # "idle" /\ at[e] # "idle" => c = e
          /\ \A c \in Cron, d \in Deploy : at[c] # "idle" => at[d] = "idle"

\* Nothing is from a session to come, and the export has a file of its own.
AgeInv ==
    /\ \A i \in Inode : content[i] <= session
    /\ \A c \in Cron : took[c] <= session
    /\ fresh # None => fresh # cookies

\* What a run that has met no other writer has in its hands: an export no older
\* than the file it will replace and, from the opening of fresh-cookies.txt on,
\* that file.
RunInv ==
    ~crossed => \A c \in Cron :
        /\ at[c] \in {"open", "write"} => content[cookies] <= took[c]
        /\ at[c] = "write" => fresh # None /\ fd[c] = fresh /\ content[fresh] = Torn
        /\ at[c] \in {"check", "move"} =>
              fresh # None /\ content[fresh] \in Session /\ content[cookies] <= content[fresh]

CookieInv == TypeOK /\ AloneInv /\ AgeInv /\ RunInv

\* The numbers there are.
LEMMA Numbers ==
    /\ Session \subseteq Int /\ 0 \in Session /\ \A v \in Session : v >= 0
    /\ Inode \subseteq Int /\ 0 \in Inode /\ None \notin Inode
    /\ Torn \in Int /\ Mixed \in Int /\ Torn < 0 /\ Mixed < 0 /\ Torn # Mixed
BY CookieAssumption DEF Session, Inode, Torn, Mixed, None

LEMMA CookieInit == Init => CookieInv
BY CookieAssumption, Numbers
DEF Init, CookieInv, TypeOK, AloneInv, AgeInv, RunInv, Process, None

\* The two ways a file is written, as far as it matters who else writes it.
LEMMA Written ==
    ASSUME NEW p \in Process, NEW v, Put(p, v)
    PROVE  \E x \in {v, Mixed} :
              /\ content' = [content EXCEPT ![fd[p]] = x]
              /\ content[fd[p]] = Torn => x = v
              /\ fd' = [fd EXCEPT ![p] = None]
BY DEF Put

LEMMA Truncated ==
    ASSUME NEW p \in Process, NEW i \in Inode, Truncate(p, i)
    PROVE  \E x \in {Torn, Mixed} :
              /\ content' = [content EXCEPT ![i] = x]
              /\ Writing(i) = {} => x = Torn
              /\ fd' = [fd EXCEPT ![p] = i]
BY DEF Truncate

\* fresh-cookies.txt is opened as it is, or as a file nobody has.
LEMMA Opened ==
    ASSUME TypeOK, NEW c \in Cron, Open(c)
    PROVE  \E i \in Inode :
              /\ fresh' = i /\ Truncate(c, i)
              /\ i = fresh \/ (i # cookies /\ fresh = None)
BY Numbers DEF Open, TypeOK, InUse

LEMMA CookieTypeStep == TypeOK /\ [Next]_vars => TypeOK'
<1> SUFFICES ASSUME TypeOK, [Next]_vars PROVE TypeOK'
  OBVIOUS
<1> USE Numbers DEF TypeOK, host, files, Goto
<1>1. CASE Touch \/ UNCHANGED vars
  BY <1>1 DEF Touch, vars
<1>2. CASE Rotate
  BY <1>2, CookieAssumption DEF Rotate, Session
<1>3. ASSUME NEW c \in Cron, Begin(c) \/ Fetch(c) \/ Check(c)
      PROVE  TypeOK'
  BY <1>3 DEF Begin, Fetch, Check, Process
<1>4. ASSUME NEW c \in Cron, CheckFails(c) \/ Clear(c)
      PROVE  TypeOK'
  <2>1. crossed' \in BOOLEAN
    BY <1>4 DEF CheckFails, Clear, Exit
  <2>2. /\ at' = [at EXCEPT ![c] = "idle"] /\ took' = [took EXCEPT ![c] = 0]
        /\ marker' \in {marker, FALSE}
        /\ UNCHANGED <<session, content, fd, fresh, cookies>>
    BY <1>4 DEF CheckFails, Clear, Exit
  <2>3. QED
    BY <2>1, <2>2 DEF Process
<1>5. ASSUME NEW c \in Cron, ExportFails(c)
      PROVE  TypeOK'
  BY <1>5 DEF ExportFails, Drop, Exit, Process
<1>6. ASSUME NEW c \in Cron, Move(c)
      PROVE  TypeOK'
  BY <1>6 DEF Move, Process
<1>7. ASSUME NEW c \in Cron, Open(c)
      PROVE  TypeOK'
  <2>1. PICK i \in Inode : fresh' = i /\ Truncate(c, i)
    BY <1>7, Opened
  <2>2. PICK x \in {Torn, Mixed} : /\ content' = [content EXCEPT ![i] = x]
                                   /\ fd' = [fd EXCEPT ![c] = i]
    BY <2>1, Truncated DEF Process
  <2>3. QED
    BY <1>7, <2>1, <2>2 DEF Open
<1>8. ASSUME NEW c \in Cron, Write(c)
      PROVE  TypeOK'
  <2>1. PICK x \in {took[c], Mixed} : /\ content' = [content EXCEPT ![fd[c]] = x]
                                      /\ fd' = [fd EXCEPT ![c] = None]
    BY <1>8, Written DEF Process, Write
  <2>2. QED
    BY <1>8, <2>1 DEF Write
<1>9. ASSUME NEW d \in Deploy, DeployOpen(d)
      PROVE  TypeOK'
  <2>1. PICK x \in {Torn, Mixed} : /\ content' = [content EXCEPT ![cookies] = x]
                                   /\ fd' = [fd EXCEPT ![d] = cookies]
    BY <1>9, Truncated DEF Process, DeployOpen
  <2>2. QED
    BY <1>9, <2>1 DEF DeployOpen
<1>10. ASSUME NEW d \in Deploy, DeployWrite(d)
      PROVE  TypeOK'
  <2>1. PICK v \in 0 .. session \cup {Mixed} : Put(d, v)
    BY <1>10 DEF DeployWrite
  <2>2. PICK x \in {v, Mixed} : /\ content' = [content EXCEPT ![fd[d]] = x]
                                /\ fd' = [fd EXCEPT ![d] = None]
    BY <2>1, Written DEF Process
  <2>3. x \in Session \cup {Torn, Mixed}
    BY <2>1, <2>2, CookieAssumption DEF Session
  <2>4. QED
    BY <1>10, <2>2, <2>3 DEF DeployWrite
<1>11. ASSUME NEW d \in Deploy, DeployFails(d)
      PROVE  TypeOK'
  BY <1>11 DEF DeployFails, Drop, Process
<1>12. QED
  <2>1. ASSUME NEW c \in Cron, Script(c) \/ Forced(c) \/ ExportFails(c)
        PROVE  TypeOK'
    BY <1>3, <1>4, <1>5, <1>6, <1>7, <1>8, <2>1 DEF Script, Wake, Forced
  <2>2. ASSUME NEW d \in Deploy, DeployOpen(d) \/ DeployWrite(d) \/ DeployFails(d)
        PROVE  TypeOK'
    BY <1>9, <1>10, <1>11, <2>2
  <2>3. QED
    BY <1>1, <1>2, <2>1, <2>2 DEF Next

LEMMA AloneStep == TypeOK /\ AloneInv /\ [Next]_vars => AloneInv'
<1> SUFFICES ASSUME TypeOK, AloneInv, [Next]_vars PROVE AloneInv'
  OBVIOUS
<1> USE CookieAssumption DEF AloneInv, TypeOK, host, files, Goto, Process
<1>1. CASE Touch \/ Rotate \/ UNCHANGED vars
  BY <1>1 DEF Touch, Rotate, vars
<1>2. ASSUME NEW c \in Cron, Begin(c)
      PROVE  AloneInv'
  <2>1. crossed' = (crossed \/ Running \cup Copying # {})
    BY <1>2 DEF Begin
  <2>2. ~crossed' => /\ \A e \in Cron : at[e] = "idle"
                     /\ \A d \in Deploy : at[d] = "idle"
    BY <2>1 DEF Running, Copying
  <2>3. at' = [at EXCEPT ![c] = "fetch"] /\ fd' = fd /\ at[c] = "idle"
    BY <1>2 DEF Begin
  <2>4. QED
    BY <2>2, <2>3
<1>3. ASSUME NEW c \in Cron, Fetch(c) \/ Check(c) \/ Move(c)
      PROVE  AloneInv'
  BY <1>3 DEF Fetch, Check, Move
<1>4. ASSUME NEW c \in Cron, CheckFails(c) \/ Clear(c)
      PROVE  AloneInv'
  BY <1>4 DEF CheckFails, Clear, Exit, Running
<1>5. ASSUME NEW c \in Cron, ExportFails(c)
      PROVE  AloneInv'
  BY <1>5 DEF ExportFails, Drop, Exit, Running
<1>6. ASSUME NEW c \in Cron, Open(c)
      PROVE  AloneInv'
  BY <1>6 DEF Open, Truncate
<1>7. ASSUME NEW c \in Cron, Write(c)
      PROVE  AloneInv'
  BY <1>7 DEF Write, Put
<1>8. ASSUME NEW d \in Deploy, DeployOpen(d)
      PROVE  AloneInv'
  BY <1>8 DEF DeployOpen, Truncate, Running
<1>9. ASSUME NEW d \in Deploy, DeployWrite(d) \/ DeployFails(d)
      PROVE  AloneInv'
  BY <1>9 DEF DeployWrite, DeployFails, Put, Drop
<1>10. QED
  <2>1. ASSUME NEW c \in Cron, Script(c) \/ Forced(c) \/ ExportFails(c)
        PROVE  AloneInv'
    BY <1>2, <1>3, <1>4, <1>5, <1>6, <1>7, <2>1 DEF Script, Wake, Forced
  <2>2. ASSUME NEW d \in Deploy, DeployOpen(d) \/ DeployWrite(d) \/ DeployFails(d)
        PROVE  AloneInv'
    BY <1>8, <1>9, <2>2
  <2>3. QED
    BY <1>1, <2>1, <2>2 DEF Next

LEMMA AgeStep == TypeOK /\ AgeInv /\ [Next]_vars => AgeInv'
<1> SUFFICES ASSUME TypeOK, AgeInv, [Next]_vars PROVE AgeInv'
  OBVIOUS
<1> USE Numbers DEF AgeInv, TypeOK, host, files
<1>0. /\ session \in Int /\ session >= 0
      /\ \A i \in Inode : content[i] \in Int
      /\ \A c \in Cron : took[c] \in Int
  OBVIOUS
<1>1. CASE Touch \/ UNCHANGED vars
  BY <1>1 DEF Touch, vars
<1>2. CASE Rotate
  BY <1>0, <1>2 DEF Rotate
<1>3. ASSUME NEW c \in Cron, Begin(c) \/ Fetch(c) \/ Check(c) \/ CheckFails(c) \/ Clear(c)
      PROVE  AgeInv'
  BY <1>0, <1>3 DEF Begin, Fetch, Check, CheckFails, Clear, Exit
<1>4. ASSUME NEW c \in Cron, ExportFails(c) \/ Move(c)
      PROVE  AgeInv'
  BY <1>0, <1>4 DEF ExportFails, Drop, Exit, Move
<1>5. ASSUME NEW c \in Cron, Open(c)
      PROVE  AgeInv'
  <2>1. PICK i \in Inode : fresh' = i /\ Truncate(c, i) /\ (i = fresh \/ i # cookies)
    BY <1>5, Opened
  <2>2. PICK x \in {Torn, Mixed} : content' = [content EXCEPT ![i] = x]
    BY <2>1, Truncated DEF Process
  <2>3. QED
    BY <1>0, <1>5, <2>1, <2>2 DEF Open
<1>6. ASSUME NEW c \in Cron, Write(c)
      PROVE  AgeInv'
  <2>1. PICK x \in {took[c], Mixed} : content' = [content EXCEPT ![fd[c]] = x]
    BY <1>6, Written DEF Process, Write
  <2>2. x <= session
    BY <1>0, <2>1
  <2>3. QED
    BY <1>0, <1>6, <2>1, <2>2 DEF Write
<1>7. ASSUME NEW d \in Deploy, DeployOpen(d)
      PROVE  AgeInv'
  <2>1. PICK x \in {Torn, Mixed} : content' = [content EXCEPT ![cookies] = x]
    BY <1>7, Truncated DEF Process, DeployOpen
  <2>2. QED
    BY <1>0, <1>7, <2>1 DEF DeployOpen
<1>8. ASSUME NEW d \in Deploy, DeployWrite(d)
      PROVE  AgeInv'
  <2>1. PICK v \in 0 .. session \cup {Mixed} : Put(d, v)
    BY <1>8 DEF DeployWrite
  <2>2. PICK x \in {v, Mixed} : content' = [content EXCEPT ![fd[d]] = x]
    BY <2>1, Written DEF Process
  <2>3. x <= session
    BY <1>0, <2>1, <2>2
  <2>4. QED
    BY <1>0, <1>8, <2>2, <2>3 DEF DeployWrite
<1>9. ASSUME NEW d \in Deploy, DeployFails(d)
      PROVE  AgeInv'
  BY <1>0, <1>9 DEF DeployFails, Drop
<1>10. QED
  <2>1. ASSUME NEW c \in Cron, Script(c) \/ Forced(c) \/ ExportFails(c)
        PROVE  AgeInv'
    BY <1>3, <1>4, <1>5, <1>6, <2>1 DEF Script, Wake, Forced
  <2>2. ASSUME NEW d \in Deploy, DeployOpen(d) \/ DeployWrite(d) \/ DeployFails(d)
        PROVE  AgeInv'
    BY <1>7, <1>8, <1>9, <2>2
  <2>3. QED
    BY <1>1, <1>2, <2>1, <2>2 DEF Next

\* While a run is alone no other process moves cookies.txt or fresh-cookies.txt
\* or writes to them.
LEMMA RunStep == CookieInv /\ [Next]_vars => RunInv'
<1> SUFFICES ASSUME CookieInv, [Next]_vars, ~crossed' PROVE RunInv'
  BY DEF RunInv
<1> USE Numbers DEF host, files, Goto
<1>0. /\ session \in Int /\ cookies \in Inode /\ fresh \in Inode \cup {None}
      /\ content \in [Inode -> Session \cup {Torn, Mixed}]
      /\ at \in [Process -> {"idle", "fetch", "open", "write", "check", "move", "clear"}]
      /\ took \in [Cron -> Session] /\ fd \in [Process -> Inode \cup {None}]
      /\ crossed \in BOOLEAN /\ \A c \in Cron : c \in Process
  BY DEF CookieInv, TypeOK, Process
<1>1. ASSUME \A c \in Cron : at'[c] \notin {"open", "write", "check", "move"}
      PROVE  RunInv'
  BY <1>1 DEF RunInv
<1>2. CASE Touch \/ Rotate \/ UNCHANGED vars
  BY <1>0, <1>2 DEF CookieInv, RunInv, Touch, Rotate, vars
<1>3. ASSUME NEW c \in Cron, ~crossed, at[c] # "idle"
      PROVE  \A e \in Cron : e # c => at[e] = "idle"
  BY <1>3 DEF CookieInv, AloneInv
<1>4. ASSUME NEW c \in Cron, Begin(c)
      PROVE  RunInv'
  <2>1. \A e \in Cron : at[e] = "idle"
    BY <1>4 DEF Begin, Running
  <2>2. QED
    BY <1>0, <1>1, <1>4, <2>1 DEF Begin
<1>5. ASSUME NEW c \in Cron, CheckFails(c) \/ Clear(c) \/ ExportFails(c)
      PROVE  RunInv'
  <2>1. at' = [at EXCEPT ![c] = "idle"] /\ at[c] # "idle" /\ (crossed => Running = {c})
    BY <1>5 DEF CheckFails, Clear, ExportFails, Exit
  <2>2. \A e \in Cron : e # c => at[e] = "idle"
    BY <1>0, <1>3, <2>1 DEF Running
  <2>3. QED
    BY <1>0, <1>1, <2>1, <2>2
<1>6. ASSUME NEW c \in Cron, Fetch(c)
      PROVE  RunInv'
  <2>1. /\ ~crossed /\ at[c] # "idle" /\ content' = content /\ cookies' = cookies
        /\ at' = [at EXCEPT ![c] = "open"] /\ took' = [took EXCEPT ![c] = session]
    BY <1>6 DEF Fetch
  <2>2. content[cookies] <= session
    BY <1>0 DEF CookieInv, AgeInv
  <2>3. QED
    BY <1>0, <1>3, <2>1, <2>2 DEF RunInv
<1>7. ASSUME NEW c \in Cron, Open(c)
      PROVE  RunInv'
  <2>1. PICK i \in Inode : fresh' = i /\ Truncate(c, i) /\ (i = fresh \/ i # cookies)
    BY <1>7, Opened DEF CookieInv
  <2>2. PICK x \in {Torn, Mixed} : /\ content' = [content EXCEPT ![i] = x]
                                   /\ Writing(i) = {} => x = Torn
                                   /\ fd' = [fd EXCEPT ![c] = i]
    BY <2>1, Truncated DEF Process
  <2>3. /\ ~crossed /\ at[c] = "open" /\ at' = [at EXCEPT ![c] = "write"]
        /\ cookies' = cookies /\ took' = took
    BY <1>7 DEF Open
  <2>4. ASSUME NEW p \in Process, fd[p] = i
        PROVE  FALSE
    <3>1. at[p] = "write"
      BY <2>4 DEF CookieInv, AloneInv
    <3>2. p \notin Cron
      BY <1>3, <2>3, <3>1
    <3>3. p \notin Deploy
      BY <2>3, <3>1 DEF CookieInv, AloneInv
    <3>4. QED
      BY <3>2, <3>3 DEF Process
  <2>5. x = Torn
    BY <2>2, <2>4 DEF Writing
  <2>6. i # cookies
    BY <1>0, <2>1 DEF CookieInv, AgeInv
  <2>7. content[cookies] <= took[c]
    BY <2>3 DEF CookieInv, RunInv
  <2>8. QED
    BY <1>0, <1>3, <2>1, <2>2, <2>3, <2>5, <2>6, <2>7 DEF RunInv
<1>8. ASSUME NEW c \in Cron, Write(c)
      PROVE  RunInv'
  <2>1. /\ ~crossed /\ at[c] = "write" /\ at' = [at EXCEPT ![c] = "check"]
        /\ cookies' = cookies /\ fresh' = fresh /\ Put(c, took[c])
    BY <1>8 DEF Write
  <2>2. /\ fresh # None /\ fd[c] = fresh /\ content[fresh] = Torn
        /\ content[cookies] <= took[c] /\ fresh # cookies
    BY <2>1 DEF CookieInv, RunInv, AgeInv
  <2>3. content' = [content EXCEPT ![fresh] = took[c]]
    BY <1>0, <2>1, <2>2, Written
  <2>4. content'[fresh] \in Session /\ content'[cookies] <= content'[fresh]
    BY <1>0, <2>2, <2>3
  <2>5. QED
    BY <1>0, <1>3, <2>1, <2>2, <2>4 DEF RunInv
<1>9. ASSUME NEW c \in Cron, Check(c)
      PROVE  RunInv'
  BY <1>0, <1>3, <1>9 DEF CookieInv, RunInv, Check
<1>10. ASSUME NEW c \in Cron, Move(c)
       PROVE  RunInv'
  BY <1>0, <1>1, <1>3, <1>10 DEF Move
<1>11. ASSUME NEW d \in Deploy, DeployOpen(d)
       PROVE  RunInv'
  <2>1. \A c \in Cron : at[c] = "idle" /\ at'[c] = at[c]
    BY <1>0, <1>11, CookieAssumption DEF DeployOpen, Running
  <2>2. QED
    BY <1>1, <2>1
<1>12. ASSUME NEW d \in Deploy, DeployWrite(d) \/ DeployFails(d)
       PROVE  RunInv'
  <2>1. /\ ~crossed /\ at[d] = "write" /\ at' = [at EXCEPT ![d] = "idle"]
    BY <1>12 DEF DeployWrite, DeployFails
  <2>2. \A c \in Cron : at[c] = "idle" /\ at'[c] = at[c]
    BY <1>0, <2>1, CookieAssumption DEF CookieInv, AloneInv
  <2>3. QED
    BY <1>1, <2>2
<1>13. QED
  <2>1. ASSUME NEW c \in Cron, Script(c) \/ Forced(c) \/ ExportFails(c)
        PROVE  RunInv'
    BY <1>4, <1>5, <1>6, <1>7, <1>8, <1>9, <1>10, <2>1 DEF Script, Wake, Forced
  <2>2. ASSUME NEW d \in Deploy, DeployOpen(d) \/ DeployWrite(d) \/ DeployFails(d)
        PROVE  RunInv'
    BY <1>11, <1>12, <2>2
  <2>3. QED
    BY <1>2, <2>1, <2>2 DEF Next

LEMMA CookieStep == CookieInv /\ [Next]_vars => CookieInv'
BY CookieTypeStep, AloneStep, AgeStep, RunStep DEF CookieInv

\* What one step does to a file a reader may have.
Whole ==
    /\ content'[cookies'] # content[cookies] =>
          /\ content'[cookies'] \in Session
          /\ content[cookies] \in Session => content'[cookies'] > content[cookies]
    /\ \A i \in Inode : content'[i] # content[i] => i = fresh'

\* Only the rename puts another content under the name, and only the export's
\* own file is written.
LEMMA WholeStep ==
    ASSUME CookieInv, [Next]_vars, Undisturbed, Undisturbed'
    PROVE  Whole
<1> USE Numbers DEF host, files
<1>0. /\ cookies \in Inode /\ fresh \in Inode \cup {None}
      /\ content \in [Inode -> Session \cup {Torn, Mixed}]
      /\ at \in [Process -> {"idle", "fetch", "open", "write", "check", "move", "clear"}]
      /\ took \in [Cron -> Session] /\ fd \in [Process -> Inode \cup {None}]
  BY DEF CookieInv, TypeOK
<1>1. ASSUME content' = content, cookies' = cookies
      PROVE  Whole
  BY <1>1 DEF Whole
<1>2. CASE Touch \/ Rotate \/ UNCHANGED vars
  BY <1>1, <1>2 DEF Touch, Rotate, vars
<1>3. ASSUME NEW c \in Cron,
             Begin(c) \/ Fetch(c) \/ Check(c) \/ CheckFails(c) \/ Clear(c) \/ ExportFails(c)
      PROVE  Whole
  BY <1>1, <1>3 DEF Begin, Fetch, Check, CheckFails, Clear, ExportFails, Drop
<1>4. ASSUME NEW c \in Cron, Open(c)
      PROVE  Whole
  <2>1. PICK i \in Inode : fresh' = i /\ Truncate(c, i) /\ (i = fresh \/ i # cookies)
    BY <1>4, Opened DEF CookieInv
  <2>2. PICK x : content' = [content EXCEPT ![i] = x]
    BY <2>1 DEF Truncate
  <2>3. cookies' = cookies /\ i # cookies
    BY <1>0, <1>4, <2>1 DEF Open, CookieInv, AgeInv
  <2>4. QED
    BY <1>0, <2>1, <2>2, <2>3 DEF Whole
<1>5. ASSUME NEW c \in Cron, Write(c)
      PROVE  Whole
  <2>1. at[c] = "write" /\ cookies' = cookies /\ fresh' = fresh
    BY <1>5 DEF Write
  <2>2. fd[c] = fresh /\ fresh # None /\ fresh # cookies
    BY <2>1 DEF Undisturbed, CookieInv, RunInv, AgeInv
  <2>3. PICK x : content' = [content EXCEPT ![fresh] = x]
    BY <1>5, <2>2 DEF Write, Put
  <2>4. QED
    BY <1>0, <2>1, <2>2, <2>3 DEF Whole
<1>6. ASSUME NEW c \in Cron, Move(c)
      PROVE  Whole
  <2>1. at[c] = "move" /\ content' = content
    BY <1>6 DEF Move
  <2>2. fresh # None /\ content[fresh] \in Session /\ content[cookies] <= content[fresh]
    BY <2>1 DEF Undisturbed, CookieInv, RunInv
  <2>3. cookies' = fresh
    BY <1>6, <2>2 DEF Move
  <2>4. content[cookies] \in Int /\ content[fresh] \in Int
    BY <1>0, <2>2
  <2>5. QED
    BY <2>1, <2>2, <2>3, <2>4 DEF Whole
<1>7. ASSUME NEW d \in Deploy, DeployOpen(d)
      PROVE  Whole
  <2>1. at'[d] = "write"
    BY <1>0, <1>7 DEF DeployOpen, Goto, Process
  <2>2. QED
    BY <2>1 DEF Undisturbed, Copying
<1>8. ASSUME NEW d \in Deploy, DeployWrite(d) \/ DeployFails(d)
      PROVE  Whole
  BY <1>8 DEF DeployWrite, DeployFails, Undisturbed, Copying
<1>9. QED
  <2>1. ASSUME NEW c \in Cron, Script(c) \/ Forced(c) \/ ExportFails(c)
        PROVE  Whole
    BY <1>3, <1>4, <1>5, <1>6, <2>1 DEF Script, Wake, Forced
  <2>2. ASSUME NEW d \in Deploy, DeployOpen(d) \/ DeployWrite(d) \/ DeployFails(d)
        PROVE  Whole
    BY <1>7, <1>8, <2>2
  <2>3. QED
    BY <1>2, <2>1, <2>2 DEF Next

\* In every reachable state the files and the places of the processes are well
\* typed, however many runs of the script and deploys overlap.
THEOREM CookieTypes == Spec => []TypeOK
BY CookieInit, CookieTypeStep, PTL DEF Spec, CookieInv

\* However many runs of the script overlapped before, and whatever deploys and
\* exports failed in the middle: while none overlap and no deploy writes, the
\* name cookies.txt goes to whole and later exports only, and no inode a reader
\* may have is written.
THEOREM ReplacesWhole == Spec => ReplacedWhole
<1>1. CookieInv /\ [Next]_vars /\ Undisturbed /\ Undisturbed' => Whole
  BY WholeStep
<1>2. CookieInv /\ [Next]_vars
        => [ Undisturbed /\ Undisturbed' => Whole ]_vars
  BY <1>1
<1>3. QED
  BY <1>2, CookieInit, CookieStep, PTL DEF Spec, ReplacedWhole, Whole

=============================================================================
