------------------------- MODULE NotesDocumentProofs -------------------------
(***************************************************************************)
(* Proofs about NotesDocument: any transcript, any answers of the AI and   *)
(* any number of blocks.                                                   *)
(*                                                                         *)
(* NotesOf says what a sequence of blocks owes to some windows.  It holds  *)
(* of what each loop writes for its window, survives joining (Join) and    *)
(* dropping a heading (Drop), and so holds of blocks and of the windows    *)
(* that were written at every step; Numbered carries it to the document.   *)
(***************************************************************************)
EXTENDS NotesDocument, FiniteSetTheorems, SequenceTheorems, TLAPS

\* While the topics are numbered, number counts those of the document and
\* topic is the text of the last; until then the document is empty.
NumberingInv ==
    /\ TopicsNumbered
    /\ pc # "done" =>
        /\ number = Cardinality(Topics)
        /\ \A p \in Topics : doc[p].num \in 1 .. number
        /\ \A p \in Topics : doc[p].num = number => doc[p].text = topic
    /\ pc \notin {"number", "done"} => doc = <<>> /\ number = 0

\* Appending to a sequence, whatever it holds.
LEMMA Appended ==
    ASSUME NEW s, NEW b, s \in Seq({s[p] : p \in DOMAIN s})
    PROVE  /\ Len(s) \in Nat
           /\ DOMAIN s = 1 .. Len(s)
           /\ DOMAIN Append(s, b) = 1 .. Len(s) + 1
           /\ \A p \in 1 .. Len(s) : Append(s, b)[p] = s[p]
           /\ Append(s, b)[Len(s) + 1] = b
           /\ Append(s, b) \in Seq({Append(s, b)[p] : p \in DOMAIN Append(s, b)})
<1> DEFINE S == {s[p] : p \in DOMAIN s} \cup {b}
           t == Append(s, b)
<1>1. s \in Seq(S) /\ b \in S
  BY SeqMonotonic, {s[p] : p \in DOMAIN s} \subseteq S
<1>2. Len(s) \in Nat /\ DOMAIN s = 1 .. Len(s)
  BY LenProperties
<1>3. /\ t \in Seq(S)
      /\ Len(t) = Len(s) + 1
      /\ \A p \in 1 .. Len(s) : t[p] = s[p]
      /\ t[Len(s) + 1] = b
  BY <1>1, AppendProperties
<1>4. DOMAIN t = 1 .. Len(s) + 1
  BY <1>3, LenProperties
<1> HIDE DEF t
<1>5. S \subseteq {t[p] : p \in DOMAIN t}
  <2>1. ASSUME NEW p \in DOMAIN s PROVE s[p] \in {t[q] : q \in DOMAIN t}
    BY <1>2, <1>3, <1>4
  <2>2. Len(s) + 1 \in DOMAIN t
    BY <1>2, <1>4
  <2>3. b \in {t[q] : q \in DOMAIN t}
    BY <1>3, <2>2
  <2>4. QED
    BY <2>1, <2>3
<1>6. t \in Seq({t[p] : p \in DOMAIN t})
  BY <1>3, <1>5, SeqMonotonic
<1>7. QED
  BY <1>2, <1>3, <1>4, <1>6 DEF t

-----------------------------------------------------------------------------
(* The notes of some windows. *)

\* c may come after b in a document.
Follows(b, c) ==
    /\ ~Precedes(c, b)
    /\ IsEquation(b) /\ IsEquation(c) => Precedes(b, c)
    /\ IsRaw(b) /\ IsRaw(c) => b.src[2] < c.src[1]

Ordered(s) == \A p, q \in DOMAIN s : p < q => Follows(s[p], s[q])

\* Raw transcript of some of the lines from lo to hi.
RawWithin(b, lo, hi) == lo <= b.src[1] /\ b.src[1] <= b.src[2] /\ b.src[2] <= hi

\* Every line from lo to hi is in a paragraph of raw transcript.
RawCovers(s, lo, hi) ==
    \A l \in lo .. hi : \E p \in DOMAIN s : IsRaw(s[p]) /\ l \in s[p].src[1] .. s[p].src[2]

\* What a sequence of windows contributes to a document, in order: every
\* equation the AI wrote, as reviewed, the markers where they belong, and the
\* lines of the windows it failed on, each in one paragraph.
NotesOf(s, windows) ==
    /\ s \in Seq(Blocks)
    /\ Ordered(s)
    /\ \A p \in DOMAIN s : \E c \in windows : s[p].src[1] \in c.lo .. c.hi
    /\ \A p \in DOMAIN s : IsEquation(s[p]) =>
          \E c \in windows : \E k \in DOMAIN c.answer :
             IsEquation(c.answer[k]) /\ s[p] = Reviewed(c, k)
    /\ \A c \in windows : \A k \in DOMAIN c.answer : IsEquation(c.answer[k]) =>
          \E p \in DOMAIN s : s[p] = Reviewed(c, k)
    /\ \A p \in DOMAIN s : IsRaw(s[p]) =>
          \E c \in windows : c.how = "failed" /\ RawWithin(s[p], c.lo, c.hi)
    /\ \A c \in windows : c.how = "failed" => RawCovers(s, c.lo, c.hi)
    /\ \A c \in windows : Placed(s, c)

LEMMA BlockSource ==
    ASSUME NEW b \in Blocks
    PROVE  b.src[1] \in Nat /\ b.src[2] \in Nat /\ b.src[3] \in Nat
BY DEF Blocks

\* Where a block stands does not matter to the markers of a window, only what
\* stands next to it.
LEMMA Shifted ==
    ASSUME NEW s, NEW t, NEW c, NEW d \in Int,
           DOMAIN s \subseteq Int, DOMAIN t \subseteq Int, Placed(s, c),
           \A p \in DOMAIN t : t[p].src[1] = c.lo => p - d \in DOMAIN s /\ s[p - d] = t[p],
           \A p \in DOMAIN s : s[p].src[1] = c.lo /\ s[p].kind # "heading" =>
              p + d \in DOMAIN t /\ t[p + d] = s[p]
    PROVE  Placed(t, c)
<1> DEFINE marked(u, p) == p \in DOMAIN u /\ u[p].src[1] = c.lo /\ IsMarker(u[p])
           added(u, p) == marked(u, p) /\ IsEquation(c.answer[u[p].src[3]])
           doubted(u, p) == /\ IsEquation(u[p])
                            /\ c.reviews[EquationIndex(c.answer, u[p].src[3])] \in Doubts
<1>1. ASSUME NEW p \in DOMAIN t, t[p].src[1] = c.lo
      PROVE  /\ p - d \in DOMAIN s /\ s[p - d] = t[p]
             /\ \A e \in Int : marked(t, p + e) <=> marked(s, p - d + e)
             /\ \A e \in Int : added(t, p + e) <=> added(s, p - d + e)
  <2>1. p \in Int /\ p - d \in DOMAIN s /\ s[p - d] = t[p]
    BY <1>1
  <2>2. ASSUME NEW e \in Int, marked(t, p + e)
        PROVE  marked(s, p - d + e) /\ s[p - d + e] = t[p + e]
    <3>1. (p + e) - d = p - d + e
      BY <2>1, <2>2
    <3>2. QED
      BY <2>2, <3>1
  <2>3. ASSUME NEW e \in Int, marked(s, p - d + e)
        PROVE  marked(t, p + e) /\ s[p - d + e] = t[p + e]
    <3>1. (p - d + e) + d = p + e
      BY <2>1, <2>3
    <3>2. s[p - d + e].kind # "heading"
      BY <2>3 DEF IsMarker
    <3>3. QED
      BY <2>3, <3>1, <3>2
  <2>4. QED
    BY <2>1, <2>2, <2>3
<1>2. ASSUME NEW q \in DOMAIN s, s[q].src[1] = c.lo
      PROVE  /\ doubted(s, q) => marked(s, q - 1) \/ marked(s, q + 1)
             /\ added(s, q) => /\ ~marked(s, q - 1) /\ ~marked(s, q + 1)
                               /\ marked(s, q - 2) => added(s, q - 2)
  BY <1>2 DEF Placed
<1>3. ASSUME NEW p \in DOMAIN t, t[p].src[1] = c.lo
      PROVE  /\ doubted(t, p) => marked(t, p - 1) \/ marked(t, p + 1)
             /\ added(t, p) => /\ ~marked(t, p - 1) /\ ~marked(t, p + 1)
                               /\ marked(t, p - 2) => added(t, p - 2)
  <2> DEFINE q == p - d
  <2>1. /\ p \in Int /\ q \in DOMAIN s /\ s[q] = t[p] /\ q \in Int
        /\ p - 1 = p + (-1) /\ p - 2 = p + (-2) /\ q - 1 = q + (-1) /\ q - 2 = q + (-2)
        /\ p = p + 0 /\ q = q + 0
    BY <1>1, <1>3
  <2>2. \A e \in {-2, -1, 0, 1} : /\ marked(t, p + e) <=> marked(s, q + e)
                                  /\ added(t, p + e) <=> added(s, q + e)
    BY <1>1, <1>3
  <2>3. doubted(t, p) <=> doubted(s, q)
    BY <2>1
  <2> HIDE DEF marked, added, doubted, q
  <2>4. /\ marked(t, p - 1) <=> marked(s, q - 1)
        /\ marked(t, p + 1) <=> marked(s, q + 1)
        /\ marked(t, p - 2) <=> marked(s, q - 2)
        /\ added(t, p - 2) <=> added(s, q - 2)
        /\ added(t, p) <=> added(s, q)
    <3>1. /\ marked(t, p + (-1)) <=> marked(s, q + (-1))
          /\ marked(t, p + 1) <=> marked(s, q + 1)
          /\ marked(t, p + (-2)) <=> marked(s, q + (-2))
          /\ added(t, p + (-2)) <=> added(s, q + (-2))
          /\ added(t, p + 0) <=> added(s, q + 0)
      BY <2>2
    <3>2. QED
      BY <2>1, <3>1
  <2>5. s[q].src[1] = c.lo
    BY <1>3, <2>1
  <2>6. QED
    BY <1>2, <2>1, <2>3, <2>4, <2>5
<1>4. QED
  BY <1>3 DEF Placed

\* A heading at the start is no part of what the windows contribute.
LEMMA Drop ==
    ASSUME NEW s, NEW windows, NotesOf(s, windows), s # <<>>, Head(s).kind = "heading"
    PROVE  NotesOf(Tail(s), windows)
<1> DEFINE t == Tail(s)
<1>1. s \in Seq(Blocks) /\ Len(s) \in Nat /\ DOMAIN s = 1 .. Len(s) /\ Head(s) = s[1]
  BY LenProperties, HeadTailProperties DEF NotesOf
<1>2. /\ t \in Seq(Blocks)
      /\ Len(t) = Len(s) - 1
      /\ \A p \in 1 .. Len(t) : t[p] = s[p + 1]
  BY <1>1, HeadTailProperties
<1>3. DOMAIN t = 1 .. Len(s) - 1
  BY <1>2, LenProperties
<1> HIDE DEF t
<1>4. \A p \in DOMAIN t : p + 1 \in DOMAIN s /\ t[p] = s[p + 1]
  BY <1>1, <1>2, <1>3
<1>5. \A q \in DOMAIN s : s[q].kind # "heading" => q - 1 \in DOMAIN t /\ t[q - 1] = s[q]
  BY <1>1, <1>2, <1>3
<1>6. Ordered(t)
  BY <1>1, <1>3, <1>4 DEF NotesOf, Ordered
<1>7. \A q \in DOMAIN s : IsEquation(s[q]) \/ IsRaw(s[q]) => q - 1 \in DOMAIN t /\ t[q - 1] = s[q]
  BY <1>5 DEF IsEquation, IsRaw
<1>8. ASSUME NEW c \in windows PROVE Placed(t, c)
  <2>1. DOMAIN s \subseteq Int /\ DOMAIN t \subseteq Int /\ -1 \in Int
    BY <1>1, <1>3
  <2>2. \A p \in DOMAIN t : p - (-1) \in DOMAIN s /\ s[p - (-1)] = t[p]
    BY <1>3, <1>4
  <2>3. \A p \in DOMAIN s : s[p].kind # "heading" => p + (-1) \in DOMAIN t /\ t[p + (-1)] = s[p]
    BY <1>1, <1>5
  <2>4. Placed(s, c)
    BY DEF NotesOf
  <2>5. QED
    BY <2>1, <2>2, <2>3, <2>4, Shifted
<1>9. \A c \in windows : \A k \in DOMAIN c.answer : IsEquation(c.answer[k]) =>
         \E p \in DOMAIN t : t[p] = Reviewed(c, k)
  <2>1. \A c, k : IsEquation(c.answer[k]) => IsEquation(Reviewed(c, k))
    BY DEF Reviewed, IsEquation, Block
  <2>2. QED
    BY <1>7, <2>1 DEF NotesOf
<1>10. \A c \in windows : c.how = "failed" => RawCovers(t, c.lo, c.hi)
  BY <1>7 DEF NotesOf, RawCovers
<1>11. /\ \A p \in DOMAIN t : \E c \in windows : t[p].src[1] \in c.lo .. c.hi
       /\ \A p \in DOMAIN t : IsEquation(t[p]) =>
             \E c \in windows : \E k \in DOMAIN c.answer :
                IsEquation(c.answer[k]) /\ t[p] = Reviewed(c, k)
       /\ \A p \in DOMAIN t : IsRaw(t[p]) =>
             \E c \in windows : c.how = "failed" /\ RawWithin(t[p], c.lo, c.hi)
  BY <1>4 DEF NotesOf
<1>12. QED
  BY <1>2, <1>6, <1>8, <1>9, <1>10, <1>11 DEF NotesOf, t

\* The notes of some windows, and then of later ones.
LEMMA Join ==
    ASSUME NEW s, NEW t, NEW V, NEW W, NotesOf(s, V), NotesOf(t, W),
           \A c \in V \cup W : c.lo \in Nat /\ c.hi \in Nat /\ c.lo <= c.hi,
           \A v \in V, w \in W : v.hi < w.lo
    PROVE  NotesOf(s \o t, V \cup W)
<1> DEFINE u == s \o t
           n == Len(s)
<1>1. /\ s \in Seq(Blocks) /\ t \in Seq(Blocks)
      /\ n \in Nat /\ Len(t) \in Nat
      /\ DOMAIN s = 1 .. n /\ DOMAIN t = 1 .. Len(t)
  BY LenProperties DEF NotesOf
<1>2. /\ u \in Seq(Blocks)
      /\ Len(u) = n + Len(t)
      /\ \A p \in 1 .. Len(u) : u[p] = IF p <= n THEN s[p] ELSE t[p - n]
  BY <1>1, ConcatProperties
<1>3. DOMAIN u = 1 .. n + Len(t)
  BY <1>2, LenProperties
<1> HIDE DEF u, n
<1>4. \A p \in DOMAIN s : p \in DOMAIN u /\ u[p] = s[p]
  BY <1>1, <1>2, <1>3
<1>5. \A p \in DOMAIN t : n + p \in DOMAIN u /\ u[n + p] = t[p]
  BY <1>1, <1>2, <1>3
<1>6. \A p \in DOMAIN u : \/ p \in DOMAIN s /\ u[p] = s[p]
                          \/ p > n /\ p - n \in DOMAIN t /\ u[p] = t[p - n]
  BY <1>1, <1>2, <1>3
<1>7. ASSUME NEW p \in DOMAIN s, NEW q \in DOMAIN t
      PROVE  /\ s[p].src[1] < t[q].src[1]
             /\ Follows(s[p], t[q])
  <2>1. PICK v \in V : s[p].src[1] \in v.lo .. v.hi
    BY DEF NotesOf
  <2>2. PICK w \in W : t[q].src[1] \in w.lo .. w.hi
    BY DEF NotesOf
  <2>3. /\ v.lo \in Nat /\ v.hi \in Nat /\ w.lo \in Nat /\ w.hi \in Nat
        /\ v.hi < w.lo
    OBVIOUS
  <2>4. s[p].src[1] \in Nat /\ t[q].src[1] \in Nat /\ s[p].src[1] < t[q].src[1]
    BY <2>1, <2>2, <2>3
  <2>5. ASSUME IsRaw(s[p]) PROVE s[p].src[2] < t[q].src[1]
    <3>1. PICK x \in V : RawWithin(s[p], x.lo, x.hi)
      BY <2>5 DEF NotesOf
    <3>2. x.hi < w.lo /\ x.hi \in Nat
      OBVIOUS
    <3>3. s[p].src[2] \in Nat
      BY <1>1, BlockSource
    <3>4. QED
      BY <2>2, <2>3, <3>1, <3>2, <3>3 DEF RawWithin
  <2>6. Precedes(s[p], t[q]) /\ ~Precedes(t[q], s[p])
    BY <2>4 DEF Precedes
  <2>7. QED
    BY <2>4, <2>5, <2>6 DEF Follows
<1>8. Ordered(u)
  <2>1. ASSUME NEW p \in DOMAIN u, NEW q \in DOMAIN u, p < q PROVE Follows(u[p], u[q])
    <3>1. CASE q \in DOMAIN s
      BY <1>1, <1>3, <1>4, <2>1, <3>1 DEF NotesOf, Ordered
    <3>2. CASE p \in DOMAIN s /\ q \notin DOMAIN s
      BY <1>4, <1>6, <1>7, <3>2
    <3>3. CASE p \notin DOMAIN s
      <4>1. /\ p - n \in DOMAIN t /\ q - n \in DOMAIN t /\ p - n < q - n
            /\ u[p] = t[p - n] /\ u[q] = t[q - n]
        BY <1>1, <1>3, <1>6, <2>1, <3>3
      <4>2. QED
        BY <4>1 DEF NotesOf, Ordered
    <3>4. QED
      BY <3>1, <3>2, <3>3
  <2>2. QED
    BY <2>1 DEF Ordered
<1>9. ASSUME NEW c \in V PROVE Placed(u, c)
  <2>1. ASSUME NEW p \in DOMAIN u, u[p].src[1] = c.lo
        PROVE  p - 0 \in DOMAIN s /\ s[p - 0] = u[p]
    <3>1. ASSUME NEW q \in DOMAIN t PROVE t[q].src[1] # c.lo
      <4>1. PICK w \in W : t[q].src[1] \in w.lo .. w.hi
        BY DEF NotesOf
      <4>2. /\ c.hi < w.lo /\ c.lo <= c.hi
            /\ c.lo \in Nat /\ c.hi \in Nat /\ w.lo \in Nat /\ w.hi \in Nat
        OBVIOUS
      <4>3. QED
        BY <4>1, <4>2
    <3>2. p \in DOMAIN s /\ u[p] = s[p]
      BY <1>6, <2>1, <3>1
    <3>3. p - 0 = p
      BY <1>3
    <3>4. QED
      BY <3>2, <3>3
  <2>2. \A p \in DOMAIN s : p + 0 \in DOMAIN u /\ u[p + 0] = s[p]
    <3>1. \A p \in DOMAIN s : p + 0 = p
      BY <1>1
    <3>2. QED
      BY <1>4, <3>1
  <2>3. Placed(s, c) /\ DOMAIN s \subseteq Int /\ DOMAIN u \subseteq Int /\ 0 \in Int
    BY <1>1, <1>3 DEF NotesOf
  <2>4. QED
    BY <2>1, <2>2, <2>3, Shifted
<1>10. ASSUME NEW c \in W PROVE Placed(u, c)
  <2>1. ASSUME NEW p \in DOMAIN u, u[p].src[1] = c.lo
        PROVE  p - n \in DOMAIN t /\ t[p - n] = u[p]
    <3>1. ASSUME NEW q \in DOMAIN s PROVE s[q].src[1] # c.lo
      <4>1. PICK v \in V : s[q].src[1] \in v.lo .. v.hi
        BY DEF NotesOf
      <4>2. /\ v.hi < c.lo
            /\ c.lo \in Nat /\ v.lo \in Nat /\ v.hi \in Nat
        OBVIOUS
      <4>3. QED
        BY <4>1, <4>2
    <3>2. QED
      BY <1>6, <2>1, <3>1
  <2>2. \A p \in DOMAIN t : p + n \in DOMAIN u /\ u[p + n] = t[p]
    <3>1. \A p \in DOMAIN t : p + n = n + p
      BY <1>1
    <3>2. QED
      BY <1>5, <3>1
  <2>3. Placed(t, c) /\ DOMAIN t \subseteq Int /\ DOMAIN u \subseteq Int /\ n \in Int
    BY <1>1, <1>3 DEF NotesOf
  <2>4. QED
    BY <2>1, <2>2, <2>3, Shifted
<1>11. /\ \A p \in DOMAIN u : \E c \in V \cup W : u[p].src[1] \in c.lo .. c.hi
       /\ \A p \in DOMAIN u : IsEquation(u[p]) =>
             \E c \in V \cup W : \E k \in DOMAIN c.answer :
                IsEquation(c.answer[k]) /\ u[p] = Reviewed(c, k)
       /\ \A p \in DOMAIN u : IsRaw(u[p]) =>
             \E c \in V \cup W : c.how = "failed" /\ RawWithin(u[p], c.lo, c.hi)
  <2>1. ASSUME NEW p \in DOMAIN s
        PROVE  /\ \E c \in V : s[p].src[1] \in c.lo .. c.hi
               /\ IsEquation(s[p]) => \E c \in V : \E k \in DOMAIN c.answer :
                     IsEquation(c.answer[k]) /\ s[p] = Reviewed(c, k)
               /\ IsRaw(s[p]) => \E c \in V : c.how = "failed" /\ RawWithin(s[p], c.lo, c.hi)
    BY DEF NotesOf
  <2>2. ASSUME NEW p \in DOMAIN t
        PROVE  /\ \E c \in W : t[p].src[1] \in c.lo .. c.hi
               /\ IsEquation(t[p]) => \E c \in W : \E k \in DOMAIN c.answer :
                     IsEquation(c.answer[k]) /\ t[p] = Reviewed(c, k)
               /\ IsRaw(t[p]) => \E c \in W : c.how = "failed" /\ RawWithin(t[p], c.lo, c.hi)
    BY DEF NotesOf
  <2>3. QED
    BY <1>6, <2>1, <2>2
<1>12. /\ \A c \in V \cup W : \A k \in DOMAIN c.answer : IsEquation(c.answer[k]) =>
             \E p \in DOMAIN u : u[p] = Reviewed(c, k)
       /\ \A c \in V \cup W : c.how = "failed" => RawCovers(u, c.lo, c.hi)
  <2>1. \A c \in V : \A k \in DOMAIN c.answer : IsEquation(c.answer[k]) =>
           \E p \in DOMAIN s : s[p] = Reviewed(c, k)
    BY DEF NotesOf
  <2>2. \A c \in W : \A k \in DOMAIN c.answer : IsEquation(c.answer[k]) =>
           \E p \in DOMAIN t : t[p] = Reviewed(c, k)
    BY DEF NotesOf
  <2>3. \A lo, hi : RawCovers(s, lo, hi) \/ RawCovers(t, lo, hi) => RawCovers(u, lo, hi)
    BY <1>4, <1>5 DEF RawCovers
  <2>4. \A c \in V \cup W : c.how = "failed" => RawCovers(s, c.lo, c.hi) \/ RawCovers(t, c.lo, c.hi)
    BY DEF NotesOf
  <2>5. QED
    BY <1>4, <1>5, <2>1, <2>2, <2>3, <2>4
<1>13. QED
  BY <1>2, <1>8, <1>9, <1>10, <1>11, <1>12 DEF NotesOf, u

LEMMA NoNotes == NotesOf(<<>>, {})
<1>1. <<>> \in Seq(Blocks) /\ DOMAIN <<>> = {}
  BY EmptySeq
<1>2. QED
  BY <1>1 DEF NotesOf, Ordered

\* The notes of the next window join the others.
LEMMA Extended ==
    ASSUME NEW s, NEW t, NEW windows, NEW w, NotesOf(s, windows), NotesOf(t, {w}),
           \A c \in windows \cup {w} : c.lo \in Nat /\ c.hi \in Nat /\ c.lo <= c.hi,
           \A c \in windows : c.hi < w.lo
    PROVE  NotesOf(s \o DedupeHeadings(s, t), windows \cup {w})
<1>1. NotesOf(DedupeHeadings(s, t), {w})
  <2>1. CASE DedupeHeadings(s, t) = t
    BY <2>1
  <2>2. CASE DedupeHeadings(s, t) = Tail(t) /\ t # <<>> /\ Head(t).kind = "heading"
    BY <2>2, Drop
  <2>3. QED
    BY <2>1, <2>2 DEF DedupeHeadings
<1> HIDE DEF DedupeHeadings
<1>2. QED
  BY <1>1, Join

LEMMA Untitled ==
    ASSUME NEW s, NEW windows, NotesOf(s, windows)
    PROVE  NotesOf(WithoutModelTitle(s), windows)
<1>1. CASE WithoutModelTitle(s) = s
  BY <1>1
<1>2. CASE WithoutModelTitle(s) = Tail(s) /\ s # <<>> /\ Head(s).kind = "heading"
  BY <1>2, Drop
<1>3. QED
  BY <1>1, <1>2 DEF WithoutModelTitle

-----------------------------------------------------------------------------
(* Raw transcript. *)

\* The loop of _fallback_blocks from line lo up to line hi.
RawNotes(s, lo, hi) ==
    /\ s \in Seq(Blocks)
    /\ Ordered(s)
    /\ \A p \in DOMAIN s : IsRaw(s[p]) /\ RawWithin(s[p], lo, hi)
    /\ RawCovers(s, lo, hi)

LEMMA NoRawNotes ==
    ASSUME NEW lo \in Nat
    PROVE  RawNotes(<<>>, lo, lo - 1)
<1>1. <<>> \in Seq(Blocks) /\ DOMAIN <<>> = {}
  BY EmptySeq
<1>2. lo .. lo - 1 = {}
  OBVIOUS
<1>3. QED
  BY <1>1, <1>2 DEF RawNotes, Ordered, RawCovers

\* A paragraph of the next lines.
LEMMA Paragraph ==
    ASSUME NEW s, NEW lo \in Nat, NEW first \in Nat, NEW last \in Nat,
           lo <= first, first <= last, RawNotes(s, lo, first - 1)
    PROVE  RawNotes(Append(s, Block("paragraph", "raw", 0, <<first, last, 0>>)), lo, last)
<1> DEFINE b == Block("paragraph", "raw", 0, <<first, last, 0>>)
           t == Append(s, b)
           n == Len(s)
<1>1. /\ b \in Blocks /\ IsRaw(b) /\ ~IsEquation(b)
      /\ b.src[1] = first /\ b.src[2] = last
  BY DEF Block, Blocks, IsRaw, IsEquation
<1> HIDE DEF b
<1>2. s \in Seq(Blocks) /\ n \in Nat /\ DOMAIN s = 1 .. n
  BY LenProperties DEF RawNotes
<1>3. /\ t \in Seq(Blocks)
      /\ Len(t) = n + 1
      /\ \A p \in 1 .. n : t[p] = s[p]
      /\ t[n + 1] = b
  BY <1>1, <1>2, AppendProperties
<1>4. DOMAIN t = 1 .. n + 1
  BY <1>3, LenProperties
<1> HIDE DEF t, n
<1>5. \A p \in DOMAIN t : \/ p \in DOMAIN s /\ t[p] = s[p]
                          \/ p = n + 1 /\ t[p] = b
  BY <1>2, <1>3, <1>4
<1>6. ASSUME NEW p \in DOMAIN s
      PROVE  RawWithin(s[p], lo, first - 1) /\ RawWithin(s[p], lo, last) /\ Follows(s[p], b)
  <2>1. s[p].src[1] \in Nat /\ s[p].src[2] \in Nat
    BY <1>2, BlockSource
  <2>2. RawWithin(s[p], lo, first - 1)
    BY DEF RawNotes
  <2>3. RawWithin(s[p], lo, last) /\ s[p].src[2] < first /\ s[p].src[1] < first
    BY <2>1, <2>2 DEF RawWithin
  <2>4. QED
    BY <1>1, <2>1, <2>2, <2>3 DEF Follows, Precedes
<1>7. Ordered(t)
  BY <1>2, <1>4, <1>5, <1>6 DEF RawNotes, Ordered
<1>8. \A p \in DOMAIN t : IsRaw(t[p]) /\ RawWithin(t[p], lo, last)
  BY <1>1, <1>5, <1>6 DEF RawNotes, RawWithin
<1>9. RawCovers(t, lo, last)
  <2>1. ASSUME NEW l \in lo .. last
        PROVE  \E p \in DOMAIN t : IsRaw(t[p]) /\ l \in t[p].src[1] .. t[p].src[2]
    <3>1. CASE l \in lo .. first - 1
      <4>1. PICK p \in DOMAIN s : IsRaw(s[p]) /\ l \in s[p].src[1] .. s[p].src[2]
        BY <3>1 DEF RawNotes, RawCovers
      <4>2. p \in DOMAIN t /\ t[p] = s[p]
        BY <1>2, <1>3, <1>4
      <4>3. QED
        BY <4>1, <4>2
    <3>2. CASE l \notin lo .. first - 1
      <4>1. l \in first .. last
        BY <3>2
      <4>2. n + 1 \in DOMAIN t
        BY <1>2, <1>4
      <4>3. QED
        BY <1>1, <1>3, <4>1, <4>2
    <3>3. QED
      BY <3>1, <3>2
  <2>2. QED
    BY <2>1 DEF RawCovers
<1>10. QED
  BY <1>3, <1>7, <1>8, <1>9 DEF RawNotes, t, b

\* The lines of a window the AI failed on are its notes.
LEMMA RawWindow ==
    ASSUME NEW s, NEW c, c.lo \in Nat, c.hi \in Nat, c.how = "failed", c.answer = <<>>,
           RawNotes(s, c.lo, c.hi)
    PROVE  NotesOf(s, {c})
<1>1. s \in Seq(Blocks) /\ \A p \in DOMAIN s : IsRaw(s[p]) /\ RawWithin(s[p], c.lo, c.hi)
  BY DEF RawNotes
<1>2. \A p \in DOMAIN s : ~IsEquation(s[p]) /\ ~IsMarker(s[p])
  BY <1>1 DEF IsRaw, IsEquation, IsMarker
<1>3. \A p \in DOMAIN s : s[p].src[1] \in c.lo .. c.hi
  <2>1. ASSUME NEW p \in DOMAIN s PROVE s[p].src[1] \in c.lo .. c.hi
    <3>1. s[p].src[1] \in Nat /\ s[p].src[2] \in Nat
      BY <1>1, BlockSource, ElementOfSeq, LenProperties
    <3>2. QED
      BY <1>1, <3>1 DEF RawWithin
  <2>2. QED
    BY <2>1
<1>4. Placed(s, c)
  BY <1>2 DEF Placed
<1>5. DOMAIN c.answer = {}
  BY EmptySeq
<1>6. QED
  BY <1>1, <1>2, <1>3, <1>4, <1>5 DEF NotesOf, RawNotes

-----------------------------------------------------------------------------
(* The review of a window's equations. *)

\* What the AI wrote for a window.
CleanedWindow(c) ==
    /\ c.lo \in Nat /\ c.hi \in Nat /\ c.lo <= c.hi
    /\ c.how = "cleaned"
    /\ c.answer \in Seq(Blocks)
    /\ \A k \in DOMAIN c.answer : /\ c.answer[k].src = <<c.lo, c.hi, k>>
                                  /\ ~IsRaw(c.answer[k])

\* The equations that get a marker.
Doubtful(c, k) ==
    /\ IsEquation(c.answer[k])
    /\ c.reviews[EquationIndex(c.answer, k)] \in Doubts
    /\ ~Marked(c.answer, k)

\* A block of the result is the answer's, with its correction if it is an
\* equation, or a marker that was added.
Kept(c, b) ==
    LET k == b.src[3] IN
    b = IF IsEquation(c.answer[k]) THEN Reviewed(c, k) ELSE c.answer[k]
Added(c, b) == IsMarker(b) /\ Doubtful(c, b.src[3])

\* The loop of apply_reviews after n blocks of the answer: each of them once
\* and in their order, a doubtful equation followed by its marker.
Applied(c, n, s) ==
    /\ s \in Seq(Blocks)
    /\ \A p \in DOMAIN s : /\ s[p].src[1] = c.lo
                           /\ s[p].src[3] \in 1 .. n
                           /\ Kept(c, s[p]) \/ Added(c, s[p])
    /\ \A p, q \in DOMAIN s : p < q =>
          \/ s[p].src[3] < s[q].src[3]
          \/ s[p].src[3] = s[q].src[3] /\ Kept(c, s[p]) /\ Added(c, s[q])
    /\ \A k \in 1 .. n : \E p \in DOMAIN s : s[p].src[3] = k /\ Kept(c, s[p])
    /\ \A k \in 1 .. n : Doubtful(c, k) => \E p \in DOMAIN s : s[p].src[3] = k /\ Added(c, s[p])

\* No block is both.
LEMMA KeptOrAdded ==
    ASSUME NEW c, NEW b, Kept(c, b), Added(c, b)
    PROVE  FALSE
<1>1. IsEquation(c.answer[b.src[3]]) /\ IsMarker(b)
  BY DEF Added, Doubtful
<1>2. b = Reviewed(c, b.src[3])
  BY <1>1 DEF Kept
<1>3. IsEquation(b)
  BY <1>1, <1>2 DEF Reviewed, IsEquation, Block
<1>4. QED
  BY <1>1, <1>3 DEF IsMarker, IsEquation

LEMMA NothingApplied ==
    ASSUME NEW c
    PROVE  Applied(c, 0, <<>>)
<1>1. <<>> \in Seq(Blocks) /\ DOMAIN <<>> = {}
  BY EmptySeq
<1>2. QED
  BY <1>1 DEF Applied

\* A block of the answer, as it is kept.
LEMMA ApplyKept ==
    ASSUME NEW c, NEW n \in Nat, NEW s, NEW b \in Blocks, Applied(c, n, s),
           b.src[1] = c.lo, b.src[3] = n + 1, Kept(c, b), ~Doubtful(c, n + 1)
    PROVE  Applied(c, n + 1, Append(s, b))
<1> DEFINE t == Append(s, b)
           m == Len(s)
<1>1. s \in Seq(Blocks) /\ m \in Nat /\ DOMAIN s = 1 .. m
  BY LenProperties DEF Applied
<1>2. /\ t \in Seq(Blocks)
      /\ Len(t) = m + 1
      /\ \A p \in 1 .. m : t[p] = s[p]
      /\ t[m + 1] = b
  BY <1>1, AppendProperties
<1>3. DOMAIN t = 1 .. m + 1
  BY <1>2, LenProperties
<1> HIDE DEF t, m
<1>4. \A p \in DOMAIN t : \/ p \in DOMAIN s /\ t[p] = s[p] /\ p < m + 1
                          \/ p = m + 1 /\ t[p] = b
  BY <1>1, <1>2, <1>3
<1>5. \A p \in DOMAIN s : p \in DOMAIN t /\ t[p] = s[p] /\ s[p].src[3] < n + 1 /\ p < m + 1
  BY <1>1, <1>2, <1>3 DEF Applied
<1>6. m + 1 \in DOMAIN t /\ t[m + 1] = b
  BY <1>1, <1>2, <1>3
<1>7. \A p \in DOMAIN t : /\ t[p].src[1] = c.lo
                          /\ t[p].src[3] \in 1 .. n + 1
                          /\ Kept(c, t[p]) \/ Added(c, t[p])
  BY <1>4 DEF Applied
<1>8. \A p, q \in DOMAIN t : p < q =>
         \/ t[p].src[3] < t[q].src[3]
         \/ t[p].src[3] = t[q].src[3] /\ Kept(c, t[p]) /\ Added(c, t[q])
  <2>1. ASSUME NEW p \in DOMAIN t, NEW q \in DOMAIN t, p < q
        PROVE  \/ t[p].src[3] < t[q].src[3]
               \/ t[p].src[3] = t[q].src[3] /\ Kept(c, t[p]) /\ Added(c, t[q])
    <3>1. p \in DOMAIN s /\ t[p] = s[p]
      BY <1>1, <1>3, <1>4, <2>1
    <3>2. CASE q \in DOMAIN s
      BY <1>5, <2>1, <3>1, <3>2 DEF Applied
    <3>3. CASE t[q] = b
      BY <1>5, <3>1, <3>3
    <3>4. QED
      BY <1>4, <3>2, <3>3
  <2>2. QED
    BY <2>1
<1>9. \A k \in 1 .. n + 1 : /\ \E p \in DOMAIN t : t[p].src[3] = k /\ Kept(c, t[p])
                            /\ Doubtful(c, k) => \E p \in DOMAIN t :
                                                    t[p].src[3] = k /\ Added(c, t[p])
  <2>1. ASSUME NEW k \in 1 .. n
        PROVE  /\ \E p \in DOMAIN t : t[p].src[3] = k /\ Kept(c, t[p])
               /\ Doubtful(c, k) => \E p \in DOMAIN t : t[p].src[3] = k /\ Added(c, t[p])
    <3>1. /\ \E p \in DOMAIN s : s[p].src[3] = k /\ Kept(c, s[p])
          /\ Doubtful(c, k) => \E p \in DOMAIN s : s[p].src[3] = k /\ Added(c, s[p])
      BY DEF Applied
    <3>2. QED
      BY <1>5, <3>1
  <2>2. \A k \in 1 .. n + 1 : k \in 1 .. n \/ k = n + 1
    OBVIOUS
  <2>3. QED
    BY <1>6, <2>1, <2>2
<1>10. QED
  BY <1>2, <1>7, <1>8, <1>9 DEF Applied, t

\* A doubtful equation with its marker.
LEMMA ApplyAdded ==
    ASSUME NEW c, NEW n \in Nat, NEW s, NEW b \in Blocks, NEW x \in Blocks, Applied(c, n, s),
           b.src[1] = c.lo, b.src[3] = n + 1, Kept(c, b),
           x.src[1] = c.lo, x.src[3] = n + 1, Added(c, x)
    PROVE  Applied(c, n + 1, Append(Append(s, b), x))
<1> DEFINE t == Append(s, b)
           u == Append(t, x)
           m == Len(s)
<1>1. s \in Seq(Blocks) /\ m \in Nat /\ DOMAIN s = 1 .. m
  BY LenProperties DEF Applied
<1>2. /\ t \in Seq(Blocks)
      /\ Len(t) = m + 1
      /\ \A p \in 1 .. m : t[p] = s[p]
      /\ t[m + 1] = b
  BY <1>1, AppendProperties
<1> HIDE DEF t, m
<1>3. /\ u \in Seq(Blocks)
      /\ Len(u) = m + 2
      /\ \A p \in 1 .. m + 1 : u[p] = t[p]
      /\ u[m + 2] = x
  <2>1. (m + 1) + 1 = m + 2
    BY <1>1
  <2>2. QED
    BY <1>2, <2>1, AppendProperties
<1>4. DOMAIN u = 1 .. m + 2
  BY <1>3, LenProperties
<1> HIDE DEF u
<1>5. \A p \in DOMAIN u : \/ p \in DOMAIN s /\ u[p] = s[p] /\ p < m + 1
                          \/ p = m + 1 /\ u[p] = b
                          \/ p = m + 2 /\ u[p] = x
  BY <1>1, <1>2, <1>3, <1>4
<1>6. \A p \in DOMAIN s : p \in DOMAIN u /\ u[p] = s[p] /\ s[p].src[3] < n + 1 /\ p < m + 1
  BY <1>1, <1>2, <1>3, <1>4 DEF Applied
<1>7. m + 1 \in DOMAIN u /\ u[m + 1] = b /\ m + 2 \in DOMAIN u /\ u[m + 2] = x
  BY <1>1, <1>2, <1>3, <1>4
<1>8. \A p \in DOMAIN u : /\ u[p].src[1] = c.lo
                          /\ u[p].src[3] \in 1 .. n + 1
                          /\ Kept(c, u[p]) \/ Added(c, u[p])
  BY <1>5 DEF Applied
<1>9. \A p, q \in DOMAIN u : p < q =>
         \/ u[p].src[3] < u[q].src[3]
         \/ u[p].src[3] = u[q].src[3] /\ Kept(c, u[p]) /\ Added(c, u[q])
  <2>1. ASSUME NEW p \in DOMAIN u, NEW q \in DOMAIN u, p < q
        PROVE  \/ u[p].src[3] < u[q].src[3]
               \/ u[p].src[3] = u[q].src[3] /\ Kept(c, u[p]) /\ Added(c, u[q])
    <3>1. CASE p \in DOMAIN s /\ q \in DOMAIN s
      BY <1>6, <2>1, <3>1 DEF Applied
    <3>2. CASE p \in DOMAIN s /\ q \notin DOMAIN s
      BY <1>5, <1>6, <3>2
    <3>3. CASE p = m + 1 /\ q = m + 2
      BY <1>7, <3>3
    <3>4. QED
      BY <1>1, <1>5, <2>1, <3>1, <3>2, <3>3
  <2>2. QED
    BY <2>1
<1>10. \A k \in 1 .. n + 1 : /\ \E p \in DOMAIN u : u[p].src[3] = k /\ Kept(c, u[p])
                             /\ Doubtful(c, k) => \E p \in DOMAIN u :
                                                     u[p].src[3] = k /\ Added(c, u[p])
  <2>1. ASSUME NEW k \in 1 .. n
        PROVE  /\ \E p \in DOMAIN u : u[p].src[3] = k /\ Kept(c, u[p])
               /\ Doubtful(c, k) => \E p \in DOMAIN u : u[p].src[3] = k /\ Added(c, u[p])
    <3>1. /\ \E p \in DOMAIN s : s[p].src[3] = k /\ Kept(c, s[p])
          /\ Doubtful(c, k) => \E p \in DOMAIN s : s[p].src[3] = k /\ Added(c, s[p])
      BY DEF Applied
    <3>2. QED
      BY <1>6, <3>1
  <2>2. \A k \in 1 .. n + 1 : k \in 1 .. n \/ k = n + 1
    OBVIOUS
  <2>3. QED
    BY <1>7, <2>1, <2>2
<1>11. QED
  BY <1>3, <1>8, <1>9, <1>10 DEF Applied, u, t

\* Blocks of the result whose turns follow one another stand next to one
\* another.
LEMMA NextTo ==
    ASSUME NEW c, NEW n \in Nat, NEW s, Applied(c, n, s),
           NEW p \in DOMAIN s, NEW q \in DOMAIN s,
           \/ s[q].src[3] = s[p].src[3] /\ Kept(c, s[p]) /\ Added(c, s[q])
           \/ /\ s[q].src[3] = s[p].src[3] + 1 /\ Kept(c, s[q])
              /\ Added(c, s[p]) \/ ~Doubtful(c, s[p].src[3])
    PROVE  q = p + 1
<1>1. s \in Seq(Blocks) /\ Len(s) \in Nat /\ DOMAIN s = 1 .. Len(s)
  BY LenProperties DEF Applied
<1>2. \A i, j \in DOMAIN s : i < j =>
         \/ s[i].src[3] < s[j].src[3]
         \/ s[i].src[3] = s[j].src[3] /\ ~Added(c, s[i]) /\ Added(c, s[j])
  BY KeptOrAdded DEF Applied
<1>3. \A i \in DOMAIN s : /\ s[i].src[3] \in Nat
                          /\ Kept(c, s[i]) <=> ~Added(c, s[i])
                          /\ Added(c, s[i]) => Doubtful(c, s[i].src[3])
  BY KeptOrAdded DEF Applied, Added
<1>4. p < q
  BY <1>1, <1>2, <1>3
<1>5. ASSUME p + 1 < q PROVE FALSE
  <2>1. p + 1 \in DOMAIN s /\ p < p + 1
    BY <1>1, <1>5
  <2>2. /\ \/ s[p].src[3] < s[p + 1].src[3]
           \/ s[p].src[3] = s[p + 1].src[3] /\ ~Added(c, s[p]) /\ Added(c, s[p + 1])
        /\ \/ s[p + 1].src[3] < s[q].src[3]
           \/ s[p + 1].src[3] = s[q].src[3] /\ ~Added(c, s[p + 1]) /\ Added(c, s[q])
    BY <1>2, <1>5, <2>1
  <2>3. /\ s[p].src[3] \in Nat /\ s[p + 1].src[3] \in Nat /\ s[q].src[3] \in Nat
        /\ Added(c, s[p + 1]) => Doubtful(c, s[p + 1].src[3])
    BY <1>3, <2>1
  <2>4. QED
    BY <1>3, <2>2, <2>3
<1>6. QED
  BY <1>1, <1>4, <1>5

\* The result has its markers where they belong.
LEMMA ReviewPlaced ==
    ASSUME NEW c, NEW s, CleanedWindow(c), Applied(c, Len(c.answer), s)
    PROVE  Placed(s, c)
<1> DEFINE n == Len(c.answer)
           marked(p) == p \in DOMAIN s /\ s[p].src[1] = c.lo /\ IsMarker(s[p])
           added(p) == marked(p) /\ IsEquation(c.answer[s[p].src[3]])
<1>1. n \in Nat /\ DOMAIN c.answer = 1 .. n
  BY LenProperties DEF CleanedWindow
<1>2. s \in Seq(Blocks) /\ Len(s) \in Nat /\ DOMAIN s = 1 .. Len(s)
  BY LenProperties DEF Applied
<1>3. \A p \in DOMAIN s : /\ s[p].src[1] = c.lo /\ s[p].src[3] \in 1 .. n
                          /\ Kept(c, s[p]) \/ Added(c, s[p])
  BY DEF Applied
<1>4. \A k \in 1 .. n : \E p \in DOMAIN s : s[p].src[3] = k /\ Kept(c, s[p])
  BY DEF Applied
<1>5. \A p, q \in DOMAIN s : p < q =>
         \/ s[p].src[3] < s[q].src[3]
         \/ s[p].src[3] = s[q].src[3] /\ Kept(c, s[p]) /\ Added(c, s[q])
  BY DEF Applied
<1>6. ASSUME NEW p \in DOMAIN s, Kept(c, s[p])
      PROVE  /\ IsEquation(c.answer[s[p].src[3]]) <=> IsEquation(s[p])
             /\ ~IsEquation(s[p]) => s[p] = c.answer[s[p].src[3]]
  <2>1. CASE IsEquation(c.answer[s[p].src[3]])
    <3>1. s[p] = Reviewed(c, s[p].src[3])
      BY <1>6, <2>1 DEF Kept
    <3>2. IsEquation(s[p])
      BY <2>1, <3>1 DEF Reviewed, IsEquation, Block
    <3>3. QED
      BY <2>1, <3>2
  <2>2. CASE ~IsEquation(c.answer[s[p].src[3]])
    BY <1>6, <2>2 DEF Kept
  <2>3. QED
    BY <2>1, <2>2
<1>7. \A b : ~(IsMarker(b) /\ IsEquation(b))
  BY DEF IsMarker, IsEquation
<1>8. \A k : Doubtful(c, k) => IsEquation(c.answer[k]) /\ ~Marked(c.answer, k)
  BY DEF Doubtful
<1>9. \A p \in DOMAIN s : IsMarker(s[p]) =>
         \/ Added(c, s[p]) /\ IsEquation(c.answer[s[p].src[3]])
         \/ Kept(c, s[p]) /\ ~IsEquation(c.answer[s[p].src[3]]) /\ s[p] = c.answer[s[p].src[3]]
  BY <1>3, <1>6, <1>7, <1>8 DEF Added
<1>10. ASSUME NEW p \in DOMAIN s, IsEquation(s[p]),
              c.reviews[EquationIndex(c.answer, s[p].src[3])] \in Doubts
       PROVE  marked(p - 1) \/ marked(p + 1)
  <2> DEFINE k == s[p].src[3]
  <2>1. k \in 1 .. n /\ Kept(c, s[p]) /\ IsEquation(c.answer[k])
    BY <1>3, <1>6, <1>7, <1>10 DEF Added
  <2>2. CASE Doubtful(c, k)
    <3>1. PICK q \in DOMAIN s : s[q].src[3] = k /\ Added(c, s[q])
      BY <2>1, <2>2 DEF Applied
    <3>2. q = p + 1
      BY <1>1, <2>1, <3>1, NextTo
    <3>3. QED
      BY <1>3, <3>1, <3>2 DEF Added
  <2>3. CASE k < n /\ IsMarker(c.answer[k + 1]) /\ ~Doubtful(c, k)
    <3>1. PICK q \in DOMAIN s : s[q].src[3] = k + 1 /\ Kept(c, s[q])
      BY <1>1, <1>4, <2>1, <2>3
    <3>2. q = p + 1
      BY <1>1, <2>1, <2>3, <3>1, NextTo
    <3>3. s[q] = c.answer[k + 1]
      BY <1>6, <1>7, <2>3, <3>1
    <3>4. QED
      BY <1>3, <2>3, <3>2, <3>3
  <2>4. CASE k > 1 /\ IsMarker(c.answer[k - 1])
    <3>1. PICK q \in DOMAIN s : s[q].src[3] = k - 1 /\ Kept(c, s[q])
      BY <1>1, <1>4, <2>1, <2>4
    <3>2. ~Doubtful(c, s[q].src[3]) /\ s[p].src[3] = s[q].src[3] + 1
      BY <1>1, <1>7, <1>8, <2>1, <2>4, <3>1
    <3>3. p = q + 1
      BY <1>1, <2>1, <3>2, NextTo
    <3>4. s[q] = c.answer[k - 1]
      BY <1>6, <1>7, <2>4, <3>1
    <3>5. q = p - 1
      BY <1>2, <3>3
    <3>6. QED
      BY <1>3, <2>4, <3>4, <3>5
  <2>5. Doubtful(c, k) \/ Marked(c.answer, k)
    BY <1>10, <2>1 DEF Doubtful
  <2>6. QED
    BY <2>2, <2>3, <2>4, <2>5 DEF Marked
<1>11. ASSUME NEW p \in DOMAIN s, added(p)
       PROVE  /\ ~marked(p - 1) /\ ~marked(p + 1)
              /\ marked(p - 2) => added(p - 2)
  <2> DEFINE k == s[p].src[3]
  <2>1. k \in 1 .. n /\ Added(c, s[p]) /\ Doubtful(c, k)
    BY <1>3, <1>9, <1>11 DEF Added
  <2>2. ~Kept(c, s[p]) /\ IsEquation(c.answer[k]) /\ ~Marked(c.answer, k)
    BY <1>8, <2>1, KeptOrAdded
  <2>3. PICK q \in DOMAIN s : s[q].src[3] = k /\ Kept(c, s[q])
    BY <1>4, <2>1
  <2>4. p = q + 1
    BY <1>1, <2>1, <2>3, NextTo
  <2>5. ~Added(c, s[q]) /\ IsEquation(s[q])
    BY <1>6, <2>2, <2>3, KeptOrAdded
  <2>6. q = p - 1
    BY <1>2, <2>4
  <2>7. ~marked(p - 1)
    BY <1>7, <2>5, <2>6
  <2>8. ASSUME marked(p + 1) PROVE FALSE
    <3>1. k < s[p + 1].src[3] /\ s[p + 1].src[3] \in 1 .. n
      BY <1>2, <1>3, <1>5, <2>2, <2>8
    <3>2. PICK r \in DOMAIN s : s[r].src[3] = k + 1 /\ Kept(c, s[r])
      BY <1>1, <1>4, <2>1, <3>1
    <3>3. r = p + 1
      BY <1>1, <2>1, <3>2, NextTo
    <3>4. s[r] = c.answer[k + 1] /\ IsMarker(s[r])
      BY <1>6, <1>7, <2>8, <3>2, <3>3
    <3>5. k < Len(c.answer)
      BY <1>1, <2>1, <3>1
    <3>6. QED
      BY <2>2, <3>4, <3>5 DEF Marked
  <2>9. ASSUME marked(p - 2), ~IsEquation(c.answer[s[p - 2].src[3]]) PROVE FALSE
    <3> DEFINE o == p - 2
    <3>1. /\ o \in DOMAIN s /\ o < q /\ q = o + 1
          /\ IsMarker(s[o]) /\ ~IsEquation(c.answer[s[o].src[3]])
      BY <1>2, <2>4, <2>9
    <3> HIDE DEF o
    <3>2. Kept(c, s[o]) /\ s[o] = c.answer[s[o].src[3]] /\ ~Doubtful(c, s[o].src[3])
      BY <1>8, <1>9, <3>1
    <3>3. s[o].src[3] < k /\ s[o].src[3] \in 1 .. n
      BY <1>3, <1>5, <2>3, <2>5, <3>1
    <3>4. PICK r \in DOMAIN s : s[r].src[3] = s[o].src[3] + 1 /\ Kept(c, s[r])
      <4>1. k \in 1 .. n /\ s[o].src[3] + 1 \in 1 .. n
        BY <1>1, <2>1, <3>3
      <4>2. QED
        BY <1>4, <4>1
    <3>5. r = o + 1
      BY <1>1, <3>1, <3>2, <3>4, NextTo
    <3>6. s[o].src[3] + 1 = k
      BY <2>3, <3>1, <3>4, <3>5
    <3>7. k > 1 /\ s[o].src[3] = k - 1
      BY <1>1, <2>1, <3>3, <3>6
    <3>8. QED
      BY <2>2, <3>1, <3>2, <3>7 DEF Marked
  <2>10. QED
    BY <2>7, <2>8, <2>9
<1>12. QED
  BY <1>10, <1>11 DEF Placed

\* The result is the window's notes.
LEMMA ReviewNotes ==
    ASSUME NEW c, NEW s, CleanedWindow(c), Applied(c, Len(c.answer), s)
    PROVE  NotesOf(s, {c})
<1> DEFINE n == Len(c.answer)
<1>1. n \in Nat /\ DOMAIN c.answer = 1 .. n
  BY LenProperties DEF CleanedWindow
<1>2. s \in Seq(Blocks) /\ \A p \in DOMAIN s : s[p].src[1] = c.lo /\ s[p].src[3] \in 1 .. n
  BY DEF Applied
<1>3. \A b : ~(IsMarker(b) /\ IsEquation(b)) /\ ~(IsRaw(b) /\ IsEquation(b))
             /\ ~(IsRaw(b) /\ IsMarker(b))
  BY DEF IsMarker, IsEquation, IsRaw
<1>4. ASSUME NEW p \in DOMAIN s, Kept(c, s[p])
      PROVE  /\ IsEquation(s[p]) => /\ IsEquation(c.answer[s[p].src[3]])
                                    /\ s[p] = Reviewed(c, s[p].src[3])
             /\ ~IsRaw(s[p])
  <2>1. CASE IsEquation(c.answer[s[p].src[3]])
    <3>1. s[p] = Reviewed(c, s[p].src[3])
      BY <1>4, <2>1 DEF Kept
    <3>2. IsEquation(s[p])
      BY <2>1, <3>1 DEF Reviewed, IsEquation, Block
    <3>3. QED
      BY <1>3, <2>1, <3>1, <3>2
  <2>2. CASE ~IsEquation(c.answer[s[p].src[3]])
    BY <1>1, <1>2, <1>4, <2>2 DEF Kept, CleanedWindow
  <2>3. QED
    BY <2>1, <2>2
<1>5. \A p \in DOMAIN s : /\ ~IsRaw(s[p])
                          /\ IsEquation(s[p]) => Kept(c, s[p])
                          /\ Added(c, s[p]) => ~IsEquation(s[p])
  BY <1>3, <1>4 DEF Applied, Added
<1>6. Ordered(s)
  <2>1. ASSUME NEW p \in DOMAIN s, NEW q \in DOMAIN s, p < q PROVE Follows(s[p], s[q])
    <3>1. \/ s[p].src[3] < s[q].src[3]
          \/ s[p].src[3] = s[q].src[3] /\ Added(c, s[q])
      BY <2>1 DEF Applied
    <3>2. s[p].src[1] = s[q].src[1] /\ s[p].src[1] \in Nat
      BY <1>2 DEF CleanedWindow
    <3>3. s[p].src[3] \in Nat /\ s[q].src[3] \in Nat
      BY <1>2
    <3>4. QED
      BY <1>5, <3>1, <3>2, <3>3 DEF Follows, Precedes
  <2>2. QED
    BY <2>1 DEF Ordered
<1>7. \A p \in DOMAIN s : s[p].src[1] \in c.lo .. c.hi
  BY <1>2 DEF CleanedWindow
<1>8. \A p \in DOMAIN s : IsEquation(s[p]) =>
         \E k \in DOMAIN c.answer : IsEquation(c.answer[k]) /\ s[p] = Reviewed(c, k)
  BY <1>1, <1>2, <1>4, <1>5
<1>9. \A k \in DOMAIN c.answer : IsEquation(c.answer[k]) =>
         \E p \in DOMAIN s : s[p] = Reviewed(c, k)
  BY <1>1 DEF Applied, Kept
<1>10. c.how # "failed"
  BY DEF CleanedWindow
<1>11. Placed(s, c)
  BY ReviewPlaced
<1>12. QED
  BY <1>2, <1>5, <1>6, <1>7, <1>8, <1>9, <1>10, <1>11 DEF NotesOf

\* The number of an equation, as the loop counts it.
LEMMA CountedEquations ==
    ASSUME NEW s, NEW n \in Nat \ {0}
    PROVE  /\ EquationIndex(s, n) \in Nat
           /\ EquationIndex(s, n + 1) = IF IsEquation(s[n]) THEN EquationIndex(s, n) + 1
                                        ELSE EquationIndex(s, n)
<1> DEFINE before == {q \in 1 .. n - 1 : IsEquation(s[q])}
           upto == {q \in 1 .. (n + 1) - 1 : IsEquation(s[q])}
<1>1. IsFiniteSet(before) /\ Cardinality(before) \in Nat
  <2>1. IsFiniteSet(1 .. n - 1)
    BY FS_Interval
  <2>2. QED
    BY <2>1, FS_Subset, FS_CardinalityType
<1>2. upto = IF IsEquation(s[n]) THEN before \cup {n} ELSE before
  <2>1. 1 .. (n + 1) - 1 = (1 .. n - 1) \cup {n}
    OBVIOUS
  <2>2. QED
    BY <2>1
<1>3. n \notin before
  OBVIOUS
<1>4. EquationIndex(s, n) = Cardinality(before) /\ EquationIndex(s, n + 1) = Cardinality(upto)
  BY DEF EquationIndex
<1> HIDE DEF before, upto
<1>5. Cardinality(before \cup {n}) = Cardinality(before) + 1
  BY <1>1, <1>3, FS_AddElement
<1>6. QED
  BY <1>1, <1>2, <1>4, <1>5

-----------------------------------------------------------------------------
(* The numbering of the topics. *)

\* The loop of _renumber_topics after n blocks of s: those that are no
\* headings, in their order.
Numbered(s, n, d) ==
    /\ d \in Seq(Blocks)
    /\ Ordered(d)
    /\ \A p \in DOMAIN d : \A q \in n + 1 .. Len(s) : Follows(d[p], s[q])
    /\ \A p \in DOMAIN d : d[p].kind # "heading" => \E q \in 1 .. n : d[p] = s[q]
    /\ \A q \in 1 .. n : s[q].kind # "heading" => \E p \in DOMAIN d : d[p] = s[q]

LEMMA NothingNumbered ==
    ASSUME NEW s
    PROVE  Numbered(s, 0, <<>>)
<1>1. <<>> \in Seq(Blocks) /\ DOMAIN <<>> = {}
  BY EmptySeq
<1>2. QED
  BY <1>1 DEF Numbered, Ordered

\* A block passes, or a heading gets its number.
LEMMA NumberOne ==
    ASSUME NEW s \in Seq(Blocks), NEW n \in Nat, NEW d, NEW x \in Blocks,
           Ordered(s), n < Len(s), Numbered(s, n, d),
           x.src = s[n + 1].src,
           \/ x = s[n + 1]
           \/ x.kind = "heading" /\ s[n + 1].kind = "heading"
    PROVE  Numbered(s, n + 1, Append(d, x))
<1> DEFINE t == Append(d, x)
           m == Len(d)
           b == s[n + 1]
<1>1. d \in Seq(Blocks) /\ m \in Nat /\ DOMAIN d = 1 .. m
  BY LenProperties DEF Numbered
<1>2. /\ t \in Seq(Blocks)
      /\ Len(t) = m + 1
      /\ \A p \in 1 .. m : t[p] = d[p]
      /\ t[m + 1] = x
  BY <1>1, AppendProperties
<1>3. DOMAIN t = 1 .. m + 1
  BY <1>2, LenProperties
<1> HIDE DEF t, m
<1>4. \A p \in DOMAIN t : \/ p \in DOMAIN d /\ t[p] = d[p] /\ p < m + 1
                          \/ p = m + 1 /\ t[p] = x
  BY <1>1, <1>2, <1>3
<1>5. \A p \in DOMAIN d : p \in DOMAIN t /\ t[p] = d[p]
  BY <1>1, <1>2, <1>3
<1>6. m + 1 \in DOMAIN t /\ t[m + 1] = x
  BY <1>1, <1>2, <1>3
<1>7. Len(s) \in Nat /\ DOMAIN s = 1 .. Len(s) /\ n + 1 \in DOMAIN s
  BY LenProperties
<1>8. \A e : /\ Follows(e, b) => Follows(e, x)
             /\ Follows(b, e) => Follows(x, e)
  <2>1. x.kind = "heading" => ~IsEquation(x) /\ ~IsRaw(x)
    BY DEF IsEquation, IsRaw
  <2>2. QED
    BY <2>1 DEF Follows, Precedes
<1>9. \A p \in DOMAIN d : Follows(d[p], x)
  BY <1>7, <1>8 DEF Numbered
<1>10. Ordered(t)
  BY <1>1, <1>3, <1>4, <1>9 DEF Numbered, Ordered
<1>11. \A p \in DOMAIN t : \A q \in (n + 1) + 1 .. Len(s) : Follows(t[p], s[q])
  <2>1. ASSUME NEW q \in (n + 1) + 1 .. Len(s)
        PROVE  Follows(x, s[q]) /\ \A p \in DOMAIN d : Follows(d[p], s[q])
    <3>1. q \in DOMAIN s /\ n + 1 < q /\ q \in n + 1 .. Len(s)
      BY <1>7
    <3>2. QED
      BY <1>7, <1>8, <3>1 DEF Numbered, Ordered
  <2>2. QED
    BY <1>4, <2>1
<1>12. \A p \in DOMAIN t : t[p].kind # "heading" => \E q \in 1 .. n + 1 : t[p] = s[q]
  BY <1>4 DEF Numbered
<1>13. \A q \in 1 .. n + 1 : s[q].kind # "heading" => \E p \in DOMAIN t : t[p] = s[q]
  <2>1. \A q \in 1 .. n + 1 : q \in 1 .. n \/ q = n + 1
    OBVIOUS
  <2>2. \A q \in 1 .. n : s[q].kind # "heading" => \E p \in DOMAIN d : d[p] = s[q]
    BY DEF Numbered
  <2>3. QED
    BY <1>5, <1>6, <2>1, <2>2
<1>14. QED
  BY <1>2, <1>10, <1>11, <1>12, <1>13 DEF Numbered, t

\* A heading is dropped.
LEMMA NumberDropped ==
    ASSUME NEW s, NEW n \in Nat, NEW d, Numbered(s, n, d), Len(s) \in Nat,
           s[n + 1].kind = "heading"
    PROVE  Numbered(s, n + 1, d)
<1>1. \A q \in 1 .. n + 1 : q \in 1 .. n \/ q = n + 1
  OBVIOUS
<1>2. /\ (n + 1) + 1 .. Len(s) \subseteq n + 1 .. Len(s)
      /\ 1 .. n \subseteq 1 .. n + 1
  OBVIOUS
<1>3. QED
  BY <1>1, <1>2 DEF Numbered

\* A line is in one paragraph of raw transcript, if it is in any.
LEMMA RawOnce ==
    ASSUME NEW s \in Seq(Blocks), Ordered(s), NEW l \in Nat
    PROVE  LET raw == {p \in DOMAIN s : IsRaw(s[p]) /\ l \in s[p].src[1] .. s[p].src[2]} IN
           Cardinality(raw) = IF raw = {} THEN 0 ELSE 1
<1> DEFINE raw == {p \in DOMAIN s : IsRaw(s[p]) /\ l \in s[p].src[1] .. s[p].src[2]}
<1>1. Len(s) \in Nat /\ DOMAIN s = 1 .. Len(s)
  BY LenProperties
<1>2. ASSUME NEW p \in raw, NEW q \in raw, p < q PROVE FALSE
  <2>1. s[p].src[2] < s[q].src[1]
    BY <1>2 DEF Ordered, Follows
  <2>2. s[p].src[2] \in Nat /\ s[q].src[1] \in Nat
    BY <1>1, BlockSource
  <2>3. QED
    BY <2>1, <2>2
<1>3. CASE raw = {}
  BY <1>3, FS_EmptySet
<1>4. CASE raw # {}
  <2>1. PICK p : p \in raw
    BY <1>4
  <2>2. raw = {p}
    BY <1>1, <1>2, <2>1
  <2>3. QED
    BY <1>4, <2>2, FS_Singleton
<1>5. QED
  BY <1>3, <1>4

-----------------------------------------------------------------------------
(* The inductive invariant. *)

Said == {said[i] : i \in DOMAIN said}

\* The windows that were written follow one another up to the next one.
WindowsInv ==
    /\ said \in Seq(Said)
    /\ \A i \in DOMAIN said : 1 <= said[i].lo /\ said[i].lo <= said[i].hi /\ said[i].hi < next
    /\ \A i, j \in DOMAIN said : i < j => said[i].hi < said[j].lo
    /\ \A l \in 1 .. next - 1 : \E i \in DOMAIN said : l \in said[i].lo .. said[i].hi
    /\ pc \in {"overview", "number"} => next = Len(lines) + 1
    /\ pc # "done" => ~extracted

\* The window that is being written.
ChunkInv ==
    /\ pc \in {"review", "apply", "window"} =>
          chunk.lo = next /\ next <= chunk.hi /\ chunk.hi <= Len(lines)
    /\ pc = "review" => chunk = Chunk(chunk.lo, chunk.hi, chunk.how, chunk.answer)
    /\ pc \in {"review", "apply"} => CleanedWindow(chunk)
    /\ pc = "window" => chunk.how = "failed" /\ chunk.answer = <<>>
    /\ pc = "transcript" => chunk.lo = 1 /\ chunk.hi = Len(lines)

\* How far the loop is that runs.
LoopInv ==
    /\ pc = "apply" =>
          /\ position \in 1 .. Len(chunk.answer) + 1
          /\ equation_index = EquationIndex(chunk.answer, position)
          /\ Applied(chunk, position - 1, result)
    /\ pc \in {"window", "transcript"} =>
          /\ position \in chunk.lo .. chunk.hi + 1
          /\ RawNotes(result, chunk.lo, position - 1)
    /\ pc = "number" =>
          /\ position \in 1 .. Len(blocks) + 1
          /\ Numbered(blocks, position - 1, doc)

NotesInv ==
    /\ TypeOK
    /\ WindowsInv
    /\ ChunkInv
    /\ NumberingInv
    /\ LoopInv
    /\ NotesOf(blocks, Said)
    /\ EquationsKept
    /\ TranscriptKept

-----------------------------------------------------------------------------
(* Types. *)

\* What the AI may answer for a window.
LEMMA AnswerType ==
    ASSUME NEW lo \in Nat, NEW hi \in Nat, left \in Nat, NEW answer \in Answers(lo, hi)
    PROVE  /\ answer \in Seq(Blocks)
           /\ Len(answer) \in 0 .. left
           /\ \A k \in DOMAIN answer : answer[k].src = <<lo, hi, k>> /\ ~IsRaw(answer[k])
<1>1. PICK n \in 0 .. left : \E a \in [1 .. n -> Piece] :
         answer = [i \in DOMAIN a |-> Block(a[i].kind, a[i].text, a[i].num, <<lo, hi, i>>)]
  BY DEF Answers
<1>2. PICK a \in [1 .. n -> Piece] :
         answer = [i \in DOMAIN a |-> Block(a[i].kind, a[i].text, a[i].num, <<lo, hi, i>>)]
  BY <1>1
<1>3. ASSUME NEW i \in 1 .. n
      PROVE  LET b == Block(a[i].kind, a[i].text, a[i].num, <<lo, hi, i>>) IN
             b \in Blocks /\ b.src = <<lo, hi, i>> /\ ~IsRaw(b)
  <2> DEFINE piece == a[i]
  <2>1. piece \in Piece /\ i \in Nat
    OBVIOUS
  <2>2. /\ piece.kind \in {"heading", "paragraph", "equation"}
        /\ piece.text \in Topic \cup {"marker", "raw", "absent", "formula", "corrected"}
        /\ piece.num \in Nat
        /\ piece.kind = "heading" => piece.text \in Topic
        /\ piece.kind = "paragraph" => piece.text # "raw"
    <3>1. \/ piece \in [kind : {"heading"}, text : Topic, num : {0, 9}]
          \/ piece = [kind |-> "paragraph", text |-> "marker", num |-> 0]
          \/ piece = [kind |-> "equation", text |-> "formula", num |-> 0]
      BY <2>1 DEF Piece, ModelNumber
    <3> HIDE DEF piece
    <3>2. CASE piece \in [kind : {"heading"}, text : Topic, num : {0, 9}]
      <4>1. piece.kind = "heading" /\ piece.text \in Topic /\ piece.num \in {0, 9}
        BY <3>2
      <4>2. QED
        BY <4>1
    <3>3. CASE piece = [kind |-> "paragraph", text |-> "marker", num |-> 0]
      BY <3>3
    <3>4. CASE piece = [kind |-> "equation", text |-> "formula", num |-> 0]
      BY <3>4
    <3>5. QED
      BY <3>1, <3>2, <3>3, <3>4
  <2> HIDE DEF piece
  <2>3. Block(piece.kind, piece.text, piece.num, <<lo, hi, i>>) \in Blocks
    BY <2>1, <2>2 DEF Block, Blocks
  <2>4. ~IsRaw(Block(piece.kind, piece.text, piece.num, <<lo, hi, i>>))
    BY <2>2 DEF Block, IsRaw
  <2>5. Block(piece.kind, piece.text, piece.num, <<lo, hi, i>>).src = <<lo, hi, i>>
    BY DEF Block
  <2>6. QED
    BY <2>3, <2>4, <2>5 DEF piece
<1> DEFINE f(i) == Block(a[i].kind, a[i].text, a[i].num, <<lo, hi, i>>)
<1>4. DOMAIN a = 1 .. n /\ answer = [i \in 1 .. n |-> f(i)]
  BY <1>2
<1>5. \A i \in 1 .. n : f(i) \in Blocks /\ f(i).src = <<lo, hi, i>> /\ ~IsRaw(f(i))
  BY <1>3
<1> HIDE DEF f
<1>6. answer \in [1 .. n -> Blocks] /\ n \in Nat
  BY <1>4, <1>5
<1>7. answer \in Seq(Blocks) /\ Len(answer) = n
  <2>1. answer \in Seq(Blocks)
    BY <1>6, SeqDef
  <2>2. Len(answer) \in Nat /\ 1 .. Len(answer) = 1 .. n
    BY <1>6, <2>1, LenProperties
  <2>3. n \in 1 .. n \/ n = 0
    BY <1>6
  <2>4. Len(answer) \in 1 .. Len(answer) \/ Len(answer) = 0
    BY <2>2
  <2>5. QED
    BY <1>6, <2>1, <2>2, <2>3, <2>4
<1>8. QED
  BY <1>4, <1>5, <1>6, <1>7

LEMMA FallbackType == result \in Seq(Blocks) => FallbackBlocks \in Seq(Blocks)
<1> DEFINE b == Block("paragraph", "absent", 0, <<0, 0, 0>>)
<1>1. b \in Blocks
  BY DEF Block, Blocks
<1> HIDE DEF b
<1>2. <<b>> \in Seq(Blocks)
  BY <1>1
<1>3. QED
  BY <1>2 DEF FallbackBlocks, b

LEMMA ExtendedType ==
    ASSUME NEW s \in Seq(Blocks), NEW t \in Seq(Blocks)
    PROVE  s \o DedupeHeadings(s, t) \in Seq(Blocks)
<1>1. t # <<>> => Tail(t) \in Seq(Blocks)
  BY HeadTailProperties
<1>2. DedupeHeadings(s, t) \in Seq(Blocks)
  BY <1>1 DEF DedupeHeadings
<1>3. QED
  BY <1>2, ConcatProperties

LEMMA ChunkTypes ==
    ASSUME NEW lo \in Nat, NEW hi \in Nat, NEW how \in {"cleaned", "failed"},
           NEW answer \in Seq(Blocks)
    PROVE  ChunkType(Chunk(lo, hi, how, answer))
BY DEF ChunkType, Chunk

LEMMA FailedTypes ==
    ASSUME NEW lo \in Nat, NEW hi \in Nat
    PROVE  ChunkType(Chunk(lo, hi, "failed", <<>>)) /\ ChunkType(NoChunk)
<1>1. <<>> \in Seq(Blocks)
  BY EmptySeq
<1>2. QED
  BY <1>1, ChunkTypes DEF NoChunk

LEMMA TypeInit == Init => TypeOK
<1> SUFFICES ASSUME Init PROVE TypeOK
  OBVIOUS
<1>1. lines \in Seq(Nat) /\ Len(lines) \in Nat /\ <<>> \in Seq(Blocks) /\ MaxBlocks \in Nat
  BY NotesAssumption, LenProperties, EmptySeq DEF Init
<1>2. ChunkType(chunk) /\ DOMAIN said = {}
  BY FailedTypes DEF Init
<1>3. /\ next \in 1 .. Len(lines) + 1
      /\ position \in Nat \ {0} /\ equation_index \in Nat /\ number \in Nat
      /\ left \in 0 .. MaxBlocks
  BY <1>1 DEF Init
<1>4. \A i \in DOMAIN said : ChunkType(said[i])
  BY <1>2
<1>5. succeeded \in BOOLEAN /\ extracted \in BOOLEAN
  BY DEF Init
<1>6. result \in Seq(Blocks) /\ blocks \in Seq(Blocks) /\ doc \in Seq(Blocks)
  BY <1>1 DEF Init
<1>7. QED
  BY <1>1, <1>2, <1>3, <1>4, <1>5, <1>6 DEF Init, TypeOK

\* The window that Extend adds.
LEMMA SaidType ==
    ASSUME TypeOK, WindowsInv, NEW s \in Seq(Blocks), Extend(s)
    PROVE  \A i \in DOMAIN said' : ChunkType(said'[i])
<1>1. /\ DOMAIN Append(said, chunk) = 1 .. Len(said) + 1
      /\ DOMAIN said = 1 .. Len(said) /\ Len(said) \in Nat
      /\ \A i \in 1 .. Len(said) : Append(said, chunk)[i] = said[i]
      /\ Append(said, chunk)[Len(said) + 1] = chunk
  BY Appended DEF WindowsInv, Said
<1>2. said' = Append(said, chunk)
  BY DEF Extend
<1>3. \A i \in DOMAIN said' : \/ i \in DOMAIN said /\ said'[i] = said[i]
                              \/ said'[i] = chunk
  BY <1>1, <1>2
<1>4. QED
  BY <1>3 DEF TypeOK

LEMMA TypeStep == TypeOK /\ WindowsInv /\ ChunkInv /\ [Next]_vars => TypeOK'
<1> SUFFICES ASSUME TypeOK, WindowsInv, ChunkInv, [Next]_vars PROVE TypeOK'
  OBVIOUS
<1>1. /\ lines \in Seq(Nat) /\ Len(lines) \in Nat
      /\ next \in Nat \ {0}
      /\ ChunkType(chunk) /\ ChunkType(NoChunk)
      /\ <<>> \in Seq(Blocks)
      /\ result \in Seq(Blocks) /\ blocks \in Seq(Blocks)
      /\ MaxBlocks \in Nat /\ left \in Nat
  BY LenProperties, EmptySeq, FailedTypes, NotesAssumption DEF TypeOK
<1>2. CASE CleanChunk
  <2>1. PICK hi \in next .. Len(lines) : \E answer \in Answers(next, hi) :
           /\ chunk' = Chunk(next, hi, "cleaned", answer)
           /\ left' = left - Len(answer)
    BY <1>2 DEF CleanChunk
  <2>2. PICK answer \in Answers(next, hi) :
           /\ chunk' = Chunk(next, hi, "cleaned", answer)
           /\ left' = left - Len(answer)
    BY <2>1
  <2>3. hi \in Nat
    BY <1>1
  <2>4. answer \in Seq(Blocks) /\ Len(answer) \in 0 .. left
    BY <1>1, <2>3, AnswerType
  <2>5. ChunkType(chunk')
    BY <1>1, <2>2, <2>3, <2>4, ChunkTypes
  <2>6. left' \in 0 .. MaxBlocks
    BY <1>1, <2>2, <2>4 DEF TypeOK
  <2>7. QED
    BY <1>2, <2>5, <2>6 DEF CleanChunk, turn, numbering, TypeOK
<1>3. CASE CleanFails
  <2>1. ChunkType(chunk')
    BY <1>1, <1>3, FailedTypes DEF CleanFails
  <2>2. QED
    BY <1>1, <1>3, <2>1 DEF CleanFails, BeginLoop, numbering, TypeOK
<1>4. CASE CallRaises
  BY <1>4 DEF CallRaises, turn, numbering, TypeOK
<1>5. CASE ReviewEquations
  <2>1. PICK reviews : chunk' = [chunk EXCEPT !.reviews = reviews]
    BY <1>5 DEF ReviewEquations
  <2>2. chunk = Chunk(chunk.lo, chunk.hi, chunk.how, chunk.answer)
    BY <1>5 DEF ReviewEquations, ChunkInv
  <2>3. /\ chunk'.lo = chunk.lo /\ chunk'.hi = chunk.hi /\ chunk'.how = chunk.how
        /\ chunk'.answer = chunk.answer
    BY <2>1, <2>2 DEF Chunk
  <2>4. ChunkType(chunk')
    BY <1>1, <2>3 DEF ChunkType
  <2>5. QED
    BY <1>1, <1>5, <2>4 DEF ReviewEquations, BeginLoop, numbering, TypeOK
<1>6. CASE ApplyReview
  <2> DEFINE b == chunk.answer[position]
             marker == Block("paragraph", "marker", 0, b.src)
             verdict == chunk.reviews[equation_index]
  <2>1. b \in Blocks
    BY <1>1, <1>6, LenProperties DEF ApplyReview, ChunkType, TypeOK
  <2>2. b.src \in Nat \X Nat \X Nat
    BY <2>1 DEF Blocks
  <2>3. marker \in Blocks /\ ReviewedBlock(b, verdict) \in Blocks
    BY <2>1, <2>2 DEF Block, Blocks, ReviewedBlock
  <2> HIDE DEF b, marker, verdict
  <2>4. /\ Append(result, b) \in Seq(Blocks)
        /\ Append(result, ReviewedBlock(b, verdict)) \in Seq(Blocks)
        /\ Append(Append(result, b), marker) \in Seq(Blocks)
    <3>1. Append(result, b) \in Seq(Blocks)
      BY <1>1, <2>1, AppendProperties
    <3>2. QED
      BY <1>1, <2>3, <3>1, AppendProperties
  <2>5. result' \in Seq(Blocks) /\ equation_index' \in Nat
    <3>1. \/ result' = Append(result, b) /\ equation_index' = equation_index
          \/ /\ \/ result' = Append(Append(result, b), marker)
                \/ result' = Append(result, ReviewedBlock(b, verdict))
             /\ equation_index' = equation_index + 1
      BY <1>6 DEF ApplyReview, b, marker, verdict
    <3>2. equation_index \in Nat /\ equation_index + 1 \in Nat
      BY DEF TypeOK
    <3>3. QED
      BY <2>4, <3>1, <3>2, Zenon
  <2>6. QED
    BY <1>1, <1>6, <2>5 DEF ApplyReview, numbering, TypeOK
<1>7. ASSUME NEW s \in Seq(Blocks), Extend(s), chunk.hi <= Len(lines),
             UNCHANGED <<lines, numbering, doc, extracted, left>>, succeeded' \in BOOLEAN
      PROVE  TypeOK'
  <2>1. /\ blocks' \in Seq(Blocks)
        /\ \A i \in DOMAIN said' : ChunkType(said'[i])
    BY <1>1, <1>7, ExtendedType, SaidType DEF Extend
  <2>2. next' \in 1 .. Len(lines) + 1
    <3>1. chunk.hi \in Nat /\ next' = chunk.hi + 1
      BY <1>1, <1>7 DEF Extend, ChunkType
    <3>2. QED
      BY <1>1, <1>7, <3>1
  <2>3. QED
    BY <1>1, <1>7, <2>1, <2>2 DEF Extend, BeginLoop, numbering, TypeOK
<1>8. CASE EndReview
  BY <1>1, <1>7, <1>8 DEF EndReview, ChunkInv
<1>9. CASE EndRawWindow
  BY <1>1, <1>7, <1>9, FallbackType DEF EndRawWindow, ChunkInv, TypeOK
<1>10. CASE FallbackContent
  <2>1. ChunkType(chunk')
    BY <1>1, <1>10, FailedTypes DEF FallbackContent
  <2>2. QED
    BY <1>1, <1>10, <2>1 DEF FallbackContent, BeginLoop, numbering, TypeOK
<1>11. CASE CloseParagraph
  <2>1. PICK last \in position .. chunk.hi :
           /\ result' = Append(result, Block("paragraph", "raw", 0, <<position, last, 0>>))
           /\ position' = last + 1
    BY <1>11 DEF CloseParagraph
  <2>2. last \in Nat /\ position \in Nat
    BY <1>1 DEF TypeOK, ChunkType
  <2>3. Block("paragraph", "raw", 0, <<position, last, 0>>) \in Blocks
    BY <2>2 DEF Block, Blocks
  <2>4. result' \in Seq(Blocks)
    BY <1>1, <2>1, <2>3, AppendProperties
  <2>5. QED
    BY <1>11, <2>1, <2>2, <2>4 DEF CloseParagraph, numbering, TypeOK
<1>12. CASE EndTranscript
  BY <1>1, <1>12, FallbackType DEF EndTranscript, turn, numbering, TypeOK
<1>13. CASE Cleaned
  BY <1>13 DEF Cleaned, turn, numbering, TypeOK
<1>14. CASE Overview
  <2>1. blocks' \in Seq(Blocks)
    BY <1>1, <1>14, HeadTailProperties DEF Overview, WithoutModelTitle
  <2>2. QED
    BY <1>1, <1>14, <2>1 DEF Overview, BeginLoop, numbering, TypeOK
<1>15. CASE RenumberTopic
  <2> DEFINE b == blocks[position]
             h == Block("heading", b.text, number + 1, b.src)
  <2>1. b \in Blocks
    BY <1>1, <1>15, LenProperties DEF RenumberTopic, TypeOK
  <2>2. IsTopic(b) => b.text \in Topic /\ h \in Blocks
    BY <2>1 DEF IsTopic, Block, Blocks, TypeOK
  <2> HIDE DEF b, h
  <2>3. /\ Append(doc, b) \in Seq(Blocks)
        /\ IsTopic(b) => Append(doc, h) \in Seq(Blocks)
    BY <2>1, <2>2, AppendProperties DEF TypeOK
  <2>4. doc' \in Seq(Blocks) /\ topic' \in Topic \cup {NoTopic} /\ number' \in Nat
    <3>1. \/ doc' = Append(doc, b) /\ topic' = topic /\ number' = number
          \/ doc' = doc /\ topic' = topic /\ number' = number
          \/ IsTopic(b) /\ doc' = Append(doc, h) /\ topic' = b.text /\ number' = number + 1
      BY <1>15 DEF RenumberTopic, b, h
    <3>2. /\ doc \in Seq(Blocks) /\ topic \in Topic \cup {NoTopic}
          /\ number \in Nat /\ number + 1 \in Nat
      BY DEF TypeOK
    <3>3. QED
      BY <2>2, <2>3, <3>1, <3>2, Zenon
  <2>5. QED
    BY <1>15, <2>4 DEF RenumberTopic, TypeOK
<1>16. CASE Finish
  BY <1>16 DEF Finish, turn, numbering, TypeOK
<1>17. CASE UNCHANGED vars
  BY <1>17 DEF vars, turn, numbering, TypeOK
<1>18. QED
  BY <1>2, <1>3, <1>4, <1>5, <1>6, <1>8, <1>9, <1>10, <1>11, <1>12, <1>13, <1>14, <1>15, <1>16,
     <1>17 DEF Next

-----------------------------------------------------------------------------
(* The numbers of the topics. *)

LEMMA NumberingInit == Init => NumberingInv
<1> SUFFICES ASSUME Init PROVE NumberingInv
  OBVIOUS
<1>0. doc = <<>> /\ number = 0 /\ pc # "done"
  BY DEF Init
<1>1. DOMAIN doc = {} /\ Topics = {}
  BY <1>0 DEF Topics
<1>2. Cardinality(Topics) = 0
  BY <1>1, FS_EmptySet
<1>3. QED
  BY <1>0, <1>1, <1>2 DEF NumberingInv, TopicsNumbered

\* A block that is appended counts if it is a topic, and moves no other.
LEMMA AppendedTopic ==
    ASSUME TypeOK, NEW b \in Blocks, doc' = Append(doc, b)
    PROVE  LET new == Len(doc) + 1 IN
           /\ Len(doc) \in Nat /\ new \notin Topics
           /\ DOMAIN doc' = DOMAIN doc \cup {new}
           /\ \A p \in DOMAIN doc : p \in 1 .. Len(doc) /\ doc'[p] = doc[p]
           /\ doc'[new] = b
           /\ Topics' = IF b.kind = "heading" /\ b.num # 0 THEN Topics \cup {new} ELSE Topics
           /\ Topics \subseteq 1 .. Len(doc)
           /\ IsFiniteSet(Topics)
<1> DEFINE new == Len(doc) + 1
<1>1. /\ Len(doc) \in Nat
      /\ DOMAIN doc = 1 .. Len(doc)
      /\ DOMAIN doc' = 1 .. Len(doc) + 1
      /\ \A p \in 1 .. Len(doc) : doc'[p] = doc[p]
      /\ doc'[new] = b
  BY AppendProperties, LenProperties DEF TypeOK
<1>2. DOMAIN doc' = DOMAIN doc \cup {new} /\ new \notin DOMAIN doc
  BY <1>1
<1>3. Topics' = IF b.kind = "heading" /\ b.num # 0 THEN Topics \cup {new} ELSE Topics
  BY <1>1, <1>2 DEF Topics
<1>4. Topics \subseteq 1 .. Len(doc)
  BY <1>1 DEF Topics
<1>5. IsFiniteSet(Topics)
  <2>1. IsFiniteSet(1 .. Len(doc))
    BY <1>1, FS_Interval
  <2>2. QED
    BY <1>4, <2>1, FS_Subset
<1>6. QED
  BY <1>1, <1>2, <1>3, <1>4, <1>5

LEMMA RenumberStep == TypeOK /\ NumberingInv /\ RenumberTopic => NumberingInv'
<1> SUFFICES ASSUME TypeOK, NumberingInv, RenumberTopic PROVE NumberingInv'
  OBVIOUS
<1> DEFINE b == blocks[position]
           new == Len(doc) + 1
<1>1. pc = "number" /\ pc' = "number"
  BY DEF RenumberTopic
<1>0. b \in Blocks /\ (IsTopic(b) => Block("heading", b.text, number + 1, b.src) \in Blocks)
  <2>1. b \in Blocks
    BY LenProperties DEF RenumberTopic, TypeOK
  <2>2. QED
    BY <2>1 DEF IsTopic, Block, Blocks, TypeOK
<1>2. CASE UNCHANGED <<doc, topic, number>>
  BY <1>1, <1>2 DEF NumberingInv, TopicsNumbered, Topics
<1>3. CASE ~IsTopic(b) /\ doc' = Append(doc, b) /\ UNCHANGED <<topic, number>>
  <2>1. b.kind = "heading" => b.num = 0 /\ IsOption(b)
    BY <1>3 DEF IsTopic, IsOption
  <2>2. /\ Topics' = Topics /\ Topics \subseteq DOMAIN doc
        /\ \A p \in DOMAIN doc : doc'[p] = doc[p]
        /\ doc'[new] = b /\ DOMAIN doc' = DOMAIN doc \cup {new}
    BY <1>0, <1>3, <2>1, AppendedTopic DEF Topics
  <2>3. TopicsNumbered'
    BY <2>1, <2>2 DEF NumberingInv, TopicsNumbered, IsOption
  <2>4. QED
    BY <1>1, <1>3, <2>2, <2>3 DEF NumberingInv
<1>4. CASE /\ IsTopic(b) /\ b.text # topic
           /\ number' = number + 1
           /\ topic' = b.text
           /\ doc' = Append(doc, Block("heading", b.text, number + 1, b.src))
  <2>1. /\ number = Cardinality(Topics)
        /\ \A p \in Topics : doc[p].num \in 1 .. number
        /\ \A p \in Topics : doc[p].num = number => doc[p].text = topic
        /\ TopicsNumbered
    BY <1>1 DEF NumberingInv
  <2>2. /\ number \in Nat => number + 1 # 0
        /\ LET h == Block("heading", b.text, number + 1, b.src) IN
           h.kind = "heading" /\ h.num = number + 1 /\ h.text = b.text
    BY DEF Block
  <2>3. number \in Nat /\ IsFiniteSet(Topics)
    BY <1>0, <1>4, AppendedTopic DEF TypeOK
  <2>4. /\ Len(doc) \in Nat
        /\ Topics' = Topics \cup {new} /\ new \notin Topics
        /\ Topics \subseteq DOMAIN doc
        /\ \A p \in DOMAIN doc : p \in 1 .. Len(doc) /\ doc'[p] = doc[p]
        /\ doc'[new] = Block("heading", b.text, number + 1, b.src)
        /\ DOMAIN doc' = DOMAIN doc \cup {new}
    BY <1>0, <1>4, <2>2, <2>3, AppendedTopic DEF Topics
  <2> HIDE DEF b, new
  <2>5. number' = Cardinality(Topics')
    BY <1>4, <2>1, <2>3, <2>4, FS_AddElement
  <2>6. /\ doc'[new].num = number' /\ doc'[new].text = topic' /\ doc'[new].kind = "heading"
        /\ \A p \in Topics : doc'[p].num \in 1 .. number /\ doc'[p] = doc[p]
    BY <1>4, <2>1, <2>2, <2>4
  <2>7. \A p \in Topics' : doc'[p].num = Cardinality({q \in Topics' : q <= p})
    <3>1. \A p \in Topics : p < new /\ p \in Nat
      BY <2>4 DEF new
    <3>2. {q \in Topics' : q <= new} = Topics'
      BY <2>4, <3>1 DEF new
    <3>3. \A p \in Topics : {q \in Topics' : q <= p} = {q \in Topics : q <= p}
      BY <2>4, <3>1 DEF new
    <3>4. QED
      BY <2>1, <2>4, <2>5, <2>6, <3>2, <3>3 DEF TopicsNumbered
  <2>8. \A p, q \in Topics' : doc'[q].num = doc'[p].num + 1 => doc'[p].text # doc'[q].text
    <3>1. ASSUME NEW p \in Topics, NEW q \in Topics, doc'[q].num = doc'[p].num + 1
          PROVE  doc'[p].text # doc'[q].text
      BY <2>1, <2>6, <3>1 DEF TopicsNumbered
    <3>2. ASSUME NEW p \in Topics, doc'[new].num = doc'[p].num + 1
          PROVE  doc'[p].text # doc'[new].text
      <4>1. doc[p].num \in 1 .. number /\ number + 1 = doc[p].num + 1
        BY <1>4, <2>1, <2>6, <3>2
      <4>2. doc[p].num = number
        BY <2>3, <4>1
      <4>3. QED
        BY <1>4, <2>1, <2>6, <4>2
    <3>3. ASSUME NEW q \in Topics' PROVE doc'[q].num # doc'[new].num + 1
      <4>1. doc'[q].num \in 1 .. number + 1
        BY <1>4, <2>3, <2>4, <2>6
      <4>2. doc'[new].num = number + 1
        BY <1>4, <2>6
      <4>3. QED
        BY <2>3, <4>1, <4>2
    <3>4. QED
      BY <2>4, <3>1, <3>2, <3>3
  <2>9. \A p \in DOMAIN doc' : doc'[p].kind = "heading" /\ doc'[p].num = 0 => IsOption(doc'[p])
    <3>1. number + 1 # 0 /\ doc'[new].num = number + 1
      <4>1. doc'[new].num = number + 1
        BY <1>4, <2>6
      <4>2. number + 1 # 0
        BY <2>3
      <4>3. QED
        BY <4>1, <4>2
    <3>2. QED
      BY <2>1, <2>4, <3>1 DEF TopicsNumbered
  <2>10. TopicsNumbered'
    BY <2>7, <2>8, <2>9 DEF TopicsNumbered, IsOption
  <2>11. /\ \A p \in Topics' : doc'[p].num \in 1 .. number'
         /\ \A p \in Topics' : doc'[p].num = number' => doc'[p].text = topic'
    BY <1>4, <2>3, <2>4, <2>6, SMTT(30)
  <2>12. QED
    BY <1>1, <2>4, <2>5, <2>10, <2>11 DEF NumberingInv
<1>5. QED
  BY <1>2, <1>3, <1>4 DEF RenumberTopic

\* A paragraph of raw transcript is no heading.
LEMMA FallbackHeadings ==
    ASSUME \A p \in DOMAIN result : IsRaw(result[p])
    PROVE  \A p \in DOMAIN FallbackBlocks : FallbackBlocks[p].kind # "heading"
<1> DEFINE b == Block("paragraph", "absent", 0, <<0, 0, 0>>)
<1>1. b.kind = "paragraph"
  BY DEF Block
<1> HIDE DEF b
<1>2. \A p \in DOMAIN <<b>> : <<b>>[p] = b
  OBVIOUS
<1>3. CASE result = <<>>
  <2>1. FallbackBlocks = <<b>>
    BY <1>3 DEF FallbackBlocks, b
  <2>2. QED
    BY <1>1, <1>2, <2>1
<1>4. CASE result # <<>>
  <2>1. FallbackBlocks = result
    BY <1>4 DEF FallbackBlocks
  <2>2. QED
    BY <2>1 DEF IsRaw
<1>5. QED
  BY <1>3, <1>4

LEMMA NumberingStep == TypeOK /\ LoopInv /\ NumberingInv /\ [Next]_vars => NumberingInv'
<1> SUFFICES ASSUME TypeOK, LoopInv, NumberingInv, [Next]_vars PROVE NumberingInv'
  OBVIOUS
<1>1. ASSUME UNCHANGED <<doc, number, topic>>, pc # "done", pc' = "done" \/ pc = pc'
             \/ pc \notin {"number", "done"}
      PROVE  NumberingInv'
  BY <1>1 DEF NumberingInv, TopicsNumbered, Topics
<1>2. CASE CleanChunk \/ CleanFails \/ CallRaises \/ ReviewEquations \/ ApplyReview
           \/ FallbackContent \/ CloseParagraph \/ Cleaned \/ Overview
  BY <1>1, <1>2 DEF CleanChunk, CleanFails, CallRaises, ReviewEquations, ApplyReview,
     FallbackContent, CloseParagraph, Cleaned, Overview, numbering
<1>3. CASE EndReview \/ EndRawWindow
  BY <1>1, <1>3 DEF EndReview, EndRawWindow, Extend, numbering
<1>4. CASE Finish
  BY <1>1, <1>4 DEF Finish, numbering
<1>5. CASE RenumberTopic
  BY <1>5, RenumberStep
<1>6. CASE EndTranscript
  <2>1. \A p \in DOMAIN result : IsRaw(result[p])
    BY <1>6 DEF EndTranscript, LoopInv, RawNotes
  <2>2. \A p \in DOMAIN doc' : doc'[p].kind # "heading"
    BY <1>6, <2>1, FallbackHeadings DEF EndTranscript
  <2>3. Topics' = {}
    BY <2>2 DEF Topics
  <2>4. TopicsNumbered' /\ pc' = "done"
    BY <1>6, <2>2, <2>3 DEF EndTranscript, TopicsNumbered
  <2>5. QED
    BY <2>4 DEF NumberingInv
<1>7. CASE UNCHANGED vars
  BY <1>7 DEF vars, numbering, NumberingInv, TopicsNumbered, Topics
<1>8. QED
  BY <1>2, <1>3, <1>4, <1>5, <1>6, <1>7 DEF Next

-----------------------------------------------------------------------------
(* The windows. *)

\* A window that was written follows the others.
LEMMA ExtendWindows ==
    ASSUME TypeOK, WindowsInv, pc # "done", chunk.lo = next, next <= chunk.hi, NEW s, Extend(s),
           UNCHANGED <<lines, extracted>>
    PROVE  WindowsInv' /\ Said' = Said \cup {chunk}
<1> DEFINE n == Len(said)
<1>1. /\ n \in Nat /\ DOMAIN said = 1 .. n
      /\ DOMAIN Append(said, chunk) = 1 .. n + 1
      /\ \A i \in 1 .. n : Append(said, chunk)[i] = said[i]
      /\ Append(said, chunk)[n + 1] = chunk
      /\ Append(said, chunk) \in Seq({Append(said, chunk)[i] : i \in DOMAIN Append(said, chunk)})
  <2>1. said \in Seq({said[i] : i \in DOMAIN said})
    BY DEF WindowsInv, Said
  <2>2. QED
    BY <2>1, Appended
<1>2. said' = Append(said, chunk) /\ next' = chunk.hi + 1 /\ pc' = "clean"
  BY DEF Extend
<1> HIDE DEF n
<1>3. /\ n \in Nat /\ DOMAIN said = 1 .. n /\ DOMAIN said' = 1 .. n + 1
      /\ \A i \in 1 .. n : said'[i] = said[i]
      /\ said'[n + 1] = chunk
      /\ said' \in Seq(Said')
  BY <1>1, <1>2 DEF Said
<1>4. \A i \in DOMAIN said' : \/ i \in DOMAIN said /\ i < n + 1 /\ said'[i] = said[i]
                              \/ i = n + 1 /\ said'[i] = chunk
  BY <1>3
<1>5. next \in Nat \ {0} /\ chunk.lo \in Nat /\ chunk.hi \in Nat
  BY LenProperties DEF TypeOK, ChunkType
<1>6. \A i \in DOMAIN said : /\ said[i].lo \in Nat /\ said[i].hi \in Nat
                             /\ 1 <= said[i].lo /\ said[i].lo <= said[i].hi /\ said[i].hi < next
  BY DEF TypeOK, ChunkType, WindowsInv
<1>7. Said' = Said \cup {chunk}
  <2>1. \A c \in Said : c \in Said'
    BY <1>3 DEF Said
  <2>2. chunk \in Said'
    <3>1. n + 1 \in DOMAIN said'
      BY <1>3
    <3>2. QED
      BY <1>3, <3>1 DEF Said
  <2>3. \A c \in Said' : c \in Said \/ c = chunk
    BY <1>4 DEF Said
  <2>4. QED
    BY <2>1, <2>2, <2>3
<1>8. \A i \in DOMAIN said' :
         1 <= said'[i].lo /\ said'[i].lo <= said'[i].hi /\ said'[i].hi < next'
  <2>1. ASSUME NEW i \in DOMAIN said
        PROVE  1 <= said[i].lo /\ said[i].lo <= said[i].hi /\ said[i].hi < chunk.hi + 1
    BY <1>5, <1>6
  <2>2. 1 <= chunk.lo /\ chunk.lo <= chunk.hi /\ chunk.hi < chunk.hi + 1
    BY <1>5
  <2>3. QED
    BY <1>2, <1>4, <2>1, <2>2
<1>9. \A i, j \in DOMAIN said' : i < j => said'[i].hi < said'[j].lo
  <2>1. ASSUME NEW i \in DOMAIN said', NEW j \in DOMAIN said', i < j
        PROVE  said'[i].hi < said'[j].lo
    <3>1. i \in DOMAIN said /\ said'[i] = said[i]
      BY <1>3, <1>4, <2>1
    <3>2. CASE j \in DOMAIN said
      BY <1>3, <2>1, <3>1, <3>2 DEF WindowsInv
    <3>3. CASE said'[j] = chunk
      BY <1>6, <3>1, <3>3
    <3>4. QED
      BY <1>4, <3>2, <3>3
  <2>2. QED
    BY <2>1
<1>10. \A l \in 1 .. next' - 1 : \E i \in DOMAIN said' : l \in said'[i].lo .. said'[i].hi
  <2>1. ASSUME NEW l \in 1 .. chunk.hi
        PROVE  \E i \in DOMAIN said' : l \in said'[i].lo .. said'[i].hi
    <3>1. CASE l \in 1 .. next - 1
      <4>1. PICK i \in DOMAIN said : l \in said[i].lo .. said[i].hi
        BY <3>1 DEF WindowsInv
      <4>2. i \in DOMAIN said' /\ said'[i] = said[i]
        BY <1>3
      <4>3. QED
        BY <4>1, <4>2
    <3>2. CASE l \notin 1 .. next - 1
      <4>1. l \in chunk.lo .. chunk.hi
        BY <1>5, <3>2
      <4>2. n + 1 \in DOMAIN said'
        BY <1>3
      <4>3. QED
        BY <1>3, <4>1, <4>2
    <3>3. QED
      BY <3>1, <3>2
  <2>2. next' - 1 = chunk.hi
    BY <1>2, <1>5
  <2>3. QED
    BY <2>1, <2>2
<1>11. pc' = "clean" /\ ~extracted'
  BY <1>2 DEF WindowsInv
<1>12. QED
  BY <1>3, <1>7, <1>8, <1>9, <1>10, <1>11 DEF WindowsInv

LEMMA WindowsStep == TypeOK /\ WindowsInv /\ ChunkInv /\ [Next]_vars => WindowsInv'
<1> SUFFICES ASSUME TypeOK, WindowsInv, ChunkInv, [Next]_vars PROVE WindowsInv'
  OBVIOUS
<1>1. ASSUME UNCHANGED <<lines, said, next, extracted>>,
             pc # "done" \/ pc' = pc,
             pc' \in {"overview", "number"} => next = Len(lines) + 1
      PROVE  WindowsInv'
  BY <1>1 DEF WindowsInv, Said
<1>2. CASE CleanChunk \/ CleanFails \/ CallRaises \/ ReviewEquations \/ ApplyReview
           \/ FallbackContent \/ CloseParagraph \/ EndTranscript
  BY <1>1, <1>2 DEF CleanChunk, CleanFails, CallRaises, ReviewEquations, ApplyReview,
     FallbackContent, CloseParagraph, EndTranscript
<1>3. CASE Cleaned
  <2>1. next = Len(lines) + 1
    BY <1>3, LenProperties DEF Cleaned, TypeOK
  <2>2. QED
    BY <1>1, <1>3, <2>1 DEF Cleaned
<1>4. CASE Overview \/ RenumberTopic
  BY <1>1, <1>4 DEF Overview, RenumberTopic, WindowsInv
<1>5. CASE EndReview
  BY <1>5, ExtendWindows DEF EndReview, ChunkInv
<1>6. CASE EndRawWindow
  BY <1>6, ExtendWindows DEF EndRawWindow, ChunkInv
<1>7. CASE Finish
  BY <1>7 DEF Finish, WindowsInv, Said
<1>8. CASE UNCHANGED vars
  BY <1>8 DEF vars, WindowsInv, Said
<1>9. QED
  BY <1>2, <1>3, <1>4, <1>5, <1>6, <1>7, <1>8 DEF Next

LEMMA ChunkStep == TypeOK /\ ChunkInv /\ [Next]_vars => ChunkInv'
<1> SUFFICES ASSUME TypeOK, ChunkInv, [Next]_vars PROVE ChunkInv'
  OBVIOUS
<1>1. lines \in Seq(Nat) /\ Len(lines) \in Nat /\ next \in Nat \ {0} /\ left \in Nat
  BY LenProperties, NotesAssumption DEF TypeOK
<1>2. ASSUME UNCHANGED <<lines, next, chunk>>, pc' = pc PROVE ChunkInv'
  BY <1>2 DEF ChunkInv
<1>3. ASSUME pc' \in {"clean", "raised", "done", "overview", "number"} PROVE ChunkInv'
  BY <1>3 DEF ChunkInv
<1>4. CASE CleanChunk
  <2>1. PICK hi \in next .. Len(lines) : \E answer \in Answers(next, hi) :
           chunk' = Chunk(next, hi, "cleaned", answer)
    BY <1>4 DEF CleanChunk
  <2>2. PICK answer \in Answers(next, hi) : chunk' = Chunk(next, hi, "cleaned", answer)
    BY <2>1
  <2>3. hi \in Nat /\ next <= hi /\ hi <= Len(lines)
    BY <1>1
  <2>4. /\ answer \in Seq(Blocks)
        /\ \A k \in DOMAIN answer : answer[k].src = <<next, hi, k>> /\ ~IsRaw(answer[k])
    BY <1>1, <2>3, AnswerType
  <2>5. /\ chunk'.lo = next /\ chunk'.hi = hi /\ chunk'.how = "cleaned" /\ chunk'.answer = answer
        /\ chunk' = Chunk(chunk'.lo, chunk'.hi, chunk'.how, chunk'.answer)
    BY <2>2 DEF Chunk
  <2>6. CleanedWindow(chunk')
    BY <1>1, <2>3, <2>4, <2>5 DEF CleanedWindow
  <2>7. pc' = "review" /\ UNCHANGED <<lines, next>>
    BY <1>4 DEF CleanChunk
  <2>8. QED
    BY <2>3, <2>5, <2>6, <2>7 DEF ChunkInv
<1>5. CASE CleanFails
  <2>1. PICK hi \in next .. Len(lines) : chunk' = Chunk(next, hi, "failed", <<>>)
    BY <1>5 DEF CleanFails
  <2>2. hi \in Nat /\ next <= hi /\ hi <= Len(lines)
    BY <1>1
  <2>3. chunk'.lo = next /\ chunk'.hi = hi /\ chunk'.how = "failed" /\ chunk'.answer = <<>>
    BY <2>1 DEF Chunk
  <2>4. QED
    BY <1>5, <2>2, <2>3 DEF CleanFails, ChunkInv
<1>6. CASE ReviewEquations
  <2>1. PICK reviews : chunk' = [chunk EXCEPT !.reviews = reviews]
    BY <1>6 DEF ReviewEquations
  <2>2. chunk = Chunk(chunk.lo, chunk.hi, chunk.how, chunk.answer) /\ CleanedWindow(chunk)
    BY <1>6 DEF ReviewEquations, ChunkInv
  <2>3. /\ chunk'.lo = chunk.lo /\ chunk'.hi = chunk.hi /\ chunk'.how = chunk.how
        /\ chunk'.answer = chunk.answer
    BY <2>1, <2>2 DEF Chunk
  <2>4. CleanedWindow(chunk')
    BY <2>2, <2>3 DEF CleanedWindow
  <2>5. pc = "review" /\ pc' = "apply" /\ UNCHANGED <<lines, next>>
    BY <1>6 DEF ReviewEquations
  <2>6. QED
    BY <2>3, <2>4, <2>5 DEF ChunkInv
<1>7. CASE FallbackContent
  <2>1. chunk'.lo = 1 /\ chunk'.hi = Len(lines)
    BY <1>7 DEF FallbackContent, Chunk
  <2>2. QED
    BY <1>7, <2>1 DEF FallbackContent, ChunkInv
<1>8. CASE ApplyReview \/ CloseParagraph \/ RenumberTopic
  BY <1>2, <1>8 DEF ApplyReview, CloseParagraph, RenumberTopic
<1>9. CASE EndReview \/ EndRawWindow
  BY <1>3, <1>9 DEF EndReview, EndRawWindow, Extend
<1>10. CASE CallRaises \/ EndTranscript \/ Cleaned \/ Overview \/ Finish
  BY <1>3, <1>10 DEF CallRaises, EndTranscript, Cleaned, Overview, Finish
<1>11. CASE UNCHANGED vars
  BY <1>2, <1>11 DEF vars
<1>12. QED
  BY <1>4, <1>5, <1>6, <1>7, <1>8, <1>9, <1>10, <1>11 DEF Next

-----------------------------------------------------------------------------
(* The loops. *)

LEMMA ApplyReviewStep ==
    TypeOK /\ ChunkInv /\ LoopInv /\ ApplyReview => LoopInv'
<1> SUFFICES ASSUME TypeOK, ChunkInv, LoopInv, ApplyReview PROVE LoopInv'
  OBVIOUS
<1> DEFINE a == chunk.answer
           b == a[position]
           verdict == chunk.reviews[equation_index]
           marker == Block("paragraph", "marker", 0, b.src)
           n == position - 1
<1>1. /\ pc = "apply" /\ pc' = "apply" /\ chunk' = chunk /\ position' = position + 1
      /\ position <= Len(a)
  BY DEF ApplyReview
<1>2. /\ CleanedWindow(chunk)
      /\ equation_index = EquationIndex(a, position)
      /\ Applied(chunk, n, result)
  BY <1>1 DEF ChunkInv, LoopInv
<1>3. /\ a \in Seq(Blocks) /\ Len(a) \in Nat /\ DOMAIN a = 1 .. Len(a)
      /\ position \in Nat \ {0} /\ n \in Nat /\ n + 1 = position
  BY <1>2, LenProperties DEF CleanedWindow, TypeOK
<1>4. position \in DOMAIN a
  BY <1>1, <1>3
<1>5. b \in Blocks /\ b.src = <<chunk.lo, chunk.hi, position>>
  BY <1>2, <1>3, <1>4, ElementOfSeq DEF CleanedWindow
<1>6. b.src[1] = chunk.lo /\ b.src[3] = position
  BY <1>5
<1>7. b.src \in Nat \X Nat \X Nat
  BY <1>5 DEF Blocks
<1>8. marker \in Blocks /\ marker.src = b.src /\ IsMarker(marker)
  BY <1>7 DEF Block, Blocks, IsMarker
<1>9. Reviewed(chunk, position) \in Blocks /\ Reviewed(chunk, position).src = b.src
  BY <1>5, <1>7 DEF Reviewed, Block, Blocks
<1> HIDE DEF a, b, verdict, marker, n
<1>10. EquationIndex(a, position + 1) = IF IsEquation(b) THEN equation_index + 1 ELSE equation_index
  BY <1>2, <1>3, CountedEquations DEF b
<1>11. CASE ~IsEquation(b) /\ result' = Append(result, b) /\ UNCHANGED equation_index
  <2>1. Kept(chunk, b) /\ ~Doubtful(chunk, position)
    BY <1>6, <1>11 DEF Kept, Doubtful, a, b
  <2>2. Applied(chunk, position, result')
    BY <1>2, <1>3, <1>5, <1>6, <1>11, <2>1, ApplyKept
  <2>3. equation_index' = EquationIndex(a, position + 1)
    BY <1>10, <1>11
  <2>4. QED
    BY <1>1, <1>3, <2>2, <2>3 DEF LoopInv, a
<1>12. CASE /\ IsEquation(b)
            /\ result' = IF verdict \in Doubts /\ ~Marked(a, position)
                         THEN Append(Append(result, b), marker)
                         ELSE Append(result, ReviewedBlock(b, verdict))
            /\ equation_index' = equation_index + 1
  <2>1. Reviewed(chunk, position) = ReviewedBlock(b, verdict)
    BY <1>2 DEF Reviewed, ReviewedBlock, a, b, verdict
  <2>2. Doubtful(chunk, position) <=> verdict \in Doubts /\ ~Marked(a, position)
    BY <1>2, <1>12 DEF Doubtful, a, b, verdict
  <2>3. Applied(chunk, position, result')
    <3>1. CASE Doubtful(chunk, position)
      <4>1. ReviewedBlock(b, verdict) = b
        BY <2>2, <3>1 DEF ReviewedBlock, Doubts
      <4>2. Kept(chunk, b)
        BY <1>6, <2>1, <4>1 DEF Kept, a, b
      <4>3. Added(chunk, marker) /\ marker.src[1] = chunk.lo /\ marker.src[3] = position
        BY <1>6, <1>8, <3>1 DEF Added
      <4>4. result' = Append(Append(result, b), marker)
        BY <1>12, <2>2, <3>1
      <4>5. QED
        BY <1>2, <1>3, <1>5, <1>6, <1>8, <4>2, <4>3, <4>4, ApplyAdded
    <3>2. CASE ~Doubtful(chunk, position)
      <4> DEFINE r == Reviewed(chunk, position)
      <4>1. r \in Blocks /\ r.src[1] = chunk.lo /\ r.src[3] = position
        BY <1>6, <1>9
      <4>2. Kept(chunk, r)
        BY <1>12, <4>1 DEF Kept, a, b
      <4>3. result' = Append(result, r)
        BY <1>12, <2>1, <2>2, <3>2
      <4> HIDE DEF r
      <4>4. QED
        BY <1>2, <1>3, <3>2, <4>1, <4>2, <4>3, ApplyKept
    <3>3. QED
      BY <3>1, <3>2
  <2>4. equation_index' = EquationIndex(a, position + 1)
    BY <1>10, <1>12
  <2>5. QED
    BY <1>1, <1>3, <2>3, <2>4 DEF LoopInv, a
<1>13. QED
  BY <1>11, <1>12 DEF ApplyReview, a, b, verdict, marker

LEMMA ReviewEquationsStep ==
    ChunkInv /\ ReviewEquations => LoopInv'
<1> SUFFICES ASSUME ChunkInv, ReviewEquations PROVE LoopInv'
  OBVIOUS
<1>1. PICK reviews : chunk' = [chunk EXCEPT !.reviews = reviews]
  BY DEF ReviewEquations
<1>2. chunk = Chunk(chunk.lo, chunk.hi, chunk.how, chunk.answer) /\ CleanedWindow(chunk)
  BY DEF ReviewEquations, ChunkInv
<1>3. chunk'.answer = chunk.answer
  BY <1>1, <1>2 DEF Chunk
<1>4. Len(chunk'.answer) \in Nat
  BY <1>2, <1>3, LenProperties DEF CleanedWindow
<1>5. EquationIndex(chunk'.answer, 1) = 0
  <2>1. {q \in 1 .. 1 - 1 : IsEquation(chunk'.answer[q])} = {}
    OBVIOUS
  <2>2. QED
    BY <2>1, FS_EmptySet DEF EquationIndex
<1>6. Applied(chunk', 1 - 1, <<>>)
  BY NothingApplied
<1>7. pc' = "apply" /\ position' = 1 /\ equation_index' = 0 /\ result' = <<>>
  BY DEF ReviewEquations, BeginLoop
<1>8. QED
  BY <1>4, <1>5, <1>6, <1>7 DEF LoopInv

LEMMA CloseParagraphStep ==
    TypeOK /\ LoopInv /\ CloseParagraph => LoopInv'
<1> SUFFICES ASSUME TypeOK, LoopInv, CloseParagraph PROVE LoopInv'
  OBVIOUS
<1>1. pc \in {"window", "transcript"} /\ UNCHANGED <<pc, chunk>>
  BY DEF CloseParagraph
<1>2. PICK last \in position .. chunk.hi :
         /\ result' = Append(result, Block("paragraph", "raw", 0, <<position, last, 0>>))
         /\ position' = last + 1
  BY DEF CloseParagraph
<1>3. chunk.lo \in Nat /\ chunk.hi \in Nat /\ position \in Nat
  BY DEF TypeOK, ChunkType
<1>4. last \in Nat /\ position <= last /\ last <= chunk.hi
  BY <1>2, <1>3
<1>5. chunk.lo <= position /\ RawNotes(result, chunk.lo, position - 1)
  BY <1>1, <1>3 DEF LoopInv
<1>6. RawNotes(result', chunk.lo, last)
  BY <1>2, <1>3, <1>4, <1>5, Paragraph
<1>7. position' \in chunk.lo .. chunk.hi + 1 /\ position' - 1 = last
  BY <1>2, <1>3, <1>4, <1>5
<1>8. QED
  BY <1>1, <1>6, <1>7 DEF LoopInv

LEMMA RenumberLoop ==
    TypeOK /\ NotesOf(blocks, Said) /\ LoopInv /\ RenumberTopic => LoopInv'
<1> SUFFICES ASSUME TypeOK, NotesOf(blocks, Said), LoopInv, RenumberTopic PROVE LoopInv'
  OBVIOUS
<1> DEFINE b == blocks[position]
           n == position - 1
<1>1. /\ pc = "number" /\ UNCHANGED <<pc, blocks>>
      /\ position <= Len(blocks) /\ position' = position + 1
  BY DEF RenumberTopic
<1>2. /\ blocks \in Seq(Blocks) /\ Len(blocks) \in Nat /\ DOMAIN blocks = 1 .. Len(blocks)
      /\ position \in Nat \ {0} /\ n \in Nat /\ n + 1 = position /\ n < Len(blocks)
      /\ number \in Nat
  BY <1>1, LenProperties DEF TypeOK
<1>3. Numbered(blocks, n, doc) /\ Ordered(blocks)
  BY <1>1 DEF LoopInv, NotesOf
<1>4. b \in Blocks
  BY <1>1, <1>2, ElementOfSeq
<1> HIDE DEF n
<1>5. Numbered(blocks, position, doc')
  <2>1. CASE doc' = Append(doc, b)
    BY <1>2, <1>3, <1>4, <2>1, NumberOne
  <2>2. CASE IsTopic(b) /\ doc' = doc
    BY <1>2, <1>3, <2>2, NumberDropped DEF IsTopic
  <2>3. CASE IsTopic(b) /\ doc' = Append(doc, Block("heading", b.text, number + 1, b.src))
    <3> DEFINE x == Block("heading", b.text, number + 1, b.src)
    <3>1. /\ x.src = b.src /\ x.kind = "heading" /\ b.kind = "heading"
          /\ x \in Blocks
      BY <1>2, <1>4, <2>3 DEF IsTopic, Block, Blocks
    <3> HIDE DEF x
    <3>2. doc' = Append(doc, x)
      BY <2>3 DEF x
    <3>3. QED
      BY <1>2, <1>3, <3>1, <3>2, NumberOne
  <2>4. QED
    BY <2>1, <2>2, <2>3 DEF RenumberTopic
<1>6. position' \in 1 .. Len(blocks) + 1 /\ position' - 1 = position
  BY <1>1, <1>2
<1>7. QED
  BY <1>1, <1>5, <1>6 DEF LoopInv

LEMMA LoopStep ==
    /\ TypeOK /\ ChunkInv /\ NumberingInv /\ LoopInv /\ NotesOf(blocks, Said)
    /\ [Next]_vars
    => LoopInv'
<1> SUFFICES ASSUME TypeOK, ChunkInv, NumberingInv, LoopInv, NotesOf(blocks, Said), [Next]_vars
             PROVE  LoopInv'
  OBVIOUS
<1>1. lines \in Seq(Nat) /\ Len(lines) \in Nat /\ next \in Nat /\ next - 1 < next
  BY LenProperties DEF TypeOK
<1>2. ASSUME pc' \in {"clean", "review", "overview", "raised", "done"} PROVE LoopInv'
  BY <1>2 DEF LoopInv
<1>3. CASE CleanFails
  <2>1. PICK hi \in next .. Len(lines) : chunk' = Chunk(next, hi, "failed", <<>>)
    BY <1>3 DEF CleanFails
  <2>2. chunk'.lo = next /\ chunk'.hi = hi /\ hi \in Nat /\ next \in next .. hi + 1
    BY <1>1, <2>1 DEF Chunk
  <2>3. RawNotes(<<>>, next, next - 1)
    BY <1>1, NoRawNotes
  <2>4. pc' = "window" /\ position' = next /\ result' = <<>>
    BY <1>3 DEF CleanFails, BeginLoop
  <2>5. QED
    BY <2>2, <2>3, <2>4 DEF LoopInv
<1>4. CASE FallbackContent
  <2>1. chunk'.lo = 1 /\ chunk'.hi = Len(lines) /\ 1 \in 1 .. Len(lines) + 1
    BY <1>1, <1>4 DEF FallbackContent, Chunk
  <2>2. RawNotes(<<>>, 1, 1 - 1)
    BY NoRawNotes
  <2>3. pc' = "transcript" /\ position' = 1 /\ result' = <<>>
    BY <1>4 DEF FallbackContent, BeginLoop
  <2>4. QED
    BY <2>1, <2>2, <2>3 DEF LoopInv
<1>5. CASE Overview
  <2>1. doc' = <<>> /\ pc' = "number" /\ position' = 1
    BY <1>5 DEF Overview, BeginLoop, NumberingInv
  <2>2. Numbered(blocks', 1 - 1, <<>>)
    BY NothingNumbered
  <2>3. Len(blocks') \in Nat
    <3>1. blocks \in Seq(Blocks) /\ NotesOf(WithoutModelTitle(blocks), Said)
      BY Untitled DEF TypeOK
    <3>2. QED
      BY <1>5, <3>1, LenProperties DEF Overview, NotesOf
  <2>4. QED
    BY <2>1, <2>2, <2>3 DEF LoopInv
<1>6. CASE CleanChunk \/ EndReview \/ EndRawWindow \/ CallRaises \/ EndTranscript \/ Cleaned
           \/ Finish
  BY <1>2, <1>6 DEF CleanChunk, EndReview, EndRawWindow, CallRaises, EndTranscript, Cleaned, Finish,
     Extend
<1>7. CASE UNCHANGED vars
  BY <1>7 DEF vars, turn, LoopInv
<1>8. QED
  BY <1>3, <1>4, <1>5, <1>6, <1>7, ReviewEquationsStep, ApplyReviewStep, CloseParagraphStep,
     RenumberLoop DEF Next

-----------------------------------------------------------------------------
(* The blocks, and the document. *)

LEMMA NotesStep ==
    /\ TypeOK /\ WindowsInv /\ ChunkInv /\ LoopInv /\ NotesOf(blocks, Said)
    /\ [Next]_vars
    => NotesOf(blocks, Said)'
<1> SUFFICES ASSUME TypeOK, WindowsInv, ChunkInv, LoopInv, NotesOf(blocks, Said), [Next]_vars
             PROVE  NotesOf(blocks, Said)'
  OBVIOUS
<1>1. ASSUME pc \in {"apply", "window"}, NEW s, NotesOf(s, {chunk}), Extend(s),
             UNCHANGED <<lines, extracted>>
      PROVE  NotesOf(blocks, Said)'
  <2>1. chunk.lo = next /\ next <= chunk.hi /\ pc # "done"
    BY <1>1 DEF ChunkInv
  <2>2. Said' = Said \cup {chunk}
    BY <1>1, <2>1, ExtendWindows
  <2>3. /\ next \in Nat /\ chunk.lo \in Nat /\ chunk.hi \in Nat
        /\ \A c \in Said : c.lo \in Nat /\ c.hi \in Nat /\ c.lo <= c.hi /\ c.hi < next
    <3>1. next \in Nat /\ ChunkType(chunk)
      BY LenProperties DEF TypeOK
    <3>2. \A i \in DOMAIN said : /\ ChunkType(said[i])
                                 /\ said[i].lo <= said[i].hi /\ said[i].hi < next
      BY DEF TypeOK, WindowsInv
    <3>3. QED
      BY <3>1, <3>2 DEF ChunkType, Said
  <2>4. NotesOf(blocks \o DedupeHeadings(blocks, s), Said \cup {chunk})
    BY <1>1, <2>1, <2>3, Extended
  <2>5. QED
    BY <1>1, <2>2, <2>4 DEF Extend
<1>2. ASSUME UNCHANGED <<blocks, said>> PROVE NotesOf(blocks, Said)'
  BY <1>2 DEF Said
<1>3. CASE EndReview
  <2>1. /\ position \in 1 .. Len(chunk.answer) + 1 /\ position > Len(chunk.answer)
        /\ Applied(chunk, position - 1, result) /\ CleanedWindow(chunk) /\ pc = "apply"
    BY <1>3 DEF EndReview, LoopInv, ChunkInv
  <2>2. Len(chunk.answer) \in Nat
    BY <2>1, LenProperties DEF CleanedWindow
  <2>3. position - 1 = Len(chunk.answer)
    BY <2>1, <2>2
  <2>4. NotesOf(result, {chunk})
    BY <2>1, <2>3, ReviewNotes
  <2>5. QED
    BY <1>1, <1>3, <2>1, <2>4 DEF EndReview
<1>4. CASE EndRawWindow
  <2>1. /\ position \in chunk.lo .. chunk.hi + 1 /\ position > chunk.hi
        /\ RawNotes(result, chunk.lo, position - 1) /\ pc = "window"
        /\ chunk.how = "failed" /\ chunk.answer = <<>> /\ chunk.lo <= chunk.hi
    BY <1>4 DEF EndRawWindow, LoopInv, ChunkInv
  <2>2. chunk.lo \in Nat /\ chunk.hi \in Nat
    BY DEF TypeOK, ChunkType
  <2>3. position - 1 = chunk.hi
    BY <2>1, <2>2
  <2>4. RawNotes(result, chunk.lo, chunk.hi)
    BY <2>1, <2>3
  <2>5. NotesOf(result, {chunk})
    BY <2>1, <2>2, <2>4, RawWindow
  <2>6. result # <<>>
    <3>1. chunk.lo \in chunk.lo .. chunk.hi
      BY <2>1, <2>2
    <3>2. DOMAIN <<>> = {}
      OBVIOUS
    <3>3. QED
      BY <2>4, <3>1, <3>2 DEF RawNotes, RawCovers
  <2>7. FallbackBlocks = result
    BY <2>6 DEF FallbackBlocks
  <2>8. QED
    BY <1>1, <1>4, <2>1, <2>5, <2>7 DEF EndRawWindow
<1>5. CASE Overview
  <2>1. blocks' = WithoutModelTitle(blocks) /\ said' = said
    BY <1>5 DEF Overview
  <2>2. QED
    BY <2>1, Untitled DEF Said
<1>6. CASE CleanChunk \/ CleanFails \/ CallRaises \/ ReviewEquations \/ ApplyReview
           \/ FallbackContent \/ CloseParagraph
  BY <1>2, <1>6 DEF CleanChunk, CleanFails, CallRaises, ReviewEquations, ApplyReview,
     FallbackContent, CloseParagraph
<1>7. CASE EndTranscript \/ Cleaned \/ RenumberTopic \/ Finish
  BY <1>2, <1>7 DEF EndTranscript, Cleaned, RenumberTopic, Finish
<1>8. CASE UNCHANGED vars
  BY <1>2, <1>8 DEF vars
<1>9. QED
  BY <1>3, <1>4, <1>5, <1>6, <1>7, <1>8 DEF Next

LEMMA EquationsFinish ==
    TypeOK /\ LoopInv /\ NotesOf(blocks, Said) /\ Finish => EquationsKept'
<1> SUFFICES ASSUME TypeOK, LoopInv, NotesOf(blocks, Said), Finish PROVE EquationsKept'
  OBVIOUS
<1> DEFINE given(i) == {k \in DOMAIN said[i].answer : IsEquation(said[i].answer[k])}
           kept == {p \in DOMAIN doc : IsEquation(doc[p])}
           written == UNION {{Reviewed(said[i], k) : k \in given(i)} : i \in DOMAIN said}
<1>1. /\ Len(blocks) \in Nat /\ DOMAIN blocks = 1 .. Len(blocks)
      /\ position \in 1 .. Len(blocks) + 1 /\ position > Len(blocks)
      /\ Numbered(blocks, position - 1, doc)
  BY LenProperties DEF TypeOK, Finish, LoopInv
<1>2. position - 1 = Len(blocks)
  BY <1>1
<1>3. /\ Ordered(doc)
      /\ \A p \in DOMAIN doc : doc[p].kind # "heading" =>
            \E q \in DOMAIN blocks : doc[p] = blocks[q]
      /\ \A q \in DOMAIN blocks : blocks[q].kind # "heading" =>
            \E p \in DOMAIN doc : doc[p] = blocks[q]
  BY <1>1, <1>2 DEF Numbered
<1>4. ASSUME NEW p \in kept PROVE doc[p] \in written
  <2>1. PICK q \in DOMAIN blocks : doc[p] = blocks[q]
    BY <1>3 DEF IsEquation
  <2>2. PICK c \in Said : \E k \in DOMAIN c.answer :
           IsEquation(c.answer[k]) /\ blocks[q] = Reviewed(c, k)
    BY <2>1 DEF NotesOf
  <2>3. PICK i \in DOMAIN said : c = said[i]
    BY DEF Said
  <2>4. QED
    BY <2>1, <2>2, <2>3
<1>5. ASSUME NEW i \in DOMAIN said, NEW k \in given(i)
      PROVE  \E p \in kept : doc[p] = Reviewed(said[i], k)
  <2>1. PICK q \in DOMAIN blocks : blocks[q] = Reviewed(said[i], k)
    BY DEF NotesOf, Said
  <2>2. IsEquation(blocks[q])
    BY <2>1 DEF Reviewed, IsEquation, Block
  <2>3. PICK p \in DOMAIN doc : doc[p] = blocks[q]
    BY <1>3, <2>2 DEF IsEquation
  <2>4. QED
    BY <2>1, <2>2, <2>3
<1>6. {doc[p] : p \in kept} = written
  BY <1>4, <1>5
<1>7. \A p, q \in kept : p < q => Precedes(doc[p], doc[q])
  BY <1>3 DEF Ordered, Follows
<1>8. UNCHANGED <<doc, said>>
  BY DEF Finish
<1>9. QED
  BY <1>6, <1>7, <1>8 DEF EquationsKept

LEMMA TranscriptFinish ==
    TypeOK /\ WindowsInv /\ LoopInv /\ NotesOf(blocks, Said) /\ Finish => TranscriptKept'
<1> SUFFICES ASSUME TypeOK, WindowsInv, LoopInv, NotesOf(blocks, Said), Finish
             PROVE  TranscriptKept'
  OBVIOUS
<1> DEFINE raw(l) == {p \in DOMAIN doc : IsRaw(doc[p]) /\ l \in doc[p].src[1] .. doc[p].src[2]}
           windows(l) == {i \in DOMAIN said : l \in said[i].lo .. said[i].hi}
<1>1. /\ Len(blocks) \in Nat /\ DOMAIN blocks = 1 .. Len(blocks)
      /\ position \in 1 .. Len(blocks) + 1 /\ position > Len(blocks)
      /\ Numbered(blocks, position - 1, doc)
  BY LenProperties DEF TypeOK, Finish, LoopInv
<1>2. position - 1 = Len(blocks)
  BY <1>1
<1>3. /\ doc \in Seq(Blocks) /\ Ordered(doc)
      /\ \A p \in DOMAIN doc : doc[p].kind # "heading" =>
            \E q \in DOMAIN blocks : doc[p] = blocks[q]
      /\ \A q \in DOMAIN blocks : blocks[q].kind # "heading" =>
            \E p \in DOMAIN doc : doc[p] = blocks[q]
  BY <1>1, <1>2 DEF Numbered
<1>4. /\ DOMAIN lines = 1 .. Len(lines) /\ Len(lines) \in Nat /\ next = Len(lines) + 1
      /\ Len(said) \in Nat /\ DOMAIN said = 1 .. Len(said)
  BY LenProperties DEF TypeOK, WindowsInv, Finish
<1>5. ASSUME NEW l \in DOMAIN lines
      PROVE  Cardinality(windows(l)) = 1
  <2>1. l \in 1 .. next - 1 /\ l \in Nat
    BY <1>4
  <2>2. PICK i \in DOMAIN said : l \in said[i].lo .. said[i].hi
    BY <2>1 DEF WindowsInv
  <2>3. ASSUME NEW j \in DOMAIN said, NEW k \in DOMAIN said, j < k,
               l \in said[j].lo .. said[j].hi, l \in said[k].lo .. said[k].hi
        PROVE  FALSE
    <3>1. said[j].hi < said[k].lo /\ said[j].hi \in Nat /\ said[k].lo \in Nat
      BY <2>3 DEF WindowsInv, TypeOK, ChunkType
    <3>2. QED
      BY <2>1, <2>3, <3>1
  <2>4. \A j \in windows(l) : j = i
    <3>1. \A j \in DOMAIN said : j < i \/ i < j \/ j = i
      BY <1>4
    <3>2. QED
      BY <2>2, <2>3, <3>1
  <2>5. windows(l) = {i}
    BY <2>2, <2>4
  <2>6. QED
    BY <2>5, FS_Singleton
<1>6. ASSUME NEW l \in DOMAIN lines
      PROVE  raw(l) # {} <=> \E i \in windows(l) : said[i].how = "failed"
  <2>1. ASSUME NEW p \in raw(l) PROVE \E i \in windows(l) : said[i].how = "failed"
    <3>1. PICK q \in DOMAIN blocks : doc[p] = blocks[q]
      BY <1>3 DEF IsRaw
    <3>2. PICK c \in Said : c.how = "failed" /\ RawWithin(doc[p], c.lo, c.hi)
      BY <3>1 DEF NotesOf
    <3>3. PICK i \in DOMAIN said : c = said[i]
      BY DEF Said
    <3>4. /\ said[i].lo \in Nat /\ said[i].hi \in Nat /\ l \in Nat
          /\ doc[p].src[1] \in Nat /\ doc[p].src[2] \in Nat
      <4>1. doc[p] \in Blocks
        BY <1>3, ElementOfSeq
      <4>2. said[i].lo \in Nat /\ said[i].hi \in Nat
        BY DEF TypeOK, ChunkType
      <4>3. QED
        BY <1>4, <4>1, <4>2, BlockSource
    <3>5. l \in said[i].lo .. said[i].hi
      BY <3>2, <3>3, <3>4 DEF RawWithin
    <3>6. QED
      BY <3>2, <3>3, <3>5
  <2>2. ASSUME NEW i \in windows(l), said[i].how = "failed" PROVE raw(l) # {}
    <3>1. RawCovers(blocks, said[i].lo, said[i].hi)
      BY <2>2 DEF NotesOf, Said
    <3>2. PICK q \in DOMAIN blocks : IsRaw(blocks[q]) /\ l \in blocks[q].src[1] .. blocks[q].src[2]
      BY <3>1 DEF RawCovers
    <3>3. PICK p \in DOMAIN doc : doc[p] = blocks[q]
      BY <1>3, <3>2 DEF IsRaw
    <3>4. p \in raw(l)
      BY <3>2, <3>3
    <3>5. QED
      BY <3>4
  <2>3. QED
    BY <2>1, <2>2
<1>7. ASSUME NEW l \in DOMAIN lines
      PROVE  Cardinality(raw(l)) = IF raw(l) = {} THEN 0 ELSE 1
  <2>1. l \in Nat
    BY <1>4
  <2>2. QED
    BY <1>3, <2>1, RawOnce
<1>8. \A p, q \in DOMAIN doc : p < q => ~Precedes(doc[q], doc[p])
  BY <1>3 DEF Ordered, Follows
<1>9. UNCHANGED <<lines, doc, said>> /\ extracted' = TRUE
  BY DEF Finish
<1>10. \A l \in DOMAIN lines : Cardinality(raw(l)) =
          IF \E i \in windows(l) : said[i].how = "failed" THEN 1 ELSE 0
  BY <1>6, <1>7
<1>11. QED
  BY <1>5, <1>8, <1>9, <1>10 DEF TranscriptKept

LEMMA TranscriptEnd ==
    TypeOK /\ WindowsInv /\ ChunkInv /\ LoopInv /\ EndTranscript => TranscriptKept'
<1> SUFFICES ASSUME TypeOK, WindowsInv, ChunkInv, LoopInv, EndTranscript PROVE TranscriptKept'
  OBVIOUS
<1> DEFINE absent == Block("paragraph", "absent", 0, <<0, 0, 0>>)
<1>1. /\ pc = "transcript" /\ position > chunk.hi /\ doc' = FallbackBlocks
      /\ UNCHANGED <<lines, said>> /\ extracted' = extracted /\ ~extracted
  BY DEF EndTranscript, WindowsInv
<1>2. /\ chunk.lo = 1 /\ chunk.hi = Len(lines)
      /\ position \in 1 .. Len(lines) + 1 /\ RawNotes(result, 1, position - 1)
  BY <1>1 DEF ChunkInv, LoopInv
<1>3. Len(lines) \in Nat /\ DOMAIN lines = 1 .. Len(lines)
  BY LenProperties DEF TypeOK
<1>4. position - 1 = Len(lines)
  BY <1>1, <1>2, <1>3
<1>5. RawNotes(result, 1, Len(lines))
  BY <1>2, <1>4
<1>6. CASE result = <<>>
  <2>1. DOMAIN lines = {}
    <3>1. DOMAIN <<>> = {}
      OBVIOUS
    <3>2. QED
      BY <1>3, <1>5, <1>6, <3>1 DEF RawNotes, RawCovers
  <2>2. doc' = <<absent>>
    BY <1>1, <1>6 DEF FallbackBlocks
  <2> HIDE DEF absent
  <2>3. DOMAIN doc' = {1}
    BY <2>2
  <2>4. \A p, q \in DOMAIN doc' : ~(p < q)
    BY <2>3
  <2>5. QED
    BY <1>1, <2>1, <2>4 DEF TranscriptKept
<1>7. CASE result # <<>>
  <2> DEFINE raw(l) == {p \in DOMAIN result :
                           IsRaw(result[p]) /\ l \in result[p].src[1] .. result[p].src[2]}
  <2>1. doc' = result
    BY <1>1, <1>7 DEF FallbackBlocks
  <2>2. result \in Seq(Blocks) /\ Ordered(result)
    BY <1>5 DEF RawNotes
  <2>3. ASSUME NEW l \in DOMAIN lines PROVE Cardinality(raw(l)) = 1
    <3>1. l \in 1 .. Len(lines) /\ l \in Nat
      BY <1>3
    <3>2. raw(l) # {}
      BY <1>5, <3>1 DEF RawNotes, RawCovers
    <3>3. Cardinality(raw(l)) = IF raw(l) = {} THEN 0 ELSE 1
      BY <2>2, <3>1, RawOnce
    <3>4. QED
      BY <3>2, <3>3
  <2>4. \A p, q \in DOMAIN result : p < q => ~Precedes(result[q], result[p])
    BY <2>2 DEF Ordered, Follows
  <2>5. QED
    BY <1>1, <2>1, <2>3, <2>4 DEF TranscriptKept
<1>8. QED
  BY <1>6, <1>7

LEMMA FinalStep ==
    NotesInv /\ [Next]_vars => EquationsKept' /\ TranscriptKept'
<1> SUFFICES ASSUME NotesInv, [Next]_vars PROVE EquationsKept' /\ TranscriptKept'
  OBVIOUS
<1> USE DEF NotesInv
<1>1. ASSUME pc' # "done" PROVE EquationsKept' /\ TranscriptKept'
  BY <1>1 DEF EquationsKept, TranscriptKept
<1>2. CASE Finish
  BY <1>2, EquationsFinish, TranscriptFinish
<1>3. CASE EndTranscript
  <2>1. ~extracted'
    BY <1>3 DEF EndTranscript, WindowsInv
  <2>2. QED
    BY <1>3, <2>1, TranscriptEnd DEF EquationsKept
<1>4. CASE CleanChunk \/ EndReview \/ CleanFails \/ EndRawWindow \/ CallRaises \/ ReviewEquations
           \/ FallbackContent \/ Cleaned \/ Overview
  BY <1>1, <1>4 DEF CleanChunk, EndReview, CleanFails, EndRawWindow, CallRaises, ReviewEquations,
     FallbackContent, Cleaned, Overview, Extend
<1>5. CASE ApplyReview \/ CloseParagraph \/ RenumberTopic
  BY <1>1, <1>5 DEF ApplyReview, CloseParagraph, RenumberTopic
<1>6. CASE UNCHANGED vars
  <2>1. UNCHANGED <<pc, lines, doc, extracted, said>>
    BY <1>6 DEF vars
  <2>2. EquationsKept' <=> EquationsKept
    BY <2>1 DEF EquationsKept
  <2>3. TranscriptKept' <=> TranscriptKept
    BY <2>1 DEF TranscriptKept
  <2>4. QED
    BY <2>2, <2>3
<1>7. QED
  BY <1>2, <1>3, <1>4, <1>5, <1>6 DEF Next

LEMMA NotesInit == Init => NotesInv
<1> SUFFICES ASSUME Init PROVE NotesInv
  OBVIOUS
<1>1. DOMAIN said = {} /\ Said = {} /\ said \in Seq({})
  BY EmptySeq DEF Init, Said
<1>2. next = 1 /\ 1 .. 1 - 1 = {} /\ ~extracted
  BY DEF Init
<1>3. pc \in {"clean", "unconfigured"} /\ blocks = <<>>
  BY DEF Init
<1>4. WindowsInv
  BY <1>1, <1>2, <1>3 DEF WindowsInv
<1>5. ChunkInv /\ LoopInv /\ EquationsKept /\ TranscriptKept
  BY <1>3 DEF ChunkInv, LoopInv, EquationsKept, TranscriptKept
<1>6. NotesOf(blocks, Said)
  BY <1>1, <1>3, NoNotes
<1>7. QED
  BY <1>4, <1>5, <1>6, TypeInit, NumberingInit DEF NotesInv

LEMMA NotesInductive == NotesInv /\ [Next]_vars => NotesInv'
<1> SUFFICES ASSUME NotesInv, [Next]_vars PROVE NotesInv'
  OBVIOUS
<1>1. /\ TypeOK /\ WindowsInv /\ ChunkInv /\ NumberingInv /\ LoopInv /\ NotesOf(blocks, Said)
  BY DEF NotesInv
<1>2. TypeOK' /\ WindowsInv' /\ ChunkInv'
  BY <1>1, TypeStep, WindowsStep, ChunkStep
<1>3. NumberingInv' /\ LoopInv' /\ NotesOf(blocks, Said)'
  BY <1>1, NumberingStep, LoopStep, NotesStep
<1>4. QED
  BY <1>2, <1>3, FinalStep DEF NotesInv

LEMMA NotesInvariant == Spec => []NotesInv
BY NotesInit, NotesInductive, PTL DEF Spec

-----------------------------------------------------------------------------
(* What holds of every lecture. *)

\* The variables have their types, the blocks of the AI and those of the
\* code among them.
THEOREM TypeCorrect == Spec => []TypeOK
BY NotesInvariant, PTL DEF NotesInv

\* "Number topic headings sequentially and drop repeated chunk headings":
\* however the AI cut and repeated its headings, the topics of the document
\* are numbered from one on without a gap, and no topic follows itself.
THEOREM TopicsAreNumbered == Spec => []TopicsNumbered
<1>1. NotesInv => TopicsNumbered
  BY DEF NotesInv, NumberingInv
<1>2. QED
  BY <1>1, NotesInvariant, PTL

\* "Review never removes an equation; it only applies corrections": whatever
\* the windows, the reviews and their failures, and whatever headings are
\* dropped and renumbered on the way, the finished notes have every equation
\* of the AI once, in its order, and as its review left it.
THEOREM EquationsAreKept == Spec => []EquationsKept
BY NotesInvariant, PTL DEF NotesInv

\* "Mark a reconstructed equation without duplicating an existing marker":
\* in every window, whatever else joined the blocks since, a doubtful
\* equation stands next to a marker and an added marker next to no other.
THEOREM MarkersArePlaced == Spec => []MarkersPlaced
<1>1. NotesInv => MarkersPlaced
  BY DEF NotesInv, NotesOf, MarkersPlaced, Said
<1>2. QED
  BY <1>1, NotesInvariant, PTL

\* Nothing of a lecture is lost to a failing AI: each line is in one window,
\* the lines of a window it failed on are in one paragraph each, the others
\* in none, and the document follows the lecture.
THEOREM TranscriptIsKept == Spec => []TranscriptKept
BY NotesInvariant, PTL DEF NotesInv

=============================================================================
