--------------------------- MODULE NotesDocument ---------------------------
(***************************************************************************)
(* How lecture notes are put together from a transcript (services/notes.py *)
(* and integrations/equation_review.py): the lines are cut into windows,   *)
(* the AI writes blocks for each one and reviews their equations, a window *)
(* it fails on contributes its own lines, and the topics are numbered      *)
(* through the whole document.                                             *)
(*                                                                         *)
(* A call to the AI has the outcome its client reports after its tries:    *)
(* an answer, an error the notes survive, or one that ends the task.  The  *)
(* text of a block is abstracted to what the code compares: the topic of a *)
(* heading and its number, and whether a paragraph is the marker of a      *)
(* doubtful equation.  Lines are of any length.                            *)
(***************************************************************************)
EXTENDS Naturals, Sequences, FiniteSets, SequencesExt

CONSTANTS
    Transcripts,    \* sequences of the seconds the lines start at
    ChunkSeconds,   \* length of a window
    Topic,          \* texts of headings
    TitleTopic,     \* those that begin like a document's title
    OptionTopic,    \* those that begin with an option's letter
    MaxBlocks       \* bound: blocks the AI writes for one document

\* The topic before the first; every heading has a text beside its number.
NoTopic == "none"

ASSUME NotesAssumption ==
    /\ Transcripts \subseteq Seq(Nat)
    /\ ChunkSeconds \in Nat \ {0}
    /\ TitleTopic \subseteq Topic
    /\ OptionTopic \subseteq Topic
    /\ TitleTopic \cap OptionTopic = {}
    /\ NoTopic \notin Topic
    /\ MaxBlocks \in Nat

VARIABLES
    lines,      \* the transcript
    pc,         \* where the task is; "unconfigured" without a key
    next,       \* the first line of the next window
    chunk,      \* the window being written, its answer and their reviews
    position,   \* where the loop over it, or over the document, stands
    equation_index, \* the equations it has passed
    result,     \* the blocks it has written
    blocks,     \* the blocks of the windows so far
    succeeded,  \* whether a window was cleaned
    topic,      \* the last numbered topic
    number,     \* its number
    doc,        \* the document's blocks
    extracted,  \* whether it is the AI's
    left,       \* bound: blocks the AI may still write
    said        \* observed: the windows that were written

turn == <<position, equation_index, result>>
numbering == <<topic, number>>
vars == <<lines, pc, next, chunk, turn, blocks, succeeded, numbering, doc, extracted, left, said>>

Verdict == {"supported", "corrected", "unsupported", "uncertain"}
Doubts == {"unsupported", "uncertain"}

\* The number a heading may bring along from the AI.
ModelNumber == 9

\* A block; src is observed: the lines it comes from and its place in the
\* answer for them, 0 for a paragraph of raw transcript.
Block(kind, text, num, src) == [kind |-> kind, text |-> text, num |-> num, src |-> src]

IsMarker(b) == b.kind = "paragraph" /\ b.text = "marker"
IsRaw(b) == b.kind = "paragraph" /\ b.text = "raw"
IsEquation(b) == b.kind = "equation"
IsOption(b) == b.num = 0 /\ b.text \in OptionTopic
IsTopic(b) == b.kind = "heading" /\ ~IsOption(b)

\* The lines from lo to hi, with what the AI made of them.
Chunk(lo, hi, how, answer) ==
    [lo |-> lo, hi |-> hi, how |-> how, answer |-> answer, reviews |-> <<>>]
NoChunk == Chunk(0, 0, "failed", <<>>)

Init ==
    /\ lines \in Transcripts
    /\ pc \in {"clean", "unconfigured"}
    /\ next = 1
    /\ chunk = NoChunk
    /\ position = 1
    /\ equation_index = 0
    /\ result = <<>>
    /\ blocks = <<>>
    /\ succeeded = FALSE
    /\ topic = NoTopic
    /\ number = 0
    /\ doc = <<>>
    /\ extracted = FALSE
    /\ left = MaxBlocks
    /\ said = <<>>

\* A loop begins: a list of its own, and the position it starts at.
BeginLoop(start) ==
    /\ position' = start
    /\ equation_index' = 0
    /\ result' = <<>>

-----------------------------------------------------------------------------
(* Windows, paragraphs and answers. *)

Bucket(i) == lines[i] \div ChunkSeconds

\* A window: the longest run of lines with one bucket, from lo.
Window(lo, hi) ==
    /\ lo <= hi
    /\ hi <= Len(lines)
    /\ \A i \in lo .. hi : Bucket(i) = Bucket(lo)
    /\ hi < Len(lines) => Bucket(hi + 1) # Bucket(lo)

\* Raw transcript: _fallback_blocks closes a paragraph when it is full, which
\* it may be after any of its lines, or at the last line.
CloseParagraph ==
    /\ pc \in {"window", "transcript"}
    /\ \E last \in position .. chunk.hi :
          /\ result' = Append(result, Block("paragraph", "raw", 0, <<position, last, 0>>))
          /\ position' = last + 1
    /\ UNCHANGED <<lines, pc, next, chunk, equation_index, blocks, succeeded, numbering, doc,
                   extracted, left, said>>

FallbackBlocks ==
    IF result = <<>>
    THEN << Block("paragraph", "absent", 0, <<0, 0, 0>>) >>
    ELSE result

\* What blocks_from_payload lets through; a bullet is a paragraph here.
Piece ==
    [kind : {"heading"}, text : Topic, num : {0, ModelNumber}]
    \cup {[kind |-> "paragraph", text |-> "marker", num |-> 0],
          [kind |-> "equation", text |-> "formula", num |-> 0]}

Answers(lo, hi) ==
    { [i \in DOMAIN a |-> Block(a[i].kind, a[i].text, a[i].num, <<lo, hi, i>>)] :
        a \in UNION {[1 .. n -> Piece] : n \in 0 .. left} }

-----------------------------------------------------------------------------
(* The review of equations. *)

\* The index of the equation at p in the listing the reviewer was given.
EquationIndex(s, p) == Cardinality({q \in 1 .. p - 1 : IsEquation(s[q])})

EquationCount(s) == EquationIndex(s, Len(s) + 1)

\* Partial verdicts: "none" for an index without a valid review.
Reviews(s) == [0 .. EquationCount(s) - 1 -> Verdict \cup {"none"}]

\* Faulty variant: a correction is applied though it is empty.
ReviewedBlockBlank(b, verdict) ==
    IF verdict = "corrected" THEN Block("equation", "blank", 0, b.src) ELSE b

\* "corrected" stands for a verdict that comes with a correction.
ReviewedBlock(b, verdict) ==
    IF verdict = "corrected" THEN Block("equation", "corrected", 0, b.src) ELSE b

\* Faulty variant: only a marker after the equation counts.
MarkedAfter(s, p) == p < Len(s) /\ IsMarker(s[p + 1])

\* A doubtful equation is marked, unless a marker stands next to it.
Marked(s, p) ==
    \/ p < Len(s) /\ IsMarker(s[p + 1])
    \/ p > 1 /\ IsMarker(s[p - 1])

\* One turn of apply_reviews: every equation is kept, with its correction if
\* there is one, and marked if it is doubtful.
ApplyReview ==
    /\ pc = "apply"
    /\ position <= Len(chunk.answer)
    /\ LET b == chunk.answer[position]
           verdict == chunk.reviews[equation_index]
           marker == Block("paragraph", "marker", 0, b.src) IN
       \/ /\ ~IsEquation(b)
          /\ result' = Append(result, b)
          /\ UNCHANGED equation_index
       \/ /\ IsEquation(b)
          /\ result' = IF verdict \in Doubts /\ ~Marked(chunk.answer, position)
                       THEN Append(Append(result, b), marker)
                       ELSE Append(result, ReviewedBlock(b, verdict))
          /\ equation_index' = equation_index + 1
    /\ position' = position + 1
    /\ UNCHANGED <<lines, pc, next, chunk, blocks, succeeded, numbering, doc, extracted, left, said>>

-----------------------------------------------------------------------------
(* Headings. *)

\* Faulty variant: whatever repeats the previous block is dropped.
DedupeBlocks(existing, incoming) ==
    IF /\ existing # <<>> /\ incoming # <<>>
       /\ Last(existing).kind = Head(incoming).kind
       /\ Last(existing).text = Head(incoming).text
    THEN Tail(incoming)
    ELSE incoming

\* A heading that repeats the previous block is dropped.
DedupeHeadings(existing, incoming) ==
    IF /\ existing # <<>> /\ incoming # <<>>
       /\ Last(existing).kind = "heading" /\ Head(incoming).kind = "heading"
       /\ Last(existing).text = Head(incoming).text
       /\ Last(existing).num = Head(incoming).num
    THEN Tail(incoming)
    ELSE incoming

\* A title the AI put first is dropped.
WithoutModelTitle(s) ==
    IF s # <<>> /\ Head(s).kind = "heading" /\ Head(s).num = 0
       /\ Head(s).text \in TitleTopic
    THEN Tail(s)
    ELSE s

-----------------------------------------------------------------------------
(* The task. *)

\* The window's blocks join the others, and the next window begins.
Extend(s) ==
    /\ blocks' = blocks \o DedupeHeadings(blocks, s)
    /\ said' = Append(said, chunk)
    /\ next' = chunk.hi + 1
    /\ chunk' = NoChunk
    /\ BeginLoop(1)
    /\ pc' = "clean"

\* The AI answers for the next window.
CleanChunk ==
    /\ pc = "clean"
    /\ \E hi \in next .. Len(lines) :
          /\ Window(next, hi)
          /\ \E answer \in Answers(next, hi) :
                /\ chunk' = Chunk(next, hi, "cleaned", answer)
                /\ left' = left - Len(answer)
    /\ pc' = "review"
    /\ UNCHANGED <<lines, next, turn, blocks, succeeded, numbering, doc, extracted, said>>

\* Faulty variant: the window is skipped.
CleanFailsSkipping ==
    /\ pc = "clean"
    /\ \E hi \in next .. Len(lines) :
          /\ Window(next, hi)
          /\ said' = Append(said, Chunk(next, hi, "failed", <<>>))
          /\ next' = hi + 1
    /\ UNCHANGED <<lines, pc, chunk, turn, blocks, succeeded, numbering, doc, extracted, left>>

\* It fails on the window, which contributes its raw lines.
CleanFails ==
    /\ pc = "clean"
    /\ \E hi \in next .. Len(lines) :
          /\ Window(next, hi)
          /\ chunk' = Chunk(next, hi, "failed", <<>>)
    /\ BeginLoop(next)
    /\ pc' = "window"
    /\ UNCHANGED <<lines, next, blocks, succeeded, numbering, doc, extracted, left, said>>

EndRawWindow ==
    /\ pc = "window"
    /\ position > chunk.hi
    /\ Extend(FallbackBlocks)
    /\ UNCHANGED <<lines, succeeded, numbering, doc, extracted, left>>

\* An exhausted quota, a rejected request or an unreadable answer ends the
\* task; the reviewer and the overview only fail on the last of these.
CallRaises ==
    /\ \/ pc = "clean" /\ next <= Len(lines)
       \/ pc = "review" /\ EquationCount(chunk.answer) > 0
       \/ pc = "overview" /\ lines # <<>>
    /\ pc' = "raised"
    /\ UNCHANGED <<lines, next, chunk, turn, blocks, succeeded, numbering, doc, extracted, left,
                   said>>

\* The equations are reviewed, or stay as they are when that fails.
ReviewEquations ==
    /\ pc = "review"
    /\ \E reviews \in Reviews(chunk.answer) : chunk' = [chunk EXCEPT !.reviews = reviews]
    /\ BeginLoop(1)
    /\ pc' = "apply"
    /\ UNCHANGED <<lines, next, blocks, succeeded, numbering, doc, extracted, left, said>>

EndReview ==
    /\ pc = "apply"
    /\ position > Len(chunk.answer)
    /\ Extend(result)
    /\ succeeded' = TRUE
    /\ UNCHANGED <<lines, numbering, doc, extracted, left>>

\* No AI, or nothing from it: the document is the transcript.
FallbackContent ==
    /\ \/ pc = "unconfigured"
       \/ pc = "clean" /\ next > Len(lines) /\ (~succeeded \/ blocks = <<>>)
    /\ chunk' = Chunk(1, Len(lines), "failed", <<>>)
    /\ BeginLoop(1)
    /\ pc' = "transcript"
    /\ UNCHANGED <<lines, next, blocks, succeeded, numbering, doc, extracted, left, said>>

EndTranscript ==
    /\ pc = "transcript"
    /\ position > chunk.hi
    /\ doc' = FallbackBlocks
    /\ pc' = "done"
    /\ UNCHANGED <<lines, next, chunk, turn, blocks, succeeded, numbering, extracted, left, said>>

Cleaned ==
    /\ pc = "clean"
    /\ next > Len(lines)
    /\ succeeded
    /\ blocks # <<>>
    /\ pc' = "overview"
    /\ UNCHANGED <<lines, next, chunk, turn, blocks, succeeded, numbering, doc, extracted, left,
                   said>>

\* The overview stands apart from the blocks, and may be missing.
Overview ==
    /\ pc = "overview"
    /\ blocks' = WithoutModelTitle(blocks)
    /\ BeginLoop(1)
    /\ pc' = "number"
    /\ UNCHANGED <<lines, next, chunk, succeeded, numbering, doc, extracted, left, said>>

\* Faulty variant: a repeated heading is dropped, but counted.
RenumberCounting ==
    /\ pc = "number"
    /\ position <= Len(blocks)
    /\ position' = position + 1
    /\ LET b == blocks[position] IN
       IF IsTopic(b)
       THEN /\ number' = number + 1
            /\ topic' = b.text
            /\ doc' = IF b.text = topic THEN doc
                      ELSE Append(doc, Block("heading", b.text, number + 1, b.src))
       ELSE doc' = Append(doc, b) /\ UNCHANGED <<topic, number>>
    /\ UNCHANGED <<lines, pc, next, chunk, equation_index, result, blocks, succeeded, extracted,
                   left, said>>

\* One turn of _renumber_topics: options and other blocks pass, a topic
\* gets the next number, a repetition of the last topic is dropped.
RenumberTopic ==
    /\ pc = "number"
    /\ position <= Len(blocks)
    /\ position' = position + 1
    /\ LET b == blocks[position] IN
       \/ /\ ~IsTopic(b)
          /\ doc' = Append(doc, b)
          /\ UNCHANGED <<topic, number>>
       \/ /\ IsTopic(b) /\ b.text = topic
          /\ UNCHANGED <<doc, topic, number>>
       \/ /\ IsTopic(b) /\ b.text # topic
          /\ number' = number + 1
          /\ topic' = b.text
          /\ doc' = Append(doc, Block("heading", b.text, number + 1, b.src))
    /\ UNCHANGED <<lines, pc, next, chunk, equation_index, result, blocks, succeeded, extracted,
                   left, said>>

Finish ==
    /\ pc = "number"
    /\ position > Len(blocks)
    /\ extracted' = TRUE
    /\ pc' = "done"
    /\ UNCHANGED <<lines, next, chunk, turn, blocks, succeeded, numbering, doc, left, said>>

Next ==
    \/ CleanChunk
    \/ ReviewEquations
    \/ ApplyReview
    \/ EndReview
    \/ CleanFails
    \/ EndRawWindow
    \/ CallRaises
    \/ FallbackContent
    \/ CloseParagraph
    \/ EndTranscript
    \/ Cleaned
    \/ Overview
    \/ RenumberTopic
    \/ Finish

Spec == Init /\ [][Next]_vars

-----------------------------------------------------------------------------
(* Properties. *)

Blocks ==
    {b \in [kind : {"heading", "paragraph", "equation"},
            text : Topic \cup {"marker", "raw", "absent", "formula", "corrected"},
            num : Nat,
            src : Nat \X Nat \X Nat] : b.kind = "heading" => b.text \in Topic}

ChunkType(c) ==
    /\ c.lo \in Nat /\ c.hi \in Nat
    /\ c.how \in {"cleaned", "failed"}
    /\ c.answer \in Seq(Blocks)

TypeOK ==
    /\ lines \in Seq(Nat)
    /\ pc \in {"unconfigured", "clean", "review", "apply", "window", "transcript",
               "overview", "number", "done", "raised"}
    /\ next \in 1 .. Len(lines) + 1
    /\ ChunkType(chunk)
    /\ \A i \in DOMAIN said : ChunkType(said[i])
    /\ position \in Nat \ {0}
    /\ equation_index \in Nat
    /\ result \in Seq(Blocks) /\ blocks \in Seq(Blocks) /\ doc \in Seq(Blocks)
    /\ topic \in Topic \cup {NoTopic}
    /\ number \in Nat
    /\ succeeded \in BOOLEAN
    /\ extracted \in BOOLEAN
    /\ left \in 0 .. MaxBlocks

\* "Number topic headings sequentially and drop repeated chunk headings":
\* whatever the windows bring, the topics of the document are numbered from
\* one on without a gap, and no topic follows itself.
Topics == {p \in DOMAIN doc : doc[p].kind = "heading" /\ doc[p].num # 0}
TopicsNumbered ==
    /\ \A p \in Topics : doc[p].num = Cardinality({q \in Topics : q <= p})
    /\ \A p, q \in Topics : doc[q].num = doc[p].num + 1 => doc[p].text # doc[q].text
    /\ \A p \in DOMAIN doc : doc[p].kind = "heading" /\ doc[p].num = 0 => IsOption(doc[p])

\* In the order of the lecture, and of the AI's answer for the same lines.
Precedes(b, c) ==
    \/ b.src[1] < c.src[1]
    \/ b.src[1] = c.src[1] /\ b.src[3] < c.src[3]

\* The k-th block of a window's answer, an equation, as its review leaves it.
Reviewed(window, k) ==
    IF window.reviews[EquationIndex(window.answer, k)] = "corrected"
    THEN Block("equation", "corrected", 0, window.answer[k].src)
    ELSE window.answer[k]

\* "Review never removes an equation; it only applies corrections": the notes
\* have every equation the AI wrote, once, in the order it wrote them, and
\* one that was found wrong in its corrected form.
EquationsKept ==
    LET kept == {p \in DOMAIN doc : IsEquation(doc[p])}
        given(i) == {k \in DOMAIN said[i].answer : IsEquation(said[i].answer[k])} IN
    pc = "done" /\ extracted =>
        /\ {doc[p] : p \in kept} =
             UNION {{Reviewed(said[i], k) : k \in given(i)} : i \in DOMAIN said}
        /\ \A p, q \in kept : p < q => Precedes(doc[p], doc[q])

\* A doubtful equation of the window has a marker next to it, and an added
\* one stands next to no other, nor across its equation from one that the AI
\* wrote.
Placed(s, window) ==
    LET marked(p) == p \in DOMAIN s /\ s[p].src[1] = window.lo /\ IsMarker(s[p])
        added(p) == marked(p) /\ IsEquation(window.answer[s[p].src[3]]) IN
    \A p \in DOMAIN s : s[p].src[1] = window.lo =>
        /\ /\ IsEquation(s[p])
           /\ window.reviews[EquationIndex(window.answer, s[p].src[3])] \in Doubts
           => marked(p - 1) \/ marked(p + 1)
        /\ added(p) =>
           /\ ~marked(p - 1) /\ ~marked(p + 1)
           /\ marked(p - 2) => added(p - 2)

\* "Mark a reconstructed equation without duplicating an existing marker", in
\* each of the windows.
MarkersPlaced == \A i \in DOMAIN said : Placed(blocks, said[i])

\* Nothing of a lecture is lost to a failing AI: a line is in one window, and
\* in exactly one paragraph of raw transcript if the AI failed on it, or on
\* all of them, and in none otherwise; and the document follows the lecture.
TranscriptKept ==
    LET raw(l) == {p \in DOMAIN doc : IsRaw(doc[p]) /\ l \in doc[p].src[1] .. doc[p].src[2]}
        windows(l) == {i \in DOMAIN said : l \in said[i].lo .. said[i].hi} IN
    pc = "done" =>
        /\ \A l \in DOMAIN lines :
              /\ extracted => Cardinality(windows(l)) = 1
              /\ Cardinality(raw(l)) =
                   IF ~extracted \/ \E i \in windows(l) : said[i].how = "failed" THEN 1 ELSE 0
        /\ \A p, q \in DOMAIN doc : p < q => ~Precedes(doc[q], doc[p])

=============================================================================
