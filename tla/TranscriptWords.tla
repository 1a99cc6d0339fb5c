--------------------------- MODULE TranscriptWords ---------------------------
(***************************************************************************)
(* From a caption file to the words of a submission (_parse_vtt,           *)
(* _close_word_times, build_submission).  A word is known by its place in  *)
(* what was spoken; it is a "symbol" when nothing is left of it once       *)
(* normalize_word has stripped its punctuation.  Times are in tenths of a  *)
(* second.                                                                 *)
(***************************************************************************)
EXTENDS Integers, FiniteSets, SequencesExt

CONSTANT Spoken     \* what videos say: lines of words

Untimed == -1       \* a word without a time stamp of its own
Gap == 3            \* how long the last word lasts

Word == [n : Nat, kind : {"word", "symbol"}]

\* The places of a text that consists of sequences, in reading order.
Places(texts) == UNION {{l} \X DOMAIN texts[l] : l \in DOMAIN texts}
Before(t, u) == t[1] < u[1] \/ (t[1] = u[1] /\ t[2] < u[2])

\* No line is empty, and words are numbered as they are spoken.
ASSUME SpokenAssumption ==
    \A lines \in Spoken :
        /\ lines \in Seq(Seq(Word) \ {<<>>})
        /\ \A t, u \in Places(lines) :
              Before(t, u) => lines[t[1]][t[2]].n < lines[u[1]][u[2]].n

-----------------------------------------------------------------------------
(* The files that show what is spoken, line by line. *)

Time(word) == 10 * word.n

Plain(line) == [i \in DOMAIN line |-> [word |-> line[i], time |-> Untimed]]

Stamped(line) ==
    [i \in DOMAIN line |->
        [word |-> line[i], time |-> IF i = 1 THEN Untimed ELSE Time(line[i])]]

Cue(line, text) ==
    [start |-> Time(Head(line)), end |-> Time(Last(line)) + 10, text |-> text]

\* Human captions: a cue for each line.
ManualCues(lines) == [i \in DOMAIN lines |-> Cue(lines[i], Plain(lines[i]))]

\* YouTube's own: each cue repeats the line before, and stamps every word of
\* its own line but the first, whose time is the cue's.
RollingCues(lines) ==
    [i \in DOMAIN lines |->
        Cue(lines[i], (IF i = 1 THEN <<>> ELSE Plain(lines[i - 1])) \o Stamped(lines[i]))]

-----------------------------------------------------------------------------
(* The parser and the submission. *)

\* The elements of S as a loop over them comes to them: <<x, y>> is in
\* precedes if x comes first.
InOrder(S, precedes) ==
    [k \in 1 .. Cardinality(S) |->
        CHOOSE x \in S : Cardinality({y \in S : <<y, x>> \in precedes}) = k - 1]

Tokens(cues) == Places([c \in DOMAIN cues |-> cues[c].text])
Token(cues, t) == cues[t[1]].text[t[2]]
AsRead(S) == InOrder(S, {pair \in S \X S : Before(pair[1], pair[2])})

\* The words with a time stamp: those alone, when there are any.
StampedWords(cues) ==
    LET stamped == AsRead({t \in Tokens(cues) : Token(cues, t).time # Untimed}) IN
    [i \in DOMAIN stamped |->
        LET token == Token(cues, stamped[i]) IN
        [word |-> token.word, start |-> token.time, end |-> token.time]]

\* parse_vtt_cues: every word of a cue has the times of the cue.
CueWords(cues) ==
    LET tokens == AsRead(Tokens(cues)) IN
    [i \in DOMAIN tokens |->
        LET cue == cues[tokens[i][1]] IN
        [word |-> Token(cues, tokens[i]).word, start |-> cue.start, end |-> cue.end]]

\* _close_word_times
CloseTimes(words) ==
    [i \in DOMAIN words |->
        [words[i] EXCEPT !.end = IF i < Len(words) THEN words[i + 1].start
                                                   ELSE words[i].start + Gap]]

\* Faulty variant: the stamps are only looked for when there is no cue.
ParseVttByCue(cues) == CloseTimes(IF cues = <<>> THEN StampedWords(cues) ELSE CueWords(cues))

ParseVtt(cues) ==
    CloseTimes(IF StampedWords(cues) = <<>> THEN CueWords(cues) ELSE StampedWords(cues))

\* What normalisation empties is dropped, and the rest numbered.
BuildSubmission(words) ==
    LET heard == {i \in DOMAIN words : words[i].word.kind = "word"}
        kept == InOrder(heard, {pair \in heard \X heard : pair[1] < pair[2]}) IN
    [k \in DOMAIN kept |->
        LET w == words[kept[k]] IN
        [word_index |-> k - 1, word |-> w.word, start |-> w.start, end |-> w.end]]

=============================================================================
