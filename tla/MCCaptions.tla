----------------------------- MODULE MCCaptions -----------------------------
(* Captions for TLC; copies of the cookie file are interchangeable. *)
EXTENDS Captions

VideoManual == {[base |-> "en", form |-> "region"], [base |-> "ar", form |-> "plain"]}
VideoAuto == {[base |-> "en", form |-> "orig"], [base |-> "en", form |-> "plain"],
              [base |-> "ar", form |-> "plain"]}

\* Up to two lines of up to two words.
SpokenLine(first, kinds) ==
    [i \in DOMAIN kinds |-> [n |-> first + i - 1, kind |-> kinds[i]]]
ShortLines ==
    LET Kinds == SeqOf({"word", "symbol"}, 2) \ {<<>>} IN
    {<<SpokenLine(1, a)>> : a \in Kinds}
    \cup {<<SpokenLine(1, a), SpokenLine(Len(a) + 1, b)>> : a \in Kinds, b \in Kinds}

Symmetry == Permutations(Copy)

=============================================================================
