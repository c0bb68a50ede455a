------------------------------- MODULE Fields -------------------------------
(***************************************************************************)
(* Texts that are split at a separator.  A text is a sequence of pieces:   *)
(* separators, and the parts of words that the properties tell apart.      *)
(***************************************************************************)
EXTENDS Naturals, Sequences, SequencesExt

\* A space; in a log, any white space.
Blank == " "

\* strings.Split: the texts between the separators, one more than these.
Split(text, sep) ==
  LET ends == {0, Len(text) + 1} \cup {i \in DOMAIN text : text[i] = sep}
      End(k) == CHOOSE i \in ends : Cardinality({j \in ends : j < i}) = k
  IN  [k \in 1..Cardinality(ends) - 1 |-> SubSeq(text, End(k - 1) + 1, End(k) - 1)]

\* strings.Cut and strings.IndexByte: what is before and after the first sep.
Before(text, sep) == Split(text, sep)[1]
After(text, sep)  == SubSeq(text, Len(Before(text, sep)) + 2, Len(text))

\* Texts with separators between them.
Join(texts, sep) ==
  FlattenSeq([i \in DOMAIN texts |-> IF i = 1 THEN texts[1] ELSE <<sep>> \o texts[i]])

\* What is left of a text when its end is cut off.
Beginnings(text) == {SubSeq(text, 1, n) : n \in 0..Len(text) - 1}
=============================================================================
