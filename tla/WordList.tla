------------------------------ MODULE WordList ------------------------------
(***************************************************************************)
(* What the zForth dictionary promises its user: a list of words that only *)
(* grows.  A definition adds one word at the end, "immediate" marks the    *)
(* last one, and no other step changes a word.                             *)
(***************************************************************************)
EXTENDS Sequences, SequencesExt

VARIABLE words  \* from the oldest to the newest: [name, immediate]

Init == words = << >>

Define == words' # << >> /\ Front(words') = words

MakeImmediate ==
  /\ words # << >>
  /\ words' = [words EXCEPT ![Len(words)].immediate = TRUE]

Next == Define \/ MakeImmediate

Spec == Init /\ [][Next]_words
=============================================================================
