------------------------------- MODULE SeqOps -------------------------------
(* Python's list comprehensions and its idiom for lists without repetitions,  *)
(* written with folds.                                                        *)
EXTENDS Sequences, SequencesExt

\* if x not in ordered: ordered.append(x)
AddNew(ordered, x) == IF x \in Range(ordered) THEN ordered ELSE Append(ordered, x)

\* What s has, each once, in the order of first occurrence.
Distinct(s) == FoldLeft(AddNew, <<>>, s)

\* [x for x in s if x in T]
Only(s, T) == FlattenSeq([i \in DOMAIN s |-> IF s[i] \in T THEN <<s[i]>> ELSE <<>>])
=============================================================================
