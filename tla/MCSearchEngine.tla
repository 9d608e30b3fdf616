---------------------------- MODULE MCSearchEngine ----------------------------
(* Instances of SearchEngine for TLC. *)
EXTENDS SearchEngine

CONSTANTS c1, c2, sales, memo, note, any

\* A table and a memo, both embedded, and a note still to be uploaded.
SomeStored == [d \in {sales, memo, note} |-> IF d = note THEN "absent" ELSE "embedded"]

\* The strict text queries find the note only, the loose one everything.
SomeMatches == <<{note}, {note}, {sales, memo, note}>>

\* The memo wins a hybrid search by its text, the table by its vector.
SomeVScore == [d \in {sales, memo, note} |-> IF d = sales THEN 2 ELSE IF d = memo THEN 1 ELSE 3]
SomeLRank  == [d \in {sales, memo, note} |-> IF d = sales THEN 1 ELSE IF d = memo THEN 2 ELSE 1]

Nearest == [mode |-> "hybrid", top_k |-> 1, doc |-> any, min_score |-> 0]
OfNote  == [mode |-> "vector_only", top_k |-> 2, doc |-> note, min_score |-> 2]
SomeQuestions == {Nearest, OfNote}
=============================================================================
