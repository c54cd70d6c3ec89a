---------------------------- MODULE MCIngestSync ----------------------------
(* Small instances of IngestSync for TLC. *)
EXTENDS IngestSync, TLC

CONSTANTS
    d1, d2, m1, k1, blue, green, s1, s2,
    old_text, new_text, back_text, plain_text, tagged_text, blank_text

\* d2 sorts before d1.
PathOrder == d2 :> 1 @@ d1 :> 2 @@ m1 :> 3

\* Three contents claim k1; new_text says it replaces d1, back_text that d2
\* replaces it.
MCAsserts ==
    [c \in Contents |-> CASE c = new_text  -> k1 :> green
                          [] c \in {old_text, back_text} -> k1 :> blue
                          [] OTHER    -> << >>]
MCSupersedes == [c \in Contents |-> IF c = new_text THEN {d1} ELSE {}]
MCSupersededBy == [c \in Contents |-> IF c = back_text THEN {d2} ELSE {}]

\* tagged_text is plain_text under some frontmatter; every other content has none.
MCBody == [c \in Contents |-> IF c = tagged_text THEN plain_text ELSE c]
MCBlank == {blank_text}

Always == [x \in Values |-> Int]
NoStatement == {}
OneStatement == {[path |-> m1, content |-> old_text, topic |-> None]}
TopicStatement == {[path |-> m1, content |-> old_text, topic |-> k1]}

=============================================================================
