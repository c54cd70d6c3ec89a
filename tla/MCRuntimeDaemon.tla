-------------------------- MODULE MCRuntimeDaemon --------------------------
(* Small instances of RuntimeDaemon for TLC. *)
EXTENDS RuntimeDaemon, TLC

CONSTANTS p1, p2, w1, w2, r1, s1, h1, h2, main_db, other_db

MCKind == [c \in Commands |-> CASE c \in {w1, w2} -> "remember"
                                [] c = s1 -> "stop"
                                [] c \in {h1, h2} -> "post"
                                [] OTHER -> "recall"]
MCDatabase == [c \in Commands |-> IF c = r1 THEN other_db ELSE main_db]
MCWarm == [w \in Crews |-> IF w = {w1, s1} THEN {} ELSE {p1}]

\* The warm daemon waits for its connections in one crew, the other one in another.
MCDrains == [w \in Crews |-> CASE w = {r1, s1} -> {p1}
                               [] w = {w1, w2} -> {p2}
                               [] OTHER -> {}]

MCEvents == [w \in Crews |-> CASE w = {w1, s1} -> 2
                               [] w \in {{w1}, {r1, s1}} -> 1
                               [] OTHER -> 0]

=============================================================================
