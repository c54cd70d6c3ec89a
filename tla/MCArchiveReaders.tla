------------------------- MODULE MCArchiveReaders -------------------------
(* Two documents that compete for one topic key. *)
EXTENDS ArchiveReaders, TLC

CONSTANTS d1, d2, k1, k2, blue, cA, cB

\* An edit from cA to cB drops k1 for k2.
AssertsTwo == cA :> (k1 :> blue) @@ cB :> (k2 :> blue)

Always == [x \in Values |-> Int]

NoRequest == [claim |-> None, topic |-> None, refs |-> {}]
PlainOrTopic == {NoRequest, [NoRequest EXCEPT !.topic = k1]}

\* The clock matters to the feed, the length of a history to revalidation.
VersionsRead == [reading \in BOOLEAN |-> IF reading THEN 3 ELSE 4]
SetbacksRead == [reading \in BOOLEAN |-> IF reading THEN 1 ELSE 0]

RankTwo == d1 :> 1 @@ d2 :> 2
=============================================================================
