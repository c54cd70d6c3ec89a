-------------------------- MODULE MCMemoryArchive --------------------------
(* Small instances of MemoryArchive for TLC. *)
EXTENDS MemoryArchive, TLC

CONSTANTS d1, d2, d3, k1, x1, x2, blue, green, cA, cB, cAB, tA, tB, s1, s2

\* Contents cA and cB give k1 different values; cAB also authors a second key.
AssertsKeyed ==
    cA :> (k1 :> blue) @@ cB :> (k1 :> green) @@ cAB :> (k1 :> blue @@ x1 :> blue)

\* Remembered text: one claim each, keyed by its own words.
AssertsText == tA :> (x1 :> blue) @@ tB :> (x2 :> green) @@ cA :> (k1 :> blue)

NoRequest == [claim |-> None, topic |-> None, refs |-> {}]

\* At most one instruction per write: a claim id, a topic key, or one reference.
Refs(n) == [doc : Docs, num : 1..n, key : Keys]
OneRequest == {NoRequest}

EachRequest ==
    {NoRequest}
    \cup {[NoRequest EXCEPT !.claim = r] : r \in Refs(2)}
    \cup {[NoRequest EXCEPT !.topic = k] : k \in Keys}
    \cup {[NoRequest EXCEPT !.refs = {r}] : r \in Docs \cup Keys}

\* green stops being valid after reading 2.
Intervals == blue :> Int @@ green :> {0, 1, 2}

AnyCutoff == (0..MaxClock) \cup {None}

StrictClock == {1}
UnreliableClock == {-1, 0, 1}

Interchangeable == Permutations(Sessions) \cup Permutations(Docs)

=============================================================================
