---------------------------- MODULE ArchivePacks ----------------------------
(***************************************************************************)
(* What the public read path answers about an archive: the operations      *)
(* current, history, pack and query of memory_public, with their path and  *)
(* scope selectors, withheld states, relevance filter and size budget.     *)
(*                                                                         *)
(* A read loads one coherent view of the committed tables and takes no     *)
(* lock, so an answer is a function of the archive: here of every archive  *)
(* that the transactions of MemoryArchive can commit.                      *)
(*                                                                         *)
(* A response is a record of sets.  Texts are abstracted: Cost counts what *)
(* a response lists, one unit a claim and one more for its evidence.       *)
(***************************************************************************)
EXTENDS MemoryArchive, FiniteSetsExt

CONSTANTS
    Inquiries,  \* what is asked
    Withheld    \* the values of draft, rejected and superseded claims

\* paths is one path, or Docs without a path selector; scope is what lies below
\* the path prefixes, or Docs without any.  about holds the keys the question is
\* about: those its words match, for a query those the scorer finds relevant.
Inquiry ==
    [op : {"current", "history", "pack", "query"}, paths : SUBSET Docs, scope : SUBSET Docs,
     about : SUBSET Keys, past : BOOLEAN, drafts : BOOLEAN, budget : Nat]

ASSUME PacksAssumption ==
    /\ Inquiries \subseteq Inquiry
    /\ Withheld \subseteq Values
    /\ IsFiniteSet(Keys)

-----------------------------------------------------------------------------
(* Responses *)

Empty == [current |-> {}, changes |-> {}, historical |-> {}, conflicts |-> {},
          uncertain |-> {}, truncated |-> FALSE]

Refused == [Empty EXCEPT !.truncated = TRUE]

\* _claims: every claim a response lists, wherever.
Shown(r) ==
    r.current \cup r.historical \cup r.uncertain \cup (UNION r.conflicts)
    \cup UNION {c.previous \cup c.now : c \in r.changes}

\* The length of the canonical JSON; "false" is one character more than "true".
Cost(r) ==
    LET shown == Shown(r)
    IN  Cardinality(r.current) + Cardinality(r.historical) + Cardinality(r.uncertain)
        + Cardinality({p \in r.conflicts \X shown : p[2] \in p[1]})
        + Cardinality({p \in r.changes \X shown : p[2] \in p[1].previous})
        + Cardinality({p \in r.changes \X shown : p[2] \in p[1].now})
        + Cardinality(shown) + (IF r.truncated THEN 0 ELSE 1)

\* The groups of G that S reaches, in however many steps: no fewer are closed.
Connected(S, G) ==
    LET closed == {H \in SUBSET G : \A g \in G : g \cap (S \cup UNION H) # {} => g \in H}
    IN  {g \in G : \A H \in closed : g \in H}

\* A group left with one side promotes it, one left with none goes.
KeepSides(r, kept) ==
    LET sides == {g \cap kept : g \in r.conflicts}
    IN  [r EXCEPT !.conflicts = {g \in sides : Cardinality(g) >= 2},
                  !.current = @ \cup UNION {g \in sides : Cardinality(g) = 1}]

-----------------------------------------------------------------------------
(* Projecting the archive *)

AllClaims == LoadedClaims(versions, claims)

\* Faulty: claims stay current when their interval has ended.
CurrentForEver == Live(versions, claims)

Current == Active(versions, claims, clock)

Opposed(c, d) == c.key = d.key /\ c.doc # d.doc /\ c.value # d.value

Targets(S) == {d \in AllClaims : \E c \in S : c.target = ClaimId(d)}

\* What S leads to along supersession edges, either way, in however many steps.
Chains(S) ==
    LET edges  == {e \in AllClaims \X AllClaims : e[1].target = ClaimId(e[2])}
        closed == {T \in SUBSET AllClaims :
                      S \subseteq T /\ \A e \in edges : e[1] \in T <=> e[2] \in T}
    IN  {c \in AllClaims : \A T \in closed : c \in T}

\* A history asks about whole chains; a query filters after projecting.
Matching(q) ==
    LET named == {c \in AllClaims : c.key \in q.about}
    IN  CASE q.op = "query"   -> AllClaims
          [] q.op = "history" -> Chains(named)
          [] OTHER            -> named

\* The pairs of live claims that contradict each other, at least one of them in S.
Alternatives(S) ==
    UNION {{{c, d} : d \in {x \in Current : Opposed(c, x)}} : c \in Current \cap S}

Obsolete(c) ==
    \/ ClaimId(c) \in Retired(claims)
    \/ \A v \in versions : VersionId(v) = [doc |-> c.doc, num |-> c.num] =>
         ~IsLatest(versions, v) \/ v.event = "DELETED"

\* The "before" half of a version: its predecessor's claims, or what its own
\* claims retire elsewhere.
Before(v) ==
    LET prior == {c \in AllClaims : c.doc = v.doc /\ c.num = v.num - 1}
    IN  IF prior = {} THEN Targets(ClaimsOf(claims, v)) ELSE prior

Changes(q, ids) ==
    LET transition(v) ==
            LET now == ClaimsOf(claims, v)
                ours == now \cap ids
            IN  IF q.op # "history" THEN [version |-> VersionId(v), previous |-> Before(v), now |-> now]
                ELSE [version |-> VersionId(v), now |-> ours,
                      previous |-> Before(v) \cap (ids \cup Targets(ours))]
        told(c) == IF q.about = Keys \/ q.op = "query" THEN c.previous \cup c.now # {}
                   ELSE (c.previous \cup c.now) \cap ids # {}
    IN  {c \in {transition(v) : v \in {u \in versions : u.doc \in q.paths \cap q.scope}} : told(c)}

\* project.
Project(q) ==
    LET match      == Matching(q)
        groups     == Alternatives(match)
        replaced   == Targets(match)
        historical == {c \in match \cup replaced : Obsolete(c)}
        uncertain  == {c \in match \ Current : ClaimId(c) \notin Retired(claims)}
        current    == (Current \cap match) \ UNION groups
        paths      == IF q.op = "query" THEN Docs ELSE q.paths
        ids        == {c \in current \cup historical \cup uncertain \cup UNION groups :
                          c.doc \in paths \cap q.scope}
        listed     == IF q.op = "current"
                      THEN [Empty EXCEPT !.current = current \cap ids]
                      ELSE [Empty EXCEPT !.current = current \cap ids,
                                         !.historical = historical \cap ids,
                                         !.uncertain = uncertain \cap ids,
                                         !.changes = Changes([q EXCEPT !.paths = paths], ids)]
    IN  [listed EXCEPT !.conflicts = Connected(ids \cup Shown(listed), Alternatives(AllClaims))]

\* _scope_conflicts.
ScopeConflicts(q, r) == KeepSides(r, {c \in Shown(r) : c.doc \in q.scope})

\* _withhold.
Withhold(q, r) ==
    LET kept == {c \in Shown(r) : q.drafts \/ c.value \notin Withheld}
        sides(c) == [c EXCEPT !.previous = @ \cap kept, !.now = @ \cap kept]
        r1 == [r EXCEPT !.current = @ \cap kept, !.historical = @ \cap kept,
                        !.uncertain = @ \cap kept,
                        !.changes = {c \in {sides(x) : x \in @} : c.previous \cup c.now # {}}]
    IN  KeepSides(r1, kept)

\* select: the relevant claims, for a question about the past also what they
\* retired, and every group they touch.
Select(q, r) ==
    LET relevant == {c \in Shown(r) : c.key \in q.about /\ c.doc \in q.paths \cap q.scope}
        chosen   == IF q.past THEN relevant \cup Targets(relevant) ELSE relevant
        picked   == IF q.past
                    THEN [Empty EXCEPT !.current = r.current \cap chosen,
                                       !.historical = r.historical \cap chosen,
                                       !.uncertain = r.uncertain \cap chosen,
                                       !.changes = {c \in r.changes :
                                           (c.previous \cup c.now) \cap chosen # {}}]
                    ELSE [Empty EXCEPT !.current = r.current \cap chosen]
    IN  [picked EXCEPT !.conflicts = Connected(chosen \cup Shown(picked), r.conflicts)]

-----------------------------------------------------------------------------
(* Packing into a budget *)

\* Ids are hashes, so keys sort in any one order.
KeyOrder == CHOOSE f \in [Keys -> 1..Cardinality(Keys)] : \A k, l \in Keys : k # l => f[k] # f[l]

Observed(id) == (CHOOSE v \in versions : VersionId(v) = id).observed
ClaimRank(c) ==
    Observed([doc |-> c.doc, num |-> c.num]) * (1 + Cardinality(Keys)) + KeyOrder[c.key]
GroupRank(g) ==
    LET ranks == {ClaimRank(c) : c \in g}
        span  == (MaxClock + 1) * (1 + Cardinality(Keys))
        key   == KeyOrder[(CHOOSE c \in g : TRUE).key]
    IN  (key * span + Min(ranks)) * span + Max(ranks)
ChangeRank(c) == Observed(c.version)

\* The order in which a field lists its items.
Rank(f, x) ==
    CASE f = "changes"   -> ChangeRank(x)
      [] f = "conflicts" -> GroupRank(x)
      [] OTHER           -> ClaimRank(x)

First(f, S) == CHOOSE x \in S : \A y \in S : Rank(f, x) <= Rank(f, y)

\* Faulty: a unit comes without the conflicts it takes part in.
AddUnitAlone(full, r, f, x) == [r EXCEPT ![f] = @ \cup {x}]

\* A unit comes with every conflict that what is then listed takes part in.
AddUnit(full, r, f, x) ==
    LET with == [r EXCEPT ![f] = @ \cup {x}]
    IN  [with EXCEPT !.conflicts = @ \cup Connected(Shown(with), full.conflicts)]

\* Faulty: the flag is lowered whether or not that fits.
LowerFlagAlways(r, budget) == [r EXCEPT !.truncated = FALSE]

\* Nothing was dropped: lower the flag, unless that no longer fits.
LowerFlag(r, budget) ==
    LET whole == [r EXCEPT !.truncated = FALSE]
    IN  IF Cost(whole) <= budget THEN whole ELSE r

\* Faulty: the first item that does not fit ends the pack.
OfferUntilFull(full, budget, f, acc) ==
    LET x    == First(f, acc.left)
        r    == AddUnit(full, acc.pack, f, x)
        rest == [acc EXCEPT !.left = @ \ {x}]
    IN  IF ~acc.dropped /\ Cost(r) <= budget THEN [rest EXCEPT !.pack = r]
        ELSE [rest EXCEPT !.dropped = TRUE]

\* The next item of a field is added or, when it does not fit, dropped.
Offer(full, budget, f, acc) ==
    LET x    == First(f, acc.left)
        r    == AddUnit(full, acc.pack, f, x)
        rest == [acc EXCEPT !.left = @ \ {x}]
    IN  IF Cost(r) <= budget THEN [rest EXCEPT !.pack = r] ELSE [rest EXCEPT !.dropped = TRUE]

PackField(full, budget, f, acc) ==
    LET offered[n \in 0..Cardinality(full[f])] ==
            IF n = 0 THEN [acc EXCEPT !.left = full[f]]
            ELSE Offer(full, budget, f, offered[n - 1])
    IN  offered[Cardinality(full[f])]

FieldOrder == <<"current", "changes", "historical", "conflicts", "uncertain">>
Fields == {FieldOrder[n] : n \in 1..5}

\* bounded_pack for a budget that fits the envelope: greedy, field by field.
BoundedPack(full, budget) ==
    LET start == [pack |-> Refused, dropped |-> FALSE, left |-> {}]
        after[n \in 0..5] == IF n = 0 THEN start
                             ELSE PackField(full, budget, FieldOrder[n], after[n - 1])
        packed == after[5]
    IN  IF packed.dropped THEN packed.pack ELSE LowerFlag(packed.pack, budget)

\* What a query or a pack is cut from.
Full(q, projected) ==
    CASE q.op = "query"   -> Select(q, projected)
      [] q.op = "history" -> ScopeConflicts(q, projected)
      [] OTHER            -> Withhold(q, ScopeConflicts(q, projected))

\* execute_in_session, its last steps.
Answered(q, full) ==
    CASE q.op = "query" -> ScopeConflicts(q, BoundedPack(full, q.budget))
      [] q.op = "pack"  -> BoundedPack(full, q.budget)
      [] OTHER          -> full

\* Every inquiry with its answer and what the answer was cut from, stage by stage.
Answers ==
    LET projected == {[inquiry |-> q, all |-> Project(q)] : q \in Inquiries}
        uncut     == {[inquiry |-> p.inquiry, full |-> Full(p.inquiry, p.all)] : p \in projected}
    IN  {[inquiry |-> u.inquiry, full |-> u.full, response |-> Answered(u.inquiry, u.full)] :
            u \in uncut}

-----------------------------------------------------------------------------
(* Properties *)

\* Answers depend on the committed tables only; look at them when nobody writes.
Quiet == snapshots = {} /\ \A s \in Sessions : phase[s] = "idle"

\* "Path/query selectors must never hide a counter-source", nor may a budget: an
\* answer that lists a live claim lists every live claim of another document that
\* contradicts it, unless that one lies outside the scope or is withheld.
NoCounterSourceIsHidden ==
    Quiet => \A a \in Answers, c, d \in Current :
        /\ c \in Shown(a.response)
        /\ Opposed(c, d) /\ d.doc \in a.inquiry.scope
        /\ \/ a.inquiry.op \in {"history", "query"}
           \/ a.inquiry.drafts \/ d.value \notin Withheld
        => d \in Shown(a.response)

\* A pack never exceeds its budget; it is the whole answer when that fits, and
\* says it is truncated when it does not.
PacksFitAndTellTruncation ==
    Quiet => \A a \in {x \in Answers : x.inquiry.op \in {"pack", "query"}} :
        LET pack == BoundedPack(a.full, a.inquiry.budget)
        IN  /\ Cost(pack) <= a.inquiry.budget
            /\ IF Cost(a.full) <= a.inquiry.budget THEN pack = a.full ELSE pack.truncated

\* The greedy pass never comes back to an item it dropped, nor to what it listed: but
\* when it is done, none of the items that are missing fits any more.
PacksLeaveNothingThatFits ==
    Quiet => \A a \in {x \in Answers : x.inquiry.op \in {"pack", "query"}} :
        LET pack == BoundedPack(a.full, a.inquiry.budget)
        IN  \A f \in Fields : \A x \in a.full[f] \ pack[f] :
                Cost(AddUnit(a.full, pack, f, x)) > a.inquiry.budget

=============================================================================
