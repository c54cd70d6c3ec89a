--------------------------- MODULE ArchiveTables ---------------------------
(***************************************************************************)
(* The rows of one corpus's append-only archive and the pure decisions the *)
(* service and its database triggers take over them: which version is the  *)
(* latest of its document, which claims are live, which claim a write      *)
(* retires, which rows the triggers admit, and what status a reader is     *)
(* shown.                                                                  *)
(*                                                                         *)
(* V is a set of memory_versions rows, C a set of memory_claims rows.      *)
(* Nothing here has state: MemoryArchive applies these operators to what a *)
(* transaction can see, SerialArchive to the committed tables.             *)
(***************************************************************************)
EXTENDS Integers, FiniteSets

CONSTANTS
    Docs,       \* document paths: memory_document_id is a hash of corpus and path
    Keys,       \* claim keys
    TextKeys,   \* the keys that start with "text:", made from a claim's own words
    Values,     \* a claim's canonical JSON value with its validity interval
    ValidAt,    \* ValidAt[x]: the moments inside value x's interval
    Contents,   \* raw source plus metadata; equal contents have equal fingerprints
    Asserts,    \* Asserts[c] maps each key that content c authors to its value
    None        \* SQL NULL

\* The bases that may leave a document, and the two that stay inside one.
CrossBases == {"explicit_claim_id", "topic_key"}
Bases == {"same_document_key", "single_claim_replacement"} \cup CrossBases

Events == {"NEW", "MODIFIED", "DELETED", "RESTORED"}

VersionRef == [doc : Docs, num : Nat \ {0}]
ClaimRef   == [doc : Docs, num : Nat \ {0}, key : Keys]

ASSUME TablesAssumption ==
    /\ TextKeys \subseteq Keys
    /\ \A c \in Contents : /\ DOMAIN Asserts[c] \subseteq Keys
                           /\ \A k \in DOMAIN Asserts[c] : Asserts[c][k] \in Values
    /\ None \notin Contents \cup Docs \cup Keys \cup Bases \cup ClaimRef
    /\ Docs \cap Keys = {}

Version ==
    [doc : Docs, num : Nat \ {0}, event : Events,
     content : Contents \cup {None}, observed : Int]

Claim ==
    [doc : Docs, num : Nat \ {0}, key : Keys, value : Values,
     target : ClaimRef \cup {None}, basis : Bases \cup {None}]

VersionId(v) == [doc |-> v.doc, num |-> v.num]
ClaimId(c)   == [doc |-> c.doc, num |-> c.num, key |-> c.key]

Authored(content) == DOMAIN Asserts[content]

-----------------------------------------------------------------------------
(* Reading the tables *)

\* v is the row `_latest` returns: ORDER BY version_number DESC LIMIT 1.
IsLatest(V, v) == \A u \in V : u.doc = v.doc => u.num <= v.num

ClaimsOf(C, v) == {c \in C : c.doc = v.doc /\ c.num = v.num}

Retired(C) == {c.target : c \in C} \ {None}

\* A claim is live when nothing retires it and its version is the latest,
\* undeleted one of its document.
Live(V, C) ==
    {c \in C : /\ ClaimId(c) \notin Retired(C)
               /\ \E v \in V : /\ VersionId(v) = [doc |-> c.doc, num |-> c.num]
                               /\ IsLatest(V, v)
                               /\ v.event # "DELETED"}

\* A wrong candidate query, one that forgets what is already retired.
LiveElsewhereEvenRetired(V, C, d) == {c \in Live(V, {[x EXCEPT !.target = None] : x \in C}) : c.doc # d}

LiveElsewhere(V, C, d) == {c \in Live(V, C) : c.doc # d}

-----------------------------------------------------------------------------
(* What a write retires in other documents.  A request names a claim, a    *)
(* topic key, or references the document declares about itself.  Each      *)
(* operator below is the set of edge sets the code may produce: it is      *)
(* empty when the code refuses the write.                                  *)

Request ==
    [claim : ClaimRef \cup {None},
     topic : Keys \cup {None},
     refs  : SUBSET (Docs \cup Keys)]

Edge(k, c, basis) == [key |-> k, target |-> ClaimId(c), basis |-> basis]

\* A named claim is replaced by the new claim with its key, or by the only one.
ExplicitTargets(V, C, d, K, ref) ==
    LET named   == {c \in LiveElsewhere(V, C, d) : ClaimId(c) = ref}
        sameKey == {c \in named : c.key \in K}
        only    == {k \in K : K = {k}}
    IN  {{Edge(c.key, c, "explicit_claim_id")} : c \in sameKey}
        \cup {{Edge(k, c, "explicit_claim_id")} : k \in only, c \in named \ sameKey}

TopicTargetsNewest(V, C, d, topic) ==
    LET live == {c \in LiveElsewhere(V, C, d) : c.key = topic}
    IN  IF live = {} THEN {{}} ELSE {{Edge(topic, c, "topic_key")} : c \in live}

TopicTargets(V, C, d, topic) ==
    LET live == {c \in LiveElsewhere(V, C, d) : c.key = topic}
    IN  IF live = {} THEN {{}}
        ELSE {{Edge(topic, c, "topic_key")} : c \in {x \in live : live = {x}}}

\* The claims one declared reference names; a path that names no document and
\* a key that names no live claim are warnings, not refusals.
RefTargets(V, C, d, ref) ==
    {c \in LiveElsewhere(V, C, d) : c.doc = ref \/ c.key = ref}

\* Pairing new keys with declared targets.  A shared key pairs first; the rest
\* pair by the subject of their text, which is abstracted to any one-to-one
\* choice, and the write is refused when both sides have something left over.
Pairings(K, T) ==
    {P \in SUBSET {Edge(k, c, "explicit_claim_id") : k \in K, c \in T} :
        /\ \A e, f \in P : e.key = f.key \/ e.target = f.target => e = f
        /\ \A c \in T : c.key \in K => \E e \in P : e.key = c.key /\ e.target.key = c.key
        /\ \/ \A k \in K : \E e \in P : e.key = k
           \/ \A c \in T : \E e \in P : e.target = ClaimId(c)}

DeclaredTargets(V, C, d, K, refs) ==
    IF \E r \in refs \cap Keys : Cardinality(RefTargets(V, C, d, r)) > 1
    THEN {}
    ELSE Pairings(K, UNION {RefTargets(V, C, d, r) : r \in refs})

CrossTargets(V, C, d, K, rq) ==
    LET asked == IF rq.claim # None THEN ExplicitTargets(V, C, d, K, rq.claim)
                 ELSE IF rq.topic # None THEN TopicTargets(V, C, d, rq.topic)
                 ELSE {{}}
    IN  IF rq.topic # None /\ rq.topic \notin K THEN {}
        ELSE IF asked = {{}} THEN DeclaredTargets(V, C, d, K, rq.refs)
        ELSE asked

-----------------------------------------------------------------------------
(* The rows a write adds *)

\* The predecessor row of a write to d as a set, empty for a first version.
Predecessor(V, d) == {v \in V : v.doc = d /\ IsLatest(V, v)}

NewEvent(prev) ==
    IF prev = {} THEN "NEW"
    ELSE IF \E p \in prev : p.event = "DELETED" THEN "RESTORED" ELSE "MODIFIED"

NewVersionFromZero(prev, d, event, content, observed) ==
    [doc |-> d, event |-> event, content |-> content, observed |-> observed,
     num |-> IF prev = {} THEN 0 ELSE (CHOOSE p \in prev : TRUE).num + 1]

NewVersion(prev, d, event, content, observed) ==
    [doc |-> d, event |-> event, content |-> content, observed |-> observed,
     num |-> IF prev = {} THEN 1 ELSE (CHOOSE p \in prev : TRUE).num + 1]

\* The predecessor's claims, each under the basis that would retire it.
SameDocumentEdges(C, prev, K) ==
    LET old == UNION {ClaimsOf(C, p) : p \in prev}
        single == /\ \E k \in K, c \in old : K = {k} /\ old = {c}
                  /\ K \cup {c.key : c \in old} \subseteq TextKeys
    IN  IF single THEN {Edge(k, c, "single_claim_replacement") : k \in K, c \in old}
        ELSE {Edge(c.key, c, "same_document_key") : c \in {x \in old : x.key \in K}}

\* One claim row per authored key; a cross-document edge outranks the document's own.
NewClaims(C, prev, v, cross) ==
    LET K    == Authored(v.content)
        own  == {e \in SameDocumentEdges(C, prev, K) : \A f \in cross : f.key # e.key}
        row(k, t, b) == [doc |-> v.doc, num |-> v.num, key |-> k,
                         value |-> Asserts[v.content][k], target |-> t, basis |-> b]
    IN  {row(e.key, e.target, e.basis) : e \in cross \cup own}
        \cup {row(k, None, None) : k \in K \ {e.key : e \in cross \cup own}}

-----------------------------------------------------------------------------
(* What the database triggers admit.  V and C include the new rows. *)

\* The trigger with <= where the table has <: a stalled clock slips through.
AdmitsVersionTied(prev, v) == \A p \in prev : p.observed <= v.observed

AdmitsVersion(prev, v) == \A p \in prev : p.observed < v.observed

\* The trigger without its observation-order clause.
AdmitsAnyOrder(V, C, prev, v, c) ==
    c.target # None => \E o \in C : ClaimId(o) = c.target /\ VersionId(v) # [doc |-> o.doc, num |-> o.num]

AdmitsClaim(V, C, prev, v, c) ==
    \/ c.target = None
    \/ /\ c.basis \in CrossBases
       /\ \E u \in V : \E o \in ClaimsOf(C, u) :
            /\ ClaimId(o) = c.target
            /\ VersionId(u) # VersionId(v)
            /\ u.observed < v.observed
            /\ c.basis = "topic_key" => o.key = c.key
    \/ /\ c.basis \notin CrossBases
       /\ \E p \in prev : \E o \in ClaimsOf(C, p) :
            /\ ClaimId(o) = c.target
            /\ c.basis = "same_document_key" => o.key = c.key

-----------------------------------------------------------------------------
(* A whole write, as a function of the tables it is applied to *)

Unchanged(V, d, content) ==
    \E p \in Predecessor(V, d) : p.event # "DELETED" /\ p.content = content

\* record_version at clock reading t: the version and claim rows it may insert,
\* none when the request is refused or a trigger rejects a row.
Writes(V, C, d, content, rq, t) ==
    LET prev == Predecessor(V, d)
        v    == NewVersion(prev, d, NewEvent(prev), content, t)
        rows == {NewClaims(C, prev, v, cross) :
                    cross \in CrossTargets(V, C, d, Authored(content), rq)}
    IN  {[version |-> v, claims |-> new] : new \in
            {R \in rows : /\ AdmitsVersion(prev, v)
                          /\ \A c \in R : AdmitsClaim(V \cup {v}, C \cup R, prev, v, c)}}

\* record_deletion at clock reading t: a tombstone, unless the path is unknown
\* or already deleted, or the trigger rejects the row.
Tombstones(V, d, t) ==
    LET prev == Predecessor(V, d)
    IN  {v \in {NewVersion(prev, d, "DELETED", None, t)} :
            /\ prev # {} /\ \A p \in prev : p.event # "DELETED"
            /\ AdmitsVersion(prev, v)}

-----------------------------------------------------------------------------
(* What a reader is shown *)

Loaded(V, t) == {v \in V : v.observed <= t}
Members(V, t) == {VersionId(v) : v \in Loaded(V, t)}
LoadedClaims(V, C) == UNION {ClaimsOf(C, v) : v \in V}

\* Unlike a write, a reader also leaves out claims that are not valid at time t.
Active(V, C, t) == {c \in Live(V, C) : t \in ValidAt[c.value]}

Conflicting(A) ==
    {c \in A : \E d \in A : c.key = d.key /\ c.doc # d.doc /\ c.value # d.value}

Status(V, C, c, t) ==
    IF ClaimId(c) \in Retired(C) THEN "SUPERSEDED"
    ELSE IF c \notin Active(V, C, t) THEN "UNCERTAIN"
    ELSE IF c \in Conflicting(Active(V, C, t)) THEN "CONFLICTING" ELSE "CURRENT"

\* Every claim of the loaded versions with its status at moment t.
Answer(V, C, t) ==
    {[claim |-> c, status |-> Status(V, LoadedClaims(V, C), c, t)] : c \in LoadedClaims(V, C)}

AnswerAsOf(V, C, t) == Answer(Loaded(V, t), C, t)

ReplayByCutoff(V, C, n) == AnswerAsOf(V, C, n.asof)

Replay(V, C, n) ==
    Answer({v \in Loaded(V, n.asof) : VersionId(v) \in n.members}, C, n.asof)

=============================================================================
