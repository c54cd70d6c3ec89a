--------------------------- MODULE ArchiveReaders ---------------------------
(***************************************************************************)
(* Readers that put an answer together from several statements while the   *)
(* archive is written: the change feed, one page per request, and          *)
(* revalidation, which reads the claims, then the latest versions, then    *)
(* reads everything again for its drift report.                            *)
(*                                                                         *)
(* No reader takes the corpus's lock, so any commit may fall between two   *)
(* statements.  A writer stamps its rows when it inserts them and commits  *)
(* them later, under the lock (MemoryArchive has the lock's own steps).    *)
(***************************************************************************)
EXTENDS ArchiveTables

CONSTANTS
    Requests,      \* the supersession requests a write may carry
    Rank,          \* Rank[d]: how the version ids of d's hash sort
    PageSize,      \* page_size of the feed
    MaxClock,      \* bound: no clock reading above this
    MaxErasures,   \* bound: erasures of the corpus
    MaxVersions,   \* bound: versions in the archive, and
    MaxSetbacks    \* bound: times the database clock is set back, where the feed
                   \*   is read (TRUE) and where a claim is revalidated (FALSE)

ASSUME ReadersAssumption ==
    /\ Requests \subseteq Request
    /\ Rank \in [Docs -> Nat] /\ \A d, e \in Docs : Rank[d] = Rank[e] => d = e
    /\ PageSize \in Nat \ {0}
    /\ MaxClock \in Nat /\ MaxErasures \in Nat
    /\ MaxVersions \in [BOOLEAN -> Nat] /\ MaxSetbacks \in [BOOLEAN -> Nat]

VARIABLES
    versions,      \* committed memory_versions
    claims,        \* committed memory_claims
    pending,       \* the rows of each transaction that has inserted some
    registered,    \* does the corpora row exist?
    erasures,      \* erasures so far
    clock,         \* the last reading of the database clock
    setbacks,      \* times it was set back so far
    high,          \* auxiliary: the highest stamp committed so far
    stragglers,    \* auxiliary: versions the clock did not stamp above that
    feed,          \* the traversal of the feed
    check          \* the revalidation of one claim

tables  == <<versions, claims, registered>>
readers == <<feed, check>>
vars    == <<versions, claims, pending, registered, erasures, clock, setbacks, high, stragglers, feed, check>>

Txn == [versions : SUBSET Version, claims : SUBSET Claim]

\* A row of _fetch_claims: a claim joined with its version.
Row == [claim : Claim, version : Version]

Asleep == [step |-> "asleep", ref |-> None, since |-> 0, rows |-> {}, latest |-> {}, status |-> "none",
           new |-> {}, superseded |-> {}, retired |-> {},
           live |-> FALSE, lost |-> {}, erasures |-> 0]

TypeOK ==
    /\ versions \in SUBSET Version
    /\ claims \in SUBSET Claim
    /\ pending \in SUBSET Txn
    /\ registered \in BOOLEAN
    /\ erasures \in Nat
    /\ clock \in Nat
    /\ setbacks \in Nat
    /\ high \in Int
    /\ stragglers \in SUBSET Version
    /\ feed \in [reading : BOOLEAN, cursor : {None} \cup Version, delivered : SUBSET Version]
    /\ check \in [step : {"asleep", "started", "claims", "checked", "claims again", "versions again", "done"},
                  ref : ClaimRef \cup {None}, since : Int, rows : SUBSET Row,
                  latest : SUBSET Version,
                  status : {"none", "missing", "superseded", "retired", "current"},
                  new : SUBSET ClaimRef, superseded : SUBSET ClaimRef, retired : SUBSET ClaimRef,
                  live : BOOLEAN, lost : SUBSET ClaimRef, erasures : Nat]

\* One reader at a time: nothing one does changes what another sees.
Init ==
    /\ versions = {}
    /\ claims = {}
    /\ pending = {}
    /\ registered = TRUE
    /\ erasures = 0
    /\ clock = 0
    /\ setbacks = 0
    /\ high = -1
    /\ stragglers = {}
    /\ feed \in [reading : BOOLEAN, cursor : {None}, delivered : {{}}]
    /\ check = Asleep

-----------------------------------------------------------------------------
(* Writers *)

SetBack ==
    /\ clock > 0 /\ setbacks < MaxSetbacks[feed.reading]
    /\ clock' \in 0..(clock - 1)
    /\ setbacks' = setbacks + 1
    /\ UNCHANGED <<tables, pending, erasures, high, stragglers, readers>>

\* What a running revalidation's claim was at some moment of the call.
Watched == [check EXCEPT !.live = @ \/ \E c \in Live(versions', claims') : ClaimId(c) = check.ref]

Stamped == versions \cup UNION {x.versions : x \in pending}

\* Faulty: a transaction inserts without waiting for the corpus's lock.
InsertUnlocked(d, content, rq) ==
    /\ registered
    /\ ~Unchanged(versions, d, content)
    /\ Cardinality(Stamped) < MaxVersions[feed.reading]
    /\ \E t \in {clock + 1} \cap (0..MaxClock) :
         /\ \E w \in Writes(versions, claims, d, content, rq, t) :
              /\ pending' = pending \cup {[versions |-> {w.version}, claims |-> w.claims]}
              /\ stragglers' = stragglers \cup (IF feed.reading /\ t <= high THEN {w.version} ELSE {})
         /\ clock' = t
    /\ UNCHANGED <<tables, erasures, setbacks, high, readers>>

\* record_version under the lock, which nobody else holds then.
Insert(d, content, rq) ==
    /\ registered /\ pending = {}
    /\ ~Unchanged(versions, d, content)
    /\ Cardinality(Stamped) < MaxVersions[feed.reading]
    /\ \E t \in {clock + 1} \cap (0..MaxClock) :
         /\ \E w \in Writes(versions, claims, d, content, rq, t) :
              /\ pending' = {[versions |-> {w.version}, claims |-> w.claims]}
              /\ stragglers' = stragglers \cup (IF feed.reading /\ t <= high THEN {w.version} ELSE {})
         /\ clock' = t
    /\ UNCHANGED <<tables, erasures, setbacks, high, readers>>

\* record_deletion, alone in its transaction.
InsertDeletion(d) ==
    /\ registered /\ pending = {}
    /\ Cardinality(Stamped) < MaxVersions[feed.reading]
    /\ \E t \in {clock + 1} \cap (0..MaxClock) :
         /\ \E v \in Tombstones(versions, d, t) :
              /\ pending' = {[versions |-> {v}, claims |-> {}]}
              /\ stragglers' = stragglers \cup (IF feed.reading /\ t <= high THEN {v} ELSE {})
         /\ clock' = t
    /\ UNCHANGED <<tables, erasures, setbacks, high, readers>>

Commit == \E x \in pending :
    /\ versions' = versions \cup x.versions
    /\ claims' = claims \cup x.claims
    /\ pending' = pending \ {x}
    /\ check' = Watched
    /\ high' = CHOOSE t \in {high} \cup {v.observed : v \in x.versions} :
                 \A v \in x.versions : t >= high /\ t >= v.observed
    /\ UNCHANGED <<registered, erasures, clock, setbacks, stragglers, feed>>

Rollback == \E x \in pending :
    /\ pending' = pending \ {x}
    /\ UNCHANGED <<tables, erasures, clock, setbacks, high, stragglers, readers>>

\* mindpalace_erase_corpus, under the lock.
Erase ==
    /\ registered /\ pending = {} /\ erasures < MaxErasures
    /\ versions' = {} /\ claims' = {} /\ registered' = FALSE
    /\ erasures' = erasures + 1
    /\ stragglers' = {}
    /\ UNCHANGED <<pending, clock, setbacks, high, readers>>

CreateCorpus ==
    /\ ~registered
    /\ registered' = TRUE
    /\ UNCHANGED <<versions, claims, pending, erasures, clock, setbacks, high, stragglers, readers>>

-----------------------------------------------------------------------------
(* The change feed *)

\* ORDER BY observed_at, id
After(v, u) ==
    \/ v.observed > u.observed
    \/ v.observed = u.observed /\ Rank[v.doc] > Rank[u.doc]

AfterCursor(cursor) == {v \in versions : cursor = None \/ After(v, cursor)}

\* The first n rows of a set of versions.
FirstRows(V, n) == {v \in V : Cardinality({u \in V : After(v, u)}) < n}

LastRow(V) == CHOOSE v \in V : \A u \in V \ {v} : After(v, u)

\* One row more than the page says whether there is a next cursor; without one
\* the traversal is over and the consumer starts another.
Page ==
    LET rows == FirstRows(AfterCursor(feed.cursor), PageSize + 1)
        page == FirstRows(rows, PageSize)
    IN  feed' = IF rows # page
                THEN [feed EXCEPT !.cursor = LastRow(page), !.delivered = @ \cup page]
                ELSE [feed EXCEPT !.cursor = None, !.delivered = {}]

Feed ==
    /\ feed.reading /\ registered
    /\ Page
    /\ UNCHANGED <<tables, pending, erasures, clock, setbacks, high, stragglers, check>>

-----------------------------------------------------------------------------
(* Revalidation *)

Rows == {r \in {[claim |-> c, version |-> v] : c \in claims, v \in versions} :
            VersionId(r.version) = [doc |-> r.claim.doc, num |-> r.claim.num]}

\* Faulty: the version kept for a document is its first.
OldestVersions(V) == {v \in V : \A u \in V : u.doc = v.doc => v.num <= u.num}

\* The latest version of each document.
LatestVersions(V) == {v \in V : IsLatest(V, v)}

\* When the second statement finds no version at all, the versions joined to the
\* claims of the first take its place.
Newest(rows, latest) == IF latest = {} THEN LatestVersions({r.version : r \in rows}) ELSE latest

Superseded(rows) == {r.claim.target : r \in rows} \ {None}

\* Faulty: what nothing supersedes is active.
ActiveUnlessSuperseded(rows, latest, r) == ClaimId(r.claim) \notin Superseded(rows)

ActiveRow(rows, latest, r) ==
    /\ ClaimId(r.claim) \notin Superseded(rows)
    /\ \E v \in Newest(rows, latest) : VersionId(v) = VersionId(r.version) /\ v.event # "DELETED"

Classify(rows, latest, ref) ==
    LET named == {r \in rows : ClaimId(r.claim) = ref}
    IN  IF named = {} THEN "missing"
        ELSE IF ref \in Superseded(rows) THEN "superseded"
        ELSE IF \E r \in named : ActiveRow(rows, latest, r) THEN "current"
        ELSE "retired"

\* Faulty: whole rows where ids belong.
NewRowsSince(rows, since) == {x \in rows : x.version.observed > since}

\* compute_drift: claims recorded since, unless the same was recorded before.
NewSince(rows, since) ==
    {ClaimId(r.claim) : r \in {x \in rows :
        /\ x.version.observed > since
        /\ \A y \in rows \ {x} : y.version.observed <= since =>
             y.claim.key # x.claim.key \/ y.claim.value # x.claim.value}}

\* Faulty: dated by the superseded claim instead of its successor.
SupersededBefore(rows, since) ==
    {ClaimId(o.claim) : o \in {x \in rows : x.version.observed > since /\ ClaimId(x.claim) \in Superseded(rows)}}

SupersededSince(rows, since) ==
    {r.claim.target : r \in {x \in rows : x.version.observed > since}} \ {None}

\* Claims that nothing supersedes and that are no longer active, if their document
\* was deleted since; of a document deleted twice, at says which tombstone counts.
RetiredSince(rows, latest, since, at) ==
    {ClaimId(r.claim) : r \in {x \in rows :
        /\ ClaimId(x.claim) \notin Superseded(rows)
        /\ ~ActiveRow(rows, latest, x)
        /\ x.claim.doc \in DOMAIN at /\ at[x.claim.doc] > since}}

\* The claims live at a moment, as far as the tables now tell.
LiveAt(t) == {ClaimId(c) : c \in Live(Loaded(versions, t), LoadedClaims(Loaded(versions, t), claims))}

\* An artifact names a claim and the moment it was valid at.
Revalidate == \E c \in claims, since \in 0..clock :
    /\ check.step = "asleep" /\ ~feed.reading /\ registered
    /\ check' = [Asleep EXCEPT !.step = "started", !.ref = ClaimId(c), !.since = since,
                               !.live = c \in Live(versions, claims), !.erasures = erasures]
    /\ UNCHANGED <<tables, pending, erasures, clock, setbacks, high, stragglers, feed>>

ReadClaims ==
    /\ check.step = "started"
    /\ check' = [check EXCEPT !.step = "claims", !.rows = Rows]
    /\ UNCHANGED <<tables, pending, erasures, clock, setbacks, high, stragglers, feed>>

ReadVersions ==
    /\ check.step = "claims"
    /\ check' = [check EXCEPT !.step = "checked", !.rows = {},
                   !.status = Classify(check.rows, LatestVersions(versions), check.ref)]
    /\ UNCHANGED <<tables, pending, erasures, clock, setbacks, high, stragglers, feed>>

ReadClaimsAgain ==
    /\ check.step = "checked"
    /\ check' = [check EXCEPT !.step = "claims again", !.rows = Rows,
                   !.lost = LiveAt(check.since) \ {ClaimId(c) : c \in Live(versions, claims)}]
    /\ UNCHANGED <<tables, pending, erasures, clock, setbacks, high, stragglers, feed>>

ReadVersionsAgain ==
    /\ check.step = "claims again"
    /\ check' = [check EXCEPT !.step = "versions again", !.latest = LatestVersions(versions)]
    /\ UNCHANGED <<tables, pending, erasures, clock, setbacks, high, stragglers, feed>>

\* The dictionary keeps one tombstone's time per document, the rows' order decides.
DeletionTimes ==
    LET dead == {v \in versions : v.event = "DELETED"}
    IN  {at \in [{v.doc : v \in dead} -> {v.observed : v \in dead}] :
            \A d \in DOMAIN at : \E v \in dead : v.doc = d /\ v.observed = at[d]}

ReadDeletions == \E at \in DeletionTimes :
    /\ check.step = "versions again"
    /\ check' = [check EXCEPT !.step = "done", !.rows = {}, !.latest = {},
                   !.new = NewSince(check.rows, check.since),
                   !.superseded = SupersededSince(check.rows, check.since),
                   !.retired = RetiredSince(check.rows, check.latest, check.since, at)]
    /\ UNCHANGED <<tables, pending, erasures, clock, setbacks, high, stragglers, feed>>

\* With or without a drift report.
Report ==
    /\ check.step \in {"checked", "done"}
    /\ check' = Asleep
    /\ UNCHANGED <<tables, pending, erasures, clock, setbacks, high, stragglers, feed>>

Next ==
    \/ \E d \in Docs :
         \/ \E content \in Contents, rq \in Requests : Insert(d, content, rq)
         \/ InsertDeletion(d)
    \/ SetBack \/ Commit \/ Rollback \/ Erase \/ CreateCorpus
    \/ Feed
    \/ Revalidate \/ ReadClaims \/ ReadVersions
    \/ ReadClaimsAgain \/ ReadVersionsAgain \/ ReadDeletions \/ Report

Spec == Init /\ [][Next]_vars

-----------------------------------------------------------------------------

\* A traversal of the feed that has passed a version has delivered it, however
\* many were committed between its pages, except those that the clock, standing
\* still or set back, stamped among the ones before them: the lock makes versions
\* appear in the order of their stamps.
FeedMissesOnlyStragglers ==
    feed.cursor # None => \A v \in versions \ (feed.delivered \cup stragglers) : After(v, feed.cursor)

\* A claim reported current was live at some moment of the call, though claims
\* and versions come from two statements -- unless the corpus was erased between
\* them, which leaves the versions to be guessed from the claims.
CurrentWasLive ==
    check.status = "current" /\ check.erasures = erasures => check.live

\* A claim of the archive reported superseded, retired or missing is not live
\* any more, and will not be.
StaleIsNotLive ==
    check.status \in {"superseded", "retired", "missing"} /\ check.erasures = erasures
      => \A c \in Live(versions, claims) : ClaimId(c) # check.ref

\* A claim that was live at the moment the drift report starts from and is not
\* any more is in the report, unless an edit of its document dropped it without
\* a successor, or its document has more than one tombstone.
DriftMissesOnlyDrops ==
    check.step = "done" /\ check.erasures = erasures =>
      \A ref \in check.lost \ (check.superseded \cup check.retired) :
        \/ \E v \in versions : v.doc = ref.doc /\ v.num = ref.num + 1 /\ v.event = "MODIFIED"
        \/ \E u, v \in versions : u # v /\ u.doc = ref.doc /\ v.doc = ref.doc
                                   /\ u.event = "DELETED" /\ v.event = "DELETED"

=============================================================================
