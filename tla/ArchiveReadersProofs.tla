------------------------ MODULE ArchiveReadersProofs ------------------------
(***************************************************************************)
(* That the readers of ArchiveReaders tell the truth, for any documents,   *)
(* contents, requests, page size and clock.  Four invariants are carried   *)
(* together: the archive is well kept, with the rows of the one writer as  *)
(* much as without; the cursor of the feed, and the three statements of a  *)
(* revalidation, stand in a known relation to tables that only grow.       *)
(***************************************************************************)
EXTENDS ArchiveReaders, ArchiveTablesProofs

USE DEF Events, Bases, CrossBases

-----------------------------------------------------------------------------
(* Pages of the feed *)

\* The feed's order is total on the versions of a well-kept archive.
LEMMA AfterIsStrict ==
    ASSUME NEW a \in Version, NEW b \in Version, NEW c \in Version
    PROVE  /\ ~After(a, a)
           /\ After(a, b) /\ After(b, c) => After(a, c)
<1>1. /\ a.observed \in Int /\ b.observed \in Int /\ c.observed \in Int
      /\ Rank[a.doc] \in Nat /\ Rank[b.doc] \in Nat /\ Rank[c.doc] \in Nat
  BY ReadersAssumption DEF Version
<1> QED
  BY <1>1 DEF After

LEMMA AfterIsTotal ==
    ASSUME NEW V, NEW C, WellKept(V, C), NEW a \in V, NEW b \in V, a # b
    PROVE  After(a, b) \/ After(b, a)
<1>1. a \in Version /\ b \in Version
  BY DEF WellKept
<1>2. /\ a.observed \in Int /\ b.observed \in Int /\ a.num \in Nat /\ b.num \in Nat
      /\ a.doc \in Docs /\ b.doc \in Docs
      /\ Rank[a.doc] \in Nat /\ Rank[b.doc] \in Nat
  BY <1>1, ReadersAssumption DEF Version
<1>3. CASE a.doc = b.doc
  <2>1. a.num # b.num
    BY <1>3, VersionsAreUnique
  <2>2. a.observed < b.observed \/ b.observed < a.observed
    BY <1>2, <1>3, <2>1 DEF WellKept, Ordered
  <2> QED
    BY <1>2, <2>2 DEF After
<1>4. CASE a.doc # b.doc
  <2>1. Rank[a.doc] # Rank[b.doc]
    BY <1>2, <1>4, ReadersAssumption
  <2> QED
    BY <1>2, <2>1 DEF After
<1> QED
  BY <1>3, <1>4

LEMMA LastRowExists ==
    ASSUME NEW V, NEW C, WellKept(V, C), NEW S \in SUBSET V, S # {}
    PROVE  /\ LastRow(S) \in S
           /\ \A u \in S \ {LastRow(S)} : After(LastRow(S), u)
<1> DEFINE R == {p \in S \X S : After(p[1], p[2])}
           later == {p \in S \X S : After(p[2], p[1])}
<1>1. S \subseteq Version /\ IsFiniteSet(S)
  BY FS_Subset DEF WellKept
<1>2. \A a, b \in S : <<a, b>> \in R <=> After(a, b)
  OBVIOUS
<1> HIDE DEF R
<1>3. \A a \in S : <<a, a>> \notin R
  BY <1>1, <1>2, AfterIsStrict
<1>4. \A a, b, c \in S : <<a, b>> \in R /\ <<b, c>> \in R => <<a, c>> \in R
  BY <1>1, <1>2, AfterIsStrict
<1>5. PICK m \in S : \A u \in S : <<u, m>> \notin R
  BY <1>1, <1>3, <1>4, MinimalElement
<1>6. \A u \in S \ {m} : After(m, u)
  BY <1>2, <1>5, AfterIsTotal
<1> QED
  BY <1>6 DEF LastRow
LEMMA FirstRowExists ==
    ASSUME NEW V, NEW C, WellKept(V, C), NEW S \in SUBSET V, S # {}
    PROVE  \E m \in S : \A u \in S : ~After(m, u)
<1> DEFINE R == {p \in S \X S : After(p[2], p[1])}
<1>1. S \subseteq Version /\ IsFiniteSet(S)
  BY FS_Subset DEF WellKept
<1>2. \A a, b \in S : <<a, b>> \in R <=> After(b, a)
  OBVIOUS
<1> HIDE DEF R
<1>3. \A a \in S : <<a, a>> \notin R
  BY <1>1, <1>2, AfterIsStrict
<1>4. \A a, b, c \in S : <<a, b>> \in R /\ <<b, c>> \in R => <<a, c>> \in R
  BY <1>1, <1>2, AfterIsStrict
<1>5. PICK m \in S : \A u \in S : <<u, m>> \notin R
  BY <1>1, <1>3, <1>4, MinimalElement
<1> QED
  BY <1>2, <1>5

\* What a LIMIT leaves out comes after everything it keeps.
LEMMA FirstRowsPrecede ==
    ASSUME NEW V, NEW C, WellKept(V, C), NEW A \in SUBSET V, NEW n \in Nat,
           NEW l \in FirstRows(A, n), NEW v \in A \ FirstRows(A, n)
    PROVE  After(v, l)
<1> DEFINE before(x) == {u \in A : After(x, u)}
<1>1. A \subseteq Version /\ IsFiniteSet(A)
  BY FS_Subset DEF WellKept
<1>2. l \in A /\ Cardinality(before(l)) < n /\ ~(Cardinality(before(v)) < n)
  BY DEF FirstRows
<1>3. \A x : before(x) \in SUBSET A
  OBVIOUS
<1>4. SUFFICES ASSUME After(l, v) PROVE FALSE
  BY <1>2, AfterIsTotal
<1>5. before(v) \subseteq before(l)
  BY <1>1, <1>2, <1>4, AfterIsStrict
<1> HIDE DEF before
<1>6. IsFiniteSet(before(l)) /\ IsFiniteSet(before(v))
  BY <1>1, <1>3, FS_Subset
<1>7. Cardinality(before(v)) \in Nat /\ Cardinality(before(l)) \in Nat
  BY <1>6, FS_CardinalityType
<1>8. Cardinality(before(v)) <= Cardinality(before(l))
  BY <1>5, <1>6, FS_Subset
<1> QED
  BY <1>2, <1>7, <1>8

\* The page served from the rows A still ahead of the traversal, when it is not
\* the last one.
LEMMA PageIsFirst ==
    ASSUME NEW V, NEW C, WellKept(V, C), NEW A \in SUBSET V, NEW n \in Nat \ {0},
           FirstRows(A, n + 1) # FirstRows(FirstRows(A, n + 1), n)
    PROVE  LET page == FirstRows(FirstRows(A, n + 1), n)
           IN  /\ page \subseteq A
               /\ LastRow(page) \in page
               /\ \A v \in A \ page : After(v, LastRow(page))
<1> DEFINE rows == FirstRows(A, n + 1)
           page == FirstRows(rows, n)
<1>1. rows \in SUBSET A /\ page \in SUBSET rows
  BY DEF FirstRows
<1>2. page # {}
  <2>1. rows # {} /\ rows \in SUBSET V
    BY <1>1
  <2> HIDE DEF rows
  <2>2. PICK m \in rows : \A u \in rows : ~After(m, u)
    BY <2>1, FirstRowExists
  <2>3. {u \in rows : After(m, u)} = {}
    BY <2>2
  <2>4. Cardinality({u \in rows : After(m, u)}) = 0
    BY <2>3, FS_EmptySet
  <2>5. m \in page
    BY <2>4 DEF FirstRows
  <2> QED
    BY <2>5
<1> HIDE DEF rows, page
<1>3. LastRow(page) \in page
  BY <1>1, <1>2, LastRowExists
<1>4. ASSUME NEW v \in A \ page PROVE After(v, LastRow(page))
  <2>1. LastRow(page) \in rows
    BY <1>1, <1>3
  <2>2. CASE v \in rows
    <3>1. rows \in SUBSET V
      BY <1>1
    <3> QED
      BY <1>3, <1>4, <2>2, <3>1, FirstRowsPrecede DEF page
  <2>3. CASE v \notin rows
    <3>1. n + 1 \in Nat
      OBVIOUS
    <3> QED
      BY <1>4, <2>1, <2>3, <3>1, FirstRowsPrecede DEF rows
  <2> QED
    BY <2>2, <2>3
<1> QED
  BY <1>1, <1>3, <1>4 DEF rows, page

-----------------------------------------------------------------------------
(* The inductive invariant *)

\* At most one writer has rows, it has one version row, and the archive is well
\* kept with its rows as without them.
ArchiveIsKept ==
    /\ WellKept(versions, claims)
    /\ \A x, y \in pending : x = y
    /\ \A x \in pending :
         /\ \E v \in x.versions : x.versions = {v}
         /\ WellKept(versions \cup x.versions, claims \cup x.claims)
    /\ \A v \in versions : v.observed <= high

\* The traversal stands on a committed stamp, and the writer's row will appear
\* behind it or is a straggler.
FeedInv ==
    /\ ~feed.reading => feed.cursor = None
    /\ feed.cursor # None => feed.cursor.observed <= high
    /\ feed.reading => \A x \in pending : \A v \in x.versions :
         v.observed > high \/ v \in stragglers
    /\ FeedMissesOnlyStragglers

\* A revalidation runs and no erasure came between its statements.
Watching == check.step # "asleep" /\ check.erasures = erasures

LiveIsSeen ==
    Watching /\ (\E c \in Live(versions, claims) : ClaimId(c) = check.ref) => check.live

\* What the rows of the first statement tell of the claim, while tables only grow:
\* they hold it, and if they retire nothing and its version is still the latest it
\* was live when they were read.
RowsAreReal ==
    /\ Watching /\ check.step = "started" => \E c \in claims : ClaimId(c) = check.ref
    /\ Watching /\ check.step = "claims" =>
         /\ check.rows \subseteq Rows
         /\ \E r \in check.rows : ClaimId(r.claim) = check.ref
         /\ \A r \in check.rows :
              /\ ClaimId(r.claim) = check.ref /\ check.ref \notin Superseded(check.rows)
              /\ IsLatest(versions, r.version) /\ r.version.event # "DELETED"
              => check.live

\* What no later write can undo.
Dead(ref) ==
    \/ ref \in Retired(claims)
    \/ \E v \in versions : /\ v.doc = ref.doc
                           /\ \/ v.num > ref.num
                              \/ v.num = ref.num /\ v.event = "DELETED"

StatusIsRight ==
    /\ Watching /\ check.status = "current" => check.live
    /\ Watching /\ check.status \in {"superseded", "retired", "missing"} => Dead(check.ref)

\* Why a claim that was live at the start of the report is not live any more:
\* a row read retires it, an edit dropped it, or its document was deleted.
RetiredByRow(ref) ==
    \E r \in check.rows : r.version.observed > check.since /\ r.claim.target = ref

DroppedByEdit(ref) ==
    \E v \in versions : v.doc = ref.doc /\ v.num = ref.num + 1 /\ v.event = "MODIFIED"

Deleted(ref) ==
    /\ ref \notin Superseded(check.rows)
    /\ \E r \in check.rows :
         /\ ClaimId(r.claim) = ref
         /\ VersionId(r.version) = [doc |-> ref.doc, num |-> ref.num]
    /\ \E v \in versions : /\ v.doc = ref.doc /\ v.num > ref.num
                           /\ v.event = "DELETED" /\ v.observed > check.since
    /\ check.step = "versions again" =>
         \A v \in Newest(check.rows, check.latest) : VersionId(v) # [doc |-> ref.doc, num |-> ref.num]

LossIsExplained ==
    Watching /\ check.step \in {"claims again", "versions again"} =>
      \A ref \in check.lost : RetiredByRow(ref) \/ DroppedByEdit(ref) \/ Deleted(ref)

CheckInv ==
    /\ check.erasures <= erasures
    /\ check.step = "asleep" => check.status = "none"
    /\ LiveIsSeen
    /\ RowsAreReal
    /\ StatusIsRight
    /\ LossIsExplained
    /\ DriftMissesOnlyDrops

ReadersInv == TypeOK /\ ArchiveIsKept /\ FeedInv /\ CheckInv
-----------------------------------------------------------------------------
(* The steps, by what they do to the archive *)

Quiet ==
    /\ pending' \subseteq pending
    /\ clock' \in Nat /\ setbacks' \in Nat /\ registered' \in BOOLEAN
    /\ UNCHANGED <<versions, claims, erasures, high, stragglers, feed, check>>

Staged(v, R) ==
    /\ v \in Version /\ R \in SUBSET Claim
    /\ WellKept(versions \cup {v}, claims \cup R)
    /\ pending' = {[versions |-> {v}, claims |-> R]}
    /\ clock' = v.observed /\ v.observed \in Nat
    /\ stragglers' = stragglers \cup (IF feed.reading /\ v.observed <= high THEN {v} ELSE {})
    /\ UNCHANGED <<versions, claims, registered, erasures, setbacks, high, feed, check>>

Committed(v, R) ==
    /\ v \in Version /\ R \in SUBSET Claim
    /\ WellKept(versions \cup {v}, claims \cup R)
    /\ [versions |-> {v}, claims |-> R] \in pending
    /\ pending' = {}
    /\ versions' = versions \cup {v}
    /\ claims' = claims \cup R
    /\ high' \in Int /\ high' >= high /\ high' >= v.observed
    /\ check' = Watched
    /\ UNCHANGED <<registered, erasures, clock, setbacks, stragglers, feed>>

LEMMA InsertStages ==
    ASSUME TypeOK, ArchiveIsKept, NEW d \in Docs, NEW content \in Contents, NEW rq \in Requests,
           Insert(d, content, rq)
    PROVE  \E v \in Version, R \in SUBSET Claim : Staged(v, R)
<1>1. PICK t \in {clock + 1} \cap (0..MaxClock) :
        /\ \E w \in Writes(versions, claims, d, content, rq, t) :
             /\ pending' = {[versions |-> {w.version}, claims |-> w.claims]}
             /\ stragglers' = stragglers \cup (IF feed.reading /\ t <= high THEN {w.version} ELSE {})
        /\ clock' = t
  BY DEF Insert
<1>2. PICK w \in Writes(versions, claims, d, content, rq, t) :
        /\ pending' = {[versions |-> {w.version}, claims |-> w.claims]}
        /\ stragglers' = stragglers \cup (IF feed.reading /\ t <= high THEN {w.version} ELSE {})
  BY <1>1
<1>3. t \in Nat /\ t \in Int
  <2>1. clock \in Nat
    BY DEF TypeOK
  <2> QED
    BY <2>1
<1>4. rq \in Request
  BY ReadersAssumption
<1>5. WellKept(versions, claims) /\ versions \in SUBSET Version /\ claims \in SUBSET Claim
  BY DEF ArchiveIsKept, TypeOK
<1>6. WellKept(versions \cup {w.version}, claims \cup w.claims)
  BY <1>3, <1>4, <1>5, WriteKeepsWellKept
<1>7. Shaped(versions, claims, d, content, t, w)
  BY <1>3, <1>4, <1>5, WriteShape
<1>8. /\ w.version \in Version /\ w.claims \in SUBSET Claim
      /\ w.version = NewVersion(Predecessor(versions, d), d, NewEvent(Predecessor(versions, d)), content, t)
  BY <1>7 DEF Shaped
<1>9. w.version.observed = t
  BY <1>8, NextNumber
<1>10. Staged(w.version, w.claims)
  BY <1>1, <1>2, <1>3, <1>6, <1>8, <1>9 DEF Staged, Insert, tables, readers
<1> QED
  BY <1>8, <1>10

LEMMA DeletionStages ==
    ASSUME TypeOK, ArchiveIsKept, NEW d \in Docs, InsertDeletion(d)
    PROVE  \E v \in Version, R \in SUBSET Claim : Staged(v, R)
<1>1. PICK t \in {clock + 1} \cap (0..MaxClock) :
        /\ \E v \in Tombstones(versions, d, t) :
             /\ pending' = {[versions |-> {v}, claims |-> {}]}
             /\ stragglers' = stragglers \cup (IF feed.reading /\ t <= high THEN {v} ELSE {})
        /\ clock' = t
  BY DEF InsertDeletion
<1>2. PICK v \in Tombstones(versions, d, t) :
        /\ pending' = {[versions |-> {v}, claims |-> {}]}
        /\ stragglers' = stragglers \cup (IF feed.reading /\ t <= high THEN {v} ELSE {})
  BY <1>1
<1>3. t \in Nat /\ t \in Int
  <2>1. clock \in Nat
    BY DEF TypeOK
  <2> QED
    BY <2>1
<1>4. WellKept(versions, claims) /\ versions \in SUBSET Version
  BY DEF ArchiveIsKept, TypeOK
<1>5. WellKept(versions \cup {v}, claims)
  BY <1>3, <1>4, TombstoneKeepsWellKept
<1>6. v \in Version /\ v = NewVersion(Predecessor(versions, d), d, "DELETED", None, t)
  BY <1>3, <1>4, TombstoneShape
<1>7. v.observed = t
  BY <1>6, NextNumber
<1>8. claims \cup {} = claims /\ {} \in SUBSET Claim
  OBVIOUS
<1>9. Staged(v, {})
  BY <1>1, <1>2, <1>3, <1>5, <1>6, <1>7, <1>8 DEF Staged, InsertDeletion, tables, readers
<1> QED
  BY <1>6, <1>8, <1>9

LEMMA CommitCommits ==
    ASSUME TypeOK, ArchiveIsKept, Commit
    PROVE  \E v \in Version, R \in SUBSET Claim : Committed(v, R)
<1>1. PICK x \in pending :
        /\ versions' = versions \cup x.versions
        /\ claims' = claims \cup x.claims
        /\ pending' = pending \ {x}
        /\ check' = Watched
        /\ high' = CHOOSE t \in {high} \cup {v.observed : v \in x.versions} :
                     \A v \in x.versions : t >= high /\ t >= v.observed
        /\ UNCHANGED <<registered, erasures, clock, setbacks, stragglers, feed>>
  BY DEF Commit
<1>2. x \in Txn /\ high \in Int
  BY DEF TypeOK
<1>3. PICK v \in x.versions : x.versions = {v}
  BY DEF ArchiveIsKept
<1>4. v \in Version /\ x.claims \in SUBSET Claim /\ v.observed \in Int
  BY <1>2 DEF Txn, Version
<1>5. x = [versions |-> {v}, claims |-> x.claims]
  BY <1>2, <1>3 DEF Txn
<1>6. pending' = {}
  BY <1>1 DEF ArchiveIsKept
<1>7. WellKept(versions \cup {v}, claims \cup x.claims)
  BY <1>3 DEF ArchiveIsKept
<1>8. high' \in Int /\ high' >= high /\ high' >= v.observed
  <2>1. \E t \in {high} \cup {u.observed : u \in x.versions} :
          \A u \in x.versions : t >= high /\ t >= u.observed
    <3>1. CASE high >= v.observed
      BY <1>2, <1>3, <3>1
    <3>2. CASE ~(high >= v.observed)
      BY <1>2, <1>3, <1>4, <3>2
    <3> QED
      BY <3>1, <3>2
  <2>2. /\ high' \in {high} \cup {u.observed : u \in x.versions}
        /\ \A u \in x.versions : high' >= high /\ high' >= u.observed
    BY <1>1, <2>1
  <2> QED
    BY <1>2, <1>3, <1>4, <2>2
<1>9. Committed(v, x.claims)
  BY <1>1, <1>3, <1>4, <1>5, <1>6, <1>7, <1>8 DEF Committed
<1> QED
  BY <1>4, <1>9

\* A step of a revalidation touches nothing else.
Checks ==
    /\ \/ Revalidate \/ ReadClaims \/ ReadVersions
       \/ ReadClaimsAgain \/ ReadVersionsAgain \/ ReadDeletions \/ Report
    /\ UNCHANGED <<versions, claims, pending, registered, erasures, clock, setbacks, high, stragglers, feed>>

LEMMA Steps ==
    ASSUME TypeOK, ArchiveIsKept, [Next]_vars
    PROVE  \/ Quiet
           \/ \E v \in Version, R \in SUBSET Claim : Staged(v, R)
           \/ \E v \in Version, R \in SUBSET Claim : Committed(v, R)
           \/ Erase \/ Feed \/ Checks
<1>1. ASSUME SetBack PROVE Quiet
  <2>1. clock' \in Nat /\ setbacks' \in Nat
    <3>1. clock \in Nat /\ setbacks \in Nat
      BY DEF TypeOK
    <3>2. clock' \in 0..(clock - 1) /\ setbacks' = setbacks + 1
      BY <1>1 DEF SetBack
    <3> QED
      BY <3>1, <3>2
  <2> QED
    BY <1>1, <2>1 DEF SetBack, Quiet, TypeOK, tables, readers
<1>2. ASSUME Rollback PROVE Quiet
  BY <1>2 DEF Rollback, Quiet, TypeOK, tables, readers
<1>3. ASSUME CreateCorpus PROVE Quiet
  BY <1>3 DEF CreateCorpus, Quiet, TypeOK, tables, readers
<1>4. ASSUME UNCHANGED vars PROVE Quiet
  BY <1>4 DEF vars, Quiet, TypeOK
<1>5. ASSUME \/ Revalidate \/ ReadClaims \/ ReadVersions
             \/ ReadClaimsAgain \/ ReadVersionsAgain \/ ReadDeletions \/ Report
      PROVE  Checks
  <2>1. UNCHANGED <<tables, pending, erasures, clock, setbacks, high, stragglers, feed>>
    BY <1>5 DEF Revalidate, ReadClaims, ReadVersions, ReadClaimsAgain, ReadVersionsAgain,
                ReadDeletions, Report
  <2> QED
    BY <1>5, <2>1 DEF Checks, tables
<1> QED
  BY <1>1, <1>2, <1>3, <1>4, <1>5, InsertStages, DeletionStages, CommitCommits DEF Next
LEMMA ArchiveStaysKept ==
    ASSUME TypeOK, ArchiveIsKept, [Next]_vars
    PROVE  ArchiveIsKept'
<1>1. ASSUME Quiet PROVE ArchiveIsKept'
  BY <1>1 DEF Quiet, ArchiveIsKept
<1>2. ASSUME NEW v \in Version, NEW R \in SUBSET Claim, Staged(v, R) PROVE ArchiveIsKept'
  <2> DEFINE x == [versions |-> {v}, claims |-> R]
  <2>1. x.versions = {v} /\ x.claims = R /\ pending' = {x}
    BY <1>2 DEF Staged
  <2> HIDE DEF x
  <2>2. versions' = versions /\ claims' = claims /\ high' = high /\ WellKept(versions \cup {v}, claims \cup R)
    BY <1>2 DEF Staged
  <2> QED
    BY <2>1, <2>2 DEF ArchiveIsKept
<1>3. ASSUME NEW v \in Version, NEW R \in SUBSET Claim, Committed(v, R) PROVE ArchiveIsKept'
  <2>1. WellKept(versions', claims') /\ pending' = {}
    BY <1>3 DEF Committed
  <2>2. ASSUME NEW u \in versions' PROVE u.observed <= high'
    <3>1. high \in Int /\ high' \in Int /\ high <= high' /\ v.observed <= high'
      BY <1>3 DEF Committed, TypeOK
    <3>2. CASE u = v
      BY <3>1, <3>2
    <3>3. CASE u \in versions
      <4>1. u.observed <= high /\ u.observed \in Int
        BY <3>3 DEF ArchiveIsKept, TypeOK, Version
      <4> QED
        BY <3>1, <4>1
    <3> QED
      BY <1>3, <3>2, <3>3 DEF Committed
  <2> QED
    BY <2>1, <2>2 DEF ArchiveIsKept
<1>4. ASSUME Erase PROVE ArchiveIsKept'
  BY <1>4, EmptyWellKept DEF Erase, ArchiveIsKept
<1>5. ASSUME Feed PROVE ArchiveIsKept'
  BY <1>5 DEF Feed, ArchiveIsKept, tables
<1>6. ASSUME Checks PROVE ArchiveIsKept'
  BY <1>6 DEF Checks, ArchiveIsKept
<1> QED
  BY <1>1, <1>2, <1>3, <1>4, <1>5, <1>6, Steps

-----------------------------------------------------------------------------
(* The feed *)

\* What a request for a page does to the traversal.
Served(page) ==
    \/ feed' = [feed EXCEPT !.cursor = None, !.delivered = {}]
    \/ /\ feed' = [feed EXCEPT !.cursor = LastRow(page), !.delivered = @ \cup page]
       /\ page \subseteq versions
       /\ LastRow(page) \in page
       /\ \A v \in AfterCursor(feed.cursor) \ page : After(v, LastRow(page))

LEMMA FeedServes ==
    ASSUME TypeOK, ArchiveIsKept, Feed
    PROVE  \E page \in SUBSET versions : Served(page)
<1> DEFINE A == AfterCursor(feed.cursor)
           rows == FirstRows(A, PageSize + 1)
           page == FirstRows(rows, PageSize)
<1>1. A \in SUBSET versions /\ WellKept(versions, claims) /\ PageSize \in Nat \ {0}
  BY ReadersAssumption DEF AfterCursor, ArchiveIsKept
<1>2. feed' = IF rows # page
              THEN [feed EXCEPT !.cursor = LastRow(page), !.delivered = @ \cup page]
              ELSE [feed EXCEPT !.cursor = None, !.delivered = {}]
  BY DEF Feed, Page
<1>3. rows # page => /\ page \subseteq A
                     /\ LastRow(page) \in page
                     /\ \A v \in A \ page : After(v, LastRow(page))
  <2> HIDE DEF A
  <2> QED
    BY <1>1, PageIsFirst
<1>4. CASE rows # page
  BY <1>1, <1>2, <1>3, <1>4 DEF Served
<1>5. CASE rows = page
  BY <1>2, <1>5 DEF Served
<1> QED
  BY <1>4, <1>5

LEMMA FeedStaysTrue ==
    ASSUME TypeOK, ArchiveIsKept, FeedInv, [Next]_vars
    PROVE  FeedInv'
<1>t. /\ feed.reading \in BOOLEAN /\ feed.delivered \in SUBSET Version
      /\ feed \in [reading : BOOLEAN, cursor : {None} \cup Version, delivered : SUBSET Version]
      /\ high \in Int
  BY DEF TypeOK
<1>c. feed.cursor # None => feed.cursor \in Version /\ feed.cursor.observed \in Int
  BY <1>t DEF Version
<1>1. ASSUME Quiet PROVE FeedInv'
  BY <1>1 DEF Quiet, FeedInv, FeedMissesOnlyStragglers, After
<1>2. ASSUME NEW v \in Version, NEW R \in SUBSET Claim, Staged(v, R) PROVE FeedInv'
  <2>1. /\ pending' = {[versions |-> {v}, claims |-> R]}
        /\ stragglers' = stragglers \cup (IF feed.reading /\ v.observed <= high THEN {v} ELSE {})
        /\ versions' = versions /\ high' = high /\ feed' = feed
        /\ v.observed \in Nat
    BY <1>2 DEF Staged
  <2>2. FeedMissesOnlyStragglers'
    BY <2>1 DEF FeedInv, FeedMissesOnlyStragglers, After
  <2>3. feed.reading => v.observed > high \/ v \in stragglers'
    BY <1>t, <2>1
  <2> QED
    BY <2>1, <2>2, <2>3 DEF FeedInv
<1>3. ASSUME NEW v \in Version, NEW R \in SUBSET Claim, Committed(v, R) PROVE FeedInv'
  <2>1. /\ [versions |-> {v}, claims |-> R] \in pending
        /\ pending' = {} /\ versions' = versions \cup {v}
        /\ high' \in Int /\ high' >= high
        /\ stragglers' = stragglers /\ feed' = feed
    BY <1>3 DEF Committed
  <2>2. feed.cursor # None => feed.cursor.observed <= high'
    BY <1>t, <1>c, <2>1 DEF FeedInv
  <2>3. ASSUME feed.cursor # None, v \notin stragglers PROVE After(v, feed.cursor)
    <3>1. feed.reading
      BY <2>3 DEF FeedInv
    <3>2. v.observed > high
      BY <2>1, <2>3, <3>1 DEF FeedInv
    <3>3. feed.cursor.observed <= high /\ feed.cursor.observed \in Int /\ v.observed \in Int
      BY <1>c, <2>3 DEF FeedInv, Version
    <3> QED
      BY <1>t, <3>2, <3>3 DEF After
  <2>4. FeedMissesOnlyStragglers'
    BY <2>1, <2>3 DEF FeedInv, FeedMissesOnlyStragglers, After
  <2> QED
    BY <2>1, <2>2, <2>4 DEF FeedInv
<1>4. ASSUME Erase PROVE FeedInv'
  BY <1>4 DEF Erase, FeedInv, FeedMissesOnlyStragglers, readers
<1>5. ASSUME Feed PROVE FeedInv'
  <2>1. PICK page \in SUBSET versions : Served(page)
    BY <1>5, FeedServes
  <2>2. /\ feed.reading
        /\ versions' = versions /\ pending' = pending /\ high' = high /\ stragglers' = stragglers
    BY <1>5 DEF Feed, tables
  <2>3. CASE feed' = [feed EXCEPT !.cursor = None, !.delivered = {}]
    <3>1. feed'.reading = feed.reading /\ feed'.cursor = None
      BY <1>t, <2>3
    <3> QED
      BY <2>2, <3>1 DEF FeedInv, FeedMissesOnlyStragglers
  <2>4. CASE /\ feed' = [feed EXCEPT !.cursor = LastRow(page), !.delivered = @ \cup page]
             /\ LastRow(page) \in page
             /\ \A v \in AfterCursor(feed.cursor) \ page : After(v, LastRow(page))
    <3>1. /\ feed'.reading = feed.reading /\ feed'.cursor = LastRow(page)
          /\ feed'.delivered = feed.delivered \cup page
      BY <1>t, <2>4
    <3>2. LastRow(page) \in versions
      BY <2>4
    <3>3. LastRow(page).observed <= high
      BY <3>2 DEF ArchiveIsKept
    <3>4. ASSUME NEW v \in versions \ (feed'.delivered \cup stragglers)
          PROVE  After(v, LastRow(page))
      <4>1. v \notin feed.delivered /\ v \notin page
        BY <3>1, <3>4
      <4>2. v \in AfterCursor(feed.cursor)
        BY <3>4, <4>1 DEF AfterCursor, FeedInv, FeedMissesOnlyStragglers
      <4> QED
        BY <2>4, <4>1, <4>2
    <3>5. FeedMissesOnlyStragglers'
      BY <2>2, <3>1, <3>4 DEF FeedMissesOnlyStragglers, After
    <3> QED
      BY <2>2, <3>1, <3>3, <3>5 DEF FeedInv
  <2> QED
    BY <2>1, <2>3, <2>4 DEF Served
<1>6. ASSUME Checks PROVE FeedInv'
  BY <1>6 DEF Checks, FeedInv, FeedMissesOnlyStragglers, After
<1> QED
  BY <1>1, <1>2, <1>3, <1>4, <1>5, <1>6, Steps
-----------------------------------------------------------------------------
(* Type correctness *)

Steps7 == {"asleep", "started", "claims", "checked", "claims again", "versions again", "done"}

CheckType ==
    [step : Steps7, ref : ClaimRef \cup {None}, since : Int, rows : SUBSET Row,
     latest : SUBSET Version,
     status : {"none", "missing", "superseded", "retired", "current"},
     new : SUBSET ClaimRef, superseded : SUBSET ClaimRef, retired : SUBSET ClaimRef,
     live : BOOLEAN, lost : SUBSET ClaimRef, erasures : Nat]

LEMMA AsleepType == Asleep \in CheckType
BY DEF Asleep, CheckType, Steps7

\* What the drift report lists are claim ids.
LEMMA ReportTypes ==
    ASSUME NEW rows \in SUBSET Row, NEW latest, NEW since, NEW at
    PROVE  /\ NewSince(rows, since) \in SUBSET ClaimRef
           /\ SupersededSince(rows, since) \in SUBSET ClaimRef
           /\ RetiredSince(rows, latest, since, at) \in SUBSET ClaimRef
<1>1. \A r \in rows : r.claim \in Claim /\ ClaimId(r.claim) \in ClaimRef
                      /\ r.claim.target \in ClaimRef \cup {None}
  <2> SUFFICES ASSUME NEW r \in rows
               PROVE  r.claim \in Claim /\ ClaimId(r.claim) \in ClaimRef
                      /\ r.claim.target \in ClaimRef \cup {None}
    OBVIOUS
  <2>1. r.claim \in Claim
    BY DEF Row
  <2> QED
    BY <2>1, ClaimIdType DEF Claim
<1>2. NewSince(rows, since) \in SUBSET ClaimRef
  BY <1>1 DEF NewSince
<1>3. SupersededSince(rows, since) \in SUBSET ClaimRef
  BY <1>1 DEF SupersededSince
<1>4. RetiredSince(rows, latest, since, at) \in SUBSET ClaimRef
  BY <1>1 DEF RetiredSince
<1> QED
  BY <1>2, <1>3, <1>4

LEMMA CheckStaysTyped ==
    ASSUME TypeOK, Checks
    PROVE  check' \in CheckType
<1>t. /\ check \in CheckType /\ versions \in SUBSET Version /\ claims \in SUBSET Claim
      /\ erasures \in Nat /\ clock \in Nat
  BY DEF TypeOK, CheckType, Steps7
<1>1. Rows \in SUBSET Row
  BY <1>t DEF Rows, Row
<1>2. LatestVersions(versions) \in SUBSET Version
  BY <1>t DEF LatestVersions
<1>3. ASSUME Revalidate PROVE check' \in CheckType
  <2>1. PICK c \in claims, since \in 0..clock :
          check' = [Asleep EXCEPT !.step = "started", !.ref = ClaimId(c), !.since = since,
                                  !.live = c \in Live(versions, claims), !.erasures = erasures]
    BY <1>3 DEF Revalidate
  <2>2. ClaimId(c) \in ClaimRef /\ since \in Int /\ (c \in Live(versions, claims)) \in BOOLEAN
    BY <1>t, ClaimIdType
  <2> QED
    BY <1>t, <2>1, <2>2, AsleepType DEF CheckType, Steps7
<1>4. ASSUME ReadClaims PROVE check' \in CheckType
  BY <1>t, <1>1, <1>4 DEF ReadClaims, CheckType, Steps7
<1>5. ASSUME ReadVersions PROVE check' \in CheckType
  <2>1. Classify(check.rows, LatestVersions(versions), check.ref)
          \in {"none", "missing", "superseded", "retired", "current"}
    BY DEF Classify
  <2>2. check' = [check EXCEPT !.step = "checked", !.rows = {},
                    !.status = Classify(check.rows, LatestVersions(versions), check.ref)]
    BY <1>5 DEF ReadVersions
  <2> QED
    BY <1>t, <2>1, <2>2 DEF CheckType, Steps7
<1>6. ASSUME ReadClaimsAgain PROVE check' \in CheckType
  <2>1. LiveAt(check.since) \subseteq ClaimRef
    BY <1>t, ClaimIdType DEF LiveAt, Live, LoadedClaims, ClaimsOf
  <2>2. LiveAt(check.since) \ {ClaimId(c) : c \in Live(versions, claims)} \in SUBSET ClaimRef
    BY <2>1
  <2>3. check' = [check EXCEPT !.step = "claims again", !.rows = Rows,
                    !.lost = LiveAt(check.since) \ {ClaimId(c) : c \in Live(versions, claims)}]
    BY <1>6 DEF ReadClaimsAgain
  <2> QED
    BY <1>t, <1>1, <2>2, <2>3 DEF CheckType, Steps7
<1>7. ASSUME ReadVersionsAgain PROVE check' \in CheckType
  BY <1>t, <1>2, <1>7 DEF ReadVersionsAgain, CheckType, Steps7
<1>8. ASSUME ReadDeletions PROVE check' \in CheckType
  <2>1. PICK at \in DeletionTimes :
          check' = [check EXCEPT !.step = "done", !.rows = {}, !.latest = {},
                      !.new = NewSince(check.rows, check.since),
                      !.superseded = SupersededSince(check.rows, check.since),
                      !.retired = RetiredSince(check.rows, check.latest, check.since, at)]
    BY <1>8 DEF ReadDeletions
  <2>2. check.rows \in SUBSET Row
    BY <1>t DEF CheckType
  <2>3. /\ NewSince(check.rows, check.since) \in SUBSET ClaimRef
        /\ SupersededSince(check.rows, check.since) \in SUBSET ClaimRef
        /\ RetiredSince(check.rows, check.latest, check.since, at) \in SUBSET ClaimRef
    BY <2>2, ReportTypes
  <2> QED
    BY <1>t, <2>1, <2>3 DEF CheckType, Steps7
<1>9. ASSUME Report PROVE check' \in CheckType
  BY <1>9, AsleepType DEF Report
<1> QED
  BY <1>3, <1>4, <1>5, <1>6, <1>7, <1>8, <1>9 DEF Checks

LEMMA StaysTyped ==
    ASSUME TypeOK, ArchiveIsKept, [Next]_vars
    PROVE  TypeOK'
<1> DEFINE FeedType == [reading : BOOLEAN, cursor : {None} \cup Version, delivered : SUBSET Version]
<1>t. TypeOK <=>
        /\ versions \in SUBSET Version /\ claims \in SUBSET Claim /\ pending \in SUBSET Txn
        /\ registered \in BOOLEAN /\ erasures \in Nat /\ clock \in Nat /\ setbacks \in Nat
        /\ high \in Int /\ stragglers \in SUBSET Version
        /\ feed \in FeedType /\ check \in CheckType
  BY DEF TypeOK, CheckType, Steps7
<1>u. TypeOK' <=>
        /\ versions' \in SUBSET Version /\ claims' \in SUBSET Claim /\ pending' \in SUBSET Txn
        /\ registered' \in BOOLEAN /\ erasures' \in Nat /\ clock' \in Nat /\ setbacks' \in Nat
        /\ high' \in Int /\ stragglers' \in SUBSET Version
        /\ feed' \in FeedType /\ check' \in CheckType
  BY DEF TypeOK, CheckType, Steps7
<1> HIDE DEF FeedType
<1>1. ASSUME Quiet PROVE TypeOK'
  BY <1>t, <1>u, <1>1 DEF Quiet
<1>2. ASSUME NEW v \in Version, NEW R \in SUBSET Claim, Staged(v, R) PROVE TypeOK'
  <2>1. [versions |-> {v}, claims |-> R] \in Txn
    BY DEF Txn
  <2> QED
    BY <1>t, <1>u, <1>2, <2>1 DEF Staged
<1>3. ASSUME NEW v \in Version, NEW R \in SUBSET Claim, Committed(v, R) PROVE TypeOK'
  <2>1. check' \in CheckType
    <3>1. check \in CheckType
      BY <1>t
    <3>2. check' = [check EXCEPT !.live = @ \/ \E c \in Live(versions', claims') : ClaimId(c) = check.ref]
      BY <1>3 DEF Committed, Watched
    <3>3. (check.live \/ \E c \in Live(versions', claims') : ClaimId(c) = check.ref) \in BOOLEAN
      OBVIOUS
    <3> QED
      BY <3>1, <3>2, <3>3 DEF CheckType
  <2> QED
    BY <1>t, <1>u, <1>3, <2>1 DEF Committed
<1>4. ASSUME Erase PROVE TypeOK'
  <2>1. /\ versions' = {} /\ claims' = {} /\ registered' = FALSE /\ stragglers' = {}
        /\ erasures' = erasures + 1
        /\ UNCHANGED <<pending, clock, setbacks, high, feed, check>>
    BY <1>4 DEF Erase, readers
  <2>2. erasures' \in Nat
    BY <1>t, <2>1
  <2> QED
    BY <1>t, <1>u, <2>1, <2>2
<1>5. ASSUME Feed PROVE TypeOK'
  <2>1. PICK page \in SUBSET versions : Served(page)
    BY <1>5, FeedServes
  <2>2. feed' \in FeedType
    <3>1. feed \in FeedType /\ versions \in SUBSET Version
      BY <1>t
    <3>2. CASE feed' = [feed EXCEPT !.cursor = None, !.delivered = {}]
      BY <3>1, <3>2 DEF FeedType
    <3>3. CASE /\ feed' = [feed EXCEPT !.cursor = LastRow(page), !.delivered = @ \cup page]
               /\ LastRow(page) \in page
      <4>1. LastRow(page) \in Version /\ feed.delivered \cup page \in SUBSET Version
        BY <3>1, <3>3 DEF FeedType
      <4> QED
        BY <3>1, <3>3, <4>1 DEF FeedType
    <3> QED
      BY <2>1, <3>2, <3>3 DEF Served
  <2> QED
    BY <1>t, <1>u, <1>5, <2>2 DEF Feed, tables
<1>6. ASSUME Checks PROVE TypeOK'
  BY <1>t, <1>u, <1>6, CheckStaysTyped DEF Checks
<1> QED
  BY <1>1, <1>2, <1>3, <1>4, <1>5, <1>6, Steps
-----------------------------------------------------------------------------
(* Revalidation, while others write *)

USE DEF Steps7

LEMMA CheckUndisturbed ==
    ASSUME CheckInv, UNCHANGED <<versions, claims, check, erasures>>
    PROVE  CheckInv'
<1>1. LiveIsSeen'
  BY DEF CheckInv, LiveIsSeen, Watching
<1>2. RowsAreReal'
  BY DEF CheckInv, RowsAreReal, Watching, Rows
<1>3. StatusIsRight'
  BY DEF CheckInv, StatusIsRight, Watching, Dead
<1>4. LossIsExplained'
  BY DEF CheckInv, LossIsExplained, Watching, RetiredByRow, DroppedByEdit, Deleted
<1>5. DriftMissesOnlyDrops'
  BY DEF CheckInv, DriftMissesOnlyDrops
<1> QED
  BY <1>1, <1>2, <1>3, <1>4, <1>5 DEF CheckInv

LEMMA CheckSurvivesCommit ==
    ASSUME TypeOK, CheckInv, NEW v \in Version, NEW R \in SUBSET Claim, Committed(v, R)
    PROVE  CheckInv'
<1>1. /\ versions \subseteq versions' /\ claims \subseteq claims'
      /\ erasures' = erasures
      /\ check' = [check EXCEPT !.live = @ \/ \E c \in Live(versions', claims') : ClaimId(c) = check.ref]
  BY DEF Committed, Watched
<1>t. check \in CheckType
  BY DEF TypeOK, CheckType
<1>2. /\ check'.step = check.step /\ check'.ref = check.ref /\ check'.since = check.since
      /\ check'.rows = check.rows /\ check'.latest = check.latest /\ check'.status = check.status
      /\ check'.superseded = check.superseded /\ check'.retired = check.retired
      /\ check'.lost = check.lost /\ check'.erasures = check.erasures
      /\ check'.live = (check.live \/ \E c \in Live(versions', claims') : ClaimId(c) = check.ref)
  BY <1>t, <1>1 DEF CheckType
<1>3. Watching' <=> Watching
  BY <1>1, <1>2 DEF Watching
<1>4. LiveIsSeen'
  BY <1>2 DEF LiveIsSeen
<1>5. RowsAreReal'
  <2>1. Watching /\ check.step = "started" => \E c \in claims' : ClaimId(c) = check.ref
    BY <1>1 DEF CheckInv, RowsAreReal
  <2>2. Rows \subseteq Rows'
    BY <1>1 DEF Rows
  <2>3. \A u : IsLatest(versions', u) => IsLatest(versions, u)
    BY <1>1 DEF IsLatest
  <2>4. Watching /\ check.step = "claims" =>
          /\ check.rows \subseteq Rows'
          /\ \E r \in check.rows : ClaimId(r.claim) = check.ref
          /\ \A r \in check.rows :
               /\ ClaimId(r.claim) = check.ref /\ check.ref \notin Superseded(check.rows)
               /\ IsLatest(versions', r.version) /\ r.version.event # "DELETED"
               => check'.live
    BY <1>2, <2>2, <2>3 DEF CheckInv, RowsAreReal
  <2> QED
    BY <1>2, <1>3, <2>1, <2>4 DEF RowsAreReal
<1>6. StatusIsRight'
  <2>1. Dead(check.ref) => Dead(check.ref)'
    BY <1>1, <1>2 DEF Dead, Retired
  <2> QED
    BY <1>2, <1>3, <2>1 DEF CheckInv, StatusIsRight
<1>7. LossIsExplained'
  <2>1. ASSUME NEW ref PROVE RetiredByRow(ref) => RetiredByRow(ref)'
    BY <1>2 DEF RetiredByRow
  <2>2. ASSUME NEW ref PROVE DroppedByEdit(ref) => DroppedByEdit(ref)'
    BY <1>1 DEF DroppedByEdit
  <2>3. ASSUME NEW ref PROVE Deleted(ref) => Deleted(ref)'
    BY <1>1, <1>2 DEF Deleted
  <2>4. ASSUME Watching', check'.step \in {"claims again", "versions again"}, NEW ref \in check'.lost
        PROVE  RetiredByRow(ref)' \/ DroppedByEdit(ref)' \/ Deleted(ref)'
    BY <1>2, <1>3, <2>1, <2>2, <2>3, <2>4 DEF CheckInv, LossIsExplained
  <2> QED
    BY <2>4 DEF LossIsExplained, RetiredByRow, DroppedByEdit, Deleted
<1>8. DriftMissesOnlyDrops'
  BY <1>1, <1>2 DEF CheckInv, DriftMissesOnlyDrops
<1>9. check'.erasures <= erasures' /\ (check'.step = "asleep" => check'.status = "none")
  BY <1>1, <1>2 DEF CheckInv
<1> QED
  BY <1>4, <1>5, <1>6, <1>7, <1>8, <1>9 DEF CheckInv

LEMMA CheckSurvivesErasure ==
    ASSUME TypeOK, CheckInv, Erase
    PROVE  CheckInv'
<1>1. check.erasures \in Nat /\ erasures \in Nat
  BY DEF TypeOK
<1>2. check' = check /\ erasures' = erasures + 1
  BY DEF Erase, readers
<1>3. check'.erasures <= erasures' /\ check'.erasures # erasures'
  BY <1>1, <1>2 DEF CheckInv
<1>4. ~Watching'
  BY <1>3 DEF Watching
<1>5. LiveIsSeen' /\ RowsAreReal' /\ StatusIsRight' /\ LossIsExplained'
  BY <1>4 DEF LiveIsSeen, RowsAreReal, StatusIsRight, LossIsExplained
<1>6. DriftMissesOnlyDrops'
  BY <1>3 DEF DriftMissesOnlyDrops
<1>7. check'.step = "asleep" => check'.status = "none"
  BY <1>2 DEF CheckInv
<1> QED
  BY <1>3, <1>5, <1>6, <1>7 DEF CheckInv

-----------------------------------------------------------------------------
(* Revalidation, statement by statement *)

\* Whether a claim is live depends on its id alone.
LEMMA LiveById ==
    ASSUME NEW V, NEW C, NEW c \in C, NEW d \in Live(V, C), ClaimId(c) = ClaimId(d)
    PROVE  c \in Live(V, C)
<1>1. c.doc = d.doc /\ c.num = d.num
  BY DEF ClaimId
<1> QED
  BY <1>1 DEF Live

\* The rows of a well-kept archive show every supersession.
LEMMA RowsShowAll ==
    ASSUME ArchiveIsKept
    PROVE  /\ \A c \in claims : \E r \in Rows : r.claim = c
           /\ Superseded(Rows) = Retired(claims)
<1>1. ASSUME NEW c \in claims PROVE \E r \in Rows : r.claim = c
  <2>1. PICK v \in versions : v.doc = c.doc /\ v.num = c.num
    BY DEF ArchiveIsKept, WellKept, Owned
  <2> DEFINE r == [claim |-> c, version |-> v]
  <2>2. r \in Rows
    BY <2>1 DEF Rows, VersionId
  <2> QED
    BY <2>2
<1>2. \A r \in Rows : r.claim \in claims
  BY DEF Rows
<1>3. {r.claim.target : r \in Rows} = {c.target : c \in claims}
  BY <1>1, <1>2
<1> QED
  BY <1>1, <1>3 DEF Superseded, Retired

\* A row of the archive joins a claim to the version it belongs to.
LEMMA RowsJoin ==
    ASSUME NEW r \in Rows
    PROVE  /\ r.claim \in claims /\ r.version \in versions
           /\ r.version.doc = r.claim.doc /\ r.version.num = r.claim.num
           /\ ClaimId(r.claim).doc = r.version.doc /\ ClaimId(r.claim).num = r.version.num
<1>1. /\ r.claim \in claims /\ r.version \in versions
      /\ VersionId(r.version) = [doc |-> r.claim.doc, num |-> r.claim.num]
  BY DEF Rows
<1>2. r.version.doc = r.claim.doc /\ r.version.num = r.claim.num
  BY <1>1 DEF VersionId
<1> QED
  BY <1>1, <1>2 DEF ClaimId

\* A version that is latest and not deleted keeps its claims live, unless retired.
LEMMA RowIsLive ==
    ASSUME NEW r \in Rows, ClaimId(r.claim) \notin Retired(claims),
           IsLatest(versions, r.version), r.version.event # "DELETED"
    PROVE  r.claim \in Live(versions, claims)
<1>1. /\ r.claim \in claims /\ r.version \in versions
      /\ VersionId(r.version) = [doc |-> r.claim.doc, num |-> r.claim.num]
  BY DEF Rows
<1> QED
  BY <1>1 DEF Live

LEMMA DeadIsNotLive ==
    ASSUME ArchiveIsKept, NEW c \in Live(versions, claims)
    PROVE  ~Dead(ClaimId(c))
<1>1. PICK v \in versions : /\ VersionId(v) = [doc |-> c.doc, num |-> c.num]
                            /\ IsLatest(versions, v) /\ v.event # "DELETED"
  BY DEF Live
<1>2. ClaimId(c) \notin Retired(claims)
  BY DEF Live
<1>3. v.doc = ClaimId(c).doc /\ v.num = ClaimId(c).num
  BY <1>1 DEF VersionId, ClaimId
<1>4. WellKept(versions, claims)
  BY DEF ArchiveIsKept
<1>5. ASSUME NEW u \in versions, u.doc = v.doc, u.num > v.num PROVE FALSE
  <2>1. u.num <= v.num
    BY <1>1, <1>5 DEF IsLatest
  <2>2. u.num \in Nat /\ v.num \in Nat
    BY <1>4 DEF WellKept, Version
  <2> QED
    BY <1>5, <2>1, <2>2
<1>6. ASSUME NEW u \in versions, u.doc = v.doc, u.num = v.num PROVE u.event # "DELETED"
  BY <1>1, <1>4, <1>6, VersionsAreUnique
<1> QED
  BY <1>2, <1>3, <1>5, <1>6 DEF Dead
LEMMA RevalidateKeeps ==
    ASSUME TypeOK, ArchiveIsKept, CheckInv, Revalidate
    PROVE  CheckInv'
<1>1. PICK c \in claims, since \in 0..clock :
        check' = [Asleep EXCEPT !.step = "started", !.ref = ClaimId(c), !.since = since,
                                !.live = c \in Live(versions, claims), !.erasures = erasures]
  BY DEF Revalidate
<1>2. /\ check'.step = "started" /\ check'.ref = ClaimId(c) /\ check'.status = "none"
      /\ check'.live = (c \in Live(versions, claims)) /\ check'.erasures = erasures
  BY <1>1 DEF Asleep
<1>3. versions' = versions /\ claims' = claims /\ erasures' = erasures
  BY DEF Revalidate, tables
<1>4. LiveIsSeen'
  BY <1>2, <1>3, LiveById DEF LiveIsSeen
<1>5. RowsAreReal'
  BY <1>2, <1>3 DEF RowsAreReal
<1>6. StatusIsRight' /\ LossIsExplained' /\ DriftMissesOnlyDrops'
  BY <1>2 DEF StatusIsRight, LossIsExplained, DriftMissesOnlyDrops
<1>7. check'.erasures <= erasures'
  <2>1. erasures \in Nat
    BY DEF TypeOK
  <2> QED
    BY <1>2, <1>3, <2>1
<1> QED
  BY <1>2, <1>4, <1>5, <1>6, <1>7 DEF CheckInv

LEMMA ReadClaimsKeeps ==
    ASSUME TypeOK, ArchiveIsKept, CheckInv, ReadClaims
    PROVE  CheckInv'
<1>t. check \in CheckType
  BY DEF TypeOK, CheckType
<1>1. /\ check.step = "started"
      /\ check' = [check EXCEPT !.step = "claims", !.rows = Rows]
      /\ versions' = versions /\ claims' = claims /\ erasures' = erasures
  BY DEF ReadClaims, tables
<1>2. /\ check'.step = "claims" /\ check'.rows = Rows
      /\ check'.ref = check.ref /\ check'.status = check.status
      /\ check'.live = check.live /\ check'.erasures = check.erasures
  BY <1>t, <1>1 DEF CheckType
<1>3. Watching' <=> Watching
  BY <1>1, <1>2 DEF Watching
<1>4. LiveIsSeen'
  BY <1>1, <1>2, <1>3 DEF CheckInv, LiveIsSeen
<1>5. ASSUME Watching
      PROVE  /\ \E r \in Rows : ClaimId(r.claim) = check.ref
             /\ \A r \in Rows :
                  /\ ClaimId(r.claim) = check.ref /\ check.ref \notin Superseded(Rows)
                  /\ IsLatest(versions, r.version) /\ r.version.event # "DELETED"
                  => check.live
  <2>1. PICK c \in claims : ClaimId(c) = check.ref
    BY <1>1, <1>5 DEF CheckInv, RowsAreReal
  <2>2. \E r \in Rows : ClaimId(r.claim) = check.ref
    BY <2>1, RowsShowAll
  <2>3. ASSUME NEW r \in Rows, ClaimId(r.claim) = check.ref, check.ref \notin Superseded(Rows),
               IsLatest(versions, r.version), r.version.event # "DELETED"
        PROVE  check.live
    <3>1. ClaimId(r.claim) \notin Retired(claims)
      BY <2>3, RowsShowAll
    <3>2. r.claim \in Live(versions, claims)
      BY <2>3, <3>1, RowIsLive
    <3> QED
      BY <1>5, <2>3, <3>2 DEF CheckInv, LiveIsSeen
  <2> QED
    BY <2>2, <2>3
<1>6. RowsAreReal'
  <2>1. Rows' = Rows
    BY <1>1 DEF Rows
  <2> QED
    BY <1>1, <1>2, <1>3, <1>5, <2>1 DEF RowsAreReal
<1>7. StatusIsRight'
  <2>1. Dead(check.ref) => Dead(check.ref)'
    BY <1>1, <1>2 DEF Dead
  <2> QED
    BY <1>2, <1>3, <2>1 DEF CheckInv, StatusIsRight
<1>8. LossIsExplained' /\ DriftMissesOnlyDrops'
  BY <1>2 DEF LossIsExplained, DriftMissesOnlyDrops
<1> QED
  BY <1>1, <1>2, <1>4, <1>6, <1>7, <1>8 DEF CheckInv

\* The status the two statements yield, though tables may have grown in between.
LEMMA ClassifyIsRight ==
    ASSUME ArchiveIsKept, CheckInv, Watching, check.step = "claims",
           NEW s, s = Classify(check.rows, LatestVersions(versions), check.ref)
    PROVE  /\ s = "current" => check.live
           /\ s # "current" => Dead(check.ref)
<1> DEFINE rows == check.rows
           ref == check.ref
           latest == LatestVersions(versions)
<1>1. /\ rows \subseteq Rows
      /\ \E r \in rows : ClaimId(r.claim) = ref
      /\ \A r \in rows :
           /\ ClaimId(r.claim) = ref /\ ref \notin Superseded(rows)
           /\ IsLatest(versions, r.version) /\ r.version.event # "DELETED"
           => check.live
  BY DEF CheckInv, RowsAreReal
<1>2. WellKept(versions, claims)
  BY DEF ArchiveIsKept
<1>3. PICK r0 \in rows : ClaimId(r0.claim) = ref
  BY <1>1
<1>4. Newest(rows, latest) = latest
  <2>1. r0.version \in versions
    BY <1>1, <1>3, RowsJoin
  <2>2. latest # {}
    BY <1>2, <2>1 DEF WellKept, Sound, HasLatest, LatestVersions
  <2> QED
    BY <2>2 DEF Newest
<1> HIDE DEF rows, ref, latest
<1>5. {r \in rows : ClaimId(r.claim) = ref} # {}
  BY <1>3
<1>6. s = IF ref \in Superseded(rows) THEN "superseded"
          ELSE IF \E r \in {x \in rows : ClaimId(x.claim) = ref} : ActiveRow(rows, latest, r) THEN "current"
          ELSE "retired"
  BY <1>5 DEF Classify, rows, ref, latest
<1>7. ASSUME ref \in Superseded(rows) PROVE Dead(ref)
  <2>1. PICK r \in rows : r.claim.target = ref /\ ref # None
    BY <1>7 DEF Superseded
  <2>2. r.claim \in claims
    BY <1>1, <2>1, RowsJoin
  <2> QED
    BY <2>1, <2>2 DEF Dead, Retired
<1>8. ASSUME NEW r \in rows, ClaimId(r.claim) = ref, ActiveRow(rows, latest, r)
      PROVE  check.live
  <2>1. PICK v \in latest : VersionId(v) = VersionId(r.version) /\ v.event # "DELETED"
    BY <1>4, <1>8 DEF ActiveRow
  <2>2. v \in versions /\ IsLatest(versions, v)
    BY <2>1 DEF latest, LatestVersions
  <2>3. r.version \in versions
    BY <1>1, <1>8, RowsJoin
  <2>4. v = r.version
    BY <1>2, <2>1, <2>2, <2>3, VersionsAreUnique DEF VersionId
  <2> QED
    BY <1>1, <1>8, <2>1, <2>2, <2>4 DEF ActiveRow
<1>9. ASSUME ref \notin Superseded(rows), ~ActiveRow(rows, latest, r0)
      PROVE  Dead(ref)
  <2>1. /\ r0.version \in versions
        /\ ref.doc = r0.version.doc /\ ref.num = r0.version.num
    BY <1>1, <1>3, RowsJoin
  <2>2. CASE IsLatest(versions, r0.version)
    <3>1. r0.version \in latest
      BY <2>1, <2>2 DEF latest, LatestVersions
    <3>2. r0.version.event = "DELETED"
      BY <1>3, <1>4, <1>9, <3>1 DEF ActiveRow
    <3> QED
      BY <2>1, <3>2 DEF Dead
  <2>3. CASE ~IsLatest(versions, r0.version)
    <3>1. PICK u \in versions : u.doc = r0.version.doc /\ ~(u.num <= r0.version.num)
      BY <2>3 DEF IsLatest
    <3>2. u.num \in Nat /\ r0.version.num \in Nat
      BY <1>2, <2>1, <3>1 DEF WellKept, Version
    <3>3. u.num > r0.version.num
      BY <3>1, <3>2
    <3> QED
      BY <2>1, <3>1, <3>3 DEF Dead
  <2> QED
    BY <2>2, <2>3
<1>10. s = "current" => check.live
  BY <1>6, <1>8
<1>11. s # "current" => Dead(ref)
  BY <1>3, <1>6, <1>7, <1>9
<1> QED
  BY <1>10, <1>11 DEF ref

LEMMA ReadVersionsKeeps ==
    ASSUME TypeOK, ArchiveIsKept, CheckInv, ReadVersions
    PROVE  CheckInv'
<1>t. check \in CheckType
  BY DEF TypeOK, CheckType
<1> DEFINE s == Classify(check.rows, LatestVersions(versions), check.ref)
<1>1. /\ check.step = "claims"
      /\ check' = [check EXCEPT !.step = "checked", !.rows = {}, !.status = s]
      /\ versions' = versions /\ claims' = claims /\ erasures' = erasures
  BY DEF ReadVersions, tables
<1>2. Watching => (s = "current" => check.live) /\ (s # "current" => Dead(check.ref))
  BY <1>1, ClassifyIsRight
<1> HIDE DEF s
<1>3. /\ check'.step = "checked" /\ check'.status = s /\ check'.ref = check.ref
      /\ check'.live = check.live /\ check'.erasures = check.erasures
  BY <1>t, <1>1 DEF CheckType
<1>4. Watching' <=> Watching
  BY <1>1, <1>3 DEF Watching
<1>5. LiveIsSeen'
  BY <1>1, <1>3, <1>4 DEF CheckInv, LiveIsSeen
<1>6. StatusIsRight'
  <2>1. Dead(check.ref) => Dead(check.ref)'
    BY <1>1, <1>3 DEF Dead
  <2> QED
    BY <1>2, <1>3, <1>4, <2>1 DEF StatusIsRight
<1>7. RowsAreReal' /\ LossIsExplained' /\ DriftMissesOnlyDrops'
  BY <1>3 DEF RowsAreReal, LossIsExplained, DriftMissesOnlyDrops
<1> QED
  BY <1>1, <1>3, <1>5, <1>6, <1>7 DEF CheckInv

LEMMA ReportKeeps ==
    ASSUME TypeOK, Report
    PROVE  CheckInv'
<1>1. /\ check' = Asleep
      /\ versions' = versions /\ claims' = claims /\ erasures' = erasures
  BY DEF Report, tables
<1>2. check'.step = "asleep" /\ check'.status = "none" /\ check'.erasures = 0 /\ erasures' \in Nat
  BY <1>1 DEF Asleep, TypeOK
<1> QED
  BY <1>2 DEF CheckInv, Watching, LiveIsSeen, RowsAreReal, StatusIsRight, LossIsExplained,
              DriftMissesOnlyDrops
\* What happened to a claim that was live at moment t and is not any more: a row
\* written since retires it, an edit of its document dropped it, or its document
\* was deleted since.
LEMMA WhyNotLive ==
    ASSUME ArchiveIsKept, NEW t \in Int,
           NEW ref \in LiveAt(t) \ {ClaimId(c) : c \in Live(versions, claims)}
    PROVE  \/ \E r \in Rows : r.version.observed > t /\ r.claim.target = ref
           \/ DroppedByEdit(ref)
           \/ /\ ref \notin Superseded(Rows)
              /\ \E r \in Rows :
                   /\ ClaimId(r.claim) = ref
                   /\ VersionId(r.version) = [doc |-> ref.doc, num |-> ref.num]
              /\ \E v \in versions : /\ v.doc = ref.doc /\ v.num > ref.num
                                     /\ v.event = "DELETED" /\ v.observed > t
<1> DEFINE V == Loaded(versions, t)
           C == LoadedClaims(V, claims)
<1>k. WellKept(versions, claims)
  BY DEF ArchiveIsKept
<1>w. /\ versions \in SUBSET Version /\ claims \in SUBSET Claim
      /\ \A v \in versions : v.num \in Nat \ {0} /\ v.observed \in Int
  BY <1>k DEF WellKept, Version
<1>1. PICK c \in Live(V, C) : ref = ClaimId(c)
  BY DEF LiveAt
<1>2. PICK v \in V : /\ VersionId(v) = [doc |-> c.doc, num |-> c.num]
                     /\ IsLatest(V, v) /\ v.event # "DELETED"
  BY <1>1 DEF Live
<1>3. c \in C /\ ref \notin Retired(C)
  BY <1>1 DEF Live
<1>4. /\ c \in claims /\ v \in versions /\ v.observed <= t
      /\ v.doc = c.doc /\ v.num = c.num /\ ref.doc = c.doc /\ ref.num = c.num
  <2>1. c \in claims
    BY <1>3 DEF LoadedClaims, ClaimsOf
  <2>2. v \in versions /\ v.observed <= t
    BY <1>2 DEF Loaded
  <2>3. v.doc = c.doc /\ v.num = c.num /\ ref.doc = c.doc /\ ref.num = c.num
    BY <1>1, <1>2 DEF VersionId, ClaimId
  <2> QED
    BY <2>1, <2>2, <2>3
<1>5. c \notin Live(versions, claims)
  BY <1>1
<1>6. \A u \in versions : u.doc = v.doc /\ u.num > v.num => u.observed > t
  <2> SUFFICES ASSUME NEW u \in versions, u.doc = v.doc, u.num > v.num, ~(u.observed > t) PROVE FALSE
    OBVIOUS
  <2>1. u \in V
    BY <1>w DEF Loaded
  <2>2. u.num <= v.num
    BY <1>2, <2>1 DEF IsLatest
  <2> QED
    BY <1>w, <1>4, <2>2
<1> HIDE DEF V, C
<1>7. ASSUME ref \in Retired(claims)
      PROVE  \E r \in Rows : r.version.observed > t /\ r.claim.target = ref
  <2>1. PICK o \in claims : o.target = ref
    BY <1>7 DEF Retired
  <2>2. PICK r \in Rows : r.claim = o
    BY <2>1, RowsShowAll
  <2>3. /\ r.version \in versions
        /\ r.version.doc = o.doc /\ r.version.num = o.num
    BY <2>2, RowsJoin
  <2>4. ref # None
    BY <1>7 DEF Retired
  <2>5. r.version \notin V
    <3>1. ASSUME r.version \in V PROVE FALSE
      <4>1. o \in C
        BY <2>1, <2>3, <3>1 DEF C, LoadedClaims, ClaimsOf
      <4> QED
        BY <1>3, <2>1, <2>4, <4>1 DEF Retired
    <3> QED
      BY <3>1
  <2>6. r.version.observed > t
    BY <1>w, <2>3, <2>5 DEF V, Loaded
  <2> QED
    BY <2>1, <2>2, <2>6
<1>8. ASSUME ref \notin Retired(claims)
      PROVE  \E u \in versions : u.doc = v.doc /\ u.num > v.num
  <2>1. ~IsLatest(versions, v)
    BY <1>1, <1>2, <1>4, <1>5, <1>8 DEF Live
  <2> QED
    BY <1>w, <1>4, <2>1 DEF IsLatest
<1>9. ASSUME ref \notin Retired(claims)
      PROVE  \E x \in versions : x.doc = v.doc /\ x.num = v.num + 1
  <2>1. PICK u \in versions : u.doc = v.doc /\ u.num > v.num
    BY <1>8, <1>9
  <2>2. v.num + 1 \in 1..u.num
    BY <1>w, <1>4, <2>1
  <2> QED
    BY <1>k, <2>1, <2>2 DEF WellKept, Contiguous
<1>10. ASSUME NEW x \in versions, x.doc = v.doc, x.num = v.num + 1
       PROVE  x.event \in {"MODIFIED", "DELETED"}
  <2>1. Linear(versions)
    BY <1>k DEF WellKept, Sound
  <2>2. x.num > 1 /\ x.num - 1 = v.num /\ x.num # 1
    BY <1>w, <1>4, <1>10
  <2>3. x.event # "NEW"
    BY <2>1, <2>2 DEF Linear
  <2>4. PICK p \in versions : /\ p.doc = x.doc /\ p.num = x.num - 1
                              /\ (p.event = "DELETED") <=> (x.event = "RESTORED")
    BY <2>1, <2>2 DEF Linear
  <2>5. p = v
    BY <1>k, <1>4, <1>10, <2>2, <2>4, VersionsAreUnique
  <2>6. x.event \in Events
    BY <1>w DEF Version
  <2> QED
    BY <1>2, <2>3, <2>4, <2>5, <2>6
<1>11. CASE ref \in Retired(claims)
  BY <1>7, <1>11
<1>12. CASE ref \notin Retired(claims)
  <2>1. PICK x \in versions : x.doc = v.doc /\ x.num = v.num + 1
    BY <1>9, <1>12
  <2>2. CASE x.event = "MODIFIED"
    BY <1>4, <2>1, <2>2 DEF DroppedByEdit
  <2>3. CASE x.event = "DELETED"
    <3>1. ref \notin Superseded(Rows)
      BY <1>12, RowsShowAll
    <3>2. \E r \in Rows : /\ ClaimId(r.claim) = ref
                          /\ VersionId(r.version) = [doc |-> ref.doc, num |-> ref.num]
      <4>1. PICK r \in Rows : r.claim = c
        BY <1>4, RowsShowAll
      <4>2. r.version.doc = c.doc /\ r.version.num = c.num
        BY <4>1, RowsJoin
      <4> QED
        BY <1>1, <1>4, <4>1, <4>2 DEF VersionId
    <3>3. x.num > ref.num /\ x.doc = ref.doc
      BY <1>w, <1>4, <2>1
    <3>4. x.observed > t
      <4>1. x.num > v.num
        BY <1>w, <1>4, <2>1
      <4> QED
        BY <1>6, <2>1, <4>1
    <3> QED
      BY <2>3, <3>1, <3>2, <3>3, <3>4
  <2> QED
    BY <1>10, <2>1, <2>2, <2>3
<1> QED
  BY <1>11, <1>12

LEMMA ReadClaimsAgainKeeps ==
    ASSUME TypeOK, ArchiveIsKept, CheckInv, ReadClaimsAgain
    PROVE  CheckInv'
<1>t. check \in CheckType
  BY DEF TypeOK, CheckType
<1>1. /\ check' = [check EXCEPT !.step = "claims again", !.rows = Rows,
                     !.lost = LiveAt(check.since) \ {ClaimId(c) : c \in Live(versions, claims)}]
      /\ check.step = "checked"
      /\ versions' = versions /\ claims' = claims /\ erasures' = erasures
  BY DEF ReadClaimsAgain, tables
<1>2. /\ check'.step = "claims again" /\ check'.rows = Rows
      /\ check'.lost = LiveAt(check.since) \ {ClaimId(c) : c \in Live(versions, claims)}
      /\ check'.ref = check.ref /\ check'.status = check.status /\ check'.since = check.since
      /\ check'.live = check.live /\ check'.erasures = check.erasures
  BY <1>t, <1>1 DEF CheckType
<1>3. Watching' <=> Watching
  BY <1>1, <1>2 DEF Watching
<1>4. LiveIsSeen'
  BY <1>1, <1>2, <1>3 DEF CheckInv, LiveIsSeen
<1>5. StatusIsRight'
  <2>1. Dead(check.ref) => Dead(check.ref)'
    BY <1>1, <1>2 DEF Dead
  <2> QED
    BY <1>2, <1>3, <2>1 DEF CheckInv, StatusIsRight
<1>6. LossIsExplained'
  <2>1. check.since \in Int
    BY <1>t DEF CheckType
  <2>2. ASSUME NEW ref \in check'.lost
        PROVE  RetiredByRow(ref)' \/ DroppedByEdit(ref)' \/ Deleted(ref)'
    <3>1. CASE \E r \in Rows : r.version.observed > check.since /\ r.claim.target = ref
      BY <1>2, <3>1 DEF RetiredByRow
    <3>2. CASE DroppedByEdit(ref)
      BY <1>1, <3>2 DEF DroppedByEdit
    <3>3. CASE /\ ref \notin Superseded(Rows)
               /\ \E r \in Rows :
                    /\ ClaimId(r.claim) = ref
                    /\ VersionId(r.version) = [doc |-> ref.doc, num |-> ref.num]
               /\ \E v \in versions : /\ v.doc = ref.doc /\ v.num > ref.num
                                      /\ v.event = "DELETED" /\ v.observed > check.since
      BY <1>1, <1>2, <3>3 DEF Deleted
    <3> QED
      BY <1>2, <2>1, <2>2, <3>1, <3>2, <3>3, WhyNotLive
  <2> QED
    BY <2>2 DEF LossIsExplained, RetiredByRow, DroppedByEdit, Deleted
<1>7. RowsAreReal' /\ DriftMissesOnlyDrops'
  BY <1>2 DEF RowsAreReal, DriftMissesOnlyDrops
<1> QED
  BY <1>1, <1>2, <1>4, <1>5, <1>6, <1>7 DEF CheckInv

LEMMA ReadVersionsAgainKeeps ==
    ASSUME TypeOK, ArchiveIsKept, CheckInv, ReadVersionsAgain
    PROVE  CheckInv'
<1>t. check \in CheckType
  BY DEF TypeOK, CheckType
<1>1. /\ check' = [check EXCEPT !.step = "versions again", !.latest = LatestVersions(versions)]
      /\ check.step = "claims again"
      /\ versions' = versions /\ claims' = claims /\ erasures' = erasures
  BY DEF ReadVersionsAgain, tables
<1>2. /\ check'.step = "versions again" /\ check'.latest = LatestVersions(versions)
      /\ check'.rows = check.rows /\ check'.lost = check.lost
      /\ check'.ref = check.ref /\ check'.status = check.status /\ check'.since = check.since
      /\ check'.live = check.live /\ check'.erasures = check.erasures
  BY <1>t, <1>1 DEF CheckType
<1>3. Watching' <=> Watching
  BY <1>1, <1>2 DEF Watching
<1>4. LiveIsSeen'
  BY <1>1, <1>2, <1>3 DEF CheckInv, LiveIsSeen
<1>5. StatusIsRight'
  <2>1. Dead(check.ref) => Dead(check.ref)'
    BY <1>1, <1>2 DEF Dead
  <2> QED
    BY <1>2, <1>3, <2>1 DEF CheckInv, StatusIsRight
<1>6. ASSUME NEW ref, Deleted(ref) PROVE Deleted(ref)'
  <2>k. WellKept(versions, claims)
    BY DEF ArchiveIsKept
  <2>1. PICK x \in versions : x.doc = ref.doc /\ x.num > ref.num
    BY <1>6 DEF Deleted
  <2>2. Newest(check.rows, LatestVersions(versions)) = LatestVersions(versions)
    <3>1. LatestVersions(versions) # {}
      BY <2>k, <2>1 DEF WellKept, Sound, HasLatest, LatestVersions
    <3> QED
      BY <3>1 DEF Newest
  <2>3. ASSUME NEW v \in LatestVersions(versions), VersionId(v) = [doc |-> ref.doc, num |-> ref.num]
        PROVE  FALSE
    <3>1. v \in versions /\ v.doc = ref.doc /\ v.num = ref.num /\ IsLatest(versions, v)
      BY <2>3 DEF LatestVersions, VersionId
    <3>2. x.num <= v.num /\ x.num > v.num
      BY <2>1, <3>1 DEF IsLatest
    <3>3. x.num \in Nat /\ v.num \in Nat
      BY <2>k, <2>1, <3>1 DEF WellKept, Version
    <3> QED
      BY <3>2, <3>3
  <2> QED
    BY <1>1, <1>2, <1>6, <2>2, <2>3 DEF Deleted
<1>7. LossIsExplained'
  <2>1. ASSUME Watching', NEW ref \in check'.lost
        PROVE  RetiredByRow(ref)' \/ DroppedByEdit(ref)' \/ Deleted(ref)'
    <3>1. RetiredByRow(ref) \/ DroppedByEdit(ref) \/ Deleted(ref)
      BY <1>1, <1>2, <1>3, <2>1 DEF CheckInv, LossIsExplained
    <3>2. RetiredByRow(ref) => RetiredByRow(ref)'
      BY <1>2 DEF RetiredByRow
    <3>3. DroppedByEdit(ref) => DroppedByEdit(ref)'
      BY <1>1 DEF DroppedByEdit
    <3>4. Deleted(ref) => Deleted(ref)'
      BY <1>6
    <3> QED
      BY <3>1, <3>2, <3>3, <3>4
  <2> QED
    BY <2>1 DEF LossIsExplained, RetiredByRow, DroppedByEdit, Deleted
<1>8. RowsAreReal' /\ DriftMissesOnlyDrops'
  BY <1>2 DEF RowsAreReal, DriftMissesOnlyDrops
<1> QED
  BY <1>1, <1>2, <1>4, <1>5, <1>7, <1>8 DEF CheckInv

LEMMA ReadDeletionsKeeps ==
    ASSUME TypeOK, ArchiveIsKept, CheckInv, ReadDeletions
    PROVE  CheckInv'
<1>t. check \in CheckType
  BY DEF TypeOK, CheckType
<1>1. PICK at \in DeletionTimes :
        /\ check.step = "versions again"
        /\ check' = [check EXCEPT !.step = "done", !.rows = {}, !.latest = {},
                       !.new = NewSince(check.rows, check.since),
                       !.superseded = SupersededSince(check.rows, check.since),
                       !.retired = RetiredSince(check.rows, check.latest, check.since, at)]
  BY DEF ReadDeletions
<1>2. /\ check'.step = "done" /\ check'.lost = check.lost
      /\ check'.superseded = SupersededSince(check.rows, check.since)
      /\ check'.retired = RetiredSince(check.rows, check.latest, check.since, at)
      /\ check'.ref = check.ref /\ check'.status = check.status
      /\ check'.live = check.live /\ check'.erasures = check.erasures
  BY <1>t, <1>1 DEF CheckType
<1>u. versions' = versions /\ claims' = claims /\ erasures' = erasures
  BY DEF ReadDeletions, tables
<1>3. Watching' <=> Watching
  BY <1>1, <1>2, <1>u DEF Watching
<1>4. LiveIsSeen'
  BY <1>u, <1>2, <1>3 DEF CheckInv, LiveIsSeen
<1>5. StatusIsRight'
  <2>1. Dead(check.ref) => Dead(check.ref)'
    BY <1>u, <1>2 DEF Dead
  <2> QED
    BY <1>2, <1>3, <2>1 DEF CheckInv, StatusIsRight
<1>6. ASSUME Watching,
             NEW ref \in check.lost \ (check'.superseded \cup check'.retired)
      PROVE  \/ DroppedByEdit(ref)
             \/ \E u, v \in versions : u # v /\ u.doc = ref.doc /\ v.doc = ref.doc
                                        /\ u.event = "DELETED" /\ v.event = "DELETED"
  <2>1. RetiredByRow(ref) \/ DroppedByEdit(ref) \/ Deleted(ref)
    BY <1>1, <1>6 DEF CheckInv, LossIsExplained
  <2>2. ref \in ClaimRef /\ ref # None
    BY <1>t, <1>6, TablesAssumption DEF CheckType
  <2>3. ~RetiredByRow(ref)
    BY <1>2, <1>6, <2>2 DEF RetiredByRow, SupersededSince
  <2>4. ASSUME Deleted(ref)
        PROVE  \E u, v \in versions : u # v /\ u.doc = ref.doc /\ v.doc = ref.doc
                                       /\ u.event = "DELETED" /\ v.event = "DELETED"
    <3>1. PICK r \in check.rows :
            /\ ClaimId(r.claim) = ref
            /\ VersionId(r.version) = [doc |-> ref.doc, num |-> ref.num]
      BY <2>4 DEF Deleted
    <3>2. PICK x \in versions : x.doc = ref.doc /\ x.event = "DELETED" /\ x.observed > check.since
      BY <2>4 DEF Deleted
    <3>3. ref \notin Superseded(check.rows) /\ ~ActiveRow(check.rows, check.latest, r)
      <4>1. \A v \in Newest(check.rows, check.latest) : VersionId(v) # VersionId(r.version)
        BY <1>1, <2>4, <3>1 DEF Deleted
      <4>2. ref \notin Superseded(check.rows)
        BY <2>4 DEF Deleted
      <4> QED
        BY <4>1, <4>2 DEF ActiveRow
    <3>4. r.claim.doc = ref.doc
      BY <3>1 DEF ClaimId
    <3>5. /\ ref.doc \in DOMAIN at
          /\ \E y \in versions : y.event = "DELETED" /\ y.doc = ref.doc /\ y.observed = at[ref.doc]
      <4> DEFINE dead == {v \in versions : v.event = "DELETED"}
      <4>1. /\ at \in [{v.doc : v \in dead} -> {v.observed : v \in dead}]
            /\ \A d \in DOMAIN at : \E v \in dead : v.doc = d /\ v.observed = at[d]
        BY DEF DeletionTimes
      <4>2. DOMAIN at = {v.doc : v \in dead}
        BY <4>1
      <4>3. ref.doc \in DOMAIN at
        BY <3>2, <4>2
      <4> QED
        BY <4>1, <4>3
    <3>6. PICK y \in versions : y.event = "DELETED" /\ y.doc = ref.doc /\ y.observed = at[ref.doc]
      BY <3>5
    <3>7. ~(at[ref.doc] > check.since)
      BY <1>2, <1>6, <3>1, <3>3, <3>4, <3>5 DEF RetiredSince
    <3>8. x # y
      BY <3>2, <3>6, <3>7
    <3> QED
      BY <3>2, <3>6, <3>8
  <2> QED
    BY <2>1, <2>3, <2>4
<1>7. DriftMissesOnlyDrops'
  <2>1. check'.erasures = erasures' => Watching
    BY <1>1, <1>2, <1>u DEF Watching
  <2> QED
    BY <1>2, <1>u, <1>6, <2>1 DEF DriftMissesOnlyDrops, DroppedByEdit
<1>8. RowsAreReal' /\ LossIsExplained'
  BY <1>2 DEF RowsAreReal, LossIsExplained
<1> QED
  BY <1>2, <1>u, <1>4, <1>5, <1>7, <1>8 DEF CheckInv
LEMMA CheckStaysTrue ==
    ASSUME TypeOK, ArchiveIsKept, CheckInv, [Next]_vars
    PROVE  CheckInv'
<1>1. ASSUME Quiet PROVE CheckInv'
  BY <1>1, CheckUndisturbed DEF Quiet
<1>2. ASSUME NEW v \in Version, NEW R \in SUBSET Claim, Staged(v, R) PROVE CheckInv'
  BY <1>2, CheckUndisturbed DEF Staged
<1>3. ASSUME NEW v \in Version, NEW R \in SUBSET Claim, Committed(v, R) PROVE CheckInv'
  BY <1>3, CheckSurvivesCommit
<1>4. ASSUME Erase PROVE CheckInv'
  BY <1>4, CheckSurvivesErasure
<1>5. ASSUME Feed PROVE CheckInv'
  <2>1. UNCHANGED <<versions, claims, check, erasures>>
    BY <1>5 DEF Feed, tables
  <2> QED
    BY <2>1, CheckUndisturbed
<1>6. ASSUME Checks PROVE CheckInv'
  BY <1>6, RevalidateKeeps, ReadClaimsKeeps, ReadVersionsKeeps, ReadClaimsAgainKeeps,
     ReadVersionsAgainKeeps, ReadDeletionsKeeps, ReportKeeps DEF Checks
<1> QED
  BY <1>1, <1>2, <1>3, <1>4, <1>5, <1>6, Steps

-----------------------------------------------------------------------------
(* The theorems *)

LEMMA InitReaders == Init => ReadersInv
<1> SUFFICES ASSUME Init PROVE ReadersInv
  OBVIOUS
<1>1. TypeOK
  <2>1. check \in CheckType
    BY AsleepType DEF Init
  <2>2. feed \in [reading : BOOLEAN, cursor : {None} \cup Version, delivered : SUBSET Version]
    BY DEF Init
  <2>3. /\ versions = {} /\ claims = {} /\ pending = {} /\ stragglers = {}
        /\ registered \in BOOLEAN /\ erasures = 0 /\ clock = 0 /\ setbacks = 0 /\ high = -1
    BY DEF Init
  <2>4. /\ versions \in SUBSET Version /\ claims \in SUBSET Claim /\ pending \in SUBSET Txn
        /\ registered \in BOOLEAN /\ erasures \in Nat /\ clock \in Nat /\ setbacks \in Nat
        /\ high \in Int /\ stragglers \in SUBSET Version
    BY <2>3
  <2> QED
    BY <2>1, <2>2, <2>4 DEF TypeOK, CheckType
<1>2. ArchiveIsKept
  BY EmptyWellKept DEF Init, ArchiveIsKept
<1>3. FeedInv
  BY DEF Init, FeedInv, FeedMissesOnlyStragglers
<1>4. CheckInv
  <2>1. check.step = "asleep" /\ check.status = "none" /\ check.erasures = 0 /\ erasures = 0
    BY DEF Init, Asleep
  <2> QED
    BY <2>1 DEF CheckInv, Watching, LiveIsSeen, RowsAreReal, StatusIsRight, LossIsExplained,
                DriftMissesOnlyDrops
<1> QED
  BY <1>1, <1>2, <1>3, <1>4 DEF ReadersInv

LEMMA NextReaders == ReadersInv /\ [Next]_vars => ReadersInv'
BY StaysTyped, ArchiveStaysKept, FeedStaysTrue, CheckStaysTrue DEF ReadersInv

LEMMA ReadersInvariant == Spec => []ReadersInv
BY InitReaders, NextReaders, PTL DEF Spec

\* Every state of the readers and the writers they run among is well typed; in
\* particular a page always has the last row its cursor is taken from.
THEOREM TypeCorrect == Spec => []TypeOK
<1>1. ReadersInv => TypeOK
  BY DEF ReadersInv
<1> QED
  BY <1>1, ReadersInvariant, PTL

\* The traversal of memory_changes passes over no version the clock stamped above
\* those before it, for any page size, however many commits fall between two pages.
THEOREM FeedIsComplete == Spec => []FeedMissesOnlyStragglers
<1>1. ReadersInv => FeedMissesOnlyStragglers
  BY DEF ReadersInv, FeedInv
<1> QED
  BY <1>1, ReadersInvariant, PTL

\* A claim that revalidate_artifact finds current was live at some moment of the
\* call, although its claims and versions come from two statements.
THEOREM CurrentIsEarned == Spec => []CurrentWasLive
<1>1. ReadersInv => CurrentWasLive
  BY DEF ReadersInv, CheckInv, StatusIsRight, CurrentWasLive, Watching
<1> QED
  BY <1>1, ReadersInvariant, PTL

\* A claim that revalidate_artifact finds superseded or retired is dead for good.
THEOREM StaleIsFinal == Spec => []StaleIsNotLive
<1>1. ReadersInv => StaleIsNotLive
  <2> SUFFICES ASSUME ReadersInv, check.status \in {"superseded", "retired", "missing"},
                      check.erasures = erasures, NEW c \in Live(versions, claims),
                      ClaimId(c) = check.ref
               PROVE  FALSE
    BY DEF StaleIsNotLive
  <2>1. Dead(check.ref)
    BY DEF ReadersInv, CheckInv, StatusIsRight, Watching
  <2> QED
    BY <2>1, DeadIsNotLive DEF ReadersInv
<1> QED
  BY <1>1, ReadersInvariant, PTL

\* compute_drift reports every claim lost since the artifact's moment, but for the
\* two kinds it does not look for: dropped by an edit, or deleted more than once.
THEOREM DriftIsReported == Spec => []DriftMissesOnlyDrops
<1>1. ReadersInv => DriftMissesOnlyDrops
  BY DEF ReadersInv, CheckInv
<1> QED
  BY <1>1, ReadersInvariant, PTL


=============================================================================
