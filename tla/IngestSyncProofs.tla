-------------------------- MODULE IngestSyncProofs --------------------------
(***************************************************************************)
(* What IngestSync promises, for any files, contents, statements, edits    *)
(* and number of runs: the index follows the archive, no present file is   *)
(* retired, references are ingested first and an undisturbed run ends at   *)
(* the directory.                                                          *)
(***************************************************************************)
EXTENDS IngestSync, ArchiveTablesProofs, SequenceTheorems

USE DEF Events, Bases, CrossBases

-----------------------------------------------------------------------------
(* The version rows of one document *)

\* What the index needs to know of the version rows: a document that has any has
\* one latest, and there are finitely many stamps.
Versioned(V) ==
    /\ V \in SUBSET Version /\ IsFiniteSet(V)
    /\ \A u, v \in V : VersionId(u) = VersionId(v) => u = v
    /\ HasLatest(V)

\* T adds at most one row to each document, numbered after all the document has.
Succeeds(V, T) ==
    /\ T \in SUBSET Version /\ IsFiniteSet(T)
    /\ \A v \in T : \A u \in V : u.doc = v.doc => u.num < v.num
    /\ \A u, v \in T : u.doc = v.doc => u = v

LEMMA SuccessorsKeepVersioned ==
    ASSUME NEW V, NEW T, Versioned(V), Succeeds(V, T)
    PROVE  /\ Versioned(V \cup T)
           /\ \A v \in T : Predecessor(V \cup T, v.doc) = {v}
           /\ \A d : (\A v \in T : v.doc # d) => Predecessor(V \cup T, d) = Predecessor(V, d)
<1>1. \A v \in V \cup T : v \in Version /\ v.num \in Nat
  BY DEF Versioned, Succeeds, Version
<1>2. IsFiniteSet(V \cup T)
  BY FS_Union DEF Versioned, Succeeds
<1>3. \A u, v \in V \cup T : VersionId(u) = VersionId(v) => u = v
  <2> SUFFICES ASSUME NEW u \in V \cup T, NEW v \in V \cup T, u.doc = v.doc, u.num = v.num
               PROVE  u = v
    BY DEF VersionId
  <2>1. CASE u \in V /\ v \in V
    BY <2>1 DEF Versioned, VersionId
  <2>2. CASE u \in T /\ v \in T
    BY <2>2 DEF Succeeds
  <2>3. CASE u \in V /\ v \in T
    BY <1>1, <2>3 DEF Succeeds
  <2>4. CASE u \in T /\ v \in V
    BY <1>1, <2>4 DEF Succeeds
  <2> QED
    BY <2>1, <2>2, <2>3, <2>4
<1>4. ASSUME NEW v \in T PROVE IsLatest(V \cup T, v)
  <2> SUFFICES ASSUME NEW u \in V \cup T, u.doc = v.doc PROVE u.num <= v.num
    BY DEF IsLatest
  <2>1. CASE u \in V
    BY <1>1, <2>1 DEF Succeeds
  <2>2. CASE u \in T
    BY <1>1, <2>2 DEF Succeeds
  <2> QED
    BY <2>1, <2>2
<1>5. ASSUME NEW v \in T PROVE Predecessor(V \cup T, v.doc) = {v}
  <2>1. v \in Predecessor(V \cup T, v.doc)
    BY <1>4 DEF Predecessor
  <2>2. ASSUME NEW u \in Predecessor(V \cup T, v.doc) PROVE u = v
    <3>1. u \in V \cup T /\ u.doc = v.doc /\ IsLatest(V \cup T, u)
      BY DEF Predecessor
    <3>2. u.num <= v.num /\ v.num <= u.num
      BY <1>4, <3>1 DEF IsLatest
    <3>3. u.num = v.num
      BY <1>1, <3>1, <3>2
    <3> QED
      BY <1>3, <3>1, <3>3 DEF VersionId
  <2> QED
    BY <2>1, <2>2
<1>6. ASSUME NEW d, \A v \in T : v.doc # d
      PROVE  /\ Predecessor(V \cup T, d) = Predecessor(V, d)
             /\ \A u \in V : u.doc = d => (IsLatest(V \cup T, u) <=> IsLatest(V, u))
  BY <1>6 DEF Predecessor, IsLatest
<1>7. HasLatest(V \cup T)
  <2> SUFFICES ASSUME NEW v \in V \cup T
               PROVE  \E u \in V \cup T : u.doc = v.doc /\ IsLatest(V \cup T, u)
    BY DEF HasLatest
  <2>1. CASE \E u \in T : u.doc = v.doc
    BY <1>4, <2>1
  <2>2. CASE \A u \in T : u.doc # v.doc
    <3>1. v \in V
      BY <2>2
    <3>2. PICK u \in V : u.doc = v.doc /\ IsLatest(V, u)
      BY <3>1 DEF Versioned, HasLatest
    <3> QED
      BY <1>6, <2>2, <3>2
  <2> QED
    BY <2>1, <2>2
<1> QED
  BY <1>1, <1>2, <1>3, <1>5, <1>6, <1>7 DEF Versioned

\* The latest row of a document is unique.
LEMMA OnePredecessor ==
    ASSUME NEW V, Versioned(V), NEW d, NEW u \in Predecessor(V, d), NEW v \in Predecessor(V, d)
    PROVE  u = v
<1>1. u \in V /\ v \in V /\ u.doc = d /\ v.doc = d /\ u.num <= v.num /\ v.num <= u.num
  BY DEF Predecessor, IsLatest
<1>2. u.num \in Nat /\ v.num \in Nat
  BY <1>1 DEF Versioned, Version
<1>3. u.num = v.num
  BY <1>1, <1>2
<1> QED
  BY <1>1, <1>3 DEF Versioned, VersionId

-----------------------------------------------------------------------------
(* The clock *)

LEMMA NowIsLater ==
    ASSUME Versioned(versions)
    PROVE  Now \in Int /\ Now > 0 /\ \A v \in versions : v.observed < Now
<1> DEFINE f == [v \in versions |-> v.observed]
           stamps == {0} \cup {v.observed : v \in versions}
           R == {p \in stamps \X stamps : p[1] > p[2]}
<1>1. IsFiniteSet(stamps)
  <2>1. f \in Surjection(versions, {v.observed : v \in versions})
    BY DEF Surjection
  <2>2. IsFiniteSet({v.observed : v \in versions})
    BY <2>1, FS_Surjection DEF Versioned
  <2>3. IsFiniteSet({0})
    BY FS_Singleton
  <2> QED
    BY <2>2, <2>3, FS_Union
<1>2. stamps \subseteq Int /\ stamps # {}
  BY DEF Versioned, Version
<1>3. \A a, b \in stamps : <<a, b>> \in R <=> a > b
  OBVIOUS
<1> HIDE DEF stamps, R
<1>4. \A a \in stamps : <<a, a>> \notin R
  BY <1>2, <1>3
<1>5. \A a, b, c \in stamps : <<a, b>> \in R /\ <<b, c>> \in R => <<a, c>> \in R
  BY <1>2, <1>3
<1>6. PICK m \in stamps : \A u \in stamps : <<u, m>> \notin R
  BY <1>1, <1>2, <1>4, <1>5, MinimalElement
<1>7. \A u \in stamps : u <= m
  <2> SUFFICES ASSUME NEW u \in stamps PROVE u <= m
    OBVIOUS
  <2>1. u \in Int /\ m \in Int /\ ~(u > m)
    BY <1>2, <1>3, <1>6
  <2> QED
    BY <2>1
<1> DEFINE top == CHOOSE t \in stamps : \A u \in stamps : u <= t
<1>8. top \in stamps /\ \A u \in stamps : u <= top
  BY <1>7
<1>9. Now = 1 + top
  BY DEF Now, stamps
<1> HIDE DEF top
<1>10. \A v \in versions : v.observed \in stamps
  BY DEF stamps
<1>11. 0 \in stamps
  BY DEF stamps
<1>12. top \in Int /\ top >= 0
  BY <1>2, <1>8, <1>11
<1>13. ASSUME NEW v \in versions PROVE v.observed < Now
  <2>1. v.observed \in Int /\ v.observed <= top
    BY <1>2, <1>8, <1>10
  <2> QED
    BY <1>9, <1>12, <2>1
<1> QED
  BY <1>9, <1>12, <1>13
-----------------------------------------------------------------------------
(* What a transaction does to the index and the archive *)

\* What the index shows of path p is what the archive holds there.
Follows(p) ==
    IF Predecessor(versions, p) = {}
    THEN manifest[p] = IF documents[p] = None THEN None ELSE Body[documents[p]]
    ELSE /\ manifest[p] = documents[p]
         /\ \/ \E v \in Archived(p) : documents[p] = v.content
            \/ documents[p] = None /\ \A v \in Archived(p) : Body[v.content] \in Blank

LEMMA FollowsEverywhere == IndexFollowsArchive <=> \A p \in Docs : Follows(p)
BY DEF IndexFollowsArchive, Follows

Rows == [Docs -> Contents \cup {None}]

\* The tables have their types and the versions their latest ones.
TablesAreKept ==
    /\ documents \in Rows /\ manifest \in Rows
    /\ versions \in SUBSET Version /\ claims \in SUBSET Claim
    /\ Versioned(versions)
    /\ IndexFollowsArchive

Same(p) ==
    /\ documents'[p] = documents[p] /\ manifest'[p] = manifest[p]
    /\ Predecessor(versions', p) = Predecessor(versions, p)

LEMMA SameFollows ==
    ASSUME NEW p, Follows(p), Same(p)
    PROVE  Follows(p)'
BY DEF Follows, Same, Archived

\* p's row was made from content, and so was the latest version in the archive.
Indexed(p, content) ==
    /\ documents[p] = content /\ manifest[p] = content
    /\ \E v \in Predecessor(versions, p) : v.event # "DELETED" /\ v.content = content

LEMMA IndexedFollows ==
    ASSUME NEW p, NEW content, Indexed(p, content)
    PROVE  Follows(p)
<1>1. PICK v \in Predecessor(versions, p) : v.event # "DELETED" /\ v.content = content
  BY DEF Indexed
<1>2. v \in Archived(p)
  BY <1>1 DEF Archived
<1> QED
  BY <1>1, <1>2 DEF Follows, Indexed

\* An ingestion touches one path.  Either the corpus has no archive and gets none,
\* or the path's row and its latest version are the new content.
Ingested(p, content) ==
    /\ \A q \in Docs \ {p} : Same(q)
    /\ \/ versions = {} /\ versions' = {} /\ Authored(content) = {}
       \/ Indexed(p, content)'

LEMMA WriteSucceeds ==
    ASSUME TablesAreKept, NEW p \in Docs, NEW content \in Contents, NEW rq \in Request,
           NEW w \in Writes(versions, claims, p, content, rq, Now)
    PROVE  /\ Succeeds(versions, {w.version})
           /\ w.version.doc = p /\ w.version.content = content /\ w.version.event # "DELETED"
           /\ w.claims \in SUBSET Claim
<1>1. /\ versions \in SUBSET Version /\ claims \in SUBSET Claim
      /\ Versioned(versions) /\ HasLatest(versions) /\ Now \in Int
  BY NowIsLater DEF TablesAreKept, Versioned
<1>2. Shaped(versions, claims, p, content, Now, w)
  BY <1>1, WriteShape
<1>3. /\ w.version = NewVersion(Predecessor(versions, p), p, NewEvent(Predecessor(versions, p)), content, Now)
      /\ w.version \in Version /\ w.claims \in SUBSET Claim
  BY <1>2 DEF Shaped
<1>4. w.version.doc = p /\ w.version.content = content /\ w.version.event # "DELETED"
  BY <1>3, NextNumber DEF NewEvent
<1>5. \A u \in versions : u.doc = p => u.num < w.version.num
  BY <1>1, <1>3, WriteIsLatest
<1>6. IsFiniteSet({w.version})
  BY FS_Singleton
<1>7. Succeeds(versions, {w.version})
  BY <1>3, <1>4, <1>5, <1>6 DEF Succeeds
<1> QED
  BY <1>3, <1>4, <1>7

LEMMA IngestLiveIndexes ==
    ASSUME TablesAreKept, NEW p \in Docs, NEW content \in Contents, IngestLive(p, content),
           versions = {}, Authored(content) = {}
    PROVE  TablesAreKept' /\ Ingested(p, content)
<1> DEFINE body == Body[content]
<1>1. documents \in Rows /\ manifest \in Rows
  BY DEF TablesAreKept
<1>2. body \in Contents /\ body # None /\ content # None
  BY SyncAssumption, TablesAssumption
<1> HIDE DEF body
<1>3. /\ versions' = versions /\ claims' = claims
      /\ \/ documents' = documents /\ manifest' = manifest
         \/ documents' = [documents EXCEPT ![p] = content] /\ manifest' = [manifest EXCEPT ![p] = body]
  BY DEF IngestLive, archive, body
<1>4. documents' \in Rows /\ manifest' \in Rows
  BY <1>1, <1>2, <1>3 DEF Rows
<1>5. \A q \in Docs \ {p} : Same(q)
  BY <1>1, <1>3 DEF Same, Rows
<1>6. Follows(p)'
  <2>1. Predecessor(versions', p) = {} /\ Predecessor(versions, p) = {}
    BY <1>3 DEF Predecessor
  <2>2. CASE documents' = documents /\ manifest' = manifest
    <3>1. Follows(p)
      BY FollowsEverywhere DEF TablesAreKept
    <3> QED
      BY <2>1, <2>2, <3>1 DEF Follows
  <2>3. CASE documents' = [documents EXCEPT ![p] = content] /\ manifest' = [manifest EXCEPT ![p] = body]
    <3>1. documents'[p] = content /\ manifest'[p] = body
      BY <1>1, <2>3 DEF Rows
    <3> QED
      BY <1>2, <2>1, <3>1 DEF Follows, body
  <2> QED
    BY <1>3, <2>2, <2>3
<1>7. \A q \in Docs : Follows(q)'
  BY <1>5, <1>6, SameFollows, FollowsEverywhere DEF TablesAreKept
<1>8. IndexFollowsArchive'
  BY <1>7 DEF IndexFollowsArchive, Follows
<1>9. TablesAreKept'
  BY <1>3, <1>4, <1>8 DEF TablesAreKept
<1> QED
  BY <1>3, <1>5, <1>9 DEF Ingested

LEMMA IngestMemoryIndexes ==
    ASSUME TablesAreKept, NEW p \in Docs, NEW content \in Contents, NEW topic \in Keys \cup {None},
           IngestMemory(p, content, topic)
    PROVE  TablesAreKept' /\ Ingested(p, content)
<1> DEFINE rq == [claim |-> None, topic |-> topic, refs |-> Supersedes[content]]
<1>1. documents \in Rows /\ manifest \in Rows /\ Versioned(versions)
  BY DEF TablesAreKept
<1>2. /\ documents' = [documents EXCEPT ![p] = content]
      /\ manifest' = [manifest EXCEPT ![p] = content]
      /\ \/ Unchanged(versions, p, content) /\ UNCHANGED archive
         \/ \E w \in Writes(versions, claims, p, content, rq, Now) :
              versions' = versions \cup {w.version} /\ claims' = claims \cup w.claims
  BY DEF IngestMemory
<1>3. documents' \in Rows /\ manifest' \in Rows
  BY <1>1, <1>2 DEF Rows
<1>4. documents'[p] = content /\ manifest'[p] = content
  BY <1>1, <1>2 DEF Rows
<1>5. \A q \in Docs \ {p} : documents'[q] = documents[q] /\ manifest'[q] = manifest[q]
  BY <1>1, <1>2 DEF Rows
<1>6. /\ versions' \in SUBSET Version /\ claims' \in SUBSET Claim /\ Versioned(versions')
      /\ \A q \in Docs \ {p} : Predecessor(versions', q) = Predecessor(versions, q)
      /\ \E v \in Predecessor(versions', p) : v.event # "DELETED" /\ v.content = content
  <2>1. CASE Unchanged(versions, p, content) /\ UNCHANGED archive
    <3>1. versions' = versions /\ claims' = claims
      BY <2>1 DEF archive
    <3> QED
      BY <2>1, <3>1 DEF TablesAreKept, Unchanged
  <2>2. ASSUME NEW w \in Writes(versions, claims, p, content, rq, Now),
               versions' = versions \cup {w.version}, claims' = claims \cup w.claims
        PROVE  /\ versions' \in SUBSET Version /\ claims' \in SUBSET Claim /\ Versioned(versions')
               /\ \A q \in Docs \ {p} : Predecessor(versions', q) = Predecessor(versions, q)
               /\ \E v \in Predecessor(versions', p) : v.event # "DELETED" /\ v.content = content
    <3>1. rq \in Request
      <4>1. Supersedes[content] \in SUBSET (Docs \cup Keys)
        BY SyncAssumption
      <4> QED
        BY <4>1 DEF Request
    <3> HIDE DEF rq
    <3>2. /\ Succeeds(versions, {w.version})
          /\ w.version.doc = p /\ w.version.content = content /\ w.version.event # "DELETED"
          /\ w.claims \in SUBSET Claim
      BY <2>2, <3>1, WriteSucceeds
    <3>3. /\ Versioned(versions \cup {w.version})
          /\ \A v \in {w.version} : Predecessor(versions \cup {w.version}, v.doc) = {v}
          /\ \A d : (\A v \in {w.version} : v.doc # d) =>
               Predecessor(versions \cup {w.version}, d) = Predecessor(versions, d)
      BY <1>1, <3>2, SuccessorsKeepVersioned
    <3>4. Predecessor(versions', p) = {w.version}
      BY <2>2, <3>2, <3>3
    <3>5. \A q \in Docs \ {p} : Predecessor(versions', q) = Predecessor(versions, q)
      BY <2>2, <3>2, <3>3
    <3>6. versions' \in SUBSET Version /\ Versioned(versions')
      BY <2>2, <3>3 DEF Versioned
    <3>7. claims' \in SUBSET Claim
      BY <2>2, <3>2 DEF TablesAreKept
    <3> QED
      BY <3>2, <3>4, <3>5, <3>6, <3>7
  <2> HIDE DEF rq
  <2> QED
    BY <1>2, <2>1, <2>2
<1>7. \A q \in Docs \ {p} : Same(q)
  BY <1>5, <1>6 DEF Same
<1>8. Indexed(p, content)'
  BY <1>4, <1>6 DEF Indexed
<1>9. Follows(p)'
  BY <1>8, IndexedFollows, PTL
<1>10. \A q \in Docs : Follows(q)'
  BY <1>7, <1>9, SameFollows, FollowsEverywhere DEF TablesAreKept
<1>11. IndexFollowsArchive'
  BY <1>10 DEF IndexFollowsArchive, Follows
<1>12. TablesAreKept'
  BY <1>3, <1>6, <1>11 DEF TablesAreKept
<1> QED
  BY <1>7, <1>8, <1>12 DEF Ingested
LEMMA IngestIndexes ==
    ASSUME TablesAreKept, NEW p \in Docs, NEW content \in Contents, NEW enabled \in BOOLEAN,
           NEW topic \in Keys \cup {None}, Ingest(p, content, enabled, topic)
    PROVE  TablesAreKept' /\ Ingested(p, content)
<1>1. CASE ~UsesMemory(enabled, content)
  <2>1. IngestLive(p, content) /\ versions = {} /\ Authored(content) = {}
    BY <1>1 DEF Ingest, UsesMemory
  <2> QED
    BY <2>1, IngestLiveIndexes
<1>2. CASE UsesMemory(enabled, content) /\ Unchanged(versions, p, content) /\ documents[p] # None
  <2>1. /\ documents' = documents /\ manifest' = manifest
        /\ versions' = versions /\ claims' = claims
    BY <1>2 DEF Ingest, index, archive
  <2>2. PICK v \in Predecessor(versions, p) : v.event # "DELETED" /\ v.content = content
    BY <1>2 DEF Unchanged
  <2>3. Follows(p) /\ Versioned(versions)
    BY FollowsEverywhere DEF TablesAreKept
  <2>4. manifest[p] = documents[p] /\ \E u \in Archived(p) : documents[p] = u.content
    BY <1>2, <2>2, <2>3 DEF Follows
  <2>5. documents[p] = content
    <3>1. PICK u \in Predecessor(versions, p) : documents[p] = u.content
      BY <2>4 DEF Archived
    <3> QED
      BY <2>2, <2>3, <3>1, OnePredecessor
  <2>6. Indexed(p, content)'
    BY <2>1, <2>2, <2>4, <2>5 DEF Indexed
  <2>7. \A q \in Docs : Same(q)
    BY <2>1 DEF Same
  <2>8. TablesAreKept'
    BY <2>1 DEF TablesAreKept, Versioned, HasLatest, IsLatest, IndexFollowsArchive, Archived, Predecessor
  <2> QED
    BY <2>6, <2>7, <2>8 DEF Ingested
<1>3. CASE UsesMemory(enabled, content) /\ ~(Unchanged(versions, p, content) /\ documents[p] # None)
  <2>1. IngestMemory(p, content, topic)
    BY <1>3 DEF Ingest
  <2> QED
    BY <2>1, IngestMemoryIndexes
<1> QED
  BY <1>1, <1>2, <1>3

\* The tombstones of a retirement.
Dead(stale) == UNION {Tombstones(versions, p, Now + Rank[p]) : p \in stale}

LEMMA DeadSucceed ==
    ASSUME TablesAreKept, NEW stale \in SUBSET Docs
    PROVE  /\ Succeeds(versions, Dead(stale))
           /\ \A v \in Dead(stale) : v.doc \in stale /\ v.event = "DELETED"
           /\ \A p \in stale : Archived(p) # {} => \E v \in Dead(stale) : v.doc = p
<1>1. versions \in SUBSET Version /\ Versioned(versions) /\ HasLatest(versions)
  BY DEF TablesAreKept, Versioned
<1>2. Now \in Int /\ \A v \in versions : v.observed < Now
  BY <1>1, NowIsLater
<1>3. ASSUME NEW p \in stale
      PROVE  p \in Docs /\ Now + Rank[p] \in Int /\ Now + Rank[p] >= Now
  <2>1. p \in Docs /\ Rank[p] \in Nat
    BY SyncAssumption
  <2> QED
    BY <1>2, <2>1
<1>4. ASSUME NEW p \in stale, NEW v \in Tombstones(versions, p, Now + Rank[p])
      PROVE  /\ v \in Version /\ v.doc = p /\ v.event = "DELETED"
             /\ v = NewVersion(Predecessor(versions, p), p, "DELETED", None, Now + Rank[p])
             /\ Predecessor(versions, p) # {}
             /\ \A u \in versions : u.doc = p => u.num < v.num
  <2>1. /\ v = NewVersion(Predecessor(versions, p), p, "DELETED", None, Now + Rank[p])
        /\ v \in Version /\ Predecessor(versions, p) # {}
    BY <1>1, <1>3, TombstoneShape
  <2>2. v.doc = p /\ v.event = "DELETED"
    BY <2>1 DEF NewVersion
  <2>3. \A u \in versions : u.doc = p => u.num < v.num
    BY <1>1, <1>3, <2>1, WriteIsLatest
  <2> QED
    BY <2>1, <2>2, <2>3
<1>5. \A v \in Dead(stale) : \E p \in stale : v \in Tombstones(versions, p, Now + Rank[p])
  BY DEF Dead
<1>6. \A v \in Dead(stale) :
        /\ v \in Version /\ v.doc \in stale /\ v.event = "DELETED"
        /\ v = NewVersion(Predecessor(versions, v.doc), v.doc, "DELETED", None, Now + Rank[v.doc])
        /\ Predecessor(versions, v.doc) # {}
        /\ \A u \in versions : u.doc = v.doc => u.num < v.num
  BY <1>4, <1>5
<1>7. IsFiniteSet(Dead(stale))
  <2> DEFINE buried == {u \in versions : \E v \in Dead(stale) : v.doc = u.doc}
             of(d) == NewVersion(Predecessor(versions, d), d, "DELETED", None, Now + Rank[d])
             f == [u \in buried |-> of(u.doc)]
  <2>1. IsFiniteSet(buried)
    BY <1>1, FS_Subset DEF Versioned
  <2>2. \A v \in Dead(stale) : \E u \in buried : u.doc = v.doc /\ v = of(u.doc)
    <3> SUFFICES ASSUME NEW v \in Dead(stale) PROVE \E u \in buried : u.doc = v.doc /\ v = of(u.doc)
      OBVIOUS
    <3>1. PICK u \in Predecessor(versions, v.doc) : TRUE
      BY <1>6
    <3>2. u \in versions /\ u.doc = v.doc
      BY DEF Predecessor
    <3>3. v = of(v.doc)
      BY <1>6
    <3> QED
      BY <3>2, <3>3
  <2>3. \A u \in buried : of(u.doc) \in Dead(stale)
    <3> SUFFICES ASSUME NEW u \in buried PROVE of(u.doc) \in Dead(stale)
      OBVIOUS
    <3>1. PICK v \in Dead(stale) : v.doc = u.doc
      OBVIOUS
    <3> QED
      BY <1>6, <3>1
  <2> HIDE DEF of, buried
  <2>4. f \in Surjection(buried, Dead(stale))
    BY <2>2, <2>3 DEF Surjection
  <2> QED
    BY <2>1, <2>4, FS_Surjection
<1>8. \A u, v \in Dead(stale) : u.doc = v.doc => u = v
  BY <1>6
<1>9. Succeeds(versions, Dead(stale))
  BY <1>6, <1>7, <1>8 DEF Succeeds
<1>10. ASSUME NEW p \in stale, Archived(p) # {}
       PROVE  \E v \in Dead(stale) : v.doc = p
  <2> DEFINE t == NewVersion(Predecessor(versions, p), p, "DELETED", None, Now + Rank[p])
  <2>1. PICK u \in Predecessor(versions, p) : u.event # "DELETED"
    BY <1>10 DEF Archived
  <2>2. \A w \in Predecessor(versions, p) : w.event # "DELETED"
    BY <1>1, <2>1, OnePredecessor
  <2>3. AdmitsVersion(Predecessor(versions, p), t)
    <3> SUFFICES ASSUME NEW w \in Predecessor(versions, p) PROVE w.observed < t.observed
      BY DEF AdmitsVersion
    <3>1. w \in versions /\ w.observed \in Int /\ t.observed = Now + Rank[p]
      BY <1>1 DEF Predecessor, Version, NewVersion
    <3> HIDE DEF t
    <3> QED
      BY <1>2, <1>3, <3>1
  <2>4. t \in Tombstones(versions, p, Now + Rank[p])
    BY <2>1, <2>2, <2>3 DEF Tombstones
  <2>5. t.doc = p
    BY DEF NewVersion
  <2> HIDE DEF t
  <2> QED
    BY <2>4, <2>5 DEF Dead
<1> QED
  BY <1>6, <1>9, <1>10
\* A retirement leaves the rows of what it keeps and of what has none, removes
\* the other rows, and the index goes on following the archive.
LEMMA RetireIndexes ==
    ASSUME TablesAreKept, NEW keep, Retire(keep)
    PROVE  /\ TablesAreKept'
           /\ \A p \in Docs : p \in keep => Same(p)
           /\ \A p \in Docs : p \notin keep => documents'[p] = None
<1> DEFINE stale == {p \in Docs : documents[p] # None} \ keep
<1>1. /\ documents \in Rows /\ manifest \in Rows
      /\ versions \in SUBSET Version /\ claims \in SUBSET Claim
      /\ Versioned(versions) /\ \A p \in Docs : Follows(p)
  BY FollowsEverywhere DEF TablesAreKept
<1>2. /\ documents' = [p \in Docs |-> IF p \in stale THEN None ELSE documents[p]]
      /\ manifest' = [p \in Docs |-> IF p \notin keep /\ documents'[p] = None
                                      THEN None ELSE manifest[p]]
      /\ versions' = versions \cup Dead(stale)
      /\ claims' = claims
  BY DEF Retire, Dead
<1>3. stale \in SUBSET Docs /\ \A p \in Docs : p \in stale <=> documents[p] # None /\ p \notin keep
  OBVIOUS
<1> HIDE DEF stale
<1>4. /\ Succeeds(versions, Dead(stale))
      /\ \A v \in Dead(stale) : v.doc \in stale /\ v.event = "DELETED"
      /\ \A p \in stale : Archived(p) # {} => \E v \in Dead(stale) : v.doc = p
  BY <1>3, DeadSucceed
<1>5. /\ Versioned(versions')
      /\ \A v \in Dead(stale) : Predecessor(versions', v.doc) = {v}
      /\ \A p : (\A v \in Dead(stale) : v.doc # p) => Predecessor(versions', p) = Predecessor(versions, p)
  <2> DEFINE T == Dead(stale)
  <2>1. versions' = versions \cup T /\ Succeeds(versions, T)
    BY <1>2, <1>4
  <2> HIDE DEF T
  <2>2. /\ Versioned(versions \cup T)
        /\ \A v \in T : Predecessor(versions \cup T, v.doc) = {v}
        /\ \A d : (\A v \in T : v.doc # d) => Predecessor(versions \cup T, d) = Predecessor(versions, d)
    BY <1>1, <2>1, SuccessorsKeepVersioned
  <2> QED
    BY <2>1, <2>2 DEF T
<1>6. documents' \in Rows /\ manifest' \in Rows
  BY <1>1, <1>2 DEF Rows
<1>7. ASSUME NEW p \in Docs, p \notin stale PROVE Same(p)
  <2>1. documents'[p] = documents[p] /\ Predecessor(versions', p) = Predecessor(versions, p)
    BY <1>2, <1>4, <1>5, <1>7
  <2>2. manifest'[p] = IF p \notin keep /\ documents[p] = None THEN None ELSE manifest[p]
    BY <1>2, <2>1
  <2>3. documents[p] = None => manifest[p] = None
    BY <1>1 DEF Follows
  <2> QED
    BY <2>1, <2>2, <2>3 DEF Same
<1>8. ASSUME NEW p \in stale PROVE Follows(p)' /\ documents'[p] = None
  <2>1. documents'[p] = None /\ manifest'[p] = None
    BY <1>2, <1>3
  <2>2. \A v \in Predecessor(versions', p) : v.event = "DELETED"
    <3>1. CASE \E v \in Dead(stale) : v.doc = p
      BY <1>4, <1>5, <3>1
    <3>2. CASE \A v \in Dead(stale) : v.doc # p
      <4>1. Archived(p) = {} /\ Predecessor(versions', p) = Predecessor(versions, p)
        BY <1>4, <1>5, <3>2
      <4> QED
        BY <4>1 DEF Archived
    <3> QED
      BY <3>1, <3>2
  <2> QED
    BY <2>1, <2>2 DEF Follows, Archived
<1>9. \A p \in Docs : Follows(p)'
  BY <1>1, <1>7, <1>8, SameFollows
<1>10. IndexFollowsArchive'
  BY <1>9 DEF IndexFollowsArchive, Follows
<1>11. versions' \in SUBSET Version
  BY <1>5 DEF Versioned
<1>12. TablesAreKept'
  BY <1>1, <1>2, <1>5, <1>6, <1>10, <1>11 DEF TablesAreKept
<1>13. ASSUME NEW p \in Docs, p \notin keep PROVE documents'[p] = None
  BY <1>2, <1>3, <1>13
<1> QED
  BY <1>3, <1>7, <1>12, <1>13

\* A rebuild gives every archived path the row and the entry of its latest version.
LEMMA RehydrateIndexes ==
    ASSUME TablesAreKept, Rehydrate
    PROVE  TablesAreKept'
<1> DEFINE back(p) == {v.content : v \in {u \in Archived(p) : Body[u.content] \notin Blank}}
           restored(p) == IF back(p) = {} THEN None ELSE CHOOSE c \in back(p) : TRUE
<1>1. /\ documents \in Rows /\ manifest \in Rows
      /\ versions \in SUBSET Version /\ claims \in SUBSET Claim
      /\ Versioned(versions) /\ \A p \in Docs : Follows(p)
  BY FollowsEverywhere DEF TablesAreKept
<1>2. /\ documents' = [p \in Docs |-> IF Predecessor(versions, p) # {} THEN restored(p) ELSE documents[p]]
      /\ manifest' = [p \in Docs |-> IF Predecessor(versions, p) # {} THEN restored(p) ELSE manifest[p]]
      /\ versions' = versions /\ claims' = claims
  BY DEF Rehydrate, archive
<1>3. ASSUME NEW p \in Docs, back(p) # {} PROVE restored(p) \in back(p)
  <2>1. restored(p) = CHOOSE c \in back(p) : TRUE
    BY <1>3
  <2> HIDE DEF restored, back
  <2> QED
    BY <1>3, <2>1
<1>4. ASSUME NEW p \in Docs, back(p) = {}
      PROVE  restored(p) = None /\ \A v \in Archived(p) : Body[v.content] \in Blank
  BY <1>4
<1>5. \A p \in Docs : \A c \in back(p) : \E v \in Archived(p) : c = v.content
  OBVIOUS
<1> HIDE DEF restored, back
<1>6. \A p \in Docs : \A v \in Archived(p) : v.content \in Contents \cup {None}
  BY <1>1 DEF Archived, Predecessor, Version
<1>7. \A p \in Docs : restored(p) \in Contents \cup {None}
  BY <1>3, <1>4, <1>5, <1>6
<1>8. documents' \in Rows /\ manifest' \in Rows
  BY <1>1, <1>2, <1>7 DEF Rows
<1>9. ASSUME NEW p \in Docs PROVE Follows(p)'
  <2>1. Predecessor(versions', p) = Predecessor(versions, p)
    BY <1>2
  <2>2. CASE Predecessor(versions, p) = {}
    BY <1>1, <1>2, <2>1, <2>2 DEF Follows
  <2>3. CASE Predecessor(versions, p) # {}
    <3>1. documents'[p] = restored(p) /\ manifest'[p] = restored(p)
      BY <1>2, <2>3
    <3>2. \/ \E v \in Archived(p) : restored(p) = v.content
          \/ restored(p) = None /\ \A v \in Archived(p) : Body[v.content] \in Blank
      BY <1>3, <1>4, <1>5
    <3> QED
      BY <2>1, <2>3, <3>1, <3>2 DEF Follows, Archived
  <2> QED
    BY <2>2, <2>3
<1>10. IndexFollowsArchive'
  BY <1>9 DEF IndexFollowsArchive, Follows
<1> QED
  BY <1>1, <1>2, <1>8, <1>10 DEF TablesAreKept
-----------------------------------------------------------------------------
(* The run of one sync *)

LEMMA FilesAreFinite ==
    /\ Files \subseteq FilePaths /\ IsFiniteSet(Files) /\ Cardinality(Files) \in Nat
<1>1. Files \subseteq FilePaths
  BY DEF Files
<1>2. IsFiniteSet(Files)
  BY <1>1, SyncAssumption, FS_Subset
<1> QED
  BY <1>1, <1>2, FS_CardinalityType

LEMMA OrdersList ==
    ASSUME NEW o \in SupersessionOrders
    PROVE  /\ o \in Seq(FilePaths) /\ Len(o) = Cardinality(Files)
           /\ DOMAIN o = 1..Cardinality(Files)
           /\ \A i \in DOMAIN o : o[i] \in Files
           /\ \A p \in Files : \E i \in DOMAIN o : o[i] = p
           /\ \A i, j \in DOMAIN o : o[i] = o[j] => i = j
<1> DEFINE n == Cardinality(Files)
<1>1. o \in Bijection(1..n, Files)
  BY DEF SupersessionOrders
<1>2. n \in Nat /\ Files \subseteq FilePaths
  BY FilesAreFinite
<1> HIDE DEF n
<1>3. /\ o \in [1..n -> Files]
      /\ \A i, j \in 1..n : o[i] = o[j] => i = j
      /\ \A p \in Files : \E i \in 1..n : o[i] = p
  BY <1>1 DEF Bijection, Injection, Surjection, IsInjective
<1>4. o \in [1..n -> FilePaths]
  BY <1>2, <1>3
<1>5. o \in Seq(FilePaths) /\ Len(o) = n
  BY <1>2, <1>4
<1> QED
  BY <1>3, <1>5 DEF n

\* A file that is being read is a kept one, and until the end every file that was
\* present all along is kept or still listed.
RunIsReal(r) ==
    /\ r.step = "read" => r.todo # <<>> /\ Head(r.todo) \in r.kept /\ r.text \in Contents
    /\ r.step # "idle" => \A p \in r.present : p \in r.kept \/ \E i \in 1..Len(r.todo) : r.todo[i] = p

RunsAreReal == \A s \in Syncs : RunIsReal(run[s])

LEMMA NoRun == NotRunning \in RunState /\ RunIsReal(NotRunning)
<1>1. <<>> \in Seq(FilePaths)
  OBVIOUS
<1> QED
  BY <1>1 DEF NotRunning, RunState, RunIsReal

LEMMA TodoParts ==
    ASSUME NEW r \in RunState, r.todo # <<>>
    PROVE  /\ Head(r.todo) = r.todo[1] /\ Head(r.todo) \in FilePaths
           /\ Tail(r.todo) \in Seq(FilePaths)
           /\ Len(r.todo) \in Nat \ {0} /\ Len(Tail(r.todo)) = Len(r.todo) - 1
           /\ \A i \in 1..Len(Tail(r.todo)) : Tail(r.todo)[i] = r.todo[i + 1]
<1>1. r.todo \in Seq(FilePaths)
  BY DEF RunState
<1> QED
  BY <1>1, HeadTailProperties, EmptySeq

\* Moving on to the next file.
LEMMA NextFile ==
    ASSUME NEW r \in RunState, RunIsReal(r), r.step # "idle", r.todo # <<>>, Head(r.todo) \in r.kept
    PROVE  /\ FileDone(r) \in RunState /\ RunIsReal(FileDone(r))
           /\ FileCounted(r) \in RunState /\ RunIsReal(FileCounted(r))
<1> DEFINE tail == Tail(r.todo)
<1>1. tail \in Seq(FilePaths)
  BY TodoParts
<1>2. \A p \in r.present : p \in r.kept \/ \E i \in 1..Len(tail) : tail[i] = p
  <2> SUFFICES ASSUME NEW p \in r.present, p \notin r.kept
               PROVE  \E i \in 1..Len(tail) : tail[i] = p
    OBVIOUS
  <2>1. PICK i \in 1..Len(r.todo) : r.todo[i] = p
    BY DEF RunIsReal
  <2>2. i # 1 /\ i \in Int /\ i <= Len(r.todo) /\ 1 <= i
    BY <2>1, TodoParts
  <2>3. i - 1 \in 1..Len(tail) /\ (i - 1) + 1 = i
    BY <2>2, TodoParts
  <2>4. tail[i - 1] = r.todo[i]
    BY <2>3, TodoParts
  <2> QED
    BY <2>1, <2>3, <2>4
<1> HIDE DEF tail
<1>3. /\ FileDone(r) = [r EXCEPT !.step = "next", !.todo = tail, !.text = None]
      /\ FileCounted(r) = [FileDone(r) EXCEPT !.counted = TRUE]
  BY DEF FileDone, FileCounted, RunState, tail
<1>4. /\ FileDone(r) \in RunState /\ FileDone(r).step = "next" /\ FileDone(r).todo = tail
      /\ FileDone(r).kept = r.kept /\ FileDone(r).present = r.present
  BY <1>1, <1>3 DEF RunState
<1>5. /\ FileCounted(r) \in RunState /\ FileCounted(r).step = "next" /\ FileCounted(r).todo = tail
      /\ FileCounted(r).kept = r.kept /\ FileCounted(r).present = r.present
  BY <1>3, <1>4 DEF RunState
<1> QED
  BY <1>2, <1>4, <1>5 DEF RunIsReal

\* Reading the next file.
Reading(r) == [r EXCEPT !.kept = @ \cup {Head(r.todo)}, !.counted = FALSE]

LEMMA ReadingIsReal ==
    ASSUME NEW r \in RunState, RunIsReal(r), r.step = "next", r.todo # <<>>
    PROVE  /\ Reading(r) \in RunState /\ RunIsReal(Reading(r))
           /\ Reading(r).step = "next" /\ Reading(r).todo = r.todo
           /\ Reading(r).kept = r.kept \cup {Head(r.todo)}
           /\ \A t \in Contents :
                LET q == [Reading(r) EXCEPT !.step = "read", !.text = t]
                IN  /\ q \in RunState /\ RunIsReal(q)
                    /\ q.step = "read" /\ q.todo = r.todo /\ q.text = t
                    /\ q.kept = r.kept \cup {Head(r.todo)}
<1> DEFINE p == Head(r.todo)
<1>1. p \in FilePaths
  BY TodoParts
<1> HIDE DEF p
<1>2. /\ Reading(r) \in RunState /\ Reading(r).step = "next" /\ Reading(r).todo = r.todo
      /\ Reading(r).kept = r.kept \cup {p} /\ Reading(r).present = r.present
  BY <1>1 DEF Reading, RunState, p
<1>3. RunIsReal(Reading(r))
  BY <1>2 DEF RunIsReal
<1>4. ASSUME NEW t \in Contents
      PROVE  LET q == [Reading(r) EXCEPT !.step = "read", !.text = t]
             IN  /\ q \in RunState /\ RunIsReal(q)
                 /\ q.step = "read" /\ q.todo = r.todo /\ q.text = t
                 /\ q.kept = r.kept \cup {p}
  <2> DEFINE q == [Reading(r) EXCEPT !.step = "read", !.text = t]
  <2>1. /\ q \in RunState /\ q.step = "read" /\ q.todo = r.todo /\ q.text = t
        /\ q.kept = r.kept \cup {p} /\ q.present = r.present
    BY <1>2 DEF RunState
  <2> HIDE DEF q
  <2>2. RunIsReal(q)
    BY <2>1 DEF RunIsReal, p
  <2> QED
    BY <2>1, <2>2 DEF q
<1> QED
  BY <1>2, <1>3, <1>4 DEF p
LEMMA OneRunMoves ==
    ASSUME run \in [Syncs -> RunState], RunsAreReal, NEW s \in Syncs,
           NEW r \in RunState, RunIsReal(r), run' = [run EXCEPT ![s] = r]
    PROVE  run' \in [Syncs -> RunState] /\ RunsAreReal' /\ run'[s] = r
<1>1. run' \in [Syncs -> RunState] /\ run'[s] = r /\ \A t \in Syncs \ {s} : run'[t] = run[t]
  OBVIOUS
<1>2. ASSUME NEW t \in Syncs PROVE RunIsReal(run'[t])
  <2>1. CASE t = s
    BY <1>1, <2>1
  <2>2. CASE t # s
    BY <1>1, <2>2 DEF RunsAreReal
  <2> QED
    BY <2>1, <2>2
<1>3. RunsAreReal'
  BY <1>2 DEF RunsAreReal, RunIsReal
<1> QED
  BY <1>1, <1>3

LEMMA RunTypes ==
    ASSUME TypeOK, RunsAreReal, NEW s \in Syncs
    PROVE  /\ run \in [Syncs -> RunState] /\ run[s] \in RunState /\ RunIsReal(run[s])
           /\ directory \in [FilePaths -> Contents \cup {None}]
           /\ calm \in SUBSET Syncs
BY DEF TypeOK, RunsAreReal

LEMMA RunsStayReal ==
    ASSUME TypeOK, RunsAreReal, [Next]_vars
    PROVE  /\ directory' \in [FilePaths -> Contents \cup {None}]
           /\ run' \in [Syncs -> RunState] /\ edits' \in 0..MaxEdits /\ calm' \in SUBSET Syncs
           /\ RunsAreReal'
<1>1. /\ directory \in [FilePaths -> Contents \cup {None}]
      /\ run \in [Syncs -> RunState] /\ edits \in 0..MaxEdits /\ calm \in SUBSET Syncs
  BY DEF TypeOK
<1>2. ASSUME NEW s \in Syncs, StartSync(s)
      PROVE  run' \in [Syncs -> RunState] /\ RunsAreReal'
  <2>1. PICK o \in SupersessionOrders :
          run' = [run EXCEPT ![s] = [NotRunning EXCEPT !.step = "next", !.todo = o, !.present = Files]]
    BY <1>2 DEF StartSync
  <2> DEFINE r == [NotRunning EXCEPT !.step = "next", !.todo = o, !.present = Files]
  <2>2. /\ o \in Seq(FilePaths) /\ Len(o) = Cardinality(Files)
        /\ \A p \in Files : \E i \in 1..Len(o) : o[i] = p
    BY OrdersList
  <2>3. Files \in SUBSET FilePaths
    BY FilesAreFinite
  <2>4. r \in RunState /\ r.step = "next" /\ r.todo = o /\ r.present = Files
    BY <2>2, <2>3, NoRun DEF NotRunning, RunState
  <2>5. run' = [run EXCEPT ![s] = r]
    BY <2>1
  <2> HIDE DEF r
  <2>6. RunIsReal(r)
    BY <2>2, <2>4 DEF RunIsReal
  <2> QED
    BY <1>1, <2>4, <2>5, <2>6, OneRunMoves
<1>3. ASSUME NEW s \in Syncs, ReadFile(s)
      PROVE  run' \in [Syncs -> RunState] /\ RunsAreReal'
  <2>1. /\ run[s] \in RunState /\ RunIsReal(run[s])
        /\ run[s].step = "next" /\ run[s].todo # <<>>
        /\ Head(run[s].todo) \in FilePaths
    BY <1>3, RunTypes, TodoParts DEF ReadFile
  <2>2. /\ Reading(run[s]) \in RunState /\ RunIsReal(Reading(run[s]))
        /\ Reading(run[s]).step = "next" /\ Reading(run[s]).todo = run[s].todo
        /\ Reading(run[s]).kept = run[s].kept \cup {Head(run[s].todo)}
    BY <2>1, ReadingIsReal
  <2>3. CASE directory[Head(run[s].todo)] = None
    <3>1. run' = [run EXCEPT ![s] = FileDone(Reading(run[s]))]
      BY <1>3, <2>3 DEF ReadFile, Reading
    <3>2. FileDone(Reading(run[s])) \in RunState /\ RunIsReal(FileDone(Reading(run[s])))
      BY <2>1, <2>2, NextFile
    <3> QED
      BY <1>1, <3>1, <3>2, OneRunMoves
  <2>4. CASE directory[Head(run[s].todo)] # None
    <3> DEFINE t == directory[Head(run[s].todo)]
               q == [Reading(run[s]) EXCEPT !.step = "read", !.text = t]
    <3>1. t \in Contents
      BY <1>1, <2>1, <2>4
    <3>2. run' = [run EXCEPT ![s] = q]
      BY <1>3, <2>4 DEF ReadFile, Reading
    <3>3. q \in RunState /\ RunIsReal(q)
      BY <2>1, <3>1, ReadingIsReal
    <3> HIDE DEF q
    <3> QED
      BY <1>1, <3>2, <3>3, OneRunMoves
  <2> QED
    BY <2>3, <2>4
<1>4. ASSUME NEW s \in Syncs, IngestFile(s) \/ LoseFile(s) \/ FailFile(s)
      PROVE  run' \in [Syncs -> RunState] /\ RunsAreReal'
  <2>1. run[s] \in RunState /\ RunIsReal(run[s]) /\ run[s].step = "read"
    BY <1>4, RunTypes DEF IngestFile, LoseFile, FailFile
  <2>2. /\ FileDone(run[s]) \in RunState /\ RunIsReal(FileDone(run[s]))
        /\ FileCounted(run[s]) \in RunState /\ RunIsReal(FileCounted(run[s]))
    BY <2>1, NextFile DEF RunIsReal
  <2>3. \/ run' = [run EXCEPT ![s] = FileDone(run[s])]
        \/ run' = [run EXCEPT ![s] = FileCounted(run[s])]
    BY <1>1, <1>4 DEF IngestFile, LoseFile, FailFile
  <2> QED
    BY <1>1, <2>2, <2>3, OneRunMoves
<1>5. ASSUME NEW s \in Syncs, FinishSync(s) \/ CrashSync(s)
      PROVE  run' \in [Syncs -> RunState] /\ RunsAreReal'
  <2>1. run' = [run EXCEPT ![s] = NotRunning]
    BY <1>5 DEF FinishSync, CrashSync
  <2> QED
    BY <1>1, <2>1, NoRun, OneRunMoves
<1>6. ASSUME run' = run PROVE run' \in [Syncs -> RunState] /\ RunsAreReal'
  BY <1>1, <1>6 DEF RunsAreReal, RunIsReal
<1>7. ASSUME NEW p \in FilePaths, NEW c \in Contents \cup {None}, EditFile(p, c)
      PROVE  run' \in [Syncs -> RunState] /\ RunsAreReal'
  <2>1. CASE c # None
    BY <1>6, <1>7, <2>1 DEF EditFile
  <2>2. CASE c = None
    <3>1. run' = [s \in Syncs |-> [run[s] EXCEPT !.present = @ \ {p}]]
      BY <1>7, <2>2 DEF EditFile
    <3>2. ASSUME NEW s \in Syncs
          PROVE  /\ run'[s] \in RunState
                 /\ run'[s].step = run[s].step /\ run'[s].todo = run[s].todo
                 /\ run'[s].kept = run[s].kept /\ run'[s].text = run[s].text
                 /\ run'[s].present \subseteq run[s].present
      <4>1. run[s] \in RunState
        BY <1>1
      <4>2. run'[s] = [run[s] EXCEPT !.present = @ \ {p}]
        BY <3>1
      <4> QED
        BY <4>1, <4>2 DEF RunState
    <3>3. run' \in [Syncs -> RunState]
      BY <3>1, <3>2
    <3>4. \A s \in Syncs : RunIsReal(run'[s])
      BY <3>2 DEF RunsAreReal, RunIsReal
    <3>5. RunsAreReal'
      BY <3>4 DEF RunsAreReal, RunIsReal
    <3> QED
      BY <3>3, <3>5
  <2> QED
    BY <2>1, <2>2
<1>8. run' \in [Syncs -> RunState] /\ RunsAreReal'
  <2>1. CASE UNCHANGED vars
    BY <1>6, <2>1 DEF vars
  <2>2. ASSUME NEW m \in Statements, Remember(m) PROVE run' = run
    BY <2>2 DEF Remember
  <2>3. ASSUME Rehydrate PROVE run' = run
    BY <2>3 DEF Rehydrate
  <2> QED
    BY <1>2, <1>3, <1>4, <1>5, <1>6, <1>7, <2>1, <2>2, <2>3 DEF Next
<1>9. directory' \in [FilePaths -> Contents \cup {None}] /\ edits' \in 0..MaxEdits
  <2>1. ASSUME NEW p \in FilePaths, NEW c \in Contents \cup {None}, EditFile(p, c)
        PROVE  directory' \in [FilePaths -> Contents \cup {None}] /\ edits' \in 0..MaxEdits
    <3>1. directory' = [directory EXCEPT ![p] = c] /\ edits' = edits + 1 /\ edits < MaxEdits
      BY <2>1 DEF EditFile
    <3> QED
      BY <1>1, <3>1, SyncAssumption
  <2>2. CASE directory' = directory /\ edits' = edits
    BY <1>1, <2>2
  <2>3. ASSUME NEW s \in Syncs,
               \/ StartSync(s) \/ ReadFile(s) \/ IngestFile(s) \/ LoseFile(s)
               \/ FailFile(s) \/ FinishSync(s) \/ CrashSync(s)
        PROVE  directory' = directory /\ edits' = edits
    BY <2>3 DEF StartSync, ReadFile, IngestFile, LoseFile, FailFile, FinishSync, CrashSync
  <2>4. ASSUME NEW m \in Statements, Remember(m) PROVE directory' = directory /\ edits' = edits
    BY <2>4 DEF Remember
  <2>5. ASSUME Rehydrate PROVE directory' = directory /\ edits' = edits
    BY <2>5 DEF Rehydrate
  <2>6. CASE UNCHANGED vars
    BY <2>2, <2>6 DEF vars
  <2> QED
    BY <2>1, <2>2, <2>3, <2>4, <2>5, <2>6 DEF Next
<1>10. calm' \in SUBSET Syncs
  <2>1. ASSUME NEW s \in Syncs,
               \/ StartSync(s) \/ ReadFile(s) \/ IngestFile(s) \/ LoseFile(s)
               \/ FailFile(s) \/ FinishSync(s) \/ CrashSync(s)
        PROVE  calm' \in SUBSET Syncs
    BY <1>1, <2>1 DEF StartSync, ReadFile, IngestFile, LoseFile, FailFile, FinishSync, CrashSync
  <2>2. ASSUME NEW m \in Statements, Remember(m) PROVE calm' \in SUBSET Syncs
    BY <2>2 DEF Remember
  <2>3. ASSUME Rehydrate PROVE calm' \in SUBSET Syncs
    BY <2>3 DEF Rehydrate
  <2>4. ASSUME NEW p \in FilePaths, NEW c \in Contents \cup {None}, EditFile(p, c)
        PROVE  calm' \in SUBSET Syncs
    BY <2>4 DEF EditFile
  <2>5. CASE UNCHANGED vars
    BY <1>1, <2>5 DEF vars
  <2> QED
    BY <2>1, <2>2, <2>3, <2>4, <2>5 DEF Next
<1> QED
  BY <1>8, <1>9, <1>10
-----------------------------------------------------------------------------
(* The tables stay kept *)

\* What the file a sync ingests does to the tables.
LEMMA FileIndexes ==
    ASSUME TypeOK, TablesAreKept, RunsAreReal, NEW s \in Syncs, IngestFile(s)
    PROVE  /\ TablesAreKept'
           /\ \E p \in Docs, content \in Contents :
                /\ p = Head(run[s].todo) /\ content = run[s].text
                /\ Ingested(p, content)
<1>1. run[s] \in RunState /\ RunIsReal(run[s]) /\ run[s].step = "read"
  BY RunTypes DEF IngestFile
<1>2. run[s].todo # <<>> /\ run[s].text \in Contents
  BY <1>1 DEF RunIsReal
<1>3. Head(run[s].todo) \in Docs
  BY <1>1, <1>2, TodoParts, SyncAssumption
<1>4. PICK p \in Docs : p = Head(run[s].todo)
  BY <1>3
<1>5. PICK content \in Contents : content = run[s].text
  BY <1>2
<1>6. Ingest(p, content, FALSE, None)
  BY <1>4, <1>5 DEF IngestFile
<1>7. TablesAreKept' /\ Ingested(p, content)
  BY <1>6, IngestIndexes
<1> QED
  BY <1>4, <1>5, <1>7

LEMMA TablesStayKept ==
    ASSUME TypeOK, TablesAreKept, RunsAreReal, [Next]_vars
    PROVE  TablesAreKept'
<1>1. ASSUME documents' = documents, manifest' = manifest, versions' = versions, claims' = claims
      PROVE  TablesAreKept'
  BY <1>1 DEF TablesAreKept, Versioned, HasLatest, IsLatest, IndexFollowsArchive, Archived, Predecessor
<1>2. ASSUME NEW s \in Syncs, StartSync(s) \/ ReadFile(s) \/ LoseFile(s) \/ FailFile(s) \/ CrashSync(s)
      PROVE  TablesAreKept'
  BY <1>1, <1>2 DEF StartSync, ReadFile, LoseFile, FailFile, CrashSync, index, archive
<1>3. ASSUME NEW s \in Syncs, IngestFile(s) PROVE TablesAreKept'
  BY <1>3, FileIndexes
<1>4. ASSUME NEW s \in Syncs, FinishSync(s) PROVE TablesAreKept'
  <2>1. CASE s \in Deleting
    <3>1. Retire(run[s].kept)
      BY <1>4, <2>1 DEF FinishSync
    <3> QED
      BY <3>1, RetireIndexes
  <2>2. CASE s \notin Deleting
    BY <1>1, <1>4, <2>2 DEF FinishSync, index, archive
  <2> QED
    BY <2>1, <2>2
<1>5. ASSUME NEW m \in Statements, Remember(m) PROVE TablesAreKept'
  <2>1. m.path \in Docs /\ m.content \in Contents /\ m.topic \in Keys \cup {None}
    BY SyncAssumption
  <2>2. Ingest(m.path, m.content, TRUE, m.topic)
    BY <1>5 DEF Remember
  <2> QED
    BY <2>1, <2>2, IngestIndexes
<1>6. ASSUME Rehydrate PROVE TablesAreKept'
  BY <1>6, RehydrateIndexes
<1>7. ASSUME NEW p \in FilePaths, NEW c \in Contents \cup {None}, EditFile(p, c)
      PROVE  TablesAreKept'
  BY <1>1, <1>7 DEF EditFile, index, archive
<1>8. CASE UNCHANGED vars
  BY <1>1, <1>8 DEF vars, index, archive
<1> QED
  BY <1>2, <1>3, <1>4, <1>5, <1>6, <1>7, <1>8 DEF Next

-----------------------------------------------------------------------------
(* An undisturbed run *)

\* p's row and its latest version are the file in the directory, ...
Current(p) ==
    /\ documents[p] = directory[p]
    /\ \E v \in Archived(p) : v.content = directory[p]

\* ... unless it asserts nothing and the archive does not know it.
Done(p) == Current(p) \/ (Predecessor(versions, p) = {} /\ Authored(directory[p]) = {})

\* Run s has done the first k files of order o and has the others to do.
At(s, o, k) ==
    /\ Len(run[s].todo) = Cardinality(Files) - k
    /\ \A i \in 1..Len(run[s].todo) : run[s].todo[i] = o[k + i]
    /\ run[s].kept \subseteq Files
    /\ \A i \in 1..k : o[i] \in run[s].kept /\ Done(o[i])
    /\ run[s].step = "read" => k < Cardinality(Files) /\ run[s].text = directory[o[k + 1]]

InOrder(s) == \E o \in SupersessionOrders : \E k \in 0..Cardinality(Files) : At(s, o, k)

CalmRuns == \A s \in calm : run[s].step # "idle" => InOrder(s)

SameDirectory ==
    /\ Files' = Files /\ SupersessionOrders' = SupersessionOrders
    /\ Cardinality(Files)' = Cardinality(Files)
    /\ \A p : directory'[p] = directory[p]

LEMMA DirectoryStays ==
    ASSUME directory' = directory
    PROVE  SameDirectory
<1>1. Files' = Files /\ \A p : directory'[p] = directory[p]
  BY DEF Files
<1>2. \A o, i : Left(o, i)' = Left(o, i)
  BY <1>1 DEF Left
<1>3. \A p : Named(p)' = Named(p)
  BY <1>1 DEF Named
<1>4. \A o, i : Ready(o, i)' = Ready(o, i)
  BY <1>2, <1>3 DEF Ready
<1>5. SupersessionOrders' = SupersessionOrders
  BY <1>1, <1>2, <1>4 DEF SupersessionOrders
<1> QED
  BY <1>1, <1>5 DEF SameDirectory
LEMMA DoneStays ==
    ASSUME directory' = directory, NEW p, documents'[p] = documents[p],
           Predecessor(versions', p) = Predecessor(versions, p), Done(p)
    PROVE  Done(p)'
BY DEF Done, Current, Archived

LEMMA StaysInOrder ==
    ASSUME directory' = directory, documents' = documents, versions' = versions,
           NEW s, run'[s] = run[s], InOrder(s)
    PROVE  InOrder(s)'
<1>1. SameDirectory
  BY DirectoryStays
<1>2. PICK o \in SupersessionOrders, k \in 0..Cardinality(Files) : At(s, o, k)
  BY DEF InOrder
<1>3. \A i \in 1..k : Done(o[i])'
  <2> SUFFICES ASSUME NEW i \in 1..k PROVE Done(o[i])'
    OBVIOUS
  <2>1. PICK p : p = o[i]
    OBVIOUS
  <2>2. Done(p)
    BY <1>2, <2>1 DEF At
  <2>3. Done(p)'
    BY <2>2, DoneStays
  <2> QED
    BY <2>1, <2>3
<1>4. At(s, o, k)'
  BY <1>1, <1>2, <1>3 DEF At, SameDirectory
<1> QED
  BY <1>1, <1>4 DEF InOrder, SameDirectory

\* A run that starts has done none of its files.
LEMMA StartsInOrder ==
    ASSUME TypeOK, NEW s \in Syncs, StartSync(s)
    PROVE  InOrder(s)'
<1>1. SameDirectory
  BY DirectoryStays DEF StartSync
<1>2. PICK o \in SupersessionOrders :
        run' = [run EXCEPT ![s] = [NotRunning EXCEPT !.step = "next", !.todo = o, !.present = Files]]
  BY DEF StartSync
<1>3. run'[s].step = "next" /\ run'[s].todo = o /\ run'[s].kept = {}
  BY <1>2 DEF TypeOK, NotRunning
<1>4. o \in Seq(FilePaths) /\ Len(o) = Cardinality(Files) /\ Cardinality(Files) \in Nat
  BY OrdersList, FilesAreFinite
<1>5. At(s, o, 0)'
  BY <1>1, <1>3, <1>4 DEF At, SameDirectory
<1> QED
  BY <1>1, <1>4, <1>5 DEF InOrder, SameDirectory

\* The file a run reads is the next of its order.
LEMMA ReadsInOrder ==
    ASSUME TypeOK, RunsAreReal, NEW s \in Syncs, ReadFile(s), s \in calm', InOrder(s)
    PROVE  InOrder(s)'
<1>1. SameDirectory /\ directory' = directory
  BY DirectoryStays DEF ReadFile
<1>2. PICK o \in SupersessionOrders, k \in 0..Cardinality(Files) : At(s, o, k)
  BY DEF InOrder
<1>3. /\ run[s] \in RunState /\ RunIsReal(run[s])
      /\ run[s].step = "next" /\ run[s].todo # <<>>
      /\ directory \in [FilePaths -> Contents \cup {None}]
      /\ run \in [Syncs -> RunState]
  BY RunTypes DEF ReadFile
<1>4. /\ Head(run[s].todo) = run[s].todo[1] /\ Head(run[s].todo) \in FilePaths
      /\ Len(run[s].todo) \in Nat \ {0}
  BY <1>3, TodoParts
<1>5. Cardinality(Files) \in Nat
  BY FilesAreFinite
<1>6. k < Cardinality(Files) /\ Head(run[s].todo) = o[k + 1]
  <2>1. Len(run[s].todo) = Cardinality(Files) - k
    BY <1>2 DEF At
  <2>2. run[s].todo[1] = o[k + 1]
    BY <1>2, <1>4 DEF At
  <2> QED
    BY <1>4, <1>5, <2>1, <2>2
<1>7. k + 1 \in DOMAIN o /\ o[k + 1] \in Files
  BY <1>5, <1>6, OrdersList
<1>8. PICK t \in Contents : t = directory[o[k + 1]]
  <2>1. directory[o[k + 1]] # None /\ o[k + 1] \in FilePaths
    BY <1>7 DEF Files
  <2> QED
    BY <1>3, <2>1
<1>9. run' = [run EXCEPT ![s] = [Reading(run[s]) EXCEPT !.step = "read", !.text = t]]
  <2>1. directory[Head(run[s].todo)] # None
    BY <1>6, <1>7 DEF Files
  <2> QED
    BY <1>6, <1>8, <2>1 DEF ReadFile, Reading
<1>10. /\ run'[s].todo = run[s].todo
       /\ run'[s].text = t /\ run'[s].kept = run[s].kept \cup {o[k + 1]}
  <2> DEFINE q == [Reading(run[s]) EXCEPT !.step = "read", !.text = t]
  <2>1. /\ q.step = "read" /\ q.todo = run[s].todo /\ q.text = t
        /\ q.kept = run[s].kept \cup {Head(run[s].todo)}
    BY <1>3, ReadingIsReal
  <2>2. run'[s] = q
    BY <1>3, <1>9
  <2> QED
    BY <1>6, <2>1, <2>2
<1>11. \A i \in 1..k : Done(o[i])'
  <2> SUFFICES ASSUME NEW i \in 1..k PROVE Done(o[i])'
    OBVIOUS
  <2>1. PICK p : p = o[i]
    OBVIOUS
  <2>2. Done(p) /\ documents' = documents /\ versions' = versions
    BY <1>2, <2>1 DEF At, ReadFile, index, archive
  <2>3. Done(p)'
    BY <1>1, <2>2, DoneStays
  <2> QED
    BY <2>1, <2>3
<1>12. At(s, o, k)'
  BY <1>1, <1>2, <1>6, <1>7, <1>8, <1>10, <1>11 DEF At, SameDirectory
<1> QED
  BY <1>1, <1>12 DEF InOrder, SameDirectory
\* What a run ingests is done, and so is what it did before.
LEMMA IngestsInOrder ==
    ASSUME TypeOK, TablesAreKept, RunsAreReal, NEW s \in Syncs, IngestFile(s), InOrder(s)
    PROVE  InOrder(s)'
<1>1. SameDirectory /\ directory' = directory
  BY DirectoryStays DEF IngestFile
<1>2. PICK o \in SupersessionOrders, k \in 0..Cardinality(Files) : At(s, o, k)
  BY DEF InOrder
<1>3. /\ run[s] \in RunState /\ RunIsReal(run[s])
      /\ run[s].step = "read" /\ run[s].todo # <<>> /\ Head(run[s].todo) \in run[s].kept
      /\ run \in [Syncs -> RunState]
  BY RunTypes DEF IngestFile, RunIsReal
<1>4. /\ Head(run[s].todo) = run[s].todo[1]
      /\ Len(run[s].todo) \in Nat \ {0} /\ Len(Tail(run[s].todo)) = Len(run[s].todo) - 1
      /\ \A i \in 1..Len(Tail(run[s].todo)) : Tail(run[s].todo)[i] = run[s].todo[i + 1]
  BY <1>3, TodoParts
<1>5. Cardinality(Files) \in Nat
  BY FilesAreFinite
<1>6. /\ Len(run[s].todo) = Cardinality(Files) - k
      /\ \A i \in 1..Len(run[s].todo) : run[s].todo[i] = o[k + i]
      /\ run[s].kept \subseteq Files
      /\ \A i \in 1..k : o[i] \in run[s].kept /\ Done(o[i])
      /\ k < Cardinality(Files) /\ run[s].text = directory[o[k + 1]]
  BY <1>2, <1>3 DEF At
<1>7. /\ k + 1 \in DOMAIN o
      /\ \A i \in 1..k : i \in DOMAIN o /\ i # k + 1
      /\ \A i \in DOMAIN o : o[i] \in Docs
      /\ \A i, j \in DOMAIN o : o[i] = o[j] => i = j
  <2>1. DOMAIN o = 1..Cardinality(Files) /\ \A i \in DOMAIN o : o[i] \in Files
    BY OrdersList
  <2>2. \A i, j \in DOMAIN o : o[i] = o[j] => i = j
    BY OrdersList
  <2>3. \A i \in DOMAIN o : o[i] \in Docs
    BY <2>1, FilesAreFinite, SyncAssumption
  <2>4. k + 1 \in 1..Cardinality(Files) /\ \A i \in 1..k : i \in 1..Cardinality(Files) /\ i # k + 1
    BY <1>5, <1>6
  <2> QED
    BY <2>1, <2>2, <2>3, <2>4
<1>8. Head(run[s].todo) = o[k + 1]
  BY <1>4, <1>6
<1>9. PICK p \in Docs, content \in Contents :
        p = Head(run[s].todo) /\ content = run[s].text /\ Ingested(p, content)
  BY FileIndexes
<1>10. p = o[k + 1] /\ content = directory[p]
  BY <1>6, <1>8, <1>9
<1>11. /\ run'[s].todo = Tail(run[s].todo) /\ run'[s].kept = run[s].kept /\ run'[s].step = "next"
  BY <1>3 DEF IngestFile, FileCounted, FileDone, RunState
<1>12. ASSUME NEW i \in 1..k PROVE Done(o[i])'
  <2>1. PICK q : q = o[i]
    OBVIOUS
  <2>2. q \in Docs \ {p} /\ Done(q)
    BY <1>6, <1>7, <1>10, <2>1
  <2>3. Same(q)
    BY <1>9, <2>2 DEF Ingested
  <2>4. Done(q)'
    BY <1>1, <2>2, <2>3, DoneStays DEF Same
  <2> QED
    BY <2>1, <2>4
<1>13. Done(p)'
  <2>1. CASE versions' = {} /\ Authored(content) = {}
    <3>1. directory'[p] = content
      BY <1>1, <1>10
    <3>2. Predecessor(versions', p) = {}
      BY <2>1 DEF Predecessor
    <3> QED
      BY <2>1, <3>1, <3>2 DEF Done
  <2>2. CASE Indexed(p, content)'
    <3>1. /\ documents'[p] = content /\ directory'[p] = content
          /\ \E v \in Predecessor(versions', p) : v.event # "DELETED" /\ v.content = content
      BY <1>1, <1>10, <2>2 DEF Indexed
    <3> QED
      BY <3>1 DEF Done, Current, Archived
  <2> QED
    BY <1>9, <2>1, <2>2 DEF Ingested
<1>14. \A i \in 1..(k + 1) : o[i] \in run'[s].kept /\ Done(o[i])'
  <2> SUFFICES ASSUME NEW i \in 1..(k + 1) PROVE o[i] \in run'[s].kept /\ Done(o[i])'
    OBVIOUS
  <2>1. CASE i = k + 1
    <3>1. o[i] = p
      BY <1>10, <2>1
    <3>2. Done(o[i])'
      BY <1>13, <3>1
    <3> QED
      BY <1>3, <1>8, <1>11, <2>1, <3>2
  <2>2. CASE i # k + 1
    <3>1. i \in 1..k
      BY <2>2
    <3> QED
      BY <1>6, <1>11, <1>12, <3>1
  <2> QED
    BY <2>1, <2>2
<1>15. /\ Len(run'[s].todo) = Cardinality(Files) - (k + 1)
       /\ \A i \in 1..Len(run'[s].todo) : run'[s].todo[i] = o[(k + 1) + i]
  <2>1. Len(run'[s].todo) = Cardinality(Files) - (k + 1)
    BY <1>4, <1>5, <1>6, <1>11
  <2> SUFFICES ASSUME NEW i \in 1..Len(run'[s].todo) PROVE run'[s].todo[i] = o[(k + 1) + i]
    BY <2>1
  <2>2. run'[s].todo[i] = run[s].todo[i + 1] /\ i + 1 \in 1..Len(run[s].todo)
    BY <1>4, <1>11
  <2>3. k + (i + 1) = (k + 1) + i
    OBVIOUS
  <2> QED
    BY <1>6, <2>2, <2>3
<1>16. k + 1 \in 0..Cardinality(Files)
  BY <1>5, <1>6
<1>17. At(s, o, k + 1)'
  BY <1>1, <1>6, <1>11, <1>14, <1>15 DEF At, SameDirectory
<1> QED
  BY <1>1, <1>16, <1>17 DEF InOrder, SameDirectory

LEMMA CalmRunsStayInOrder ==
    ASSUME TypeOK, TablesAreKept, RunsAreReal, CalmRuns, [Next]_vars
    PROVE  CalmRuns'
<1> SUFFICES ASSUME NEW t \in calm', run'[t].step # "idle" PROVE InOrder(t)'
  BY DEF CalmRuns
<1>1. t \in Syncs /\ run \in [Syncs -> RunState]
  BY RunsStayReal DEF TypeOK
<1>2. ASSUME run'[t] = run[t], t \in calm,
             directory' = directory, documents' = documents, versions' = versions
      PROVE  InOrder(t)'
  BY <1>2, StaysInOrder DEF CalmRuns
<1>3. ASSUME NEW s \in Syncs, StartSync(s) PROVE InOrder(t)'
  <2>1. CASE t = s
    BY <1>3, <2>1, StartsInOrder
  <2>2. CASE t # s
    BY <1>1, <1>2, <1>3, <2>2 DEF StartSync, index, archive
  <2> QED
    BY <2>1, <2>2
<1>4. ASSUME NEW s \in Syncs, ReadFile(s) PROVE InOrder(t)'
  <2>1. CASE t = s
    <3>1. t \in calm /\ run[t].step # "idle"
      BY <1>4, <2>1 DEF ReadFile
    <3>2. InOrder(s) /\ s \in calm'
      BY <2>1, <3>1 DEF CalmRuns
    <3> QED
      BY <1>4, <2>1, <3>2, ReadsInOrder
  <2>2. CASE t # s
    <3>1. run'[t] = run[t] /\ t \in calm
      BY <1>1, <1>4, <2>2 DEF ReadFile
    <3> QED
      BY <1>2, <1>4, <3>1 DEF ReadFile, index, archive
  <2> QED
    BY <2>1, <2>2
<1>5. ASSUME NEW s \in Syncs, IngestFile(s) PROVE InOrder(t)'
  <2>1. t = s /\ t \in calm /\ run[t].step # "idle"
    BY <1>5 DEF IngestFile
  <2>2. InOrder(s)
    BY <2>1 DEF CalmRuns
  <2> QED
    BY <1>5, <2>1, <2>2, IngestsInOrder
<1>6. ASSUME NEW s \in Syncs, LoseFile(s) \/ FailFile(s) \/ CrashSync(s) PROVE InOrder(t)'
  <2>1. t # s /\ t \in calm
    BY <1>6 DEF LoseFile, FailFile, CrashSync
  <2> QED
    BY <1>1, <1>2, <1>6, <2>1 DEF LoseFile, FailFile, CrashSync, index, archive
<1>7. ASSUME NEW s \in Syncs, FinishSync(s) PROVE InOrder(t)'
  <2>1. t # s
    BY <1>1, <1>7 DEF FinishSync, NotRunning
  <2>2. s \notin Deleting /\ t \in calm
    BY <1>7, <2>1 DEF FinishSync
  <2> QED
    BY <1>1, <1>2, <1>7, <2>1, <2>2 DEF FinishSync, index, archive
<1>8. ASSUME NEW m \in Statements, Remember(m) PROVE InOrder(t)'
  BY <1>8 DEF Remember
<1>9. ASSUME Rehydrate PROVE InOrder(t)'
  BY <1>9 DEF Rehydrate
<1>10. ASSUME NEW p \in FilePaths, NEW c \in Contents \cup {None}, EditFile(p, c)
       PROVE  InOrder(t)'
  BY <1>10 DEF EditFile
<1>11. CASE UNCHANGED vars
  BY <1>2, <1>11 DEF vars, index, archive
<1> QED
  BY <1>3, <1>4, <1>5, <1>6, <1>7, <1>8, <1>9, <1>10, <1>11 DEF Next
-----------------------------------------------------------------------------
(* The inductive invariant *)

SyncInv == TypeOK /\ TablesAreKept /\ RunsAreReal /\ CalmRuns

LEMMA InitSync == Init => SyncInv
<1> SUFFICES ASSUME Init PROVE SyncInv
  OBVIOUS
<1>1. /\ directory \in [FilePaths -> AtFirst]
      /\ documents = [p \in Docs |-> None] /\ manifest = [p \in Docs |-> None]
      /\ versions = {} /\ claims = {} /\ run = [s \in Syncs |-> NotRunning]
      /\ edits = 0 /\ calm = {}
  BY DEF Init
<1>2. documents \in Rows /\ manifest \in Rows
  BY <1>1 DEF Rows
<1>3. Versioned(versions)
  BY <1>1, FS_EmptySet DEF Versioned, HasLatest
<1>4. IndexFollowsArchive
  BY <1>1 DEF IndexFollowsArchive, Predecessor
<1>5. TablesAreKept
  BY <1>1, <1>2, <1>3, <1>4 DEF TablesAreKept
<1>6. run \in [Syncs -> RunState] /\ RunsAreReal
  BY <1>1, NoRun DEF RunsAreReal
<1>7. directory \in [FilePaths -> Contents \cup {None}] /\ edits \in 0..MaxEdits
  BY <1>1, SyncAssumption
<1>8. TypeOK
  BY <1>1, <1>2, <1>5, <1>6, <1>7 DEF TypeOK, TablesAreKept, Rows
<1>9. CalmRuns
  BY <1>1 DEF CalmRuns
<1> QED
  BY <1>5, <1>6, <1>8, <1>9 DEF SyncInv

LEMMA NextSync == SyncInv /\ [Next]_vars => SyncInv'
<1> SUFFICES ASSUME SyncInv, [Next]_vars PROVE SyncInv'
  OBVIOUS
<1>1. TypeOK /\ TablesAreKept /\ RunsAreReal /\ CalmRuns
  BY DEF SyncInv
<1>2. TablesAreKept'
  BY <1>1, TablesStayKept
<1>3. /\ directory' \in [FilePaths -> Contents \cup {None}]
      /\ run' \in [Syncs -> RunState] /\ edits' \in 0..MaxEdits /\ calm' \in SUBSET Syncs
      /\ RunsAreReal'
  BY <1>1, RunsStayReal
<1>4. TypeOK'
  BY <1>2, <1>3 DEF TypeOK, TablesAreKept, Rows
<1>5. CalmRuns'
  BY <1>1, CalmRunsStayInOrder
<1> QED
  BY <1>2, <1>3, <1>4, <1>5 DEF SyncInv

LEMMA SyncInvariance == Spec => []SyncInv
BY InitSync, NextSync, PTL DEF Spec

\* Every variable keeps its type, whatever the files, the contents and the number
\* of runs.
THEOREM TypeCorrect == Spec => []TypeOK
<1>1. SyncInv => TypeOK
  BY DEF SyncInv
<1> QED
  BY <1>1, SyncInvariance, PTL

\* The live index is the projection of the archive after every transaction of
\* ingestion.py, in whatever order syncs, statements and rebuilds interleave.
THEOREM IndexFollows == Spec => []IndexFollowsArchive
<1>1. SyncInv => IndexFollowsArchive
  BY DEF SyncInv, TablesAreKept
<1> QED
  BY <1>1, SyncInvariance, PTL

-----------------------------------------------------------------------------
(* How a run ends *)

\* A run ends by finishing or by dying.
LEMMA RunsEnd ==
    ASSUME TypeOK, [Next]_vars, NEW s \in Syncs, run[s] # NotRunning, run'[s] = NotRunning,
           run[s].step = "next" \/ s \in calm'
    PROVE  FinishSync(s) \/ CrashSync(s)
<1>1. run \in [Syncs -> RunState] /\ NotRunning.step = "idle"
  BY DEF TypeOK, NotRunning
<1>2. ASSUME NEW t \in Syncs, t # s,
             \/ StartSync(t) \/ ReadFile(t) \/ IngestFile(t) \/ LoseFile(t)
             \/ FailFile(t) \/ FinishSync(t) \/ CrashSync(t)
      PROVE  FALSE
  <2>1. run'[s] = run[s]
    BY <1>1, <1>2
       DEF StartSync, ReadFile, IngestFile, LoseFile, FailFile, FinishSync, CrashSync
  <2> QED
    BY <2>1
<1>3. ASSUME StartSync(s) PROVE FALSE
  <2>1. run'[s].step = "next"
    BY <1>1, <1>3 DEF StartSync, NotRunning
  <2> QED
    BY <1>1, <2>1
<1>4. ASSUME ReadFile(s) PROVE FALSE
  <2>1. run'[s].step \in {"next", "read"}
    BY <1>1, <1>4 DEF ReadFile, FileDone, RunState
  <2> QED
    BY <1>1, <2>1
<1>5. ASSUME IngestFile(s) \/ LoseFile(s) \/ FailFile(s) PROVE FALSE
  <2>1. run'[s].step = "next"
    BY <1>1, <1>5 DEF IngestFile, LoseFile, FailFile, FileCounted, FileDone, RunState
  <2> QED
    BY <1>1, <2>1
<1>6. ASSUME run' = run PROVE FALSE
  BY <1>6
<1>7. ASSUME NEW p \in FilePaths, NEW c \in Contents \cup {None}, EditFile(p, c) PROVE FALSE
  <2>1. CASE c # None
    BY <1>6, <1>7, <2>1 DEF EditFile
  <2>2. CASE c = None
    <3>1. run'[s] = [run[s] EXCEPT !.present = @ \ {p}]
      BY <1>7, <2>2 DEF EditFile
    <3>2. run'[s].step = run[s].step
      BY <1>1, <3>1 DEF RunState
    <3> QED
      BY <1>1, <1>7, <3>2 DEF EditFile
  <2> QED
    BY <2>1, <2>2
<1> QED
  BY <1>2, <1>3, <1>4, <1>5, <1>6, <1>7 DEF Next, vars, Remember, Rehydrate

\* A sync never retires a file that was there all the time it ran: _delete_stale_paths
\* keeps what was listed and read, failed or not.
THEOREM PresentFilesStay == Spec => PresentFilesAreKept
<1> DEFINE Kept == \A s \in Syncs : run[s].step = "next" /\ run[s].todo = <<>> /\ run'[s] = NotRunning =>
                      \A p \in run[s].present : documents[p] # None => documents'[p] # None
<1>1. SyncInv /\ [Next]_vars => Kept
  <2> SUFFICES ASSUME SyncInv, [Next]_vars, NEW s \in Syncs,
                      run[s].step = "next", run[s].todo = <<>>, run'[s] = NotRunning,
                      NEW p \in run[s].present, documents[p] # None
               PROVE  documents'[p] # None
    OBVIOUS
  <2>1. TypeOK /\ TablesAreKept /\ RunsAreReal
    BY DEF SyncInv
  <2>2. run[s] # NotRunning
    BY DEF NotRunning
  <2>3. FinishSync(s) \/ CrashSync(s)
    BY <2>1, <2>2, RunsEnd
  <2>4. run[s] \in RunState /\ RunIsReal(run[s])
    BY <2>1, RunTypes
  <2>5. p \in Docs /\ p \in run[s].kept
    <3>1. p \in FilePaths
      BY <2>4 DEF RunState
    <3>2. Len(run[s].todo) = 0
      OBVIOUS
    <3> QED
      BY <2>4, <3>1, <3>2, SyncAssumption DEF RunIsReal
  <2>6. CASE documents' = documents
    BY <2>6
  <2>7. CASE Retire(run[s].kept)
    <3>1. Same(p)
      BY <2>1, <2>5, <2>7, RetireIndexes
    <3> QED
      BY <3>1 DEF Same
  <2> QED
    BY <2>3, <2>6, <2>7 DEF FinishSync, CrashSync, index
<1>2. Spec => [][Kept]_vars
  BY <1>1, SyncInvariance, PTL DEF Spec
<1> QED
  BY <1>2 DEF PresentFilesAreKept

\* A sync that nothing failed in or came between ends with the archive and the
\* index at what the directory holds, for every path the archive knows.
THEOREM UndisturbedSyncsMirror == Spec => ArchivedFilesAreMirrored
<1> DEFINE Mirrored == \A s \in Syncs : Finishes(s) =>
         \A p \in {q \in FilePaths : Predecessor(versions', q) # {}} :
            IF directory[p] = None THEN s \in Deleting => documents'[p] = None
            ELSE /\ documents'[p] = directory[p]
                 /\ \E v \in Predecessor(versions', p) : v.content = directory[p]
<1>1. SyncInv /\ [Next]_vars => Mirrored
  <2> SUFFICES ASSUME SyncInv, [Next]_vars, NEW s \in Syncs, Finishes(s),
                      NEW p \in FilePaths, Predecessor(versions', p) # {}
               PROVE  /\ directory[p] = None /\ s \in Deleting => documents'[p] = None
                      /\ directory[p] # None =>
                           /\ documents'[p] = directory[p]
                           /\ \E v \in Predecessor(versions', p) : v.content = directory[p]
    OBVIOUS
  <2>1. TypeOK /\ TablesAreKept /\ RunsAreReal /\ CalmRuns
    BY DEF SyncInv
  <2>2. run[s] # NotRunning /\ run'[s] = NotRunning /\ s \in calm /\ s \in calm'
    BY DEF Finishes
  <2>3. FinishSync(s)
    <3>1. FinishSync(s) \/ CrashSync(s)
      BY <2>1, <2>2, RunsEnd
    <3> QED
      BY <2>2, <3>1 DEF CrashSync
  <2>4. InOrder(s) /\ run[s].todo = <<>>
    BY <2>1, <2>2, <2>3 DEF FinishSync, CalmRuns
  <2>5. PICK o \in SupersessionOrders, k \in 0..Cardinality(Files) : At(s, o, k)
    BY <2>4 DEF InOrder
  <2>6. k = Cardinality(Files) /\ run[s].kept \subseteq Files
    <3>1. Len(run[s].todo) = 0
      BY <2>4
    <3> QED
      BY <2>5, <3>1, FilesAreFinite DEF At
  <2>7. p \in Docs
    BY SyncAssumption
  <2>8. CASE directory[p] = None
    <3>1. p \notin run[s].kept
      BY <2>6, <2>8 DEF Files
    <3>2. CASE s \in Deleting
      <4>1. Retire(run[s].kept)
        BY <2>3, <3>2 DEF FinishSync
      <4> QED
        BY <2>1, <2>7, <2>8, <3>1, <4>1, RetireIndexes
    <3> QED
      BY <2>8, <3>2
  <2>9. CASE directory[p] # None
    <3>1. p \in Files
      BY <2>9 DEF Files
    <3>2. PICK i \in 1..k : o[i] = p
      BY <2>6, <3>1, OrdersList
    <3>3. p \in run[s].kept /\ Done(p)
      BY <2>5, <3>2 DEF At
    <3>4. Same(p)
      <4>1. CASE s \in Deleting
        <5>1. Retire(run[s].kept)
          BY <2>3, <4>1 DEF FinishSync
        <5> QED
          BY <2>1, <2>7, <3>3, <5>1, RetireIndexes
      <4>2. CASE s \notin Deleting
        BY <2>3, <4>2 DEF FinishSync, index, archive, Same
      <4> QED
        BY <4>1, <4>2
    <3>5. Current(p)
      BY <3>3, <3>4 DEF Done, Same
    <3> QED
      BY <2>9, <3>4, <3>5 DEF Current, Archived, Same
  <2> QED
    BY <2>8, <2>9
<1>2. Spec => [][Mirrored]_vars
  BY <1>1, SyncInvariance, PTL DEF Spec
<1> QED
  BY <1>2 DEF ArchivedFilesAreMirrored
-----------------------------------------------------------------------------
(* The order in which a run takes its files *)

LEMMA LeastIsOne ==
    ASSUME NEW S \in SUBSET Files, S # {}
    PROVE  Least(S) \in S
<1> DEFINE R == {e \in S \X S : Rank[e[1]] < Rank[e[2]]}
<1>1. IsFiniteSet(S) /\ \A p \in S : Rank[p] \in Nat
  BY FilesAreFinite, FS_Subset, SyncAssumption
<1>2. \A a, b \in S : <<a, b>> \in R <=> Rank[a] < Rank[b]
  OBVIOUS
<1> HIDE DEF R
<1>3. \A a \in S : <<a, a>> \notin R
  BY <1>1, <1>2
<1>4. \A a, b, c \in S : <<a, b>> \in R /\ <<b, c>> \in R => <<a, c>> \in R
  BY <1>1, <1>2
<1>5. PICK m \in S : \A u \in S : <<u, m>> \notin R
  BY <1>1, <1>3, <1>4, MinimalElement
<1>6. ASSUME NEW u \in S PROVE Rank[m] <= Rank[u]
  <2>1. Rank[m] \in Nat /\ Rank[u] \in Nat /\ ~(Rank[u] < Rank[m])
    BY <1>1, <1>2, <1>5
  <2> QED
    BY <2>1
<1> QED
  BY <1>6 DEF Least

\* What the files upstream of p name is upstream of p.
LEMMA UpstreamCloses ==
    /\ \A p : Named(p) \subseteq Upstream(p) /\ Upstream(p) \subseteq Files
    /\ \A p, q : q \in Upstream(p) => Upstream(q) \subseteq Upstream(p)
<1>1. \A p : Named(p) \subseteq Files
  BY DEF Named
<1>2. \A p : Named(p) \subseteq Upstream(p) /\ Upstream(p) \subseteq Files
  BY <1>1 DEF Upstream
<1>3. ASSUME NEW p, NEW q \in Upstream(p), NEW r \in Upstream(q)
      PROVE  r \in Upstream(p)
  <2> SUFFICES ASSUME NEW S \in SUBSET Files, Named(p) \subseteq S,
                      \A x \in S : Named(x) \subseteq S
               PROVE  r \in S
    BY <1>2, <1>3 DEF Upstream
  <2>1. q \in S
    BY <1>3 DEF Upstream
  <2>2. Named(q) \subseteq S
    BY <2>1
  <2> QED
    BY <1>3, <2>2 DEF Upstream
<1> QED
  BY <1>2, <1>3

\* When every file that is left names a file that is left, each of them hangs on
\* a cycle.
LEMMA StuckFilesHangOnCycles ==
    ASSUME NEW L \in SUBSET Files, \A p \in L : Named(p) \cap L # {}, NEW r \in L
    PROVE  InCycle(r)
<1> SUFFICES ASSUME ~InCycle(r) PROVE FALSE
  OBVIOUS
<1> DEFINE U == ({r} \cup Upstream(r)) \cap L
           R == {e \in U \X U : e[1] \in Upstream(e[2])}
<1>1. \A q \in U : q \notin Upstream(q)
  BY DEF InCycle
<1>2. IsFiniteSet(U) /\ U # {}
  BY FilesAreFinite, FS_Subset
<1>3. \A a, b \in U : <<a, b>> \in R <=> a \in Upstream(b)
  OBVIOUS
<1>4. \A q \in U : q \in L /\ (q = r \/ q \in Upstream(r))
  OBVIOUS
<1>5. \A q \in L : q \in Upstream(r) => q \in U
  OBVIOUS
<1> HIDE DEF U, R
<1>6. \A a \in U : <<a, a>> \notin R
  BY <1>1, <1>3
<1>7. \A a, b, c \in U : <<a, b>> \in R /\ <<b, c>> \in R => <<a, c>> \in R
  BY <1>3, UpstreamCloses
<1>8. PICK m \in U : \A u \in U : <<u, m>> \notin R
  BY <1>2, <1>6, <1>7, MinimalElement
<1>9. PICK q \in Named(m) : q \in L
  BY <1>4, <1>8
<1>10. q \in Upstream(m)
  BY UpstreamCloses
<1>11. q \in Upstream(r)
  BY <1>4, <1>10, UpstreamCloses
<1> QED
  BY <1>3, <1>5, <1>8, <1>9, <1>10, <1>11

\* Whatever comes after a file in the order and is named by it hangs on a cycle.
LEMMA LaterNamesHangOnCycles ==
    ASSUME NEW o \in SupersessionOrders, NEW i \in DOMAIN o,
           NEW r \in Named(o[i]), \A j \in 1..(i - 1) : o[j] # r
    PROVE  InCycle(r)
<1>1. i \in Int /\ DOMAIN o = 1..Cardinality(Files) /\ o[i] \in Files
  BY OrdersList, FilesAreFinite
<1>2. r \in Left(o, i)
  BY DEF Named, Left
<1>3. o[i] = Least(IF \E j \in 1..i : Ready(o, j) = {} THEN Left(o, i) ELSE Ready(o, i))
  BY DEF SupersessionOrders
<1>4. CASE \E j \in 1..i : Ready(o, j) = {}
  <2>1. PICK j \in 1..i : Ready(o, j) = {}
    BY <1>4
  <2>2. Left(o, j) \in SUBSET Files /\ r \in Left(o, j)
    <3>1. \A h \in 1..(j - 1) : h \in 1..(i - 1)
      BY <1>1
    <3> QED
      BY <1>2, <3>1 DEF Left
  <2>3. \A p \in Left(o, j) : Named(p) \cap Left(o, j) # {}
    BY <2>1 DEF Ready
  <2> QED
    BY <2>2, <2>3, StuckFilesHangOnCycles
<1>5. CASE \A j \in 1..i : Ready(o, j) # {}
  <2>1. i \in 1..i
    BY <1>1
  <2>2. Ready(o, i) # {} /\ Ready(o, i) \in SUBSET Files
    BY <1>5, <2>1 DEF Ready, Left
  <2>3. o[i] \in Ready(o, i)
    <3>1. o[i] = Least(Ready(o, i))
      BY <1>3, <1>5
    <3> QED
      BY <2>2, <3>1, LeastIsOne
  <2>4. Named(o[i]) \cap Left(o, i) = {}
    BY <2>3 DEF Ready
  <2> QED
    BY <1>2, <2>4
<1> QED
  BY <1>4, <1>5

\* When an undisturbed sync ingests a file, what it names is in the archive already,
\* unless that hangs on a cycle: _supersession_order.
THEOREM ReferencesComeFirst == Spec => []ReferencedFilesComeFirst
<1>1. SyncInv => ReferencedFilesComeFirst
  <2> SUFFICES ASSUME SyncInv, NEW s \in calm, run[s].step = "read",
                      NEW r \in Named(Head(run[s].todo)),
                      ~InCycle(r), Authored(directory[r]) # {}
               PROVE  \E v \in Archived(r) : v.content = directory[r]
    BY DEF ReferencedFilesComeFirst
  <2>1. TypeOK /\ RunsAreReal /\ InOrder(s) /\ s \in Syncs
    BY DEF SyncInv, CalmRuns, TypeOK
  <2>2. PICK o \in SupersessionOrders, k \in 0..Cardinality(Files) : At(s, o, k)
    BY <2>1 DEF InOrder
  <2>3. run[s] \in RunState /\ run[s].todo # <<>>
    BY <2>1, RunTypes DEF RunIsReal
  <2>4. Head(run[s].todo) = run[s].todo[1] /\ Len(run[s].todo) \in Nat \ {0}
    BY <2>3, TodoParts
  <2>5. k + 1 \in DOMAIN o /\ Head(run[s].todo) = o[k + 1]
    <3>1. k < Cardinality(Files) /\ Cardinality(Files) \in Nat
      BY <2>2, FilesAreFinite DEF At
    <3>2. k + 1 \in DOMAIN o
      BY <3>1, OrdersList
    <3>3. run[s].todo[1] = o[k + 1]
      BY <2>2, <2>4 DEF At
    <3> QED
      BY <2>4, <3>2, <3>3
  <2>6. PICK i \in 1..((k + 1) - 1) : o[i] = r
    <3>1. r \in Named(o[k + 1])
      BY <2>5
    <3> QED
      BY <2>5, <3>1, LaterNamesHangOnCycles
  <2>7. Done(r)
    <3>1. i \in 1..k
      OBVIOUS
    <3> QED
      BY <2>2, <2>6, <3>1 DEF At
  <2> QED
    BY <2>7 DEF Done, Current
<1> QED
  BY <1>1, SyncInvariance, PTL


=============================================================================
