------------------------ MODULE ArchiveSerialProofs ------------------------
(***************************************************************************)
(* MemoryArchive implements SerialArchive, and what follows of snapshots,  *)
(* replays and topic keys: theorems about what a commit publishes.         *)
(*                                                                         *)
(* The invariant says of every session at work that what it has staged is  *)
(* one serial step's worth of rows, computed from the committed tables.    *)
(* It holds whatever the clock does; that the rows are also stamped later  *)
(* than everything committed needs a clock that advances.                  *)
(***************************************************************************)
EXTENDS MemoryArchiveProofs

\* Two readings of the clock are never the same, nor in the wrong order.
ClockAdvances == \A d \in ClockSteps : d > 0

-----------------------------------------------------------------------------
(* Both specifications decide with the same operators *)

LEMMA SerialWrites ==
    \A V, C, d, content, rq, t :
        Serial!Writes(V, C, d, content, rq, t) = Writes(V, C, d, content, rq, t)
<1>0. \A S : Serial!Cardinality(S) = Cardinality(S)
  BY DEF Serial!Cardinality, Cardinality
<1>1. \A v : Serial!VersionId(v) = VersionId(v)
  BY DEF Serial!VersionId, VersionId
<1>2. \A c : Serial!ClaimId(c) = ClaimId(c)
  BY DEF Serial!ClaimId, ClaimId
<1>3. \A V, v : Serial!IsLatest(V, v) = IsLatest(V, v)
  BY DEF Serial!IsLatest, IsLatest
<1>4. \A C, v : Serial!ClaimsOf(C, v) = ClaimsOf(C, v)
  BY DEF Serial!ClaimsOf, ClaimsOf
<1>5. \A V, C : Serial!Live(V, C) = Live(V, C)
  BY <1>1, <1>2, <1>3 DEF Serial!Live, Live, Serial!Retired, Retired
<1>6. \A V, C, d : Serial!LiveElsewhere(V, C, d) = LiveElsewhere(V, C, d)
  BY <1>5 DEF Serial!LiveElsewhere, LiveElsewhere
<1>7. \A k, c, b : Serial!Edge(k, c, b) = Edge(k, c, b)
  BY <1>2 DEF Serial!Edge, Edge
<1>8. \A V, C, d, K, ref : Serial!ExplicitTargets(V, C, d, K, ref) = ExplicitTargets(V, C, d, K, ref)
  BY <1>2, <1>6, <1>7 DEF Serial!ExplicitTargets, ExplicitTargets
<1>9. \A V, C, d, topic : Serial!TopicTargets(V, C, d, topic) = TopicTargets(V, C, d, topic)
  <2> SUFFICES ASSUME NEW V, NEW C, NEW d, NEW topic
               PROVE  Serial!TopicTargets(V, C, d, topic) = TopicTargets(V, C, d, topic)
    OBVIOUS
  <2>1. PICK live : live = {c \in LiveElsewhere(V, C, d) : c.key = topic}
    OBVIOUS
  <2>2. \A S : {{Serial!Edge(topic, c, "topic_key")} : c \in S} = {{Edge(topic, c, "topic_key")} : c \in S}
    BY <1>7
  <2>3. TopicTargets(V, C, d, topic) =
          IF live = {} THEN {{}}
          ELSE {{Edge(topic, c, "topic_key")} : c \in {x \in live : live = {x}}}
    BY <2>1 DEF TopicTargets
  <2>4. Serial!TopicTargets(V, C, d, topic) =
          IF live = {} THEN {{}}
          ELSE {{Serial!Edge(topic, c, "topic_key")} : c \in {x \in live : live = {x}}}
    BY <1>6, <2>1 DEF Serial!TopicTargets
  <2> QED
    BY <2>2, <2>3, <2>4
<1>10. \A V, C, d, ref : Serial!RefTargets(V, C, d, ref) = RefTargets(V, C, d, ref)
  BY <1>6 DEF Serial!RefTargets, RefTargets
<1>11. \A K, T : Serial!Pairings(K, T) = Pairings(K, T)
  BY <1>2, <1>7 DEF Serial!Pairings, Pairings
<1>12. \A V, C, d, K, refs : Serial!DeclaredTargets(V, C, d, K, refs) = DeclaredTargets(V, C, d, K, refs)
  <2> SUFFICES ASSUME NEW V, NEW C, NEW d, NEW K, NEW refs
               PROVE  Serial!DeclaredTargets(V, C, d, K, refs) = DeclaredTargets(V, C, d, K, refs)
    OBVIOUS
  <2> DEFINE Paired(T) ==
               IF \E r \in refs \cap Keys : Cardinality(RefTargets(V, C, d, r)) > 1 THEN {} ELSE Pairings(K, T)
  <2>1. UNION {Serial!RefTargets(V, C, d, r) : r \in refs} = UNION {RefTargets(V, C, d, r) : r \in refs}
    BY <1>10
  <2>2. Serial!DeclaredTargets(V, C, d, K, refs) = Paired(UNION {Serial!RefTargets(V, C, d, r) : r \in refs})
    BY <1>0, <1>10, <1>11 DEF Serial!DeclaredTargets
  <2>3. DeclaredTargets(V, C, d, K, refs) = Paired(UNION {RefTargets(V, C, d, r) : r \in refs})
    BY DEF DeclaredTargets
  <2> HIDE DEF Paired
  <2> QED
    BY <2>1, <2>2, <2>3
<1>13. \A V, C, d, K, rq : Serial!CrossTargets(V, C, d, K, rq) = CrossTargets(V, C, d, K, rq)
  BY <1>8, <1>9, <1>12 DEF Serial!CrossTargets, CrossTargets
<1>14. \A V, d : Serial!Predecessor(V, d) = Predecessor(V, d)
  BY <1>3 DEF Serial!Predecessor, Predecessor
<1>15. \A prev : Serial!NewEvent(prev) = NewEvent(prev)
  BY DEF Serial!NewEvent, NewEvent
<1>16. \A prev, d, e, c, t : Serial!NewVersion(prev, d, e, c, t) = NewVersion(prev, d, e, c, t)
  BY DEF Serial!NewVersion, NewVersion
<1>17. \A c : Serial!Authored(c) = Authored(c)
  BY DEF Serial!Authored, Authored
<1>18. \A C, prev, K : Serial!SameDocumentEdges(C, prev, K) = SameDocumentEdges(C, prev, K)
  <2> SUFFICES ASSUME NEW C, NEW prev, NEW K
               PROVE  Serial!SameDocumentEdges(C, prev, K) = SameDocumentEdges(C, prev, K)
    OBVIOUS
  <2>1. UNION {Serial!ClaimsOf(C, p) : p \in prev} = UNION {ClaimsOf(C, p) : p \in prev}
    BY <1>4
  <2> DEFINE Single(old) == /\ \E k \in K, c \in old : K = {k} /\ old = {c}
                            /\ K \cup {c.key : c \in old} \subseteq TextKeys
             One(old)  == {Edge(k, c, "single_claim_replacement") : k \in K, c \in old}
             Many(old) == {Edge(c.key, c, "same_document_key") : c \in {x \in old : x.key \in K}}
             SerialOne(old)  == {Serial!Edge(k, c, "single_claim_replacement") : k \in K, c \in old}
             SerialMany(old) ==
               {Serial!Edge(c.key, c, "same_document_key") : c \in {x \in old : x.key \in K}}
             Edges(old)       == IF Single(old) THEN One(old) ELSE Many(old)
             SerialEdges(old) == IF Single(old) THEN SerialOne(old) ELSE SerialMany(old)
  <2>2. Serial!SameDocumentEdges(C, prev, K) = SerialEdges(UNION {Serial!ClaimsOf(C, p) : p \in prev})
    BY <1>0 DEF Serial!SameDocumentEdges
  <2>3. SameDocumentEdges(C, prev, K) = Edges(UNION {ClaimsOf(C, p) : p \in prev})
    BY DEF SameDocumentEdges
  <2>4. ASSUME NEW old PROVE SerialOne(old) = One(old) /\ SerialMany(old) = Many(old)
    BY <1>7
  <2> HIDE DEF Single, One, Many, SerialOne, SerialMany
  <2> QED
    BY <2>1, <2>2, <2>3, <2>4
<1>19. \A C, prev, v, cross : Serial!NewClaims(C, prev, v, cross) = NewClaims(C, prev, v, cross)
  BY <1>17, <1>18 DEF Serial!NewClaims, NewClaims
<1>20. \A prev, v : Serial!AdmitsVersion(prev, v) = AdmitsVersion(prev, v)
  BY DEF Serial!AdmitsVersion, AdmitsVersion
<1>21. \A V, C, prev, v, c : Serial!AdmitsClaim(V, C, prev, v, c) = AdmitsClaim(V, C, prev, v, c)
  BY <1>1, <1>2, <1>4 DEF Serial!AdmitsClaim, AdmitsClaim, Serial!CrossBases, CrossBases
<1> QED
  <2> SUFFICES ASSUME NEW V, NEW C, NEW d, NEW content, NEW rq, NEW t
               PROVE  Serial!Writes(V, C, d, content, rq, t) = Writes(V, C, d, content, rq, t)
    OBVIOUS
  <2> DEFINE W(prev, v, X) ==
               {[version |-> v, claims |-> new] : new \in
                 {R \in {NewClaims(C, prev, v, cross) : cross \in X} :
                    /\ AdmitsVersion(prev, v)
                    /\ \A c \in R : AdmitsClaim(V \cup {v}, C \cup R, prev, v, c)}}
             SerialW(prev, v, X) ==
               {[version |-> v, claims |-> new] : new \in
                 {R \in {Serial!NewClaims(C, prev, v, cross) : cross \in X} :
                    /\ Serial!AdmitsVersion(prev, v)
                    /\ \A c \in R : Serial!AdmitsClaim(V \cup {v}, C \cup R, prev, v, c)}}
  <2>1. Writes(V, C, d, content, rq, t) =
          W(Predecessor(V, d), NewVersion(Predecessor(V, d), d, NewEvent(Predecessor(V, d)), content, t),
            CrossTargets(V, C, d, Authored(content), rq))
    BY DEF Writes
  <2>2. Serial!Writes(V, C, d, content, rq, t) =
          SerialW(Serial!Predecessor(V, d),
                  Serial!NewVersion(Serial!Predecessor(V, d), d, Serial!NewEvent(Serial!Predecessor(V, d)),
                                    content, t),
                  Serial!CrossTargets(V, C, d, Serial!Authored(content), rq))
    BY DEF Serial!Writes
  <2>3. ASSUME NEW prev, NEW v, NEW X PROVE SerialW(prev, v, X) = W(prev, v, X)
    <3>1. {Serial!NewClaims(C, prev, v, cross) : cross \in X} = {NewClaims(C, prev, v, cross) : cross \in X}
      BY <1>19
    <3>2. \A R : (\A c \in R : Serial!AdmitsClaim(V \cup {v}, C \cup R, prev, v, c))
                 <=> (\A c \in R : AdmitsClaim(V \cup {v}, C \cup R, prev, v, c))
      BY <1>21
    <3> QED
      BY <1>20, <3>1, <3>2
  <2> HIDE DEF W, SerialW
  <2> QED
    BY <1>13, <1>14, <1>15, <1>16, <1>17, <2>1, <2>2, <2>3

LEMMA SerialTombstones == \A V, d, t : Serial!Tombstones(V, d, t) = Tombstones(V, d, t)
BY DEF Serial!Tombstones, Tombstones, Serial!Predecessor, Predecessor, Serial!IsLatest, IsLatest,
       Serial!NewVersion, NewVersion, Serial!AdmitsVersion, AdmitsVersion

LEMMA SerialUnchanged == \A V, d, content : Serial!Unchanged(V, d, content) <=> Unchanged(V, d, content)
BY DEF Serial!Unchanged, Unchanged, Serial!Predecessor, Predecessor, Serial!IsLatest, IsLatest

LEMMA SerialMembers == \A V, t : Serial!Members(V, t) = Members(V, t)
BY DEF Serial!Members, Members, Serial!Loaded, Loaded, Serial!VersionId, VersionId

-----------------------------------------------------------------------------
(* What an open transaction has staged *)

\* Later than what is committed, if the clock advances.
Timely(t) == ClockAdvances => Serial!Fresh(t)

\* Everything inserted so far carries a past reading, if the clock advances.
StampsPast ==
    /\ clock \in 0..MaxClock
    /\ ClockAdvances =>
         /\ \A v \in versions : v.observed <= clock
         /\ \A n \in snapshots : n.asof <= clock
         /\ \A s \in Sessions : /\ \A v \in staged[s].versions : v.observed <= clock
                                /\ \A n \in staged[s].snapshots : n.asof <= clock

\* What a session has staged, table by table.
StagedRowsAre(s, v, c, n) ==
    staged[s].versions = v /\ staged[s].claims = c /\ staged[s].snapshots = n

\* One serial write.
WriteStaged(s, d, content, rq, t) ==
    /\ ~Unchanged(versions, d, content)
    /\ Timely(t)
    /\ \E w \in Writes(versions, claims, d, content, rq, t) :
         StagedRowsAre(s, {w.version}, w.claims, {})

\* The tombstones of a set of documents.
DeletionStaged(s, gone, at) ==
    /\ \A d \in gone : Timely(at[d]) /\ Tombstones(versions, d, at[d]) # {}
    /\ StagedRowsAre(s, UNION {Tombstones(versions, d, at[d]) : d \in gone}, {}, {})

\* A snapshot of the committed versions, at a cutoff nobody has captured.
CaptureStaged(s, asof, t) ==
    /\ \A n \in snapshots : n.asof # asof
    /\ StagedRowsAre(s, {}, {},
                     {[asof |-> asof, observed |-> t, members |-> Members(versions, asof)]})

\* What a session at work has staged is nothing or one serial step.
StagedSerially(s) ==
    /\ phase[s] \in {"written", "deleting", "snapshotted"} => registered
    /\ phase[s] = "erasing" => staged[s] = Nothing
    /\ phase[s] = "written" =>
         \/ staged[s] = Nothing
         \/ \E d \in Docs, content \in Contents, rq \in Requests, t \in 0..MaxClock :
              WriteStaged(s, d, content, rq, t)
    /\ phase[s] = "deleting" =>
         \E gone \in SUBSET Docs : \E at \in [gone -> 0..MaxClock] : DeletionStaged(s, gone, at)
    /\ phase[s] = "snapshotted" =>
         \/ staged[s] = Nothing
         \/ \E asof \in 0..MaxClock : \E t \in asof..MaxClock : CaptureStaged(s, asof, t)

EmptyUnlessRegistered == ~registered => versions = {} /\ claims = {} /\ snapshots = {}

SerialInv ==
    /\ ArchiveInv
    /\ StampsPast
    /\ \A s \in Sessions : StagedSerially(s)
    /\ EmptyUnlessRegistered

LEMMA InitSerialInv == Init => SerialInv
<1> SUFFICES ASSUME Init PROVE SerialInv
  OBVIOUS
<1>1. StampsPast
  BY ArchiveAssumption DEF Init, StampsPast, Nothing
<1>2. (\A s \in Sessions : StagedSerially(s)) /\ EmptyUnlessRegistered
  BY DEF Init, StagedSerially, EmptyUnlessRegistered
<1> QED
  BY <1>1, <1>2, InitArchiveInv DEF SerialInv

\* A reading of a clock that advances is later than everything inserted before.
LEMMA ReadingIsTimely ==
    ASSUME SerialInv, NEW t \in 0..MaxClock, Reading(t)
    PROVE  Timely(t) /\ (ClockAdvances => clock <= t)
<1>1. ASSUME ClockAdvances PROVE clock < t
  BY <1>1, ArchiveAssumption DEF Reading, ClockAdvances, SerialInv, StampsPast
<1>2. ASSUME ClockAdvances PROVE Serial!Fresh(t)
  <2>1. \A v \in versions : v.observed \in Int
    BY DEF SerialInv, ArchiveInv, TypeOK, Version
  <2>2. \A n \in snapshots : n.asof \in Int
    BY DEF SerialInv, ArchiveInv, TypeOK, Snapshot
  <2> QED
    BY <1>1, <1>2, <2>1, <2>2 DEF SerialInv, StampsPast, Serial!Fresh
<1> QED
  BY <1>1, <1>2, ArchiveAssumption DEF Timely, SerialInv, StampsPast

\* What somebody else does without committing leaves a session's work serial.
LEMMA StagedSeriallyStays ==
    ASSUME NEW s \in Sessions, StagedSerially(s),
           versions' = versions, claims' = claims, snapshots' = snapshots,
           registered => registered', phase'[s] = phase[s], staged'[s] = staged[s]
    PROVE  StagedSerially(s)'
<1>1. \A t : Timely(t)' = Timely(t)
  BY DEF Timely, Serial!Fresh
<1>2. \A d, content, rq, t : WriteStaged(s, d, content, rq, t) => WriteStaged(s, d, content, rq, t)'
  BY <1>1 DEF WriteStaged, StagedRowsAre
<1>3. \A gone, at : DeletionStaged(s, gone, at) => DeletionStaged(s, gone, at)'
  BY <1>1 DEF DeletionStaged, StagedRowsAre
<1>4. \A asof, t : CaptureStaged(s, asof, t) => CaptureStaged(s, asof, t)'
  BY DEF CaptureStaged, StagedRowsAre
<1> QED
  BY <1>2, <1>3, <1>4 DEF StagedSerially

-----------------------------------------------------------------------------
(* Stamps stay in the past *)

LEMMA StampedStep ==
    ASSUME SerialInv, NEW s \in Sessions, NEW t \in 0..MaxClock, clock' = t,
           ClockAdvances => clock <= t, versions' = versions, snapshots' = snapshots,
           NEW v \in SUBSET Version, NEW c, NEW n \in SUBSET Snapshot, Stage(s, v, c, n),
           \A x \in v : x.observed <= t, \A x \in n : x.asof <= t
    PROVE  StampsPast'
<1>0. /\ \A x \in versions : x.observed \in Int
      /\ \A x \in snapshots : x.asof \in Int
      /\ \A q \in Sessions : /\ \A x \in staged[q].versions : x.observed \in Int
                             /\ \A x \in staged[q].snapshots : x.asof \in Int
      /\ clock \in Int /\ t \in Int /\ StampsPast
  BY ArchiveAssumption DEF SerialInv, StampsPast, ArchiveInv, TypeOK, Version, Snapshot
<1>1. ASSUME NEW q \in Sessions
      PROVE  /\ staged'[q].versions \subseteq staged[q].versions \cup v
             /\ staged'[q].snapshots \subseteq staged[q].snapshots \cup n
  BY DEF Stage, SerialInv, ArchiveInv, TypeOK
<1>2. ASSUME ClockAdvances
      PROVE  /\ \A x \in versions' : x.observed <= clock'
             /\ \A x \in snapshots' : x.asof <= clock'
  BY <1>0, <1>2 DEF StampsPast
<1>3. ASSUME ClockAdvances, NEW q \in Sessions
      PROVE  /\ \A x \in staged'[q].versions : x.observed <= clock'
             /\ \A x \in staged'[q].snapshots : x.asof <= clock'
  BY <1>0, <1>1, <1>3 DEF StampsPast
<1> QED
  BY <1>2, <1>3 DEF StampsPast

LEMMA NextStampsPast == SerialInv /\ [Next]_vars => StampsPast'
<1> SUFFICES ASSUME SerialInv, [Next]_vars PROVE StampsPast'
  OBVIOUS
<1>i. TypeOK /\ LockHeld /\ TablesSound /\ StampsPast
  BY DEF SerialInv, ArchiveInv
<1>t. \A t \in 0..MaxClock : t \in Int
  BY ArchiveAssumption
<1>1. ASSUME versions' = versions, snapshots' = snapshots, staged' = staged, clock' = clock
      PROVE  StampsPast'
  BY <1>1, <1>i DEF StampsPast
<1>2. ASSUME NEW s \in Sessions,
             \/ QueueForLock(s) \/ AcquireLock(s) \/ Abandon(s) \/ Erase(s)
             \/ \E d \in Docs, content \in Contents : RecordUnchanged(s, d, content)
      PROVE  StampsPast'
  BY <1>1, <1>2 DEF QueueForLock, AcquireLock, Abandon, Erase, RecordUnchanged, tables
<1>3. ASSUME NEW s \in Sessions, NEW d \in Docs, NEW content \in Contents,
             NEW rq \in Requests, RecordVersion(s, d, content, rq)
      PROVE  StampsPast'
  <2>1. PICK t \in 0..MaxClock :
          /\ Reading(t) /\ clock' = t
          /\ \E w \in Writes(VisibleVersions(s), VisibleClaims(s), d, content, rq, t) :
               Stage(s, {w.version}, w.claims, {})
    BY <1>3 DEF RecordVersion
  <2>2. PICK w \in Writes(VisibleVersions(s), VisibleClaims(s), d, content, rq, t) :
          Stage(s, {w.version}, w.claims, {})
    BY <2>1
  <2>3. Shaped(VisibleVersions(s), VisibleClaims(s), d, content, t, w)
    BY <1>i, <1>t, VisibleType, WriteShape, ArchiveAssumption
  <2>4. w.version \in Version /\ w.version.observed = t
    BY <2>3, NextNumber DEF Shaped
  <2>5. versions' = versions /\ snapshots' = snapshots
    BY <1>3 DEF RecordVersion, tables
  <2>6. {w.version} \in SUBSET Version /\ {} \in SUBSET Snapshot
        /\ \A x \in {w.version} : x.observed <= t
    BY <1>t, <2>4
  <2> QED
    BY <2>1, <2>2, <2>5, <2>6, ReadingIsTimely, StampedStep
<1>4. ASSUME NEW s \in Sessions, NEW d \in Docs, RecordDeletion(s, d) PROVE StampsPast'
  <2>1. PICK t \in 0..MaxClock :
          /\ Reading(t) /\ clock' = t
          /\ \E v \in Tombstones(VisibleVersions(s), d, t) : Stage(s, {v}, {}, {})
    BY <1>4 DEF RecordDeletion
  <2>2. PICK v \in Tombstones(VisibleVersions(s), d, t) : Stage(s, {v}, {}, {})
    BY <2>1
  <2>3. v \in Version /\ v.observed = t
    <3>1. v \in Version /\ v = NewVersion(Predecessor(VisibleVersions(s), d), d, "DELETED", None, t)
      BY <1>i, <1>t, VisibleType, TombstoneShape
    <3> QED
      BY <3>1, NextNumber
  <2>4. versions' = versions /\ snapshots' = snapshots
    BY <1>4 DEF RecordDeletion, tables
  <2>5. {v} \in SUBSET Version /\ {} \in SUBSET Snapshot /\ \A x \in {v} : x.observed <= t
    BY <1>t, <2>3
  <2> QED
    BY <2>1, <2>2, <2>4, <2>5, ReadingIsTimely, StampedStep
<1>5. ASSUME NEW s \in Sessions, NEW asof \in Cutoffs, TakeSnapshot(s, asof) PROVE StampsPast'
  <2> DEFINE cutoff(t) == IF asof = None THEN t ELSE asof
             new(t) == [asof |-> cutoff(t), observed |-> t,
                        members |-> Members(VisibleVersions(s), cutoff(t))]
  <2>1. PICK t \in 0..MaxClock :
          /\ Reading(t) /\ clock' = t /\ cutoff(t) <= t
          /\ \E n \in {{}, {new(t)}} : Stage(s, {}, {}, n)
    BY <1>5 DEF TakeSnapshot
  <2>2. cutoff(t) \in Int
    BY <1>t, ArchiveAssumption
  <2>3. Members(VisibleVersions(s), cutoff(t)) \in SUBSET VersionRef
    BY <1>i, VisibleType DEF Members, Loaded, VersionId, VersionRef, Version
  <2>4. new(t) \in Snapshot /\ new(t).asof <= t
    BY <1>t, <2>1, <2>2, <2>3 DEF Snapshot
  <2>5. versions' = versions /\ snapshots' = snapshots
    BY <1>5 DEF TakeSnapshot, tables
  <2> HIDE DEF new
  <2>6. PICK n \in {{}, {new(t)}} : Stage(s, {}, {}, n)
    BY <2>1
  <2>7. {} \in SUBSET Version /\ n \in SUBSET Snapshot /\ \A x \in n : x.asof <= t
    BY <2>4
  <2> QED
    BY <2>1, <2>5, <2>6, <2>7, ReadingIsTimely, StampedStep
<1>6. ASSUME NEW s \in Sessions, Commit(s) \/ Rollback(s) PROVE StampsPast'
  <2>1. \A q \in Sessions : staged'[q] = Nothing
    BY <1>6, <1>i DEF Commit, Rollback, End, LockHeld, Working, TypeOK
  <2>2. /\ versions' \subseteq versions \cup staged[s].versions
        /\ snapshots' \subseteq snapshots \cup staged[s].snapshots
        /\ clock' = clock
    BY <1>6 DEF Commit, Rollback, VisibleVersions, tables
  <2> QED
    BY <1>i, <2>1, <2>2 DEF StampsPast, Nothing
<1>7. ASSUME Tick PROVE StampsPast'
  <2>1. PICK t \in 0..MaxClock : Reading(t) /\ clock' = t
    BY <1>7 DEF Tick
  <2>2. /\ \A x \in versions : x.observed \in Int
        /\ \A x \in snapshots : x.asof \in Int
        /\ \A q \in Sessions : /\ \A x \in staged[q].versions : x.observed \in Int
                               /\ \A x \in staged[q].snapshots : x.asof \in Int
        /\ clock \in Int /\ t \in Int
    BY <1>i, <1>t DEF TypeOK, Version, Snapshot
  <2>3. versions' = versions /\ snapshots' = snapshots /\ staged' = staged
    BY <1>7 DEF Tick, tables
  <2>4. ClockAdvances => clock <= t
    BY <2>1, ReadingIsTimely
  <2>5. ASSUME ClockAdvances
        PROVE  /\ \A v \in versions' : v.observed <= clock'
               /\ \A n \in snapshots' : n.asof <= clock'
    BY <1>i, <2>1, <2>2, <2>3, <2>4, <2>5 DEF StampsPast
  <2>6. ASSUME ClockAdvances, NEW q \in Sessions
        PROVE  /\ \A v \in staged'[q].versions : v.observed <= clock'
               /\ \A n \in staged'[q].snapshots : n.asof <= clock'
    BY <1>i, <2>1, <2>2, <2>3, <2>4, <2>6 DEF StampsPast
  <2> QED
    BY <2>1, <2>5, <2>6 DEF StampsPast
<1>8. ASSUME CreateCorpus \/ UNCHANGED vars PROVE StampsPast'
  BY <1>1, <1>8 DEF CreateCorpus, vars
<1> QED
  BY <1>2, <1>3, <1>4, <1>5, <1>6, <1>7, <1>8 DEF Next, Work

-----------------------------------------------------------------------------
(* A session at work has one serial step staged *)

LEMMA StagedAfter ==
    ASSUME TypeOK, NEW s \in Sessions, NEW v, NEW c, NEW n, Stage(s, v, c, n)
    PROVE  /\ staged'[s].versions = staged[s].versions \cup v
           /\ staged'[s].claims = staged[s].claims \cup c
           /\ staged'[s].snapshots = staged[s].snapshots \cup n
           /\ \A q \in Sessions \ {s} : staged'[q] = staged[q]
BY DEF TypeOK, Stage

LEMMA RecordStagesWrite ==
    ASSUME SerialInv, NEW s \in Sessions, NEW d \in Docs, NEW content \in Contents,
           NEW rq \in Requests, RecordVersion(s, d, content, rq)
    PROVE  StagedSerially(s)'
<1>i. TypeOK /\ LockHeld
  BY DEF SerialInv, ArchiveInv
<1>1. staged[s] = Nothing
  BY <1>i DEF RecordVersion, LockHeld
<1>2. VisibleVersions(s) = versions /\ VisibleClaims(s) = claims
  BY <1>1, NothingStaged
<1>3. PICK t \in 0..MaxClock :
        /\ Reading(t)
        /\ \E w \in Writes(versions, claims, d, content, rq, t) : Stage(s, {w.version}, w.claims, {})
  BY <1>2 DEF RecordVersion
<1>4. PICK w \in Writes(versions, claims, d, content, rq, t) : Stage(s, {w.version}, w.claims, {})
  BY <1>3
<1>5. StagedRowsAre(s, {w.version}, w.claims, {})'
  <2>1. /\ staged'[s].versions = staged[s].versions \cup {w.version}
        /\ staged'[s].claims = staged[s].claims \cup w.claims
        /\ staged'[s].snapshots = staged[s].snapshots \cup {}
    BY <1>i, <1>4 DEF Stage, TypeOK
  <2> QED
    BY <1>1, <2>1 DEF Nothing, StagedRowsAre
<1>6. /\ versions' = versions /\ claims' = claims /\ snapshots' = snapshots
      /\ registered' /\ phase'[s] = "written"
      /\ ~Unchanged(versions, d, content)
  BY <1>2, <1>i DEF RecordVersion, tables, TypeOK
<1>7. Timely(t)'
  <2>1. Timely(t)
    BY <1>3, ReadingIsTimely
  <2> QED
    BY <1>6, <2>1 DEF Timely, Serial!Fresh
<1>8. WriteStaged(s, d, content, rq, t)'
  BY <1>4, <1>5, <1>6, <1>7 DEF WriteStaged, StagedRowsAre
<1> QED
  BY <1>6, <1>8 DEF StagedSerially

\* A tombstone of a document outranks every committed version of it, and a
\* document has at most one at a given stamp.
LEMMA TombstoneIsNext ==
    ASSUME NEW V \in SUBSET Version, NEW d \in Docs, NEW t \in Int, NEW z \in Tombstones(V, d, t)
    PROVE  /\ z.doc = d /\ z.event = "DELETED" /\ z.observed = t /\ z.num \in Nat
           /\ \A u \in V : u.doc = d => u.num < z.num
           /\ Tombstones(V, d, t) = {z}
<1> DEFINE prev == Predecessor(V, d)
<1>1. z = NewVersion(prev, d, "DELETED", None, t) /\ z \in Version /\ prev # {}
  BY TombstoneShape
<1>2. z.doc = d /\ z.event = "DELETED" /\ z.observed = t
  BY <1>1, NextNumber
<1>3. PICK p \in prev : z.num = p.num + 1
  BY <1>1, NextNumber
<1>4. \A u \in V : u.doc = d => u.num <= p.num /\ u.num \in Nat
  BY <1>3 DEF Predecessor, IsLatest, Version
<1>5. p \in V /\ p.num \in Nat
  BY <1>3 DEF Predecessor, Version
<1>6. Tombstones(V, d, t) = {z}
  BY <1>1 DEF Tombstones
<1> QED
  BY <1>2, <1>3, <1>4, <1>5, <1>6

LEMMA DeletionStagesTombstones ==
    ASSUME SerialInv, NEW s \in Sessions, NEW d \in Docs, RecordDeletion(s, d)
    PROVE  StagedSerially(s)'
<1>i. TypeOK /\ LockHeld
  BY DEF SerialInv, ArchiveInv
<1>t. \A t \in 0..MaxClock : t \in Int
  BY ArchiveAssumption
<1>v. versions \in SUBSET Version
  BY <1>i DEF TypeOK
<1>0. PICK gone \in SUBSET Docs : \E at \in [gone -> 0..MaxClock] : DeletionStaged(s, gone, at)
  <2>1. CASE phase[s] = "deleting"
    BY <2>1 DEF SerialInv, StagedSerially
  <2>2. CASE phase[s] = "open"
    <3>1. staged[s] = Nothing
      BY <1>i, <2>2 DEF LockHeld
    <3>2. [e \in {} |-> 0] \in [{} -> 0..MaxClock]
      OBVIOUS
    <3>3. UNION {Tombstones(versions, e, [x \in {} |-> 0][e]) : e \in {}} = {}
      OBVIOUS
    <3>4. DeletionStaged(s, {}, [e \in {} |-> 0])
      BY <3>1, <3>3 DEF DeletionStaged, StagedRowsAre, Nothing
    <3> QED
      BY <3>2, <3>4
  <2> QED
    BY <2>1, <2>2 DEF RecordDeletion
<1>1. PICK at \in [gone -> 0..MaxClock] : DeletionStaged(s, gone, at)
  BY <1>0
<1>2. PICK t \in 0..MaxClock :
        Reading(t) /\ \E v \in Tombstones(VisibleVersions(s), d, t) : Stage(s, {v}, {}, {})
  BY DEF RecordDeletion
<1>3. PICK v \in Tombstones(VisibleVersions(s), d, t) : Stage(s, {v}, {}, {})
  BY <1>2
<1> DEFINE old == UNION {Tombstones(versions, e, at[e]) : e \in gone}
           seen == VisibleVersions(s)
<1>4. seen = versions \cup old /\ StagedRowsAre(s, old, {}, {})
  BY <1>1 DEF DeletionStaged, StagedRowsAre, VisibleVersions
<1>5. \A e \in gone : \A z \in Tombstones(versions, e, at[e]) :
        /\ z.doc = e /\ z.event = "DELETED" /\ z.num \in Nat
        /\ \A u \in versions : u.doc = e => u.num < z.num
  BY <1>t, <1>v, TombstoneIsNext
<1>6. \A z \in old : z.doc \in gone /\ z.event = "DELETED"
  BY <1>5
\* Nothing is deleted twice in one transaction.
<1>7. d \notin gone
  <2> SUFFICES ASSUME d \in gone PROVE FALSE
    OBVIOUS
  <2>1. PICK z \in Tombstones(versions, d, at[d]) : TRUE
    BY <1>1 DEF DeletionStaged, StagedRowsAre
  <2>2. z \in seen /\ z.doc = d
    BY <1>4, <1>5, <2>1
  <2>3. seen \in SUBSET Version
    BY <1>i, VisibleType
  <2>4. PICK p \in Predecessor(seen, d) : p.event # "DELETED"
    BY <1>t, <2>3, TombstoneShape
  <2>5. p \in seen /\ p.doc = d /\ z.num <= p.num
    BY <2>2, <2>4 DEF Predecessor, IsLatest
  <2>6. p \in versions
    BY <1>4, <1>6, <2>4, <2>5
  <2>7. p.num < z.num /\ p.num \in Nat /\ z.num \in Nat
    BY <1>5, <1>v, <2>1, <2>5, <2>6 DEF Version
  <2> QED
    BY <2>5, <2>7
<1>8. Tombstones(seen, d, t) = Tombstones(versions, d, t)
  <2>1. \A u \in old : u.doc # d
    BY <1>6, <1>7
  <2>2. Predecessor(seen, d) = Predecessor(versions, d)
    <3> HIDE DEF old
    <3> QED
      BY <1>4, <2>1 DEF Predecessor, IsLatest
  <2> QED
    BY <2>2 DEF Tombstones
<1>9. Tombstones(versions, d, t) = {v}
  BY <1>3, <1>8, <1>t, <1>v, TombstoneIsNext
<1> DEFINE gone2 == gone \cup {d}
           at2 == [e \in gone2 |-> IF e = d THEN t ELSE at[e]]
<1>10. at2 \in [gone2 -> 0..MaxClock]
  BY <1>2
<1>11. UNION {Tombstones(versions, e, at2[e]) : e \in gone2} = old \cup {v}
  <2>1. \A e \in gone : at2[e] = at[e]
    BY <1>7
  <2>2. at2[d] = t
    OBVIOUS
  <2> HIDE DEF at2
  <2> QED
    BY <1>9, <2>1, <2>2
<1>12. /\ versions' = versions /\ claims' = claims /\ snapshots' = snapshots
       /\ registered' /\ phase'[s] = "deleting"
  BY <1>i DEF RecordDeletion, tables, TypeOK
<1>13. \A e \in gone2 : Timely(at2[e])' /\ Tombstones(versions', e, at2[e]) # {}
  <2>1. Timely(t)
    BY <1>2, ReadingIsTimely
  <2>2. \A e \in gone2 : Timely(at2[e]) /\ Tombstones(versions, e, at2[e]) # {}
    <3>1. \A e \in gone : at2[e] = at[e]
      BY <1>7
    <3>2. at2[d] = t
      OBVIOUS
    <3> HIDE DEF at2
    <3> QED
      BY <1>1, <1>9, <2>1, <3>1, <3>2 DEF DeletionStaged
  <2>3. \A x : Timely(x)' = Timely(x)
    BY <1>12 DEF Timely, Serial!Fresh
  <2> QED
    BY <1>12, <2>2, <2>3
<1>14. staged'[s].versions = old \cup {v} /\ staged'[s].claims = {} /\ staged'[s].snapshots = {}
  <2> HIDE DEF old
  <2>1. /\ staged'[s].versions = staged[s].versions \cup {v}
        /\ staged'[s].claims = staged[s].claims \cup {}
        /\ staged'[s].snapshots = staged[s].snapshots \cup {}
    BY <1>i, <1>3, StagedAfter
  <2> QED
    BY <1>4, <2>1 DEF StagedRowsAre
<1>15. \E G \in SUBSET Docs : \E A \in [G -> 0..MaxClock] : DeletionStaged(s, G, A)'
  <2>1. PICK G, A : G = gone2 /\ A = at2
    OBVIOUS
  <2>2. DeletionStaged(s, G, A)'
    <3>1. \A e \in G : Timely(A[e])' /\ Tombstones(versions', e, A[e]) # {}
      BY <1>13, <2>1
    <3>2. UNION {Tombstones(versions, e, A[e]) : e \in G} = old \cup {v}
      BY <1>11, <2>1
    <3> QED
      BY <1>12, <1>14, <3>1, <3>2 DEF DeletionStaged, StagedRowsAre
  <2> QED
    BY <1>10, <2>1, <2>2
<1> QED
  BY <1>12, <1>15 DEF StagedSerially

LEMMA SnapshotStagesCapture ==
    ASSUME SerialInv, NEW s \in Sessions, NEW asof \in Cutoffs, TakeSnapshot(s, asof)
    PROVE  StagedSerially(s)'
<1>i. TypeOK /\ LockHeld
  BY DEF SerialInv, ArchiveInv
<1>1. staged[s] = Nothing
  BY <1>i DEF TakeSnapshot, LockHeld
<1>2. VisibleVersions(s) = versions
  BY <1>1, NothingStaged
<1> DEFINE cutoff(t) == IF asof = None THEN t ELSE asof
           taken(t) == \E n \in snapshots : n.asof = cutoff(t)
           new(t) == [asof |-> cutoff(t), observed |-> t, members |-> Members(versions, cutoff(t))]
<1>3. PICK t \in 0..MaxClock :
        cutoff(t) <= t /\ Stage(s, {}, {}, IF taken(t) THEN {} ELSE {new(t)})
  BY <1>2 DEF TakeSnapshot
<1>4. cutoff(t) \in 0..MaxClock /\ t \in cutoff(t)..MaxClock
  BY <1>3, ArchiveAssumption
<1>5. /\ versions' = versions /\ claims' = claims /\ snapshots' = snapshots
      /\ registered' /\ phase'[s] = "snapshotted"
  BY <1>i DEF TakeSnapshot, tables, TypeOK
<1>6. CASE taken(t)
  <2>1. Stage(s, {}, {}, {})
    BY <1>3, <1>6
  <2>2. staged'[s] = Nothing
    BY <1>i, <1>1, <2>1 DEF Stage, TypeOK, Nothing
  <2> QED
    BY <1>5, <2>2 DEF StagedSerially
<1>7. CASE ~taken(t)
  <2>1. PICK n : n = new(t)
    OBVIOUS
  <2>2. Stage(s, {}, {}, {n})
    BY <1>3, <1>7, <2>1
  <2>3. staged'[s].versions = {} /\ staged'[s].claims = {} /\ staged'[s].snapshots = {n}
    BY <1>i, <1>1, <2>2 DEF Stage, TypeOK, Nothing
  <2>4. CaptureStaged(s, cutoff(t), t)'
    BY <1>5, <1>7, <2>1, <2>3 DEF CaptureStaged, StagedRowsAre
  <2> HIDE DEF cutoff
  <2> QED
    BY <1>4, <1>5, <2>4 DEF StagedSerially
<1> QED
  BY <1>6, <1>7

LEMMA NextStagedSerially ==
    ASSUME SerialInv, [Next]_vars, NEW q \in Sessions
    PROVE  StagedSerially(q)'
<1>i. TypeOK /\ LockHeld /\ StagedSerially(q)
  BY DEF SerialInv, ArchiveInv
\* Somebody else's statement.
<1>1. ASSUME NEW s \in Sessions, s # q, phase'[q] = phase[q], staged'[q] = staged[q],
             UNCHANGED tables
      PROVE  StagedSerially(q)'
  BY <1>1, <1>i, StagedSeriallyStays DEF tables
<1>2. ASSUME QueueForLock(q) \/ AcquireLock(q) \/ Abandon(q) PROVE StagedSerially(q)'
  BY <1>2, <1>i DEF QueueForLock, AcquireLock, Abandon, StagedSerially, TypeOK
<1>3. ASSUME NEW d \in Docs, NEW content \in Contents, RecordUnchanged(q, d, content)
      PROVE  StagedSerially(q)'
  BY <1>3, <1>i DEF RecordUnchanged, tables, LockHeld, StagedSerially, TypeOK
<1>4. ASSUME Erase(q) PROVE StagedSerially(q)'
  BY <1>4, <1>i DEF Erase, LockHeld, StagedSerially, TypeOK
<1>5. ASSUME NEW s \in Sessions, Commit(s) \/ Rollback(s) PROVE StagedSerially(q)'
  \* Only the holder works, so nobody else has left the queue.
  <2>1. phase'[q] \in {"idle", "waiting"}
    BY <1>5, <1>i DEF Commit, Rollback, End, LockHeld, Working, Phases, TypeOK
  <2> QED
    BY <2>1 DEF StagedSerially
<1>6. ASSUME CreateCorpus \/ Tick \/ UNCHANGED vars PROVE StagedSerially(q)'
  <2>1. /\ versions' = versions /\ claims' = claims /\ snapshots' = snapshots
        /\ registered => registered'
        /\ phase'[q] = phase[q] /\ staged'[q] = staged[q]
    BY <1>6 DEF CreateCorpus, Tick, vars, tables
  <2> QED
    BY <1>i, <2>1, StagedSeriallyStays
<1>7. ASSUME NEW s \in Sessions, s # q,
             \/ QueueForLock(s) \/ AcquireLock(s) \/ Abandon(s)
             \/ Work(s)
      PROVE  StagedSerially(q)'
  <2>1. UNCHANGED tables /\ phase'[q] = phase[q]
    BY <1>7, <1>i DEF QueueForLock, AcquireLock, Abandon, Work, RecordUnchanged, RecordVersion,
                      RecordDeletion, TakeSnapshot, Erase, TypeOK
  <2>2. staged' = staged \/ \E v, c, n : Stage(s, v, c, n)
    BY <1>7 DEF QueueForLock, AcquireLock, Abandon, Work, RecordUnchanged, RecordVersion,
                RecordDeletion, TakeSnapshot, Erase
  <2>3. staged'[q] = staged[q]
    BY <1>7, <1>i, <2>2, StagedAfter
  <2> QED
    BY <1>1, <1>7, <2>1, <2>3
<1>8. ASSUME Work(q) PROVE StagedSerially(q)'
  BY <1>3, <1>4, <1>8, RecordStagesWrite, DeletionStagesTombstones, SnapshotStagesCapture DEF Work
<1> QED
  BY <1>2, <1>5, <1>6, <1>7, <1>8 DEF Next

LEMMA NextSerialInv == SerialInv /\ [Next]_vars => SerialInv'
<1> SUFFICES ASSUME SerialInv, [Next]_vars PROVE SerialInv'
  OBVIOUS
<1>1. ArchiveInv' /\ StampsPast'
  BY NextArchiveInv, NextStampsPast DEF SerialInv
<1>2. ASSUME NEW q \in Sessions PROVE StagedSerially(q)'
  BY NextStagedSerially
<1>3. EmptyUnlessRegistered'
  <2>1. ASSUME UNCHANGED tables \/ CreateCorpus PROVE EmptyUnlessRegistered'
    BY <2>1 DEF tables, CreateCorpus, EmptyUnlessRegistered, SerialInv
  <2>2. ASSUME NEW s \in Sessions, Commit(s) PROVE EmptyUnlessRegistered'
    <3>1. CASE phase[s] = "erasing"
      BY <2>2, <3>1 DEF Commit, EmptyUnlessRegistered
    <3>2. CASE phase[s] = "open" \/ staged[s] = Nothing
      <4>1. staged[s] = Nothing
        BY <3>2 DEF SerialInv, ArchiveInv, LockHeld
      <4> QED
        BY <2>2, <4>1 DEF Commit, EmptyUnlessRegistered, SerialInv, VisibleVersions,
                          VisibleClaims, Nothing
    <3>3. CASE phase[s] \in {"written", "deleting", "snapshotted"}
      <4>1. registered
        BY <3>3 DEF SerialInv, StagedSerially
      <4> QED
        BY <2>2, <3>3, <4>1 DEF Commit, EmptyUnlessRegistered
    <3> QED
      BY <2>2, <3>1, <3>2, <3>3 DEF Commit, Working, Phases
  <2>3. ASSUME \A s \in Sessions : ~Commit(s) PROVE UNCHANGED tables \/ CreateCorpus
    BY <2>3 DEF Next, Work, vars, tables, QueueForLock, AcquireLock, Abandon, RecordUnchanged,
                RecordVersion, RecordDeletion, TakeSnapshot, Erase, Rollback, Tick
  <2> QED
    BY <2>1, <2>2, <2>3
<1> QED
  BY <1>1, <1>2, <1>3 DEF SerialInv

LEMMA SerialInvariant == Spec => []SerialInv
BY InitSerialInv, NextSerialInv, PTL DEF Spec

-----------------------------------------------------------------------------
(* A commit is one serial step *)

LEMMA WriteStamp ==
    ASSUME SerialInv, NEW d \in Docs, NEW content \in Contents, NEW rq \in Requests,
           NEW t \in 0..MaxClock, NEW w \in Writes(versions, claims, d, content, rq, t)
    PROVE  w.version.observed = t
<1>1. /\ versions \in SUBSET Version /\ claims \in SUBSET Claim
      /\ rq \in Request /\ t \in Int
  BY ArchiveAssumption DEF SerialInv, ArchiveInv, TypeOK
<1>2. Shaped(versions, claims, d, content, t, w)
  BY <1>1, WriteShape
<1> QED
  BY <1>2, NextNumber DEF Shaped

LEMMA CommittedWrite ==
    ASSUME ClockAdvances, SerialInv, NEW s \in Sessions, phase[s] = "written", staged[s] # Nothing,
           Commit(s)
    PROVE  \E d \in Docs, content \in Contents, rq \in Requests : Serial!Write(d, content, rq)
<1>1. PICK d \in Docs, content \in Contents, rq \in Requests, t \in 0..MaxClock :
        WriteStaged(s, d, content, rq, t)
  BY DEF SerialInv, StagedSerially
<1>2. PICK w \in Writes(versions, claims, d, content, rq, t) :
        StagedRowsAre(s, {w.version}, w.claims, {})
  BY <1>1 DEF WriteStaged
<1>3. registered /\ Serial!Fresh(t) /\ ~Serial!Unchanged(versions, d, content)
  BY <1>1, SerialUnchanged DEF SerialInv, StagedSerially, WriteStaged, Timely
<1>4. w \in Serial!Writes(versions, claims, d, content, rq, t)
  BY <1>2, SerialWrites
<1>5. /\ versions' = versions \cup {w.version} /\ claims' = claims \cup w.claims
      /\ snapshots' = snapshots /\ registered' = registered
  BY <1>2 DEF Commit, VisibleVersions, VisibleClaims, StagedRowsAre
<1>6. w.version.observed = t
  BY <1>2, WriteStamp
<1>7. w.version \notin versions
  BY <1>3, <1>6, ArchiveAssumption DEF Serial!Fresh
<1> QED
  BY <1>3, <1>4, <1>5, <1>7 DEF Serial!Write

LEMMA CommittedDeletion ==
    ASSUME ClockAdvances, SerialInv, NEW s \in Sessions, phase[s] = "deleting", Commit(s)
    PROVE  \E gone \in SUBSET Docs : Serial!Delete(gone)
<1>1. PICK gone \in SUBSET Docs : \E at \in [gone -> 0..MaxClock] : DeletionStaged(s, gone, at)
  BY DEF SerialInv, StagedSerially
<1>2. PICK at \in [gone -> 0..MaxClock] : DeletionStaged(s, gone, at)
  BY <1>1
<1>3. registered /\ \A d \in gone : Serial!Fresh(at[d]) /\ Serial!Tombstones(versions, d, at[d]) # {}
  BY <1>2, SerialTombstones DEF SerialInv, StagedSerially, DeletionStaged, Timely
<1>4. UNION {Serial!Tombstones(versions, d, at[d]) : d \in gone}
        = UNION {Tombstones(versions, d, at[d]) : d \in gone}
  BY SerialTombstones
<1>5. /\ versions' = versions \cup UNION {Serial!Tombstones(versions, d, at[d]) : d \in gone}
      /\ claims' = claims /\ snapshots' = snapshots /\ registered' = registered
  BY <1>2, <1>4 DEF Commit, VisibleVersions, VisibleClaims, DeletionStaged, StagedRowsAre
<1> QED
  BY <1>3, <1>5 DEF Serial!Delete

LEMMA CommittedSnapshot ==
    ASSUME SerialInv, NEW s \in Sessions, phase[s] = "snapshotted", staged[s] # Nothing, Commit(s)
    PROVE  \E asof \in 0..MaxClock : Serial!Capture(asof)
<1>1. PICK asof \in 0..MaxClock : \E t \in asof..MaxClock : CaptureStaged(s, asof, t)
  BY DEF SerialInv, StagedSerially
<1>2. PICK t \in asof..MaxClock : CaptureStaged(s, asof, t)
  BY <1>1
<1>3. registered /\ \A n \in snapshots : n.asof # asof
  BY <1>2 DEF SerialInv, StagedSerially, CaptureStaged
<1>4. /\ snapshots' = snapshots \cup
           {[asof |-> asof, observed |-> t, members |-> Serial!Members(versions, asof)]}
      /\ versions' = versions /\ claims' = claims /\ registered' = registered
  BY <1>2, SerialMembers DEF Commit, VisibleVersions, VisibleClaims, CaptureStaged, StagedRowsAre
<1> QED
  BY <1>3, <1>4 DEF Serial!Capture

LEMMA StepIsSerial ==
    ASSUME ClockAdvances, SerialInv, [Next]_vars
    PROVE  [Serial!Next]_tables
<1>1. ASSUME NEW s \in Sessions, Commit(s) PROVE [Serial!Next]_tables
  <2>1. CASE phase[s] = "erasing" /\ registered
    BY <1>1, <2>1 DEF Commit, Serial!Next, Serial!EraseAll
  <2>2. CASE phase[s] = "erasing" /\ ~registered
    <3>1. registered = FALSE
      BY <2>2 DEF SerialInv, ArchiveInv, TypeOK
    <3>2. versions = {} /\ claims = {} /\ snapshots = {}
      BY <2>2 DEF SerialInv, EmptyUnlessRegistered
    <3>3. registered' = FALSE /\ versions' = {} /\ claims' = {} /\ snapshots' = {}
      BY <1>1, <2>2 DEF Commit
    <3> QED
      BY <3>1, <3>2, <3>3 DEF tables
  <2>3. CASE phase[s] # "erasing" /\ staged[s] = Nothing
    <3>1. UNCHANGED registered
      BY <1>1, <2>3 DEF Commit
    <3>2. versions' = versions /\ claims' = claims /\ snapshots' = snapshots
      <4>1. VisibleVersions(s) = versions /\ VisibleClaims(s) = claims
        BY <2>3, NothingStaged
      <4>2. snapshots \cup staged[s].snapshots = snapshots
        BY <2>3 DEF Nothing
      <4> QED
        BY <1>1, <2>3, <4>1, <4>2 DEF Commit
    <3> QED
      BY <3>1, <3>2 DEF tables
  <2>4. CASE phase[s] = "written" /\ staged[s] # Nothing
    BY <1>1, <2>4, CommittedWrite DEF Serial!Next
  <2>5. CASE phase[s] = "deleting"
    BY <1>1, <2>5, CommittedDeletion DEF Serial!Next
  <2>6. CASE phase[s] = "snapshotted" /\ staged[s] # Nothing
    BY <1>1, <2>6, CommittedSnapshot DEF Serial!Next
  <2>7. phase[s] = "open" => staged[s] = Nothing
    BY DEF SerialInv, ArchiveInv, LockHeld
  <2> QED
    BY <1>1, <2>1, <2>2, <2>3, <2>4, <2>5, <2>6, <2>7 DEF Commit, Working, Phases
<1>2. ASSUME CreateCorpus PROVE [Serial!Next]_tables
  BY <1>2 DEF CreateCorpus, Serial!Next, Serial!Create
<1>3. ASSUME ~CreateCorpus, \A s \in Sessions : ~Commit(s) PROVE UNCHANGED tables
  BY <1>3 DEF Next, Work, vars, tables, QueueForLock, AcquireLock, Abandon, RecordUnchanged,
              RecordVersion, RecordDeletion, TakeSnapshot, Erase, Rollback, Tick
<1> QED
  BY <1>1, <1>2, <1>3

\* With a clock that advances, concurrent sessions, lock queues, staged rows and
\* rollbacks show the outside exactly what writes taken one at a time would: each
\* transaction takes effect at its commit and was decided on what was committed then.
THEOREM ArchiveIsSerial ==
    ASSUME ClockAdvances
    PROVE  Spec => ImplementsSerialArchive
<1>1. Init => Serial!Init
  BY DEF Init, Serial!Init
<1>2. SerialInv /\ [Next]_vars => [Serial!Next]_(Serial!tables)
  BY StepIsSerial DEF Serial!tables, tables
<1> QED
  BY <1>1, <1>2, SerialInvariant, PTL DEF Spec, Serial!Spec, ImplementsSerialArchive

-----------------------------------------------------------------------------
(* Snapshots are complete *)

\* With a clock that advances, a snapshot holds every version the archive has up
\* to its cutoff, also after every later write: it waited for the writers that had
\* already read the clock, and every later one reads a later clock.
THEOREM SnapshotsStayComplete ==
    ASSUME ClockAdvances
    PROVE  Spec => []SnapshotsAreComplete
<1>1. Init => SnapshotsAreComplete
  BY DEF Init, SnapshotsAreComplete
<1>2. ASSUME SerialInv, SnapshotsAreComplete, [Next]_vars PROVE SnapshotsAreComplete'
  <2>0. /\ \A v \in versions : v.observed \in Int
        /\ \A n \in snapshots : n.asof \in Int
    BY <1>2 DEF SerialInv, ArchiveInv, TypeOK, Version, Snapshot
  <2>1. CASE UNCHANGED tables
    BY <1>2, <2>1 DEF tables, SnapshotsAreComplete
  \* Rows stamped after every cutoff are in nobody's interval.
  <2>2. ASSUME NEW new, versions' = versions \cup new, snapshots' = snapshots,
               \A v \in new : \A n \in snapshots : ~(v.observed <= n.asof)
        PROVE  SnapshotsAreComplete'
    <3>1. ASSUME NEW n \in snapshots PROVE Members(versions', n.asof) = Members(versions, n.asof)
      BY <2>2, <3>1 DEF Members, Loaded
    <3> QED
      BY <1>2, <2>2, <3>1 DEF SnapshotsAreComplete
  <2>3. ASSUME NEW d \in Docs, NEW content \in Contents, NEW rq \in Requests,
               Serial!Write(d, content, rq)
        PROVE  SnapshotsAreComplete'
    <3>1. PICK t \in 0..MaxClock :
            /\ Serial!Fresh(t)
            /\ \E w \in Writes(versions, claims, d, content, rq, t) :
                 versions' = versions \cup {w.version}
      BY <2>3, SerialWrites DEF Serial!Write
    <3>2. PICK w \in Writes(versions, claims, d, content, rq, t) :
            versions' = versions \cup {w.version}
      BY <3>1
    <3>3. w.version.observed = t
      BY <1>2, <3>2, WriteStamp
    <3>4. \A v \in {w.version} : \A n \in snapshots : ~(v.observed <= n.asof)
      BY <2>0, <3>1, <3>3, ArchiveAssumption DEF Serial!Fresh
    <3> QED
      BY <2>2, <2>3, <3>2, <3>4 DEF Serial!Write
  <2>4. ASSUME NEW gone \in SUBSET Docs, Serial!Delete(gone) PROVE SnapshotsAreComplete'
    <3>1. PICK at \in [gone -> 0..MaxClock] :
            /\ \A d \in gone : Serial!Fresh(at[d])
            /\ versions' = versions \cup UNION {Serial!Tombstones(versions, d, at[d]) : d \in gone}
      BY <2>4 DEF Serial!Delete
    <3> DEFINE new == UNION {Serial!Tombstones(versions, d, at[d]) : d \in gone}
    <3>2. ASSUME NEW d \in gone, NEW v \in Serial!Tombstones(versions, d, at[d]), NEW n \in snapshots
          PROVE  ~(v.observed <= n.asof)
      <4>1. versions \in SUBSET Version /\ at[d] \in Int /\ d \in Docs
        BY <1>2, ArchiveAssumption DEF SerialInv, ArchiveInv, TypeOK
      <4>2. v.observed = at[d]
        BY <4>1, SerialTombstones, TombstoneIsNext
      <4> QED
        BY <2>0, <3>1, <4>1, <4>2 DEF Serial!Fresh
    <3>3. \A v \in new : \A n \in snapshots : ~(v.observed <= n.asof)
      BY <3>2
    <3> QED
      BY <2>2, <2>4, <3>1, <3>3 DEF Serial!Delete
  <2>5. ASSUME NEW asof \in 0..MaxClock, Serial!Capture(asof) PROVE SnapshotsAreComplete'
    <3>1. PICK t : snapshots' = snapshots \cup
            {[asof |-> asof, observed |-> t, members |-> Members(versions, asof)]}
      BY <2>5, SerialMembers DEF Serial!Capture
    <3>2. versions' = versions
      BY <2>5 DEF Serial!Capture
    <3>3. ASSUME NEW n \in snapshots' PROVE n.members = Members(versions, n.asof)
      BY <1>2, <3>1 DEF SnapshotsAreComplete
    <3> QED
      BY <3>2, <3>3 DEF SnapshotsAreComplete
  <2>6. ASSUME Serial!EraseAll \/ Serial!Create PROVE SnapshotsAreComplete'
    BY <1>2, <2>6 DEF Serial!EraseAll, Serial!Create, SnapshotsAreComplete
  <2>7. [Serial!Next]_tables
    BY <1>2, StepIsSerial
  <2> QED
    BY <2>1, <2>3, <2>4, <2>5, <2>6, <2>7 DEF Serial!Next
<1> QED
  BY <1>1, <1>2, SerialInvariant, PTL DEF Spec

-----------------------------------------------------------------------------
(* A write by topic key leaves one live claim *)

\* A claim that retires by topic key is the only new one under that key, and what
\* it retires was the only live one elsewhere.
TopicKeyShaped(V, C, d, w) ==
    \A c \in w.claims : c.basis = "topic_key" =>
        /\ \E x \in LiveElsewhere(V, C, d) :
             /\ x.key = c.key /\ c.target = ClaimId(x)
             /\ \A o \in LiveElsewhere(V, C, d) : o.key = c.key => o = x
        /\ \A r \in w.claims : r.key = c.key => r = c

LEMMA TopicClaim ==
    ASSUME NEW V \in SUBSET Version, NEW C \in SUBSET Claim, NEW d \in Docs,
           NEW content \in Contents, NEW rq \in Request, NEW t \in Int,
           NEW w \in Writes(V, C, d, content, rq, t)
    PROVE  TopicKeyShaped(V, C, d, w)
<1> SUFFICES ASSUME NEW c \in w.claims, c.basis = "topic_key"
             PROVE  /\ \E x \in LiveElsewhere(V, C, d) :
                         /\ x.key = c.key /\ c.target = ClaimId(x)
                         /\ \A o \in LiveElsewhere(V, C, d) : o.key = c.key => o = x
                    /\ \A r \in w.claims : r.key = c.key => r = c
  BY DEF TopicKeyShaped
<1> DEFINE prev == Predecessor(V, d)
           v == NewVersion(prev, d, NewEvent(prev), content, t)
           K == Authored(content)
<1>1. PICK cross \in CrossTargets(V, C, d, K, rq) :
        w = [version |-> v, claims |-> NewClaims(C, prev, v, cross)]
  BY DEF Writes
<1>2. v.content = content
  BY NextNumber
<1> HIDE DEF v
<1> DEFINE own == {e \in SameDocumentEdges(C, prev, K) : \A f \in cross : f.key # e.key}
           row(k, a, b) == [doc |-> v.doc, num |-> v.num, key |-> k,
                            value |-> Asserts[v.content][k], target |-> a, basis |-> b]
<1>3. w.claims = {row(e.key, e.target, e.basis) : e \in cross \cup own}
                 \cup {row(k, None, None) : k \in K \ {e.key : e \in cross \cup own}}
  BY <1>1, <1>2 DEF NewClaims
<1>4. \A k, a, b : row(k, a, b).key = k /\ row(k, a, b).target = a /\ row(k, a, b).basis = b
  OBVIOUS
<1>5. \A e \in own : e.basis # "topic_key"
  <2>1. K \in SUBSET Keys
    BY TablesAssumption DEF Authored
  <2> HIDE DEF K, prev
  <2> QED
    BY <2>1, SameDocumentEdgesType
<1> HIDE DEF row, own, K
<1>6. PICK e \in cross : c = row(e.key, e.target, e.basis) /\ e.basis = "topic_key"
  <2>0. None # "topic_key"
    BY TablesAssumption DEF Bases, CrossBases
  <2>1. \A k : row(k, None, None) # c
    BY <1>4, <2>0
  <2> QED
    BY <1>3, <1>4, <1>5, <2>1
<1>7. /\ \E x \in LiveElsewhere(V, C, d) :
           /\ x.key = e.key /\ e.target = ClaimId(x)
           /\ \A o \in LiveElsewhere(V, C, d) : o.key = e.key => o = x
      /\ cross = {e}
  <2> DEFINE live == {o \in LiveElsewhere(V, C, d) : o.key = rq.topic}
  <2>1. cross \notin ExplicitTargets(V, C, d, K, rq.claim)
    BY <1>6 DEF ExplicitTargets, Edge
  <2>2. cross \notin DeclaredTargets(V, C, d, K, rq.refs)
    BY <1>6 DEF DeclaredTargets, Pairings, Edge
  <2>3. cross # {}
    BY <1>6
  <2>4. cross \in TopicTargets(V, C, d, rq.topic)
    BY <2>1, <2>2, <2>3 DEF CrossTargets
  <2>5. PICK x \in live : live = {x} /\ cross = {Edge(rq.topic, x, "topic_key")}
    BY <2>3, <2>4 DEF TopicTargets
  <2>6. e = Edge(rq.topic, x, "topic_key")
    BY <1>6, <2>5
  <2>7. e.key = rq.topic /\ e.target = ClaimId(x)
    BY <2>6 DEF Edge
  <2> QED
    BY <2>5, <2>6, <2>7
<1>8. c.key = e.key /\ c.target = e.target
  BY <1>4, <1>6
<1>9. ASSUME NEW r \in w.claims, r.key = c.key PROVE r = c
  <2>1. \A f \in own : f.key # e.key
    BY <1>6 DEF own
  <2>2. CASE \E f \in cross \cup own : r = row(f.key, f.target, f.basis)
    BY <1>4, <1>6, <1>7, <1>8, <1>9, <2>1, <2>2
  <2>3. ASSUME NEW k \in K \ {f.key : f \in cross \cup own}, r = row(k, None, None) PROVE FALSE
    BY <1>4, <1>6, <1>8, <1>9, <2>3
  <2> QED
    BY <1>3, <2>2, <2>3
<1> QED
  BY <1>7, <1>8, <1>9

\* The rows of a write by topic key, among the rows it joins.
LeavesOne(V, C, c) == {o \in Live(V, C) : o.key = c.key} = {c}

LEMMA TopicWriteLeavesOne ==
    ASSUME NEW V \in SUBSET Version, NEW C \in SUBSET Claim, Sound(V, C), Owned(V, C),
           NEW d \in Docs, NEW content \in Contents, NEW rq \in Request, NEW t \in Int,
           NEW w \in Writes(V, C, d, content, rq, t), NEW c \in w.claims, c.basis = "topic_key"
    PROVE  LeavesOne(V \cup {w.version}, C \cup w.claims, c)
<1> DEFINE prev == Predecessor(V, d)
           v == w.version
           R == w.claims
           after == Live(V \cup {v}, C \cup R)
<1>0. TopicKeyShaped(V, C, d, w)
  BY TopicClaim
<1>1. PICK x \in LiveElsewhere(V, C, d) :
        /\ x.key = c.key /\ c.target = ClaimId(x)
        /\ \A o \in LiveElsewhere(V, C, d) : o.key = c.key => o = x
  BY <1>0 DEF TopicKeyShaped
<1>2. \A r \in w.claims : r.key = c.key => r = c
  BY <1>0 DEF TopicKeyShaped
<1>3. Shaped(V, C, d, content, t, w)
  BY WriteShape
<1>4. /\ v = NewVersion(prev, d, NewEvent(prev), content, t)
      /\ v \in Version /\ R \in SUBSET Claim
      /\ \A r \in R : /\ r.doc = v.doc /\ r.num = v.num
                      /\ AdmitsClaim(V \cup {v}, C \cup R, prev, v, r)
  BY <1>3 DEF Shaped
<1>5. v.doc = d /\ v.event # "DELETED"
  BY <1>4, NextNumber DEF NewEvent
<1>6. \A u \in V : u.doc = d => u.num < v.num
  BY <1>4, WriteIsLatest DEF Sound
<1>7. \A o \in C : o.doc = d => o.num < v.num
  BY <1>6 DEF Owned
<1>8. x \in C /\ x.doc # d /\ x.key = c.key
  <2>1. x \in LiveElsewhere(V, C, d) /\ x.key = c.key
    BY <1>1
  <2> QED
    BY <2>1 DEF LiveElsewhere, Live
<1>9. c \in C \cup R /\ c \in R /\ c.doc = d /\ c.num = v.num
  BY <1>4, <1>5
<1> HIDE DEF v, R, prev
\* Nobody retires a claim of the new version.
<1>10. ClaimId(c) \notin Retired(C \cup R)
  <2> SUFFICES ASSUME NEW r \in C \cup R, r.target = ClaimId(c), r.target # None PROVE FALSE
    BY DEF Retired
  <2>1. r.target.doc = d /\ r.target.num = v.num
    BY <1>9 DEF ClaimId
  <2>2. CASE r \in C
    <3>1. PICK o \in C : ClaimId(o) = r.target
      BY <2>2 DEF Sound, EdgesPointBack
    <3>2. o.doc = d /\ o.num = v.num
      BY <2>1, <3>1 DEF ClaimId
    <3>3. o.num \in Nat /\ v.num \in Nat
      BY <1>4 DEF Claim, Version
    <3> QED
      BY <1>7, <3>2, <3>3
  <2>3. CASE r \in R
    <3>1. AdmitsClaim(V \cup {v}, C \cup R, prev, v, r)
      BY <1>4, <2>3
    <3>2. \E u \in V \cup {v} : \E o \in ClaimsOf(C \cup R, u) :
            ClaimId(o) = r.target /\ VersionId(u) # VersionId(v)
      <4>1. \A p \in prev : p \in V /\ VersionId(p) # VersionId(v)
        BY <1>4, <1>6 DEF prev, Predecessor, VersionId, Version
      <4>2. \A p \in prev : ClaimsOf(C, p) \subseteq ClaimsOf(C \cup R, p)
        BY DEF ClaimsOf
      <4>3. \A p \in prev : ClaimsOf(C \cup R, p) \subseteq ClaimsOf(C \cup R, p)
        OBVIOUS
      <4> QED
        BY <3>1, <4>1, <4>2 DEF AdmitsClaim
    <3>3. PICK u, o : /\ o.doc = u.doc /\ o.num = u.num
                      /\ ClaimId(o) = r.target /\ VersionId(u) # VersionId(v)
      BY <3>2 DEF ClaimsOf
    <3>4. u.doc = d /\ u.num = v.num
      BY <2>1, <3>3 DEF ClaimId
    <3> QED
      BY <1>5, <3>3, <3>4 DEF VersionId
  <2> QED
    BY <2>2, <2>3
<1>11. c \in after
  <2>1. IsLatest(V \cup {v}, v)
    BY <1>4, <1>5, <1>6 DEF IsLatest, Version
  <2>2. VersionId(v) = [doc |-> c.doc, num |-> c.num]
    BY <1>5, <1>9 DEF VersionId
  <2> QED
    BY <1>5, <1>9, <1>10, <2>1, <2>2 DEF Live
\* A live claim under the key is a new one, or the one just retired.
<1>12. ASSUME NEW o \in after, o.key = c.key PROVE o = c
  <2>1. o \in C \cup R /\ ClaimId(o) \notin Retired(C \cup R)
    BY <1>12 DEF Live
  <2>2. PICK u \in V \cup {v} : /\ VersionId(u) = [doc |-> o.doc, num |-> o.num]
                                /\ IsLatest(V \cup {v}, u) /\ u.event # "DELETED"
    BY <1>12 DEF Live
  <2>3. u.doc = o.doc /\ u.num = o.num
    BY <2>2 DEF VersionId
  <2>4. CASE o \in R
    BY <1>2, <1>12, <2>4 DEF R
  <2>5. CASE o \in C /\ o.doc = d
    <3>1. v.num <= u.num /\ o.num < v.num
      BY <1>5, <1>7, <2>2, <2>3, <2>5 DEF IsLatest
    <3>2. u.num \in Nat /\ v.num \in Nat
      BY <1>4 DEF Version
    <3> QED
      BY <2>3, <3>1, <3>2
  <2>6. CASE o \in C /\ o.doc # d
    <3>1. u \in V /\ IsLatest(V, u)
      BY <1>5, <2>2, <2>3, <2>6 DEF IsLatest
    <3>2. ClaimId(o) \notin Retired(C)
      BY <2>1 DEF Retired
    <3>3. o \in LiveElsewhere(V, C, d)
      BY <2>2, <2>6, <3>1, <3>2 DEF Live, LiveElsewhere
    <3>4. ClaimId(o) = c.target
      BY <1>1, <1>12, <3>3
    <3>5. c.target \in Retired(C \cup R)
      <4>1. c.target # None
        BY <1>1, <1>8, ClaimIdType, TablesAssumption
      <4> QED
        BY <1>9, <4>1 DEF Retired
    <3> QED
      BY <2>1, <3>4, <3>5
  <2> QED
    BY <2>1, <2>4, <2>5, <2>6
<1>13. {o \in after : o.key = c.key} = {c}
  BY <1>11, <1>12
<1> QED
  BY <1>13 DEF v, R, LeavesOne

\* What one step can do to the committed rows, whatever the clock does.
OneWrite ==
    \E d \in Docs, content \in Contents, rq \in Requests, t \in 0..MaxClock :
       \E w \in Writes(versions, claims, d, content, rq, t) :
          /\ versions' = versions \cup {w.version}
          /\ claims' = claims \cup w.claims
          /\ snapshots' = snapshots

OneDeletion ==
    /\ \E new : versions' = versions \cup new
    /\ claims' = claims /\ snapshots' = snapshots

OneCapture ==
    /\ versions' = versions /\ claims' = claims
    /\ \E asof, t : snapshots' = snapshots \cup
         {[asof |-> asof, observed |-> t, members |-> Members(versions, asof)]}

LEMMA StepKinds ==
    ASSUME SerialInv, [Next]_vars
    PROVE  \/ versions' = versions /\ claims' = claims /\ snapshots' = snapshots
           \/ OneWrite \/ OneDeletion \/ OneCapture
           \/ versions' = {} /\ claims' = {} /\ snapshots' = {}
<1> DEFINE Same == versions' = versions /\ claims' = claims /\ snapshots' = snapshots
           Gone == versions' = {} /\ claims' = {} /\ snapshots' = {}
<1>1. ASSUME NEW s \in Sessions, Commit(s)
      PROVE  Same \/ OneWrite \/ OneDeletion \/ OneCapture \/ Gone
  <2>1. CASE phase[s] = "erasing"
    BY <1>1, <2>1 DEF Commit
  <2>2. CASE phase[s] # "erasing" /\ staged[s] = Nothing
    <3>1. VisibleVersions(s) = versions /\ VisibleClaims(s) = claims
      BY <2>2, NothingStaged
    <3>2. snapshots \cup staged[s].snapshots = snapshots
      BY <2>2 DEF Nothing
    <3> QED
      BY <1>1, <2>2, <3>1, <3>2 DEF Commit
  <2>3. CASE phase[s] = "written" /\ staged[s] # Nothing
    <3>1. PICK d \in Docs, content \in Contents, rq \in Requests, t \in 0..MaxClock :
            WriteStaged(s, d, content, rq, t)
      BY <2>3 DEF SerialInv, StagedSerially
    <3>2. PICK w \in Writes(versions, claims, d, content, rq, t) :
            StagedRowsAre(s, {w.version}, w.claims, {})
      BY <3>1 DEF WriteStaged
    <3>3. /\ versions' = versions \cup {w.version} /\ claims' = claims \cup w.claims
          /\ snapshots' = snapshots
      BY <1>1, <2>3, <3>2 DEF Commit, VisibleVersions, VisibleClaims, StagedRowsAre
    <3> QED
      BY <3>3 DEF OneWrite
  <2>4. CASE phase[s] = "deleting"
    BY <1>1, <2>4 DEF SerialInv, StagedSerially, DeletionStaged, StagedRowsAre, Commit,
                      VisibleVersions, VisibleClaims, OneDeletion
  <2>5. CASE phase[s] = "snapshotted" /\ staged[s] # Nothing
    <3>1. PICK asof \in 0..MaxClock : \E t \in asof..MaxClock : CaptureStaged(s, asof, t)
      BY <2>5 DEF SerialInv, StagedSerially
    <3>2. PICK t \in asof..MaxClock : CaptureStaged(s, asof, t)
      BY <3>1
    <3>3. /\ snapshots' = snapshots \cup
               {[asof |-> asof, observed |-> t, members |-> Members(versions, asof)]}
          /\ versions' = versions /\ claims' = claims
      BY <1>1, <2>5, <3>2 DEF Commit, VisibleVersions, VisibleClaims, CaptureStaged, StagedRowsAre
    <3> QED
      BY <3>3 DEF OneCapture
  <2>6. phase[s] = "open" => staged[s] = Nothing
    BY DEF SerialInv, ArchiveInv, LockHeld
  <2> QED
    BY <1>1, <2>1, <2>2, <2>3, <2>4, <2>5, <2>6 DEF Commit, Working, Phases
<1>2. ASSUME \A s \in Sessions : ~Commit(s) PROVE Same
  BY <1>2 DEF Next, Work, vars, tables, QueueForLock, AcquireLock, Abandon, RecordUnchanged,
              RecordVersion, RecordDeletion, TakeSnapshot, Erase, Rollback, CreateCorpus, Tick
<1> QED
  BY <1>1, <1>2

\* Every claim and every snapshot member names a version of the archive.
RowsOwned ==
    /\ Owned(versions, claims)
    /\ \A n \in snapshots : \A m \in n.members : \E v \in versions : VersionId(v) = m

CommittedInv == SerialInv /\ RowsOwned

LEMMA CommittedWriteShape ==
    ASSUME SerialInv, NEW d \in Docs, NEW content \in Contents, NEW rq \in Requests,
           NEW t \in 0..MaxClock, NEW w \in Writes(versions, claims, d, content, rq, t)
    PROVE  Shaped(versions, claims, d, content, t, w)
<1>1. /\ versions \in SUBSET Version /\ claims \in SUBSET Claim
      /\ rq \in Request /\ t \in Int
  BY ArchiveAssumption DEF SerialInv, ArchiveInv, TypeOK
<1> QED
  BY <1>1, WriteShape

LEMMA NextRowsOwned == CommittedInv /\ [Next]_vars => RowsOwned'
<1> SUFFICES ASSUME CommittedInv, [Next]_vars PROVE RowsOwned'
  OBVIOUS
<1>i. SerialInv /\ RowsOwned
  BY DEF CommittedInv
<1>1. ASSUME versions' = versions, claims' = claims, snapshots' = snapshots PROVE RowsOwned'
  BY <1>i, <1>1 DEF RowsOwned, Owned
<1>2. ASSUME OneWrite PROVE RowsOwned'
  <2>1. PICK d \in Docs, content \in Contents, rq \in Requests, t \in 0..MaxClock :
          \E w \in Writes(versions, claims, d, content, rq, t) :
             /\ versions' = versions \cup {w.version}
             /\ claims' = claims \cup w.claims
             /\ snapshots' = snapshots
    BY <1>2 DEF OneWrite
  <2>2. PICK w \in Writes(versions, claims, d, content, rq, t) :
          /\ versions' = versions \cup {w.version}
          /\ claims' = claims \cup w.claims
          /\ snapshots' = snapshots
    BY <2>1
  <2>s. Shaped(versions, claims, d, content, t, w)
    BY <1>i, CommittedWriteShape
  <2>3. \A c \in w.claims : c.doc = w.version.doc /\ c.num = w.version.num
    BY <2>s DEF Shaped
  <2> QED
    BY <1>i, <2>2, <2>3 DEF RowsOwned, Owned
<1>3. ASSUME OneDeletion PROVE RowsOwned'
  BY <1>i, <1>3 DEF OneDeletion, RowsOwned, Owned
<1>4. ASSUME OneCapture PROVE RowsOwned'
  <2>1. PICK asof, t : snapshots' = snapshots \cup
          {[asof |-> asof, observed |-> t, members |-> Members(versions, asof)]}
    BY <1>4 DEF OneCapture
  <2>2. \A m \in Members(versions, asof) : \E v \in versions : VersionId(v) = m
    BY DEF Members, Loaded
  <2>3. versions' = versions /\ claims' = claims
    BY <1>4 DEF OneCapture
  <2>4. \A n \in snapshots' : \A m \in n.members : \E v \in versions : VersionId(v) = m
    BY <1>i, <2>1, <2>2 DEF RowsOwned
  <2> QED
    BY <1>i, <2>3, <2>4 DEF RowsOwned, Owned
<1>5. ASSUME versions' = {}, claims' = {}, snapshots' = {} PROVE RowsOwned'
  BY <1>5 DEF RowsOwned, Owned
<1> QED
  BY <1>i, <1>1, <1>2, <1>3, <1>4, <1>5, StepKinds

LEMMA CommittedInvariant == Spec => []CommittedInv
<1>1. Init => CommittedInv
  <2> SUFFICES ASSUME Init PROVE CommittedInv
    OBVIOUS
  <2>1. RowsOwned
    BY DEF Init, RowsOwned, Owned
  <2> QED
    BY <2>1, InitSerialInv DEF CommittedInv
<1>2. CommittedInv /\ [Next]_vars => CommittedInv'
  BY NextSerialInv, NextRowsOwned DEF CommittedInv
<1> QED
  BY <1>1, <1>2, PTL DEF Spec

LEMMA StepLeavesOne ==
    ASSUME CommittedInv, [Next]_vars, NEW c \in claims' \ claims, c.basis = "topic_key"
    PROVE  {o \in Live(versions', claims') : o.key = c.key} = {c}
<1>i. SerialInv /\ RowsOwned
  BY DEF CommittedInv
<1>1. OneWrite
  BY <1>i, StepKinds DEF OneDeletion, OneCapture
<1>2. PICK d \in Docs, content \in Contents, rq \in Requests, t \in 0..MaxClock :
        \E w \in Writes(versions, claims, d, content, rq, t) :
           versions' = versions \cup {w.version} /\ claims' = claims \cup w.claims
  BY <1>1 DEF OneWrite
<1>3. PICK w \in Writes(versions, claims, d, content, rq, t) :
        versions' = versions \cup {w.version} /\ claims' = claims \cup w.claims
  BY <1>2
<1>4. c \in w.claims
  BY <1>3
<1>5. /\ versions \in SUBSET Version /\ claims \in SUBSET Claim
      /\ Sound(versions, claims) /\ Owned(versions, claims)
      /\ rq \in Request /\ t \in Int
  BY <1>i, ArchiveAssumption DEF SerialInv, ArchiveInv, TypeOK, TablesSound, RowsOwned
<1>6. LeavesOne(versions \cup {w.version}, claims \cup w.claims, c)
  BY <1>4, <1>5, TopicWriteLeavesOne
<1> QED
  BY <1>3, <1>6 DEF LeavesOne

\* Whatever the sessions, requests and clock: a write that retires by topic key
\* leaves its own claim as the only live claim of the archive under that key.
THEOREM TopicKeysLeaveOne == Spec => TopicKeyLeavesOne
<1>1. CommittedInv /\ [Next]_vars =>
        [\A c \in claims' \ claims : c.basis = "topic_key" =>
            {o \in Live(versions', claims') : o.key = c.key} = {c}]_vars
  BY StepLeavesOne
<1> QED
  BY <1>1, CommittedInvariant, PTL DEF Spec, TopicKeyLeavesOne

-----------------------------------------------------------------------------
(* A snapshot replays alike for ever *)

\* Rows of versions a snapshot does not have change nothing of its replay.
LEMMA OtherRowsDoNotReplay ==
    ASSUME NEW V, NEW C, NEW W, NEW D, NEW n, V \subseteq W, C \subseteq D,
           \A v \in W \ V : VersionId(v) \notin n.members,
           \A c \in D \ C : [doc |-> c.doc, num |-> c.num] \notin n.members
    PROVE  Replay(W, D, n) = Replay(V, C, n)
<1> DEFINE L == {v \in Loaded(V, n.asof) : VersionId(v) \in n.members}
<1>1. {v \in Loaded(W, n.asof) : VersionId(v) \in n.members} = L
  BY DEF Loaded
<1>2. \A v \in L : VersionId(v) \in n.members
  OBVIOUS
<1> HIDE DEF L
<1>3. ASSUME NEW v \in L PROVE ClaimsOf(D, v) = ClaimsOf(C, v)
  BY <1>2, <1>3 DEF ClaimsOf, VersionId
<1>4. LoadedClaims(L, D) = LoadedClaims(L, C)
  BY <1>3 DEF LoadedClaims
<1>5. Answer(L, D, n.asof) = Answer(L, C, n.asof)
  BY <1>4 DEF Answer
<1> QED
  BY <1>1, <1>5 DEF Replay, L

LEMMA StepKeepsReplays ==
    ASSUME CommittedInv, [Next]_vars, NEW n \in snapshots \cap snapshots'
    PROVE  Replay(versions', claims', n) = Replay(versions, claims, n)
<1>i. SerialInv /\ RowsOwned /\ SerialInv'
  BY NextSerialInv DEF CommittedInv
\* A version that is new has an id no committed version has.
<1>1. ASSUME versions \subseteq versions', NEW v \in versions' \ versions
      PROVE  VersionId(v) \notin n.members
  <2>1. Linear(versions')
    BY <1>i DEF SerialInv, ArchiveInv, TablesSound, Sound
  <2>2. \A u \in versions : VersionId(u) # VersionId(v)
    BY <1>1, <2>1 DEF Linear
  <2> QED
    BY <1>i, <2>2 DEF RowsOwned
<1>2. ASSUME OneWrite PROVE Replay(versions', claims', n) = Replay(versions, claims, n)
  <2>1. PICK d \in Docs, content \in Contents, rq \in Requests, t \in 0..MaxClock :
          \E w \in Writes(versions, claims, d, content, rq, t) :
             versions' = versions \cup {w.version} /\ claims' = claims \cup w.claims
    BY <1>2 DEF OneWrite
  <2>2. PICK w \in Writes(versions, claims, d, content, rq, t) :
          versions' = versions \cup {w.version} /\ claims' = claims \cup w.claims
    BY <2>1
  <2>s. Shaped(versions, claims, d, content, t, w)
    BY <1>i, CommittedWriteShape
  <2>3. \A c \in w.claims : c.doc = w.version.doc /\ c.num = w.version.num
    BY <2>s DEF Shaped
  <2>4. w.version \notin versions
    <3>1. \A u \in versions : u.doc = d => u.num < w.version.num
      <4>1. w.version = NewVersion(Predecessor(versions, d), d,
                                   NewEvent(Predecessor(versions, d)), content, t)
        BY <2>s DEF Shaped
      <4>2. versions \in SUBSET Version /\ HasLatest(versions)
        BY <1>i DEF SerialInv, ArchiveInv, TypeOK, TablesSound, Sound
      <4> QED
        BY <4>1, <4>2, WriteIsLatest
    <3>2. w.version.doc = d /\ w.version.num \in Nat
      <4>1. w.version \in Version
        BY <2>s DEF Shaped
      <4>2. w.version.doc = d
        BY <2>s, NextNumber DEF Shaped
      <4> QED
        BY <4>1, <4>2 DEF Version
    <3> QED
      BY <3>1, <3>2
  <2>5. \A c \in claims' \ claims : [doc |-> c.doc, num |-> c.num] \notin n.members
    BY <1>1, <2>2, <2>3, <2>4 DEF VersionId
  <2> QED
    BY <1>1, <2>2, <2>5, OtherRowsDoNotReplay
<1>3. ASSUME OneDeletion PROVE Replay(versions', claims', n) = Replay(versions, claims, n)
  <2>1. versions \subseteq versions' /\ claims' = claims
    BY <1>3 DEF OneDeletion
  <2> QED
    BY <1>1, <2>1, OtherRowsDoNotReplay
<1>4. ASSUME versions' = versions, claims' = claims
      PROVE  Replay(versions', claims', n) = Replay(versions, claims, n)
  BY <1>4
<1> QED
  BY <1>i, <1>2, <1>3, <1>4, StepKinds DEF OneCapture

\* Whatever the sessions, requests and clock, also one that steps back into the
\* interval a snapshot covers: its replay gives the same answer after every step.
THEOREM ReplaysAreStable == Spec => ReplayIsStable
<1>1. CommittedInv /\ [Next]_vars =>
        [\A n \in snapshots \cap snapshots' :
            Replay(versions', claims', n) = Replay(versions, claims, n)]_vars
  BY StepKeepsReplays
<1> QED
  BY <1>1, CommittedInvariant, PTL DEF Spec, ReplayIsStable

=============================================================================
