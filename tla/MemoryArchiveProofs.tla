------------------------ MODULE MemoryArchiveProofs ------------------------
(***************************************************************************)
(* Theorems about MemoryArchive, for any documents, contents, sessions and *)
(* requests, and for a clock that may stall or step back.                  *)
(***************************************************************************)
EXTENDS MemoryArchive, ArchiveTablesProofs, TLAPS

USE DEF Events, Bases, CrossBases

-----------------------------------------------------------------------------
(* Type correctness *)

LEMMA StageType ==
    ASSUME TypeOK, NEW s \in Sessions, NEW v \in SUBSET Version, NEW c \in SUBSET Claim,
           NEW n \in SUBSET Snapshot, Stage(s, v, c, n)
    PROVE  staged' \in [Sessions -> [versions : SUBSET Version, claims : SUBSET Claim,
                                     snapshots : SUBSET Snapshot]]
BY DEF TypeOK, Stage

LEMMA EndType ==
    ASSUME TypeOK, NEW s \in Sessions, End(s)
    PROVE  /\ phase' \in [Sessions -> Phases]
           /\ staged' \in [Sessions -> [versions : SUBSET Version, claims : SUBSET Claim,
                                        snapshots : SUBSET Snapshot]]
           /\ holder' \in Sessions \cup {None}
BY DEF TypeOK, End, Phases, Nothing

LEMMA VisibleType ==
    ASSUME TypeOK, NEW s \in Sessions
    PROVE  /\ VisibleVersions(s) \in SUBSET Version
           /\ VisibleClaims(s) \in SUBSET Claim
           /\ staged[s].snapshots \in SUBSET Snapshot
BY DEF TypeOK, VisibleVersions, VisibleClaims

LEMMA InitTypeOK == Init => TypeOK
BY DEF Init, TypeOK, Phases, Nothing

LEMMA NextTypeOK == TypeOK /\ [Next]_vars => TypeOK'
<1> SUFFICES ASSUME TypeOK, [Next]_vars PROVE TypeOK'
  OBVIOUS
<1>t. \A t \in 0..MaxClock : t \in Int
  BY ArchiveAssumption
<1>1. ASSUME NEW s \in Sessions, QueueForLock(s) PROVE TypeOK'
  BY <1>1 DEF QueueForLock, TypeOK, tables, Phases
<1>2. ASSUME NEW s \in Sessions, AcquireLock(s) PROVE TypeOK'
  BY <1>2 DEF AcquireLock, TypeOK, tables, Phases
<1>3. ASSUME NEW s \in Sessions, Abandon(s) PROVE TypeOK'
  BY <1>3 DEF Abandon, TypeOK, tables, Phases
<1>4. ASSUME NEW s \in Sessions, NEW d \in Docs, NEW content \in Contents,
             RecordUnchanged(s, d, content)
      PROVE  TypeOK'
  BY <1>4 DEF RecordUnchanged, TypeOK, tables, Phases
<1>5. ASSUME NEW s \in Sessions, NEW d \in Docs, NEW content \in Contents,
             NEW rq \in Requests, RecordVersion(s, d, content, rq)
      PROVE  TypeOK'
  <2>1. PICK t \in 0..MaxClock :
          /\ \E w \in Writes(VisibleVersions(s), VisibleClaims(s), d, content, rq, t) :
               Stage(s, {w.version}, w.claims, {})
          /\ clock' = t
    BY <1>5 DEF RecordVersion
  <2>2. PICK w \in Writes(VisibleVersions(s), VisibleClaims(s), d, content, rq, t) :
          Stage(s, {w.version}, w.claims, {})
    BY <2>1
  <2>3. w.version \in Version /\ w.claims \in SUBSET Claim
    BY <1>t, VisibleType, ArchiveAssumption, WriteShape DEF Shaped
  <2>4. staged' \in [Sessions -> [versions : SUBSET Version, claims : SUBSET Claim,
                                  snapshots : SUBSET Snapshot]]
    BY <2>2, <2>3, StageType
  <2> QED
    BY <1>5, <1>t, <2>1, <2>4 DEF RecordVersion, TypeOK, tables, Phases
<1>6. ASSUME NEW s \in Sessions, NEW d \in Docs, RecordDeletion(s, d) PROVE TypeOK'
  <2>1. PICK t \in 0..MaxClock :
          /\ \E v \in Tombstones(VisibleVersions(s), d, t) : Stage(s, {v}, {}, {})
          /\ clock' = t
    BY <1>6 DEF RecordDeletion
  <2>2. PICK v \in Tombstones(VisibleVersions(s), d, t) : Stage(s, {v}, {}, {})
    BY <2>1
  <2>3. {v} \in SUBSET Version /\ {} \in SUBSET Claim /\ {} \in SUBSET Snapshot
    BY <1>t, VisibleType, TombstoneShape
  <2>4. staged' \in [Sessions -> [versions : SUBSET Version, claims : SUBSET Claim,
                                  snapshots : SUBSET Snapshot]]
    BY <2>2, <2>3, StageType
  <2> QED
    BY <1>6, <1>t, <2>1, <2>4 DEF RecordDeletion, TypeOK, tables, Phases
<1>7. ASSUME NEW s \in Sessions, NEW asof \in Cutoffs, TakeSnapshot(s, asof) PROVE TypeOK'
  <2> DEFINE cutoff(t) == IF asof = None THEN t ELSE asof
             new(t) == [asof |-> cutoff(t), observed |-> t,
                        members |-> Members(VisibleVersions(s), cutoff(t))]
  <2>1. PICK t \in 0..MaxClock :
          /\ clock' = t
          /\ \/ Stage(s, {}, {}, {})
             \/ Stage(s, {}, {}, {new(t)})
    BY <1>7 DEF TakeSnapshot
  <2>2. cutoff(t) \in Int
    BY <1>t, ArchiveAssumption
  <2>3. Members(VisibleVersions(s), cutoff(t)) \in SUBSET VersionRef
    BY VisibleType DEF Members, Loaded, VersionId, VersionRef, Version
  <2>4. new(t) \in Snapshot
    BY <1>t, <2>2, <2>3 DEF Snapshot
  <2>5. staged' \in [Sessions -> [versions : SUBSET Version, claims : SUBSET Claim,
                                  snapshots : SUBSET Snapshot]]
    <3> HIDE DEF new
    <3>1. {} \in SUBSET Version /\ {} \in SUBSET Claim /\ {} \in SUBSET Snapshot
          /\ {new(t)} \in SUBSET Snapshot
      BY <2>4
    <3>2. CASE Stage(s, {}, {}, {})
      BY <3>1, <3>2, StageType
    <3>3. CASE Stage(s, {}, {}, {new(t)})
      BY <3>1, <3>3, StageType
    <3> QED
      BY <2>1, <3>2, <3>3
  <2> QED
    BY <1>7, <1>t, <2>1, <2>5 DEF TakeSnapshot, TypeOK, tables, Phases
<1>8. ASSUME NEW s \in Sessions, Erase(s) PROVE TypeOK'
  BY <1>8 DEF Erase, TypeOK, tables, Phases
<1>9. ASSUME NEW s \in Sessions, Commit(s) PROVE TypeOK'
  <2>1. /\ registered' \in BOOLEAN
        /\ versions' \in SUBSET Version
        /\ claims' \in SUBSET Claim
        /\ snapshots' \in SUBSET Snapshot
    BY <1>9, VisibleType DEF Commit, TypeOK
  <2> QED
    BY <1>9, <2>1, EndType DEF Commit, TypeOK
<1>10. ASSUME NEW s \in Sessions, Rollback(s) PROVE TypeOK'
  BY <1>10, EndType DEF Rollback, TypeOK, tables
<1>11. ASSUME CreateCorpus PROVE TypeOK'
  BY <1>11 DEF CreateCorpus, TypeOK
<1>12. ASSUME Tick PROVE TypeOK'
  BY <1>12, <1>t DEF Tick, TypeOK, tables
<1>13. ASSUME UNCHANGED vars PROVE TypeOK'
  BY <1>13 DEF vars, TypeOK
<1> QED
  BY <1>1, <1>2, <1>3, <1>4, <1>5, <1>6, <1>7, <1>8, <1>9, <1>10, <1>11, <1>12, <1>13
  DEF Next, Work

\* Every state of the archive is well typed, whatever the instance: rows stay
\* rows, sessions stay in a phase, and the lock has at most one holder.
THEOREM TypeCorrect == Spec => []TypeOK
<1> QED
  BY InitTypeOK, NextTypeOK, PTL DEF Spec

-----------------------------------------------------------------------------
(* The inductive invariant *)

\* Only the holder of the lock works, and only a session at work has rows nobody
\* else sees; it has none before its first statement.
LockHeld ==
    \A s \in Sessions :
        /\ phase[s] \in Working => holder = s
        /\ phase[s] \in {"idle", "waiting", "open"} => staged[s] = Nothing

\* The committed tables are sound, and so is what each open transaction sees:
\* its commit publishes exactly that.
TablesSound ==
    /\ Sound(versions, claims)
    /\ \A s \in Sessions : Sound(VisibleVersions(s), VisibleClaims(s))

ArchiveInv == TypeOK /\ LockHeld /\ TablesSound

LEMMA NothingStaged ==
    ASSUME NEW s \in Sessions, staged[s] = Nothing
    PROVE  VisibleVersions(s) = versions /\ VisibleClaims(s) = claims
BY DEF Nothing, VisibleVersions, VisibleClaims

LEMMA InitArchiveInv == Init => ArchiveInv
<1> SUFFICES ASSUME Init PROVE ArchiveInv
  OBVIOUS
<1>1. LockHeld
  BY DEF Init, LockHeld, Working, Phases
<1>2. TablesSound
  BY EmptySound DEF Init, TablesSound, Nothing, VisibleVersions, VisibleClaims
<1> QED
  BY <1>1, <1>2, InitTypeOK DEF ArchiveInv

\* A step that leaves the rows alone, committed and staged, leaves them sound.
LEMMA SameRows ==
    ASSUME TablesSound, versions' = versions, claims' = claims, staged' = staged
    PROVE  TablesSound'
BY DEF TablesSound, VisibleVersions, VisibleClaims

\* A step of the holder that stages rows disturbs nobody else's view.
LEMMA StagedRows ==
    ASSUME TypeOK, TablesSound, NEW s \in Sessions,
           NEW v \in SUBSET Version, NEW c \in SUBSET Claim, NEW n,
           Stage(s, v, c, n), UNCHANGED tables,
           Sound(VisibleVersions(s) \cup v, VisibleClaims(s) \cup c)
    PROVE  TablesSound'
<1>1. ASSUME NEW q \in Sessions
      PROVE  Sound(VisibleVersions(q), VisibleClaims(q))'
  <2>1. CASE q = s
    <3>1. /\ VisibleVersions(q)' = VisibleVersions(s) \cup v
          /\ VisibleClaims(q)' = VisibleClaims(s) \cup c
      BY <2>1 DEF Stage, TypeOK, tables, VisibleVersions, VisibleClaims
    <3> QED
      BY <3>1
  <2>2. CASE q # s
    <3>1. /\ VisibleVersions(q)' = VisibleVersions(q)
          /\ VisibleClaims(q)' = VisibleClaims(q)
      BY <2>2 DEF Stage, TypeOK, tables, VisibleVersions, VisibleClaims
    <3> QED
      BY <3>1 DEF TablesSound
  <2> QED
    BY <2>1, <2>2
<1>2. Sound(versions, claims)'
  BY DEF TablesSound, tables
<1> QED
  BY <1>1, <1>2 DEF TablesSound

LEMMA NextLockHeld == TypeOK /\ LockHeld /\ [Next]_vars => LockHeld'
<1> SUFFICES ASSUME TypeOK, LockHeld, [Next]_vars PROVE LockHeld'
  OBVIOUS
<1> USE DEF TypeOK, LockHeld, Working, Phases
<1>1. ASSUME NEW s \in Sessions, QueueForLock(s) PROVE LockHeld'
  BY <1>1 DEF QueueForLock
<1>2. ASSUME NEW s \in Sessions, AcquireLock(s) PROVE LockHeld'
  BY <1>2, ArchiveAssumption DEF AcquireLock
<1>3. ASSUME NEW s \in Sessions, Abandon(s) PROVE LockHeld'
  BY <1>3 DEF Abandon
<1>4. ASSUME NEW s \in Sessions, NEW d \in Docs, NEW content \in Contents,
             RecordUnchanged(s, d, content)
      PROVE  LockHeld'
  BY <1>4 DEF RecordUnchanged
<1>5. ASSUME NEW s \in Sessions, NEW d \in Docs, NEW content \in Contents,
             NEW rq \in Requests, RecordVersion(s, d, content, rq)
      PROVE  LockHeld'
  BY <1>5 DEF RecordVersion, Stage
<1>6. ASSUME NEW s \in Sessions, NEW d \in Docs, RecordDeletion(s, d) PROVE LockHeld'
  BY <1>6 DEF RecordDeletion, Stage
<1>7. ASSUME NEW s \in Sessions, NEW asof \in Cutoffs, TakeSnapshot(s, asof) PROVE LockHeld'
  BY <1>7 DEF TakeSnapshot, Stage
<1>8. ASSUME NEW s \in Sessions, Erase(s) PROVE LockHeld'
  BY <1>8 DEF Erase
<1>9. ASSUME NEW s \in Sessions, Commit(s) PROVE LockHeld'
  BY <1>9 DEF Commit, End
<1>10. ASSUME NEW s \in Sessions, Rollback(s) PROVE LockHeld'
  BY <1>10 DEF Rollback, End
<1>11. ASSUME CreateCorpus PROVE LockHeld'
  BY <1>11 DEF CreateCorpus
<1>12. ASSUME Tick PROVE LockHeld'
  BY <1>12 DEF Tick
<1>13. ASSUME UNCHANGED vars PROVE LockHeld'
  BY <1>13 DEF vars
<1> QED
  BY <1>1, <1>2, <1>3, <1>4, <1>5, <1>6, <1>7, <1>8, <1>9, <1>10, <1>11, <1>12, <1>13
  DEF Next, Work

LEMMA NextTablesSound == ArchiveInv /\ [Next]_vars => TablesSound'
<1> SUFFICES ASSUME TypeOK, LockHeld, TablesSound, [Next]_vars PROVE TablesSound'
  BY DEF ArchiveInv
<1>t. \A t \in 0..MaxClock : t \in Int
  BY ArchiveAssumption
<1>1. ASSUME NEW s \in Sessions,
             \/ QueueForLock(s) \/ AcquireLock(s) \/ Abandon(s) \/ Erase(s)
             \/ \E d \in Docs, content \in Contents : RecordUnchanged(s, d, content)
      PROVE  TablesSound'
  BY <1>1, SameRows DEF QueueForLock, AcquireLock, Abandon, Erase, RecordUnchanged, tables
<1>2. ASSUME NEW s \in Sessions, NEW d \in Docs, NEW content \in Contents,
             NEW rq \in Requests, RecordVersion(s, d, content, rq)
      PROVE  TablesSound'
  <2>1. PICK t \in 0..MaxClock :
          \E w \in Writes(VisibleVersions(s), VisibleClaims(s), d, content, rq, t) :
             Stage(s, {w.version}, w.claims, {})
    BY <1>2 DEF RecordVersion
  <2>2. PICK w \in Writes(VisibleVersions(s), VisibleClaims(s), d, content, rq, t) :
          Stage(s, {w.version}, w.claims, {})
    BY <2>1
  <2>3. VisibleVersions(s) \in SUBSET Version /\ VisibleClaims(s) \in SUBSET Claim
    BY VisibleType
  <2>4. rq \in Request /\ t \in Int
    BY <1>t, ArchiveAssumption
  <2>5. {w.version} \in SUBSET Version /\ w.claims \in SUBSET Claim
    <3>1. Shaped(VisibleVersions(s), VisibleClaims(s), d, content, t, w)
      BY <2>3, <2>4, WriteShape
    <3> QED
      BY <3>1 DEF Shaped
  <2>6. Sound(VisibleVersions(s) \cup {w.version}, VisibleClaims(s) \cup w.claims)
    BY <2>3, <2>4, WriteKeepsSound DEF TablesSound
  <2> QED
    BY <1>2, <2>2, <2>5, <2>6, StagedRows DEF RecordVersion
<1>3. ASSUME NEW s \in Sessions, NEW d \in Docs, RecordDeletion(s, d) PROVE TablesSound'
  <2>1. PICK t \in 0..MaxClock :
          \E v \in Tombstones(VisibleVersions(s), d, t) : Stage(s, {v}, {}, {})
    BY <1>3 DEF RecordDeletion
  <2>2. PICK v \in Tombstones(VisibleVersions(s), d, t) : Stage(s, {v}, {}, {})
    BY <2>1
  <2>3. VisibleVersions(s) \in SUBSET Version /\ VisibleClaims(s) \in SUBSET Claim
    BY VisibleType
  <2>4. {v} \in SUBSET Version /\ {} \in SUBSET Claim
    BY <1>t, <2>3, TombstoneShape
  <2>5. Sound(VisibleVersions(s) \cup {v}, VisibleClaims(s))
    BY <1>t, <2>3, TombstoneKeepsSound DEF TablesSound
  <2>6. Sound(VisibleVersions(s) \cup {v}, VisibleClaims(s) \cup {})
    BY <2>5
  <2> QED
    BY <1>3, <2>2, <2>4, <2>6, StagedRows DEF RecordDeletion
<1>4. ASSUME NEW s \in Sessions, NEW asof \in Cutoffs, TakeSnapshot(s, asof)
      PROVE  TablesSound'
  <2>1. PICK n : Stage(s, {}, {}, n)
    BY <1>4 DEF TakeSnapshot
  <2>2. {} \in SUBSET Version /\ {} \in SUBSET Claim
    OBVIOUS
  <2>3. Sound(VisibleVersions(s) \cup {}, VisibleClaims(s) \cup {})
    BY DEF TablesSound
  <2> QED
    BY <1>4, <2>1, <2>2, <2>3, StagedRows DEF TakeSnapshot
<1>5. ASSUME NEW s \in Sessions, Commit(s) \/ Rollback(s) PROVE TablesSound'
  \* Whoever else has rows staged would hold the lock too.
  <2>1. \A q \in Sessions : staged'[q] = Nothing
    BY <1>5 DEF Commit, Rollback, End, LockHeld, Working, TypeOK
  <2>2. Sound(versions, claims)'
    <3>1. \/ versions' = {} /\ claims' = {}
          \/ versions' = VisibleVersions(s) /\ claims' = VisibleClaims(s)
          \/ versions' = versions /\ claims' = claims
      BY <1>5 DEF Commit, Rollback, tables
    <3> QED
      BY <3>1, EmptySound DEF TablesSound
  <2>3. \A q \in Sessions : /\ VisibleVersions(q)' = versions'
                            /\ VisibleClaims(q)' = claims'
    BY <2>1 DEF Nothing, VisibleVersions, VisibleClaims
  <2> QED
    BY <2>2, <2>3 DEF TablesSound
<1>6. ASSUME CreateCorpus \/ Tick \/ UNCHANGED vars PROVE TablesSound'
  BY <1>6, SameRows DEF CreateCorpus, Tick, vars, tables
<1> QED
  BY <1>1, <1>2, <1>3, <1>4, <1>5, <1>6 DEF Next, Work

LEMMA NextArchiveInv == ArchiveInv /\ [Next]_vars => ArchiveInv'
BY NextTypeOK, NextLockHeld, NextTablesSound DEF ArchiveInv

LEMMA ArchiveInvariant == Spec => []ArchiveInv
BY InitArchiveInv, NextArchiveInv, PTL DEF Spec

\* Whatever the sessions, requests and clock: no two versions of a document share
\* a number, none is missing, and a tombstone is only ever followed by a restore.
THEOREM ChainsStayLinear == Spec => []ChainsAreLinear
<1>1. ArchiveInv => ChainsAreLinear
  BY DEF ArchiveInv, TablesSound, Sound, Linear, ChainsAreLinear
<1> QED
  BY <1>1, ArchiveInvariant, PTL

\* Whatever the sessions, requests and clock: a supersession edge leads to a claim
\* of the archive that was observed strictly before the claim that replaced it.
THEOREM SupersessionStaysBackward == Spec => []SupersessionPointsBack
<1>1. ArchiveInv => SupersessionPointsBack
  BY DEF ArchiveInv, TablesSound, Sound, EdgesPointBack, SupersessionPointsBack
<1> QED
  BY <1>1, ArchiveInvariant, PTL

-----------------------------------------------------------------------------
(* A claim is retired only while it is live *)

\* What a writer decided under the lock stays true until it commits: nobody else
\* can commit a successor, a tombstone or an erasure in between.
StagedTargetsLive ==
    \A s \in Sessions : \A c \in staged[s].claims :
        c.basis \in CrossBases => \E o \in Live(versions, claims) : ClaimId(o) = c.target

RetireInv == ArchiveInv /\ StagedTargetsLive

LEMMA NextStagedTargetsLive == RetireInv /\ [Next]_vars => StagedTargetsLive'
<1> SUFFICES ASSUME RetireInv, [Next]_vars PROVE StagedTargetsLive'
  OBVIOUS
<1>i. TypeOK /\ LockHeld /\ StagedTargetsLive
  BY DEF RetireInv, ArchiveInv
<1>t. \A t \in 0..MaxClock : t \in Int
  BY ArchiveAssumption
<1>r. ASSUME versions' = versions, claims' = claims,
             \A s \in Sessions : staged'[s].claims \subseteq staged[s].claims
      PROVE  StagedTargetsLive'
  <2>1. Live(versions, claims)' = Live(versions, claims)
    BY <1>r
  <2> QED
    BY <1>r, <1>i, <2>1 DEF StagedTargetsLive
<1>1. ASSUME NEW s \in Sessions,
             \/ QueueForLock(s) \/ AcquireLock(s) \/ Abandon(s) \/ Erase(s)
             \/ \E d \in Docs, content \in Contents : RecordUnchanged(s, d, content)
      PROVE  StagedTargetsLive'
  <2>1. versions' = versions /\ claims' = claims /\ staged' = staged
    BY <1>1 DEF QueueForLock, AcquireLock, Abandon, Erase, RecordUnchanged, tables
  <2> QED
    BY <1>r, <2>1
<1>2. ASSUME NEW s \in Sessions, NEW d \in Docs, NEW content \in Contents,
             NEW rq \in Requests, RecordVersion(s, d, content, rq)
      PROVE  StagedTargetsLive'
  <2>1. staged[s] = Nothing
    BY <1>2, <1>i DEF RecordVersion, LockHeld
  <2>2. VisibleVersions(s) = versions /\ VisibleClaims(s) = claims
    BY <2>1, NothingStaged
  <2>3. PICK t \in 0..MaxClock :
          \E w \in Writes(versions, claims, d, content, rq, t) :
             Stage(s, {w.version}, w.claims, {})
    BY <1>2, <2>2 DEF RecordVersion
  <2>4. PICK w \in Writes(versions, claims, d, content, rq, t) :
          Stage(s, {w.version}, w.claims, {})
    BY <2>3
  <2>5. Shaped(versions, claims, d, content, t, w)
    <3>1. versions \in SUBSET Version /\ claims \in SUBSET Claim
      BY <1>i DEF TypeOK
    <3>2. rq \in Request /\ t \in Int
      BY <1>t, ArchiveAssumption
    <3> QED
      BY <3>1, <3>2, WriteShape
  <2>6. \A c \in w.claims : c.basis \in CrossBases =>
          \E o \in Live(versions, claims) : ClaimId(o) = c.target
    BY <2>5 DEF Shaped, LiveElsewhere
  <2>7. /\ staged'[s].claims = w.claims
        /\ \A q \in Sessions \ {s} : staged'[q] = staged[q]
    BY <1>i, <2>1, <2>4 DEF Stage, TypeOK, Nothing
  <2>8. versions' = versions /\ claims' = claims
    BY <1>2 DEF RecordVersion, tables
  <2>9. Live(versions, claims)' = Live(versions, claims)
    BY <2>8
  <2> QED
    BY <1>i, <2>6, <2>7, <2>9 DEF StagedTargetsLive
<1>3. ASSUME NEW s \in Sessions,
             \/ \E d \in Docs : RecordDeletion(s, d)
             \/ \E asof \in Cutoffs : TakeSnapshot(s, asof)
      PROVE  StagedTargetsLive'
  <2>1. versions' = versions /\ claims' = claims
    BY <1>3 DEF RecordDeletion, TakeSnapshot, tables
  <2>2. PICK v, n : Stage(s, v, {}, n)
    BY <1>3 DEF RecordDeletion, TakeSnapshot
  <2>3. \A q \in Sessions : staged'[q].claims \subseteq staged[q].claims
    BY <1>i, <2>2 DEF Stage, TypeOK
  <2> QED
    BY <1>r, <2>1, <2>3
<1>4. ASSUME NEW s \in Sessions, Commit(s) \/ Rollback(s) PROVE StagedTargetsLive'
  <2>1. \A q \in Sessions : staged'[q] = Nothing
    BY <1>4, <1>i DEF Commit, Rollback, End, LockHeld, Working, TypeOK
  <2> QED
    BY <2>1 DEF StagedTargetsLive, Nothing
<1>5. ASSUME CreateCorpus \/ Tick \/ UNCHANGED vars PROVE StagedTargetsLive'
  <2>1. versions' = versions /\ claims' = claims /\ staged' = staged
    BY <1>5 DEF CreateCorpus, Tick, vars, tables
  <2> QED
    BY <1>r, <2>1
<1> QED
  BY <1>1, <1>2, <1>3, <1>4, <1>5 DEF Next, Work

LEMMA RetireInvariant == Spec => []RetireInv
<1>1. Init => RetireInv
  <2> SUFFICES ASSUME Init PROVE RetireInv
    OBVIOUS
  <2>1. StagedTargetsLive
    BY DEF Init, StagedTargetsLive, Nothing
  <2> QED
    BY <2>1, InitArchiveInv DEF RetireInv
<1>2. RetireInv /\ [Next]_vars => RetireInv'
  BY NextArchiveInv, NextStagedTargetsLive DEF RetireInv
<1> QED
  BY <1>1, <1>2, PTL DEF Spec

\* Claims become visible only by a commit of rows whose targets were checked.
LEMMA CommitRetiresLive ==
    ASSUME RetireInv, [Next]_vars, NEW c \in claims' \ claims, c.basis \in CrossBases
    PROVE  \E o \in Live(versions, claims) : ClaimId(o) = c.target
<1>1. ASSUME NEW s \in Sessions, Commit(s)
      PROVE  \E o \in Live(versions, claims) : ClaimId(o) = c.target
  <2>1. c \in staged[s].claims
    BY <1>1 DEF Commit, VisibleClaims
  <2> QED
    BY <2>1 DEF RetireInv, StagedTargetsLive
<1>2. ASSUME \A s \in Sessions : ~Commit(s) PROVE claims' = claims
  BY <1>2 DEF Next, Work, vars, tables, QueueForLock, AcquireLock, Abandon, RecordUnchanged,
              RecordVersion, RecordDeletion, TakeSnapshot, Erase, Rollback, CreateCorpus, Tick
<1> QED
  BY <1>1, <1>2

\* Whatever the sessions, requests and clock: a write that retires a claim of
\* another document retires one that is live at the moment the write commits.
THEOREM RetirementIsOfLiveClaims == Spec => RetiresOnlyLiveClaims
<1>1. RetireInv /\ [Next]_vars =>
        [\A c \in claims' \ claims : c.basis \in CrossBases =>
            \E o \in Live(versions, claims) : ClaimId(o) = c.target]_vars
  BY CommitRetiresLive
<1> QED
  BY <1>1, RetireInvariant, PTL DEF Spec, RetiresOnlyLiveClaims

=============================================================================
