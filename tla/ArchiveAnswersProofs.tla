------------------------ MODULE ArchiveAnswersProofs ------------------------
(***************************************************************************)
(* Packs and receipts tell the truth about the archive.                    *)
(*                                                                         *)
(* A receipt names the answer, and is verified against it.  What the proof *)
(* rests on is a property of the tables that no foreign key states: a      *)
(* version has at most one claim under a key, so that of the live claims   *)
(* of one document only one can answer for it.                             *)
(*                                                                         *)
(* A pack fits, says whether it is truncated, and is closed: it lists      *)
(* every conflict that one of its claims takes part in.  Items are offered *)
(* one after another, as many as the answer lists, so the tables have to   *)
(* be finite; that they are is part of the inductive invariant AnswersInv. *)
(***************************************************************************)
EXTENDS ArchiveReceipts, ArchiveSerialProofs, FunctionTheorems

-----------------------------------------------------------------------------
(* Edges start at one key each *)

OnePerKey(E) == \A e, f \in E : e.key = f.key => e = f

ClaimsAreUnique(C) == \A c, o \in C : ClaimId(c) = ClaimId(o) => c = o

\* However the edges out of a document are asked for, each new claim gets at most one.
LEMMA CrossTargetsKeys ==
    ASSUME NEW V, NEW C, NEW d, NEW K, NEW rq \in Request,
           NEW cross \in CrossTargets(V, C, d, K, rq)
    PROVE  OnePerKey(cross)
<1>1. \A e : OnePerKey({e}) /\ OnePerKey({})
  BY DEF OnePerKey
<1>2. \A ref : \A X \in ExplicitTargets(V, C, d, K, ref) : \E e : X = {e}
  BY DEF ExplicitTargets
<1>3. \A topic : \A X \in TopicTargets(V, C, d, topic) : X = {} \/ \E e : X = {e}
  BY DEF TopicTargets
<1>4. \A T : \A X \in Pairings(K, T) : OnePerKey(X)
  BY DEF Pairings, OnePerKey
<1>5. \A X \in DeclaredTargets(V, C, d, K, rq.refs) : OnePerKey(X)
  BY <1>4 DEF DeclaredTargets
<1> DEFINE asked == IF rq.claim # None THEN ExplicitTargets(V, C, d, K, rq.claim)
                    ELSE IF rq.topic # None THEN TopicTargets(V, C, d, rq.topic)
                    ELSE {{}}
<1>6. ASSUME NEW X \in asked PROVE OnePerKey(X)
  <2>1. X = {} \/ \E e : X = {e}
    <3>1. CASE rq.claim # None
      BY <1>2, <1>6, <3>1
    <3>2. CASE rq.claim = None /\ rq.topic # None
      BY <1>3, <1>6, <3>2
    <3>3. CASE rq.claim = None /\ rq.topic = None
      BY <1>6, <3>3
    <3> QED
      BY <3>1, <3>2, <3>3
  <2> QED
    BY <1>1, <2>1
<1>7. cross \in asked \/ cross \in DeclaredTargets(V, C, d, K, rq.refs)
  BY DEF CrossTargets
<1> QED
  BY <1>5, <1>6, <1>7

\* So do the edges into a document's own predecessor.
LEMMA SameDocumentKeys ==
    ASSUME NEW V \in SUBSET Version, NEW C \in SUBSET Claim, NEW d, NEW K,
           ClaimsAreUnique(C)
    PROVE  OnePerKey(SameDocumentEdges(C, Predecessor(V, d), K))
<1> DEFINE prev == Predecessor(V, d)
           old  == UNION {ClaimsOf(C, p) : p \in prev}
<1>1. \A p, q \in prev : p.doc = q.doc /\ p.num = q.num
  BY DEF Predecessor, IsLatest, Version
<1>2. \A c \in old : c \in C /\ \E p \in prev : c.doc = p.doc /\ c.num = p.num
  BY DEF ClaimsOf
<1>3. ASSUME NEW c \in old, NEW o \in old, c.key = o.key PROVE c = o
  <2> HIDE DEF old, prev
  <2>1. c.doc = o.doc /\ c.num = o.num
    BY <1>1, <1>2
  <2>2. ClaimId(c) = ClaimId(o)
    BY <1>3, <2>1 DEF ClaimId
  <2> QED
    BY <1>2, <2>2 DEF ClaimsAreUnique
<1>4. CASE \E k \in K, c \in old : K = {k} /\ old = {c}
  <2> PICK k \in K, c \in old : K = {k} /\ old = {c}
    BY <1>4
  <2>1. {Edge(x, o, "single_claim_replacement") : x \in K, o \in old}
          = {Edge(k, c, "single_claim_replacement")}
    OBVIOUS
  <2>2. {Edge(o.key, o, "same_document_key") : o \in {x \in old : x.key \in K}}
          \subseteq {Edge(c.key, c, "same_document_key")}
    OBVIOUS
  <2>3. \/ SameDocumentEdges(C, prev, K) = {Edge(k, c, "single_claim_replacement")}
        \/ SameDocumentEdges(C, prev, K) \subseteq {Edge(c.key, c, "same_document_key")}
    BY <2>1, <2>2 DEF SameDocumentEdges
  <2> QED
    BY <2>3 DEF OnePerKey
<1>5. CASE ~\E k \in K, c \in old : K = {k} /\ old = {c}
  <2>1. SameDocumentEdges(C, prev, K) =
          {Edge(c.key, c, "same_document_key") : c \in {x \in old : x.key \in K}}
    BY <1>5 DEF SameDocumentEdges
  <2> HIDE DEF old
  <2>2. \A e \in SameDocumentEdges(C, prev, K) :
           \E c \in old : e = Edge(c.key, c, "same_document_key")
    BY <2>1
  <2>3. \A c : Edge(c.key, c, "same_document_key").key = c.key
    BY DEF Edge
  <2> QED
    BY <1>3, <2>2, <2>3 DEF OnePerKey
<1> QED
  BY <1>4, <1>5

\* One claim row for each key.
LEMMA NewClaimsKeys ==
    ASSUME NEW V \in SUBSET Version, NEW C \in SUBSET Claim, NEW d, NEW v, NEW cross,
           ClaimsAreUnique(C), OnePerKey(cross)
    PROVE  OnePerKey(NewClaims(C, Predecessor(V, d), v, cross))
<1> DEFINE prev == Predecessor(V, d)
           K    == Authored(v.content)
           own  == {e \in SameDocumentEdges(C, prev, K) : \A f \in cross : f.key # e.key}
           row(k, t, b) == [doc |-> v.doc, num |-> v.num, key |-> k,
                            value |-> Asserts[v.content][k], target |-> t, basis |-> b]
           edges == cross \cup own
<1>1. OnePerKey(edges)
  BY SameDocumentKeys DEF OnePerKey
<1>2. NewClaims(C, prev, v, cross) =
         {row(e.key, e.target, e.basis) : e \in edges}
         \cup {row(k, None, None) : k \in K \ {e.key : e \in edges}}
  BY DEF NewClaims
<1>3. \A k, t, b : row(k, t, b).key = k
  OBVIOUS
<1> HIDE DEF row, edges, K, prev
<1>4. \A r \in NewClaims(C, prev, v, cross) :
         \/ \E e \in edges : r = row(e.key, e.target, e.basis) /\ r.key = e.key
         \/ r = row(r.key, None, None) /\ \A e \in edges : e.key # r.key
  BY <1>2, <1>3
<1>5. \A r, s \in NewClaims(C, prev, v, cross) : r.key = s.key => r = s
  BY <1>1, <1>4 DEF OnePerKey
<1> QED
  BY <1>5 DEF OnePerKey, prev

\* A write adds claims of a version that is not there yet, one for each key.
LEMMA WriteKeepsUnique ==
    ASSUME NEW V \in SUBSET Version, NEW C \in SUBSET Claim, NEW d \in Docs,
           NEW content \in Contents, NEW rq \in Request, NEW t \in Int,
           NEW w \in Writes(V, C, d, content, rq, t),
           HasLatest(V), Owned(V, C), ClaimsAreUnique(C)
    PROVE  ClaimsAreUnique(C \cup w.claims) /\ OnePerKey(w.claims)
<1> DEFINE prev == Predecessor(V, d)
           v    == NewVersion(prev, d, NewEvent(prev), content, t)
<1>1. PICK cross \in CrossTargets(V, C, d, Authored(content), rq) :
         w = [version |-> v, claims |-> NewClaims(C, prev, v, cross)]
  BY DEF Writes
<1>2. OnePerKey(w.claims)
  BY <1>1, CrossTargetsKeys, NewClaimsKeys
<1>3. /\ w.version \in Version /\ w.version = v
      /\ \A c \in w.claims : c.doc = w.version.doc /\ c.num = w.version.num
  <2>1. Shaped(V, C, d, content, t, w)
    BY WriteShape
  <2> QED
    BY <1>1, <2>1 DEF Shaped
<1>4. v.doc = d
  BY DEF NewVersion
<1>5. \A u \in V : u.doc = d => u.num < v.num
  BY WriteIsLatest
<1> HIDE DEF v, prev
<1>6. \A c \in C : c.doc = v.doc => c.num # v.num
  BY <1>3, <1>4, <1>5 DEF Owned, Version
<1>7. ASSUME NEW c \in C \cup w.claims, NEW o \in C \cup w.claims, ClaimId(c) = ClaimId(o)
      PROVE  c = o
  <2>1. c.doc = o.doc /\ c.num = o.num /\ c.key = o.key
    BY <1>7 DEF ClaimId
  <2>2. CASE c \in w.claims /\ o \in w.claims
    BY <1>2, <2>1, <2>2 DEF OnePerKey
  <2>3. CASE c \in C /\ o \in C
    BY <1>7, <2>3 DEF ClaimsAreUnique
  <2> QED
    BY <1>3, <1>6, <2>1, <2>2, <2>3
<1> QED
  BY <1>2, <1>7 DEF ClaimsAreUnique

-----------------------------------------------------------------------------
(* The invariant *)

ClaimsInv == CommittedInv /\ ClaimsAreUnique(claims)

LEMMA CommittedWriteKeepsUnique ==
    ASSUME ClaimsInv, NEW d \in Docs, NEW content \in Contents, NEW rq \in Requests,
           NEW t \in 0..MaxClock, NEW w \in Writes(versions, claims, d, content, rq, t)
    PROVE  /\ w.claims \in SUBSET Claim /\ OnePerKey(w.claims)
           /\ ClaimsAreUnique(claims \cup w.claims)
<1>i. SerialInv /\ RowsOwned /\ ClaimsAreUnique(claims)
  BY DEF ClaimsInv, CommittedInv
<1>1. versions \in SUBSET Version /\ claims \in SUBSET Claim /\ rq \in Request /\ t \in Int
  BY <1>i, ArchiveAssumption DEF SerialInv, ArchiveInv, TypeOK
<1>2. HasLatest(versions)
  BY <1>i DEF SerialInv, ArchiveInv, TablesSound, Sound
<1>3. Owned(versions, claims)
  BY <1>i DEF RowsOwned
<1>4. Shaped(versions, claims, d, content, t, w)
  BY <1>i, CommittedWriteShape
<1>5. w.claims \in SUBSET Claim
  BY <1>4 DEF Shaped
<1> QED
  BY <1>i, <1>1, <1>2, <1>3, <1>5, WriteKeepsUnique

LEMMA NextClaimsAreUnique == ClaimsInv /\ [Next]_vars => ClaimsAreUnique(claims')
<1> SUFFICES ASSUME ClaimsInv, [Next]_vars PROVE ClaimsAreUnique(claims')
  OBVIOUS
<1>i. SerialInv /\ RowsOwned /\ ClaimsAreUnique(claims)
  BY DEF ClaimsInv, CommittedInv
<1>1. CASE claims' = claims
  BY <1>i, <1>1 DEF ClaimsAreUnique
<1>2. CASE claims' = {}
  BY <1>2 DEF ClaimsAreUnique
<1>3. CASE OneWrite
  <2>1. PICK d \in Docs, content \in Contents, rq \in Requests, t \in 0..MaxClock :
          \E w \in Writes(versions, claims, d, content, rq, t) : claims' = claims \cup w.claims
    BY <1>3 DEF OneWrite
  <2> QED
    BY <2>1, CommittedWriteKeepsUnique
<1> QED
  BY <1>i, <1>1, <1>2, <1>3, StepKinds DEF OneDeletion, OneCapture

LEMMA ClaimsInvariant == Spec => []ClaimsInv
<1>1. Init => ClaimsAreUnique(claims)
  BY DEF Init, ClaimsAreUnique
<1>2. ClaimsInv /\ [Next]_vars => ClaimsAreUnique(claims)'
  BY NextClaimsAreUnique DEF ClaimsAreUnique
<1>3. CommittedInv /\ ClaimsAreUnique(claims) <=> ClaimsInv
  BY DEF ClaimsInv
<1> QED
  BY <1>1, <1>2, <1>3, CommittedInvariant, PTL DEF Spec

-----------------------------------------------------------------------------
(* The tables are finite *)

FiniteVersions ==
    /\ IsFiniteSet(versions)
    /\ \A s \in Sessions : IsFiniteSet(staged[s].versions)

AnswersInv == ClaimsInv /\ FiniteVersions /\ IsFiniteSet(claims)

LEMMA StageFinite ==
    ASSUME TypeOK, FiniteVersions, NEW s \in Sessions, NEW v, NEW c, NEW n, IsFiniteSet(v),
           Stage(s, v, c, n), versions' = versions
    PROVE  FiniteVersions'
<1>1. ASSUME NEW q \in Sessions PROVE IsFiniteSet(staged'[q].versions)
  <2>1. CASE q = s
    <3>1. staged'[q].versions = staged[q].versions \cup v
      BY <2>1 DEF Stage, TypeOK
    <3>2. IsFiniteSet(staged[q].versions)
      BY DEF FiniteVersions
    <3> QED
      BY <3>1, <3>2, FS_Union
  <2>2. CASE q # s
    <3>1. staged'[q] = staged[q]
      BY <2>2 DEF Stage, TypeOK
    <3> QED
      BY <3>1 DEF FiniteVersions
  <2> QED
    BY <2>1, <2>2
<1> QED
  BY <1>1 DEF FiniteVersions

LEMMA NextFiniteVersions == TypeOK /\ FiniteVersions /\ [Next]_vars => FiniteVersions'
<1> SUFFICES ASSUME TypeOK, FiniteVersions, [Next]_vars PROVE FiniteVersions'
  OBVIOUS
<1>0. IsFiniteSet({}) /\ \A x : IsFiniteSet({x})
  BY FS_EmptySet, FS_Singleton
<1>1. CASE versions' = versions /\ staged' = staged
  BY <1>1 DEF FiniteVersions
<1>2. ASSUME NEW s \in Sessions, End(s), IsFiniteSet(versions') PROVE FiniteVersions'
  <2>1. \A q \in Sessions : staged'[q] = staged[q] \/ staged'[q].versions = {}
    BY <1>2 DEF End, TypeOK, Nothing
  <2> QED
    BY <1>0, <1>2, <2>1 DEF FiniteVersions
<1>3. ASSUME NEW s \in Sessions, Commit(s) PROVE FiniteVersions'
  <2>1. IsFiniteSet(versions \cup staged[s].versions)
    BY FS_Union DEF FiniteVersions
  <2>2. IsFiniteSet(versions')
    BY <1>0, <1>3, <2>1 DEF Commit, VisibleVersions
  <2> QED
    BY <1>2, <1>3, <2>2 DEF Commit
<1>4. ASSUME NEW s \in Sessions, Rollback(s) PROVE FiniteVersions'
  BY <1>2, <1>4 DEF Rollback, tables, FiniteVersions
<1>5. ASSUME NEW s \in Sessions, NEW d \in Docs, NEW content \in Contents, NEW rq \in Requests,
             RecordVersion(s, d, content, rq)
      PROVE  FiniteVersions'
  <2>1. PICK w : Stage(s, {w.version}, w.claims, {})
    BY <1>5 DEF RecordVersion
  <2> QED
    BY <1>0, <1>5, <2>1, StageFinite DEF RecordVersion, tables
<1>6. ASSUME NEW s \in Sessions, NEW d \in Docs, RecordDeletion(s, d) PROVE FiniteVersions'
  <2>1. PICK v : Stage(s, {v}, {}, {})
    BY <1>6 DEF RecordDeletion
  <2> QED
    BY <1>0, <1>6, <2>1, StageFinite DEF RecordDeletion, tables
<1>7. ASSUME NEW s \in Sessions, NEW asof \in Cutoffs, TakeSnapshot(s, asof) PROVE FiniteVersions'
  <2>1. PICK n : Stage(s, {}, {}, n)
    BY <1>7 DEF TakeSnapshot
  <2> QED
    BY <1>0, <1>7, <2>1, StageFinite DEF TakeSnapshot, tables
<1>8. ASSUME \A s \in Sessions :
               /\ ~Commit(s) /\ ~Rollback(s)
               /\ \A d \in Docs : /\ ~RecordDeletion(s, d)
                                  /\ \A content \in Contents, rq \in Requests :
                                       ~RecordVersion(s, d, content, rq)
               /\ \A asof \in Cutoffs : ~TakeSnapshot(s, asof)
      PROVE  versions' = versions /\ staged' = staged
  BY <1>8 DEF Next, Work, vars, tables, QueueForLock, AcquireLock, Abandon, RecordUnchanged,
              Erase, CreateCorpus, Tick
<1> QED
  BY <1>1, <1>3, <1>4, <1>5, <1>6, <1>7, <1>8

LEMMA NextFiniteClaims == ClaimsInv /\ IsFiniteSet(claims) /\ [Next]_vars => IsFiniteSet(claims')
<1> SUFFICES ASSUME ClaimsInv, IsFiniteSet(claims), [Next]_vars PROVE IsFiniteSet(claims')
  OBVIOUS
<1>i. SerialInv
  BY DEF ClaimsInv, CommittedInv
<1>1. CASE OneWrite
  <2>1. PICK d \in Docs, content \in Contents, rq \in Requests, t \in 0..MaxClock :
          \E w \in Writes(versions, claims, d, content, rq, t) : claims' = claims \cup w.claims
    BY <1>1 DEF OneWrite
  <2>0. PICK w \in Writes(versions, claims, d, content, rq, t) : claims' = claims \cup w.claims
    BY <2>1
  <2>2. w.claims \in SUBSET Claim /\ OnePerKey(w.claims)
    BY CommittedWriteKeepsUnique
  <2> DEFINE key == [c \in w.claims |-> c.key]
  <2>3. key \in Injection(w.claims, Keys)
    BY <2>2 DEF Injection, IsInjective, OnePerKey, Claim
  <2>4. IsFiniteSet(w.claims)
    BY <2>3, PacksAssumption, FS_Injection
  <2> QED
    BY <2>0, <2>4, FS_Union
<1> QED
  BY <1>i, <1>1, StepKinds, FS_EmptySet DEF OneDeletion, OneCapture

LEMMA AnswersInvariant == Spec => []AnswersInv
<1>1. Init => FiniteVersions /\ IsFiniteSet(claims)
  BY FS_EmptySet DEF Init, FiniteVersions, Nothing
<1>2. ClaimsInv => TypeOK
  BY DEF ClaimsInv, CommittedInv, SerialInv, ArchiveInv
<1>3. ClaimsInv /\ FiniteVersions /\ IsFiniteSet(claims) /\ [Next]_vars
        => FiniteVersions' /\ IsFiniteSet(claims)'
  BY <1>2, NextFiniteVersions, NextFiniteClaims
<1>4. ClaimsInv /\ FiniteVersions /\ IsFiniteSet(claims) <=> AnswersInv
  BY DEF AnswersInv
<1> QED
  BY <1>1, <1>3, <1>4, ClaimsInvariant, PTL DEF Spec

-----------------------------------------------------------------------------
(* The receipt *)

\* Of two live claims of one document under one key there is only one.
LEMMA LiveIsUnique ==
    ASSUME NEW V \in SUBSET Version, NEW C, ClaimsAreUnique(C),
           NEW c \in Live(V, C), NEW o \in Live(V, C), c.doc = o.doc, c.key = o.key
    PROVE  c = o
<1>1. PICK u \in V : VersionId(u) = [doc |-> c.doc, num |-> c.num] /\ IsLatest(V, u)
  BY DEF Live
<1>2. PICK w \in V : VersionId(w) = [doc |-> o.doc, num |-> o.num] /\ IsLatest(V, w)
  BY DEF Live
<1>3. u.doc = c.doc /\ u.num = c.num /\ w.doc = o.doc /\ w.num = o.num
  BY <1>1, <1>2 DEF VersionId
<1>4. c.num = o.num
  BY <1>1, <1>2, <1>3 DEF IsLatest, Version
<1>5. ClaimId(c) = ClaimId(o)
  BY <1>4 DEF ClaimId
<1> QED
  BY <1>5 DEF Live, ClaimsAreUnique

LEMMA CurrentMeans ==
    ASSUME NEW c, StatusOf(c) = "CURRENT"
    PROVE  /\ c \in Current /\ InForce(c)
           /\ \A o \in Current : o.key = c.key /\ o.doc # c.doc => o.value = c.value
<1>1. c \in Current /\ c \notin Conflicting(Current)
  BY DEF StatusOf, Status, Current
<1> QED
  BY <1>1 DEF Conflicting, Current, Active, InForce

\* Where an answer lists an undisputed claim, the claim its receipt names is live too
\* and says the same, whatever the selectors, the withholding and the budget left.
THEOREM ReceiptsAreTheAnswer == Spec => []ReceiptsNameTheAnswer
<1>1. ClaimsInv => ReceiptsNameTheAnswer
  <2> SUFFICES ASSUME ClaimsInv, NEW a \in Answers,
                      NEW receipt \in Receipts(a.response), NEW c \in a.response.current,
                      c.key = receipt.claim.key, StatusOf(c) = "CURRENT"
               PROVE  receipt.claim \in Current /\ receipt.claim.value = c.value
    BY DEF ReceiptsNameTheAnswer
  <2> DEFINE o == receipt.claim
  <2>1. PICK key : o \in Primary(Entries(a.response, key)) /\ c.key = key
    <3>1. PICK key : receipt \in ReceiptFor(a.response, key)
      BY DEF Receipts
    <3>2. o \in Primary(Entries(a.response, key))
      BY <3>1 DEF ReceiptFor
    <3>3. o \in Entries(a.response, key)
      BY <3>2 DEF Primary
    <3> QED
      BY <3>2, <3>3 DEF Entries
  <2>2. c \in Entries(a.response, key)
    BY <2>1 DEF Entries, Shown
  <2>3. c \in Current /\ InForce(c)
    BY CurrentMeans
  <2>4. o \in Entries(a.response, key) /\ StatusOf(o) = "CURRENT"
    BY <2>1, <2>2, <2>3 DEF Primary
  <2>5. o \in Current /\ (o.doc # c.doc => o.value = c.value)
    BY <2>3, <2>4, CurrentMeans
  <2>6. o.doc = c.doc => o = c
    <3>1. versions \in SUBSET Version /\ ClaimsAreUnique(claims)
      BY DEF ClaimsInv, CommittedInv, SerialInv, ArchiveInv, TypeOK
    <3>2. c \in Live(versions, claims) /\ o \in Live(versions, claims)
      BY <2>3, <2>5 DEF Current, Active
    <3> HIDE DEF o
    <3>3. o.key = c.key
      BY DEF o
    <3> QED
      BY <3>1, <3>2, <3>3, LiveIsUnique
  <2> QED
    BY <2>5, <2>6
<1> QED
  BY <1>1, ClaimsInvariant, PTL
-----------------------------------------------------------------------------
(* What a response is made of *)

Change == [version : {VersionId(v) : v \in versions},
           previous : SUBSET AllClaims, now : SUBSET AllClaims]

\* Claims of the archive; what is called current, or a side of a conflict, is live
\* and valid.
Groups == (SUBSET Current) \ {{}}

Response ==
    [current : SUBSET Current, changes : SUBSET Change, historical : SUBSET AllClaims,
     conflicts : SUBSET Groups, uncertain : SUBSET AllClaims, truncated : BOOLEAN]

Whole == {r \in Response : ~r.truncated}

LEMMA CurrentLoaded == Current \subseteq AllClaims /\ AllClaims \subseteq claims
<1>1. AllClaims \subseteq claims
  BY DEF AllClaims, LoadedClaims, ClaimsOf
<1>2. ASSUME NEW c \in Current PROVE c \in AllClaims
  <2>1. c \in claims /\ \E v \in versions : VersionId(v) = [doc |-> c.doc, num |-> c.num]
    BY <1>2 DEF Current, Active, Live
  <2>2. PICK v \in versions : v.doc = c.doc /\ v.num = c.num
    BY <2>1 DEF VersionId
  <2>3. c \in ClaimsOf(claims, v)
    BY <2>1, <2>2 DEF ClaimsOf
  <2> QED
    BY <2>3 DEF AllClaims, LoadedClaims
<1> QED
  BY <1>1, <1>2

LEMMA ShownIsLoaded == ASSUME NEW r \in Response PROVE Shown(r) \subseteq AllClaims
<1>1. /\ r.current \subseteq AllClaims /\ r.historical \subseteq AllClaims
      /\ r.uncertain \subseteq AllClaims
  BY CurrentLoaded DEF Response
<1>2. UNION r.conflicts \subseteq AllClaims
  BY CurrentLoaded DEF Response, Groups
<1>3. \A c \in r.changes : c.previous \subseteq AllClaims /\ c.now \subseteq AllClaims
  BY DEF Response, Change
<1>4. UNION {c.previous \cup c.now : c \in r.changes} \subseteq AllClaims
  BY <1>3
<1> QED
  BY <1>1, <1>2, <1>4 DEF Shown

LEMMA EmptyIsWhole == Empty \in Whole /\ Refused \in Response
BY DEF Empty, Refused, Whole, Response

LEMMA ConnectedGroups ==
    \A S, G : /\ Connected(S, G) \subseteq G
              /\ \A g \in G : g \cap (S \cup UNION Connected(S, G)) # {} => g \in Connected(S, G)
<1> SUFFICES ASSUME NEW S, NEW G, NEW g \in G, g \cap (S \cup UNION Connected(S, G)) # {}
             PROVE  g \in Connected(S, G)
  BY DEF Connected
<1> DEFINE closed == {H \in SUBSET G : \A h \in G : h \cap (S \cup UNION H) # {} => h \in H}
<1>1. Connected(S, G) = {h \in G : \A H \in closed : h \in H}
  BY DEF Connected
<1>2. ASSUME NEW H \in closed PROVE g \in H
  <2>1. Connected(S, G) \subseteq H
    BY <1>1, <1>2
  <2>2. g \cap (S \cup UNION H) # {}
    BY <2>1
  <2> QED
    BY <1>2, <2>2
<1> QED
  BY <1>1, <1>2

LEMMA ConnectedGrows == \A S, T, G : S \subseteq T => Connected(S, G) \subseteq Connected(T, G)
<1> SUFFICES ASSUME NEW S, NEW T, NEW G, S \subseteq T PROVE Connected(S, G) \subseteq Connected(T, G)
  OBVIOUS
<1> DEFINE closed(X) == {H \in SUBSET G : \A g \in G : g \cap (X \cup UNION H) # {} => g \in H}
<1>1. closed(T) \subseteq closed(S)
  <2>1. \A H : S \cup UNION H \subseteq T \cup UNION H
    OBVIOUS
  <2> QED
    BY <2>1
<1>2. \A X : Connected(X, G) = {g \in G : \A H \in closed(X) : g \in H}
  BY DEF Connected
<1> HIDE DEF closed
<1> QED
  BY <1>1, <1>2

LEMMA AlternativesAreCurrent == \A S : Alternatives(S) \subseteq Groups
BY DEF Alternatives, Groups

\* Groups that lose sides promote live claims, and show nothing new.
LEMMA SidesAreKept ==
    ASSUME NEW r \in Response, NEW kept
    PROVE  /\ KeepSides(r, kept) \in Response
           /\ KeepSides(r, kept).truncated = r.truncated
           /\ Shown(KeepSides(r, kept)) \subseteq Shown(r)
<1> DEFINE sides == {g \cap kept : g \in r.conflicts}
           two == {g \in sides : Cardinality(g) >= 2}
           one == UNION {g \in sides : Cardinality(g) = 1}
           k == [r EXCEPT !.conflicts = two, !.current = @ \cup one]
<1>1. KeepSides(r, kept) = k
  BY DEF KeepSides
<1>2. /\ k.current = r.current \cup one /\ k.conflicts = two
      /\ k.changes = r.changes /\ k.historical = r.historical /\ k.uncertain = r.uncertain
      /\ k.truncated = r.truncated
  BY DEF Response
<1>3. sides \in SUBSET SUBSET Current /\ UNION sides \subseteq UNION r.conflicts
  BY DEF Response, Groups
<1>4. one \subseteq UNION sides /\ two \subseteq sides /\ {} \notin two
  BY FS_EmptySet
<1> HIDE DEF sides
<1>5. k \in Response
  BY <1>3, <1>4 DEF Response, Groups
<1> HIDE DEF k, one, two
<1>6. Shown(k) \subseteq Shown(r)
  BY <1>2, <1>3, <1>4 DEF Shown
<1> QED
  BY <1>1, <1>2, <1>5, <1>6

LEMMA MatchingIsLoaded == \A q : Matching(q) \subseteq AllClaims
<1> SUFFICES ASSUME NEW q PROVE Matching(q) \subseteq AllClaims
  OBVIOUS
<1>1. \A S : Chains(S) \subseteq AllClaims
  BY DEF Chains
<1> QED
  BY <1>1 DEF Matching

LEMMA BeforeIsLoaded == \A v : Before(v) \subseteq AllClaims
BY DEF Before, Targets

LEMMA ChangesType ==
    ASSUME NEW q, NEW ids \in SUBSET AllClaims
    PROVE  Changes(q, ids) \in SUBSET Change
<1>1. \A v \in versions : ClaimsOf(claims, v) \subseteq AllClaims
  BY DEF AllClaims, LoadedClaims
<1>2. \A v \in versions : VersionId(v) \in {VersionId(u) : u \in versions}
  OBVIOUS
<1> DEFINE transition(v) ==
             LET now == ClaimsOf(claims, v)
                 ours == now \cap ids
             IN  IF q.op # "history"
                 THEN [version |-> VersionId(v), previous |-> Before(v), now |-> now]
                 ELSE [version |-> VersionId(v), now |-> ours,
                       previous |-> Before(v) \cap (ids \cup Targets(ours))]
<1>3. \A v \in versions : transition(v) \in Change
  BY <1>1, <1>2, BeforeIsLoaded DEF Change
<1>4. Changes(q, ids) \subseteq {transition(v) : v \in versions}
  BY DEF Changes
<1> HIDE DEF transition
<1> QED
  BY <1>3, <1>4

LEMMA ProjectType == \A q : Project(q) \in Whole
<1> SUFFICES ASSUME NEW q PROVE Project(q) \in Whole
  OBVIOUS
<1> DEFINE match      == Matching(q)
           groups     == Alternatives(match)
           replaced   == Targets(match)
           historical == {c \in match \cup replaced : Obsolete(c)}
           uncertain  == {c \in match \ Current : ClaimId(c) \notin Retired(claims)}
           current    == (Current \cap match) \ UNION groups
           paths      == IF q.op = "query" THEN Docs ELSE q.paths
           ids        == {c \in current \cup historical \cup uncertain \cup UNION groups :
                             c.doc \in paths \cap q.scope}
           listed     == IF q.op = "current"
                         THEN [Empty EXCEPT !.current = current \cap ids]
                         ELSE [Empty EXCEPT !.current = current \cap ids,
                                            !.historical = historical \cap ids,
                                            !.uncertain = uncertain \cap ids,
                                            !.changes = Changes([q EXCEPT !.paths = paths], ids)]
<1>1. Project(q) = [listed EXCEPT !.conflicts = Connected(ids \cup Shown(listed), Alternatives(AllClaims))]
  BY DEF Project
<1>2. match \subseteq AllClaims /\ replaced \subseteq AllClaims
  BY MatchingIsLoaded DEF Targets
<1>3. UNION groups \subseteq AllClaims
  BY AlternativesAreCurrent, CurrentLoaded DEF Groups
<1>4. /\ current \subseteq Current /\ historical \subseteq AllClaims /\ uncertain \subseteq AllClaims
      /\ ids \subseteq AllClaims
  BY <1>2, <1>3, CurrentLoaded
<1> HIDE DEF match, groups, replaced, historical, uncertain, current, ids, paths
<1>5. Changes([q EXCEPT !.paths = paths], ids) \in SUBSET Change
  BY <1>4, ChangesType
<1>6. listed \in Whole
  BY <1>4, <1>5 DEF Empty, Whole, Response
<1>7. Connected(ids \cup Shown(listed), Alternatives(AllClaims)) \in SUBSET Groups
  BY ConnectedGroups, AlternativesAreCurrent
<1> HIDE DEF listed
<1> QED
  BY <1>1, <1>6, <1>7 DEF Whole, Response

LEMMA ScopeType == ASSUME NEW q, NEW r \in Whole PROVE ScopeConflicts(q, r) \in Whole
BY SidesAreKept DEF ScopeConflicts, Whole

LEMMA WithholdType == ASSUME NEW q, NEW r \in Whole PROVE Withhold(q, r) \in Whole
<1> DEFINE kept == {c \in Shown(r) : q.drafts \/ c.value \notin Withheld}
           sides(c) == [c EXCEPT !.previous = @ \cap kept, !.now = @ \cap kept]
           changes == {c \in {sides(x) : x \in r.changes} : c.previous \cup c.now # {}}
           r1 == [r EXCEPT !.current = @ \cap kept, !.historical = @ \cap kept,
                           !.uncertain = @ \cap kept,
                           !.changes = changes]
<1>1. Withhold(q, r) = KeepSides(r1, kept)
  BY DEF Withhold
<1>2. \A x \in r.changes : sides(x) \in Change
  BY DEF Whole, Response, Change
<1>3. changes \in SUBSET Change
  BY <1>2
<1> HIDE DEF kept, changes
<1>4. r1 \in Whole
  BY <1>3 DEF Whole, Response
<1> HIDE DEF r1
<1> QED
  BY <1>1, <1>4, SidesAreKept DEF Whole

LEMMA SelectType == ASSUME NEW q, NEW r \in Whole PROVE Select(q, r) \in Whole
<1> DEFINE relevant == {c \in Shown(r) : c.key \in q.about /\ c.doc \in q.paths \cap q.scope}
           chosen   == IF q.past THEN relevant \cup Targets(relevant) ELSE relevant
           changes  == {c \in r.changes : (c.previous \cup c.now) \cap chosen # {}}
           picked   == IF q.past
                       THEN [Empty EXCEPT !.current = r.current \cap chosen,
                                          !.historical = r.historical \cap chosen,
                                          !.uncertain = r.uncertain \cap chosen,
                                          !.changes = changes]
                       ELSE [Empty EXCEPT !.current = r.current \cap chosen]
<1>1. Select(q, r) = [picked EXCEPT !.conflicts = Connected(chosen \cup Shown(picked), r.conflicts)]
  BY DEF Select
<1>2. changes \subseteq r.changes
  OBVIOUS
<1> HIDE DEF chosen, changes
<1>3. picked \in Whole
  BY <1>2 DEF Empty, Whole, Response
<1>4. Connected(chosen \cup Shown(picked), r.conflicts) \subseteq r.conflicts
  BY ConnectedGroups
<1>5. r.conflicts \in SUBSET Groups
  BY DEF Whole, Response
<1> HIDE DEF picked
<1> QED
  BY <1>1, <1>3, <1>4, <1>5 DEF Whole, Response

LEMMA FullType == \A q : Full(q, Project(q)) \in Whole
BY ProjectType, ScopeType, WithholdType, SelectType DEF Full
-----------------------------------------------------------------------------
(* Responses are finite, and what they list has an order *)

LEMMA TypesOfInv ==
    ASSUME AnswersInv
    PROVE  /\ versions \in SUBSET Version /\ claims \in SUBSET Claim
           /\ IsFiniteSet(versions) /\ IsFiniteSet(claims)
           /\ MaxClock \in Nat
BY ArchiveAssumption
DEF AnswersInv, ClaimsInv, CommittedInv, SerialInv, ArchiveInv, TypeOK, FiniteVersions

LEMMA ClaimsAndChangesFinite ==
    ASSUME AnswersInv
    PROVE  IsFiniteSet(AllClaims) /\ IsFiniteSet(Groups) /\ IsFiniteSet(Change)
<1>1. IsFiniteSet(AllClaims) /\ IsFiniteSet(SUBSET AllClaims)
  BY TypesOfInv, CurrentLoaded, FS_Subset, FS_SUBSET
<1>2. IsFiniteSet(Groups)
  BY <1>1, CurrentLoaded, FS_Subset DEF Groups
<1> DEFINE ids == {VersionId(v) : v \in versions}
           id  == [v \in versions |-> VersionId(v)]
           T   == ids \X ((SUBSET AllClaims) \X (SUBSET AllClaims))
           f   == [t \in T |-> [version |-> t[1], previous |-> t[2][1], now |-> t[2][2]]]
<1>3. IsFiniteSet(ids)
  <2>1. id \in Surjection(versions, ids)
    BY DEF Surjection
  <2> QED
    BY <2>1, TypesOfInv, FS_Surjection
<1>4. IsFiniteSet(T)
  BY <1>1, <1>3, FS_Product
<1>5. f \in Surjection(T, Change)
  <2>1. \A t \in T : f[t] \in Change
    BY DEF Change
  <2>2. ASSUME NEW c \in Change PROVE \E t \in T : f[t] = c
    <3>1. /\ c.version \in ids /\ c.previous \in SUBSET AllClaims /\ c.now \in SUBSET AllClaims
          /\ c = [version |-> c.version, previous |-> c.previous, now |-> c.now]
      BY DEF Change
    <3> HIDE DEF ids
    <3>2. <<c.version, <<c.previous, c.now>>>> \in T
      BY <3>1
    <3> QED
      BY <3>1, <3>2
  <2> QED
    BY <2>1, <2>2 DEF Surjection
<1> QED
  BY <1>1, <1>2, <1>4, <1>5, FS_Surjection

LEMMA FieldsAre == Fields = {"current", "changes", "historical", "conflicts", "uncertain"}
<1>1. 1..5 = {1, 2, 3, 4, 5}
  OBVIOUS
<1> QED
  BY <1>1 DEF Fields, FieldOrder

LEMMA FieldsFinite ==
    ASSUME AnswersInv, NEW r \in Response, NEW f \in Fields
    PROVE  IsFiniteSet(r[f])
<1>1. r.current \subseteq AllClaims
  BY CurrentLoaded DEF Response
<1>2. /\ r.historical \subseteq AllClaims /\ r.uncertain \subseteq AllClaims
      /\ r.changes \subseteq Change /\ r.conflicts \subseteq Groups
  BY DEF Response
<1> QED
  BY <1>1, <1>2, ClaimsAndChangesFinite, FS_Subset, FieldsAre

LEMMA KeyOrderType == KeyOrder \in [Keys -> Int]
<1> DEFINE n == Cardinality(Keys)
<1>1. \E g \in Bijection(Keys, 1..n) : TRUE
  BY PacksAssumption, FS_CardinalityType, Fun_ExistsBijSymmetric, Fun_ExistsBij
<1>2. PICK g \in Bijection(Keys, 1..n) : TRUE
  BY <1>1
<1>3. g \in [Keys -> 1..n] /\ \A k, l \in Keys : k # l => g[k] # g[l]
  BY <1>2 DEF Bijection, Injection, IsInjective
<1>4. KeyOrder \in [Keys -> 1..n]
  BY <1>3 DEF KeyOrder
<1> QED
  BY <1>4

\* Of finitely many things with a rank one has the lowest, and one the highest.
LEMMA Extremes ==
    ASSUME NEW S, IsFiniteSet(S), S # {}, NEW rank \in [S -> Int]
    PROVE  /\ \E m \in S : \A x \in S : rank[m] <= rank[x]
           /\ \E m \in S : \A x \in S : rank[m] >= rank[x]
<1> DEFINE below == {p \in S \X S : rank[p[1]] < rank[p[2]]}
           above == {p \in S \X S : rank[p[1]] > rank[p[2]]}
<1>1. \A x, y \in S : /\ <<x, y>> \in below <=> rank[x] < rank[y]
                      /\ <<x, y>> \in above <=> rank[x] > rank[y]
  OBVIOUS
<1> HIDE DEF below, above
<1>2. \E m \in S : \A x \in S : <<x, m>> \notin below
  <2>1. /\ \A a \in S : <<a, a>> \notin below
        /\ \A a, b, c \in S : <<a, b>> \in below /\ <<b, c>> \in below => <<a, c>> \in below
    BY <1>1
  <2> QED
    BY <2>1, MinimalElement
<1>3. \E m \in S : \A x \in S : <<x, m>> \notin above
  <2>1. /\ \A a \in S : <<a, a>> \notin above
        /\ \A a, b, c \in S : <<a, b>> \in above /\ <<b, c>> \in above => <<a, c>> \in above
    BY <1>1
  <2> QED
    BY <2>1, MinimalElement
<1>4. \A x \in S : rank[x] \in Int
  OBVIOUS
<1>5. \E m \in S : \A x \in S : rank[m] <= rank[x]
  <2>1. PICK m \in S : \A x \in S : <<x, m>> \notin below
    BY <1>2
  <2>2. ASSUME NEW x \in S PROVE rank[m] <= rank[x]
    <3>1. /\ rank[x] \in Int /\ rank[m] \in Int
          /\ ~(rank[x] < rank[m])
      BY <1>1, <1>4, <2>1
    <3> QED
      BY <3>1
  <2> QED
    BY <2>2
<1>6. \E m \in S : \A x \in S : rank[m] >= rank[x]
  <2>1. PICK m \in S : \A x \in S : <<x, m>> \notin above
    BY <1>3
  <2>2. ASSUME NEW x \in S PROVE rank[m] >= rank[x]
    <3>1. /\ rank[x] \in Int /\ rank[m] \in Int
          /\ ~(rank[x] > rank[m])
      BY <1>1, <1>4, <2>1
    <3> QED
      BY <3>1
  <2> QED
    BY <2>2
<1> QED
  BY <1>5, <1>6

LEMMA ObservedType ==
    ASSUME AnswersInv, NEW v \in versions
    PROVE  Observed(VersionId(v)) \in Int
<1>1. (CHOOSE u \in versions : VersionId(u) = VersionId(v)) \in versions
  OBVIOUS
<1> QED
  BY <1>1, TypesOfInv DEF Observed, Version

LEMMA ClaimRankType ==
    ASSUME AnswersInv, NEW c \in AllClaims
    PROVE  ClaimRank(c) \in Int
<1>1. c \in claims /\ \E v \in versions : VersionId(v) = [doc |-> c.doc, num |-> c.num]
  BY DEF AllClaims, LoadedClaims, ClaimsOf, VersionId
<1>2. Observed([doc |-> c.doc, num |-> c.num]) \in Int
  BY <1>1, ObservedType
<1>3. Cardinality(Keys) \in Int
  BY PacksAssumption, FS_CardinalityType
<1>4. KeyOrder[c.key] \in Int
  BY <1>1, KeyOrderType, TypesOfInv DEF Claim
<1> QED
  BY <1>2, <1>3, <1>4 DEF ClaimRank

LEMMA GroupRankType ==
    ASSUME AnswersInv, NEW g \in Groups
    PROVE  GroupRank(g) \in Int
<1> DEFINE ranks == {ClaimRank(c) : c \in g}
           span  == (MaxClock + 1) * (1 + Cardinality(Keys))
           key   == KeyOrder[(CHOOSE c \in g : TRUE).key]
<1>1. g \in SUBSET AllClaims /\ g # {} /\ IsFiniteSet(g)
  BY CurrentLoaded, ClaimsAndChangesFinite, FS_Subset DEF Groups
<1>2. \A c \in g : ClaimRank(c) \in Int
  BY <1>1, ClaimRankType
<1> DEFINE rank == [c \in g |-> ClaimRank(c)]
<1>3. rank \in [g -> Int]
  BY <1>2
<1>4. /\ \E m \in g : \A c \in g : rank[m] <= rank[c]
      /\ \E m \in g : \A c \in g : rank[m] >= rank[c]
  BY <1>1, <1>3, Extremes
<1>5. /\ \E m \in ranks : \A x \in ranks : m <= x
      /\ \E m \in ranks : \A x \in ranks : m >= x
  BY <1>4
<1>6. Min(ranks) \in ranks /\ Max(ranks) \in ranks
  BY <1>5 DEF Min, Max
<1>7. Min(ranks) \in Int /\ Max(ranks) \in Int
  BY <1>2, <1>6
<1>8. span \in Int
  BY PacksAssumption, FS_CardinalityType, TypesOfInv
<1>9. key \in Int
  <2>1. (CHOOSE c \in g : TRUE) \in claims
    BY <1>1, CurrentLoaded
  <2> QED
    BY <2>1, KeyOrderType, TypesOfInv DEF Claim
<1>10. GroupRank(g) = (key * span + Min(ranks)) * span + Max(ranks)
  BY DEF GroupRank
<1> HIDE DEF ranks, span, key
<1> QED
  BY <1>7, <1>8, <1>9, <1>10

\* There is a next item as long as there are items.
LEMMA FirstIsNext ==
    ASSUME AnswersInv, NEW r \in Response, NEW f \in Fields, NEW S \in SUBSET r[f], S # {}
    PROVE  First(f, S) \in S
<1>1. \A x \in r[f] : Rank(f, x) \in Int
  <2>1. CASE f = "changes"
    <3>1. \A x \in r.changes : \E v \in versions : x.version = VersionId(v)
      BY DEF Response, Change
    <3> QED
      BY <2>1, <3>1, ObservedType DEF Rank, ChangeRank
  <2>2. CASE f = "conflicts"
    <3>1. r.conflicts \subseteq Groups
      BY DEF Response
    <3> QED
      BY <2>2, <3>1, GroupRankType DEF Rank
  <2>3. CASE f \notin {"changes", "conflicts"}
    <3>1. r[f] \subseteq AllClaims
      BY <2>3, CurrentLoaded, FieldsAre DEF Response
    <3> QED
      BY <2>3, <3>1, ClaimRankType, FieldsAre DEF Rank
  <2> QED
    BY <2>1, <2>2, <2>3
<1> DEFINE rank == [x \in S |-> Rank(f, x)]
<1>2. rank \in [S -> Int]
  BY <1>1
<1>3. IsFiniteSet(S)
  BY FieldsFinite, FS_Subset
<1>4. \E m \in S : \A x \in S : rank[m] <= rank[x]
  BY <1>2, <1>3, Extremes
<1> QED
  BY <1>4 DEF First
-----------------------------------------------------------------------------
(* What a response costs *)

\* A truncated response that lists nothing but what full lists.
Parts(full) ==
    [current : SUBSET full.current, changes : SUBSET full.changes,
     historical : SUBSET full.historical, conflicts : SUBSET full.conflicts,
     uncertain : SUBSET full.uncertain, truncated : {TRUE}]

Sides(r)    == {p \in r.conflicts \X Shown(r) : p[2] \in p[1]}
Previous(r) == {p \in r.changes \X Shown(r) : p[2] \in p[1].previous}
Now(r)      == {p \in r.changes \X Shown(r) : p[2] \in p[1].now}

\* r lists nothing but what t lists.
Within(r, t) == \A h \in Fields : r[h] \subseteq t[h]

LEMMA WithinShows == \A r, t : Within(r, t) => Shown(r) \subseteq Shown(t)
<1> SUFFICES ASSUME NEW r, NEW t, Within(r, t) PROVE Shown(r) \subseteq Shown(t)
  OBVIOUS
<1>1. /\ r.current \subseteq t.current /\ r.historical \subseteq t.historical
      /\ r.uncertain \subseteq t.uncertain /\ r.conflicts \subseteq t.conflicts
      /\ r.changes \subseteq t.changes
  BY FieldsAre DEF Within
<1>2. /\ UNION r.conflicts \subseteq UNION t.conflicts
      /\ UNION {c.previous \cup c.now : c \in r.changes}
           \subseteq UNION {c.previous \cup c.now : c \in t.changes}
  BY <1>1
<1> QED
  BY <1>1, <1>2 DEF Shown

LEMMA PartsAreWithin ==
    ASSUME NEW full \in Whole, NEW r \in Parts(full)
    PROVE  r \in Response /\ Within(r, full) /\ r.truncated
BY FieldsAre DEF Parts, Whole, Response, Within

LEMMA CostIsSum ==
    \A r : Cost(r) = Cardinality(r.current) + Cardinality(r.historical)
                     + Cardinality(r.uncertain) + Cardinality(Sides(r))
                     + Cardinality(Previous(r)) + Cardinality(Now(r))
                     + Cardinality(Shown(r)) + (IF r.truncated THEN 0 ELSE 1)
BY DEF Cost, Sides, Previous, Now

LEMMA ListedFinite ==
    ASSUME AnswersInv, NEW r \in Response
    PROVE  /\ IsFiniteSet(r.current) /\ IsFiniteSet(r.historical) /\ IsFiniteSet(r.uncertain)
           /\ IsFiniteSet(Sides(r)) /\ IsFiniteSet(Previous(r)) /\ IsFiniteSet(Now(r))
           /\ IsFiniteSet(Shown(r))
<1>1. /\ IsFiniteSet(r.current) /\ IsFiniteSet(r.historical) /\ IsFiniteSet(r.uncertain)
      /\ IsFiniteSet(r.conflicts) /\ IsFiniteSet(r.changes)
  BY FieldsFinite, FieldsAre
<1>2. IsFiniteSet(Shown(r))
  BY ShownIsLoaded, ClaimsAndChangesFinite, FS_Subset
<1>3. IsFiniteSet(r.conflicts \X Shown(r)) /\ IsFiniteSet(r.changes \X Shown(r))
  BY <1>1, <1>2, FS_Product
<1>4. /\ Sides(r) \subseteq r.conflicts \X Shown(r)
      /\ Previous(r) \subseteq r.changes \X Shown(r) /\ Now(r) \subseteq r.changes \X Shown(r)
  BY DEF Sides, Previous, Now
<1> QED
  BY <1>1, <1>2, <1>3, <1>4, FS_Subset

\* What lists less costs less, but for the flag.
LEMMA CostGrows ==
    ASSUME AnswersInv, NEW r \in Response, NEW t \in Response, Within(r, t)
    PROVE  /\ Cost(r) \in Nat /\ Cost(t) \in Nat
           /\ r.truncated /\ t.truncated => Cost(r) <= Cost(t)
           /\ r.truncated /\ ~t.truncated => Cost(r) < Cost(t)
<1>1. Shown(r) \subseteq Shown(t)
  BY WithinShows
<1>2. /\ r.current \subseteq t.current /\ r.historical \subseteq t.historical
      /\ r.uncertain \subseteq t.uncertain
      /\ r.conflicts \subseteq t.conflicts /\ r.changes \subseteq t.changes
  BY FieldsAre DEF Within
<1>3. /\ Sides(r) \subseteq Sides(t)
      /\ Previous(r) \subseteq Previous(t) /\ Now(r) \subseteq Now(t)
  BY <1>1, <1>2 DEF Sides, Previous, Now
<1> DEFINE Less(S, T) == /\ Cardinality(S) \in Nat /\ Cardinality(T) \in Nat
                         /\ Cardinality(S) <= Cardinality(T)
<1>4. \A S, T : S \subseteq T /\ IsFiniteSet(T) => Less(S, T)
  BY FS_Subset, FS_CardinalityType
<1> HIDE DEF Less
<1>5. /\ Less(r.current, t.current) /\ Less(r.historical, t.historical)
      /\ Less(r.uncertain, t.uncertain) /\ Less(Sides(r), Sides(t))
      /\ Less(Previous(r), Previous(t)) /\ Less(Now(r), Now(t))
      /\ Less(Shown(r), Shown(t))
  BY <1>1, <1>2, <1>3, <1>4, ListedFinite
<1> USE DEF Less
<1> QED
  BY <1>5, CostIsSum

LEMMA PartsCostLess ==
    ASSUME AnswersInv, NEW full \in Whole, NEW r \in Parts(full)
    PROVE  Cost(r) \in Nat /\ Cost(full) \in Nat /\ Cost(r) < Cost(full)
<1>1. /\ full \in Response /\ ~full.truncated
      /\ r \in Response /\ Within(r, full) /\ r.truncated
  BY PartsAreWithin DEF Whole
<1> QED
  BY <1>1, CostGrows

\* The envelope alone costs nothing.
LEMMA EnvelopeIsFree == Cost(Refused) = 0
<1>1. /\ Refused.current = {} /\ Refused.historical = {} /\ Refused.uncertain = {}
      /\ Refused.changes = {} /\ Refused.conflicts = {} /\ Refused.truncated = TRUE
  BY DEF Refused, Empty
<1>2. Shown(Refused) = {}
  BY <1>1 DEF Shown
<1>3. Sides(Refused) = {} /\ Previous(Refused) = {} /\ Now(Refused) = {}
  BY <1>1, <1>2 DEF Sides, Previous, Now
<1> QED
  BY <1>1, <1>2, <1>3, CostIsSum, FS_EmptySet
-----------------------------------------------------------------------------
(* Packing *)

\* Every group is listed that a listed claim takes part in.
Closed(full, r) == \A g \in full.conflicts : g \cap Shown(r) # {} => g \in r.conflicts

LEMMA AddUnitKeeps ==
    ASSUME NEW full \in Whole, NEW r \in Parts(full), NEW f \in Fields, NEW x \in full[f]
    PROVE  LET n == AddUnit(full, r, f, x)
           IN  /\ n \in Parts(full) /\ Closed(full, n)
               /\ x \in n[f] /\ \A h \in Fields : r[h] \subseteq n[h]
<1> DEFINE with == [r EXCEPT ![f] = @ \cup {x}]
           C == Connected(Shown(with), full.conflicts)
           n == [with EXCEPT !.conflicts = @ \cup C]
<1>1. AddUnit(full, r, f, x) = n
  BY DEF AddUnit
<1>2. with \in Parts(full)
  <2>1. f = "current" => with \in Parts(full)
    BY DEF Parts
  <2>2. f = "changes" => with \in Parts(full)
    BY DEF Parts
  <2>3. f = "historical" => with \in Parts(full)
    BY DEF Parts
  <2>4. f = "conflicts" => with \in Parts(full)
    BY DEF Parts
  <2>5. f = "uncertain" => with \in Parts(full)
    BY DEF Parts
  <2> QED
    BY <2>1, <2>2, <2>3, <2>4, <2>5, FieldsAre
<1>3. x \in with[f] /\ \A h \in Fields : r[h] \subseteq with[h]
  BY FieldsAre DEF Parts
<1>4. /\ C \subseteq full.conflicts
      /\ \A g \in full.conflicts : g \cap (Shown(with) \cup UNION C) # {} => g \in C
  BY ConnectedGroups
<1> HIDE DEF with, C
<1>5. /\ n \in Parts(full)
      /\ n.conflicts = with.conflicts \cup C /\ n.current = with.current
      /\ n.changes = with.changes /\ n.historical = with.historical
      /\ n.uncertain = with.uncertain
  BY <1>2, <1>4 DEF Parts
<1>6. \A h \in Fields : with[h] \subseteq n[h]
  BY <1>2, FieldsAre DEF Parts
<1> HIDE DEF n
<1>7. Shown(n) \subseteq Shown(with) \cup UNION C
  BY <1>5 DEF Shown
<1>8. Closed(full, n)
  BY <1>4, <1>5, <1>7 DEF Closed
<1> QED
  BY <1>1, <1>3, <1>5, <1>6, <1>8

\* What more is listed stays more when the same unit is added.
LEMMA AddUnitGrows ==
    ASSUME NEW full \in Whole, NEW r \in Parts(full), NEW t \in Parts(full), Within(r, t),
           NEW f \in Fields, NEW x \in full[f]
    PROVE  Within(AddUnit(full, r, f, x), AddUnit(full, t, f, x))
<1> DEFINE with(y) == [y EXCEPT ![f] = @ \cup {x}]
           C(y) == Connected(Shown(with(y)), full.conflicts)
           n(y) == [with(y) EXCEPT !.conflicts = @ \cup C(y)]
<1>1. AddUnit(full, r, f, x) = n(r) /\ AddUnit(full, t, f, x) = n(t)
  BY DEF AddUnit
<1>2. ASSUME NEW y \in Parts(full)
      PROVE  \A h \in Fields : with(y)[h] = IF h = f THEN y[h] \cup {x} ELSE y[h]
  BY FieldsAre DEF Parts
<1>3. ASSUME NEW y \in Parts(full)
      PROVE  \A h \in Fields :
               n(y)[h] = IF h = "conflicts" THEN with(y)[h] \cup C(y) ELSE with(y)[h]
  <2>1. DOMAIN with(y) = DOMAIN y /\ DOMAIN y = Fields \cup {"truncated"}
    BY FieldsAre DEF Parts
  <2> HIDE DEF with, C
  <2> QED
    BY <2>1, FieldsAre
<1> HIDE DEF with, n
<1>4. Within(with(r), with(t))
  BY <1>2 DEF Within
<1>5. C(r) \subseteq C(t)
  BY <1>4, WithinShows, ConnectedGrows
<1> HIDE DEF C
<1> QED
  BY <1>1, <1>3, <1>4, <1>5 DEF Within

\* None of the items of S fits into p any more.
NothingFits(full, budget, f, S, p) ==
    \A x \in S \ p[f] : Cost(AddUnit(full, p, f, x)) > budget

LEMMA NothingFitsLater ==
    ASSUME AnswersInv, NEW full \in Whole, NEW budget \in Nat, NEW f \in Fields,
           NEW S \in SUBSET full[f], NEW r \in Parts(full), NEW t \in Parts(full),
           Within(r, t), NothingFits(full, budget, f, S, r)
    PROVE  NothingFits(full, budget, f, S, t)
<1> SUFFICES ASSUME NEW x \in S \ t[f] PROVE Cost(AddUnit(full, t, f, x)) > budget
  BY DEF NothingFits
<1> DEFINE m == AddUnit(full, r, f, x)
           n == AddUnit(full, t, f, x)
<1>1. x \in full[f] /\ Cost(m) > budget
  BY DEF NothingFits, Within
<1>2. m \in Parts(full) /\ n \in Parts(full) /\ Within(m, n)
  BY <1>1, AddUnitKeeps, AddUnitGrows
<1> HIDE DEF m, n
<1>3. Cost(m) \in Nat /\ Cost(n) \in Nat /\ Cost(m) <= Cost(n)
  BY <1>2, PartsAreWithin, CostGrows
<1> QED
  BY <1>1, <1>3 DEF n

Accs(full, f) == [pack : Parts(full), dropped : BOOLEAN, left : SUBSET full[f]]

\* The pack fits and is closed; unless something was dropped it has all of the fields
\* that were offered; nothing is dropped when everything fits, and nothing that is
\* dropped fits any more.
Packed(full, budget, done, a) ==
    /\ Cost(a.pack) <= budget
    /\ Closed(full, a.pack)
    /\ Cost(full) <= budget => ~a.dropped
    /\ a.dropped \/ \A h \in done : full[h] \subseteq a.pack[h]
    /\ \A h \in done : NothingFits(full, budget, h, full[h], a.pack)

Offered(full, budget, f, a) ==
    /\ a.dropped \/ full[f] \ a.left \subseteq a.pack[f]
    /\ NothingFits(full, budget, f, full[f] \ a.left, a.pack)

LEMMA OfferKeeps ==
    ASSUME AnswersInv, NEW full \in Whole, NEW budget \in Nat, NEW f \in Fields,
           NEW done \in SUBSET Fields, NEW a \in Accs(full, f), a.left # {},
           Packed(full, budget, done, a), Offered(full, budget, f, a)
    PROVE  LET b == Offer(full, budget, f, a)
           IN  /\ b \in Accs(full, f)
               /\ Packed(full, budget, done, b) /\ Offered(full, budget, f, b)
               /\ Cardinality(b.left) = Cardinality(a.left) - 1
<1> DEFINE x == First(f, a.left)
           r == AddUnit(full, a.pack, f, x)
           rest == [a EXCEPT !.left = @ \ {x}]
           b == IF Cost(r) <= budget THEN [rest EXCEPT !.pack = r] ELSE [rest EXCEPT !.dropped = TRUE]
<1>1. Offer(full, budget, f, a) = b
  BY DEF Offer
<1>2. a.pack \in Parts(full) /\ a.left \in SUBSET full[f] /\ a.dropped \in BOOLEAN
  BY DEF Accs
<1>3. full \in Response
  BY DEF Whole
<1>4. x \in a.left
  BY <1>2, <1>3, FirstIsNext
<1>5. IsFiniteSet(a.left)
  BY <1>2, <1>3, FieldsFinite, FS_Subset
<1> HIDE DEF x
<1>6. Cardinality(a.left \ {x}) = Cardinality(a.left) - 1
  BY <1>4, <1>5, FS_RemoveElement
<1>7. /\ r \in Parts(full) /\ Closed(full, r)
      /\ x \in r[f] /\ \A h \in Fields : a.pack[h] \subseteq r[h]
  BY <1>2, <1>4, AddUnitKeeps
<1>8. Cost(r) \in Nat /\ Cost(full) \in Nat /\ Cost(r) < Cost(full)
  BY <1>7, PartsCostLess
<1>a. Within(a.pack, r)
  BY <1>7 DEF Within
<1>b. r = AddUnit(full, a.pack, f, x)
  OBVIOUS
<1> HIDE DEF r
<1>c. /\ \A h \in done : NothingFits(full, budget, h, full[h], r)
      /\ NothingFits(full, budget, f, full[f] \ a.left, r)
  BY <1>2, <1>7, <1>a, NothingFitsLater DEF Packed, Offered
<1>9. CASE Cost(r) <= budget
  <2>1. /\ b.pack = r /\ b.left = a.left \ {x} /\ b.dropped = a.dropped
        /\ b \in Accs(full, f)
    BY <1>2, <1>7, <1>9 DEF Accs
  <2> HIDE DEF b
  <2>2. Packed(full, budget, done, b)
    BY <1>7, <1>9, <1>c, <2>1 DEF Packed
  <2>3. Offered(full, budget, f, b)
    BY <1>7, <1>c, <2>1 DEF Offered, NothingFits
  <2> QED
    BY <1>1, <1>6, <2>1, <2>2, <2>3
<1>10. CASE ~(Cost(r) <= budget)
  <2>1. /\ b.pack = a.pack /\ b.left = a.left \ {x} /\ b.dropped = TRUE
        /\ b \in Accs(full, f)
    BY <1>2, <1>10 DEF Accs
  <2> HIDE DEF b
  <2>2. ~(Cost(full) <= budget)
    BY <1>8, <1>10
  <2>3. Packed(full, budget, done, b)
    BY <2>1, <2>2 DEF Packed
  <2>4. Offered(full, budget, f, b)
    BY <1>8, <1>10, <1>b, <2>1 DEF Offered, NothingFits
  <2> QED
    BY <1>1, <1>6, <2>1, <2>3, <2>4
<1> QED
  BY <1>9, <1>10

\* step repeated N times from base, staying within good.
Iterates(N, D, good, base, step) ==
    \E p \in [0..N -> D] :
       \A n \in 0..N : p[n] \in good[n] /\ p[n] = IF n = 0 THEN base ELSE step[p[n - 1]]

\* There is such a sequence if each step stays where the next one is defined.
LEMMA IterationExists ==
    ASSUME NEW N \in Nat, NEW D, NEW good \in [0..N -> SUBSET D], NEW base \in good[0],
           NEW step \in [D -> D],
           \A n \in 1..N : \A a \in good[n - 1] : step[a] \in good[n]
    PROVE  Iterates(N, D, good, base, step)
<1> DEFINE Runs(k, p) == \A n \in 0..k : /\ p[n] \in good[n]
                                         /\ p[n] = IF n = 0 THEN base ELSE step[p[n - 1]]
           bad == {k \in 0..N : ~\E p \in [0..k -> D] : Runs(k, p)}
<1>1. ASSUME bad # {} PROVE FALSE
  <2> DEFINE rank == [k \in bad |-> k]
  <2>a. bad \in SUBSET (0..N)
    OBVIOUS
  <2>b. \A k \in 0..N : k \in bad <=> ~\E p \in [0..k -> D] : Runs(k, p)
    OBVIOUS
  <2> HIDE DEF bad, Runs
  <2>1. IsFiniteSet(bad) /\ rank \in [bad -> Int]
    <3>1. IsFiniteSet(0..N)
      BY FS_Interval
    <3>2. IsFiniteSet(bad)
      BY <2>a, <3>1, FS_Subset
    <3>3. \A k \in bad : k \in Int
      BY <2>a
    <3> QED
      BY <3>2, <3>3
  <2>c. \E k \in bad : \A j \in bad : rank[k] <= rank[j]
    BY <1>1, <2>1, Extremes
  <2>2. PICK k \in bad : \A j \in bad : k <= j
    BY <2>c
  <2>3. k \in 0..N /\ ~\E p \in [0..k -> D] : Runs(k, p)
    BY <2>a, <2>b
  <2>4. CASE k = 0
    <3> USE DEF Runs
    <3> DEFINE p == [n \in 0..k |-> base]
    <3>1. p \in [0..k -> D] /\ Runs(k, p)
      BY <2>4
    <3> QED
      BY <2>3, <3>1
  <2>5. CASE k # 0
    <3>1. k - 1 \in 0..N /\ k - 1 \notin bad
      BY <2>2, <2>3, <2>5
    <3>2. PICK q \in [0..(k - 1) -> D] : Runs(k - 1, q)
      BY <2>b, <3>1
    <3> USE DEF Runs
    <3> DEFINE p == [n \in 0..k |-> IF n = k THEN step[q[k - 1]] ELSE q[n]]
    <3>3. q[k - 1] \in good[k - 1] /\ step[q[k - 1]] \in good[k] /\ good[k] \subseteq D
      BY <2>3, <2>5, <3>1, <3>2
    <3>4. p \in [0..k -> D]
      BY <2>3, <2>5, <3>2, <3>3
    <3>5. ASSUME NEW n \in 0..k
          PROVE  p[n] \in good[n] /\ p[n] = IF n = 0 THEN base ELSE step[p[n - 1]]
      <4>1. CASE n = k
        <5>1. p[n] = step[q[k - 1]] /\ p[n - 1] = q[k - 1]
          BY <2>3, <2>5, <4>1
        <5> QED
          BY <2>5, <3>3, <4>1, <5>1
      <4>2. CASE n # k
        <5>1. n \in 0..(k - 1) /\ p[n] = q[n] /\ (n # 0 => p[n - 1] = q[n - 1])
          BY <2>3, <4>2
        <5> HIDE DEF p
        <5> QED
          BY <3>2, <5>1
      <4> QED
        BY <4>1, <4>2
    <3> HIDE DEF p
    <3> QED
      BY <2>3, <3>4, <3>5
  <2> QED
    BY <2>4, <2>5
<1>2. \E p \in [0..N -> D] : Runs(N, p)
  BY <1>1
<1> QED
  BY <1>2 DEF Iterates

\* And whatever sequence it is, it stays there.
LEMMA IterationStays ==
    ASSUME NEW N \in Nat, NEW good, NEW q, q[0] \in good[0],
           \A n \in 1..N : q[n - 1] \in good[n - 1] => q[n] \in good[n]
    PROVE  q[N] \in good[N]
<1> DEFINE bad == {k \in 0..N : q[k] \notin good[k]}
<1>1. ASSUME bad # {} PROVE FALSE
  <2> DEFINE rank == [k \in bad |-> k]
  <2>a. bad \in SUBSET (0..N)
    OBVIOUS
  <2>b. \A k \in 0..N : k \in bad <=> q[k] \notin good[k]
    OBVIOUS
  <2> HIDE DEF bad
  <2>1. IsFiniteSet(bad) /\ rank \in [bad -> Int]
    <3>1. IsFiniteSet(0..N)
      BY FS_Interval
    <3>2. IsFiniteSet(bad)
      BY <2>a, <3>1, FS_Subset
    <3>3. \A k \in 0..N : k \in Int
      OBVIOUS
    <3>4. \A k \in bad : k \in Int
      BY <2>a, <3>3, Zenon
    <3> QED
      BY <3>2, <3>4
  <2>2. \E k \in bad : \A j \in bad : rank[k] <= rank[j]
    BY <1>1, <2>1, Extremes
  <2>3. PICK k \in bad : \A j \in bad : k <= j
    BY <2>2
  <2>4. k \in 0..N /\ q[k] \notin good[k] /\ k # 0
    BY <2>a, <2>b
  <2>5. k \in 1..N /\ k - 1 \in 0..N /\ k - 1 \notin bad
    BY <2>3, <2>4
  <2>6. q[k - 1] \in good[k - 1]
    BY <2>b, <2>5
  <2> QED
    BY <2>4, <2>5, <2>6
<1> QED
  BY <1>1

Settled(full) == [pack : Parts(full), dropped : BOOLEAN, left : {{}}]

LEMMA PackFieldKeeps ==
    ASSUME AnswersInv, NEW full \in Whole, NEW budget \in Nat, NEW f \in Fields,
           NEW done \in SUBSET Fields, NEW acc \in Settled(full),
           Packed(full, budget, done, acc)
    PROVE  LET b == PackField(full, budget, f, acc)
           IN  b \in Settled(full) /\ Packed(full, budget, done \cup {f}, b)
<1> DEFINE N    == Cardinality(full[f])
           base == [acc EXCEPT !.left = full[f]]
           D    == Accs(full, f)
           Good(n) == {a \in D : /\ Packed(full, budget, done, a) /\ Offered(full, budget, f, a)
                                 /\ Cardinality(a.left) = N - n}
           good == [n \in 0..N |-> Good(n)]
           next(a) == Offer(full, budget, f, a)
           step == [a \in D |-> IF next(a) \in D THEN next(a) ELSE a]
           offered[n \in 0..N] == IF n = 0 THEN base ELSE next(offered[n - 1])
<1>1. IsFiniteSet(full[f]) /\ N \in Nat
  BY FieldsFinite, FS_CardinalityType DEF Whole
<1>2. base \in Good(0)
  <2>1. base \in D /\ base.left = full[f] /\ base.pack = acc.pack /\ base.dropped = acc.dropped
    BY DEF Settled, Accs
  <2> HIDE DEF base
  <2>2. Packed(full, budget, done, base)
    BY <2>1 DEF Packed
  <2>3. Offered(full, budget, f, base)
    BY <2>1 DEF Offered, NothingFits
  <2> QED
    BY <1>1, <2>1, <2>2, <2>3
<1>3. ASSUME NEW n \in 1..N, NEW a \in Good(n - 1) PROVE next(a) \in Good(n)
  <2>1. a.left # {}
    <3>1. Cardinality(a.left) # 0
      BY <1>1
    <3> QED
      BY <3>1, FS_EmptySet
  <2>2. /\ next(a) \in D /\ Packed(full, budget, done, next(a)) /\ Offered(full, budget, f, next(a))
        /\ Cardinality(next(a).left) = Cardinality(a.left) - 1
    BY <2>1, OfferKeeps
  <2>3. Cardinality(a.left) = N - (n - 1)
    OBVIOUS
  <2> HIDE DEF next, N, D
  <2>4. Cardinality(next(a).left) = N - n
    BY <1>1, <2>2, <2>3
  <2> QED
    BY <2>2, <2>4
<1>4. \A n \in 0..N : Good(n) \subseteq D
  OBVIOUS
<1>5. PackField(full, budget, f, acc) = offered[N]
  BY DEF PackField
<1> HIDE DEF N, base, D, Good, next
<1>6. \E p \in [0..N -> D] :
         p = [n \in 0..N |-> IF n = 0 THEN base ELSE next(p[n - 1])]
  <2>1. good \in [0..N -> SUBSET D] /\ base \in good[0]
    BY <1>1, <1>2, <1>4
  <2>2. step \in [D -> D]
    OBVIOUS
  <2>3. ASSUME NEW n \in 1..N, NEW a \in good[n - 1]
        PROVE  step[a] \in good[n] /\ step[a] = next(a)
    <3>1. n - 1 \in 0..N /\ n \in 0..N /\ good[n - 1] = Good(n - 1) /\ good[n] = Good(n)
      BY <1>1
    <3>2. a \in D /\ next(a) \in Good(n) /\ next(a) \in D
      BY <1>3, <1>4, <3>1
    <3> QED
      BY <3>1, <3>2
  <2> HIDE DEF step, good
  <2>a. \A n \in 1..N : \A a \in good[n - 1] : step[a] \in good[n]
    BY <2>3
  <2>b. Iterates(N, D, good, base, step)
    BY <1>1, <2>1, <2>2, <2>a, IterationExists
  <2>4. PICK p \in [0..N -> D] :
           \A n \in 0..N : p[n] \in good[n] /\ p[n] = IF n = 0 THEN base ELSE step[p[n - 1]]
    BY <2>b DEF Iterates
  <2>5. ASSUME NEW n \in 0..N PROVE p[n] = IF n = 0 THEN base ELSE next(p[n - 1])
    <3>1. CASE n = 0
      BY <2>4, <3>1
    <3>2. CASE n # 0
      <4>1. n \in 1..N /\ n - 1 \in 0..N
        BY <1>1, <3>2
      <4> QED
        BY <2>3, <2>4, <3>2, <4>1
    <3> QED
      BY <3>1, <3>2
  <2> QED
    BY <2>4, <2>5
<1>7. offered = [n \in 0..N |-> IF n = 0 THEN base ELSE next(offered[n - 1])]
  BY <1>6 DEF offered
<1> HIDE DEF offered
<1>8. offered[N] \in good[N]
  <2>1. offered[0] \in good[0]
    BY <1>1, <1>2, <1>7
  <2>2. ASSUME NEW n \in 1..N, offered[n - 1] \in good[n - 1] PROVE offered[n] \in good[n]
    <3>1. n \in 0..N /\ n - 1 \in 0..N /\ n # 0
      BY <1>1
    <3>2. offered[n] = next(offered[n - 1])
      BY <1>7, <3>1
    <3>3. offered[n - 1] \in Good(n - 1)
      BY <2>2, <3>1
    <3> QED
      BY <1>3, <3>1, <3>2, <3>3
  <2> HIDE DEF good
  <2> QED
    BY <1>1, <2>1, <2>2, IterationStays
<1>9. offered[N] \in Good(N)
  BY <1>1, <1>8
<1> DEFINE b == offered[N]
<1> USE DEF D, Good
<1>10. /\ b \in Accs(full, f) /\ Packed(full, budget, done, b) /\ Offered(full, budget, f, b)
       /\ Cardinality(b.left) = 0
  BY <1>1, <1>9
<1> HIDE DEF b
<1>11. b.left = {}
  <2>1. IsFiniteSet(b.left)
    BY <1>1, <1>10, FS_Subset DEF Accs
  <2> QED
    BY <1>10, <2>1, FS_EmptySet
<1>12. b \in Settled(full)
  BY <1>10, <1>11 DEF Accs, Settled
<1>13. Packed(full, budget, done \cup {f}, b)
  BY <1>10, <1>11 DEF Packed, Offered
<1> QED
  BY <1>5, <1>12, <1>13 DEF b
-----------------------------------------------------------------------------
(* Packs *)

\* A pack lists parts of what it is cut from, and every conflict that they touch.
CutFrom(full, budget, p) ==
    /\ p \in Response
    /\ \A h \in Fields : p[h] \subseteq full[h]
    /\ Closed(full, p)
    /\ Cost(p) <= budget
    /\ IF Cost(full) <= budget THEN p = full ELSE p.truncated
    /\ \A h \in Fields : NothingFits(full, budget, h, full[h], p)

LEMMA BoundedPackIsCut ==
    ASSUME AnswersInv, NEW full \in Whole, NEW budget \in Nat
    PROVE  CutFrom(full, budget, BoundedPack(full, budget))
<1> DEFINE a0 == [pack |-> Refused, dropped |-> FALSE, left |-> {}]
           a1 == PackField(full, budget, "current", a0)
           a2 == PackField(full, budget, "changes", a1)
           a3 == PackField(full, budget, "historical", a2)
           a4 == PackField(full, budget, "conflicts", a3)
           a5 == PackField(full, budget, "uncertain", a4)
           pack == a5.pack
           whole == [pack EXCEPT !.truncated = FALSE]
           next(n, a) == PackField(full, budget, FieldOrder[n], a)
           after[n \in 0..5] == IF n = 0 THEN a0 ELSE next(n, after[n - 1])
<1>a. BoundedPack(full, budget) =
        IF after[5].dropped THEN after[5].pack ELSE LowerFlag(after[5].pack, budget)
  BY DEF BoundedPack
<1>b. after[5] = a5
  <2> DEFINE stages == [n \in 0..5 |-> CASE n = 0 -> a0 [] n = 1 -> a1 [] n = 2 -> a2
                                       [] n = 3 -> a3 [] n = 4 -> a4 [] n = 5 -> a5]
  <2>1. /\ a1 = next(1, a0) /\ a2 = next(2, a1) /\ a3 = next(3, a2)
        /\ a4 = next(4, a3) /\ a5 = next(5, a4)
    BY DEF FieldOrder
  <2> HIDE DEF a0, a1, a2, a3, a4, a5, next
  <2>2. ASSUME NEW n \in 0..5
        PROVE  stages[n] = IF n = 0 THEN a0 ELSE next(n, stages[n - 1])
    <3>1. n \in {0, 1, 2, 3, 4, 5}
      OBVIOUS
    <3> QED
      BY <2>1, <3>1
  <2>3. stages = [n \in 0..5 |-> IF n = 0 THEN a0 ELSE next(n, stages[n - 1])]
    <3> DEFINE other == [n \in 0..5 |-> IF n = 0 THEN a0 ELSE next(n, stages[n - 1])]
    <3>1. \A n \in 0..5 : stages[n] = other[n]
      BY <2>2
    <3>2. DOMAIN stages = 0..5 /\ DOMAIN other = 0..5
      OBVIOUS
    <3> QED
      BY <3>1
  <2> HIDE DEF stages
  <2>4. after = [n \in 0..5 |-> IF n = 0 THEN a0 ELSE next(n, after[n - 1])]
    BY <2>3 DEF after
  <2> HIDE DEF after
  <2>5. after[0] = a0
    BY <2>4
  <2>6. after[1] = a1
    BY <2>1, <2>4, <2>5
  <2>7. after[2] = a2
    BY <2>1, <2>4, <2>6
  <2>8. after[3] = a3
    BY <2>1, <2>4, <2>7
  <2>9. after[4] = a4
    BY <2>1, <2>4, <2>8
  <2> QED
    BY <2>1, <2>4, <2>9
<1> HIDE DEF after
<1>1. BoundedPack(full, budget) =
        IF a5.dropped THEN pack ELSE IF Cost(whole) <= budget THEN whole ELSE pack
  BY <1>a, <1>b DEF LowerFlag
<1>2. a0 \in Settled(full) /\ Packed(full, budget, {}, a0)
  <2>1. Refused \in Parts(full)
    BY DEF Refused, Empty, Parts
  <2>2. Shown(Refused) = {}
    BY DEF Refused, Empty, Shown
  <2>3. Closed(full, Refused)
    BY <2>2 DEF Closed
  <2> QED
    BY <2>1, <2>3, EnvelopeIsFree DEF Settled, Packed
<1> HIDE DEF a0
<1>3. a1 \in Settled(full) /\ Packed(full, budget, {} \cup {"current"}, a1)
  BY <1>2, PackFieldKeeps, FieldsAre
<1> HIDE DEF a1
<1>4. a2 \in Settled(full) /\ Packed(full, budget, ({} \cup {"current"}) \cup {"changes"}, a2)
  BY <1>3, PackFieldKeeps, FieldsAre
<1> HIDE DEF a2
<1>5. /\ a3 \in Settled(full)
      /\ Packed(full, budget, (({} \cup {"current"}) \cup {"changes"}) \cup {"historical"}, a3)
  BY <1>4, PackFieldKeeps, FieldsAre
<1> HIDE DEF a3
<1> DEFINE most == ((({} \cup {"current"}) \cup {"changes"}) \cup {"historical"}) \cup {"conflicts"}
<1>6. a4 \in Settled(full) /\ Packed(full, budget, most, a4)
  BY <1>5, PackFieldKeeps, FieldsAre
<1>7. most \in SUBSET Fields
  BY FieldsAre
<1> HIDE DEF a4, most
<1>8. a5 \in Settled(full) /\ Packed(full, budget, most \cup {"uncertain"}, a5)
  BY <1>6, <1>7, PackFieldKeeps, FieldsAre
<1>9. Fields = most \cup {"uncertain"}
  BY FieldsAre DEF most
<1> HIDE DEF a5
<1>10. pack \in Parts(full) /\ a5.dropped \in BOOLEAN
  BY <1>8 DEF Settled
<1>11. /\ Cost(pack) <= budget /\ Closed(full, pack)
       /\ Cost(full) <= budget => ~a5.dropped
       /\ a5.dropped \/ \A h \in Fields : full[h] \subseteq pack[h]
       /\ \A h \in Fields : NothingFits(full, budget, h, full[h], pack)
  BY <1>8, <1>9 DEF Packed
<1> HIDE DEF pack
<1>12. /\ pack \in Response /\ pack.truncated
       /\ \A h \in Fields : pack[h] \subseteq full[h]
  BY <1>10, PartsAreWithin DEF Within
<1>13. CASE a5.dropped
  BY <1>1, <1>11, <1>12, <1>13 DEF CutFrom
<1>14. CASE ~a5.dropped
  <2>1. /\ pack.current = full.current /\ pack.changes = full.changes
        /\ pack.historical = full.historical /\ pack.conflicts = full.conflicts
        /\ pack.uncertain = full.uncertain
    BY <1>11, <1>12, <1>14, FieldsAre
  <2>2. whole = full
    BY <1>12, <2>1 DEF Whole, Response
  <2>3. CutFrom(full, budget, full) \/ ~(Cost(full) <= budget)
    BY DEF CutFrom, Closed, NothingFits, Whole, Response
  <2> HIDE DEF whole
  <2>4. CASE Cost(full) <= budget
    BY <1>1, <1>14, <2>2, <2>3, <2>4
  <2>5. CASE ~(Cost(full) <= budget)
    BY <1>1, <1>11, <1>12, <1>14, <2>2, <2>5 DEF CutFrom
  <2> QED
    BY <2>4, <2>5
<1> QED
  BY <1>13, <1>14

LEMMA AnswersAre ==
    ASSUME NEW a \in Answers
    PROVE  /\ a.inquiry \in Inquiry
           /\ a.full = Full(a.inquiry, Project(a.inquiry)) /\ a.full \in Whole
           /\ a.response = Answered(a.inquiry, a.full)
<1> DEFINE projected == {[inquiry |-> q, all |-> Project(q)] : q \in Inquiries}
           uncut == {[inquiry |-> p.inquiry, full |-> Full(p.inquiry, p.all)] : p \in projected}
<1>1. PICK u \in uncut : a = [inquiry |-> u.inquiry, full |-> u.full,
                              response |-> Answered(u.inquiry, u.full)]
  BY DEF Answers
<1>2. PICK q \in Inquiries : u = [inquiry |-> q, full |-> Full(q, Project(q))]
  OBVIOUS
<1>3. /\ a.inquiry = q /\ a.full = Full(q, Project(q))
      /\ a.response = Answered(q, Full(q, Project(q)))
  BY <1>1, <1>2
<1> QED
  BY <1>3, FullType, PacksAssumption

\* Whatever is asked of whatever archive, a pack never exceeds its budget; it is the
\* whole answer when that fits, and says that it is truncated when it does not.
THEOREM PacksAlwaysFit == Spec => []PacksFitAndTellTruncation
<1>1. AnswersInv => PacksFitAndTellTruncation
  <2> SUFFICES ASSUME AnswersInv, NEW a \in Answers
               PROVE  LET pack == BoundedPack(a.full, a.inquiry.budget)
                      IN  /\ Cost(pack) <= a.inquiry.budget
                          /\ IF Cost(a.full) <= a.inquiry.budget THEN pack = a.full
                             ELSE pack.truncated
    BY DEF PacksFitAndTellTruncation
  <2>1. a.full \in Whole /\ a.inquiry.budget \in Nat
    BY AnswersAre DEF Inquiry
  <2> QED
    BY <2>1, BoundedPackIsCut DEF CutFrom
<1> QED
  BY <1>1, AnswersInvariant, PTL

\* The greedy pass drops an item for good; yet whatever the order of the items, and
\* however many conflicts they share, nothing it dropped fits when it is done.
THEOREM PacksAreFilled == Spec => []PacksLeaveNothingThatFits
<1>1. AnswersInv => PacksLeaveNothingThatFits
  <2> SUFFICES ASSUME AnswersInv, NEW a \in Answers
               PROVE  LET pack == BoundedPack(a.full, a.inquiry.budget)
                      IN  \A f \in Fields : \A x \in a.full[f] \ pack[f] :
                             Cost(AddUnit(a.full, pack, f, x)) > a.inquiry.budget
    BY DEF PacksLeaveNothingThatFits
  <2>1. a.full \in Whole /\ a.inquiry.budget \in Nat
    BY AnswersAre DEF Inquiry
  <2> QED
    BY <2>1, BoundedPackIsCut DEF CutFrom, NothingFits
<1> QED
  BY <1>1, AnswersInvariant, PTL

LEMMA ResponseType ==
    ASSUME AnswersInv, NEW a \in Answers
    PROVE  a.response \in Response
<1> DEFINE pack == BoundedPack(a.full, a.inquiry.budget)
<1>1. /\ a.full \in Whole /\ a.full \in Response
      /\ a.inquiry.budget \in Nat /\ a.response = Answered(a.inquiry, a.full)
  BY AnswersAre DEF Inquiry, Whole
<1>2. pack \in Response
  BY <1>1, BoundedPackIsCut DEF CutFrom
<1>3. ScopeConflicts(a.inquiry, pack) \in Response
  BY <1>2, SidesAreKept DEF ScopeConflicts
<1> QED
  BY <1>1, <1>2, <1>3 DEF Answered

\* Each receipt that is issued with an answer passes the verifier that holds nothing
\* but that answer, whatever the selectors, the withholding and the budget left of it.
THEOREM ReceiptsVerify == Spec => []HonestReceiptsVerify
<1>1. AnswersInv => HonestReceiptsVerify
  <2> SUFFICES ASSUME AnswersInv, NEW a \in Answers, NEW receipt \in Receipts(a.response)
               PROVE  Verifies(receipt, a.response)
    BY DEF HonestReceiptsVerify
  <2> DEFINE r == a.response
  <2>1. r \in Response
    BY ResponseType
  <2> HIDE DEF r
  <2>2. PICK k \in r.current : receipt \in ReceiptFor(r, k.key)
    BY DEF Receipts, r
  <2>3. /\ receipt.entries = Entries(r, k.key)
        /\ receipt.claim \in Primary(Entries(r, k.key))
    BY <2>2 DEF ReceiptFor
  <2>4. k \in Current /\ InForce(k) /\ k \in Entries(r, k.key)
    BY <2>1, <2>2 DEF Response, Current, Active, InForce, Entries, Shown
  <2>5. receipt.claim \in Entries(r, k.key) /\ InForce(receipt.claim)
    BY <2>3, <2>4 DEF Primary
  <2>6. receipt.entries \subseteq Shown(r) /\ receipt.claim \in Shown(r)
    BY <2>3, <2>5 DEF Entries
  <2>7. ASSUME NEW c, StatusOf(c) = "CURRENT", NEW d \in Shown(r)
        PROVE  d.target # ClaimId(c)
    <3>1. c \in Current /\ d \in claims
      BY <2>1, <2>7, CurrentMeans, ShownIsLoaded, CurrentLoaded
    <3>2. c \in claims /\ ClaimId(c) \notin Retired(claims)
      BY <3>1 DEF Current, Active, Live
    <3>3. ClaimId(c) # None
      BY <3>2, TypesOfInv, TablesAssumption DEF Claim, ClaimId, ClaimRef
    <3> QED
      BY <3>1, <3>2, <3>3 DEF Retired
  <2> QED
    BY <2>5, <2>6, <2>7 DEF Verifies, ProofVerifies, r
<1> QED
  BY <1>1, AnswersInvariant, PTL
-----------------------------------------------------------------------------
(* Counter-sources *)

\* The two sides of a disagreement.
Disagree(c, d) == c \in Current /\ d \in Current /\ Opposed(c, d)

\* Claims and groups that a response lists beside the groups in its conflicts.
Plain(r) ==
    r.current \cup r.historical \cup r.uncertain
    \cup UNION {c.previous \cup c.now : c \in r.changes}

LEMMA ShownIsPlain == \A r : Shown(r) = Plain(r) \cup UNION r.conflicts
BY DEF Shown, Plain

LEMMA PairsCount ==
    ASSUME NEW c, NEW d, c # d
    PROVE  Cardinality({c, d}) = 2 /\ Cardinality({d}) = 1
<1>1. IsFiniteSet({d}) /\ Cardinality({d}) = 1
  BY FS_Singleton
<1>2. Cardinality({d} \cup {c}) = 2
  BY <1>1, FS_AddElement
<1>3. {d} \cup {c} = {c, d}
  OBVIOUS
<1> QED
  BY <1>1, <1>2, <1>3

\* A side that is kept stays listed, and the group with it when both are kept.
LEMMA SidesStay ==
    ASSUME NEW r \in Response, NEW kept, NEW c, NEW d, c # d,
           {c, d} \in r.conflicts, d \in kept
    PROVE  /\ d \in Shown(KeepSides(r, kept))
           /\ c \in kept => {c, d} \in KeepSides(r, kept).conflicts
<1> DEFINE sides == {g \cap kept : g \in r.conflicts}
           two == {g \in sides : Cardinality(g) >= 2}
           one == UNION {g \in sides : Cardinality(g) = 1}
           k == KeepSides(r, kept)
<1>1. k.current = r.current \cup one /\ k.conflicts = two
  BY DEF KeepSides, Response
<1>2. {c, d} \cap kept \in sides
  OBVIOUS
<1>3. c \in kept => {c, d} \in two
  <2>1. c \in kept => {c, d} \cap kept = {c, d}
    OBVIOUS
  <2>2. Cardinality({c, d}) = 2
    BY PairsCount, Zenon
  <2>3. Cardinality({c, d}) >= 2
    BY <2>2
  <2> HIDE DEF sides
  <2> QED
    BY <1>2, <2>1, <2>3
<1>4. c \notin kept => d \in one
  <2>1. c \notin kept => {c, d} \cap kept = {d}
    OBVIOUS
  <2> HIDE DEF sides
  <2> QED
    BY <1>2, <2>1, PairsCount
<1> HIDE DEF k, one, two
<1> QED
  BY <1>1, <1>3, <1>4 DEF Shown, k

\* What is projected lists every pair of live claims that disagree, if it lists either.
LEMMA ProjectTellsBoth ==
    ASSUME NEW q, NEW c, NEW d, Disagree(c, d), c \in Shown(Project(q))
    PROVE  {c, d} \in Project(q).conflicts
<1> DEFINE match      == Matching(q)
           groups     == Alternatives(match)
           replaced   == Targets(match)
           historical == {x \in match \cup replaced : Obsolete(x)}
           uncertain  == {x \in match \ Current : ClaimId(x) \notin Retired(claims)}
           current    == (Current \cap match) \ UNION groups
           paths      == IF q.op = "query" THEN Docs ELSE q.paths
           ids        == {x \in current \cup historical \cup uncertain \cup UNION groups :
                             x.doc \in paths \cap q.scope}
           changes    == Changes([q EXCEPT !.paths = paths], ids)
           listed     == IF q.op = "current"
                         THEN [Empty EXCEPT !.current = current \cap ids]
                         ELSE [Empty EXCEPT !.current = current \cap ids,
                                            !.historical = historical \cap ids,
                                            !.uncertain = uncertain \cap ids,
                                            !.changes = changes]
           G          == Alternatives(AllClaims)
           C          == Connected(ids \cup Shown(listed), G)
           p          == [listed EXCEPT !.conflicts = C]
<1>1. Project(q) = p
  BY DEF Project
<1> HIDE DEF ids, current, historical, uncertain, changes
<1>2. /\ p.current = listed.current /\ p.historical = listed.historical
      /\ p.uncertain = listed.uncertain /\ p.changes = listed.changes /\ p.conflicts = C
  BY DEF Empty
<1> HIDE DEF p, listed, C
<1>3. c \in Plain(listed) \cup UNION C
  BY <1>1, <1>2, ShownIsPlain DEF Plain
<1>4. c \in Shown(listed) \cup UNION C
  BY <1>3, ShownIsPlain
<1>5. {c, d} \in G
  <2>1. c \in Current \cap AllClaims /\ d \in {x \in Current : Opposed(c, x)}
    BY CurrentLoaded DEF Disagree
  <2> QED
    BY <2>1 DEF Alternatives
<1> HIDE DEF G
<1>6. {c, d} \in C
  <2> USE DEF C
  <2>1. {c, d} \cap ((ids \cup Shown(listed)) \cup UNION C) # {}
    BY <1>4
  <2> HIDE DEF C
  <2> QED
    BY <1>5, <2>1, ConnectedGroups DEF C
<1> QED
  BY <1>1, <1>2, <1>6

\* What a change had before, or retired, is not live.
LEMMA BeforeIsOver ==
    ASSUME AnswersInv, NEW v \in versions, NEW c \in Before(v)
    PROVE  c \notin Current
<1> DEFINE prior == {o \in AllClaims : o.doc = v.doc /\ o.num = v.num - 1}
<1>1. c \in prior \/ c \in Targets(ClaimsOf(claims, v))
  BY DEF Before
<1>2. CASE c \in prior
  <2> SUFFICES ASSUME c \in Current PROVE FALSE
    OBVIOUS
  <2>1. PICK u \in versions : VersionId(u) = [doc |-> c.doc, num |-> c.num] /\ IsLatest(versions, u)
    BY DEF Current, Active, Live
  <2>2. u.doc = c.doc /\ u.num = c.num /\ c.doc = v.doc /\ c.num = v.num - 1
    BY <1>2, <2>1 DEF VersionId
  <2>3. v.num <= u.num /\ v.num \in Nat
    BY <2>1, <2>2, TypesOfInv DEF IsLatest, Version
  <2> QED
    BY <2>2, <2>3
<1>3. CASE c \in Targets(ClaimsOf(claims, v))
  <2>1. c \in claims /\ \E o \in claims : o.target = ClaimId(c)
    BY <1>3, CurrentLoaded DEF Targets, ClaimsOf
  <2>2. ClaimId(c) # None
    BY <2>1, TypesOfInv, TablesAssumption DEF Claim, ClaimId, ClaimRef
  <2>3. ClaimId(c) \in Retired(claims)
    BY <2>1, <2>2 DEF Retired
  <2> QED
    BY <2>3 DEF Current, Active, Live
<1> QED
  BY <1>1, <1>2, <1>3

LEMMA ChangesInScope ==
    ASSUME AnswersInv, NEW q \in Inquiry, NEW paths, NEW ids,
           NEW x \in Changes([q EXCEPT !.paths = paths], ids), NEW c \in x.previous \cup x.now,
           c \in Current
    PROVE  c.doc \in q.scope
<1> DEFINE p == [q EXCEPT !.paths = paths]
           transition(v) ==
             LET now == ClaimsOf(claims, v)
                 ours == now \cap ids
             IN  IF p.op # "history"
                 THEN [version |-> VersionId(v), previous |-> Before(v), now |-> now]
                 ELSE [version |-> VersionId(v), now |-> ours,
                       previous |-> Before(v) \cap (ids \cup Targets(ours))]
<1>1. Changes(p, ids) \subseteq {transition(v) : v \in {u \in versions : u.doc \in p.paths \cap p.scope}}
  BY DEF Changes
<1>2. PICK v \in versions : v.doc \in p.scope /\ x = transition(v)
  <2> HIDE DEF transition
  <2> QED
    BY <1>1
<1>3. p.scope = q.scope
  BY DEF Inquiry
<1>4. x.previous \subseteq Before(v) /\ x.now \subseteq ClaimsOf(claims, v)
  BY <1>2
<1> HIDE DEF p, transition
<1>5. c \notin x.previous
  BY <1>4, BeforeIsOver
<1>6. c.doc = v.doc
  BY <1>4, <1>5 DEF ClaimsOf
<1> QED
  BY <1>2, <1>3, <1>6

\* Outside its conflicts, what is projected lists no live claim that is out of scope.
LEMMA PlainIsInScope ==
    ASSUME AnswersInv, NEW q \in Inquiry, NEW c \in Current, c \in Plain(Project(q))
    PROVE  c.doc \in q.scope
<1> DEFINE match      == Matching(q)
           groups     == Alternatives(match)
           replaced   == Targets(match)
           historical == {x \in match \cup replaced : Obsolete(x)}
           uncertain  == {x \in match \ Current : ClaimId(x) \notin Retired(claims)}
           current    == (Current \cap match) \ UNION groups
           paths      == IF q.op = "query" THEN Docs ELSE q.paths
           ids        == {x \in current \cup historical \cup uncertain \cup UNION groups :
                             x.doc \in paths \cap q.scope}
           changes    == Changes([q EXCEPT !.paths = paths], ids)
           listed     == IF q.op = "current"
                         THEN [Empty EXCEPT !.current = current \cap ids]
                         ELSE [Empty EXCEPT !.current = current \cap ids,
                                            !.historical = historical \cap ids,
                                            !.uncertain = uncertain \cap ids,
                                            !.changes = changes]
           C          == Connected(ids \cup Shown(listed), Alternatives(AllClaims))
           p          == [listed EXCEPT !.conflicts = C]
<1>1. Project(q) = p
  BY DEF Project
<1>2. \A x \in ids : x.doc \in q.scope
  OBVIOUS
<1> HIDE DEF ids, current, historical, uncertain, changes
<1>3. /\ p.current \subseteq ids /\ p.historical \subseteq ids /\ p.uncertain \subseteq ids
      /\ p.changes \subseteq changes
  BY DEF Empty
<1> HIDE DEF p
<1>4. c \in ids \/ \E x \in changes : c \in x.previous \cup x.now
  BY <1>1, <1>3 DEF Plain
<1>5. CASE c \in ids
  BY <1>2, <1>5
<1>6. CASE \E x \in changes : c \in x.previous \cup x.now
  BY <1>6, ChangesInScope DEF changes
<1> QED
  BY <1>4, <1>5, <1>6

\* Beside what was plainly listed, only sides that are kept stay or are promoted.
LEMMA SidesAreOfKept ==
    ASSUME NEW r \in Response, NEW kept
    PROVE  Shown(KeepSides(r, kept)) \subseteq Plain(r) \cup kept
<1> DEFINE sides == {g \cap kept : g \in r.conflicts}
           two == {g \in sides : Cardinality(g) >= 2}
           one == UNION {g \in sides : Cardinality(g) = 1}
           k == KeepSides(r, kept)
<1>1. /\ k.current = r.current \cup one /\ k.conflicts = two
      /\ k.changes = r.changes /\ k.historical = r.historical /\ k.uncertain = r.uncertain
  BY DEF KeepSides, Response
<1>2. \A g \in sides : g \subseteq kept
  OBVIOUS
<1> HIDE DEF sides
<1>3. one \subseteq kept /\ UNION two \subseteq kept
  BY <1>2
<1> HIDE DEF k, one, two
<1> QED
  BY <1>1, <1>3, ShownIsPlain DEF Plain, k

\* Scoping keeps both sides that are in scope; and no live claim is left that is not.
LEMMA ScopeTellsBoth ==
    ASSUME AnswersInv, NEW q \in Inquiry, NEW c, NEW d, Disagree(c, d), d.doc \in q.scope,
           c \in Shown(ScopeConflicts(q, Project(q)))
    PROVE  {c, d} \in ScopeConflicts(q, Project(q)).conflicts
<1> DEFINE r == Project(q)
           kept == {x \in Shown(r) : x.doc \in q.scope}
<1>1. ScopeConflicts(q, r) = KeepSides(r, kept) /\ r \in Response
  BY ProjectType DEF ScopeConflicts, Whole
<1>2. c \in Shown(r) /\ c \in Plain(r) \cup kept
  BY <1>1, SidesAreKept, SidesAreOfKept
<1>3. c.doc \in q.scope
  BY <1>2, PlainIsInScope DEF Disagree
<1>4. {c, d} \in r.conflicts /\ c # d
  BY <1>2, ProjectTellsBoth DEF Disagree, Opposed
<1>5. d \in Shown(r)
  BY <1>4 DEF Shown
<1> QED
  BY <1>1, <1>2, <1>3, <1>4, <1>5, SidesStay

\* _withhold, before it turns to the sides of the conflicts.
NotWithheld(q, r) == {x \in Shown(r) : q.drafts \/ x.value \notin Withheld}

Stripped(q, r) ==
    LET kept == NotWithheld(q, r)
        sides(c) == [c EXCEPT !.previous = @ \cap kept, !.now = @ \cap kept]
    IN  [r EXCEPT !.current = @ \cap kept, !.historical = @ \cap kept,
                  !.uncertain = @ \cap kept,
                  !.changes = {c \in {sides(x) : x \in @} : c.previous \cup c.now # {}}]

LEMMA StrippedOfWithheld ==
    ASSUME NEW q, NEW r \in Whole
    PROVE  /\ Withhold(q, r) = KeepSides(Stripped(q, r), NotWithheld(q, r))
           /\ Stripped(q, r) \in Response /\ Stripped(q, r).conflicts = r.conflicts
           /\ Plain(Stripped(q, r)) \subseteq NotWithheld(q, r)
<1> DEFINE kept == NotWithheld(q, r)
           sides(x) == [x EXCEPT !.previous = @ \cap kept, !.now = @ \cap kept]
           changes == {x \in {sides(y) : y \in r.changes} : x.previous \cup x.now # {}}
           r1 == [r EXCEPT !.current = @ \cap kept, !.historical = @ \cap kept,
                           !.uncertain = @ \cap kept,
                           !.changes = changes]
<1>1. Stripped(q, r) = r1 /\ Withhold(q, r) = KeepSides(r1, kept)
  BY DEF Withhold, Stripped, NotWithheld
<1>2. \A x \in r.changes : /\ sides(x) \in Change
                           /\ sides(x).previous \subseteq kept /\ sides(x).now \subseteq kept
  BY DEF Whole, Response, Change
<1>3. \A x \in changes : x \in Change /\ x.previous \subseteq kept /\ x.now \subseteq kept
  <2> HIDE DEF sides
  <2> QED
    BY <1>2
<1> HIDE DEF kept, changes
<1>4. changes \in SUBSET Change
  BY <1>3
<1>5. /\ r1 \in Response
      /\ r1.current \subseteq kept /\ r1.historical \subseteq kept /\ r1.uncertain \subseteq kept
      /\ r1.changes = changes /\ r1.conflicts = r.conflicts
  BY <1>4 DEF Whole, Response
<1> HIDE DEF r1
<1>6. Plain(r1) \subseteq kept
  BY <1>3, <1>5 DEF Plain
<1> QED
  BY <1>1, <1>5, <1>6 DEF kept

\* What is withheld from shows nothing else, and keeps a side that is not withheld.
LEMMA WithholdShows ==
    ASSUME NEW q, NEW r \in Whole
    PROVE  Shown(Withhold(q, r)) \subseteq NotWithheld(q, r)
BY StrippedOfWithheld, SidesAreOfKept

LEMMA WithholdTellsBoth ==
    ASSUME NEW q, NEW r \in Whole, NEW c, NEW d, Disagree(c, d), {c, d} \in r.conflicts,
           q.drafts \/ d.value \notin Withheld, c \in Shown(Withhold(q, r))
    PROVE  {c, d} \in Withhold(q, r).conflicts
<1>1. d \in NotWithheld(q, r)
  BY DEF Shown, NotWithheld
<1>2. c \in NotWithheld(q, r) /\ c # d
  BY WithholdShows DEF Disagree, Opposed
<1> DEFINE r1 == Stripped(q, r)
           kept == NotWithheld(q, r)
<1>3. Withhold(q, r) = KeepSides(r1, kept) /\ r1 \in Response /\ {c, d} \in r1.conflicts
  BY StrippedOfWithheld
<1> HIDE DEF r1, kept
<1>4. {c, d} \in KeepSides(r1, kept).conflicts
  BY <1>1, <1>2, <1>3, SidesStay DEF kept
<1> QED
  BY <1>3, <1>4

\* What is selected for a query lists both sides, if it lists either.
LEMMA SelectTellsBoth ==
    ASSUME NEW q, NEW c, NEW d, Disagree(c, d), c \in Shown(Select(q, Project(q)))
    PROVE  {c, d} \in Select(q, Project(q)).conflicts
<1> DEFINE r        == Project(q)
           relevant == {x \in Shown(r) : x.key \in q.about /\ x.doc \in q.paths \cap q.scope}
           chosen   == IF q.past THEN relevant \cup Targets(relevant) ELSE relevant
           changes  == {x \in r.changes : (x.previous \cup x.now) \cap chosen # {}}
           picked   == IF q.past
                       THEN [Empty EXCEPT !.current = r.current \cap chosen,
                                          !.historical = r.historical \cap chosen,
                                          !.uncertain = r.uncertain \cap chosen,
                                          !.changes = changes]
                       ELSE [Empty EXCEPT !.current = r.current \cap chosen]
           C        == Connected(chosen \cup Shown(picked), r.conflicts)
           p        == [picked EXCEPT !.conflicts = C]
<1>1. Select(q, r) = p
  BY DEF Select
<1>2. changes \subseteq r.changes
  OBVIOUS
<1> HIDE DEF chosen, changes
<1>3. /\ p.current = picked.current /\ p.historical = picked.historical
      /\ p.uncertain = picked.uncertain /\ p.changes = picked.changes /\ p.conflicts = C
  BY DEF Empty
<1>4. /\ picked.current \subseteq r.current /\ picked.historical \subseteq r.historical
      /\ picked.uncertain \subseteq r.uncertain /\ picked.changes \subseteq r.changes
  BY <1>2 DEF Empty
<1> HIDE DEF p, picked, r
<1>5. /\ C \subseteq r.conflicts
      /\ \A g \in r.conflicts : g \cap ((chosen \cup Shown(picked)) \cup UNION C) # {} => g \in C
  BY ConnectedGroups
<1> HIDE DEF C
<1>6. c \in Plain(picked) \cup UNION C
  BY <1>1, <1>3, ShownIsPlain DEF Plain, r
<1>7. c \in Shown(r)
  <2>1. Plain(picked) \subseteq Plain(r) /\ UNION C \subseteq UNION r.conflicts
    BY <1>4, <1>5 DEF Plain
  <2> QED
    BY <1>6, <2>1, ShownIsPlain
<1>8. {c, d} \in r.conflicts
  BY <1>7, ProjectTellsBoth DEF r
<1>9. c \in Shown(picked) \cup UNION C
  BY <1>6, ShownIsPlain
<1>10. {c, d} \cap ((chosen \cup Shown(picked)) \cup UNION C) # {}
  BY <1>9
<1>11. {c, d} \in C
  BY <1>5, <1>8, <1>10
<1> QED
  BY <1>1, <1>3, <1>11 DEF r

LEMMA CutShows ==
    ASSUME NEW full, NEW budget, NEW p, CutFrom(full, budget, p)
    PROVE  Shown(p) \subseteq Shown(full)
BY WithinShows DEF CutFrom, Within

\* What an answer is cut from lists both sides that may be told, if it lists either.
LEMMA FullTellsBoth ==
    ASSUME AnswersInv, NEW q \in Inquiry, NEW c, NEW d, Disagree(c, d), d.doc \in q.scope,
           q.op \in {"history", "query"} \/ q.drafts \/ d.value \notin Withheld,
           c \in Shown(Full(q, Project(q)))
    PROVE  {c, d} \in Full(q, Project(q)).conflicts
<1> DEFINE scoped == ScopeConflicts(q, Project(q))
<1>1. CASE q.op = "query"
  BY <1>1, SelectTellsBoth DEF Full
<1>2. CASE q.op = "history"
  BY <1>2, ScopeTellsBoth DEF Full
<1>3. CASE q.op \notin {"query", "history"}
  <2>1. Full(q, Project(q)) = Withhold(q, scoped)
    BY <1>3 DEF Full
  <2>2. scoped \in Whole
    BY ProjectType, ScopeType
  <2>3. c \in Shown(scoped)
    BY <2>1, <2>2, WithholdShows DEF NotWithheld
  <2>4. {c, d} \in scoped.conflicts
    BY <2>3, ScopeTellsBoth
  <2> HIDE DEF scoped
  <2> QED
    BY <1>3, <2>1, <2>2, <2>4, WithholdTellsBoth
<1> QED
  BY <1>1, <1>2, <1>3

\* An answer that lists a live claim lists every live claim that contradicts it and may
\* be told: no selector, relevance filter or budget hides a counter-source.
THEOREM CounterSourcesAreListed == Spec => []NoCounterSourceIsHidden
<1>1. AnswersInv => NoCounterSourceIsHidden
  <2> SUFFICES ASSUME AnswersInv, NEW a \in Answers, NEW c \in Current, NEW d \in Current,
                      c \in Shown(a.response), Opposed(c, d), d.doc \in a.inquiry.scope,
                      \/ a.inquiry.op \in {"history", "query"}
                      \/ a.inquiry.drafts \/ d.value \notin Withheld
               PROVE  d \in Shown(a.response)
    BY DEF NoCounterSourceIsHidden
  <2> DEFINE q == a.inquiry
             pack == BoundedPack(a.full, q.budget)
  <2>1. /\ q \in Inquiry /\ q.budget \in Nat
        /\ a.full = Full(q, Project(q)) /\ a.full \in Whole
        /\ a.response = Answered(q, a.full)
    BY AnswersAre DEF Inquiry
  <2>2. Disagree(c, d) /\ c # d
    BY DEF Disagree, Opposed
  <2>3. c \in Shown(a.full) => {c, d} \in a.full.conflicts
    BY <2>1, <2>2, FullTellsBoth
  <2>4. CutFrom(a.full, q.budget, pack)
    BY <2>1, BoundedPackIsCut
  <2>5. c \in Shown(pack) => {c, d} \in pack.conflicts
    <3> HIDE DEF pack, q
    <3>1. Shown(pack) \subseteq Shown(a.full)
      BY <2>4, CutShows
    <3> QED
      BY <2>3, <2>4, <3>1 DEF CutFrom, Closed
  <2>6. \A r : {c, d} \in r.conflicts => d \in Shown(r)
    BY DEF Shown
  <2>7. CASE q.op = "query"
    <3> DEFINE kept == {x \in Shown(pack) : x.doc \in q.scope}
    <3>1. a.response = KeepSides(pack, kept)
      BY <2>1, <2>7 DEF Answered, ScopeConflicts
    <3>2. pack \in Response
      BY <2>4 DEF CutFrom
    <3> HIDE DEF pack
    <3>3. c \in Shown(pack)
      BY <3>1, <3>2, SidesAreKept
    <3>4. {c, d} \in pack.conflicts /\ d \in Shown(pack)
      BY <2>5, <2>6, <3>3
    <3> QED
      BY <2>2, <3>1, <3>2, <3>4, SidesStay
  <2>8. CASE q.op = "pack"
    <3>1. a.response = pack
      BY <2>1, <2>8 DEF Answered
    <3> QED
      BY <2>5, <2>6, <3>1
  <2>9. CASE q.op \notin {"query", "pack"}
    <3>1. a.response = a.full
      BY <2>1, <2>9 DEF Answered
    <3> QED
      BY <2>3, <2>6, <3>1
  <2> QED
    BY <2>7, <2>8, <2>9
<1> QED
  BY <1>1, AnswersInvariant, PTL

=============================================================================
