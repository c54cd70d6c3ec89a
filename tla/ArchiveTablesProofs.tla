------------------------ MODULE ArchiveTablesProofs ------------------------
(***************************************************************************)
(* Lemmas about the operators of ArchiveTables, for any documents, contents*)
(* and requests: what rows a write adds, and that it leaves the tables     *)
(* sound.  The proofs of the modules that apply the operators cite them.   *)
(***************************************************************************)
EXTENDS ArchiveTables, FiniteSetTheorems, TLAPS

USE DEF Events, Bases, CrossBases

-----------------------------------------------------------------------------
(* The least of a finite set *)

\* A finite set has an element that is minimal in a strict order: no other has
\* fewer elements below it.
LEMMA MinimalElement ==
    ASSUME NEW S, IsFiniteSet(S), S # {}, NEW R,
           \A a \in S : <<a, a>> \notin R,
           \A a, b, c \in S : <<a, b>> \in R /\ <<b, c>> \in R => <<a, c>> \in R
    PROVE  \E m \in S : \A u \in S : <<u, m>> \notin R
<1> DEFINE below(x) == {u \in S : <<u, x>> \in R}
           T == {below(x) : x \in S}
<1>0. ASSUME NEW x \in S PROVE below(x) \in FiniteSubsetsOf(S)
  <2>1. below(x) \in SUBSET S
    OBVIOUS
  <2> HIDE DEF below
  <2>2. IsFiniteSet(below(x))
    BY <2>1, FS_Subset
  <2> QED
    BY <2>1, <2>2 DEF FiniteSubsetsOf
<1>1. T \subseteq FiniteSubsetsOf(S) /\ T # {}
  <2> HIDE DEF below
  <2> QED
    BY <1>0
<1>2. IsWellFoundedOn(StrictSubsetOrdering(S), FiniteSubsetsOf(S))
  BY FS_StrictSubsetOrderingWellFounded
<1> HIDE DEF T
<1>3. \E B \in T : \A A \in T : <<A, B>> \notin StrictSubsetOrdering(S)
  BY <1>1, <1>2, WFMin
<1>4. PICK m \in S : \A A \in T : <<A, below(m)>> \notin StrictSubsetOrdering(S)
  BY <1>3 DEF T
<1>5. ASSUME NEW u \in S, <<u, m>> \in R PROVE FALSE
  <2>1. below(u) \subseteq below(m) /\ u \in below(m) /\ u \notin below(u)
    BY <1>5
  <2>2. below(u) \in T
    BY DEF T
  <2> QED
    BY <1>4, <2>1, <2>2 DEF StrictSubsetOrdering
<1> QED
  BY <1>5

-----------------------------------------------------------------------------
(* The rows a write adds are well typed *)

\* The number of a successor row is the number of some predecessor row plus one.
LEMMA NextNumber ==
    ASSUME NEW prev, NEW d, NEW e, NEW content, NEW t
    PROVE  LET v == NewVersion(prev, d, e, content, t)
           IN  /\ v.doc = d /\ v.event = e /\ v.content = content /\ v.observed = t
               /\ prev = {} => v.num = 1
               /\ prev # {} => \E p \in prev : v.num = p.num + 1
BY DEF NewVersion

LEMMA NewVersionType ==
    ASSUME NEW prev \in SUBSET Version, NEW d \in Docs, NEW e \in Events,
           NEW content \in Contents \cup {None}, NEW t \in Int
    PROVE  NewVersion(prev, d, e, content, t) \in Version
<1>1. CASE prev = {}
  BY <1>1 DEF NewVersion, Version
<1>2. CASE prev # {}
  <2>1. (CHOOSE p \in prev : TRUE) \in Version
    BY <1>2
  <2>2. (CHOOSE p \in prev : TRUE).num + 1 \in Nat \ {0}
    BY <2>1 DEF Version
  <2> QED
    BY <1>2, <2>2 DEF NewVersion, Version
<1> QED
  BY <1>1, <1>2

LEMMA ClaimIdType ==
    ASSUME NEW c \in Claim
    PROVE  ClaimId(c) \in ClaimRef
BY DEF Claim, ClaimId, ClaimRef

LEMMA LiveElsewhereType ==
    ASSUME NEW V, NEW C \in SUBSET Claim, NEW d
    PROVE  LiveElsewhere(V, C, d) \subseteq C
BY DEF LiveElsewhere, Live

\* The edges a write to d may have into other documents: from one of its own
\* keys to a claim that is live there.
CrossEdges(V, C, d, K) ==
    {Edge(k, c, b) : k \in K, c \in LiveElsewhere(V, C, d), b \in CrossBases}

LEMMA CrossTargetsEdges ==
    ASSUME NEW V, NEW C, NEW d, NEW K, NEW rq \in Request,
           NEW cross \in CrossTargets(V, C, d, K, rq)
    PROVE  cross \in SUBSET CrossEdges(V, C, d, K)
<1> DEFINE E == CrossEdges(V, C, d, K)
<1>1. \A k \in K, c \in LiveElsewhere(V, C, d), b \in CrossBases : Edge(k, c, b) \in E
  BY DEF CrossEdges
<1> HIDE DEF E
<1>2. ASSUME NEW X \in ExplicitTargets(V, C, d, K, rq.claim)
      PROVE  X \in SUBSET E
  <2> DEFINE named == {c \in LiveElsewhere(V, C, d) : ClaimId(c) = rq.claim}
  <2>1. CASE \E c \in {x \in named : x.key \in K} : X = {Edge(c.key, c, "explicit_claim_id")}
    BY <1>1, <2>1
  <2>2. CASE \E k \in K, c \in named : X = {Edge(k, c, "explicit_claim_id")}
    BY <1>1, <2>2
  <2> QED
    BY <1>2, <2>1, <2>2 DEF ExplicitTargets
<1>3. ASSUME rq.topic \in K, NEW X \in TopicTargets(V, C, d, rq.topic)
      PROVE  X \in SUBSET E
  BY <1>1, <1>3 DEF TopicTargets
<1>4. ASSUME NEW X \in DeclaredTargets(V, C, d, K, rq.refs)
      PROVE  X \in SUBSET E
  <2> DEFINE T == UNION {RefTargets(V, C, d, r) : r \in rq.refs}
  <2>1. T \subseteq LiveElsewhere(V, C, d)
    BY DEF RefTargets
  <2>2. X \in SUBSET {Edge(k, c, "explicit_claim_id") : k \in K, c \in T}
    BY <1>4 DEF DeclaredTargets, Pairings
  <2> QED
    BY <1>1, <2>1, <2>2
<1>5. rq.claim # None \/ rq.topic = None \/ rq.topic \in K
  BY DEF CrossTargets
<1> QED
  BY <1>2, <1>3, <1>4, <1>5 DEF CrossTargets, E

LEMMA CrossEdgesType ==
    ASSUME NEW V, NEW C \in SUBSET Claim, NEW d, NEW K
    PROVE  CrossEdges(V, C, d, K) \subseteq [key : K, target : ClaimRef, basis : CrossBases]
BY LiveElsewhereType, ClaimIdType DEF CrossEdges, Edge

LEMMA SameDocumentEdgesType ==
    ASSUME NEW C \in SUBSET Claim, NEW prev, NEW K \in SUBSET Keys
    PROVE  SameDocumentEdges(C, prev, K) \in
             SUBSET [key : K, target : ClaimRef,
                     basis : {"same_document_key", "single_claim_replacement"}]
<1> DEFINE old == UNION {ClaimsOf(C, p) : p \in prev}
<1>1. \A c \in old : c \in Claim /\ ClaimId(c) \in ClaimRef
  BY ClaimIdType DEF ClaimsOf
<1> QED
  BY <1>1 DEF SameDocumentEdges, Edge

LEMMA NewClaimsType ==
    ASSUME NEW C \in SUBSET Claim, NEW prev, NEW v \in Version, v.content \in Contents,
           NEW cross \in SUBSET [key : Authored(v.content), target : ClaimRef, basis : CrossBases]
    PROVE  /\ NewClaims(C, prev, v, cross) \in SUBSET Claim
           /\ \A c \in NewClaims(C, prev, v, cross) :
                /\ c.doc = v.doc /\ c.num = v.num
                /\ c.basis \in CrossBases => \E e \in cross : e.target = c.target
<1> DEFINE K   == Authored(v.content)
           own == {e \in SameDocumentEdges(C, prev, K) : \A f \in cross : f.key # e.key}
           row(k, t, b) == [doc |-> v.doc, num |-> v.num, key |-> k,
                            value |-> Asserts[v.content][k], target |-> t, basis |-> b]
<1>1. K \in SUBSET Keys /\ \A k \in K : Asserts[v.content][k] \in Values
  BY TablesAssumption DEF Authored
<1>2. \A k \in K, t \in ClaimRef \cup {None}, b \in Bases \cup {None} :
         /\ row(k, t, b) \in Claim
         /\ row(k, t, b).doc = v.doc /\ row(k, t, b).num = v.num
  BY <1>1 DEF Claim, Version
<1>3. \A e \in cross \cup own :
         e.key \in K /\ e.target \in ClaimRef \cup {None} /\ e.basis \in Bases \cup {None}
  <2> HIDE DEF K
  <2> QED
    BY <1>1, SameDocumentEdgesType DEF K
<1>4. NewClaims(C, prev, v, cross) =
         {row(e.key, e.target, e.basis) : e \in cross \cup own}
         \cup {row(k, None, None) : k \in K \ {e.key : e \in cross \cup own}}
  BY DEF NewClaims
<1> HIDE DEF row, own, K
<1>5. \A k, t, b : row(k, t, b).target = t /\ row(k, t, b).basis = b
  BY DEF row
<1>6. \A e \in own : e.basis \notin CrossBases
  BY <1>1, SameDocumentEdgesType DEF own
<1>7. \A e \in cross \cup own :
         LET r == row(e.key, e.target, e.basis)
         IN  /\ r \in Claim /\ r.doc = v.doc /\ r.num = v.num
             /\ r.basis \in CrossBases => e \in cross /\ r.target = e.target
  BY <1>2, <1>3, <1>5, <1>6
<1>8. \A k \in K : LET r == row(k, None, None)
                   IN  /\ r \in Claim /\ r.doc = v.doc /\ r.num = v.num
                       /\ r.basis \notin CrossBases
  BY <1>2, <1>5, TablesAssumption
<1> QED
  BY <1>4, <1>7, <1>8

\* What a write is: a successor of the document's latest version, the claims of
\* that version, and the database's consent to each row.
Shaped(V, C, d, content, t, w) ==
    LET prev == Predecessor(V, d)
    IN  /\ w.version = NewVersion(prev, d, NewEvent(prev), content, t)
        /\ w.version \in Version
        /\ w.claims \in SUBSET Claim
        /\ AdmitsVersion(prev, w.version)
        /\ \A c \in w.claims :
             /\ c.doc = w.version.doc /\ c.num = w.version.num
             /\ AdmitsClaim(V \cup {w.version}, C \cup w.claims, prev, w.version, c)
             /\ c.basis \in CrossBases =>
                  \E o \in LiveElsewhere(V, C, d) : ClaimId(o) = c.target

LEMMA WriteShape ==
    ASSUME NEW V \in SUBSET Version, NEW C \in SUBSET Claim, NEW d \in Docs,
           NEW content \in Contents, NEW rq \in Request, NEW t \in Int,
           NEW w \in Writes(V, C, d, content, rq, t)
    PROVE  Shaped(V, C, d, content, t, w)
<1> DEFINE prev == Predecessor(V, d)
           v == NewVersion(prev, d, NewEvent(prev), content, t)
<1>1. PICK cross \in CrossTargets(V, C, d, Authored(content), rq) :
         LET R == NewClaims(C, prev, v, cross)
         IN  /\ w = [version |-> v, claims |-> R]
             /\ AdmitsVersion(prev, v)
             /\ \A c \in R : AdmitsClaim(V \cup {v}, C \cup R, prev, v, c)
  BY DEF Writes
<1>2. prev \in SUBSET Version /\ NewEvent(prev) \in Events
  BY DEF Predecessor, NewEvent
<1>3. v \in Version /\ v.content = content
  <2>1. v \in Version
    BY <1>2, NewVersionType
  <2>2. v.content = content
    BY DEF NewVersion
  <2> QED
    BY <2>1, <2>2
<1>4. Authored(content) \in SUBSET Keys
  BY TablesAssumption DEF Authored
<1>5. cross \in SUBSET CrossEdges(V, C, d, Authored(content))
  BY <1>1, CrossTargetsEdges
<1>6. cross \in SUBSET [key : Authored(v.content), target : ClaimRef, basis : CrossBases]
  BY <1>3, <1>5, CrossEdgesType
<1>7. \A e \in cross : \E o \in LiveElsewhere(V, C, d) : ClaimId(o) = e.target
  BY <1>5 DEF CrossEdges, Edge
<1>8. /\ NewClaims(C, prev, v, cross) \in SUBSET Claim
      /\ \A c \in NewClaims(C, prev, v, cross) :
           /\ c.doc = v.doc /\ c.num = v.num
           /\ c.basis \in CrossBases => \E e \in cross : e.target = c.target
  BY <1>3, <1>4, <1>6, NewClaimsType
<1>9. /\ w.version = v /\ w.version \in Version
      /\ w.claims \in SUBSET Claim
      /\ AdmitsVersion(prev, w.version)
  BY <1>1, <1>3, <1>8
<1>10. ASSUME NEW c \in w.claims
       PROVE  /\ c.doc = w.version.doc /\ c.num = w.version.num
              /\ AdmitsClaim(V \cup {w.version}, C \cup w.claims, prev, w.version, c)
              /\ c.basis \in CrossBases =>
                   \E o \in LiveElsewhere(V, C, d) : ClaimId(o) = c.target
  <2> HIDE DEF prev, v
  <2>1. c \in NewClaims(C, prev, v, cross)
    BY <1>1
  <2>2. AdmitsClaim(V \cup {w.version}, C \cup w.claims, prev, w.version, c)
    BY <1>1, <2>1
  <2>3. c.basis \in CrossBases => \E o \in LiveElsewhere(V, C, d) : ClaimId(o) = c.target
    BY <1>7, <1>8, <2>1
  <2> QED
    BY <1>8, <1>9, <2>1, <2>2, <2>3
<1> QED
  BY <1>9, <1>10 DEF Shaped

LEMMA TombstoneShape ==
    ASSUME NEW V \in SUBSET Version, NEW d \in Docs, NEW t \in Int, NEW v \in Tombstones(V, d, t)
    PROVE  LET prev == Predecessor(V, d)
           IN  /\ v = NewVersion(prev, d, "DELETED", None, t)
               /\ v \in Version
               /\ prev # {} /\ \A p \in prev : p.event # "DELETED"
               /\ AdmitsVersion(prev, v)
<1>1. Predecessor(V, d) \in SUBSET Version
  BY DEF Predecessor
<1> QED
  BY <1>1, NewVersionType DEF Tombstones

-----------------------------------------------------------------------------
(* A write leaves the tables sound *)

\* What SupersessionPointsBack says of any pair of tables.
EdgesPointBack(V, C) ==
    \A c \in C : c.target # None =>
        \E o \in C, u, v \in V :
            /\ ClaimId(o) = c.target
            /\ VersionId(u) = [doc |-> o.doc, num |-> o.num]
            /\ VersionId(v) = [doc |-> c.doc, num |-> c.num]
            /\ u.observed < v.observed

\* What ChainsAreLinear says of any set of versions.
Linear(V) ==
    \A v \in V :
        /\ \A u \in V : VersionId(u) = VersionId(v) => u = v
        /\ v.num = 1 <=> v.event = "NEW"
        /\ v.num > 1 => \E u \in V :
             /\ u.doc = v.doc /\ u.num = v.num - 1
             /\ u.observed < v.observed
             /\ (u.event = "DELETED") <=> (v.event = "RESTORED")

\* A document with versions has a latest one.  Without it a writer that finds no
\* latest row would start a second chain.
HasLatest(V) == \A v \in V : \E u \in V : u.doc = v.doc /\ IsLatest(V, u)

Sound(V, C) == EdgesPointBack(V, C) /\ Linear(V) /\ HasLatest(V)

\* A version that extends its document's latest one in the way the trigger admits
\* keeps every chain linear.
LEMMA SuccessorKeepsLinear ==
    ASSUME NEW V \in SUBSET Version, NEW d \in Docs, NEW e \in Events, NEW content,
           NEW t \in Int, Linear(V), HasLatest(V),
           LET prev == Predecessor(V, d)
           IN  /\ AdmitsVersion(prev, NewVersion(prev, d, e, content, t))
               /\ (prev = {}) <=> (e = "NEW")
               /\ \A p \in prev : (p.event = "DELETED") <=> (e = "RESTORED")
    PROVE  LET v == NewVersion(Predecessor(V, d), d, e, content, t)
           IN  Linear(V \cup {v}) /\ HasLatest(V \cup {v})
<1> DEFINE prev == Predecessor(V, d)
           v == NewVersion(prev, d, e, content, t)
<1>1. v.doc = d /\ v.event = e /\ v.observed = t
  BY NextNumber
<1>2. \A u \in V : u.num \in Nat \ {0}
  BY DEF Version
<1>3. CASE prev = {}
  <2>1. \A u \in V : u.doc # d
    BY <1>3 DEF HasLatest, Predecessor
  <2>2. v.num = 1 /\ e = "NEW"
    BY <1>3, NextNumber
  <2> HIDE DEF v, prev
  <2>3. Linear(V \cup {v})
    <3>1. \A u \in V : VersionId(u) # VersionId(v)
      BY <1>1, <2>1 DEF VersionId
    <3>2. ~(v.num > 1) /\ v.event = "NEW"
      BY <1>1, <2>2
    <3> QED
      BY <2>2, <3>1, <3>2 DEF Linear
  <2>4. HasLatest(V \cup {v})
    BY <1>1, <1>2, <2>1, <2>2 DEF HasLatest, IsLatest
  <2> QED
    BY <2>3, <2>4 DEF v, prev
<1>4. CASE prev # {}
  <2>1. PICK p \in prev : v.num = p.num + 1
    BY <1>4, NextNumber
  <2>2. /\ p \in V /\ p.doc = d
        /\ \A u \in V : u.doc = d => u.num <= p.num
    BY <2>1 DEF Predecessor, IsLatest
  <2>3. p.observed < t /\ e # "NEW" /\ ((p.event = "DELETED") <=> (e = "RESTORED"))
    BY <1>1, <1>4, <2>1 DEF AdmitsVersion
  <2> HIDE DEF v, prev
  <2>4. Linear(V \cup {v})
    <3> SUFFICES ASSUME NEW x \in V \cup {v}
                 PROVE  /\ \A u \in V \cup {v} : VersionId(u) = VersionId(x) => u = x
                        /\ x.num = 1 <=> x.event = "NEW"
                        /\ x.num > 1 => \E u \in V \cup {v} :
                             /\ u.doc = x.doc /\ u.num = x.num - 1
                             /\ u.observed < x.observed
                             /\ (u.event = "DELETED") <=> (x.event = "RESTORED")
      BY DEF Linear
    <3>1. \A u \in V : VersionId(u) # VersionId(v)
      BY <1>1, <1>2, <2>1, <2>2 DEF VersionId
    <3>2. CASE x \in V
      BY <3>1, <3>2 DEF Linear
    <3>3. CASE x = v
      BY <1>1, <1>2, <2>1, <2>2, <2>3, <3>1, <3>3
    <3> QED
      BY <3>2, <3>3
  <2>5. HasLatest(V \cup {v})
    <3>1. IsLatest(V \cup {v}, v)
      BY <1>1, <1>2, <2>1, <2>2 DEF IsLatest
    <3>2. \A u \in V : u.doc # d /\ IsLatest(V, u) => IsLatest(V \cup {v}, u)
      BY <1>1 DEF IsLatest
    <3> QED
      BY <1>1, <3>1, <3>2 DEF HasLatest
  <2> QED
    BY <2>4, <2>5 DEF v, prev
<1> QED
  BY <1>3, <1>4

\* A write leaves edges that point back: the trigger saw the target, and saw that
\* it was observed before the version that replaces it.
LEMMA WriteKeepsEdges ==
    ASSUME NEW V \in SUBSET Version, NEW C \in SUBSET Claim, EdgesPointBack(V, C),
           NEW d \in Docs, NEW v, NEW R,
           AdmitsVersion(Predecessor(V, d), v),
           \A c \in R : /\ c.doc = v.doc /\ c.num = v.num
                        /\ AdmitsClaim(V \cup {v}, C \cup R, Predecessor(V, d), v, c)
    PROVE  EdgesPointBack(V \cup {v}, C \cup R)
<1> SUFFICES ASSUME NEW c \in C \cup R, c.target # None
             PROVE  \E o \in C \cup R, u, x \in V \cup {v} :
                      /\ ClaimId(o) = c.target
                      /\ VersionId(u) = [doc |-> o.doc, num |-> o.num]
                      /\ VersionId(x) = [doc |-> c.doc, num |-> c.num]
                      /\ u.observed < x.observed
  BY DEF EdgesPointBack
<1>1. CASE c \in C
  BY <1>1 DEF EdgesPointBack
<1>2. CASE c \in R
  <2>1. VersionId(v) = [doc |-> c.doc, num |-> c.num]
    BY <1>2 DEF VersionId
  <2>2. \E u \in V \cup {v} : \E o \in ClaimsOf(C \cup R, u) :
          ClaimId(o) = c.target /\ u.observed < v.observed
    <3>1. Predecessor(V, d) \subseteq V
      BY DEF Predecessor
    <3> QED
      BY <1>2, <3>1 DEF AdmitsClaim, AdmitsVersion, ClaimsOf
  <2>3. PICK u \in V \cup {v} : \E o \in ClaimsOf(C \cup R, u) :
          ClaimId(o) = c.target /\ u.observed < v.observed
    BY <2>2
  <2>4. PICK o \in C \cup R : /\ o.doc = u.doc /\ o.num = u.num
                              /\ ClaimId(o) = c.target /\ u.observed < v.observed
    BY <2>3 DEF ClaimsOf
  <2>5. VersionId(u) = [doc |-> o.doc, num |-> o.num]
    BY <2>4 DEF VersionId
  <2> QED
    BY <2>1, <2>4, <2>5
<1> QED
  BY <1>1, <1>2

LEMMA WriteKeepsSound ==
    ASSUME NEW V \in SUBSET Version, NEW C \in SUBSET Claim, Sound(V, C), NEW d \in Docs,
           NEW content \in Contents, NEW rq \in Request, NEW t \in Int,
           NEW w \in Writes(V, C, d, content, rq, t)
    PROVE  Sound(V \cup {w.version}, C \cup w.claims)
<1> DEFINE prev == Predecessor(V, d)
<1>1. /\ w.version = NewVersion(prev, d, NewEvent(prev), content, t)
      /\ AdmitsVersion(prev, w.version)
      /\ \A c \in w.claims :
           /\ c.doc = w.version.doc /\ c.num = w.version.num
           /\ AdmitsClaim(V \cup {w.version}, C \cup w.claims, prev, w.version, c)
  <2>1. Shaped(V, C, d, content, t, w)
    BY WriteShape
  <2> QED
    BY <2>1 DEF Shaped
<1>2. /\ NewEvent(prev) \in Events
      /\ (prev = {}) <=> (NewEvent(prev) = "NEW")
      /\ \A p \in prev : (p.event = "DELETED") <=> (NewEvent(prev) = "RESTORED")
  <2>1. ASSUME NEW p \in prev, NEW q \in prev PROVE p = q
    <3>1. p \in V /\ q \in V /\ p.doc = d /\ q.doc = d /\ p.num <= q.num /\ q.num <= p.num
      BY DEF Predecessor, IsLatest
    <3>2. VersionId(p) = VersionId(q)
      BY <3>1 DEF VersionId, Version
    <3> QED
      BY <3>1, <3>2 DEF Sound, Linear
  <2> QED
    BY <2>1 DEF NewEvent
<1>3. Linear(V \cup {w.version}) /\ HasLatest(V \cup {w.version})
  BY <1>1, <1>2, SuccessorKeepsLinear DEF Sound
<1>4. EdgesPointBack(V \cup {w.version}, C \cup w.claims)
  BY <1>1, WriteKeepsEdges DEF Sound
<1> QED
  BY <1>3, <1>4 DEF Sound

LEMMA TombstoneKeepsSound ==
    ASSUME NEW V \in SUBSET Version, NEW C \in SUBSET Claim, Sound(V, C), NEW d \in Docs,
           NEW t \in Int, NEW v \in Tombstones(V, d, t)
    PROVE  Sound(V \cup {v}, C)
<1> DEFINE prev == Predecessor(V, d)
<1>1. /\ v = NewVersion(prev, d, "DELETED", None, t)
      /\ prev # {} /\ \A p \in prev : p.event # "DELETED"
      /\ AdmitsVersion(prev, v)
  BY TombstoneShape
<1>2. Linear(V \cup {v}) /\ HasLatest(V \cup {v})
  BY <1>1, SuccessorKeepsLinear DEF Sound
<1>3. EdgesPointBack(V \cup {v}, C)
  BY DEF Sound, EdgesPointBack
<1> QED
  BY <1>2, <1>3 DEF Sound

LEMMA EmptySound == Sound({}, {})
BY DEF Sound, EdgesPointBack, Linear, HasLatest

-----------------------------------------------------------------------------
(* What the tables of one corpus always are, whatever its history *)

\* Every claim row belongs to a version row.
Owned(V, C) == \A c \in C : \E v \in V : v.doc = c.doc /\ v.num = c.num

\* What is numbered after everything its document has.
LEMMA WriteIsLatest ==
    ASSUME NEW V \in SUBSET Version, NEW d \in Docs, NEW e, NEW content, NEW t,
           HasLatest(V)
    PROVE  LET v == NewVersion(Predecessor(V, d), d, e, content, t)
           IN  \A u \in V : u.doc = d => u.num < v.num
<1> DEFINE prev == Predecessor(V, d)
           v == NewVersion(prev, d, e, content, t)
<1>1. CASE prev = {}
  BY <1>1 DEF HasLatest, Predecessor
<1>2. CASE prev # {}
  <2>1. PICK p \in prev : v.num = p.num + 1
    BY <1>2, NextNumber
  <2>2. \A u \in V : u.doc = d => u.num <= p.num /\ u.num \in Nat
    BY <2>1 DEF Predecessor, IsLatest, Version
  <2>3. p.num \in Nat
    BY <2>1 DEF Predecessor, Version
  <2> QED
    BY <2>1, <2>2, <2>3
<1> QED
  BY <1>1, <1>2

\* Later versions of a document carry later stamps.
Ordered(V) == \A u, v \in V : u.doc = v.doc /\ u.num < v.num => u.observed < v.observed

\* A document's versions are numbered without gaps.
Contiguous(V) == \A v \in V : \A n \in 1..v.num : \E u \in V : u.doc = v.doc /\ u.num = n

WellKept(V, C) ==
    /\ V \in SUBSET Version /\ IsFiniteSet(V)
    /\ C \in SUBSET Claim
    /\ Sound(V, C)
    /\ Owned(V, C)
    /\ Ordered(V)
    /\ Contiguous(V)

\* A version numbered and stamped after everything its document has keeps the
\* stamps in the order of the numbers.
LEMMA SuccessorKeepsOrdered ==
    ASSUME NEW V \in SUBSET Version, Ordered(V), HasLatest(V), NEW d \in Docs, NEW e, NEW content,
           NEW t \in Int,
           AdmitsVersion(Predecessor(V, d), NewVersion(Predecessor(V, d), d, e, content, t))
    PROVE  Ordered(V \cup {NewVersion(Predecessor(V, d), d, e, content, t)})
<1> DEFINE prev == Predecessor(V, d)
           v == NewVersion(prev, d, e, content, t)
<1>1. v.doc = d /\ v.observed = t
  BY NextNumber
<1>2. \A u \in V : u.doc = d => u.num < v.num
  BY WriteIsLatest
<1>3. \A u \in V : u.num \in Nat /\ u.observed \in Int
  BY DEF Version
<1>4. v.num \in Nat
  <2>1. CASE prev = {}
    BY <2>1, NextNumber
  <2>2. CASE prev # {}
    <3>1. PICK p \in prev : v.num = p.num + 1
      BY <2>2, NextNumber
    <3>2. p.num \in Nat
      BY <1>3, <3>1 DEF Predecessor
    <3> QED
      BY <3>1, <3>2
  <2> QED
    BY <2>1, <2>2
<1>5. \A u \in V : u.doc = d => u.observed < t
  <2> SUFFICES ASSUME NEW u \in V, u.doc = d PROVE u.observed < t
    OBVIOUS
  <2>1. PICK p \in V : p.doc = d /\ IsLatest(V, p)
    BY DEF HasLatest
  <2>2. p \in prev /\ u.num <= p.num
    BY <2>1 DEF Predecessor, IsLatest
  <2>3. p.observed < t
    BY <1>1, <2>2 DEF AdmitsVersion
  <2>4. u.num = p.num => u.observed <= p.observed \/ u.observed > p.observed
    BY <1>3
  <2>5. CASE u.num < p.num
    <3>1. u.observed < p.observed
      BY <2>1, <2>5 DEF Ordered
    <3> QED
      BY <1>3, <2>3, <3>1
  <2>6. CASE u.num = p.num
    <3>1. u \in prev
      BY <2>1, <2>6 DEF Predecessor, IsLatest
    <3> QED
      BY <1>1, <3>1 DEF AdmitsVersion
  <2> QED
    BY <1>3, <2>2, <2>5, <2>6
<1> HIDE DEF v, prev
<1>6. Ordered(V \cup {v})
  <2> SUFFICES ASSUME NEW x \in V \cup {v}, NEW y \in V \cup {v}, x.doc = y.doc, x.num < y.num
               PROVE  x.observed < y.observed
    BY DEF Ordered
  <2>1. CASE x \in V /\ y \in V
    BY <2>1 DEF Ordered
  <2>2. CASE x \in V /\ y = v
    BY <1>1, <1>5, <2>2
  <2>3. CASE x = v
    BY <1>1, <1>2, <1>3, <1>4, <2>3
  <2> QED
    BY <2>1, <2>2, <2>3
<1> QED
  BY <1>6 DEF v, prev

LEMMA SuccessorKeepsContiguous ==
    ASSUME NEW V \in SUBSET Version, Contiguous(V), NEW d \in Docs, NEW e, NEW content, NEW t
    PROVE  Contiguous(V \cup {NewVersion(Predecessor(V, d), d, e, content, t)})
<1> DEFINE prev == Predecessor(V, d)
           v == NewVersion(prev, d, e, content, t)
<1>1. v.doc = d
  BY NextNumber
<1>2. \A n \in 1..v.num : \E u \in V \cup {v} : u.doc = d /\ u.num = n
  <2>1. CASE prev = {}
    <3>1. v.num = 1
      BY <2>1, NextNumber
    <3> HIDE DEF v
    <3> QED
      BY <1>1, <3>1
  <2>2. CASE prev # {}
    <3>1. PICK p \in prev : v.num = p.num + 1
      BY <2>2, NextNumber
    <3>2. p \in V /\ p.doc = d /\ p.num \in Nat
      BY <3>1 DEF Predecessor, Version
    <3>3. \A n \in 1..p.num : \E u \in V : u.doc = d /\ u.num = n
      BY <3>2 DEF Contiguous
    <3> HIDE DEF v
    <3>4. \A n \in 1..v.num : n \in 1..p.num \/ n = v.num
      BY <3>1, <3>2
    <3> QED
      BY <1>1, <3>3, <3>4
  <2> QED
    BY <2>1, <2>2
<1> HIDE DEF v, prev
<1>3. Contiguous(V \cup {v})
  <2> SUFFICES ASSUME NEW x \in V \cup {v}, NEW n \in 1..x.num
               PROVE  \E u \in V \cup {v} : u.doc = x.doc /\ u.num = n
    BY DEF Contiguous
  <2>1. CASE x \in V
    BY <2>1 DEF Contiguous
  <2>2. CASE x = v
    BY <1>1, <1>2, <2>2
  <2> QED
    BY <2>1, <2>2
<1> QED
  BY <1>3 DEF v, prev

LEMMA WriteKeepsWellKept ==
    ASSUME NEW V, NEW C, WellKept(V, C), NEW d \in Docs,
           NEW content \in Contents, NEW rq \in Request, NEW t \in Int,
           NEW w \in Writes(V, C, d, content, rq, t)
    PROVE  WellKept(V \cup {w.version}, C \cup w.claims)
<1>1. V \in SUBSET Version /\ C \in SUBSET Claim /\ Sound(V, C)
  BY DEF WellKept
<1>2. Shaped(V, C, d, content, t, w)
  BY <1>1, WriteShape
<1>3. Sound(V \cup {w.version}, C \cup w.claims)
  BY <1>1, WriteKeepsSound
<1>4. /\ w.version = NewVersion(Predecessor(V, d), d, NewEvent(Predecessor(V, d)), content, t)
      /\ w.version \in Version /\ w.claims \in SUBSET Claim
      /\ AdmitsVersion(Predecessor(V, d), w.version)
      /\ \A c \in w.claims : c.doc = w.version.doc /\ c.num = w.version.num
  BY <1>2 DEF Shaped
<1>5. Ordered(V \cup {w.version})
  BY <1>1, <1>4, SuccessorKeepsOrdered DEF WellKept, Sound
<1>6. Owned(V \cup {w.version}, C \cup w.claims)
  BY <1>4 DEF WellKept, Owned
<1>7. IsFiniteSet(V \cup {w.version})
  BY FS_AddElement DEF WellKept
<1>8. Contiguous(V \cup {w.version})
  BY <1>1, <1>4, SuccessorKeepsContiguous DEF WellKept
<1> QED
  BY <1>1, <1>3, <1>4, <1>5, <1>6, <1>7, <1>8 DEF WellKept

LEMMA TombstoneKeepsWellKept ==
    ASSUME NEW V, NEW C, WellKept(V, C), NEW d \in Docs, NEW t \in Int,
           NEW v \in Tombstones(V, d, t)
    PROVE  WellKept(V \cup {v}, C)
<1>1. V \in SUBSET Version /\ C \in SUBSET Claim /\ Sound(V, C)
  BY DEF WellKept
<1>2. /\ v = NewVersion(Predecessor(V, d), d, "DELETED", None, t)
      /\ v \in Version
      /\ AdmitsVersion(Predecessor(V, d), v)
  BY <1>1, TombstoneShape
<1>3. Sound(V \cup {v}, C)
  BY <1>1, TombstoneKeepsSound
<1>4. Ordered(V \cup {v})
  BY <1>1, <1>2, SuccessorKeepsOrdered DEF WellKept, Sound
<1>5. Owned(V \cup {v}, C)
  BY DEF WellKept, Owned
<1>6. IsFiniteSet(V \cup {v})
  BY FS_AddElement DEF WellKept
<1>7. Contiguous(V \cup {v})
  BY <1>1, <1>2, SuccessorKeepsContiguous DEF WellKept
<1> QED
  BY <1>1, <1>2, <1>3, <1>4, <1>5, <1>6, <1>7 DEF WellKept

LEMMA EmptyWellKept == WellKept({}, {})
BY EmptySound, FS_EmptySet DEF WellKept, Owned, Ordered, Contiguous

\* No two versions share a document and a number.
LEMMA VersionsAreUnique ==
    ASSUME NEW V, NEW C, WellKept(V, C), NEW u \in V, NEW v \in V,
           u.doc = v.doc, u.num = v.num
    PROVE  u = v
BY DEF WellKept, Sound, Linear, VersionId


=============================================================================
