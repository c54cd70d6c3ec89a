--------------------------- MODULE MemoryArchive ---------------------------
(***************************************************************************)
(* One corpus's archive under concurrent database sessions.                *)
(*                                                                         *)
(* A session opens a transaction, queues for the corpus's advisory lock,   *)
(* does one unit of work on what it can see (the committed tables and its  *)
(* own rows), and commits or rolls back.  Rows it inserts are stamped with *)
(* the database clock when they are inserted, not when they commit, and    *)
(* nobody else sees them before the commit.  Readers take no lock.         *)
(*                                                                         *)
(* The units of work are those of api/services/memory.py -- record_version,*)
(* record_deletion (several in one transaction when a sync removes stale   *)
(* paths), snapshot -- and the erasure function of migration 010.          *)
(***************************************************************************)
EXTENDS ArchiveTables

CONSTANTS
    Sessions,      \* database sessions that write or take snapshots
    Requests,      \* the supersession requests a write may carry
    Cutoffs,       \* the as_of a snapshot may be asked for; None is "now"
    ClockSteps,    \* by how much the clock may move between two readings
    MaxClock,      \* bound: no clock reading above this
    MaxVersions    \* bound: versions in the archive

ASSUME ArchiveAssumption ==
    /\ Requests \subseteq Request
    /\ Cutoffs \subseteq Nat \cup {None}
    /\ ClockSteps \subseteq Int
    /\ MaxClock \in Nat /\ MaxVersions \in Nat
    /\ None \notin Sessions

VARIABLES
    registered,    \* does the corpora row exist?
    versions,      \* committed memory_versions
    claims,        \* committed memory_claims, with their supersession edges
    snapshots,     \* committed memory_snapshots with their sealed members
    holder,        \* the session that holds the corpus's advisory lock, or None
    phase,         \* where each session is in its transaction
    staged,        \* the rows each open transaction has inserted
    clock          \* the last reading of the database clock

tables == <<registered, versions, claims, snapshots>>
vars   == <<registered, versions, claims, snapshots, holder, phase, staged, clock>>

Phases == {"idle", "waiting", "open", "written", "deleting", "snapshotted", "erasing"}
Working == Phases \ {"idle", "waiting"}

Snapshot == [asof : Int, observed : Int, members : SUBSET VersionRef]

Nothing == [versions |-> {}, claims |-> {}, snapshots |-> {}]

TypeOK ==
    /\ registered \in BOOLEAN
    /\ versions \in SUBSET Version
    /\ claims \in SUBSET Claim
    /\ snapshots \in SUBSET Snapshot
    /\ holder \in Sessions \cup {None}
    /\ phase \in [Sessions -> Phases]
    /\ staged \in [Sessions -> [versions : SUBSET Version, claims : SUBSET Claim,
                                snapshots : SUBSET Snapshot]]
    /\ clock \in Int

Init ==
    /\ registered = TRUE
    /\ versions = {}
    /\ claims = {}
    /\ snapshots = {}
    /\ holder = None
    /\ phase = [s \in Sessions |-> "idle"]
    /\ staged = [s \in Sessions |-> Nothing]
    /\ clock = 0

\* READ COMMITTED: a statement sees what is committed and its own rows.
VisibleVersions(s)  == versions \cup staged[s].versions
VisibleClaims(s)    == claims \cup staged[s].claims

\* clock_timestamp(): the next reading.
Reading(t) == \E d \in ClockSteps : t = clock + d /\ t >= 0 /\ t <= MaxClock

Stage(s, v, c, n) ==
    staged' = [staged EXCEPT ![s].versions = @ \cup v, ![s].claims = @ \cup c,
                             ![s].snapshots = @ \cup n]

-----------------------------------------------------------------------------
(* Transactions *)

\* The first statement of lock_corpus: queue for the transaction-scoped lock.
QueueForLock(s) ==
    /\ phase[s] = "idle"
    /\ phase' = [phase EXCEPT ![s] = "waiting"]
    /\ UNCHANGED <<tables, holder, staged, clock>>

\* Faulty: the lock does not exclude.
AcquireLockShared(s) ==
    /\ phase[s] = "waiting"
    /\ holder' = s
    /\ phase' = [phase EXCEPT ![s] = "open"]
    /\ UNCHANGED <<tables, staged, clock>>

\* The lock is granted.  An unknown corpus raises: no work is enabled then and
\* the session can only end its transaction.
AcquireLock(s) ==
    /\ phase[s] = "waiting"
    /\ holder = None
    /\ holder' = s
    /\ phase' = [phase EXCEPT ![s] = "open"]
    /\ UNCHANGED <<tables, staged, clock>>

\* The caller gives up while it is still queued.
Abandon(s) ==
    /\ phase[s] = "waiting"
    /\ phase' = [phase EXCEPT ![s] = "idle"]
    /\ UNCHANGED <<tables, holder, staged, clock>>

\* Faulty: a session-level lock outlives its transaction.
EndKeepsLock(s) ==
    /\ phase' = [phase EXCEPT ![s] = "idle"]
    /\ staged' = [staged EXCEPT ![s] = Nothing]
    /\ UNCHANGED holder

End(s) ==
    /\ phase' = [phase EXCEPT ![s] = "idle"]
    /\ staged' = [staged EXCEPT ![s] = Nothing]
    /\ holder' = IF holder = s THEN None ELSE holder

\* Everything staged becomes visible at once, and the lock is released.
Commit(s) ==
    /\ phase[s] \in Working
    /\ IF phase[s] = "erasing"
       THEN /\ registered' = FALSE
            /\ versions' = {} /\ claims' = {} /\ snapshots' = {}
       ELSE /\ versions' = VisibleVersions(s)
            /\ claims' = VisibleClaims(s)
            /\ snapshots' = snapshots \cup staged[s].snapshots
            /\ UNCHANGED registered
    /\ End(s)
    /\ UNCHANGED clock

\* A refusal, a constraint, a validation error or a lost connection.
Rollback(s) ==
    /\ phase[s] \in Working
    /\ End(s)
    /\ UNCHANGED <<tables, clock>>

-----------------------------------------------------------------------------
(* Work under the lock *)

\* record_version, when the latest version is live and has this fingerprint.
RecordUnchanged(s, d, content) ==
    /\ phase[s] = "open" /\ registered
    /\ Unchanged(VisibleVersions(s), d, content)
    /\ phase' = [phase EXCEPT ![s] = "written"]
    /\ UNCHANGED <<tables, holder, staged, clock>>

\* record_version: one version, its claims and their edges, or nothing at all.
RecordVersion(s, d, content, rq) ==
    /\ phase[s] = "open" /\ registered
    /\ ~Unchanged(VisibleVersions(s), d, content)
    /\ Cardinality(VisibleVersions(s)) < MaxVersions
    /\ \E t \in 0..MaxClock :
         /\ Reading(t)
         /\ \E w \in Writes(VisibleVersions(s), VisibleClaims(s), d, content, rq, t) :
              Stage(s, {w.version}, w.claims, {})
         /\ clock' = t
    /\ phase' = [phase EXCEPT ![s] = "written"]
    /\ UNCHANGED <<tables, holder>>

\* record_deletion.  For an unknown or already deleted path it returns False and
\* changes nothing.  A sync tombstones all its stale paths in one transaction.
RecordDeletion(s, d) ==
    /\ phase[s] \in {"open", "deleting"} /\ registered
    /\ Cardinality(VisibleVersions(s)) < MaxVersions
    /\ \E t \in 0..MaxClock :
         /\ Reading(t)
         /\ \E v \in Tombstones(VisibleVersions(s), d, t) : Stage(s, {v}, {}, {})
         /\ clock' = t
    /\ phase' = [phase EXCEPT ![s] = "deleting"]
    /\ UNCHANGED <<tables, holder>>

\* Faulty: a snapshot that does not queue for the writer lock.
TakeSnapshotUnlocked(s, asof) ==
    /\ phase[s] = "idle" /\ registered
    /\ \E t \in 0..MaxClock :
         LET cutoff == IF asof = None THEN t ELSE asof
         IN  /\ Reading(t) /\ cutoff <= t
             /\ clock' = t
             /\ Stage(s, {}, {}, {[asof |-> cutoff, observed |-> t,
                                  members |-> Members(VisibleVersions(s), cutoff)]})
    /\ phase' = [phase EXCEPT ![s] = "snapshotted"]
    /\ UNCHANGED <<tables, holder>>

\* snapshot: read the clock, refuse a future cutoff, return the snapshot that
\* already has this cutoff or capture and seal every version up to it.
TakeSnapshot(s, asof) ==
    /\ phase[s] = "open" /\ registered
    /\ \E t \in 0..MaxClock :
         LET cutoff == IF asof = None THEN t ELSE asof
             taken  == \E n \in snapshots : n.asof = cutoff
             new    == [asof |-> cutoff, observed |-> t,
                        members |-> Members(VisibleVersions(s), cutoff)]
         IN  /\ Reading(t)
             /\ cutoff <= t
             /\ clock' = t
             /\ Stage(s, {}, {}, IF taken THEN {} ELSE {new})
    /\ phase' = [phase EXCEPT ![s] = "snapshotted"]
    /\ UNCHANGED <<tables, holder>>

\* mindpalace_erase_corpus: every row of the corpus, then the corpora row itself.
\* It looks the corpus up before it queues, so under the lock it erases whatever
\* is there by then, which may be nothing.
Erase(s) ==
    /\ phase[s] = "open"
    /\ phase' = [phase EXCEPT ![s] = "erasing"]
    /\ UNCHANGED <<tables, holder, staged, clock>>

-----------------------------------------------------------------------------
(* Outside the lock *)

\* create_corpus: the same name is the same corpus id again.
CreateCorpus ==
    /\ ~registered
    /\ registered' = TRUE
    /\ UNCHANGED <<versions, claims, snapshots, holder, phase, staged, clock>>

\* Time passes; readers may ask as of any reading up to now.
Tick ==
    /\ \E t \in 0..MaxClock : Reading(t) /\ clock' = t
    /\ UNCHANGED <<tables, holder, phase, staged>>

Work(s) ==
    \/ \E d \in Docs, content \in Contents :
         \/ RecordUnchanged(s, d, content)
         \/ \E rq \in Requests : RecordVersion(s, d, content, rq)
    \/ \E d \in Docs : RecordDeletion(s, d)
    \/ \E asof \in Cutoffs : TakeSnapshot(s, asof)
    \/ Erase(s)

Next ==
    \/ \E s \in Sessions :
         \/ QueueForLock(s) \/ AcquireLock(s) \/ Abandon(s)
         \/ Work(s)
         \/ Commit(s) \/ Rollback(s)
    \/ CreateCorpus
    \/ Tick

Spec == Init /\ [][Next]_vars

\* A session that holds the lock ends its transaction (its statements finish, or
\* its connection is closed and the server rolls back), and the server grants a
\* queued lock in arrival order, so a queued session is not passed over for ever.
Fairness ==
    \A s \in Sessions : /\ WF_vars(Commit(s) \/ Rollback(s))
                        /\ SF_vars(AcquireLock(s))

FairSpec == Spec /\ Fairness

-----------------------------------------------------------------------------
(* Properties *)

\* Every document's versions form one unbroken chain: numbers are unique and
\* contiguous, each row is stamped after its predecessor, and the lifecycle
\* only restores what was deleted.  Two sessions that both extended the same
\* predecessor, or read it before the other committed, would break it.
ChainsAreLinear ==
    \A v \in versions :
        /\ \A u \in versions : VersionId(u) = VersionId(v) => u = v
        /\ v.num = 1 <=> v.event = "NEW"
        /\ v.num > 1 => \E u \in versions :
             /\ u.doc = v.doc /\ u.num = v.num - 1
             /\ u.observed < v.observed
             /\ (u.event = "DELETED") <=> (v.event = "RESTORED")

\* Every supersession edge leads to a claim that is in the archive and was
\* observed strictly earlier, so following edges never cycles and a reader at
\* any cutoff who sees a claim also sees what it replaced.  The clock may stall
\* or step back; only the triggers stand between that and a cycle.
SupersessionPointsBack ==
    \A c \in claims : c.target # None =>
        \E o \in claims, u, v \in versions :
            /\ ClaimId(o) = c.target
            /\ VersionId(u) = [doc |-> o.doc, num |-> o.num]
            /\ VersionId(v) = [doc |-> c.doc, num |-> c.num]
            /\ u.observed < v.observed

\* A snapshot holds exactly the versions the archive has up to its cutoff, also
\* those that were still uncommitted when some other session asked: the writer
\* lock is what makes a snapshot wait for them.
SnapshotsAreComplete ==
    \A n \in snapshots : n.members = Members(versions, n.asof)

\* Replaying a snapshot gives the same claims and statuses for ever, whatever is
\* written, retired, deleted or restored after it -- also when the clock stepped
\* back and a later write is stamped inside the interval the snapshot covers.
ReplayIsStable ==
    [][\A n \in snapshots \cap snapshots' :
         Replay(versions', claims', n) = Replay(versions, claims, n)]_vars

\* A claim retired across documents was live when its replacement committed: no
\* commit of another session came between the check and the commit.
RetiresOnlyLiveClaims ==
    [][\A c \in claims' \ claims : c.basis \in CrossBases =>
         \E o \in Live(versions, claims) : ClaimId(o) = c.target]_vars

\* A write that retires by topic key leaves its own claim as the only live one
\* under that key: a second live claim elsewhere refuses the write instead.
TopicKeyLeavesOne ==
    [][\A c \in claims' \ claims : c.basis = "topic_key" =>
         {o \in Live(versions', claims') : o.key = c.key} = {c}]_vars

\* The concurrent archive behaves as if its transactions ran one at a time, at
\* their commits, each decided on what was committed before it: the abstract
\* tables are the committed ones, and staged rows, phases, lock and clock are hidden.
Serial == INSTANCE SerialArchive WITH
    registered <- registered,
    versions   <- versions,
    claims     <- claims,
    snapshots  <- snapshots
ImplementsSerialArchive == Serial!Spec

\* A session queued for the lock gets it or gives up: nobody who holds the lock
\* keeps it for ever, and no wait depends on a second lock.
EveryQueuedSessionProceeds ==
    \A s \in Sessions : phase[s] = "waiting" ~> phase[s] # "waiting"

\* memory.py says of a claim named by a write that "a superseded, deleted or
\* other-corpus claim cannot be superseded again": each claim has at most one
\* successor.
SupersededAtMostOnce ==
    \A c, o \in claims : c.target # None /\ c.target = o.target => c = o

\* memory-model.md says "as_of reconstructs the archive as it was": what a
\* reader is told about a moment that has passed does not change later.
PastIsFrozen ==
    [][registered' => \A t \in {x \in 0..MaxClock : x < clock} :
         AnswerAsOf(versions', claims', t) = AnswerAsOf(versions, claims, t)]_vars

=============================================================================
