--------------------------- MODULE SerialArchive ---------------------------
(***************************************************************************)
(* What the archive of one corpus promises: writes happen one at a time.   *)
(* Each write is decided on exactly the rows committed before it, takes    *)
(* effect in one step, and is stamped later than everything already there. *)
(* There are no sessions, no lock and no uncommitted rows.                 *)
(***************************************************************************)
EXTENDS ArchiveTables

CONSTANTS Requests, MaxClock

VARIABLES registered, versions, claims, snapshots

tables == <<registered, versions, claims, snapshots>>

Init ==
    /\ registered = TRUE
    /\ versions = {} /\ claims = {} /\ snapshots = {}

\* Later than every observation the archive already holds, and later than every
\* cutoff a snapshot has been taken at.
Fresh(t) ==
    /\ \A v \in versions : v.observed < t
    /\ \A n \in snapshots : n.asof < t

\* A write always adds a version; that conjunct only spares TLC trying every request on
\* a step that adds none.
Write(d, content, rq) ==
    /\ registered
    /\ versions' # versions
    /\ ~Unchanged(versions, d, content)
    /\ \E t \in 0..MaxClock :
         /\ Fresh(t)
         /\ \E w \in Writes(versions, claims, d, content, rq, t) :
              /\ versions' = versions \cup {w.version}
              /\ claims' = claims \cup w.claims
    /\ UNCHANGED <<registered, snapshots>>

\* A set of documents leaves the archive together.
Delete(gone) ==
    /\ registered
    /\ \E at \in [gone -> 0..MaxClock] :
         /\ \A d \in gone : Fresh(at[d]) /\ Tombstones(versions, d, at[d]) # {}
         /\ versions' = versions \cup UNION {Tombstones(versions, d, at[d]) : d \in gone}
    /\ UNCHANGED <<registered, claims, snapshots>>

\* A snapshot holds every version up to its cutoff; Fresh keeps later writes out
\* of the interval it covers.
Capture(asof) ==
    /\ registered
    /\ \A n \in snapshots : n.asof # asof
    /\ \E t \in asof..MaxClock :
         snapshots' = snapshots \cup
            {[asof |-> asof, observed |-> t, members |-> Members(versions, asof)]}
    /\ UNCHANGED <<registered, versions, claims>>

EraseAll ==
    /\ registered
    /\ registered' = FALSE
    /\ versions' = {} /\ claims' = {} /\ snapshots' = {}

Create ==
    /\ ~registered
    /\ registered' = TRUE
    /\ UNCHANGED <<versions, claims, snapshots>>

Next ==
    \/ \E d \in Docs, content \in Contents, rq \in Requests : Write(d, content, rq)
    \/ \E gone \in SUBSET Docs : Delete(gone)
    \/ \E asof \in 0..MaxClock : Capture(asof)
    \/ EraseAll
    \/ Create

Spec == Init /\ [][Next]_tables

=============================================================================
