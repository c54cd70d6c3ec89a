----------------------------- MODULE IngestSync -----------------------------
(***************************************************************************)
(* Ingestion into one corpus: what a write does to the live index          *)
(* (documents, ingestion_manifest) together with the archive, and how a    *)
(* sync of a directory proceeds while files change, other syncs run,       *)
(* statements are remembered and an operator rebuilds the index.           *)
(*                                                                         *)
(* A sync reads the directory once to order its files, then reads and      *)
(* ingests them one by one, and at the end retires what it did not list.   *)
(* Each ingestion and the retirement is one transaction under the corpus   *)
(* lock, so it is one step here: that is what MemoryArchive shows of       *)
(* transactions (ImplementsSerialArchive).  Everything between two         *)
(* transactions is open to the other actors.                               *)
(***************************************************************************)
EXTENDS ArchiveTables, Functions, Sequences

CONSTANTS
    Syncs,          \* sync runs
    Deleting,       \* those with delete_removed
    FilePaths,      \* the paths of Docs that the directory may hold
    Rank,           \* Rank[p]: where path p sorts
    Body,           \* Body[c]: content c without its frontmatter
    Blank,          \* the bodies that hold only white space
    Supersedes,     \* Supersedes[c]: the files content c says it replaces
    SupersededBy,   \* SupersededBy[c]: the files c says replace it
    Statements,     \* what may be remembered: [path, content, topic]
    AtFirst,        \* what may be at a path of the directory at first, None for no file
    MaxEdits,       \* bound: changes of the directory
    MaxVersions     \* bound: versions in the archive

ASSUME SyncAssumption ==
    /\ Deleting \subseteq Syncs /\ FilePaths \subseteq Docs /\ IsFiniteSet(FilePaths)
    /\ Rank \in [Docs -> Nat]
    /\ AtFirst \subseteq Contents \cup {None}
    /\ \A c \in Contents :
         /\ Body[c] \in Contents /\ Body[Body[c]] = Body[c]
         /\ Supersedes[c] \cup SupersededBy[c] \subseteq FilePaths
    /\ \A m \in Statements :
         m.path \in Docs /\ m.content \in Contents /\ m.topic \in Keys \cup {None}
    /\ MaxEdits \in Nat /\ MaxVersions \in Nat

VARIABLES
    directory,  \* the content of each file, None where there is none
    documents,  \* the content each documents row was made from, None without a row
    manifest,   \* the text each manifest row has the hash of, None without a row
    versions,   \* memory_versions
    claims,     \* memory_claims
    run,        \* each sync run's local state
    edits,      \* changes of the directory so far
    calm        \* auxiliary: the runs since whose start nothing failed or intervened

archive == <<versions, claims>>
index   == <<documents, manifest>>
vars    == <<directory, documents, manifest, versions, claims, run, edits, calm>>

\* counted: whether the last document of the run counts as ingested.
NotRunning == [step |-> "idle", todo |-> <<>>, kept |-> {}, text |-> None,
               counted |-> FALSE, present |-> {}]

RunState ==
    [step : {"idle", "next", "read"}, todo : Seq(FilePaths), kept : SUBSET FilePaths,
     text : Contents \cup {None}, counted : BOOLEAN, present : SUBSET FilePaths]

TypeOK ==
    /\ directory \in [FilePaths -> Contents \cup {None}]
    /\ documents \in [Docs -> Contents \cup {None}]
    /\ manifest \in [Docs -> Contents \cup {None}]
    /\ versions \in SUBSET Version
    /\ claims \in SUBSET Claim
    /\ run \in [Syncs -> RunState]
    /\ edits \in 0..MaxEdits
    /\ calm \in SUBSET Syncs

Init ==
    /\ directory \in [FilePaths -> AtFirst]
    /\ documents = [p \in Docs |-> None]
    /\ manifest = [p \in Docs |-> None]
    /\ versions = {} /\ claims = {}
    /\ run = [s \in Syncs |-> NotRunning]
    /\ edits = 0
    /\ calm = {}

-----------------------------------------------------------------------------
(* One document, one transaction *)

\* Later than every stamp so far.
Now ==
    LET stamps == {0} \cup {v.observed : v \in versions}
    IN  1 + CHOOSE t \in stamps : \A u \in stamps : u <= t

Archived(p) == {v \in Predecessor(versions, p) : v.event # "DELETED"}

\* Once a corpus has any version, everything goes through the archive.
UsesMemory(enabled, content) == enabled \/ Authored(content) # {} \/ versions # {}

\* A corpus without an archive: the manifest holds the hash of the body.
IngestLive(p, content) ==
    LET body    == Body[content]
        skipped == \/ body \in Blank
                   \/ manifest[p] = body
                   \/ documents[p] # None /\ Body[documents[p]] = body
    IN  /\ documents' = IF skipped THEN documents ELSE [documents EXCEPT ![p] = content]
        /\ manifest' = IF skipped THEN manifest ELSE [manifest EXCEPT ![p] = body]
        /\ UNCHANGED archive

\* The archive and its projection; the document's own references go along.  An
\* unchanged document whose row is missing is projected again without a new
\* version.  Not enabled when refused.
IngestMemory(p, content, topic) ==
    LET unchanged == Unchanged(versions, p, content)
        rq == [claim |-> None, topic |-> topic, refs |-> Supersedes[content]]
    IN  /\ documents' = [documents EXCEPT ![p] = content]
        /\ manifest' = [manifest EXCEPT ![p] = content]
        /\ \/ unchanged /\ UNCHANGED archive
           \/ /\ ~unchanged /\ Cardinality(versions) < MaxVersions
              /\ \E w \in Writes(versions, claims, p, content, rq, Now) :
                   /\ versions' = versions \cup {w.version}
                   /\ claims' = claims \cup w.claims

\* _ingest_content.
Ingest(p, content, enabled, topic) ==
    IF ~UsesMemory(enabled, content) THEN IngestLive(p, content)
    ELSE IF Unchanged(versions, p, content) /\ documents[p] # None
    THEN UNCHANGED <<index, archive>>
    ELSE IngestMemory(p, content, topic)

\* Faulty: rows go, tombstones are forgotten.
RetireIndexOnly(keep) ==
    /\ documents' = [p \in Docs |-> IF p \in keep THEN documents[p] ELSE None]
    /\ manifest' = [p \in Docs |-> IF p \in keep THEN manifest[p] ELSE None]
    /\ UNCHANGED archive

\* _delete_stale_paths: rows, manifest entries and tombstones of whatever is
\* indexed under a path outside keep.
Retire(keep) ==
    LET stale == {p \in Docs : documents[p] # None} \ keep
        dead(p) == Tombstones(versions, p, Now + Rank[p])
    IN  /\ documents' = [p \in Docs |-> IF p \in stale THEN None ELSE documents[p]]
        /\ manifest' = [p \in Docs |-> IF p \notin keep /\ documents'[p] = None
                                       THEN None ELSE manifest[p]]
        /\ versions' = versions \cup UNION {dead(p) : p \in stale}
        /\ UNCHANGED claims

-----------------------------------------------------------------------------
(* A sync run *)

Files == {p \in FilePaths : directory[p] # None}

\* The files p's content names; p waits for them.
Named(p) == ((Supersedes[directory[p]] \cup SupersededBy[directory[p]]) \cap Files) \ {p}

Least(S) == CHOOSE p \in S : \A q \in S : Rank[p] <= Rank[q]

\* The files in sorted order, whatever they name.
SortedOrders ==
    {o \in Bijection(1..Cardinality(Files), Files) :
        \A i, j \in DOMAIN o : i < j => Rank[o[i]] <= Rank[o[j]]}

\* Files not among the first i - 1 of an order, and those of them that wait for nothing.
Left(o, i)  == Files \ {o[j] : j \in 1..(i - 1)}
Ready(o, i) == {p \in Left(o, i) : Named(p) \cap Left(o, i) = {}}

\* Faulty: a cycle drops its files.
AcyclicOrders ==
    {o \in UNION {[1..n -> Files] : n \in 0..Cardinality(Files)} :
        /\ \A i \in DOMAIN o : o[i] \in Ready(o, i) /\ o[i] = Least(Ready(o, i))
        /\ Ready(o, Cardinality(DOMAIN o) + 1) = {}}

\* Files whose named files are all done come first, the least one first; once
\* only cycles and what waits for them are left, those follow in sorted order.
\* There is one such order.
SupersessionOrders ==
    {o \in Bijection(1..Cardinality(Files), Files) :
        \A i \in DOMAIN o :
            o[i] = Least(IF \E j \in 1..i : Ready(o, j) = {} THEN Left(o, i) ELSE Ready(o, i))}

\* List the directory and read every file once to order them.
StartSync(s) ==
    /\ run[s].step = "idle"
    /\ \E order \in SupersessionOrders :
         run' = [run EXCEPT ![s] = [NotRunning EXCEPT !.step = "next",
                                      !.todo = order, !.present = Files]]
    /\ calm' = calm \cup {s}
    /\ UNCHANGED <<directory, index, archive, edits>>

FileDone(r) == [r EXCEPT !.step = "next", !.todo = Tail(@), !.text = None]
FileCounted(r) == [FileDone(r) EXCEPT !.counted = TRUE]

\* The next file is kept whatever happens to it; it may have gone by now.
ReadFile(s) ==
    /\ run[s].step = "next" /\ run[s].todo # <<>>
    /\ LET p    == Head(run[s].todo)
           kept == [run[s] EXCEPT !.kept = @ \cup {p}, !.counted = FALSE]
       IN  IF directory[p] = None
           THEN run' = [run EXCEPT ![s] = FileDone(kept)] /\ calm' = calm \ {s}
           ELSE /\ run' = [run EXCEPT ![s] = [kept EXCEPT !.step = "read", !.text = directory[p]]]
                /\ UNCHANGED calm
    /\ UNCHANGED <<directory, index, archive, edits>>

IngestFile(s) ==
    /\ run[s].step = "read"
    /\ Ingest(Head(run[s].todo), run[s].text, FALSE, None)
    /\ run' = [run EXCEPT ![s] = FileCounted(@)]
    /\ calm' = calm \cap {s}
    /\ UNCHANGED <<directory, edits>>

\* The last statement of the transaction fills the claim vectors.  When the
\* database refuses them the error is swallowed, the COMMIT of the aborted
\* transaction rolls back, and the document counts as ingested.
LoseFile(s) ==
    /\ run[s].step = "read"
    /\ LET p == Head(run[s].todo)
       IN  /\ Authored(run[s].text) # {}
           /\ ~Unchanged(versions, p, run[s].text) \/ documents[p] = None
    /\ run' = [run EXCEPT ![s] = FileCounted(@)]
    /\ calm' = calm \ {s}
    /\ UNCHANGED <<directory, index, archive, edits>>

\* Faulty: a failed file counts as absent.
FailFileForgets(s) ==
    /\ run[s].step = "read"
    /\ run' = [run EXCEPT ![s] = [FileDone(@) EXCEPT !.kept = @ \ {Head(run[s].todo)}]]
    /\ calm' = calm \ {s}
    /\ UNCHANGED <<directory, index, archive, edits>>

\* A refusal, a parse or embedding error: rolled back, and the run carries on.
FailFile(s) ==
    /\ run[s].step = "read"
    /\ run' = [run EXCEPT ![s] = FileDone(@)]
    /\ calm' = calm \ {s}
    /\ UNCHANGED <<directory, index, archive, edits>>

FinishSync(s) ==
    /\ run[s].step = "next" /\ run[s].todo = <<>>
    /\ IF s \in Deleting THEN Retire(run[s].kept) ELSE UNCHANGED <<index, archive>>
    /\ run' = [run EXCEPT ![s] = NotRunning]
    /\ calm' = IF s \in Deleting THEN calm \cap {s} ELSE calm
    /\ UNCHANGED <<directory, edits>>

\* The process dies between two transactions.
CrashSync(s) ==
    /\ run[s].step # "idle"
    /\ run' = [run EXCEPT ![s] = NotRunning]
    /\ calm' = calm \ {s}
    /\ UNCHANGED <<directory, index, archive, edits>>

-----------------------------------------------------------------------------
(* Everybody else *)

\* remember: one document at a path made from its key.
Remember(m) ==
    /\ Ingest(m.path, m.content, TRUE, m.topic)
    /\ calm' = {}
    /\ UNCHANGED <<directory, run, edits>>

\* rehydrate_corpus: project the archive's latest versions again; paths without
\* any version stay as they are.
Rehydrate ==
    LET known(p) == Predecessor(versions, p) # {}
        back(p) == {v.content : v \in {u \in Archived(p) : Body[u.content] \notin Blank}}
        restored(p) == IF back(p) = {} THEN None ELSE CHOOSE c \in back(p) : TRUE
    IN  /\ documents' = [p \in Docs |-> IF known(p) THEN restored(p) ELSE documents[p]]
        /\ manifest' = [p \in Docs |-> IF known(p) THEN restored(p) ELSE manifest[p]]
        /\ calm' = {}
        /\ UNCHANGED <<directory, archive, run, edits>>

\* Somebody writes, changes or removes a file.
EditFile(p, content) ==
    /\ edits < MaxEdits /\ directory[p] # content
    /\ directory' = [directory EXCEPT ![p] = content]
    /\ run' = IF content # None THEN run
              ELSE [s \in Syncs |-> [run[s] EXCEPT !.present = @ \ {p}]]
    /\ edits' = edits + 1
    /\ calm' = {}
    /\ UNCHANGED <<index, archive>>

Next ==
    \/ \E s \in Syncs :
         \/ StartSync(s) \/ ReadFile(s) \/ IngestFile(s) \/ LoseFile(s)
         \/ FailFile(s) \/ FinishSync(s) \/ CrashSync(s)
    \/ \E m \in Statements : Remember(m)
    \/ Rehydrate
    \/ \E p \in FilePaths, c \in Contents \cup {None} : EditFile(p, c)

Spec == Init /\ [][Next]_vars

-----------------------------------------------------------------------------
(* Properties *)

\* The live index is the projection of the archive after every transaction, in
\* whatever order syncs, statements and rebuilds interleave: an archived path has
\* the row and the manifest entry of its latest version, a deleted one has
\* neither, and a path the archive does not know has both or neither.  (A rebuild
\* drops the row of a blank document.)
IndexFollowsArchive ==
    \A p \in Docs :
        IF Predecessor(versions, p) = {}
        THEN manifest[p] = IF documents[p] = None THEN None ELSE Body[documents[p]]
        ELSE /\ manifest[p] = documents[p]
             /\ \/ \E v \in Archived(p) : documents[p] = v.content
                \/ documents[p] = None /\ \A v \in Archived(p) : Body[v.content] \in Blank

Finishes(s) == run[s] # NotRunning /\ run'[s] = NotRunning /\ s \in calm \cap calm'

\* A sync that nothing failed in or came between ends with the archive and the
\* index at what the directory holds, for every path the archive knows -- also
\* for files that name each other in a cycle, and for files that were deleted
\* and came back.
ArchivedFilesAreMirrored ==
    [][\A s \in Syncs : Finishes(s) =>
         \A p \in {q \in FilePaths : Predecessor(versions', q) # {}} :
            IF directory[p] = None THEN s \in Deleting => documents'[p] = None
            ELSE /\ documents'[p] = directory[p]
                 /\ \E v \in Predecessor(versions', p) : v.content = directory[p]]_vars

\* A sync never retires a file that was there all the time it ran, also when it
\* could not read it, refused it, or another sync wrote it meanwhile.
PresentFilesAreKept ==
    [][\A s \in Syncs : run[s].step = "next" /\ run[s].todo = <<>> /\ run'[s] = NotRunning =>
         \A p \in run[s].present : documents[p] # None => documents'[p] # None]_vars

\* The files p names, the files they name, and so on.
Upstream(p) ==
    {q \in Files : \A S \in SUBSET Files :
        Named(p) \subseteq S /\ (\A r \in S : Named(r) \subseteq S) => q \in S}

InCycle(p) == \E q \in {p} \cup Upstream(p) : q \in Upstream(q)

\* When an undisturbed sync ingests a file, every file it names has its current
\* claims in the archive already, unless that file hangs on a cycle: otherwise the
\* reference finds nothing and the supersession silently does not happen.
ReferencedFilesComeFirst ==
    \A s \in calm : run[s].step = "read" =>
        \A r \in Named(Head(run[s].todo)) :
            ~InCycle(r) /\ Authored(directory[r]) # {} =>
                \E v \in Archived(r) : v.content = directory[r]

\* sync_repo says it "reconciles indexed state against the source snapshot" and
\* that "modified files are reprocessed, stale chunks replaced": after a sync that
\* nothing failed in or came between, each row was made from its file.
SyncMirrorsDirectory ==
    [][\A s \in Syncs : Finishes(s) =>
         \A p \in Files : \/ documents'[p] = directory[p]
                          \/ Body[directory[p]] \in Blank /\ documents'[p] = None]_vars

\* sync_repo says that "files removed from the source are removed from the index":
\* what it removes was a file of the directory and is gone from it.
SyncRetiresOnlyRemovedFiles ==
    [][\A s \in Syncs : Finishes(s) =>
         \A p \in Docs : documents[p] # None /\ documents'[p] = None =>
             p \in FilePaths /\ directory[p] = None]_vars

\* sync_repo says that "a failed document never leaves a false 'successfully
\* indexed' state": when a document that asserts claims counts as ingested, its
\* text is the latest version at its path and its row is there.
CountedFilesAreIndexed ==
    [][\A s \in Syncs : run[s].step = "read" /\ run'[s].counted =>
         LET p == Head(run[s].todo)
         IN  Authored(run[s].text) # {} =>
               /\ documents'[p] # None
               /\ \E v \in Predecessor(versions', p) : v.content = run[s].text]_vars

=============================================================================
