----------------------------- MODULE DocVersions -----------------------------
(***************************************************************************)
(* The version history of one artifact, repositories/doc_version_repo.py,  *)
(* with the operations that move it: edits, docgen runs (their baseline,   *)
(* checkpoints and end), rollbacks and deletions of single versions.       *)
(*                                                                         *)
(* A version is a full snapshot, or a delta: a base version and the pages  *)
(* it overrides.  All operations run under the entity lock, so a docgen    *)
(* run and the others exclude each other; the writers that do not take the *)
(* lock are not part of this module.  A page body, a document blob and the *)
(* content of a spec are opaque values.                                    *)
(***************************************************************************)
EXTENDS Integers, FiniteSets, FiniteSetsExt, Functions

CONSTANTS
    PageIds,      \* page ids of the artifact
    Texts,        \* bodies a page may have
    Blobs,        \* values of generated_docs; of content, for a spec
    Nothing,      \* no such page, no blob
    MaxVersion,   \* bound on the number of versions appended
    MaxChain      \* _MAX_DELTA_CHAIN

ASSUME VersionsAssumption ==
    /\ Nothing \notin Texts \cup Blobs
    /\ MaxVersion \in Nat \ {0} /\ MaxChain \in Nat

VARIABLES
    paged,    \* a page tree (codebase, database, hld), not a spec
    art,      \* the artifact row
    ver,      \* its rows of productarium_doc_versions, by version
    job,      \* the docgen run of the artifact, if any
    clean     \* history: no run has left partial documents on the row

vars == <<paged, art, ver, job, clean>>

Versions == 1..MaxVersion
PageTrees == [PageIds -> Texts \cup {Nothing}]
NoPages == [p \in PageIds |-> Nothing]
AnyBlob == Blobs \cup {Nothing}

Artifacts == [pages : PageTrees, blob : AnyBlob, current : {0} \cup Versions]

Rows == [base : {0} \cup Versions,   \* base_version; 0 in a full snapshot
         pages : PageTrees,          \* all pages, or the overridden ones
         blob : AnyBlob,
         shown : PageTrees,          \* history: the pages it was made of ...
         whole : AnyBlob]            \* ... and generated_docs

Runs == [on : BOOLEAN, scoped : BOOLEAN]   \* scoped: force_pages given

TypeOK ==
    /\ paged \in BOOLEAN /\ clean \in BOOLEAN
    /\ art \in Artifacts
    /\ DOMAIN ver \subseteq Versions /\ \A v \in DOMAIN ver : ver[v] \in Rows
    /\ job \in Runs

-----------------------------------------------------------------------------
(* Reading a history h *)

Top(h) == IF DOMAIN h = {} THEN 0 ELSE Max(DOMAIN h)

\* The base references of S lead nowhere else.
Closed(h, S) == \A u \in S : h[u].base \in DOMAIN h => h[u].base \in S

\* _base_chain: the version, its base, the base of that ...
Chain(h, v) ==
    {u \in DOMAIN h : \A S \in SUBSET DOMAIN h : v \in S /\ Closed(h, S) => u \in S}

\* The versions of the chain that say something of page p.
Saying(h, v, p) == {u \in Chain(h, v) : h[u].pages[p] # Nothing}

\* _overlay, get_version: the latest version that has the page gives it.
PagesOf(h, v) ==
    [p \in PageIds |-> IF Saying(h, v, p) = {} THEN Nothing
                       ELSE h[Max(Saying(h, v, p))].pages[p]]

BlobOf(h, v) == h[Min(Chain(h, v))].blob

-----------------------------------------------------------------------------
(* Appending to it *)

\* The pages of `to` that differ from those of `from`.
Changed(from, to) ==
    [p \in PageIds |-> IF from[p] = to[p] THEN Nothing ELSE to[p]]

\* A delta may be based on version v: _MAX_DELTA_CHAIN is not reached.
Short(h, v) == Cardinality(Chain(h, v)) <= MaxChain

\* The pages version a.current lacks or has otherwise, in artifact a.
Overrides(h, a) == Changed(PagesOf(h, a.current), a.pages)

\* _auto_delta: the version the next one is based on, 0 for a full snapshot.
AutoBaseDeep(h, a, scoped) ==             \* bug: chains grow without a cap
    IF /\ paged /\ scoped
       /\ a.current \in DOMAIN h
       /\ \A p \in PageIds : PagesOf(h, a.current)[p] # Nothing => a.pages[p] # Nothing
       /\ Overrides(h, a) # NoPages
    THEN a.current ELSE 0

AutoBase(h, a, scoped) ==
    IF /\ paged /\ scoped
       /\ a.current \in DOMAIN h
       /\ Short(h, a.current)
       /\ \A p \in PageIds : PagesOf(h, a.current)[p] # Nothing => a.pages[p] # Nothing
       /\ Overrides(h, a) # NoPages
    THEN a.current ELSE 0

FullRow(a) == [base |-> 0, pages |-> a.pages, blob |-> a.blob,
               shown |-> a.pages, whole |-> a.blob]

DeltaRow(h, a, base) ==
    [base |-> base, pages |-> Overrides(h, a), blob |-> Nothing,
     shown |-> a.pages, whole |-> a.blob]

FirstIsZero(h) == IF Top(h) = 0 THEN 0 ELSE Top(h) + 1     \* bug: the first is v0

NextVersion(h) == Top(h) + 1

\* append_version: the history after it; the row's current_version follows.
Appended(h, a, base) ==
    [v \in DOMAIN h \cup {NextVersion(h)} |->
        IF v # NextVersion(h) THEN h[v]
        ELSE IF base = 0 THEN FullRow(a) ELSE DeltaRow(h, a, base)]

Pointed(h, a) == [a EXCEPT !.current = NextVersion(h)]

\* ensure_baseline_version, before the first mutation of a legacy artifact.
Legacy(h, a) == DOMAIN h = {} /\ (a.pages # NoPages \/ a.blob # Nothing)
BaselineHistory(h, a) == IF Legacy(h, a) THEN Appended(h, a, 0) ELSE h
BaselineArtifact(h, a) == IF Legacy(h, a) THEN Pointed(h, a) ELSE a

-----------------------------------------------------------------------------
Idle == [on |-> FALSE, scoped |-> FALSE]

\* A spec has no page tree.
Trees == IF paged THEN PageTrees ELSE {NoPages}

Init ==
    /\ paged \in BOOLEAN
    /\ \E pages \in Trees, blob \in AnyBlob :
          art = [pages |-> pages, blob |-> blob, current |-> 0]
    /\ ver = [v \in {} |-> FullRow(art)]
    /\ job = Idle
    /\ clean = FALSE

\* Commit artifact a as a new version on top of history h.
Commit(h, a, base) ==
    /\ NextVersion(h) <= MaxVersion
    /\ ver' = Appended(h, a, base)
    /\ art' = Pointed(h, a)
    /\ clean' = TRUE

\* update_codebase_content and its siblings: the page tree or one page of it,
\* or the blob; the content, for a spec.
Edits(a) ==
    IF paged THEN {[a EXCEPT !.pages = t] : t \in PageTrees}
                    \cup {[a EXCEPT !.blob = b] : b \in Blobs}
             ELSE {[a EXCEPT !.blob = b] : b \in AnyBlob}

Edit ==
    /\ ~job.on
    /\ LET h == BaselineHistory(ver, art)
       IN  \E a \in Edits(BaselineArtifact(ver, art)) :
              Commit(h, a, AutoBase(h, a, TRUE))
    /\ UNCHANGED <<paged, job>>

-----------------------------------------------------------------------------
(* A docgen run *)

StartJob(scoped) ==
    /\ ~job.on
    /\ ver' = BaselineHistory(ver, art)
    /\ art' = BaselineArtifact(ver, art)
    /\ clean' = (clean \/ Legacy(ver, art))
    /\ job' = [on |-> TRUE, scoped |-> scoped]
    /\ UNCHANGED paged

\* _checkpoint_partial_docs commits the pages done so far, in a session of its
\* own.
Checkpoint ==
    /\ job.on /\ paged
    /\ \E pages \in PageTrees \ {NoPages}, blob \in Blobs :
          art' = [art EXCEPT !.pages = pages, !.blob = blob]
    /\ clean' = FALSE
    /\ UNCHANGED <<paged, ver, job>>

\* The final commit: documents and version together.
FinishJob ==
    /\ job.on
    /\ \E pages \in IF paged THEN PageTrees \ {NoPages} ELSE {NoPages}, blob \in Blobs :
          LET a == [art EXCEPT !.pages = pages, !.blob = blob]
          IN  Commit(ver, a, AutoBase(ver, a, job.scoped))
    /\ job' = Idle
    /\ UNCHANGED paged

\* restore_entity_from_current_version; a row without versions is cleared.
CancelJob ==
    /\ job.on
    /\ art' = IF art.current \in DOMAIN ver
              THEN [art EXCEPT !.pages = PagesOf(ver, art.current),
                               !.blob = BlobOf(ver, art.current)]
              ELSE IF paged THEN [art EXCEPT !.pages = NoPages, !.blob = Nothing]
              ELSE art
    /\ clean' = TRUE
    /\ job' = Idle
    /\ UNCHANGED <<paged, ver>>

\* The run fails, or the process dies: what was checkpointed stays.
FailJob ==
    /\ job.on
    /\ job' = Idle
    /\ UNCHANGED <<paged, art, ver, clean>>

-----------------------------------------------------------------------------
(* Rollback and deletion *)

RestoredFromRow(v) ==                     \* bug: the stored row, not the document
    [art EXCEPT !.pages = ver[v].pages, !.blob = BlobOf(ver, v)]

Restored(v) == [art EXCEPT !.pages = PagesOf(ver, v), !.blob = BlobOf(ver, v)]

\* restore_version; a version without a blob answers 404 and nothing happens.
Restore(v) ==
    /\ ~job.on
    /\ v \in DOMAIN ver /\ BlobOf(ver, v) # Nothing
    /\ LET a == Restored(v)
           base == IF /\ paged
                      /\ art.current \in DOMAIN ver
                      /\ Overrides(ver, a) # NoPages
                      /\ Short(ver, v)
                   THEN v ELSE 0
       IN  Commit(ver, a, base)
    /\ UNCHANGED <<paged, job>>

DeletableBase(v) ==                       \* bug: a base may be deleted
    v \in DOMAIN ver /\ v # art.current /\ Cardinality(DOMAIN ver) > 1

\* delete_version refuses the current version, the last one and a base.
Deletable(v) ==
    /\ v \in DOMAIN ver /\ v # art.current
    /\ Cardinality(DOMAIN ver) > 1
    /\ \A u \in DOMAIN ver : ver[u].base # v

Delete(v) ==
    /\ ~job.on
    /\ Deletable(v)
    /\ ver' = Restrict(ver, DOMAIN ver \ {v})
    /\ UNCHANGED <<paged, art, job, clean>>

Next ==
    \/ Edit \/ Checkpoint \/ FinishJob \/ CancelJob \/ FailJob
    \/ \E scoped \in BOOLEAN : StartJob(scoped)
    \/ \E v \in Versions : Restore(v) \/ Delete(v)

Spec == Init /\ [][Next]_vars

-----------------------------------------------------------------------------
\* "current_version points at the active snapshot": it exists, and it is the
\* newest one, whatever has been rolled back or deleted.
CurrentIsLatest == art.current = Top(ver)

\* A delta always has its base, which is older, and reading a version never
\* walks more than _MAX_DELTA_CHAIN + 1 rows.
ChainsSound ==
    \A v \in DOMAIN ver :
        /\ ver[v].base # 0 => ver[v].base \in DOMAIN ver /\ ver[v].base < v
        /\ Cardinality(Chain(ver, v)) <= MaxChain + 1

\* "History is never rewritten": every version reads, for as long as it exists,
\* as the pages the artifact had when it was appended, although only a subset
\* of them was stored and other versions come and go.
HistoryFaithful == \A v \in DOMAIN ver : PagesOf(ver, v) = ver[v].shown

\* After a commit or a cancellation the row has the pages of its current
\* version, and the blob too when that is a full snapshot.
RowIsCurrent ==
    clean /\ art.current # 0 =>
        /\ art.pages = PagesOf(ver, art.current)
        /\ ver[art.current].base = 0 => art.blob = ver[art.current].blob

\* A rollback brings back exactly the pages the version was made of.
RestoreExact ==
    [][\A v \in DOMAIN ver : Restore(v) => art'.pages = ver[v].shown]_vars

\* "A cancelled job must leave the artifact at its pre-run (current) version."
\* The pages are back, but a delta has no blob of its own: generated_docs falls
\* back to that of the chain's root.
CancelLeavesPreRun ==
    [][CancelJob /\ art.current # 0 =>
          /\ art'.pages = ver[art.current].shown
          /\ art'.blob = ver[art.current].whole]_vars
==============================================================================
