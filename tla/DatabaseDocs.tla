----------------------------- MODULE DatabaseDocs -----------------------------
(***************************************************************************)
(* The documents of a database artifact: generate_database_docs with its   *)
(* introspection cache and deep units (api/docgen/database.py), detection  *)
(* of catalogue changes (incremental.py), and the handlers that write the  *)
(* same row.  Unlike those of a codebase, the handlers that edit and       *)
(* verify a database's pages take no entity lock, and a rollback loads     *)
(* the row before it takes it: each is a load and a commit between which   *)
(* a run of the worker thread may commit.  The window is short (a handler  *)
(* has no await in it, a rollback waits five seconds at most), so all that *)
(* is let into it is the end of a run that has walked the catalogue.       *)
(*                                                                         *)
(* A page is that of one table (or other catalogue object); the root pages *)
(* have no provenance that anything depends on.  A table is known by its   *)
(* definition.  CatalogWalk says how a walk of the catalogue comes about.  *)
(***************************************************************************)
EXTENDS Integers, FiniteSets

CONSTANTS
    Tables,
    Definitions,  \* what a table may look like in the catalogue
    None,         \* no table, no fingerprint, no walk
    Keyless,      \* whether the catalogue has no foreign keys, so that the
                  \* LLM is asked to infer relations
    MaxVersions,  \* bound on the versions
    MaxChanges,   \* bound on the changes of the catalogue
    MaxVerified   \* bound on the verifications

ASSUME DatabaseAssumption ==
    /\ None \notin Definitions /\ None \notin [Tables -> Definitions \cup {None}]
    /\ Keyless \in BOOLEAN
    /\ MaxVersions \in Nat /\ MaxChanges \in Nat /\ MaxVerified \in Nat

VARIABLES
    catalog,   \* the live database
    cache,     \* the introspection payload on disk, shared by the artifacts
               \* of one MCP surface
    pages,     \* the row's pages
    baseline,  \* source_state["baseline"]
    first,     \* the oldest version, which a rollback may return to
    current,   \* the version current_version names
    count,     \* how many versions there are
    run,       \* locals of the worker
    req,       \* the handler between its load and its commit
    changes,   \* how often the catalogue has changed
    approved,  \* history: the texts that have been verified
    loose,     \* history: the row's pages are not those of its baseline
    torn       \* history: a handler has written over a run's commit

vars == <<catalog, cache, pages, baseline, first, current, count, run, req,
          changes, approved, loose, torn>>

Walk == [Tables -> Definitions \cup {None}]
Present(walk) == {t \in Tables : walk[t] # None}

\* Evidence of a table in a walk: its definition and whether an inferred
\* relation touches it.
Evidence == Definitions \X BOOLEAN

\* What the page says: the definition it renders and the words with it, the
\* run's or the user's; the guard cleans the user's "raw" ones (secrets, agent
\* echoes).
Text == [of : Definitions, words : {"drawn", "raw", "clean"}]

Page == [text : Text,
         print : Definitions \cup {None},     \* provenance entity_fingerprint
         object : Evidence \cup {None},       \* provenance object_fingerprint
         verified : BOOLEAN]

Trees == UNION {[some -> Page] : some \in SUBSET Tables}
Empty == [t \in {} |-> None]

NoRun == [step |-> "idle", force |-> {}, seen |-> None, info |-> None, old |-> Empty,
          whole |-> TRUE]
NoReq == [op |-> "none", page |-> None, pages |-> Empty]

RunRecord == [step : {"idle", "planned", "walked"}, force : SUBSET Tables,
              seen : Walk \cup {None}, info : Walk \cup {None}, old : Trees, whole : BOOLEAN]
Request == [op : {"none", "edit", "remove", "verify", "rollback"},
            page : Tables \cup {None}, pages : Trees]

TypeOK ==
    /\ catalog \in Walk /\ cache \in Walk \cup {None}
    /\ {pages, first, current} \subseteq Trees
    /\ baseline \in (SUBSET (Tables \X Evidence)) \cup {None}
    /\ count \in 0..MaxVersions /\ changes \in 0..MaxChanges
    /\ run \in RunRecord /\ req \in Request
    /\ approved \subseteq Tables \X Text
    /\ loose \in BOOLEAN /\ torn \in BOOLEAN

Init ==
    /\ catalog \in Walk /\ Present(catalog) # {}
    /\ cache = None
    /\ pages = Empty /\ baseline = None
    /\ first = Empty /\ current = Empty /\ count = 0
    /\ run = NoRun /\ req = NoReq
    /\ changes = 0
    /\ approved = {} /\ loose = FALSE /\ torn = FALSE

-----------------------------------------------------------------------------
(* The catalogue and the cache *)

Change(t) ==
    /\ req = NoReq
    /\ changes < MaxChanges /\ changes' = changes + 1
    /\ \E d \in (Definitions \cup {None}) \ {catalog[t]} :
          catalog' = [catalog EXCEPT ![t] = d]
    /\ Present(catalog') # {}
    /\ UNCHANGED <<cache, pages, baseline, first, current, count, run, req, approved, loose, torn>>

\* The entry's age passes the TTL, or another artifact of the surface, whose key
\* is the same, stores its own walk, as good as none.
Expire ==
    /\ req = NoReq
    /\ cache # None /\ cache' = None
    /\ UNCHANGED <<catalog, pages, baseline, first, current, count, run, req, changes, approved, loose, torn>>

-----------------------------------------------------------------------------
(* Fingerprints and detection *)

SourceFingerprint(walk, inferred, t) == <<walk[t], t \in inferred>>

BaselineOfNames(walk, inferred) ==  \* bug: the inventory alone is compared
    {<<t, {}>> : t \in Present(walk)}

\* database_source_baseline
Baseline(walk, inferred) ==
    {<<t, SourceFingerprint(walk, inferred, t)>> : t \in Present(walk)}

\* _detect_database, of a walk that bypasses the cache.
Changed(walk) == baseline # Baseline(walk, {})
Impacted(walk) ==
    {t \in Present(walk) : t \in DOMAIN pages
                              => pages[t].object # SourceFingerprint(walk, {}, t)}

-----------------------------------------------------------------------------
(* Versions *)

AppendsLoaded(t) ==                \* bug: the snapshot is that of the row as loaded
    /\ count < MaxVersions
    /\ count' = count + 1
    /\ current' = pages
    /\ first' = IF count > 0 THEN first ELSE t

\* append_version, after ensure_baseline_version for a row with no history.
Appends(t) ==
    /\ count < MaxVersions
    /\ count' = count + 1
    /\ current' = t
    /\ first' = IF count > 0 THEN first ELSE t

-----------------------------------------------------------------------------
(* A run: _run_docgen_job_async and generate_database_docs *)

Starts(force, seen) ==
    /\ run.step = "idle" /\ req = NoReq /\ count < MaxVersions
    /\ run' = [NoRun EXCEPT !.step = "planned", !.force = force, !.seen = seen,
                            !.old = IF seen = None THEN Empty ELSE pages]
    /\ UNCHANGED <<catalog, cache, pages, baseline, first, current, count, req, changes, approved, loose, torn>>

Generate == Starts({}, None)

\* One page, or a schema's or category's page with its tables.
Regenerate == \E force \in (SUBSET DOMAIN pages) \ {{}} : Starts(force, None)

\* fresh_database_info calls introspection_cache_key with arguments it does not
\* take; the error is swallowed, and the walk is not stored.  The LLM may add
\* pages to the impact; without impact (a table is gone) everything is done.
Incremental ==
    /\ Changed(catalog)
    /\ \E more \in SUBSET DOMAIN pages :
          Starts(IF Impacted(catalog) = {} THEN {} ELSE Impacted(catalog) \cup more,
                 catalog)

\* load_introspection_cache, or _walk_catalog_fresh and its store.
Introspect ==
    /\ run.step = "planned" /\ req = NoReq
    /\ LET info == IF cache # None THEN cache ELSE catalog IN
          /\ run' = [run EXCEPT !.step = "walked", !.info = info, !.old = pages,
                       !.whole = run.force = {} \/ (info = run.seen /\ pages = run.old)]
          /\ cache' = info
    /\ UNCHANGED <<catalog, pages, baseline, first, current, count, req, changes, approved, loose, torn>>

\* _run_deep_units: the units whose stored fingerprint matches.  With forced
\* pages only those are units, and none is reused.
Reused ==
    IF run.force # {} THEN {}
    ELSE {t \in Present(run.info) \cap DOMAIN run.old : run.old[t].print = run.info[t]}

\* mask_secrets, _strip_agent_artifacts
Guard(text) == [text EXCEPT !.words = IF @ = "raw" THEN "clean" ELSE @]

\* The page of a unit that is not reused: fingerprinted whenever deep units ran,
\* whether its agent wrote it, failed, or was overruled by the fallback.
Fresh(t, deep, inferred) ==
    [text |-> [of |-> run.info[t], words |-> "drawn"],
     print |-> IF deep THEN run.info[t] ELSE None,
     object |-> SourceFingerprint(run.info, inferred, t), verified |-> FALSE]

\* _infer_relations: nothing, or an edge between two tables.
Inferences ==
    IF Keyless THEN {{}} \cup {e \in SUBSET Present(run.info) : Cardinality(e) = 2} ELSE {{}}

\* The rendered pages.  Without an overview no unit is written; with one, units
\* are written by agents or, when those are unavailable or mostly fail, batches.
Rendered(reused, deep, inferred) ==
    [t \in Present(run.info) |->
        IF t \in reused THEN [run.old[t] EXCEPT !.text = Guard(@)]
        ELSE Fresh(t, deep, inferred)]

MergedAll(new) == new              \* bug: the stored pages are not kept

\* A run with forced pages swaps those in.
Merged(new) ==
    IF run.force # {} /\ run.old # Empty
    THEN [t \in DOMAIN run.old \cup (run.force \cap DOMAIN new) |->
             IF t \in run.force \cap DOMAIN new THEN new[t] ELSE run.old[t]]
    ELSE new

CarriedBlindly(new) ==             \* bug: flags are carried to another text
    [t \in DOMAIN new |->
        IF t \in DOMAIN run.old /\ run.old[t].verified
        THEN [new[t] EXCEPT !.verified = TRUE] ELSE new[t]]

\* _carry_page_verify_flags
Carried(new) ==
    [t \in DOMAIN new |->
        IF t \in DOMAIN run.old /\ run.old[t].verified /\ new[t].text = run.old[t].text
        THEN [new[t] EXCEPT !.verified = TRUE] ELSE new[t]]

\* Pages, baseline and version are committed together, over whatever the row
\* holds by then.
Persist(new, inferred) ==
    /\ pages' = Carried(Merged(new))
    /\ Appends(pages')
    /\ baseline' = Baseline(run.info, inferred)
    /\ loose' = ~run.whole
    /\ run' = NoRun
    /\ UNCHANGED <<catalog, cache, req, changes, approved, torn>>

\* Without an overview, or with deep units off or unavailable, none is a unit:
\* batches describe the tables at best.  Only with an overview are relations
\* inferred.
FinishBatch ==
    /\ run.step = "walked"
    /\ \E inferred \in Inferences : Persist(Rendered({}, FALSE, inferred), inferred)

\* Agents, or after too many failures batches, describe the others.
FinishDeep ==
    /\ run.step = "walked"
    /\ \E inferred \in Inferences : Persist(Rendered(Reused, TRUE, inferred), inferred)

\* The run raises; or it is cancelled, which restores the current version.
Fail ==
    /\ run.step # "idle"
    /\ run' = NoRun
    /\ UNCHANGED <<catalog, cache, pages, baseline, first, current, count, req, changes, approved, loose, torn>>

Cancel ==
    /\ run.step # "idle"
    /\ run' = NoRun
    /\ pages' = current
    /\ UNCHANGED <<catalog, cache, baseline, first, current, count, req, changes, approved, loose, torn>>

-----------------------------------------------------------------------------
(* The handlers *)

Loads(op, page) ==
    /\ req = NoReq
    /\ req' = [op |-> op, page |-> page, pages |-> pages]
    /\ UNCHANGED <<catalog, cache, pages, baseline, first, current, count, run, changes, approved, loose, torn>>

Load ==
    \/ \E t \in DOMAIN pages :
          \/ pages[t].text.words # "raw" /\ Loads("edit", t)
          \/ Loads("remove", t)
          \/ ~pages[t].verified /\ Loads("verify", t)
    \/ count > 0 /\ Loads("rollback", None)

Overtaken == req.pages # pages

EditedKeepingFlags ==              \* bug: an edit keeps the flags
    [req.pages EXCEPT ![req.page].text.words = "raw"]

\* update_database_content, page_id and content: flags go when the text changes.
Edited ==
    [req.pages EXCEPT ![req.page].text.words = "raw", ![req.page].verified = FALSE]

Edit ==
    /\ req.op = "edit"
    /\ pages' = Edited
    /\ Appends(pages')
    /\ req' = NoReq
    /\ loose' = (loose \/ Overtaken)
    /\ UNCHANGED <<catalog, cache, baseline, run, changes, approved, torn>>

\* update_database_content, pages: the client's tree, stripped of flags; here
\* the loaded one without a page.
DeletePage ==
    /\ req.op = "remove"
    /\ pages' = [t \in DOMAIN req.pages \ {req.page} |-> [req.pages[t] EXCEPT !.verified = FALSE]]
    /\ Appends(pages')
    /\ req' = NoReq
    /\ loose' = TRUE
    /\ UNCHANGED <<catalog, cache, baseline, run, changes, approved, torn>>

\* verify_page
Verify ==
    /\ req.op = "verify"
    /\ Cardinality(approved) < MaxVerified
    /\ pages' = [req.pages EXCEPT ![req.page].verified = TRUE]
    /\ approved' = approved \cup {<<req.page, req.pages[req.page].text>>}
    /\ req' = NoReq
    /\ loose' = (loose \/ Overtaken)
    /\ torn' = (torn \/ Overtaken)
    /\ UNCHANGED <<catalog, cache, baseline, first, current, count, run, changes>>

\* restore_doc_version, under the lock.  A restored tree equal to the one loaded
\* is no change to the session, and the row stays as it is.
Rollback ==
    /\ req.op = "rollback" /\ run.step = "idle"
    /\ pages' = IF first = req.pages THEN pages ELSE first
    /\ Appends(first)
    /\ req' = NoReq
    /\ loose' = TRUE
    /\ torn' = (torn \/ Overtaken)
    /\ UNCHANGED <<catalog, cache, baseline, run, changes, approved>>

\* The lock is not to be had (409), or the request fails.
Refuse ==
    /\ req # NoReq
    /\ req' = NoReq
    /\ UNCHANGED <<catalog, cache, pages, baseline, first, current, count, run, changes, approved, loose, torn>>

Next ==
    \/ \E t \in Tables : Change(t)
    \/ Expire
    \/ Generate \/ Regenerate \/ Incremental \/ Introspect
    \/ FinishBatch \/ FinishDeep \/ Fail \/ Cancel
    \/ Load \/ Edit \/ DeletePage \/ Verify \/ Rollback \/ Refuse

Spec == Init /\ [][Next]_vars

-----------------------------------------------------------------------------
\* "Verification binds to exact content": a flag, in the row and in every
\* version, is on the text it was given to, as edits, overtaking runs, reuse,
\* merges and rollbacks go; a reused text may have passed the guard since.
FlagsBound(t) ==
    \A p \in DOMAIN t :
        t[p].verified => \E a \in approved : a[1] = p /\ t[p].text \in {a[2], Guard(a[2])}
VerifiedSound == FlagsBound(pages) /\ FlagsBound(first) /\ FlagsBound(current)

\* "False (up to date)": when detection finds the catalogue unchanged, every
\* table has a page about it as it is, if the last writer of the row was a full
\* run or an incremental one that worked on what it had detected.
DetectSound ==
    baseline # None /\ ~Changed(catalog) /\ ~loose
        => \A t \in Present(catalog) : t \in DOMAIN pages /\ pages[t].text.of = catalog[t]

\* The row's texts are those of the version it calls current, whatever edits and
\* rollbacks meet a run, as long as no handler wrote a stale tree back.
TextTree(t) == [p \in DOMAIN t |-> t[p].text]
RowIsCurrent == ~torn => TextTree(pages) = TextTree(current)

\* fresh_database_info: it "stores the fresh payload so the following
\* incremental generate hits the cache instead of walking twice".  So an
\* incremental run documents what it has detected, where the catalogue is still
\* as it was then; it reads the payload of before the change instead.
IncrementalCatchesUp ==
    [][run.seen # None /\ run.step = "walked" /\ run'.step = "idle" /\ count' # count
         /\ catalog = run.seen
         => \A t \in run.force \cap Present(run.seen) :
               t \in DOMAIN pages' /\ pages'[t].text.of = run.seen[t]]_vars
=============================================================================
