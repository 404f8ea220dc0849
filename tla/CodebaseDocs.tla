---------------------------- MODULE CodebaseDocs ----------------------------
(***************************************************************************)
(* Diff regeneration of a codebase's wiki, api/docgen/codebase.py with the *)
(* checkpoints of _common.py, the plan and fingerprints of verification.py *)
(* and change detection of incremental.py.                                 *)
(*                                                                         *)
(* A page is known by its source: the commit its text was made from and,   *)
(* for a section, the subpages it links.  Everything here happens under    *)
(* the entity lock, so edits and rollbacks fall between runs; the remote   *)
(* repository and the local checkout, which artifacts of one repository    *)
(* share without a lock, move at any time.                                 *)
(* A fingerprint is over the checkout's tree as planned and the page's     *)
(* source files as verified; where the two differ, or the page has no      *)
(* source files or no provenance, no later plan can match it, and `print`  *)
(* is None.  Prompts and model do not change.                              *)
(***************************************************************************)
EXTENDS Integers, Sequences, FiniteSets

CONSTANTS
    NSections,    \* sections, in the order of SECTION_ORDER
    Families,     \* those that have subpages
    Slugs,        \* what the decomposer may call a subpage
    Main,         \* the page of the section itself
    Revs,         \* commits of the repository
    None,         \* no commit
    Unsourced,    \* the pages whose verified text may have no source files
    Shared,       \* whether another artifact documents the same repository
    MaxVersions,  \* bound on the versions
    Kept          \* bound on those a rollback can restore, the oldest

Sections == 1..NSections

ASSUME CodebaseAssumption ==
    /\ NSections \in Nat /\ Families \subseteq Sections
    /\ Unsourced \subseteq Slugs \cup {Main}
    /\ Main \notin Slugs /\ None \notin Revs
    /\ Shared \in BOOLEAN /\ MaxVersions \in Nat /\ Kept \in Nat

VARIABLES
    pages,      \* the row's pages, by unit
    baseline,   \* source_state["baseline"]
    versions,   \* the page trees of the version history, of which the ones
                \* that are neither Kept nor current are left out
    count,      \* how many versions there are
    tip,        \* HEAD of the remote
    checkout,   \* the commit in the local clone
    run,        \* locals of generate_codebase_docs
    paid,       \* history: what an interrupted run has checkpointed
    shaken      \* history: a run's checkout was changed under it

vars == <<pages, baseline, versions, count, tip, checkout, run, paid, shaken>>

Units == (Sections \X {Main}) \cup (Families \X Slugs)

Page == [text : {"blank", "unavailable", "written", "edited"},
         source : Revs \cup {None},       \* what the text was made from
         links : SUBSET Slugs,            \* the subpages it was written for
         print : Revs \cup {None}]        \* the commit its fingerprint is of

Blank == [text |-> "blank", source |-> None, links |-> {}, print |-> None]

Empty == [u \in {} |-> Blank]
Trees == UNION {[some -> Page] : some \in SUBSET Units}

Plans == [Families -> SUBSET Slugs]
Commit == Revs \cup {None}
RunRecord == [step : {"idle", "clone", "plan", "agents", "units"}, force : SUBSET Units,
              base : Commit, hash : Commit, read : Commit,
              plan : Plans, reuse : Trees, done : Trees]
NoRun == [step |-> "idle", force |-> {}, base |-> None, hash |-> None, read |-> None,
          plan |-> [s \in Families |-> {}], reuse |-> Empty, done |-> Empty]

TypeOK ==
    /\ pages \in Trees
    /\ baseline \in Commit
    /\ count \in 0..MaxVersions
    /\ versions \in Seq(Trees)
    /\ Len(versions) = IF count <= Kept THEN count ELSE Kept + 1
    /\ tip \in Revs
    /\ checkout \in Commit
    /\ run \in RunRecord
    /\ paid \subseteq Units
    /\ shaken \in BOOLEAN

Init ==
    /\ pages = Empty
    /\ baseline = None
    /\ versions = <<>> /\ count = 0
    /\ tip \in Revs
    /\ checkout = None
    /\ run = NoRun
    /\ paid = {}
    /\ shaken = FALSE

-----------------------------------------------------------------------------
(* Plans and fingerprints *)

\* A text that was made from a commit, edited since or not.
Documents(p) == p.text \in {"written", "edited"} /\ p.source # None

\* _child_units_from_old_pages: the subpages of a section that have content.
Stored(t, s) == {k \in Slugs : <<s, k>> \in DOMAIN t /\ t[<<s, k>>].text # "blank"}

\* The child set a unit's prompt hash signs.
Signed(u, children) == IF u[2] = Main /\ u[1] \in Families THEN children ELSE {}

ReusableByFiles(t, u, rev) ==      \* bug: a fingerprint without the tree
    /\ u \in DOMAIN t
    /\ t[u].print # None /\ t[u].text # "blank"
    /\ t[u].links = Signed(u, Stored(t, u[1]))

ReusableUnsigned(t, u, rev) ==     \* bug: a section does not sign its subpages
    /\ u \in DOMAIN t
    /\ t[u].print = rev /\ t[u].text # "blank"

\* plan_regeneration: the stored fingerprint matches the one computed anew.
Reusable(t, u, rev) ==
    /\ u \in DOMAIN t
    /\ t[u].print = rev /\ t[u].text # "blank"
    /\ t[u].links = Signed(u, Stored(t, u[1]))

\* The units of a plan, and their order: subpages before their section.
UnitsOf(plan) == (Sections \X {Main}) \cup {u \in Families \X Slugs : u[2] \in plan[u[1]]}
Before(u) == {w \in UnitsOf(run.plan) : w[1] < u[1] \/ (w[1] = u[1] /\ u[2] = Main /\ w # u)}

-----------------------------------------------------------------------------
(* Versions *)

Current == IF versions = <<>> THEN Empty ELSE versions[Len(versions)]

\* ensure_baseline_version
Based == IF count = 0 /\ pages # Empty THEN <<pages>> ELSE versions
CountPlain == count                \* bug: the version for the old row is not numbered
CountBased == IF count = 0 /\ pages # Empty THEN 1 ELSE count

\* No run; a disturbed one was the last that is looked at.
Idle == run.step = "idle" /\ ~shaken

\* append_version; a version reads as the page tree it was made from.
Appends(t) ==
    /\ CountBased < MaxVersions
    /\ count' = CountBased + 1
    /\ versions' = Append(SubSeq(Based, 1, IF CountBased < Kept THEN CountBased ELSE Kept), t)
    /\ pages' = t

\* update_codebase_content: one page's text, by the user; it may be empty.
EditPage(u) ==
    /\ Idle /\ u \in DOMAIN pages
    /\ \/ Appends([pages EXCEPT ![u].text = "edited"])
       \/ Appends([pages EXCEPT ![u].text = "blank", ![u].source = None])
    /\ paid' = {}
    /\ UNCHANGED <<baseline, tip, checkout, run, shaken>>

\* ... or a whole tree, here one without a page.
RemovePage(u) ==
    /\ Idle /\ u \in DOMAIN pages
    /\ Appends([w \in DOMAIN pages \ {u} |-> pages[w]])
    /\ paid' = {}
    /\ UNCHANGED <<baseline, tip, checkout, run, shaken>>

\* restore_version
Rollback(v) ==
    /\ Idle /\ v \in DOMAIN versions /\ v <= Kept
    /\ Appends(versions[v])
    /\ paid' = {}
    /\ UNCHANGED <<baseline, tip, checkout, run, shaken>>

-----------------------------------------------------------------------------
(* The repository *)

Push ==
    /\ tip' \in Revs \ {tip}
    /\ UNCHANGED <<pages, baseline, versions, count, checkout, run, paid, shaken>>

\* Another artifact's run fetches and resets the shared clone; that matters
\* only while this one's run reads it, and only one such run is looked at.
OtherRefresh ==
    /\ Shared /\ ~shaken /\ checkout # tip
    /\ run.step \in {"plan", "agents", "units"}
    /\ checkout' = tip
    /\ shaken' = TRUE
    /\ UNCHANGED <<pages, baseline, versions, count, tip, run, paid>>

-----------------------------------------------------------------------------
(* A run: _run_docgen_job_async and generate_codebase_docs *)

Starts(force) ==
    /\ Idle
    /\ CountBased < MaxVersions
    /\ versions' = Based /\ count' = CountBased
    /\ run' = [NoRun EXCEPT !.step = "clone", !.force = force]
    /\ UNCHANGED <<pages, baseline, tip, checkout, paid, shaken>>

Generate == Starts({})

\* A page, or the page and its subpages.  One that is gone by the time the job
\* runs is ignored: the run is as Generate.
Regenerate(u) ==
    /\ u \in DOMAIN pages
    /\ \/ Starts({u})
       \/ u[2] = Main /\ Starts({w \in DOMAIN pages : w[1] = u[1]})

\* _detect_codebase
Detected == IF baseline = None THEN "unknown"
            ELSE IF tip = baseline THEN "unchanged" ELSE "changed"

\* The impact is whatever pages the diff and the LLM name; none is everything.
Incremental ==
    /\ Detected = "changed"
    /\ \E impact \in SUBSET DOMAIN pages : Starts(impact)

\* _create_repo with force_refresh gives the tip, from a fresh clone if need be,
\* or raises; then head_commit.
Clone ==
    /\ run.step = "clone"
    /\ checkout' = tip
    /\ run' = [run EXCEPT !.step = "plan", !.base = tip]
    /\ UNCHANGED <<pages, baseline, versions, count, tip, paid, shaken>>

\* The tree is read, for the standard LLM, and hashed, and sections planned.
\* One that is reused, as far as its sources go, keeps its subpages; another is
\* decomposed anew, to nothing when that fails, and a subpage may come back with
\* the title, kind and focus that its prompt hash signs, or with others.
Plan ==
    /\ run.step = "plan"
    /\ \E plan \in Plans, same \in SUBSET (Families \X Slugs) :
          LET kept == {s \in Sections : Reusable(pages, <<s, Main>>, checkout)}
              reuse == {u \in UnitsOf(plan) : /\ Reusable(pages, u, checkout)
                                              /\ u[1] \in kept \/ u \in same}
          IN /\ \A s \in Families \cap kept : plan[s] = Stored(pages, s)
             /\ run' = [run EXCEPT !.step = "agents", !.hash = checkout, !.plan = plan,
                           !.reuse = [u \in reuse \ run.force |-> pages[u]]]
    /\ UNCHANGED <<pages, baseline, versions, count, tip, checkout, paid, shaken>>

\* The orchestrated and parallel unit agents read the clone.
Agents ==
    /\ run.step = "agents"
    /\ run' = [run EXCEPT !.step = "units", !.read = checkout]
    /\ UNCHANGED <<pages, baseline, versions, count, tip, checkout, paid, shaken>>

\* verify_section takes the fingerprint of each unit, also of a reused one.
Fingerprint(sourced) == IF sourced /\ checkout = run.hash THEN run.hash ELSE None

\* A unit written by an agent, or in the loop by the standard LLM from the
\* files read at first.
Generated(u, sourced, source) ==
    [text |-> "written", source |-> source,
     links |-> Signed(u, IF u[1] \in Families THEN run.plan[u[1]] ELSE {}),
     print |-> Fingerprint(sourced)]

Unavailable == [Blank EXCEPT !.text = "unavailable"]

With(done, u, page) == [w \in DOMAIN done \cup {u} |-> IF w = u THEN page ELSE done[w]]

PartialBare(done) ==               \* bug: a checkpoint stores no provenance
    [w \in UnitsOf(run.plan) |->
        IF w \in DOMAIN done THEN [done[w] EXCEPT !.print = None]
        ELSE IF w \in DOMAIN run.reuse THEN [run.reuse[w] EXCEPT !.print = None]
        ELSE Blank]

\* _units_pages of what is finished and what will be reused, with the
\* provenance of what is finished.
Partial(done) ==
    [w \in UnitsOf(run.plan) |->
        IF w \in DOMAIN done THEN done[w]
        ELSE IF w \in DOMAIN run.reuse THEN [run.reuse[w] EXCEPT !.print = None]
        ELSE Blank]

Sourced(t) == {u \in DOMAIN t : t[u].print # None /\ t[u].text # "blank"}

\* _checkpoint_partial_docs.  One that fails is swallowed; it leaves the row as
\* an interruption before it does.
Checkpoint(done) == pages' = Partial(done) /\ paid' = Sourced(done)

\* Units are finished one after another, subpages before their section.
Turn(u) ==
    /\ run.step = "units"
    /\ u \in UnitsOf(run.plan) \ DOMAIN run.done
    /\ Before(u) \subseteq DOMAIN run.done

\* The healing of a reused text leaves a complete text as it is.
Reuse(u) ==
    /\ Turn(u) /\ u \in DOMAIN run.reuse
    /\ run' = [run EXCEPT !.done = With(@, u, [run.reuse[u] EXCEPT !.print = Fingerprint(TRUE)])]
    /\ UNCHANGED <<pages, baseline, versions, count, tip, checkout, paid, shaken>>

Write(u) ==
    /\ Turn(u) /\ u \notin DOMAIN run.reuse
    /\ \E sourced \in {TRUE} \cup {u[2] \notin Unsourced}, source \in {run.hash, run.read} :
          LET done == With(run.done, u, Generated(u, sourced, source)) IN
             /\ run' = [run EXCEPT !.done = done]
             /\ Checkpoint(done)
    /\ UNCHANGED <<baseline, versions, count, tip, checkout, shaken>>

\* No path gave a text.
Fails(u) ==
    /\ Turn(u) /\ u \notin DOMAIN run.reuse
    /\ run' = [run EXCEPT !.done = With(@, u, Unavailable)]
    /\ UNCHANGED <<pages, baseline, versions, count, tip, checkout, paid, shaken>>

Complete ==
    /\ run.step = "units" /\ DOMAIN run.done = UnitsOf(run.plan)
    /\ \E s \in Sections : run.done[<<s, Main>>].text # "unavailable"

\* Pages, source_state and version are committed together.
Finish ==
    /\ Complete
    /\ Appends(run.done)
    /\ baseline' = run.base
    /\ run' = NoRun
    /\ paid' = {}
    /\ UNCHANGED <<tip, checkout, shaken>>

\* The run raises, or its process dies: the row stays as checkpointed.
Interrupt ==
    /\ run.step # "idle"
    /\ run' = NoRun
    /\ UNCHANGED <<pages, baseline, versions, count, tip, checkout, paid, shaken>>

\* restore_entity_from_current_version
Cancel ==
    /\ run.step # "idle"
    /\ pages' = Current
    /\ run' = NoRun
    /\ paid' = {}
    /\ UNCHANGED <<baseline, versions, count, tip, checkout, shaken>>

Next ==
    \/ \E u \in Units : \/ EditPage(u) \/ RemovePage(u) \/ Regenerate(u)
                        \/ Reuse(u) \/ Write(u) \/ Fails(u)
    \/ \E v \in 1..Kept : Rollback(v)
    \/ Push \/ OtherRefresh
    \/ Generate \/ Incremental \/ Clone \/ Plan \/ Agents
    \/ Finish \/ Interrupt \/ Cancel

Spec == Init /\ [][Next]_vars

-----------------------------------------------------------------------------
Uniform(t) == \A u, w \in DOMAIN t : Documents(t[u]) /\ Documents(t[w]) => t[u].source = t[w].source

\* A documentation never mixes commits: all texts of the row, also of one left
\* by an interrupted run, and of every version were made from one commit, as
\* long as no other artifact's run has changed a run's checkout.
OneCommit ==
    ~shaken => Uniform(pages) /\ \A v \in DOMAIN versions : Uniform(versions[v])

\* When a run has finished, every section that has a text was written for, and
\* links, exactly the subpages there are.
FamilyCurrent ==
    [][Finish => \A s \in Families :
          Documents(pages'[<<s, Main>>])
             => pages'[<<s, Main>>].links = {k \in Slugs : <<s, k>> \in DOMAIN pages'}]_vars

\* "an interruption at unit N keeps units 1..N-1 in the DB, and the rerun
\* reuses them", as far as it is true: what an interrupted run had checkpointed
\* with its sources is reusable at the commit it was made from, sections and the
\* subpages of finished sections, until the pages are changed otherwise.  A page
\* that the user had emptied and written anew has no source, and is among them.
ResumeKeeps ==
    ~shaken => \E rev \in Revs : \A u \in paid :
        /\ u \in DOMAIN pages /\ pages[u].source \in {rev, None}
        /\ <<u[1], Main>> \in paid => Reusable(pages, u, rev)

\* incremental_docgen_update: "changed -> only the impacted pages regenerate",
\* and of the other runs with forced pages "unchanged codebase units still come
\* back".  A section that is not forced, and that only a new commit can have
\* invalidated since it was written, is reused.
IncrementalScoped ==
    [][Plan /\ run.force # {} =>
         \A s \in Sections :
            LET u == <<s, Main>> IN
              (/\ u \in DOMAIN pages \ run.force
               /\ pages[u].print # None /\ Reusable(pages, u, pages[u].print))
                  => u \in DOMAIN run'.reuse]_vars

\* _checkpoint_partial_docs: "the checkpoint stores exactly the
\* provenance/fingerprint payload the final persist would": what the run is
\* going to reuse can still be reused if it is interrupted.
CheckpointKeepsReuse ==
    \A u \in DOMAIN run.reuse : u \in DOMAIN pages /\ pages[u].print # None
=============================================================================
