---------------------------- MODULE MemoryIndex ----------------------------
(***************************************************************************)
(* The memory of a product: the chunks of knowledge_chunks                 *)
(* (memory/pgvector_backend.py), the terms of knowledge_graphs             *)
(* (memory/knowledge_graph.py), and the background tasks that bring both   *)
(* up to date with the documents (docgen/_common.py).  A task is scheduled *)
(* on the main event loop and nobody waits for it: several run at once,    *)
(* each on the texts it was given.  A source is a page of an artifact, the *)
(* artifact's blob or a knowledge node; its text is the number of the edit *)
(* that wrote it, Gone when there is none.                                 *)
(***************************************************************************)
EXTENDS Integers, FiniteSets, FiniteSetsExt, Functions, TLC

CONSTANTS Artifacts,  \* codebases and databases
          Nodes,      \* knowledge nodes, specs and links: one text each
          Pages,      \* page ids of an artifact
          Tasks,      \* background tasks that may run at once
          MaxEdits,   \* bound on the changes of documents and admin calls
          MaxFaults,  \* bound on failing calls and embedder changes
          None

ASSUME MemoryIds ==
  /\ Pages \subseteq Nat \ {0}
  /\ Artifacts \cap Nodes = {}
  /\ None \notin Artifacts \cup Nodes \cup Tasks

Blob == 0
Gone == 0
Absent == -1  \* a page without a node in the graph
Pinned == 1   \* dimension the embedding column was pinned to

PageSources == Artifacts \X Pages
Source == PageSources \cup ((Artifacts \cup Nodes) \X {Blob})
PagesOf(a) == {a} \X Pages
SourcesOf(a) == {s \in Source : s[1] = a}

VARIABLES
  doc,       \* text of every source, as stored in the artifact
  clock,     \* edits so far
  rows,      \* chunks stored for a source: [text, vec]
  task,      \* the background tasks
  graph,     \* per page: the text its terms come from, Gone: no terms
  lock,      \* holder of the graph write lock
  embedder,  \* dimension of the configured embedder
  faults,
  gaps       \* sources that a known gap of the protocol left behind

vars == <<doc, clock, rows, task, graph, lock, embedder, faults, gaps>>
docVars == <<doc, clock>>
memVars == <<rows, gaps>>
graphVars == <<graph, lock>>

Row(text, vec) == [text |-> text, vec |-> vec]
NoTxn == <<>>
Idle == [kind |-> "idle", at |-> "done"]

(* A task: the artifact or node it is about, the texts it was given, the   *)
(* sources still to index, those its listing or its terms are about, what  *)
(* its open transaction saw, and the terms and graph it works with.        *)
NewTask(kind, at, own, snap, todo) ==
  [kind |-> kind, at |-> at, own |-> own, snap |-> snap, todo |-> todo,
   scope |-> todo, out |-> "full", seen |-> NoTxn, terms |-> <<>>,
   base |-> <<>>]

Init ==
  /\ doc = [s \in Source |-> 1]
  /\ clock = 1
  \* an artifact indexed by its pages, or by its blob before pages existed
  /\ \E legacy \in BOOLEAN :
       rows = [s \in Source |->
         IF s[1] \in Nodes \/ (s \in PageSources) # legacy
         THEN {Row(1, "full")} ELSE {}]
  /\ task = [t \in Tasks |-> Idle]
  /\ graph = [s \in PageSources |-> Absent]
  /\ lock = None
  /\ embedder = Pinned
  /\ faults = 0
  /\ gaps = {}

(***************************************************************************)
(* Changes of the documents, and the tasks they schedule.                  *)
(***************************************************************************)

(* _schedule_indexing hands the coroutine to the main loop and returns. *)
Schedule(new) == \E t \in Tasks :
  /\ task[t] = Idle
  /\ task' = [task EXCEPT ![t] = new]

Changed(d) ==
  /\ clock < MaxEdits /\ clock' = clock + 1
  /\ doc' = d

(* One text replaced in an editor: a page, the blob, a node, a spec. *)
EditText(s) ==
  /\ Changed([doc EXCEPT ![s] = clock + 1])
  /\ Schedule(NewTask("index", "embed", s[1], [p \in {s} |-> clock + 1], {s}))
  /\ UNCHANGED <<memVars, graphVars, embedder, faults>>

(* Changes memory never hears of: a rollback, an upload, a deletion, a     *)
(* text other than a single page that became empty.                        *)
EditUnseen(s) ==
  /\ \E text \in {Gone, clock + 1} : Changed([doc EXCEPT ![s] = text])
  /\ gaps' = gaps \cup {s}
  /\ UNCHANGED <<rows, embedder, task, graphVars, faults>>

(* Clearing one page prunes the chunks of that page alone. *)
ClearPage(s) ==
  /\ doc[s] # Gone
  /\ Changed([doc EXCEPT ![s] = Gone])
  /\ Schedule(NewTask("clear", "list", s[1], [p \in {s} |-> Gone], {s}))
  /\ UNCHANGED <<memVars, graphVars, embedder, faults>>

Renewed(S, E) == [s \in Source |-> IF s \in E THEN Gone
                                   ELSE IF s \in S THEN clock + 1 ELSE doc[s]]

(* Every page is indexed, or only those the run regenerated; which of the  *)
(* artifact's pages have a text is known from the pages as handed over.    *)
PagesTask(a, d, only) ==
  LET given == Restrict(d, PagesOf(a))
      indexable == {s \in PagesOf(a) : d[s] # Gone}
  IN IF only = PagesOf(a) THEN NewTask("pages", "prune", a, given, indexable)
     ELSE NewTask("pages", "list", a, given, only)

(* A run of docgen: an empty page is never reused. *)
Generate(a) ==
  \E S \in SUBSET PagesOf(a) :
    LET d == Renewed(S, {}) IN
    /\ \A s \in PagesOf(a) : d[s] # Gone
    /\ Changed(d)
    /\ Schedule(PagesTask(a, d, S))
    /\ UNCHANGED <<memVars, graphVars, embedder, faults>>

(* The wholesale edit: every page at once, some of them now empty. *)
ReplacePages(a) ==
  \E S, E \in SUBSET PagesOf(a) :
    LET d == Renewed(S, E) IN
    /\ S \cap E = {} /\ E # {}
    /\ Changed(d)
    /\ IF \A s \in PagesOf(a) : d[s] = Gone
       THEN gaps' = gaps \cup PagesOf(a) /\ UNCHANGED task
       ELSE Schedule(PagesTask(a, d, PagesOf(a))) /\ UNCHANGED gaps
    /\ UNCHANGED <<rows, embedder, graphVars, faults>>

(* The two admin endpoints. *)
Admin ==
  /\ clock < MaxEdits /\ clock' = clock + 1
  /\ \E call \in {<<"reindex", "load">>, <<"rebuild", "collect">>} :
       Schedule(NewTask(call[1], call[2], None, <<>>, {}))
  /\ UNCHANGED <<doc, memVars, graphVars, embedder, faults>>

Fault == faults < MaxFaults /\ faults' = faults + 1

(* Another embedding model: its vectors have another dimension. *)
SwitchEmbedder ==
  /\ Fault
  /\ embedder' = 1 - embedder
  /\ UNCHANGED <<docVars, memVars, task, graphVars>>

(***************************************************************************)
(* Listing and pruning.                                                    *)
(***************************************************************************)

End(t) == task' = [task EXCEPT ![t] = Idle]
Indexable(k) == {s \in DOMAIN k.snap : k.snap[s] # Gone}
ListPageSources(a) == {s \in PagesOf(a) : rows[s] # {}}

(* A first page-granular run indexes all pages, so that the prune below    *)
(* drops nothing.  A single page stored since makes it look like a later   *)
(* one: the pages that only the blob covers are then left out.             *)
WantedOnly(k, listed) == k.todo
Wanted(k, listed) == IF listed = {} THEN Indexable(k) ELSE k.todo

Unbootstrapped(k, listed) ==
  IF listed = {} THEN {} ELSE {s \in Indexable(k) \ k.todo : rows[s] = {}}

(* A listing that fails reads as an artifact without page sources. *)
List(t) ==
  LET k == task[t] IN
  /\ k.at = "list"
  /\ \E listed \in {ListPageSources(k.own), {}} :
       /\ IF listed = ListPageSources(k.own) THEN UNCHANGED faults ELSE Fault
       /\ IF k.kind = "pages"
          THEN /\ task' = [task EXCEPT ![t].at = "prune",
                             ![t].todo = Wanted(k, listed),
                             ![t].scope = Wanted(k, listed)]
               /\ gaps' = gaps \cup Unbootstrapped(k, listed)
          ELSE /\ task' = [task EXCEPT ![t].at = "prune",
                             ![t].scope = listed \ k.todo]
               /\ gaps' = gaps \cup (ListPageSources(k.own) \ listed)
  /\ UNCHANGED <<docVars, rows, embedder, graphVars>>

(* prune_stale_sources deletes everything of the artifact but these: for   *)
(* the clearing of one page, the blob and the pages that were listed.      *)
Keep(k) == IF k.kind = "pages" THEN Indexable(k)
                               ELSE k.scope \cup {<<k.own, Blob>>}

(* Pages that came to be between the snapshot, or the listing, and the     *)
(* prune: their chunks are deleted with those of the stale ones.           *)
Overtaken(k) ==
  {s \in PagesOf(k.own) : doc[s] # Gone /\
     IF k.kind = "pages" THEN k.snap[s] = Gone
     ELSE rows[s] # {} /\ s \notin k.scope}

Prune(t) ==
  LET k == task[t]
      stale == SourcesOf(k.own) \ Keep(k)
  IN
  /\ k.at = "prune"
  /\ \/ /\ rows' = [s \in Source |-> IF s \in stale THEN {} ELSE rows[s]]
        /\ gaps' = (gaps \ {s \in stale : s[2] = Blob \/ doc[s] = Gone})
                   \cup Overtaken(k)
        /\ UNCHANGED faults
     \/ Fault /\ gaps' = gaps \cup stale /\ UNCHANGED rows
  /\ IF k.kind = "clear" THEN End(t)
     ELSE task' = [task EXCEPT ![t].at =
                     IF k.todo = {} THEN "extract" ELSE "embed"]
  /\ UNCHANGED <<docVars, embedder, graphVars>>

(***************************************************************************)
(* Embedding and storing.  A page is upserted on its own; a reindex loads  *)
(* every document, embeds all of them and swaps the product's chunks.      *)
(***************************************************************************)

(* _extract_index_items: the pages of an artifact, its blob without any. *)
Item(d, s) ==
  /\ d[s] # Gone
  /\ s[1] \in Artifacts /\ s[2] = Blob => \A p \in PagesOf(s[1]) : d[p] = Gone

Load(t) ==
  LET items == {s \in Source : Item(doc, s)} IN
  /\ task[t].at = "load"
  /\ IF items = {} THEN End(t)
     ELSE task' = [task EXCEPT ![t].at = "embed", ![t].todo = items,
                               ![t].snap = Restrict(doc, items)]
  /\ UNCHANGED <<docVars, memVars, graphVars, embedder, faults>>

NextPage(S) == CHOOSE s \in S : \A u \in S : s[2] <= u[2]
Batch(k) == IF k.kind = "reindex" THEN k.todo ELSE {NextPage(k.todo)}
Deleted(k) == IF k.kind = "reindex" THEN Source ELSE Batch(k)

(* The page is done, well or not: on to the next one, then to the terms. *)
Advance(t) ==
  LET k == task[t] rest == k.todo \ Batch(k) IN
  IF k.kind # "pages" THEN End(t)
  ELSE task' = [task EXCEPT ![t].todo = rest, ![t].seen = NoTxn,
                  ![t].out = "full",
                  ![t].at = IF rest = {} THEN "extract" ELSE "embed"]

(* _embed_batch never raises: texts it could not embed have no vector.     *)
(* The upsert drops those, and does nothing without a vector at all; the   *)
(* reindex stores them without one.                                        *)
Embed(t) ==
  LET k == task[t] IN
  /\ k.at = "embed"
  /\ \/ /\ task' = [task EXCEPT ![t].at = "delete"]
        /\ UNCHANGED <<gaps, faults>>
     \/ /\ Fault
        /\ \E out \in {"part", "blind"} :
             IF out = "blind" /\ k.kind # "reindex"
             THEN Advance(t) /\ gaps' = gaps \cup Batch(k)
             ELSE /\ task' = [task EXCEPT ![t].at = "delete", ![t].out = out]
                  /\ UNCHANGED gaps
  /\ UNCHANGED <<docVars, rows, embedder, graphVars>>

(* The DELETE sees the chunks committed so far.  Vectors of another        *)
(* dimension than the column's are refused, and the transaction with them. *)
Delete(t) ==
  LET k == task[t] IN
  /\ k.at = "delete"
  /\ IF embedder # Pinned /\ k.out # "blind"
     THEN Advance(t) /\ gaps' = gaps \cup Batch(k)
     ELSE /\ task' = [task EXCEPT ![t].at = "commit",
                        ![t].seen = Restrict(rows, Deleted(k))]
          /\ UNCHANGED gaps
  /\ UNCHANGED <<docVars, rows, embedder, graphVars, faults>>

Inserted(k, s) == IF s \in Batch(k) THEN {Row(k.snap[s], k.out)} ELSE {}
Swapped(k, s) == (rows[s] \ k.seen[s]) \cup Inserted(k, s)

(* The transaction was alone on the source and stored its present text. *)
Alone(t, s) ==
  /\ rows[s] = task[t].seen[s]
  /\ \A u \in Tasks \ {t} :
       task[u].at = "commit" => s \notin DOMAIN task[u].seen

Exact(t, s) ==
  LET k == task[t] IN
  /\ Alone(t, s)
  /\ IF s \in Batch(k) THEN k.snap[s] = doc[s] /\ k.out = "full"
                       ELSE ~Item(doc, s)

Commit(t) ==
  LET k == task[t] over == Deleted(k) IN
  /\ k.at = "commit"
  /\ \/ /\ rows' = [s \in Source |->
                      IF s \in over THEN Swapped(k, s) ELSE rows[s]]
        /\ gaps' = (gaps \ over) \cup {s \in over : ~Exact(t, s)}
        /\ UNCHANGED faults
     \/ Fault /\ gaps' = gaps \cup Batch(k) /\ UNCHANGED rows
  /\ Advance(t)
  /\ UNCHANGED <<docVars, embedder, graphVars>>

(***************************************************************************)
(* The knowledge graph: terms are extracted outside the lock and merged    *)
(* into the stored graph under it; a rebuild replaces the graph.           *)
(***************************************************************************)

Collect(t) ==
  LET pages == {s \in PageSources : doc[s] # Gone} IN
  /\ task[t].at = "collect"
  /\ IF pages = {} THEN End(t)
     ELSE task' = [task EXCEPT ![t].at = "extract", ![t].scope = pages,
                               ![t].snap = Restrict(doc, pages)]
  /\ UNCHANGED <<docVars, memVars, graphVars, embedder, faults>>

(* A failed batch yields no terms for its pages; without a model, in time, *)
(* or with the graph switched off nothing is merged.                       *)
Extract(t) ==
  LET k == task[t] scope == k.scope \cap Indexable(k)
      terms(failed) == [s \in scope |->
                          IF s \in failed THEN Gone ELSE k.snap[s]]
  IN
  /\ k.at = "extract"
  /\ \E failed \in SUBSET scope :
       /\ IF failed = {} THEN UNCHANGED faults ELSE Fault
       /\ \/ task' = [task EXCEPT ![t].at = "lock", ![t].terms = terms(failed)]
          \/ failed = scope /\ End(t)
  /\ UNCHANGED <<docVars, memVars, graphVars, embedder>>

(* A task that does not wait for the others' merges. *)
LockGraphFreely(t) ==
  /\ task[t].at = "lock"
  /\ lock' = t /\ UNCHANGED faults
  /\ task' = [task EXCEPT ![t].at = "save", ![t].base = graph]
  /\ UNCHANGED <<docVars, memVars, graph, embedder>>

(* The graph is read again under the lock, then written. *)
LockGraph(t) ==
  /\ task[t].at = "lock"
  /\ lock = None
  /\ \/ /\ lock' = t /\ UNCHANGED faults
        /\ task' = [task EXCEPT ![t].at = "save", ![t].base = graph]
     \/ Fault /\ End(t) /\ UNCHANGED lock
  /\ UNCHANGED <<docVars, memVars, graph, embedder>>

UpsertPages(k, g) == [s \in PageSources |->
  IF s \in Indexable(k) /\ g[s] = Absent THEN Gone ELSE g[s]]
SetPageTerms(k, g) == [s \in PageSources |->
  IF s \in DOMAIN k.terms THEN k.terms[s] ELSE g[s]]
PruneArtifactPages(k, g) == [s \in PageSources |->
  IF s[1] = k.own /\ s \notin Indexable(k) THEN Absent ELSE g[s]]
NewGraph == [s \in PageSources |-> Absent]

Merged(k, g) ==
  IF k.kind = "rebuild" THEN SetPageTerms(k, NewGraph)
  ELSE PruneArtifactPages(k, SetPageTerms(k, UpsertPages(k, g)))

FailsHolding == Fault /\ UNCHANGED graphVars
Fails == Fault /\ lock' = None /\ UNCHANGED graph

SaveGraph(t) ==
  LET k == task[t] IN
  /\ k.at = "save"
  /\ \/ graph' = Merged(k, k.base) /\ lock' = None /\ UNCHANGED faults
     \/ Fails
  /\ End(t)
  /\ UNCHANGED <<docVars, memVars, embedder>>

Step(t) ==
  \/ List(t) \/ Prune(t) \/ Load(t) \/ Embed(t) \/ Delete(t) \/ Commit(t)
  \/ Collect(t) \/ Extract(t) \/ LockGraph(t) \/ SaveGraph(t)

Next ==
  \/ \E s \in Source : EditText(s) \/ EditUnseen(s)
  \/ \E s \in PageSources : ClearPage(s)
  \/ \E a \in Artifacts : Generate(a) \/ ReplacePages(a)
  \/ Admin \/ SwitchEmbedder
  \/ \E t \in Tasks : Step(t)

(* Coroutines of the main loop run on, and every call in them returns. *)
Spec == Init /\ [][Next]_vars /\ \A t \in Tasks : WF_vars(Step(t))

-----------------------------------------------------------------------------

(* What a question finds of a source: by meaning, its chunks with a vector *)
(* (Whole when none was left out), by name, all of them.                   *)
Cosine(s) == {r.text : r \in {x \in rows[s] : x.vec # "blind"}}
Lexical(s) == {r.text : r \in rows[s]}
Whole(s) == \A r \in rows[s] : r.vec = "full"

(* Recall follows the documents: once no task is at work on a source, its  *)
(* chunks are those of its present text, whole and with their vectors, or  *)
(* none when it has no text (the blob of an artifact with pages need not   *)
(* be stored, nor a page the blob still holds) -- except behind the gaps   *)
(* the actions above name: changes memory is not told of, failing calls,   *)
(* two transactions open on one source, a task overtaken by a newer text,  *)
(* a first run that a single stored page disguised.                        *)
Busy(s) == \E t \in Tasks :
  task[t].at \in {"list", "prune", "load", "embed", "delete", "commit"}
    /\ task[t].own \in {None, s[1]}

Optional(s) ==
  s[1] \in Artifacts /\ (s[2] = Blob \/ rows[<<s[1], Blob>>] # {})

RecallCurrent == \A s \in Source \ gaps : ~Busy(s) =>
  /\ Cosine(s) = Lexical(s) /\ Whole(s)
  /\ Cosine(s) \subseteq {doc[s]} \ {Gone}
  /\ doc[s] # Gone /\ ~Optional(s) => doc[s] \in Cosine(s)

(* Merges of the graph do not lose each other: whatever ran while a task   *)
(* extracted and saved, the graph it leaves is its terms merged into the   *)
(* graph as stored at that moment.                                         *)
MergesKept == [][\A t \in Tasks :
  task[t].at = "save" /\ task'[t] # task[t] /\ faults' = faults
    => graph' = Merged(task[t], graph)]_vars

(* Every scheduled task comes to an end, whatever fails in it. *)
Settles == \A t \in Tasks : task[t] # Idle ~> task[t] = Idle

(* "a concurrent post-indexation merge between extraction and save is      *)
(* neither lost nor clobbered (Q-4)": a rebuild never leaves the terms of  *)
(* an older text where a merge had stored those of a newer one.            *)
RebuildKeepsMerges == [][\A t \in Tasks :
  task[t].kind = "rebuild" /\ task'[t] = Idle /\ faults' = 0
    => \A s \in PageSources : graph'[s] >= graph[s]]_vars
=============================================================================
