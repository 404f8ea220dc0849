----------------------------- MODULE MemoryProofs -----------------------------
(***************************************************************************)
(* Machine-checked proofs about MemoryIndex, for any artifacts, nodes,     *)
(* pages and background tasks, and any number of edits and faults.         *)
(***************************************************************************)
EXTENDS MemoryIndex, WellFoundedInduction, TLAPS

Outcomes == {"full", "part", "blind"}
Chunks == [text : Nat, vec : Outcomes]
Graphs == [PageSources -> Int]
Functions(V) == {<<>>} \cup UNION {[S -> V] : S \in SUBSET Source}

TaskRecord ==
  [kind : {"index", "pages", "clear", "reindex", "rebuild"},
   at : {"list", "prune", "load", "embed", "delete", "commit", "collect", "extract",
         "lock", "save"},
   own : Artifacts \cup Nodes \cup {None}, snap : Functions(Nat),
   todo : SUBSET Source, scope : SUBSET Source, out : Outcomes,
   seen : Functions(SUBSET Chunks), terms : Functions(Nat), base : {<<>>} \cup Graphs]

TypeOK ==
  /\ doc \in [Source -> Nat] /\ clock \in Nat
  /\ rows \in [Source -> SUBSET Chunks]
  /\ task \in [Tasks -> {Idle} \cup TaskRecord]
  /\ graph \in Graphs /\ lock \in Tasks \cup {None}
  /\ embedder \in Int /\ faults \in Nat /\ gaps \subseteq Source

(* Which steps a task of a kind has, and what it holds at them.            *)
Shape(k) ==
  /\ k.kind = "index" =>
       k.at \in {"embed", "delete", "commit"} /\ \A r, s \in k.todo : r = s
  /\ k.kind = "clear" =>
       /\ k.at \in {"list", "prune"}
       /\ k.own \in Artifacts /\ k.todo \subseteq PagesOf(k.own)
       /\ k.at = "prune" => k.scope \cap k.todo = {}
  /\ k.kind = "pages" =>
       /\ k.at \in {"list", "prune", "embed", "delete", "commit", "extract", "lock", "save"}
       /\ k.own \in Artifacts
       /\ k.snap \in [PagesOf(k.own) -> Nat] /\ k.todo \subseteq Indexable(k)
  /\ k.kind = "reindex" => k.at \in {"load", "embed", "delete", "commit"}
  /\ k.kind = "rebuild" => k.at \in {"collect", "extract", "lock", "save"}
  /\ k.at \in {"embed", "delete", "commit"} =>
       /\ k.todo # {}
       /\ k.kind # "reindex" => k.todo \subseteq SourcesOf(k.own)
       /\ \A s \in k.todo : s \in DOMAIN k.snap /\ k.snap[s] \in Nat \ {Gone}
  /\ k.at \in {"extract", "lock", "save"} =>
       \A s \in DOMAIN k.snap : k.snap[s] \in Nat
  /\ k.at \in {"lock", "save"} => \A s \in DOMAIN k.terms : k.terms[s] \in Nat

Shapes == \A t \in Tasks : task[t] # Idle => Shape(task[t])

(* What is stored of a source is its text, whole; nothing without a text,  *)
(* and something with one unless recall can do without.                    *)
Good(s) ==
  /\ rows[s] \subseteq {Row(doc[s], "full")}
  /\ doc[s] = Gone => rows[s] = {}
  /\ doc[s] # Gone /\ ~Optional(s) => rows[s] # {}

(* The task has yet to store or to prune the source.                       *)
Pending(t, s) ==
  LET k == task[t] IN
  \/ k.kind \in {"index", "pages"} /\ k.at \in {"embed", "delete", "commit"} /\ s \in k.todo
  \/ /\ k.kind = "pages" /\ k.at \in {"list", "prune"}
     /\ s \in SourcesOf(k.own) \ (Indexable(k) \ k.todo)
  \/ k.kind = "clear" /\ s \in k.todo /\ doc[s] = Gone

(* Every source is as it should be, or somebody is on the way to it, or a  *)
(* known gap left it behind.                                               *)
Covered == \A s \in Source \ gaps : Good(s) \/ \E t \in Tasks : Pending(t, s)

(* The prune that drops the blob leaves no page of the artifact without    *)
(* chunks, unless somebody is on the way to it or it is a gap.             *)
Held(s) == rows[s] # {} \/ s \in gaps \/ \E t \in Tasks : Pending(t, s)
BlobSpared ==
  \A t \in Tasks : task[t].kind = "pages" /\ task[t].at = "prune" =>
    \A s \in Indexable(task[t]) \ task[t].todo : doc[s] # Gone => Held(s)

(* Who saves the graph holds the lock and works on the graph as stored.    *)
SaverAlone == \A t \in Tasks : task[t].at = "save" => lock = t /\ task[t].base = graph

(* The inductive invariant. *)
IInv == TypeOK /\ Shapes /\ Covered /\ BlobSpared /\ SaverAlone

-----------------------------------------------------------------------------
(* Sources and batches *)

(* The first page of a set is one of them: pages are numbered from 1.      *)
LEMMA NextPageThere ==
  ASSUME NEW S \in SUBSET Source, S # {}
  PROVE  NextPage(S) \in S
<1> DEFINE R == {ss \in Nat \X Nat : ss[1] < ss[2]}
           N == {s[2] : s \in S}
<1>1. IsWellFoundedOn(R, Nat)
  BY NatLessThanWellFounded DEF OpToRel
<1>2. ASSUME NEW s \in S PROVE s[2] \in Nat
  <2>1. s \in Artifacts \X Pages \/ s \in (Artifacts \cup Nodes) \X {0}
    BY DEF Source, PageSources, Blob
  <2>2. Pages \subseteq Nat
    BY MemoryIds
  <2>3. s[2] \in Pages \/ s[2] = 0
    BY <2>1
  <2>4. 0 \in Nat
    OBVIOUS
  <2> QED BY ONLY <2>2, <2>3, <2>4, Zenon
<1>3. N \subseteq Nat /\ N # {}
  BY <1>2
<1>4. PICK m \in N : \A n \in N : <<n, m>> \notin R
  <2> HIDE DEF R, N
  <2> QED BY <1>1, <1>3, WFMin
<1>5. \A n \in N : m <= n
  <2> SUFFICES ASSUME NEW n \in N PROVE m <= n
    OBVIOUS
  <2>1. m \in Nat /\ n \in Nat /\ ~ (n < m)
    BY <1>3, <1>4
  <2> QED BY <2>1
<1>6. PICK s \in S : s[2] = m
  BY <1>4
<1>7. \A u \in S : s[2] <= u[2]
  BY <1>5, <1>6
<1> QED BY <1>7 DEF NextPage

(* What a transaction stores is left to do, and what it deletes is that,   *)
(* or everything of the product.                                           *)
LEMMA BatchFacts ==
  ASSUME NEW k \in TaskRecord, k.todo # {}
  PROVE  /\ Batch(k) \subseteq k.todo /\ Batch(k) \subseteq Deleted(k)
         /\ Deleted(k) \subseteq Source
         /\ k.kind # "reindex" => Deleted(k) = Batch(k) /\ \E b \in k.todo : Batch(k) = {b}
         /\ k.kind = "reindex" => Deleted(k) = Source /\ Batch(k) = k.todo
<1>1. k.todo \in SUBSET Source
  BY DEF TaskRecord
<1>2. NextPage(k.todo) \in k.todo
  BY <1>1, NextPageThere
<1> QED BY <1>1, <1>2 DEF Batch, Deleted

(* The blob of an artifact is a source, none of its pages.                 *)
LEMMA SourceFacts ==
  /\ \A a \in Artifacts :
       /\ <<a, Blob>> \in Source /\ <<a, Blob>> \in SourcesOf(a)
       /\ PagesOf(a) \subseteq PageSources /\ PagesOf(a) \subseteq SourcesOf(a)
       /\ SourcesOf(a) = PagesOf(a) \cup {<<a, Blob>>}
  /\ PageSources \subseteq Source
  /\ \A s \in PageSources : s[1] \in Artifacts /\ s[2] # Blob /\ s \in PagesOf(s[1])
  /\ \A s \in Source : s \in PageSources \/ s[2] = Blob
BY MemoryIds DEF Source, PageSources, PagesOf, SourcesOf, Blob

-----------------------------------------------------------------------------
(* One task at a time *)

Others(t) == \A u \in Tasks \ {t} : task'[u] = task[u]

(* A step of one task. *)
LEMMA TaskStep ==
  ASSUME TypeOK, Shapes, NEW t \in Tasks, NEW new \in {Idle} \cup TaskRecord,
         new # Idle => Shape(new), task' = [task EXCEPT ![t] = new]
  PROVE  /\ task' \in [Tasks -> {Idle} \cup TaskRecord] /\ Shapes'
         /\ task'[t] = new /\ Others(t)
<1>1. task' \in [Tasks -> {Idle} \cup TaskRecord] /\ task'[t] = new /\ Others(t)
  BY DEF TypeOK, Others
<1>2. Shapes'
  BY <1>1 DEF Shapes, Others
<1> QED BY <1>1, <1>2

(* What the others are on the way to stays so while the texts do.          *)
LEMMA PendingOthers ==
  ASSUME NEW t \in Tasks, Others(t), doc' = doc
  PROVE  \A u \in Tasks \ {t}, s \in Source : Pending(u, s)' <=> Pending(u, s)
BY DEF Others, Pending

(* Texts stay and one task makes a step: whoever it was on the way to is   *)
(* as it should be, or still on the way to, or a gap.                      *)
LEMMA Covering ==
  ASSUME Covered, NEW t \in Tasks, Others(t), doc' = doc,
         \A s \in Source \ gaps' : s \in gaps => Good(s)',
         \A s \in Source \ gaps' : Pending(t, s) => Pending(t, s)' \/ Good(s)',
         \A s \in Source \ gaps' :
           s \notin gaps /\ Good(s) => Good(s)' \/ \E u \in Tasks : Pending(u, s)'
  PROVE  Covered'
<1> SUFFICES ASSUME NEW s \in Source \ gaps', ~ Good(s)'
             PROVE  \E u \in Tasks : Pending(u, s)'
  BY DEF Covered
<1>1. s \notin gaps
  OBVIOUS
<1>2. CASE Good(s)
  BY <1>1, <1>2
<1>3. CASE ~Good(s)
  <2>1. PICK u \in Tasks : Pending(u, s)
    BY <1>1, <1>3 DEF Covered
  <2>2. CASE u = t
    BY <2>1, <2>2
  <2>3. CASE u # t
    BY <2>1, <2>3, PendingOthers
  <2> QED BY <2>2, <2>3
<1> QED BY <1>2, <1>3

(* The same of a page that the prune of a blob must find held.             *)
LEMMA Holding ==
  ASSUME NEW t \in Tasks, Others(t), doc' = doc, NEW s \in Source,
         rows[s] # {} => rows'[s] # {} \/ s \in gaps',
         s \in gaps => rows'[s] # {} \/ s \in gaps',
         Pending(t, s) => Held(s)', Held(s)
  PROVE  Held(s)'
<1>1. CASE \E u \in Tasks : Pending(u, s)
  <2>1. PICK u \in Tasks : Pending(u, s)
    BY <1>1
  <2>2. CASE u = t
    BY <2>1, <2>2
  <2>3. CASE u # t
    BY <2>1, <2>3, PendingOthers DEF Held
  <2> QED BY <2>2, <2>3
<1>2. CASE ~ \E u \in Tasks : Pending(u, s)
  BY <1>2 DEF Held
<1> QED BY <1>1, <1>2

LEMMA Sparing ==
  ASSUME TypeOK, Shapes, BlobSpared, NEW t \in Tasks, Others(t), doc' = doc,
         ~ (task'[t].kind = "pages" /\ task'[t].at = "prune"),
         \A s \in PageSources : doc[s] # Gone /\ Held(s) => Held(s)'
  PROVE  BlobSpared'
<1> SUFFICES ASSUME NEW u \in Tasks, task'[u].kind = "pages", task'[u].at = "prune",
                    NEW s \in Indexable(task'[u]) \ task'[u].todo, doc[s] # Gone
             PROVE  Held(s)'
  BY DEF BlobSpared
<1>1. u # t
  OBVIOUS
<1>2. task'[u] = task[u]
  BY <1>1 DEF Others
<1>3. task[u].kind = "pages" /\ task[u].at = "prune" /\ task[u] # Idle
  BY <1>2 DEF Idle
<1>4. Shape(task[u])
  BY <1>3 DEF Shapes
<1>5. s \in PageSources
  BY <1>2, <1>3, <1>4, SourceFacts DEF Shape, Indexable
<1>6. Held(s)
  BY <1>2, <1>3 DEF BlobSpared
<1> QED BY <1>5, <1>6

(* A step that leaves chunks, texts and gaps alone, of a task that is on   *)
(* the way to nothing.                                                     *)
LEMMA QuietStep ==
  ASSUME TypeOK, Shapes, Covered, BlobSpared, NEW t \in Tasks, Others(t),
         doc' = doc, rows' = rows, gaps' = gaps,
         ~ (task'[t].kind = "pages" /\ task'[t].at = "prune"),
         \A s \in Source : Pending(t, s) => Pending(t, s)'
  PROVE  Covered' /\ BlobSpared'
<1>1. \A s \in Source : Good(s)' <=> Good(s)
  BY DEF Good, Optional
<1>2. Covered'
  <2>1. \A s \in Source \ gaps' : s \in gaps => Good(s)'
    OBVIOUS
  <2> QED BY <1>1, <2>1, Covering
<1>3. \A s \in PageSources : Held(s) => Held(s)'
  <2> SUFFICES ASSUME NEW s \in PageSources, Held(s) PROVE Held(s)'
    OBVIOUS
  <2>1. s \in Source
    BY SourceFacts
  <2>2. Pending(t, s) => Held(s)'
    BY <2>1 DEF Held
  <2> QED BY <2>1, <2>2, Holding
<1> QED BY <1>2, <1>3, Sparing

-----------------------------------------------------------------------------
(* Reading documents *)

LEMMA LoadIInv ==
  ASSUME IInv, NEW t \in Tasks, Load(t)
  PROVE  IInv'
<1> USE DEF IInv
<1> DEFINE items == {s \in Source : Item(doc, s)}
           new == IF items = {} THEN Idle
                  ELSE [task[t] EXCEPT !.at = "embed", !.todo = items, !.snap = Restrict(doc, items)]
<1>1. task[t] \in TaskRecord /\ task[t].at = "load" /\ task[t].kind = "reindex" /\ Shape(task[t])
  <2>1. task[t] \in {Idle} \cup TaskRecord /\ task[t].at = "load"
    BY DEF Load, TypeOK
  <2>2. task[t] # Idle
    BY <2>1 DEF Idle
  <2>3. Shape(task[t])
    BY <2>2 DEF Shapes
  <2> QED BY <2>1, <2>2, <2>3 DEF Shape, TaskRecord
<1>2. task' = [task EXCEPT ![t] = new]
  BY DEF Load, End
<1>3. items \in SUBSET Source /\ \A s \in items : doc[s] \in Nat \ {Gone}
  BY DEF Item, TypeOK, Gone
<1>4. new \in {Idle} \cup TaskRecord /\ (new # Idle => Shape(new))
  <2>1. Restrict(doc, items) \in [items -> Nat]
    BY <1>3 DEF Restrict
  <2>2. Restrict(doc, items) \in Functions(Nat)
    BY <1>3, <2>1 DEF Functions
  <2>3. \A s \in items : s \in DOMAIN Restrict(doc, items) /\ Restrict(doc, items)[s] \in Nat \ {Gone}
    BY <1>3 DEF Restrict
  <2> HIDE DEF items
  <2>4. CASE items # {}
    <3> DEFINE r == Restrict(doc, items)
    <3> HIDE DEF r
    <3>1. new = [task[t] EXCEPT !.at = "embed", !.todo = items, !.snap = r]
      BY <2>4 DEF r
    <3>2. new \in TaskRecord
      BY <1>1, <1>3, <2>2, <3>1 DEF TaskRecord, r
    <3>3. new.kind = "reindex" /\ new.at = "embed" /\ new.todo = items /\ new.snap = r
      BY <1>1, <3>1 DEF TaskRecord
    <3> QED BY <2>3, <2>4, <3>2, <3>3 DEF Shape, r
  <2> QED BY <2>4
<1> HIDE DEF new
<1>5. /\ task' \in [Tasks -> {Idle} \cup TaskRecord] /\ Shapes'
      /\ task'[t] = new /\ Others(t)
  BY <1>2, <1>4, TaskStep
<1>6. new.kind # "pages" /\ new.at # "save"
  BY <1>1 DEF new, Idle, TaskRecord
<1>7. Covered' /\ BlobSpared'
  <2>1. doc' = doc /\ rows' = rows /\ gaps' = gaps
    BY DEF Load, docVars, memVars
  <2>2. \A s \in Source : ~Pending(t, s)
    BY <1>1 DEF Pending
  <2> QED BY <1>5, <1>6, <2>1, <2>2, QuietStep
<1>8. TypeOK'
  BY <1>5 DEF TypeOK, Load, docVars, memVars, graphVars
<1>9. SaverAlone'
  BY <1>5, <1>6 DEF SaverAlone, Others, Load, graphVars
<1> QED BY <1>5, <1>7, <1>8, <1>9

-----------------------------------------------------------------------------
(* The graph *)

(* What task t is, by its place. *)
LEMMA Working ==
  ASSUME TypeOK, Shapes, NEW t \in Tasks, task[t].at # "done"
  PROVE  task[t] \in TaskRecord /\ task[t] # Idle /\ Shape(task[t])
<1>1. task[t] # Idle
  BY DEF Idle
<1>2. task[t] \in TaskRecord
  BY <1>1 DEF TypeOK
<1> QED BY <1>1, <1>2 DEF Shapes

LEMMA CollectIInv ==
  ASSUME IInv, NEW t \in Tasks, Collect(t)
  PROVE  IInv'
<1> USE DEF IInv
<1> DEFINE pages == {s \in PageSources : doc[s] # Gone}
           texts == Restrict(doc, pages)
           new == IF pages = {} THEN Idle
                  ELSE [task[t] EXCEPT !.at = "extract", !.scope = pages, !.snap = texts]
<1>1. task[t] \in TaskRecord /\ task[t].at = "collect" /\ task[t].kind = "rebuild"
  BY Working DEF Collect, Shape, TaskRecord
<1>2. task' = [task EXCEPT ![t] = new]
  BY DEF Collect, End
<1>3. pages \in SUBSET Source /\ pages \in SUBSET PageSources
  BY SourceFacts
<1>4. texts \in [pages -> Nat] /\ texts \in Functions(Nat)
  <2>1. texts \in [pages -> Nat]
    BY <1>3 DEF Restrict, TypeOK
  <2> HIDE DEF texts, pages
  <2> QED BY <1>3, <2>1 DEF Functions
<1>5. new \in {Idle} \cup TaskRecord /\ (new # Idle => Shape(new))
  <2> HIDE DEF texts, pages
  <2>1. CASE pages # {}
    <3>1. new = [task[t] EXCEPT !.at = "extract", !.scope = pages, !.snap = texts]
      BY <2>1
    <3>2. new \in TaskRecord /\ new.kind = "rebuild" /\ new.at = "extract" /\ new.snap = texts
      BY <1>1, <1>3, <1>4, <3>1 DEF TaskRecord
    <3> QED BY <1>4, <3>2 DEF Shape
  <2> QED BY <2>1
<1> HIDE DEF new
<1>6. /\ task' \in [Tasks -> {Idle} \cup TaskRecord] /\ Shapes'
      /\ task'[t] = new /\ Others(t)
  BY <1>2, <1>5, TaskStep
<1>7. new.kind # "pages" /\ new.at # "save"
  BY <1>1 DEF new, Idle, TaskRecord
<1>8. Covered' /\ BlobSpared'
  <2>1. doc' = doc /\ rows' = rows /\ gaps' = gaps
    BY DEF Collect, docVars, memVars
  <2>2. \A s \in Source : ~Pending(t, s)
    BY <1>1 DEF Pending
  <2> QED BY <1>6, <1>7, <2>1, <2>2, QuietStep
<1>9. TypeOK'
  BY <1>6 DEF TypeOK, Collect, docVars, memVars, graphVars
<1>10. SaverAlone'
  BY <1>6, <1>7 DEF SaverAlone, Others, Collect, graphVars
<1> QED BY <1>6, <1>8, <1>9, <1>10

(* A step of the graph's part: texts, chunks and gaps stay.                *)
LEMMA GraphStep ==
  ASSUME TypeOK, Shapes, Covered, BlobSpared, NEW t \in Tasks,
         task[t].at \in {"extract", "lock", "save"},
         NEW new \in {Idle} \cup TaskRecord, new # Idle => Shape(new),
         new.at \in {"lock", "save", "done"},
         task' = [task EXCEPT ![t] = new], doc' = doc, rows' = rows, gaps' = gaps
  PROVE  /\ task' \in [Tasks -> {Idle} \cup TaskRecord] /\ Shapes'
         /\ task'[t] = new /\ Others(t) /\ Covered' /\ BlobSpared'
<1>1. /\ task' \in [Tasks -> {Idle} \cup TaskRecord] /\ Shapes'
      /\ task'[t] = new /\ Others(t)
  BY TaskStep
<1>2. task[t].kind # "clear"
  BY Working DEF Shape
<1>3. \A s \in Source : ~Pending(t, s)
  BY <1>2 DEF Pending
<1> QED BY <1>1, <1>3, QuietStep

LEMMA ExtractIInv ==
  ASSUME IInv, NEW t \in Tasks, Extract(t)
  PROVE  IInv'
<1> USE DEF IInv
<1>1. /\ task[t] \in TaskRecord /\ task[t].at = "extract" /\ Shape(task[t])
      /\ doc' = doc /\ clock' = clock /\ rows' = rows /\ gaps' = gaps
      /\ graph' = graph /\ lock' = lock /\ embedder' = embedder
  BY Working DEF Extract, docVars, memVars, graphVars
<1>2. faults' \in Nat
  BY DEF Extract, Fault, TypeOK
<1>3. \E new \in {Idle} \cup TaskRecord :
        /\ new # Idle => Shape(new)
        /\ new.at \in {"lock", "done"} /\ task' = [task EXCEPT ![t] = new]
  <2> DEFINE scope == task[t].scope \cap Indexable(task[t])
  <2>1. PICK failed \in SUBSET scope :
          \/ task' = [task EXCEPT ![t].at = "lock",
                        ![t].terms = [s \in scope |-> IF s \in failed THEN Gone ELSE task[t].snap[s]]]
          \/ End(t)
    BY DEF Extract
  <2> DEFINE terms == [s \in scope |-> IF s \in failed THEN Gone ELSE task[t].snap[s]]
  <2>2. terms \in Functions(Nat) /\ \A s \in DOMAIN terms : terms[s] \in Nat
    <3>1. scope \in SUBSET Source
      BY <1>1 DEF TaskRecord
    <3>2. \A s \in scope : task[t].snap[s] \in Nat
      BY <1>1 DEF Shape, Indexable
    <3>3. terms \in [scope -> Nat]
      BY <3>2 DEF Gone
    <3> HIDE DEF scope, terms
    <3> QED BY <3>1, <3>3 DEF Functions
  <2> HIDE DEF scope
  <2>3. CASE End(t)
    BY <2>3 DEF End, Idle
  <2>4. CASE task' = [task EXCEPT ![t].at = "lock", ![t].terms = terms]
    <3> HIDE DEF terms
    <3> DEFINE new == [task[t] EXCEPT !.at = "lock", !.terms = terms]
    <3>1. task' = [task EXCEPT ![t] = new]
      BY <2>4 DEF TypeOK
    <3>2. new \in TaskRecord /\ new.at = "lock" /\ new.terms = terms
      BY <1>1, <2>2 DEF TaskRecord
    <3>3. /\ new.kind = task[t].kind /\ new.own = task[t].own /\ new.snap = task[t].snap
          /\ new.todo = task[t].todo /\ new.scope = task[t].scope
      BY <1>1 DEF TaskRecord
    <3> HIDE DEF new
    <3>4. Shape(new)
      BY <1>1, <2>2, <3>2, <3>3 DEF Shape, Indexable
    <3> QED BY <3>1, <3>2, <3>4
  <2> QED BY <2>1, <2>3, <2>4
<1>4. PICK new \in {Idle} \cup TaskRecord :
        /\ new # Idle => Shape(new)
        /\ new.at \in {"lock", "done"} /\ task' = [task EXCEPT ![t] = new]
  BY <1>3
<1>5. /\ task' \in [Tasks -> {Idle} \cup TaskRecord] /\ Shapes'
      /\ task'[t] = new /\ Others(t) /\ Covered' /\ BlobSpared'
  BY <1>1, <1>4, GraphStep
<1>6. TypeOK'
  BY <1>1, <1>2, <1>5 DEF TypeOK
<1>7. SaverAlone'
  BY <1>1, <1>4, <1>5 DEF SaverAlone, Others
<1> QED BY <1>5, <1>6, <1>7

(* Nobody saves while the lock is free. *)
LEMMA LockGraphIInv ==
  ASSUME IInv, NEW t \in Tasks, LockGraph(t)
  PROVE  IInv'
<1> USE DEF IInv
<1>1. /\ task[t] \in TaskRecord /\ task[t].at = "lock" /\ Shape(task[t])
      /\ doc' = doc /\ clock' = clock /\ rows' = rows /\ gaps' = gaps
      /\ graph' = graph /\ embedder' = embedder /\ lock = None
  BY Working DEF LockGraph, docVars, memVars
<1>2. faults' \in Nat
  BY DEF LockGraph, Fault, TypeOK
<1>3. \A u \in Tasks : task[u].at # "save"
  BY <1>1, MemoryIds DEF SaverAlone
<1>4. CASE lock' = t /\ task' = [task EXCEPT ![t].at = "save", ![t].base = graph]
  <2> DEFINE new == [task[t] EXCEPT !.at = "save", !.base = graph]
  <2>1. task' = [task EXCEPT ![t] = new]
    BY <1>4 DEF TypeOK
  <2>2. graph \in Graphs
    BY DEF TypeOK
  <2>3. new \in TaskRecord /\ new.at = "save" /\ new.base = graph
    BY <1>1, <2>2 DEF TaskRecord
  <2>4. /\ new.kind = task[t].kind /\ new.own = task[t].own /\ new.snap = task[t].snap
        /\ new.todo = task[t].todo /\ new.scope = task[t].scope /\ new.terms = task[t].terms
    BY <1>1 DEF TaskRecord
  <2> HIDE DEF new
  <2>5. Shape(new)
    BY <1>1, <2>3, <2>4 DEF Shape, Indexable
  <2>6. /\ task' \in [Tasks -> {Idle} \cup TaskRecord] /\ Shapes'
        /\ task'[t] = new /\ Others(t) /\ Covered' /\ BlobSpared'
    BY <1>1, <2>1, <2>3, <2>5, GraphStep
  <2>7. TypeOK'
    BY <1>1, <1>2, <1>4, <2>6 DEF TypeOK
  <2>8. SaverAlone'
    BY <1>1, <1>3, <1>4, <2>3, <2>6 DEF SaverAlone, Others
  <2> QED BY <2>6, <2>7, <2>8
<1>5. CASE End(t) /\ lock' = lock
  <2>1. task' = [task EXCEPT ![t] = Idle]
    BY <1>5 DEF End
  <2>2. /\ task' \in [Tasks -> {Idle} \cup TaskRecord] /\ Shapes'
        /\ task'[t] = Idle /\ Others(t) /\ Covered' /\ BlobSpared'
    BY <1>1, <2>1, GraphStep DEF Idle
  <2>3. TypeOK'
    BY <1>1, <1>2, <1>5, <2>2 DEF TypeOK
  <2>4. SaverAlone'
    BY <1>3, <2>2 DEF SaverAlone, Others, Idle
  <2> QED BY <2>2, <2>3, <2>4
<1> QED BY <1>4, <1>5 DEF LockGraph

(* What a merge leaves is a graph. *)
LEMMA MergedGraph ==
  ASSUME NEW k \in TaskRecord, NEW g \in Graphs,
         \A s \in DOMAIN k.terms : k.terms[s] \in Nat
  PROVE  Merged(k, g) \in Graphs
<1>1. NewGraph \in Graphs
  BY DEF NewGraph, Graphs, Absent
<1>2. \A h \in Graphs : SetPageTerms(k, h) \in Graphs
  BY DEF SetPageTerms, Graphs
<1>3. UpsertPages(k, g) \in Graphs
  BY DEF UpsertPages, Graphs, Gone
<1>4. \A h \in Graphs : PruneArtifactPages(k, h) \in Graphs
  BY DEF PruneArtifactPages, Graphs, Absent
<1> QED BY <1>1, <1>2, <1>3, <1>4 DEF Merged

LEMMA SaveGraphIInv ==
  ASSUME IInv, NEW t \in Tasks, SaveGraph(t)
  PROVE  IInv'
<1> USE DEF IInv
<1>1. /\ task[t] \in TaskRecord /\ task[t].at = "save" /\ Shape(task[t])
      /\ doc' = doc /\ clock' = clock /\ rows' = rows /\ gaps' = gaps
      /\ embedder' = embedder /\ task' = [task EXCEPT ![t] = Idle]
  BY Working DEF SaveGraph, docVars, memVars, End
<1>2. faults' \in Nat /\ lock' = None
  BY DEF SaveGraph, Fails, Fault, TypeOK
<1>3. /\ task' \in [Tasks -> {Idle} \cup TaskRecord] /\ Shapes'
      /\ task'[t] = Idle /\ Others(t) /\ Covered' /\ BlobSpared'
  BY <1>1, GraphStep DEF Idle
<1>4. graph' \in Graphs
  <2>1. task[t].base = graph /\ graph \in Graphs
    BY <1>1 DEF SaverAlone, TypeOK
  <2>2. Merged(task[t], task[t].base) \in Graphs
    BY <1>1, <2>1, MergedGraph DEF Shape
  <2> QED BY <2>1, <2>2 DEF SaveGraph, Fails
<1>5. TypeOK'
  BY <1>1, <1>2, <1>3, <1>4 DEF TypeOK
<1>6. \A u \in Tasks \ {t} : task[u].at # "save"
  BY <1>1 DEF SaverAlone
<1>7. SaverAlone'
  BY <1>3, <1>6 DEF SaverAlone, Others, Idle
<1> QED BY <1>3, <1>5, <1>7

-----------------------------------------------------------------------------
(* Embedding and storing *)

(* The batch is done: what else the task is on the way to stays on it.     *)
LEMMA Advancing ==
  ASSUME TypeOK, Shapes, NEW t \in Tasks, task[t].at \in {"embed", "delete", "commit"},
         Advance(t), doc' = doc
  PROVE  /\ task' \in [Tasks -> {Idle} \cup TaskRecord] /\ Shapes' /\ Others(t)
         /\ task'[t].at \in {"done", "extract", "embed"}
         /\ \A s \in Source \ Batch(task[t]) : Pending(t, s) => Pending(t, s)'
<1> DEFINE k == task[t]
           rest == k.todo \ Batch(k)
           new == IF k.kind # "pages" THEN Idle
                  ELSE [k EXCEPT !.todo = rest, !.seen = NoTxn, !.out = "full",
                                 !.at = IF rest = {} THEN "extract" ELSE "embed"]
<1>1. k \in TaskRecord /\ Shape(k) /\ k.kind # "clear" /\ k.todo # {}
  BY Working DEF Shape
<1>2. task' = [task EXCEPT ![t] = new]
  BY DEF Advance, End, TypeOK
<1>3. Batch(k) \subseteq k.todo
  BY <1>1, BatchFacts
<1>4. CASE k.kind # "pages"
  <2>1. new = Idle
    BY <1>4
  <2> HIDE DEF new
  <2>2. /\ task' \in [Tasks -> {Idle} \cup TaskRecord] /\ Shapes' /\ Others(t)
        /\ task'[t] = Idle
    BY <1>2, <2>1, TaskStep
  <2>3. ASSUME NEW s \in Source \ Batch(k), Pending(t, s) PROVE FALSE
    <3>1. k.kind = "index" /\ s \in k.todo
      BY <1>1, <1>4, <2>3 DEF Pending
    <3>2. \E b \in k.todo : Batch(k) = {b}
      BY <1>1, <3>1, BatchFacts
    <3> QED BY <1>1, <2>3, <3>1, <3>2 DEF Shape
  <2> QED BY <2>2, <2>3 DEF Idle
<1>5. CASE k.kind = "pages"
  <2> DEFINE place == IF rest = {} THEN "extract" ELSE "embed"
  <2>1. new = [k EXCEPT !.todo = rest, !.seen = NoTxn, !.out = "full", !.at = place]
    BY <1>5
  <2>2. rest \in SUBSET Source /\ NoTxn \in Functions(SUBSET Chunks)
    BY <1>1, <1>3 DEF TaskRecord, NoTxn, Functions
  <2>3. place \in {"extract", "embed"}
    OBVIOUS
  <2> HIDE DEF rest
  <2>4. /\ new \in TaskRecord /\ new.kind = "pages" /\ new.own = k.own /\ new.snap = k.snap
        /\ new.todo = rest /\ new.at = place
    <3> HIDE DEF new, place
    <3> QED BY <1>1, <1>5, <2>1, <2>2, <2>3 DEF TaskRecord, Outcomes
  <2> HIDE DEF new
  <2>5. Shape(new)
    <3>1. rest \subseteq k.todo
      BY DEF rest
    <3>2. k.own \in Artifacts /\ k.snap \in [PagesOf(k.own) -> Nat] /\ k.todo \subseteq Indexable(k)
      BY <1>1, <1>5 DEF Shape
    <3>3. Indexable(new) = Indexable(k) /\ \A s \in Indexable(k) : k.snap[s] \in Nat \ {Gone} /\ s \in DOMAIN k.snap
      BY <2>4, <3>2 DEF Indexable
    <3>4. k.todo \subseteq SourcesOf(k.own)
      BY <3>2, SourceFacts DEF Indexable
    <3> QED BY <2>3, <2>4, <3>1, <3>2, <3>3, <3>4 DEF Shape
  <2>6. /\ task' \in [Tasks -> {Idle} \cup TaskRecord] /\ Shapes' /\ Others(t)
        /\ task'[t] = new
    BY <1>2, <2>4, <2>5, TaskStep
  <2>7. ASSUME NEW s \in Source \ Batch(k), Pending(t, s) PROVE Pending(t, s)'
    <3>1. s \in k.todo
      BY <1>5, <2>7 DEF Pending
    <3>2. s \in rest
      BY <2>7, <3>1 DEF rest
    <3> QED BY <2>4, <2>6, <3>2 DEF Pending
  <2> QED BY <2>3, <2>4, <2>6, <2>7
<1> QED BY <1>4, <1>5

(* On to the next step of a transaction. *)
LEMMA Transacting ==
  ASSUME TypeOK, Shapes, Covered, BlobSpared, NEW t \in Tasks,
         task[t].at \in {"embed", "delete"}, NEW new \in TaskRecord,
         new.kind = task[t].kind, new.own = task[t].own, new.snap = task[t].snap,
         new.todo = task[t].todo, new.at \in {"delete", "commit"},
         task' = [task EXCEPT ![t] = new], doc' = doc, rows' = rows, gaps' = gaps
  PROVE  /\ task' \in [Tasks -> {Idle} \cup TaskRecord] /\ Shapes'
         /\ task'[t] = new /\ Others(t) /\ Covered' /\ BlobSpared'
<1>1. Shape(task[t]) /\ task[t].kind # "clear"
  BY Working DEF Shape
<1>2. Shape(new)
  BY <1>1 DEF Shape, Indexable
<1>3. /\ task' \in [Tasks -> {Idle} \cup TaskRecord] /\ Shapes'
      /\ task'[t] = new /\ Others(t)
  BY <1>2, TaskStep
<1>4. \A s \in Source : Pending(t, s) => Pending(t, s)'
  BY <1>1, <1>3 DEF Pending
<1> QED BY <1>3, <1>4, QuietStep

(* A batch that fails becomes a gap. *)
LEMMA Failing ==
  ASSUME TypeOK, Shapes, Covered, BlobSpared, NEW t \in Tasks,
         task[t].at \in {"embed", "delete", "commit"}, Advance(t),
         doc' = doc, rows' = rows, gaps' = gaps \cup Batch(task[t])
  PROVE  Covered' /\ BlobSpared' /\ gaps' \subseteq Source
<1>1. /\ Others(t) /\ task'[t].at \in {"done", "extract", "embed"}
      /\ \A s \in Source \ Batch(task[t]) : Pending(t, s) => Pending(t, s)'
  BY Advancing
<1>2. Batch(task[t]) \subseteq Source
  <2>1. task[t] \in TaskRecord /\ task[t].todo # {}
    BY Working DEF Shape
  <2> QED BY <2>1, BatchFacts DEF TaskRecord
<1>3. \A s \in Source : Good(s)' <=> Good(s)
  BY DEF Good, Optional
<1>4. Covered'
  <2>1. \A s \in Source \ gaps' : s \in gaps => Good(s)'
    OBVIOUS
  <2>2. \A s \in Source \ gaps' : Pending(t, s) => Pending(t, s)' \/ Good(s)'
    BY <1>1
  <2> QED BY <1>1, <1>3, <2>1, <2>2, Covering
<1>5. \A s \in PageSources : Held(s) => Held(s)'
  <2> SUFFICES ASSUME NEW s \in PageSources, Held(s) PROVE Held(s)'
    OBVIOUS
  <2>1. s \in Source
    BY SourceFacts
  <2>2. Pending(t, s) => Held(s)'
    BY <1>1, <2>1 DEF Held
  <2> QED BY <1>1, <2>1, <2>2, Holding
<1>6. BlobSpared'
  BY <1>1, <1>5, Sparing
<1> QED BY <1>2, <1>4, <1>6 DEF TypeOK

LEMMA EmbedIInv ==
  ASSUME IInv, NEW t \in Tasks, Embed(t)
  PROVE  IInv'
<1> USE DEF IInv
<1>1. /\ task[t] \in TaskRecord /\ task[t].at = "embed" /\ Shape(task[t])
      /\ doc' = doc /\ clock' = clock /\ rows' = rows
      /\ graph' = graph /\ lock' = lock /\ embedder' = embedder
  BY Working DEF Embed, docVars, graphVars
<1>2. faults' \in Nat
  BY DEF Embed, Fault, TypeOK
<1>3. Others(t) /\ task'[t].at # "save" => SaverAlone'
  BY <1>1 DEF SaverAlone, Others
<1>4. ASSUME NEW out \in Outcomes, gaps' = gaps,
             task' = [task EXCEPT ![t].at = "delete", ![t].out = out]
      PROVE  IInv'
  <2> DEFINE new == [task[t] EXCEPT !.at = "delete", !.out = out]
  <2>1. task' = [task EXCEPT ![t] = new]
    BY <1>4 DEF TypeOK
  <2>2. /\ new \in TaskRecord /\ new.at = "delete" /\ new.kind = task[t].kind
        /\ new.own = task[t].own /\ new.snap = task[t].snap /\ new.todo = task[t].todo
    BY <1>1 DEF TaskRecord
  <2> HIDE DEF new
  <2>3. /\ task' \in [Tasks -> {Idle} \cup TaskRecord] /\ Shapes'
        /\ task'[t] = new /\ Others(t) /\ Covered' /\ BlobSpared'
    BY <1>1, <1>4, <2>1, <2>2, Transacting
  <2>4. TypeOK'
    BY <1>1, <1>2, <1>4, <2>3 DEF TypeOK
  <2> QED BY <1>3, <2>2, <2>3, <2>4
<1>5. CASE task' = [task EXCEPT ![t].at = "delete"] /\ gaps' = gaps
  <2>1. task' = [task EXCEPT ![t].at = "delete", ![t].out = task[t].out]
    BY <1>1, <1>5 DEF TypeOK, TaskRecord
  <2>2. task[t].out \in Outcomes
    BY <1>1 DEF TaskRecord
  <2> QED BY <1>4, <1>5, <2>1, <2>2
<1>6. CASE Advance(t) /\ gaps' = gaps \cup Batch(task[t])
  <2>1. /\ task' \in [Tasks -> {Idle} \cup TaskRecord] /\ Shapes' /\ Others(t)
        /\ task'[t].at \in {"done", "extract", "embed"}
    BY <1>1, <1>6, Advancing
  <2>2. Covered' /\ BlobSpared' /\ gaps' \subseteq Source
    BY <1>1, <1>6, Failing
  <2>3. TypeOK'
    BY <1>1, <1>2, <2>1, <2>2 DEF TypeOK
  <2> QED BY <1>3, <2>1, <2>2, <2>3
<1> QED BY <1>4, <1>5, <1>6 DEF Embed, Outcomes

LEMMA DeleteIInv ==
  ASSUME IInv, NEW t \in Tasks, Delete(t)
  PROVE  IInv'
<1> USE DEF IInv
<1>1. /\ task[t] \in TaskRecord /\ task[t].at = "delete" /\ Shape(task[t])
      /\ doc' = doc /\ clock' = clock /\ rows' = rows /\ faults' = faults
      /\ graph' = graph /\ lock' = lock /\ embedder' = embedder
  BY Working DEF Delete, docVars, graphVars
<1>2. Others(t) /\ task'[t].at # "save" => SaverAlone'
  BY <1>1 DEF SaverAlone, Others
<1>3. CASE Advance(t) /\ gaps' = gaps \cup Batch(task[t])
  <2>1. /\ task' \in [Tasks -> {Idle} \cup TaskRecord] /\ Shapes' /\ Others(t)
        /\ task'[t].at \in {"done", "extract", "embed"}
    BY <1>1, <1>3, Advancing
  <2>2. Covered' /\ BlobSpared' /\ gaps' \subseteq Source
    BY <1>1, <1>3, Failing
  <2>3. TypeOK'
    BY <1>1, <2>1, <2>2 DEF TypeOK
  <2> QED BY <1>2, <2>1, <2>2, <2>3
<1>4. CASE /\ task' = [task EXCEPT ![t].at = "commit", ![t].seen = Restrict(rows, Deleted(task[t]))]
           /\ gaps' = gaps
  <2> DEFINE seen == Restrict(rows, Deleted(task[t]))
             new == [task[t] EXCEPT !.at = "commit", !.seen = seen]
  <2>1. task' = [task EXCEPT ![t] = new]
    BY <1>4 DEF TypeOK
  <2>2. seen \in Functions(SUBSET Chunks)
    <3>1. Deleted(task[t]) \subseteq Source
      BY <1>1, BatchFacts DEF Shape
    <3>2. seen \in [Deleted(task[t]) -> SUBSET Chunks]
      BY <3>1 DEF Restrict, TypeOK
    <3> HIDE DEF seen
    <3> QED BY <3>1, <3>2 DEF Functions
  <2>3. /\ new \in TaskRecord /\ new.at = "commit" /\ new.kind = task[t].kind
        /\ new.own = task[t].own /\ new.snap = task[t].snap /\ new.todo = task[t].todo
    <3> HIDE DEF seen
    <3> QED BY <1>1, <2>2 DEF TaskRecord
  <2> HIDE DEF new
  <2>4. /\ task' \in [Tasks -> {Idle} \cup TaskRecord] /\ Shapes'
        /\ task'[t] = new /\ Others(t) /\ Covered' /\ BlobSpared'
    BY <1>1, <1>4, <2>1, <2>3, Transacting
  <2>5. TypeOK'
    BY <1>1, <1>4, <2>4 DEF TypeOK
  <2> QED BY <1>2, <2>3, <2>4, <2>5
<1> QED BY <1>3, <1>4 DEF Delete

(* A commit that was alone and exact leaves the source as it should be.    *)
LEMMA ExactIsGood ==
  ASSUME TypeOK, Shapes, NEW t \in Tasks, task[t].at = "commit", NEW s \in Deleted(task[t]),
         Exact(t, s), doc' = doc, rows'[s] = Swapped(task[t], s)
  PROVE  Good(s)' /\ (s \in PageSources /\ doc[s] # Gone => rows'[s] # {})
<1>1. task[t] \in TaskRecord /\ Shape(task[t])
  BY Working
<1>2. rows'[s] = Inserted(task[t], s)
  BY DEF Exact, Alone, Swapped
<1>3. CASE s \in Batch(task[t])
  <2>1. rows'[s] = {Row(doc[s], "full")}
    BY <1>2, <1>3 DEF Inserted, Exact
  <2>2. doc[s] # Gone
    BY <1>1, <1>3, BatchFacts DEF Exact, Shape
  <2> QED BY <2>1, <2>2 DEF Good
<1>4. CASE s \notin Batch(task[t])
  <2>1. rows'[s] = {} /\ ~ Item(doc, s)
    BY <1>2, <1>4 DEF Inserted, Exact
  <2>2. doc[s] = Gone \/ (s[1] \in Artifacts /\ s[2] = Blob)
    BY <2>1 DEF Item
  <2> QED BY <2>1, <2>2, SourceFacts DEF Good, Optional
<1> QED BY <1>3, <1>4

LEMMA CommitIInv ==
  ASSUME IInv, NEW t \in Tasks, Commit(t)
  PROVE  IInv'
<1> USE DEF IInv
<1> DEFINE k == task[t]
           over == Deleted(k)
<1>1. /\ k \in TaskRecord /\ k.at = "commit" /\ Shape(k) /\ Advance(t)
      /\ doc' = doc /\ clock' = clock /\ graph' = graph /\ lock' = lock
      /\ embedder' = embedder
  BY Working DEF Commit, docVars, graphVars
<1>2. faults' \in Nat
  BY DEF Commit, Fault, TypeOK
<1>3. /\ task' \in [Tasks -> {Idle} \cup TaskRecord] /\ Shapes' /\ Others(t)
      /\ task'[t].at \in {"done", "extract", "embed"}
      /\ \A s \in Source \ Batch(k) : Pending(t, s) => Pending(t, s)'
  BY <1>1, Advancing
<1>4. SaverAlone'
  BY <1>1, <1>3 DEF SaverAlone, Others
<1>5. CASE rows' = rows /\ gaps' = gaps \cup Batch(k)
  <2>1. Covered' /\ BlobSpared' /\ gaps' \subseteq Source
    BY <1>1, <1>5, Failing
  <2>2. TypeOK'
    BY <1>1, <1>2, <1>3, <1>5, <2>1 DEF TypeOK
  <2> QED BY <1>3, <1>4, <2>1, <2>2
<1>6. CASE /\ rows' = [s \in Source |-> IF s \in over THEN Swapped(k, s) ELSE rows[s]]
           /\ gaps' = (gaps \ over) \cup {s \in over : ~Exact(t, s)}
  <2>1. /\ k.todo # {} /\ Batch(k) \subseteq k.todo /\ Batch(k) \subseteq over
        /\ over \subseteq Source
        /\ k.kind # "reindex" => over = Batch(k) /\ \E b \in k.todo : Batch(k) = {b}
        /\ k.kind = "reindex" => over = Source
    BY <1>1, BatchFacts DEF Shape
  <2> HIDE DEF over
  <2>2. \A s \in over \ gaps' :
          Good(s)' /\ (s \in PageSources /\ doc[s] # Gone => rows'[s] # {})
    <3> SUFFICES ASSUME NEW s \in over \ gaps'
                 PROVE  Good(s)' /\ (s \in PageSources /\ doc[s] # Gone => rows'[s] # {})
      OBVIOUS
    <3>1. Exact(t, s) /\ s \in Deleted(task[t])
      BY <1>6 DEF over
    <3>2. rows'[s] = Swapped(task[t], s)
      BY <1>6, <2>1
    <3> QED BY <1>1, <3>1, <3>2, ExactIsGood
  <2>3. \A s \in Source \ over : rows'[s] = rows[s] /\ (s \in gaps' <=> s \in gaps)
    BY <1>6
  <2>4. ASSUME NEW s \in Source \ over, Optional(s) PROVE Optional(s)'
    <3>1. CASE s[2] = Blob
      BY <2>4, <3>1 DEF Optional
    <3>2. CASE s[2] # Blob
      <4> DEFINE b == <<s[1], Blob>>
      <4>1. s[1] \in Artifacts /\ rows[b] # {}
        BY <2>4, <3>2 DEF Optional
      <4>2. b \in Source
        BY <4>1, SourceFacts
      <4>3. b \in over => b \in Batch(k)
        BY <2>1
      <4>4. b \in Batch(k) => Inserted(k, b) # {}
        BY DEF Inserted
      <4>5. rows'[b] # {}
        BY <1>6, <2>3, <4>1, <4>2, <4>3, <4>4 DEF Swapped
      <4> QED BY <4>1, <4>5 DEF Optional
    <3> QED BY <3>1, <3>2
  <2>5. \A s \in Source \ over : Good(s) => Good(s)'
    BY <1>1, <2>3, <2>4 DEF Good
  <2>6. Covered'
    <3>1. \A s \in Source \ gaps' : s \in gaps => Good(s)'
      BY <2>2, <2>3
    <3>2. \A s \in Source \ gaps' : Pending(t, s) => Pending(t, s)' \/ Good(s)'
      BY <1>3, <2>1, <2>2
    <3>3. \A s \in Source \ gaps' :
            s \notin gaps /\ Good(s) => Good(s)' \/ \E u \in Tasks : Pending(u, s)'
      BY <2>2, <2>5
    <3> QED BY <1>1, <1>3, <3>1, <3>2, <3>3, Covering
  <2>7. ASSUME NEW s \in PageSources, doc[s] # Gone, Held(s) PROVE Held(s)'
    <3>1. s \in Source
      BY SourceFacts
    <3>2. s \in over => rows'[s] # {} \/ s \in gaps'
      BY <2>2, <2>7
    <3>3. Pending(t, s) => Held(s)'
      BY <1>3, <2>1, <3>1, <3>2 DEF Held
    <3> QED BY <1>1, <1>3, <2>3, <2>7, <3>1, <3>2, <3>3, Holding
  <2>8. BlobSpared'
    BY <1>1, <1>3, <2>7, Sparing
  <2>9. TypeOK'
    <3>1. \A s \in Source : Swapped(k, s) \subseteq Chunks
      <4> SUFFICES ASSUME NEW s \in Source PROVE Swapped(k, s) \subseteq Chunks
        OBVIOUS
      <4>1. s \in Batch(k) => Row(k.snap[s], k.out) \in Chunks
        BY <1>1, <2>1 DEF Shape, Row, Chunks, TaskRecord
      <4>2. rows[s] \subseteq Chunks
        BY DEF TypeOK
      <4> QED BY <4>1, <4>2 DEF Swapped, Inserted
    <3>2. rows' \in [Source -> SUBSET Chunks]
      BY <1>6, <3>1 DEF TypeOK
    <3>3. gaps' \subseteq Source
      BY <1>6, <2>1 DEF TypeOK
    <3> QED BY <1>1, <1>2, <1>3, <3>2, <3>3 DEF TypeOK
  <2> QED BY <1>3, <1>4, <2>6, <2>8, <2>9
<1> QED BY <1>5, <1>6 DEF Commit

-----------------------------------------------------------------------------
(* Listing and pruning *)

LEMMA ListIInv ==
  ASSUME IInv, NEW t \in Tasks, List(t)
  PROVE  IInv'
<1> USE DEF IInv
<1> DEFINE k == task[t]
<1>1. /\ k \in TaskRecord /\ k.at = "list" /\ Shape(k) /\ k.kind \in {"pages", "clear"}
      /\ k.own \in Artifacts /\ doc' = doc /\ clock' = clock /\ rows' = rows
      /\ graph' = graph /\ lock' = lock /\ embedder' = embedder
  BY Working DEF List, Shape, docVars, graphVars, TaskRecord
<1>2. PICK listed \in {ListPageSources(k.own), {}} :
        /\ k.kind = "pages" =>
             /\ task' = [task EXCEPT ![t].at = "prune", ![t].todo = Wanted(k, listed),
                                     ![t].scope = Wanted(k, listed)]
             /\ gaps' = gaps \cup Unbootstrapped(k, listed)
        /\ k.kind # "pages" =>
             /\ task' = [task EXCEPT ![t].at = "prune", ![t].scope = listed \ k.todo]
             /\ gaps' = gaps \cup (ListPageSources(k.own) \ listed)
  BY DEF List
<1>3. faults' \in Nat
  BY DEF List, Fault, TypeOK
<1>4. PagesOf(k.own) \subseteq Source /\ listed \subseteq PagesOf(k.own)
  BY <1>1, SourceFacts DEF ListPageSources
<1>5. \A s \in Source : Good(s)' <=> Good(s)
  BY <1>1 DEF Good, Optional
<1>6. SUFFICES ASSUME NEW new \in TaskRecord, task' = [task EXCEPT ![t] = new],
                      new.kind = k.kind, new.own = k.own, new.snap = k.snap, new.at = "prune",
                      Shape(new), k.todo \subseteq new.todo,
                      gaps \subseteq gaps', gaps' \subseteq Source,
                      new.kind = "pages" =>
                        \A s \in Indexable(k) \ new.todo : rows[s] # {} \/ s \in gaps'
               PROVE  IInv'
  <2>1. CASE k.kind = "pages"
    <3> DEFINE wanted == Wanted(k, listed)
               new == [k EXCEPT !.at = "prune", !.todo = wanted, !.scope = wanted]
    <3>1. /\ k.snap \in [PagesOf(k.own) -> Nat] /\ k.todo \subseteq Indexable(k)
          /\ Indexable(k) \subseteq PagesOf(k.own)
      BY <1>1, <2>1 DEF Shape, Indexable
    <3>2. k.todo \subseteq wanted /\ wanted \subseteq Indexable(k)
      BY <3>1 DEF Wanted
    <3>3. \A s \in Indexable(k) \ wanted : rows[s] # {} \/ s \in gaps'
      BY <1>2, <2>1 DEF Wanted, Unbootstrapped
    <3>4. gaps \subseteq gaps' /\ gaps' \subseteq Source
      BY <1>2, <1>4, <2>1, <3>1 DEF Unbootstrapped, TypeOK
    <3>5. task' = [task EXCEPT ![t] = new]
      BY <1>2, <2>1 DEF TypeOK
    <3>6. wanted \in SUBSET Source
      BY <1>4, <3>1, <3>2
    <3> HIDE DEF wanted
    <3>7. /\ new \in TaskRecord /\ new.kind = k.kind /\ new.own = k.own
          /\ new.snap = k.snap /\ new.at = "prune" /\ new.todo = wanted
      BY <1>1, <3>6 DEF TaskRecord
    <3> HIDE DEF new
    <3>8. Shape(new)
      BY <1>1, <2>1, <3>1, <3>2, <3>7 DEF Shape, Indexable
    <3> QED BY <1>6, <3>2, <3>3, <3>4, <3>5, <3>7, <3>8
  <2>2. CASE k.kind = "clear"
    <3> DEFINE scope == listed \ k.todo
               new == [k EXCEPT !.at = "prune", !.scope = scope]
    <3>1. gaps \subseteq gaps' /\ gaps' \subseteq Source
      BY <1>2, <1>4, <2>2 DEF ListPageSources, TypeOK
    <3>2. task' = [task EXCEPT ![t] = new]
      BY <1>2, <2>2 DEF TypeOK
    <3>3. scope \in SUBSET Source /\ scope \cap k.todo = {}
      BY <1>4
    <3> HIDE DEF scope
    <3>4. /\ new \in TaskRecord /\ new.kind = k.kind /\ new.own = k.own /\ new.scope = scope
          /\ new.snap = k.snap /\ new.at = "prune" /\ new.todo = k.todo
      BY <1>1, <3>3 DEF TaskRecord
    <3> HIDE DEF new
    <3>5. Shape(new)
      <4>1. k.own \in Artifacts /\ k.todo \subseteq PagesOf(k.own)
        BY <1>1, <2>2 DEF Shape
      <4>2. /\ new.kind = "clear" /\ new.at = "prune" /\ new.own \in Artifacts
            /\ new.todo \subseteq PagesOf(new.own) /\ new.scope \cap new.todo = {}
        BY <2>2, <3>3, <3>4, <4>1
      <4> HIDE DEF k
      <4> QED BY ONLY <4>2 DEF Shape
    <3> QED BY <1>6, <2>2, <3>1, <3>2, <3>4, <3>5
  <2> QED BY <1>1, <2>1, <2>2
<1>7. /\ task' \in [Tasks -> {Idle} \cup TaskRecord] /\ Shapes'
      /\ task'[t] = new /\ Others(t)
  BY <1>6, TaskStep
<1>8. \A s \in Source : Pending(t, s) => Pending(t, s)'
  BY <1>1, <1>6, <1>7 DEF Pending, Indexable
<1>9. Covered'
  <2>1. \A s \in Source \ gaps' : s \in gaps => Good(s)'
    BY <1>6
  <2> QED BY <1>1, <1>5, <1>7, <1>8, <2>1, Covering
<1>10. \A s \in PageSources : Held(s) => Held(s)'
  <2> SUFFICES ASSUME NEW s \in PageSources, Held(s) PROVE Held(s)'
    OBVIOUS
  <2>1. s \in Source
    BY SourceFacts
  <2>2. Pending(t, s) => Held(s)'
    BY <1>8, <2>1 DEF Held
  <2> QED BY <1>1, <1>6, <1>7, <2>1, <2>2, Holding
<1>11. BlobSpared'
  <2> SUFFICES ASSUME NEW u \in Tasks, task'[u].kind = "pages", task'[u].at = "prune",
                      NEW s \in Indexable(task'[u]) \ task'[u].todo, doc[s] # Gone
               PROVE  Held(s)'
    BY <1>1 DEF BlobSpared
  <2>1. CASE u = t
    BY <1>1, <1>6, <1>7, <2>1 DEF Indexable, Held
  <2>2. CASE u # t
    <3>1. task'[u] = task[u] /\ task[u] # Idle
      BY <1>7, <2>2 DEF Others, Idle
    <3>2. s \in PageSources
      <4>1. Shape(task[u])
        BY <3>1 DEF Shapes
      <4> QED BY <3>1, <4>1, SourceFacts DEF Shape, Indexable
    <3>3. Held(s)
      BY <3>1 DEF BlobSpared
    <3> QED BY <1>10, <3>2, <3>3
  <2> QED BY <2>1, <2>2
<1>12. SaverAlone'
  BY <1>1, <1>6, <1>7 DEF SaverAlone, Others
<1>13. TypeOK'
  BY <1>1, <1>3, <1>6, <1>7 DEF TypeOK
<1> QED BY <1>7, <1>9, <1>11, <1>12, <1>13
(* What a prune leaves: nobody prunes next, and what it was on the way to  *)
(* is on the way still unless it is stale.                                 *)
LEMMA Pruning ==
  ASSUME TypeOK, Shapes, NEW t \in Tasks, Prune(t)
  PROVE  LET stale == SourcesOf(task[t].own) \ Keep(task[t]) IN
         /\ task' \in [Tasks -> {Idle} \cup TaskRecord] /\ Shapes' /\ Others(t)
         /\ task'[t].at \in {"done", "extract", "embed"}
         /\ \A s \in Source \ stale : Pending(t, s) => Pending(t, s)'
         /\ task[t].kind = "pages" =>
              \A s \in task[t].todo : Pending(t, s)'
<1> DEFINE k == task[t]
           stale == SourcesOf(k.own) \ Keep(k)
           place == IF k.todo = {} THEN "extract" ELSE "embed"
           new == IF k.kind = "clear" THEN Idle ELSE [k EXCEPT !.at = place]
<1>1. /\ k \in TaskRecord /\ k.at = "prune" /\ Shape(k) /\ k.kind \in {"pages", "clear"}
      /\ k.own \in Artifacts
  BY Working DEF Prune, Shape, TaskRecord
<1>2. task' = [task EXCEPT ![t] = new]
  BY DEF Prune, End, TypeOK
<1>3. CASE k.kind = "clear"
  <2>1. new = Idle
    BY <1>3
  <2> HIDE DEF new
  <2>2. /\ task' \in [Tasks -> {Idle} \cup TaskRecord] /\ Shapes' /\ Others(t)
        /\ task'[t] = Idle
    BY <1>2, <2>1, TaskStep
  <2>3. ASSUME NEW s \in Source \ stale, Pending(t, s) PROVE FALSE
    <3>1. s \in k.todo
      BY <1>3, <2>3 DEF Pending
    <3>2. s \in PagesOf(k.own) /\ s \notin k.scope
      BY <1>1, <1>3, <3>1 DEF Shape
    <3>3. s \in SourcesOf(k.own) /\ s # <<k.own, Blob>>
      BY <1>1, <3>2, SourceFacts
    <3> QED BY <1>3, <2>3, <3>2, <3>3 DEF Keep
  <2> QED BY <1>3, <2>2, <2>3 DEF Idle
<1>4. CASE k.kind = "pages"
  <2>1. new = [k EXCEPT !.at = place]
    BY <1>4
  <2>2. place \in {"extract", "embed"}
    OBVIOUS
  <2>3. /\ new \in TaskRecord /\ new.kind = "pages" /\ new.own = k.own /\ new.snap = k.snap
        /\ new.todo = k.todo /\ new.at = place
    <3> HIDE DEF new, place
    <3> QED BY <1>1, <1>4, <2>1, <2>2 DEF TaskRecord
  <2> HIDE DEF new
  <2>4. k.snap \in [PagesOf(k.own) -> Nat] /\ k.todo \subseteq Indexable(k)
    BY <1>1, <1>4 DEF Shape
  <2>5. Shape(new)
    <3>1. Indexable(new) = Indexable(k) /\ \A s \in Indexable(k) : k.snap[s] \in Nat \ {Gone} /\ s \in DOMAIN k.snap
      BY <2>3, <2>4 DEF Indexable
    <3>2. k.todo \subseteq SourcesOf(k.own)
      BY <1>1, <2>4, SourceFacts DEF Indexable
    <3> QED BY <1>1, <2>2, <2>3, <2>4, <3>1, <3>2 DEF Shape
  <2>6. /\ task' \in [Tasks -> {Idle} \cup TaskRecord] /\ Shapes' /\ Others(t)
        /\ task'[t] = new
    BY <1>2, <2>3, <2>5, TaskStep
  <2>7. ASSUME NEW s \in k.todo PROVE Pending(t, s)'
    BY <2>3, <2>6 DEF Pending
  <2>8. ASSUME NEW s \in Source \ stale, Pending(t, s) PROVE s \in k.todo
    BY <1>1, <1>4, <2>8 DEF Pending, Keep
  <2> QED BY <2>2, <2>3, <2>6, <2>7, <2>8
<1> QED BY <1>1, <1>3, <1>4

LEMMA PruneIInv ==
  ASSUME IInv, NEW t \in Tasks, Prune(t)
  PROVE  IInv'
<1> USE DEF IInv
<1> DEFINE k == task[t]
           stale == SourcesOf(k.own) \ Keep(k)
<1>1. /\ k \in TaskRecord /\ k.at = "prune" /\ Shape(k) /\ k.kind \in {"pages", "clear"}
      /\ k.own \in Artifacts /\ doc' = doc /\ clock' = clock /\ embedder' = embedder
      /\ graph' = graph /\ lock' = lock
  BY Working DEF Prune, Shape, TaskRecord, docVars, graphVars
<1>2. /\ task' \in [Tasks -> {Idle} \cup TaskRecord] /\ Shapes' /\ Others(t)
      /\ task'[t].at \in {"done", "extract", "embed"}
      /\ \A s \in Source \ stale : Pending(t, s) => Pending(t, s)'
      /\ k.kind = "pages" => \A s \in k.todo : Pending(t, s)'
  BY Pruning
<1>3. faults' \in Nat
  BY DEF Prune, Fault, TypeOK
<1>4. SaverAlone'
  BY <1>1, <1>2 DEF SaverAlone, Others
<1>5. stale \subseteq Source
  BY DEF SourcesOf
<1>6. CASE rows' = rows /\ gaps' = gaps \cup stale
  <2>1. \A s \in Source : Good(s)' <=> Good(s)
    BY <1>1, <1>6 DEF Good, Optional
  <2>2. Covered'
    <3>1. \A s \in Source \ gaps' : s \in gaps => Good(s)'
      BY <1>6
    <3>2. \A s \in Source \ gaps' : Pending(t, s) => Pending(t, s)' \/ Good(s)'
      BY <1>2, <1>6
    <3> QED BY <1>1, <1>2, <2>1, <3>1, <3>2, Covering
  <2>3. \A s \in PageSources : Held(s) => Held(s)'
    <3> SUFFICES ASSUME NEW s \in PageSources, Held(s) PROVE Held(s)'
      OBVIOUS
    <3>1. s \in Source
      BY SourceFacts
    <3>2. Pending(t, s) => Held(s)'
      BY <1>2, <1>6, <3>1 DEF Held
    <3> QED BY <1>1, <1>2, <1>6, <3>1, <3>2, Holding
  <2>4. BlobSpared'
    BY <1>1, <1>2, <2>3, Sparing
  <2>5. TypeOK'
    BY <1>1, <1>2, <1>3, <1>5, <1>6 DEF TypeOK
  <2> QED BY <1>2, <1>4, <2>2, <2>4, <2>5
<1>7. CASE /\ rows' = [s \in Source |-> IF s \in stale THEN {} ELSE rows[s]]
           /\ gaps' = (gaps \ {s \in stale : s[2] = Blob \/ doc[s] = Gone}) \cup Overtaken(k)
  <2>1. \A s \in Source : rows'[s] = IF s \in stale THEN {} ELSE rows[s]
    BY <1>7
  <2>2. \A s \in stale : s[1] = k.own /\ s \notin Keep(k)
    BY DEF SourcesOf
  <2>3. <<k.own, Blob>> \in stale => k.kind = "pages"
    BY <1>1 DEF Keep
  <2>4. ASSUME NEW s \in stale, s \in PageSources, doc[s] # Gone, rows[s] # {} \/ k.kind = "pages"
        PROVE  s \in gaps'
    <3>1. s \in PagesOf(k.own)
      BY <2>2, <2>4, SourceFacts
    <3>2. CASE k.kind = "pages"
      <4>1. k.snap[s] = Gone
        BY <1>1, <2>2, <2>4, <3>1, <3>2 DEF Shape, Keep, Indexable
      <4> QED BY <1>7, <2>4, <3>1, <3>2, <4>1 DEF Overtaken
    <3>3. CASE k.kind = "clear"
      <4>1. s \notin k.scope
        BY <2>2, <3>3 DEF Keep
      <4> QED BY <1>7, <2>4, <3>1, <3>3, <4>1 DEF Overtaken
    <3> QED BY <1>1, <3>2, <3>3
  <2> HIDE DEF stale
  <2>5. \A s \in Source \ stale : s \in gaps => s \in gaps'
    BY <1>7
  <2>6. \A s \in PageSources : s \in gaps /\ doc[s] # Gone => s \in gaps'
    BY <1>7, SourceFacts
  <2>7. ASSUME NEW s \in Source \ gaps' PROVE Good(s)' \/ \E u \in Tasks : Pending(u, s)'
    <3>1. ASSUME NEW u \in Tasks, Pending(u, s), s \notin stale \/ u # t
          PROVE  \E v \in Tasks : Pending(v, s)'
      BY <1>1, <1>2, <3>1, PendingOthers
    <3>2. CASE s \in stale /\ (doc[s] = Gone \/ s[2] = Blob)
      BY <1>1, <2>1, <2>2, <3>2 DEF Good, Optional
    <3>3. CASE s \in stale /\ doc[s] # Gone /\ s[2] # Blob
      <4>1. s \in PageSources
        BY <3>3, SourceFacts
      <4>2. rows[s] = {} /\ k.kind = "clear" /\ s \notin gaps
        BY <1>1, <2>4, <2>6, <2>7, <3>3, <4>1
      <4>3. CASE Good(s)
        <5>1. s[1] \in Artifacts /\ rows[<<s[1], Blob>>] # {}
          BY <3>3, <4>2, <4>3 DEF Good, Optional
        <5>2. <<s[1], Blob>> \in Source \ stale
          BY <1>1, <2>2, <2>3, <3>3, <4>2, SourceFacts
        <5>3. Optional(s)'
          BY <2>1, <5>1, <5>2 DEF Optional
        <5> QED BY <1>1, <2>1, <3>3, <5>3 DEF Good
      <4>4. CASE ~Good(s)
        <5>1. PICK u \in Tasks : Pending(u, s)
          BY <4>2, <4>4 DEF Covered
        <5>2. u # t
          BY <1>1, <3>3, <4>2, <5>1 DEF Pending
        <5> QED BY <3>1, <5>1, <5>2
      <4> QED BY <4>3, <4>4
    <3>4. CASE s \notin stale
      <4>1. s \notin gaps /\ rows'[s] = rows[s]
        BY <2>1, <2>5, <2>7, <3>4
      <4>2. CASE Good(s) /\ (Optional(s) => Optional(s)')
        BY <1>1, <4>1, <4>2 DEF Good
      <4>3. CASE Good(s) /\ Optional(s) /\ ~Optional(s)' /\ rows[s] = {} /\ doc[s] # Gone
        <5>1. s[1] \in Artifacts /\ s[2] # Blob /\ rows[<<s[1], Blob>>] # {}
          BY <4>3 DEF Optional
        <5>2. <<s[1], Blob>> \in Source
          BY <5>1, SourceFacts
        <5>3. <<s[1], Blob>> \in stale
          BY <2>1, <4>3, <5>1, <5>2 DEF Optional
        <5>4. s[1] = k.own /\ k.kind = "pages"
          BY <2>2, <2>3, <5>3
        <5>5. s \in Indexable(k)
          BY <2>7, <3>4, <5>4 DEF stale, SourcesOf, Keep
        <5>6. CASE s \in k.todo
          BY <1>2, <5>4, <5>6
        <5>7. CASE s \notin k.todo
          <6>1. Held(s)
            BY <1>1, <4>3, <5>4, <5>5, <5>7 DEF BlobSpared
          <6>2. PICK u \in Tasks : Pending(u, s)
            BY <4>1, <4>3, <6>1 DEF Held
          <6> QED BY <3>1, <3>4, <6>2
        <5> QED BY <5>6, <5>7
      <4>4. CASE Good(s) /\ (rows[s] # {} \/ doc[s] = Gone)
        BY <1>1, <4>1, <4>4 DEF Good
      <4>5. CASE ~Good(s)
        <5>1. PICK u \in Tasks : Pending(u, s)
          BY <4>1, <4>5 DEF Covered
        <5> QED BY <3>1, <3>4, <5>1
      <4> QED BY <4>2, <4>3, <4>4, <4>5
    <3> QED BY <3>2, <3>3, <3>4
  <2>8. ASSUME NEW s \in PageSources, doc[s] # Gone, Held(s) PROVE Held(s)'
    <3>1. s \in Source
      BY SourceFacts
    <3>2. rows[s] # {} => rows'[s] # {} \/ s \in gaps'
      BY <2>1, <2>4, <2>8, <3>1
    <3>3. s \in gaps => s \in gaps'
      BY <2>6, <2>8
    <3>4. Pending(t, s) => Held(s)'
      <4>1. CASE s \in stale
        <5>1. Pending(t, s) => k.kind = "pages"
          BY <1>1, <2>8 DEF Pending
        <5> QED BY <2>4, <2>8, <4>1, <5>1 DEF Held
      <4>2. CASE s \notin stale
        BY <1>2, <3>1, <4>2 DEF Held
      <4> QED BY <4>1, <4>2
    <3> QED BY <1>1, <1>2, <2>8, <3>1, <3>2, <3>3, <3>4, Holding
  <2>9. BlobSpared'
    BY <1>1, <1>2, <2>8, Sparing
  <2>10. TypeOK'
    <3>1. rows' \in [Source -> SUBSET Chunks]
      BY <1>7 DEF TypeOK
    <3>2. Overtaken(k) \subseteq Source
      BY <1>1, SourceFacts DEF Overtaken
    <3>3. gaps' \subseteq Source
      BY <1>7, <3>2 DEF TypeOK
    <3> QED BY <1>1, <1>2, <1>3, <3>1, <3>3 DEF TypeOK
  <2> QED BY <1>2, <1>4, <2>7, <2>9, <2>10 DEF Covered
<1> QED BY <1>6, <1>7 DEF Prune
-----------------------------------------------------------------------------
(* The documents *)

(* The record of a task just scheduled. *)
LEMMA NewTaskTyped ==
  ASSUME NEW kind \in {"index", "pages", "clear", "reindex", "rebuild"},
         NEW at \in {"list", "prune", "load", "embed", "collect"},
         NEW own \in Artifacts \cup Nodes \cup {None}, NEW snap \in Functions(Nat),
         NEW todo \in SUBSET Source
  PROVE  LET k == NewTask(kind, at, own, snap, todo) IN
         /\ k \in TaskRecord /\ k.kind = kind /\ k.at = at /\ k.own = own
         /\ k.snap = snap /\ k.todo = todo /\ k.scope = todo
BY DEF NewTask, TaskRecord, Outcomes, Functions, NoTxn

(* Who is scheduled takes the place of an idle task. *)
LEMMA Scheduling ==
  ASSUME TypeOK, Shapes, NEW new \in TaskRecord, Shape(new), Schedule(new)
  PROVE  /\ task' \in [Tasks -> {Idle} \cup TaskRecord] /\ Shapes'
         /\ \E t \in Tasks : task[t] = Idle /\ task'[t] = new /\ Others(t)
<1>1. PICK t \in Tasks : task[t] = Idle /\ task' = [task EXCEPT ![t] = new]
  BY DEF Schedule
<1> QED BY <1>1, TaskStep

(* Documents change: every text that became another is on some new task's  *)
(* way, or a gap, and whoever is at work goes on.                          *)
LEMMA EditStep ==
  ASSUME IInv, doc' \in [Source -> Nat], clock' \in Nat, faults' \in Nat, embedder' \in Int,
         task' \in [Tasks -> {Idle} \cup TaskRecord], Shapes',
         rows' = rows, graph' = graph, lock' = lock,
         gaps \subseteq gaps', gaps' \subseteq Source,
         \A u \in Tasks : task[u] # Idle => task'[u] = task[u],
         \A u \in Tasks : task[u] = Idle /\ task'[u] # Idle =>
           /\ task'[u].at # "save"
           /\ task'[u].kind = "pages" /\ task'[u].at = "prune" =>
                Indexable(task'[u]) \subseteq task'[u].todo,
         \A s \in Source \ gaps' : doc'[s] = doc[s] \/ \E u \in Tasks : Pending(u, s)'
  PROVE  IInv'
<1> USE DEF IInv
<1>1. ASSUME NEW s \in Source, doc'[s] = doc[s], NEW u \in Tasks, Pending(u, s)
      PROVE  Pending(u, s)'
  <2>1. task[u] # Idle
    BY <1>1 DEF Pending, Idle
  <2>2. task'[u] = task[u]
    BY <2>1
  <2> QED BY <1>1, <2>2 DEF Pending
<1>2. Covered'
  <2> SUFFICES ASSUME NEW s \in Source \ gaps' PROVE Good(s)' \/ \E u \in Tasks : Pending(u, s)'
    BY DEF Covered
  <2>1. CASE doc'[s] = doc[s]
    <3>1. Good(s) => Good(s)'
      BY <2>1 DEF Good, Optional
    <3> QED BY <1>1, <2>1, <3>1 DEF Covered
  <2> QED BY <2>1
<1>3. BlobSpared'
  <2> SUFFICES ASSUME NEW u \in Tasks, task'[u].kind = "pages", task'[u].at = "prune",
                      NEW s \in Indexable(task'[u]) \ task'[u].todo, doc'[s] # Gone
               PROVE  Held(s)'
    BY DEF BlobSpared
  <2>1. task'[u] # Idle
    BY DEF Idle
  <2>2. task[u] # Idle /\ task'[u] = task[u]
    BY <2>1
  <2>3. Shape(task[u])
    BY <2>2 DEF Shapes
  <2>4. s \in PageSources
    BY <2>2, <2>3, SourceFacts DEF Shape, Indexable
  <2>5. s \in Source
    BY <2>4, SourceFacts
  <2>6. CASE doc'[s] = doc[s]
    <3>1. Held(s)
      BY <2>2, <2>6 DEF BlobSpared
    <3>2. CASE \E v \in Tasks : Pending(v, s)
      BY <1>1, <2>5, <2>6, <3>2 DEF Held
    <3> QED BY <3>1, <3>2 DEF Held
  <2>7. CASE doc'[s] # doc[s]
    BY <2>5, <2>7 DEF Held
  <2> QED BY <2>6, <2>7
<1>4. SaverAlone'
  <2> SUFFICES ASSUME NEW u \in Tasks, task'[u].at = "save" PROVE lock = u /\ task'[u].base = graph
    BY DEF SaverAlone
  <2>1. task'[u] # Idle
    BY DEF Idle
  <2>2. task'[u] = task[u]
    BY <2>1
  <2> QED BY <2>2 DEF SaverAlone
<1>5. TypeOK'
  BY DEF TypeOK
<1> QED BY <1>2, <1>3, <1>4, <1>5

(* The same, with one task scheduled for all texts that changed. *)
LEMMA ScheduledStep ==
  ASSUME IInv, NEW new \in TaskRecord, Shape(new), Schedule(new),
         new.at \notin {"save"},
         new.kind = "pages" /\ new.at = "prune" => Indexable(new) \subseteq new.todo,
         doc' \in [Source -> Nat], clock' \in Nat, faults' = faults, embedder' = embedder,
         rows' = rows, graph' = graph, lock' = lock, gaps' = gaps,
         \A t \in Tasks : task'[t] = new =>
           \A s \in Source : doc'[s] = doc[s] \/ Pending(t, s)'
  PROVE  IInv'
<1>1. TypeOK /\ Shapes
  BY DEF IInv
<1>2. task' \in [Tasks -> {Idle} \cup TaskRecord] /\ Shapes'
  BY <1>1, Scheduling
<1>3. PICK t \in Tasks : task[t] = Idle /\ task'[t] = new /\ Others(t)
  BY <1>1, Scheduling
<1>4. \A u \in Tasks : task[u] # Idle => task'[u] = task[u]
  BY <1>3 DEF Others
<1>5. \A u \in Tasks : task[u] = Idle /\ task'[u] # Idle => task'[u] = new
  BY <1>3 DEF Others
<1>6. faults' \in Nat /\ embedder' \in Int /\ gaps' \subseteq Source
  BY <1>1 DEF TypeOK
<1> QED BY <1>2, <1>3, <1>4, <1>5, <1>6, EditStep

LEMMA EditTextIInv ==
  ASSUME IInv, NEW s \in Source, EditText(s)
  PROVE  IInv'
<1> DEFINE snap == [p \in {s} |-> clock + 1]
           new == NewTask("index", "embed", s[1], snap, {s})
<1>1. /\ doc' = [doc EXCEPT ![s] = clock + 1] /\ clock' = clock + 1 /\ Schedule(new)
      /\ rows' = rows /\ gaps' = gaps /\ graph' = graph /\ lock' = lock
      /\ embedder' = embedder /\ faults' = faults
  BY DEF EditText, Changed, memVars, graphVars
<1>2. clock \in Nat /\ doc \in [Source -> Nat]
  BY DEF IInv, TypeOK
<1>3. snap \in [{s} -> Nat] /\ snap[s] = clock + 1
  BY <1>2
<1>4. snap \in Functions(Nat)
  <2> HIDE DEF snap
  <2> QED BY <1>3 DEF Functions
<1>5. s[1] \in Artifacts \cup Nodes /\ s \in SourcesOf(s[1])
  BY DEF Source, PageSources, SourcesOf
<1> HIDE DEF snap
<1>6. /\ new \in TaskRecord /\ new.kind = "index" /\ new.at = "embed" /\ new.own = s[1]
      /\ new.snap = snap /\ new.todo = {s}
  BY <1>4, <1>5, NewTaskTyped
<1> HIDE DEF new
<1>7. Shape(new)
  <2>1. snap[s] \in Nat \ {Gone} /\ s \in DOMAIN snap
    BY <1>2, <1>3 DEF Gone
  <2> QED BY <1>5, <1>6, <2>1 DEF Shape
<1>8. ASSUME NEW t \in Tasks, task'[t] = new, NEW u \in Source
      PROVE  doc'[u] = doc[u] \/ Pending(t, u)'
  <2>1. CASE u = s
    BY <1>6, <1>8, <2>1 DEF Pending
  <2> QED BY <1>1, <1>2, <2>1
<1>9. doc' \in [Source -> Nat] /\ clock' \in Nat
  BY <1>1, <1>2
<1> QED BY <1>1, <1>6, <1>7, <1>8, <1>9, ScheduledStep

LEMMA EditUnseenIInv ==
  ASSUME IInv, NEW s \in Source, EditUnseen(s)
  PROVE  IInv'
<1>1. PICK text \in {Gone, clock + 1} : doc' = [doc EXCEPT ![s] = text] /\ clock' = clock + 1
  BY DEF EditUnseen, Changed
<1>2. /\ gaps' = gaps \cup {s} /\ rows' = rows /\ embedder' = embedder /\ task' = task
      /\ graph' = graph /\ lock' = lock /\ faults' = faults
  BY DEF EditUnseen, graphVars
<1>3. TypeOK /\ Shapes
  BY DEF IInv
<1>4. doc' \in [Source -> Nat] /\ clock' \in Nat
  BY <1>1, <1>3 DEF TypeOK, Gone
<1>5. \A u \in Source \ gaps' : doc'[u] = doc[u]
  BY <1>1, <1>2, <1>3 DEF TypeOK
<1>6. Shapes'
  BY <1>2, <1>3 DEF Shapes
<1>7. /\ task' \in [Tasks -> {Idle} \cup TaskRecord] /\ faults' \in Nat /\ embedder' \in Int
      /\ gaps \subseteq gaps' /\ gaps' \subseteq Source
  BY <1>2, <1>3 DEF TypeOK
<1>8. \A u \in Tasks : task'[u] = task[u]
  BY <1>2
<1> QED BY <1>2, <1>4, <1>5, <1>6, <1>7, <1>8, EditStep

LEMMA ClearPageIInv ==
  ASSUME IInv, NEW s \in PageSources, ClearPage(s)
  PROVE  IInv'
<1> DEFINE snap == [p \in {s} |-> Gone]
           new == NewTask("clear", "list", s[1], snap, {s})
<1>1. /\ doc' = [doc EXCEPT ![s] = Gone] /\ clock' = clock + 1 /\ Schedule(new)
      /\ rows' = rows /\ gaps' = gaps /\ graph' = graph /\ lock' = lock
      /\ embedder' = embedder /\ faults' = faults
  BY DEF ClearPage, Changed, memVars, graphVars
<1>2. clock \in Nat /\ doc \in [Source -> Nat] /\ s \in Source
  BY SourceFacts DEF IInv, TypeOK
<1>3. snap \in [{s} -> Nat]
  BY DEF Gone
<1>4. snap \in Functions(Nat)
  <2> HIDE DEF snap
  <2> QED BY <1>2, <1>3 DEF Functions
<1>5. s[1] \in Artifacts /\ {s} \subseteq PagesOf(s[1])
  BY SourceFacts
<1> HIDE DEF snap
<1>6. /\ new \in TaskRecord /\ new.kind = "clear" /\ new.at = "list" /\ new.own = s[1]
      /\ new.snap = snap /\ new.todo = {s}
  BY <1>2, <1>4, <1>5, NewTaskTyped
<1> HIDE DEF new
<1>7. Shape(new)
  BY <1>5, <1>6 DEF Shape
<1>8. ASSUME NEW t \in Tasks, task'[t] = new, NEW u \in Source
      PROVE  doc'[u] = doc[u] \/ Pending(t, u)'
  <2>1. CASE u = s
    BY <1>1, <1>2, <1>6, <1>8, <2>1 DEF Pending
  <2> QED BY <1>1, <1>2, <2>1
<1>9. doc' \in [Source -> Nat] /\ clock' \in Nat
  BY <1>1, <1>2 DEF Gone
<1> QED BY <1>1, <1>6, <1>7, <1>8, <1>9, ScheduledStep
(* The task of a run or of a wholesale edit indexes all it must. *)
LEMMA PagesTaskShape ==
  ASSUME NEW a \in Artifacts, NEW d \in [Source -> Nat], NEW only \in SUBSET PagesOf(a),
         only # PagesOf(a) => \A s \in only : d[s] # Gone
  PROVE  LET k == PagesTask(a, d, only) IN
         /\ k \in TaskRecord /\ Shape(k) /\ k.kind = "pages" /\ k.own = a
         /\ k.at \in {"list", "prune"}
         /\ k.at = "prune" => Indexable(k) \subseteq k.todo
         /\ only \subseteq SourcesOf(a) \ (Indexable(k) \ k.todo)
<1> DEFINE given == Restrict(d, PagesOf(a))
           indexable == {s \in PagesOf(a) : d[s] # Gone}
           k == PagesTask(a, d, only)
<1>1. PagesOf(a) \subseteq Source /\ PagesOf(a) \subseteq SourcesOf(a)
  BY SourceFacts
<1>2. given \in [PagesOf(a) -> Nat] /\ \A s \in PagesOf(a) : given[s] = d[s]
  BY <1>1 DEF Restrict
<1>3. given \in Functions(Nat)
  <2> HIDE DEF given
  <2> QED BY <1>1, <1>2 DEF Functions
<1>4. PICK at \in {"list", "prune"}, todo \in SUBSET indexable :
        /\ k = NewTask("pages", at, a, given, todo)
        /\ at = "prune" => todo = indexable
        /\ at = "list" => todo = only
        /\ only \cap indexable \subseteq todo
  <2> HIDE DEF given
  <2>1. CASE only = PagesOf(a)
    <3>1. k = NewTask("pages", "prune", a, given, indexable)
      BY <2>1 DEF PagesTask, given
    <3> QED BY <3>1
  <2>2. CASE only # PagesOf(a)
    <3>1. k = NewTask("pages", "list", a, given, only)
      BY <2>2 DEF PagesTask, given
    <3>2. only \in SUBSET indexable
      BY <2>2
    <3> QED BY <3>1, <3>2
  <2> QED BY <2>1, <2>2
<1> HIDE DEF given, k
<1>5. /\ k \in TaskRecord /\ k.kind = "pages" /\ k.at = at /\ k.own = a
      /\ k.snap = given /\ k.todo = todo
  <2>1. a \in Artifacts \cup Nodes \cup {None} /\ todo \in SUBSET Source
    BY <1>1
  <2> QED BY <1>3, <1>4, <2>1, NewTaskTyped
<1>6. Indexable(k) = indexable
  BY <1>2, <1>5 DEF Indexable
<1>7. Shape(k)
  BY <1>2, <1>5, <1>6 DEF Shape
<1> QED BY <1>1, <1>4, <1>5, <1>6, <1>7 DEF k

LEMMA GenerateIInv ==
  ASSUME IInv, NEW a \in Artifacts, Generate(a)
  PROVE  IInv'
<1>1. PICK S \in SUBSET PagesOf(a) :
        /\ \A s \in PagesOf(a) : Renewed(S, {})[s] # Gone
        /\ Changed(Renewed(S, {})) /\ Schedule(PagesTask(a, Renewed(S, {}), S))
  BY DEF Generate
<1> DEFINE d == Renewed(S, {})
           new == PagesTask(a, d, S)
<1>2. /\ doc' = d /\ clock' = clock + 1 /\ rows' = rows /\ gaps' = gaps
      /\ graph' = graph /\ lock' = lock /\ embedder' = embedder /\ faults' = faults
  BY <1>1 DEF Generate, Changed, memVars, graphVars
<1>3. clock \in Nat /\ doc \in [Source -> Nat]
  BY DEF IInv, TypeOK
<1>4. d \in [Source -> Nat] /\ \A s \in Source \ S : d[s] = doc[s]
  BY <1>3 DEF Renewed, Gone
<1>5. /\ new \in TaskRecord /\ Shape(new) /\ new.kind = "pages" /\ new.own = a
      /\ new.at \in {"list", "prune"}
      /\ new.at = "prune" => Indexable(new) \subseteq new.todo
      /\ S \subseteq SourcesOf(a) \ (Indexable(new) \ new.todo)
  <2> HIDE DEF d
  <2> QED BY <1>1, <1>4, PagesTaskShape DEF d
<1> HIDE DEF d, new
<1>6. ASSUME NEW t \in Tasks, task'[t] = new, NEW s \in Source
      PROVE  doc'[s] = doc[s] \/ Pending(t, s)'
  <2>1. CASE s \in S
    <3>1. task'[t].kind = "pages" /\ task'[t].at \in {"list", "prune"}
      BY <1>5, <1>6
    <3>2. s \in SourcesOf(task'[t].own) \ (Indexable(task'[t]) \ task'[t].todo)
      BY <1>5, <1>6, <2>1
    <3> QED BY <3>1, <3>2 DEF Pending
  <2> QED BY <1>2, <1>4, <2>1
<1>7. Schedule(new)
  BY <1>1 DEF new, d
<1>8. doc' \in [Source -> Nat] /\ clock' \in Nat
  BY <1>2, <1>3, <1>4
<1> QED BY <1>2, <1>5, <1>6, <1>7, <1>8, ScheduledStep

LEMMA ReplacePagesIInv ==
  ASSUME IInv, NEW a \in Artifacts, ReplacePages(a)
  PROVE  IInv'
<1>1. PICK S \in SUBSET PagesOf(a), E \in SUBSET PagesOf(a) :
        /\ Changed(Renewed(S, E))
        /\ IF \A s \in PagesOf(a) : Renewed(S, E)[s] = Gone
           THEN gaps' = gaps \cup PagesOf(a) /\ UNCHANGED task
           ELSE Schedule(PagesTask(a, Renewed(S, E), PagesOf(a))) /\ UNCHANGED gaps
  BY DEF ReplacePages
<1> DEFINE d == Renewed(S, E)
           new == PagesTask(a, d, PagesOf(a))
<1>2. /\ doc' = d /\ clock' = clock + 1 /\ rows' = rows
      /\ graph' = graph /\ lock' = lock /\ embedder' = embedder /\ faults' = faults
  BY <1>1 DEF ReplacePages, Changed, graphVars
<1>3. TypeOK /\ Shapes /\ PagesOf(a) \subseteq Source
  BY SourceFacts DEF IInv
<1>4. d \in [Source -> Nat] /\ \A s \in Source \ PagesOf(a) : d[s] = doc[s]
  BY <1>3 DEF Renewed, Gone, TypeOK
<1>5. doc' \in [Source -> Nat] /\ clock' \in Nat
  BY <1>2, <1>3, <1>4 DEF TypeOK
<1>6. CASE gaps' = gaps \cup PagesOf(a) /\ UNCHANGED task
  <2> HIDE DEF d
  <2>1. \A s \in Source \ gaps' : doc'[s] = doc[s]
    BY <1>2, <1>4, <1>6
  <2>2. Shapes' /\ \A u \in Tasks : task'[u] = task[u]
    BY <1>3, <1>6 DEF Shapes
  <2>3. /\ task' \in [Tasks -> {Idle} \cup TaskRecord] /\ faults' \in Nat
        /\ embedder' \in Int /\ gaps \subseteq gaps' /\ gaps' \subseteq Source
    BY <1>2, <1>3, <1>6 DEF TypeOK
  <2> QED BY <1>2, <1>5, <2>1, <2>2, <2>3, EditStep
<1>7. CASE Schedule(new) /\ gaps' = gaps
  <2>1. /\ new \in TaskRecord /\ Shape(new) /\ new.kind = "pages" /\ new.own = a
        /\ new.at \in {"list", "prune"}
        /\ new.at = "prune" => Indexable(new) \subseteq new.todo
        /\ PagesOf(a) \subseteq SourcesOf(a) \ (Indexable(new) \ new.todo)
    <3> HIDE DEF d
    <3> QED BY <1>4, PagesTaskShape
  <2> HIDE DEF d, new
  <2>2. ASSUME NEW t \in Tasks, task'[t] = new, NEW s \in Source
        PROVE  doc'[s] = doc[s] \/ Pending(t, s)'
    <3>1. CASE s \in PagesOf(a)
      <4>1. task'[t].kind = "pages" /\ task'[t].at \in {"list", "prune"}
        BY <2>1, <2>2
      <4>2. s \in SourcesOf(task'[t].own) \ (Indexable(task'[t]) \ task'[t].todo)
        BY <2>1, <2>2, <3>1
      <4> QED BY <4>1, <4>2 DEF Pending
    <3> QED BY <1>2, <1>4, <3>1
  <2> QED BY <1>2, <1>5, <1>7, <2>1, <2>2, ScheduledStep
<1> QED BY <1>1, <1>6, <1>7

LEMMA AdminIInv ==
  ASSUME IInv, Admin
  PROVE  IInv'
<1>1. PICK call \in {<<"reindex", "load">>, <<"rebuild", "collect">>} :
        Schedule(NewTask(call[1], call[2], None, <<>>, {}))
  BY DEF Admin
<1> DEFINE new == NewTask(call[1], call[2], None, <<>>, {})
<1>2. /\ new \in TaskRecord /\ new.kind = call[1] /\ new.at = call[2] /\ new.todo = {}
      /\ new.snap = <<>>
  <2>1. call[1] \in {"reindex", "rebuild"} /\ call[2] \in {"load", "collect"}
    OBVIOUS
  <2>2. <<>> \in Functions(Nat) /\ None \in Artifacts \cup Nodes \cup {None}
    BY DEF Functions
  <2> QED BY <2>1, <2>2, NewTaskTyped
<1> HIDE DEF new
<1>3. Shape(new)
  BY <1>2 DEF Shape
<1>4. new.kind # "pages" /\ new.at # "save"
  BY <1>2
<1>5. /\ doc' = doc /\ clock' = clock + 1 /\ rows' = rows /\ gaps' = gaps
      /\ graph' = graph /\ lock' = lock /\ embedder' = embedder /\ faults' = faults
  BY DEF Admin, memVars, graphVars
<1>6. doc' \in [Source -> Nat] /\ clock' \in Nat
  BY <1>5 DEF IInv, TypeOK
<1> QED BY <1>1, <1>2, <1>3, <1>4, <1>5, <1>6, ScheduledStep DEF new

LEMMA SwitchIInv ==
  ASSUME IInv, SwitchEmbedder
  PROVE  IInv'
<1>1. /\ embedder' = 1 - embedder /\ doc' = doc /\ clock' = clock /\ rows' = rows
      /\ gaps' = gaps /\ task' = task /\ graph' = graph /\ lock' = lock
  BY DEF SwitchEmbedder, docVars, memVars, graphVars
<1>2. TypeOK /\ Shapes
  BY DEF IInv
<1>3. /\ embedder' \in Int /\ doc' \in [Source -> Nat] /\ clock' \in Nat /\ faults' \in Nat
      /\ task' \in [Tasks -> {Idle} \cup TaskRecord] /\ gaps' \subseteq Source
  BY <1>1, <1>2 DEF TypeOK, SwitchEmbedder, Fault
<1>4. Shapes' /\ \A u \in Tasks : task'[u] = task[u]
  BY <1>1, <1>2 DEF Shapes
<1> QED BY <1>1, <1>3, <1>4, EditStep

-----------------------------------------------------------------------------
(* The theorems *)

LEMMA InitIInv == Init => IInv
<1> SUFFICES ASSUME Init PROVE IInv
  OBVIOUS
<1>1. PICK legacy \in BOOLEAN :
        rows = [s \in Source |->
          IF s[1] \in Nodes \/ (s \in PageSources) # legacy THEN {Row(1, "full")} ELSE {}]
  BY DEF Init
<1>2. Row(1, "full") \in Chunks
  BY DEF Row, Chunks, Outcomes
<1>3. TypeOK
  <2>1. rows \in [Source -> SUBSET Chunks]
    BY <1>1, <1>2
  <2>2. graph \in Graphs
    BY DEF Init, Absent, Graphs
  <2> QED BY <2>1, <2>2 DEF Init, TypeOK, Pinned
<1>4. Shapes /\ BlobSpared /\ SaverAlone
  BY DEF Init, Shapes, BlobSpared, SaverAlone, Idle
<1>5. ASSUME NEW s \in Source PROVE Good(s)
  <2>1. doc[s] = 1 /\ doc[s] # Gone
    BY DEF Init, Gone
  <2>2. rows[s] \in {{Row(doc[s], "full")}, {}}
    BY <1>1, <2>1
  <2>3. CASE rows[s] # {}
    BY <2>1, <2>2, <2>3 DEF Good
  <2>4. CASE rows[s] = {}
    <3>1. s[1] \notin Nodes /\ (s \in PageSources) = legacy
      BY <1>1, <2>4
    <3>2. s[1] \in Artifacts
      BY <3>1 DEF Source, PageSources
    <3>3. CASE s[2] = Blob
      BY <2>1, <2>2, <3>2, <3>3 DEF Good, Optional
    <3>4. CASE s[2] # Blob
      <4>1. legacy = TRUE
        BY <3>1, <3>4, SourceFacts
      <4>2. <<s[1], Blob>> \in Source /\ <<s[1], Blob>> \notin PageSources
        BY <3>2, SourceFacts
      <4>3. rows[<<s[1], Blob>>] # {}
        BY <1>1, <4>1, <4>2
      <4> QED BY <2>1, <2>2, <3>2, <4>3 DEF Good, Optional
    <3> QED BY <3>3, <3>4
  <2> QED BY <2>3, <2>4
<1> QED BY <1>3, <1>4, <1>5 DEF IInv, Covered

LEMMA NextIInv == IInv /\ [Next]_vars => IInv'
<1> SUFFICES ASSUME IInv, [Next]_vars PROVE IInv'
  OBVIOUS
<1>1. ASSUME NEW t \in Tasks, Step(t) PROVE IInv'
  BY <1>1, ListIInv, PruneIInv, LoadIInv, EmbedIInv, DeleteIInv, CommitIInv, CollectIInv,
     ExtractIInv, LockGraphIInv, SaveGraphIInv DEF Step
<1>2. CASE UNCHANGED vars
  BY <1>2 DEF vars, IInv, TypeOK, Shapes, Covered, Good, Optional, Pending, BlobSpared, Held,
              SaverAlone
<1>3. ASSUME NEW s \in Source, EditText(s) \/ EditUnseen(s) PROVE IInv'
  BY <1>3, EditTextIInv, EditUnseenIInv
<1>4. ASSUME NEW s \in PageSources, ClearPage(s) PROVE IInv'
  BY <1>4, ClearPageIInv
<1>5. ASSUME NEW a \in Artifacts, Generate(a) \/ ReplacePages(a) PROVE IInv'
  BY <1>5, GenerateIInv, ReplacePagesIInv
<1> QED BY <1>1, <1>2, <1>3, <1>4, <1>5, AdminIInv, SwitchIInv DEF Next

(* Chunks, texts, tasks and graph fit together at any time: a source that  *)
(* no known gap left behind has the chunks of its text, or somebody is on  *)
(* the way to it (_schedule_indexing, index_pages_incrementally).          *)
THEOREM Invariance == Spec => []IInv
<1> QED BY InitIInv, NextIInv, PTL DEF Spec

(* Once no task is at work on a source, recall finds its present text,     *)
(* whole and with its vectors, by meaning as by name, or nothing when it   *)
(* has none (memory/pgvector_backend.py upsert, prune and reindex).        *)
THEOREM RecallIsCurrent == Spec => []RecallCurrent
<1>1. IInv => RecallCurrent
  <2> SUFFICES ASSUME IInv, NEW s \in Source \ gaps, ~Busy(s)
               PROVE  /\ Cosine(s) = Lexical(s) /\ Whole(s)
                      /\ Cosine(s) \subseteq {doc[s]} \ {Gone}
                      /\ doc[s] # Gone /\ ~Optional(s) => doc[s] \in Cosine(s)
    BY DEF RecallCurrent
  <2>1. \A t \in Tasks : ~Pending(t, s)
    <3> SUFFICES ASSUME NEW t \in Tasks, Pending(t, s) PROVE FALSE
      OBVIOUS
    <3>1. task[t].at # "done"
      BY DEF IInv, TypeOK, Pending, Idle, TaskRecord
    <3>2. Shape(task[t]) /\ task[t] \in TaskRecord
      BY <3>1, Working DEF IInv
    <3>3. task[t].at \in {"list", "prune", "embed", "delete", "commit"}
      BY <3>2 DEF Pending, Shape
    <3>4. s \in SourcesOf(task[t].own)
      BY <3>2, SourceFacts DEF Pending, Shape
    <3> QED BY <3>3, <3>4 DEF Busy, SourcesOf
  <2>2. Good(s)
    BY <2>1 DEF IInv, Covered
  <2>3. rows[s] \in {{}, {Row(doc[s], "full")}}
    BY <2>2 DEF Good
  <2>4. CASE rows[s] = {}
    BY <2>2, <2>4 DEF Good, Cosine, Lexical, Whole
  <2>5. CASE rows[s] = {Row(doc[s], "full")}
    <3>1. Cosine(s) = {doc[s]} /\ Lexical(s) = {doc[s]} /\ Whole(s)
      BY <2>5 DEF Row, Cosine, Lexical, Whole
    <3>2. doc[s] # Gone
      BY <2>2, <2>5 DEF Good
    <3> QED BY <3>1, <3>2
  <2> QED BY <2>3, <2>4, <2>5
<1> QED BY <1>1, Invariance, PTL

(* The graph a task leaves is its terms merged into the graph as stored at *)
(* that moment (docgen/_common.py, the graph write lock).                  *)
THEOREM MergesAreKept == Spec => MergesKept
<1> DEFINE Kept == \A t \in Tasks : task[t].at = "save" /\ task'[t] # task[t] /\ faults' = faults
                     => graph' = Merged(task[t], graph)
<1>1. IInv /\ [Next]_vars => [Kept]_vars
  <2> SUFFICES ASSUME IInv, Next, NEW t \in Tasks, task[t].at = "save", task'[t] # task[t],
                      faults' = faults
               PROVE  graph' = Merged(task[t], graph)
    OBVIOUS
  <2>1. task[t] # Idle
    BY DEF Idle
  <2>2. ASSUME NEW u \in Tasks, Step(u) PROVE u = t
    BY <2>2 DEF Step, List, Prune, Load, Embed, Delete, Commit, Collect, Extract, LockGraph,
                SaveGraph, Advance, End, IInv, TypeOK
  <2>3. ASSUME NEW new, Schedule(new) PROVE FALSE
    BY <2>1, <2>3 DEF Schedule, IInv, TypeOK
  <2>4. Step(t)
    BY <2>2, <2>3 DEF Next, EditText, EditUnseen, ClearPage, Generate, ReplacePages, Admin,
                      SwitchEmbedder
  <2>5. SaveGraph(t)
    BY <2>4 DEF Step, List, Prune, Load, Embed, Delete, Commit, Collect, Extract, LockGraph
  <2>6. graph' = Merged(task[t], task[t].base)
    BY <2>5 DEF SaveGraph, Fails, Fault, IInv, TypeOK
  <2>7. task[t].base = graph
    BY DEF IInv, SaverAlone
  <2> QED BY <2>6, <2>7
<1> QED BY <1>1, Invariance, PTL DEF Spec, MergesKept
=============================================================================
