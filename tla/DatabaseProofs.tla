---------------------------- MODULE DatabaseProofs ----------------------------
(***************************************************************************)
(* Machine-checked proofs about DatabaseDocs and CatalogWalk, for any      *)
(* tables, definitions, schemas, categories and bounds.                    *)
(***************************************************************************)
EXTENDS DatabaseDocs, CatalogWalk, FiniteSetTheorems, TLAPS

(* Fingerprints are of what the page says.                                 *)
PageSound(p) ==
  /\ p.print \in Definitions => p.text.of = p.print
  /\ p.object \in Evidence => p.text.of = p.object[1]

(* A flag is on a text approved for that page.                             *)
FlagBound(t, p) ==
  p.verified => \E a \in approved : a[1] = t /\ p.text \in {a[2], Guard(a[2])}

(* So are they all, wherever pages may come from.                          *)
TreeSound(tree) == \A t \in DOMAIN tree : PageSound(tree[t]) /\ FlagBound(t, tree[t])
TreesSound ==
  /\ TreeSound(pages) /\ TreeSound(first) /\ TreeSound(current)
  /\ TreeSound(run.old) /\ TreeSound(req.pages)

(* A page that a run of impacted pages leaves out is about its table as    *)
(* the walk found it.                                                      *)
LeftOut(seen) ==
  \A t \in Present(seen) \ run.force :
     t \in DOMAIN run.old /\ run.old[t].object = <<seen[t], FALSE>>
RunPlan ==
  /\ run.step = "planned" /\ run.seen # None /\ run.force # {} => LeftOut(run.seen)
  /\ run.step = "walked" => run.info # None
  /\ run.step = "walked" /\ run.whole /\ run.force # {} => LeftOut(run.info)

(* The baseline describes the pages, and a cancellation would keep them so. *)
Documented(t) ==
  \A e \in baseline : e[1] \in DOMAIN t /\ t[e[1]].text.of = e[2][1]
BaselineMet ==
  ~loose => /\ baseline # None => Documented(pages)
            /\ TextTree(pages) = TextTree(current)

ReqHolds == req.op \in {"edit", "remove", "verify"} => req.page \in DOMAIN req.pages

(* The inductive invariant.                                                *)
IInv == TypeOK /\ TreesSound /\ RunPlan /\ BaselineMet /\ ReqHolds /\ RowIsCurrent

-----------------------------------------------------------------------------
(* Trees of pages.                                                         *)
LEMMA TreeFacts ==
  /\ Empty \in Trees /\ DOMAIN Empty = {}
  /\ \A some \in SUBSET Tables : \A f \in [some -> Page] : f \in Trees
  /\ \A t \in Trees : DOMAIN t \subseteq Tables /\ t \in [DOMAIN t -> Page]
<1>1. \A some \in SUBSET Tables : \A f \in [some -> Page] : f \in Trees
  BY DEF Trees
<1>2. Empty \in [{} -> Page] /\ DOMAIN Empty = {}
  BY DEF Empty
<1>3. ASSUME NEW t \in Trees PROVE DOMAIN t \subseteq Tables /\ t \in [DOMAIN t -> Page]
  <2>1. PICK some \in SUBSET Tables : t \in [some -> Page]
    BY <1>3 DEF Trees
  <2> QED BY <2>1
<1> QED BY <1>1, <1>2, <1>3

(* The guard leaves what a text is about, and has nothing to do twice.     *)
LEMMA GuardFacts ==
  ASSUME NEW text \in Text
  PROVE  Guard(text) \in Text /\ Guard(text).of = text.of /\ Guard(Guard(text)) = Guard(text)
BY DEF Guard, Text

(* A page after the guard, a verification and an edit.                     *)
LEMMA PageUpdates ==
  ASSUME NEW p \in Page
  PROVE  /\ p.text \in Text /\ p.verified \in BOOLEAN
         /\ [p EXCEPT !.text = Guard(@)] \in Page
         /\ [p EXCEPT !.text = Guard(@)].text = Guard(p.text)
         /\ [p EXCEPT !.text = Guard(@)].print = p.print
         /\ [p EXCEPT !.text = Guard(@)].object = p.object
         /\ [p EXCEPT !.text = Guard(@)].verified = p.verified
         /\ \A b \in BOOLEAN :
              /\ [p EXCEPT !.verified = b] \in Page
              /\ [p EXCEPT !.verified = b].text = p.text
              /\ [p EXCEPT !.verified = b].print = p.print
              /\ [p EXCEPT !.verified = b].object = p.object
              /\ [p EXCEPT !.verified = b].verified = b
         /\ [p EXCEPT !.text.words = "raw", !.verified = FALSE] \in Page
         /\ [p EXCEPT !.text.words = "raw", !.verified = FALSE].text.of = p.text.of
         /\ [p EXCEPT !.text.words = "raw", !.verified = FALSE].print = p.print
         /\ [p EXCEPT !.text.words = "raw", !.verified = FALSE].object = p.object
         /\ [p EXCEPT !.text.words = "raw", !.verified = FALSE].verified = FALSE
<1>1. p.text \in Text /\ p.verified \in BOOLEAN
  BY DEF Page
<1>2. Guard(p.text) \in Text
  BY <1>1, GuardFacts
<1>3. /\ [p EXCEPT !.text = Guard(@)] \in Page
      /\ [p EXCEPT !.text = Guard(@)].text = Guard(p.text)
      /\ [p EXCEPT !.text = Guard(@)].print = p.print
      /\ [p EXCEPT !.text = Guard(@)].object = p.object
      /\ [p EXCEPT !.text = Guard(@)].verified = p.verified
  BY <1>2 DEF Page
<1>4. ASSUME NEW b \in BOOLEAN
      PROVE  /\ [p EXCEPT !.verified = b] \in Page
             /\ [p EXCEPT !.verified = b].text = p.text
             /\ [p EXCEPT !.verified = b].print = p.print
             /\ [p EXCEPT !.verified = b].object = p.object
             /\ [p EXCEPT !.verified = b].verified = b
  BY DEF Page
<1>5. [p.text EXCEPT !.words = "raw"] \in Text /\ [p.text EXCEPT !.words = "raw"].of = p.text.of
  BY <1>1 DEF Text
<1>6. [p EXCEPT !.text.words = "raw", !.verified = FALSE]
        = [p EXCEPT !.text = [p.text EXCEPT !.words = "raw"], !.verified = FALSE]
  BY DEF Page
<1> DEFINE raw == [p.text EXCEPT !.words = "raw"]
<1>7. /\ [p EXCEPT !.text = raw, !.verified = FALSE] \in Page
      /\ [p EXCEPT !.text = raw, !.verified = FALSE].text = raw
      /\ [p EXCEPT !.text = raw, !.verified = FALSE].print = p.print
      /\ [p EXCEPT !.text = raw, !.verified = FALSE].object = p.object
      /\ [p EXCEPT !.text = raw, !.verified = FALSE].verified = FALSE
  <2>1. raw \in Text
    BY <1>5
  <2> HIDE DEF raw
  <2> QED BY <2>1 DEF Page
<1> QED BY <1>1, <1>3, <1>4, <1>5, <1>6, <1>7

(* A walk names each table's definition, if there is one.                  *)
LEMMA WalkFacts ==
  ASSUME NEW seen \in Walk
  PROVE  /\ seen # None
         /\ \A t \in Present(seen) : t \in Tables /\ seen[t] \in Definitions
         /\ Present(seen) \subseteq Tables
BY DatabaseAssumption DEF Walk, Present

(* The fingerprint of a table that no inferred relation touches.           *)
LEMMA PlainFingerprint == \A seen, t : SourceFingerprint(seen, {}, t) = <<seen[t], FALSE>>
<1> SUFFICES ASSUME NEW seen, NEW t PROVE <<seen[t], t \in {}>> = <<seen[t], FALSE>>
  BY DEF SourceFingerprint
<1>1. (t \in {}) = FALSE
  OBVIOUS
<1> QED BY <1>1

(* A fingerprint is evidence of the table's definition.                    *)
LEMMA EvidenceFacts ==
  /\ \A d \in Definitions, b \in BOOLEAN : <<d, b>> \in Evidence /\ <<d, b>>[1] = d
  /\ \A seen \in Walk : \A inferred : \A t \in Present(seen) :
       /\ SourceFingerprint(seen, inferred, t) \in Evidence
       /\ SourceFingerprint(seen, inferred, t)[1] = seen[t]
<1>1. ASSUME NEW d \in Definitions, NEW b \in BOOLEAN
      PROVE  <<d, b>> \in Evidence /\ <<d, b>>[1] = d
  BY DEF Evidence
<1>2. ASSUME NEW seen \in Walk, NEW inferred, NEW t \in Present(seen)
      PROVE  /\ SourceFingerprint(seen, inferred, t) \in Evidence
             /\ SourceFingerprint(seen, inferred, t)[1] = seen[t]
  <2>1. seen[t] \in Definitions
    BY WalkFacts
  <2> DEFINE b == t \in inferred
  <2>2. b \in BOOLEAN
    OBVIOUS
  <2>3. SourceFingerprint(seen, inferred, t) = <<seen[t], b>>
    BY DEF SourceFingerprint
  <2> HIDE DEF b
  <2> QED BY <1>1, <2>1, <2>2, <2>3
<1> QED BY <1>1, <1>2

(* At rest there is nothing to be unsound.                                 *)
LEMMA RestFacts ==
  /\ NoRun \in RunRecord /\ NoRun.step = "idle" /\ NoRun.old = Empty
  /\ NoReq \in Request /\ NoReq.op = "none" /\ NoReq.pages = Empty
  /\ TreeSound(Empty)
<1>1. NoRun \in RunRecord /\ NoRun.step = "idle" /\ NoRun.old = Empty
  BY TreeFacts DEF NoRun, RunRecord
<1>2. NoReq \in Request /\ NoReq.op = "none" /\ NoReq.pages = Empty
  BY TreeFacts DEF NoReq, Request
<1>3. TreeSound(Empty)
  BY TreeFacts DEF TreeSound
<1> QED BY <1>1, <1>2, <1>3

(* There is nothing at first.                                              *)
LEMMA InitIInv == Init => IInv
<1> SUFFICES ASSUME Init PROVE IInv
  OBVIOUS
<1>1. TypeOK
  <2>1. 0 \in 0..MaxVersions /\ 0 \in 0..MaxChanges /\ FALSE \in BOOLEAN
    BY DatabaseAssumption
  <2>2. run \in RunRecord /\ req \in Request /\ {pages, first, current} \subseteq Trees
    BY TreeFacts, RestFacts DEF Init
  <2> QED BY <2>1, <2>2 DEF Init, TypeOK
<1>2. TreesSound /\ RunPlan /\ ReqHolds
  BY RestFacts DEF Init, TreesSound, RunPlan, ReqHolds
<1>3. BaselineMet /\ RowIsCurrent
  BY DEF Init, BaselineMet, RowIsCurrent
<1> QED BY <1>1, <1>2, <1>3 DEF IInv

(* The catalogue and the cache are not the row.                            *)
LEMMA OutsideIInv ==
  ASSUME IInv, Expire \/ \E t \in Tables : Change(t)
  PROVE  IInv'
<1>1. UNCHANGED <<pages, baseline, first, current, count, run, req, approved, loose, torn>>
  BY DEF Expire, Change
<1>2. catalog' \in Walk /\ cache' \in Walk \cup {None} /\ changes' \in 0..MaxChanges
  <2>1. CASE Expire
    BY <2>1 DEF Expire, IInv, TypeOK
  <2>2. ASSUME NEW t \in Tables, Change(t)
        PROVE  catalog' \in Walk /\ cache' \in Walk \cup {None} /\ changes' \in 0..MaxChanges
    BY <2>2, DatabaseAssumption DEF Change, IInv, TypeOK, Walk
  <2> QED BY <2>1, <2>2
<1>3. TypeOK'
  BY <1>1, <1>2 DEF IInv, TypeOK
<1> QED BY <1>1, <1>3 DEF IInv, TreesSound, TreeSound, PageSound, FlagBound, RunPlan, LeftOut,
     BaselineMet, Documented, ReqHolds, RowIsCurrent

-----------------------------------------------------------------------------
(* A run.                                                                  *)

(* A run that starts remembers what it was started for.                    *)
LEMMA StartsIInv ==
  ASSUME IInv, NEW force \in SUBSET Tables, NEW seen \in Walk \cup {None}, Starts(force, seen),
         seen # None /\ force # {} =>
            \A t \in Present(seen) \ force :
               t \in DOMAIN pages /\ pages[t].object = <<seen[t], FALSE>>
  PROVE  IInv'
<1> DEFINE old == IF seen = None THEN Empty ELSE pages
<1>1. old \in Trees /\ TreeSound(old)
  BY TreeFacts, RestFacts DEF IInv, TypeOK, TreesSound
<1> HIDE DEF old
<1>2. run' = [NoRun EXCEPT !.step = "planned", !.force = force, !.seen = seen, !.old = old]
  BY DEF Starts, old
<1>3. /\ run' \in RunRecord /\ run'.step = "planned" /\ run'.force = force
      /\ run'.seen = seen /\ run'.old = old
  BY <1>1, <1>2, RestFacts DEF RunRecord
<1>4. UNCHANGED <<catalog, cache, pages, baseline, first, current, count, req, changes, approved, loose, torn>>
  BY DEF Starts
<1>5. TypeOK'
  BY <1>3, <1>4 DEF IInv, TypeOK
<1>6. TreesSound'
  BY <1>1, <1>3, <1>4 DEF IInv, TreesSound, TreeSound, FlagBound, PageSound
<1>7. RunPlan'
  BY <1>3 DEF RunPlan, LeftOut, old
<1> QED BY <1>4, <1>5, <1>6, <1>7 DEF IInv, BaselineMet, Documented, ReqHolds, RowIsCurrent

(* What a run is started with: all pages, some, or those of a changed      *)
(* catalogue with what the LLM adds.                                       *)
LEMMA StartIInv ==
  ASSUME IInv, Generate \/ Regenerate \/ Incremental
  PROVE  IInv'
<1>1. DOMAIN pages \subseteq Tables
  BY TreeFacts DEF IInv, TypeOK
<1>2. CASE Generate
  BY <1>2, StartsIInv DEF Generate
<1>3. CASE Regenerate
  BY <1>1, <1>3, StartsIInv DEF Regenerate
<1>4. CASE Incremental
  <2> PICK more \in SUBSET DOMAIN pages :
        Starts(IF Impacted(catalog) = {} THEN {} ELSE Impacted(catalog) \cup more, catalog)
    BY <1>4 DEF Incremental
  <2> DEFINE force == IF Impacted(catalog) = {} THEN {} ELSE Impacted(catalog) \cup more
  <2>1. catalog \in Walk /\ Impacted(catalog) \subseteq Tables
    BY DEF IInv, TypeOK, Impacted, Present
  <2>2. force \in SUBSET Tables
    BY <1>1, <2>1
  <2>3. \A t \in Present(catalog) \ Impacted(catalog) :
          t \in DOMAIN pages /\ pages[t].object = <<catalog[t], FALSE>>
    BY PlainFingerprint DEF Impacted
  <2>4. force # {} => \A t \in Present(catalog) \ force :
          t \in DOMAIN pages /\ pages[t].object = <<catalog[t], FALSE>>
    BY <2>3
  <2> HIDE DEF force
  <2>5. Starts(force, catalog)
    BY DEF force
  <2> QED BY <2>1, <2>2, <2>4, <2>5, StartsIInv
<1> QED BY <1>2, <1>3, <1>4

(* The walk a run uses, and the pages it reuses, may be newer than what it *)
(* was started for; `whole` says when they are not.                        *)
LEMMA IntrospectIInv == ASSUME IInv, Introspect PROVE IInv'
<1> DEFINE info == IF cache # None THEN cache ELSE catalog
           whole == run.force = {} \/ (info = run.seen /\ pages = run.old)
<1>1. info \in Walk /\ whole \in BOOLEAN
  BY DEF IInv, TypeOK
<1>2. /\ run' = [run EXCEPT !.step = "walked", !.info = info, !.old = pages, !.whole = whole]
      /\ cache' = info /\ run.step = "planned"
  BY DEF Introspect
<1>3. run.force # {} /\ whole => info = run.seen /\ pages = run.old
  OBVIOUS
<1> HIDE DEF info, whole
<1>4. /\ run' \in RunRecord /\ run'.step = "walked" /\ run'.force = run.force
      /\ run'.info = info /\ run'.old = pages /\ run'.whole = whole
  BY <1>1, <1>2 DEF IInv, TypeOK, RunRecord
<1>5. UNCHANGED <<catalog, pages, baseline, first, current, count, req, changes, approved, loose, torn>>
  BY DEF Introspect
<1>6. TypeOK'
  BY <1>1, <1>2, <1>4, <1>5 DEF IInv, TypeOK
<1>7. TreesSound'
  BY <1>4, <1>5 DEF IInv, TreesSound, TreeSound, FlagBound, PageSound
<1>8. info # None
  BY <1>1, WalkFacts
<1>9. RunPlan'
  <2>1. ASSUME whole, run.force # {} PROVE LeftOut(run.seen)
    BY <1>2, <1>3, <1>8, <2>1 DEF IInv, RunPlan
  <2> QED BY <1>3, <1>4, <1>8, <2>1 DEF RunPlan, LeftOut
<1> QED BY <1>5, <1>6, <1>7, <1>9 DEF IInv, BaselineMet, Documented, ReqHolds, RowIsCurrent

(* The row after a run that ended otherwise.                               *)
LEMMA StopIInv == ASSUME IInv, Fail \/ Cancel PROVE IInv'
<1>1. /\ run' = NoRun /\ pages' \in {pages, current}
      /\ UNCHANGED <<catalog, cache, baseline, first, current, count, req, changes, approved, loose, torn>>
  BY DEF Fail, Cancel
<1>2. TypeOK'
  BY <1>1, RestFacts DEF IInv, TypeOK
<1>3. TreesSound'
  BY <1>1, RestFacts DEF IInv, TreesSound, TreeSound, FlagBound, PageSound
<1>4. RunPlan' /\ ReqHolds'
  BY <1>1, RestFacts DEF IInv, RunPlan, ReqHolds
<1>5. RowIsCurrent'
  BY <1>1 DEF IInv, RowIsCurrent
<1>6. BaselineMet'
  <2> SUFFICES ASSUME ~loose
               PROVE  /\ (baseline # None => Documented(pages))'
                      /\ TextTree(pages') = TextTree(current)
    BY <1>1 DEF BaselineMet
  <2>1. TextTree(pages) = TextTree(current)
    BY DEF IInv, BaselineMet
  <2>2. DOMAIN pages = DOMAIN current /\ \A t \in DOMAIN pages : pages[t].text = current[t].text
    BY <2>1 DEF TextTree
  <2> QED BY <1>1, <2>1, <2>2 DEF IInv, BaselineMet, Documented
<1> QED BY <1>2, <1>3, <1>4, <1>5, <1>6 DEF IInv

(* A page that a run writes is about its table as walked.                  *)
LEMMA FreshFacts ==
  ASSUME IInv, NEW t \in Present(run.info), NEW deep \in BOOLEAN, NEW inferred, run.info \in Walk
  PROVE  LET p == Fresh(t, deep, inferred) IN
         p \in Page /\ p.text.of = run.info[t] /\ PageSound(p) /\ FlagBound(t, p)
<1> DEFINE p == Fresh(t, deep, inferred)
<1>1. /\ run.info[t] \in Definitions /\ run.info[t] # None
      /\ SourceFingerprint(run.info, inferred, t) \in Evidence
      /\ SourceFingerprint(run.info, inferred, t)[1] = run.info[t]
  BY WalkFacts, EvidenceFacts DEF Present
<1>2. p = [text |-> [of |-> run.info[t], words |-> "drawn"],
           print |-> IF deep THEN run.info[t] ELSE None,
           object |-> SourceFingerprint(run.info, inferred, t), verified |-> FALSE]
  BY DEF Fresh
<1> HIDE DEF p
<1>3. /\ p \in Page /\ p.text.of = run.info[t] /\ p.print \in {run.info[t], None}
      /\ p.object = SourceFingerprint(run.info, inferred, t) /\ p.verified = FALSE
  BY <1>1, <1>2 DEF Page, Text
<1>4. PageSound(p) /\ FlagBound(t, p)
  BY <1>1, <1>3, DatabaseAssumption DEF PageSound, FlagBound
<1> QED BY <1>3, <1>4 DEF p

(* So is one that it reuses, whatever the guard does to the text.          *)
LEMMA ReusedFacts ==
  ASSUME IInv, NEW t \in Reused, run.info \in Walk
  PROVE  LET p == [run.old[t] EXCEPT !.text = Guard(@)] IN
         /\ t \in Present(run.info) /\ t \in DOMAIN run.old
         /\ p \in Page /\ p.text.of = run.info[t] /\ PageSound(p) /\ FlagBound(t, p)
<1> DEFINE q == run.old[t]
           p == [q EXCEPT !.text = Guard(@)]
<1>1. t \in Present(run.info) /\ t \in DOMAIN run.old /\ q.print = run.info[t]
  BY DEF Reused
<1>2. q \in Page /\ PageSound(q) /\ FlagBound(t, q)
  BY <1>1, TreeFacts DEF IInv, TypeOK, RunRecord, TreesSound, TreeSound
<1>3. run.info[t] \in Definitions
  BY <1>1, WalkFacts
<1> HIDE DEF q
<1>4. /\ p \in Page /\ p.text = Guard(q.text) /\ q.text \in Text
      /\ p.print = q.print /\ p.object = q.object /\ p.verified = q.verified
  BY <1>2, PageUpdates
<1>5. p.text.of = q.text.of /\ Guard(p.text) = p.text
  BY <1>4, GuardFacts
<1> HIDE DEF p
<1>6. PageSound(p)
  BY <1>2, <1>4, <1>5 DEF PageSound
<1>7. FlagBound(t, p)
  <2> SUFFICES ASSUME p.verified
               PROVE  \E a \in approved : a[1] = t /\ p.text \in {a[2], Guard(a[2])}
    BY DEF FlagBound
  <2>1. PICK a \in approved : a[1] = t /\ q.text \in {a[2], Guard(a[2])}
    BY <1>2, <1>4 DEF FlagBound
  <2>2. a[2] \in Text
    BY DEF IInv, TypeOK
  <2>3. Guard(Guard(a[2])) = Guard(a[2])
    BY <2>2, GuardFacts
  <2> QED BY <1>4, <2>1, <2>3
<1>8. p.text.of = run.info[t]
  BY <1>1, <1>2, <1>3, <1>5 DEF PageSound
<1> QED BY <1>1, <1>4, <1>6, <1>7, <1>8 DEF p, q

(* The pages of a run, by agents or not.                                   *)
LEMMA RenderedFacts ==
  ASSUME IInv, run.info \in Walk, NEW reused, reused \in {{}, Reused}, NEW deep \in BOOLEAN,
         NEW inferred
  PROVE  LET new == Rendered(reused, deep, inferred) IN
         /\ new \in [Present(run.info) -> Page] /\ TreeSound(new)
         /\ \A t \in Present(run.info) : new[t].text.of = run.info[t]
<1> DEFINE new == Rendered(reused, deep, inferred)
           Page1(t) == IF t \in reused THEN [run.old[t] EXCEPT !.text = Guard(@)]
                       ELSE Fresh(t, deep, inferred)
<1>1. \A t \in Present(run.info) :
        /\ Page1(t) \in Page /\ Page1(t).text.of = run.info[t]
        /\ PageSound(Page1(t)) /\ FlagBound(t, Page1(t))
  BY FreshFacts, ReusedFacts
<1>2. new = [t \in Present(run.info) |-> Page1(t)]
  BY DEF Rendered
<1> HIDE DEF new, Page1
<1>3. new \in [Present(run.info) -> Page] /\ \A t \in Present(run.info) : new[t] = Page1(t)
  BY <1>1, <1>2
<1>4. TreeSound(new)
  BY <1>1, <1>3 DEF TreeSound
<1> QED BY <1>1, <1>3, <1>4 DEF new

(* Pages that are not written keep the stored ones; a run that worked on   *)
(* what was detected has left out none that changed.                       *)
LEMMA MergedFacts ==
  ASSUME IInv, run.step = "walked", run.info \in Walk,
         NEW new \in [Present(run.info) -> Page], TreeSound(new),
         \A t \in Present(run.info) : new[t].text.of = run.info[t]
  PROVE  /\ Merged(new) \in Trees /\ TreeSound(Merged(new))
         /\ run.whole => \A t \in Present(run.info) :
              t \in DOMAIN Merged(new) /\ Merged(new)[t].text.of = run.info[t]
<1>1. run.old \in Trees /\ DOMAIN run.old \subseteq Tables /\ run.old \in [DOMAIN run.old -> Page]
      /\ run.force \subseteq Tables /\ TreeSound(run.old)
  BY TreeFacts DEF IInv, TypeOK, RunRecord, TreesSound
<1>2. CASE ~(run.force # {} /\ run.old # Empty)
  <2>1. Merged(new) = new
    BY <1>2 DEF Merged
  <2>2. Present(run.info) \in SUBSET Tables
    BY WalkFacts
  <2> QED BY <2>1, <2>2, TreeFacts
<1>3. CASE run.force # {} /\ run.old # Empty
  <2> DEFINE some == DOMAIN run.old \cup (run.force \cap DOMAIN new)
             Page1(t) == IF t \in run.force \cap DOMAIN new THEN new[t] ELSE run.old[t]
  <2>1. DOMAIN new = Present(run.info) /\ some \in SUBSET Tables
    BY <1>1, WalkFacts
  <2>2. Merged(new) = [t \in some |-> Page1(t)]
    BY <1>3 DEF Merged
  <2>3. \A t \in some : Page1(t) \in Page /\ PageSound(Page1(t)) /\ FlagBound(t, Page1(t))
    BY <1>1, <2>1 DEF TreeSound
  <2>4. ASSUME run.whole, NEW t \in Present(run.info)
        PROVE  t \in some /\ Page1(t).text.of = run.info[t]
    <3>1. CASE t \in run.force
      BY <2>1, <3>1
    <3>2. CASE t \notin run.force
      <4>1. t \in DOMAIN run.old /\ run.old[t].object = <<run.info[t], FALSE>>
        BY <1>3, <2>4, <3>2 DEF IInv, RunPlan, LeftOut
      <4>2. run.info[t] \in Definitions
        BY WalkFacts
      <4>3. run.old[t].object \in Evidence /\ run.old[t].object[1] = run.info[t]
        BY <4>1, <4>2, EvidenceFacts
      <4>4. run.old[t].text.of = run.info[t]
        BY <1>1, <4>1, <4>3 DEF TreeSound, PageSound
      <4> QED BY <3>2, <4>1, <4>4
    <3> QED BY <3>1, <3>2
  <2> HIDE DEF some, Page1
  <2>5. Merged(new) \in [some -> Page] /\ \A t \in some : Merged(new)[t] = Page1(t)
    BY <2>2, <2>3
  <2>6. Merged(new) \in Trees
    BY <2>1, <2>5, TreeFacts
  <2>7. TreeSound(Merged(new))
    BY <2>3, <2>5 DEF TreeSound
  <2>8. run.whole => \A t \in Present(run.info) :
              t \in DOMAIN Merged(new) /\ Merged(new)[t].text.of = run.info[t]
    BY <2>4, <2>5
  <2> QED BY <2>6, <2>7, <2>8
<1> QED BY <1>2, <1>3

(* A carried flag is on the text it was on.                                *)
LEMMA CarriedFacts ==
  ASSUME IInv, NEW tree \in Trees, TreeSound(tree)
  PROVE  /\ Carried(tree) \in Trees /\ TreeSound(Carried(tree))
         /\ DOMAIN Carried(tree) = DOMAIN tree
         /\ \A t \in DOMAIN tree : Carried(tree)[t].text = tree[t].text
<1> DEFINE Page1(t) ==
      IF t \in DOMAIN run.old /\ run.old[t].verified /\ tree[t].text = run.old[t].text
      THEN [tree[t] EXCEPT !.verified = TRUE] ELSE tree[t]
<1>1. DOMAIN tree \in SUBSET Tables /\ \A t \in DOMAIN tree : tree[t] \in Page
  BY TreeFacts
<1>2. ASSUME NEW t \in DOMAIN tree
      PROVE  /\ Page1(t) \in Page /\ Page1(t).text = tree[t].text
             /\ PageSound(Page1(t)) /\ FlagBound(t, Page1(t))
  <2>1. tree[t] \in Page /\ PageSound(tree[t]) /\ FlagBound(t, tree[t])
    BY <1>1 DEF TreeSound
  <2>2. CASE t \in DOMAIN run.old /\ run.old[t].verified /\ tree[t].text = run.old[t].text
    <3> DEFINE p == [tree[t] EXCEPT !.verified = TRUE]
    <3>1. /\ p \in Page /\ p.text = tree[t].text /\ p.print = tree[t].print
          /\ p.object = tree[t].object
      BY <2>1, PageUpdates
    <3>2. FlagBound(t, run.old[t])
      BY <2>2 DEF IInv, TreesSound, TreeSound
    <3> HIDE DEF p
    <3>3. PageSound(p)
      BY <2>1, <3>1 DEF PageSound
    <3>4. FlagBound(t, p)
      BY <2>2, <3>1, <3>2 DEF FlagBound
    <3> QED BY <2>2, <3>1, <3>3, <3>4 DEF p
  <2>3. CASE ~(t \in DOMAIN run.old /\ run.old[t].verified /\ tree[t].text = run.old[t].text)
    BY <2>1, <2>3
  <2> QED BY <2>2, <2>3
<1>3. Carried(tree) = [t \in DOMAIN tree |-> Page1(t)]
  BY DEF Carried
<1> HIDE DEF Page1
<1>4. Carried(tree) \in [DOMAIN tree -> Page] /\ \A t \in DOMAIN tree : Carried(tree)[t] = Page1(t)
  BY <1>2, <1>3
<1>5. Carried(tree) \in Trees
  BY <1>1, <1>4, TreeFacts
<1>6. TreeSound(Carried(tree))
  BY <1>2, <1>4 DEF TreeSound
<1> QED BY <1>2, <1>4, <1>5, <1>6

(* The baseline names what is there, with its definition.                  *)
LEMMA BaselineFacts ==
  ASSUME NEW seen \in Walk, NEW inferred
  PROVE  /\ Baseline(seen, inferred) \in SUBSET (Tables \X Evidence)
         /\ \A e \in Baseline(seen, inferred) :
              e[1] \in Present(seen) /\ e[2][1] = seen[e[1]]
<1>1. \A t \in Present(seen) :
        /\ SourceFingerprint(seen, inferred, t) \in Evidence
        /\ SourceFingerprint(seen, inferred, t)[1] = seen[t]
  BY EvidenceFacts
<1>2. ASSUME NEW e \in Baseline(seen, inferred)
      PROVE  /\ e \in Tables \X Evidence
             /\ e[1] \in Present(seen) /\ e[2][1] = seen[e[1]]
  <2> PICK t \in Present(seen) : e = <<t, SourceFingerprint(seen, inferred, t)>>
    BY DEF Baseline
  <2> QED BY <1>1, WalkFacts
<1> QED BY <1>2

(* A run ends.                                                             *)
LEMMA PersistIInv ==
  ASSUME IInv, run.step = "walked", NEW reused, reused \in {{}, Reused}, NEW deep \in BOOLEAN,
         NEW inferred, Persist(Rendered(reused, deep, inferred), inferred)
  PROVE  IInv'
<1> DEFINE new == Rendered(reused, deep, inferred)
           tree == Carried(Merged(new))
<1>1. run.info \in Walk
  BY DEF IInv, TypeOK, RunRecord, RunPlan
<1>2. /\ new \in [Present(run.info) -> Page] /\ TreeSound(new)
      /\ \A t \in Present(run.info) : new[t].text.of = run.info[t]
  BY <1>1, RenderedFacts
<1>3. /\ pages' = tree /\ current' = tree /\ first' \in {first, tree}
      /\ baseline' = Baseline(run.info, inferred) /\ loose' = ~run.whole /\ run' = NoRun
      /\ count' = count + 1 /\ count < MaxVersions
      /\ UNCHANGED <<catalog, cache, req, changes, approved, torn>>
  BY DEF Persist, Appends
<1> HIDE DEF new
<1>4. /\ Merged(new) \in Trees /\ TreeSound(Merged(new))
      /\ run.whole => \A t \in Present(run.info) :
              t \in DOMAIN Merged(new) /\ Merged(new)[t].text.of = run.info[t]
  BY <1>1, <1>2, MergedFacts
<1>5. /\ tree \in Trees /\ TreeSound(tree)
      /\ run.whole => \A t \in Present(run.info) : t \in DOMAIN tree /\ tree[t].text.of = run.info[t]
  BY <1>4, CarriedFacts
<1> HIDE DEF tree
<1>6. TypeOK'
  <2>1. count' \in 0..MaxVersions /\ loose' \in BOOLEAN
    BY <1>3, DatabaseAssumption DEF IInv, TypeOK, RunRecord
  <2>2. baseline' \in (SUBSET (Tables \X Evidence)) \cup {None}
    BY <1>1, <1>3, BaselineFacts
  <2>3. run' \in RunRecord /\ {pages', first', current'} \subseteq Trees
    BY <1>3, <1>5, RestFacts DEF IInv, TypeOK
  <2> QED BY <1>3, <2>1, <2>2, <2>3 DEF IInv, TypeOK
<1>7. TreesSound'
  BY <1>3, <1>5, RestFacts DEF IInv, TreesSound, TreeSound, FlagBound, PageSound
<1>8. RunPlan' /\ ReqHolds' /\ RowIsCurrent'
  BY <1>3, RestFacts DEF IInv, RunPlan, ReqHolds, RowIsCurrent
<1>9. BaselineMet'
  <2> SUFFICES ASSUME run.whole PROVE Documented(pages)'
    BY <1>3 DEF BaselineMet
  <2> SUFFICES ASSUME NEW e \in Baseline(run.info, inferred)
               PROVE  e[1] \in DOMAIN tree /\ tree[e[1]].text.of = e[2][1]
    BY <1>3 DEF Documented
  <2> QED BY <1>1, <1>5, BaselineFacts
<1> QED BY <1>6, <1>7, <1>8, <1>9 DEF IInv

-----------------------------------------------------------------------------
(* The handlers.                                                           *)

(* A handler has what it loaded, or nothing more.                          *)
LEMMA LoadIInv == ASSUME IInv, Load \/ Refuse PROVE IInv'
<1>1. UNCHANGED <<catalog, cache, pages, baseline, first, current, count, run, changes, approved, loose, torn>>
  BY DEF Load, Loads, Refuse
<1>2. \/ req' = NoReq
      \/ \E op \in {"edit", "remove", "verify"}, t \in DOMAIN pages :
            req' = [op |-> op, page |-> t, pages |-> pages]
      \/ req' = [op |-> "rollback", page |-> None, pages |-> pages]
  BY DEF Load, Loads, Refuse
<1>3. /\ req' \in Request /\ req'.pages \in {pages, Empty}
      /\ req'.op \in {"edit", "remove", "verify"} => req'.page \in DOMAIN req'.pages
  <2>1. pages \in Trees /\ DOMAIN pages \subseteq Tables
    BY TreeFacts DEF IInv, TypeOK
  <2> QED BY <1>2, <2>1, RestFacts DEF Request
<1>4. TypeOK'
  BY <1>1, <1>3 DEF IInv, TypeOK
<1>5. TreesSound'
  BY <1>1, <1>3, RestFacts DEF IInv, TreesSound, TreeSound, FlagBound, PageSound
<1> QED BY <1>1, <1>3, <1>4, <1>5 DEF IInv, RunPlan, LeftOut, BaselineMet, Documented, ReqHolds, RowIsCurrent

(* What every commit of a handler has in common: the tree it commits is    *)
(* sound, a new version of it is the current one, and it keeps the texts'  *)
(* tables unless the row has become loose.                                 *)
LEMMA CommitIInv ==
  ASSUME IInv, NEW tree \in Trees, TreeSound(tree),
         pages' \in {tree, pages}, (loose' /\ torn') \/ TextTree(pages') = TextTree(tree),
         Appends(tree), req' = NoReq, loose' \in BOOLEAN, torn' \in BOOLEAN,
         UNCHANGED <<catalog, cache, baseline, run, changes, approved>>,
         loose' \/ (~loose /\ DOMAIN tree = DOMAIN pages
                      /\ \A t \in DOMAIN pages : tree[t].text.of = pages[t].text.of)
  PROVE  IInv'
<1>1. /\ current' = tree /\ first' \in {first, tree} /\ count' = count + 1 /\ count < MaxVersions
  BY DEF Appends
<1>2. TypeOK'
  <2>1. count' \in 0..MaxVersions
    BY <1>1, DatabaseAssumption DEF IInv, TypeOK
  <2>2. req' \in Request /\ {pages', first', current'} \subseteq Trees
    BY <1>1, RestFacts DEF IInv, TypeOK
  <2> QED BY <2>1, <2>2 DEF IInv, TypeOK
<1>3. TreesSound'
  BY <1>1, RestFacts DEF IInv, TreesSound, TreeSound, FlagBound, PageSound
<1>4. RunPlan' /\ ReqHolds' /\ RowIsCurrent'
  BY <1>1, RestFacts DEF IInv, RunPlan, LeftOut, ReqHolds, RowIsCurrent
<1>5. BaselineMet'
  <2> SUFFICES ASSUME ~loose'
               PROVE  (baseline # None => Documented(pages))' /\ TextTree(pages') = TextTree(current')
    BY DEF BaselineMet
  <2>1. TextTree(pages') = TextTree(current')
    BY <1>1
  <2>2. ASSUME baseline # None PROVE Documented(pages)'
    <3>1. Documented(pages)
      BY <2>2 DEF IInv, BaselineMet
    <3>2. \A t \in DOMAIN pages : t \in DOMAIN pages' /\ pages'[t].text.of = pages[t].text.of
      OBVIOUS
    <3> QED BY <3>1, <3>2 DEF Documented
  <2> QED BY <2>1, <2>2
<1> QED BY <1>2, <1>3, <1>4, <1>5 DEF IInv

(* The loaded tree.                                                        *)
LEMMA LoadedFacts ==
  ASSUME IInv
  PROVE  /\ req.pages \in Trees /\ TreeSound(req.pages) /\ DOMAIN req.pages \subseteq Tables
         /\ \A t \in DOMAIN req.pages : req.pages[t] \in Page
         /\ req.pages \in [DOMAIN req.pages -> Page]
         /\ loose \in BOOLEAN /\ torn \in BOOLEAN
<1>1. req.pages \in Trees /\ TreeSound(req.pages) /\ loose \in BOOLEAN /\ torn \in BOOLEAN
  BY DEF IInv, TypeOK, Request, TreesSound
<1> QED BY <1>1, TreeFacts

(* An edited text loses its flag and stays about its table.                *)
LEMMA EditIInv == ASSUME IInv, Edit PROVE IInv'
<1> DEFINE t == req.page
           p == [req.pages[t] EXCEPT !.text.words = "raw", !.verified = FALSE]
           tree == Edited
<1>1. t \in DOMAIN req.pages /\ req.pages[t] \in Page
  BY LoadedFacts DEF Edit, IInv, ReqHolds
<1>2. /\ p \in Page /\ p.text.of = req.pages[t].text.of /\ p.print = req.pages[t].print
      /\ p.object = req.pages[t].object /\ p.verified = FALSE
  BY <1>1, PageUpdates
<1>3. tree = [req.pages EXCEPT ![t] = p]
  BY <1>1, LoadedFacts DEF Edited
<1> HIDE DEF p, tree
<1>4. /\ tree \in [DOMAIN req.pages -> Page] /\ tree[t] = p
      /\ \A k \in DOMAIN req.pages \ {t} : tree[k] = req.pages[k]
  BY <1>1, <1>2, <1>3, LoadedFacts
<1>5. tree \in Trees
  BY <1>4, LoadedFacts, TreeFacts
<1>6. TreeSound(tree)
  BY <1>1, <1>2, <1>4, LoadedFacts DEF TreeSound, PageSound, FlagBound
<1>7. \A k \in DOMAIN req.pages : tree[k].text.of = req.pages[k].text.of
  BY <1>1, <1>2, <1>4
<1>8. /\ pages' = tree /\ Appends(tree) /\ req' = NoReq /\ loose' = (loose \/ Overtaken)
      /\ UNCHANGED <<catalog, cache, baseline, run, changes, approved, torn>>
  BY DEF Edit, Appends, tree
<1>9. loose' \in BOOLEAN /\ torn' \in BOOLEAN
  BY <1>8, LoadedFacts DEF Overtaken
<1>10. ~loose' => ~loose /\ req.pages = pages
  BY <1>8 DEF Overtaken
<1> QED BY <1>4, <1>5, <1>6, <1>7, <1>8, <1>9, <1>10, CommitIInv

(* The client's tree comes without flags.                                  *)
LEMMA DeletePageIInv == ASSUME IInv, DeletePage PROVE IInv'
<1> DEFINE some == DOMAIN req.pages \ {req.page}
           tree == [t \in some |-> [req.pages[t] EXCEPT !.verified = FALSE]]
<1>1. some \in SUBSET Tables
  BY LoadedFacts
<1>2. ASSUME NEW t \in some
      PROVE  LET p == [req.pages[t] EXCEPT !.verified = FALSE] IN
             p \in Page /\ PageSound(p) /\ FlagBound(t, p)
  <2> DEFINE p == [req.pages[t] EXCEPT !.verified = FALSE]
  <2>1. req.pages[t] \in Page /\ PageSound(req.pages[t])
    BY LoadedFacts DEF TreeSound
  <2>2. /\ p \in Page /\ p.text = req.pages[t].text /\ p.print = req.pages[t].print
        /\ p.object = req.pages[t].object /\ p.verified = FALSE
    BY <2>1, PageUpdates
  <2> HIDE DEF p
  <2>3. PageSound(p) /\ FlagBound(t, p)
    BY <2>1, <2>2 DEF PageSound, FlagBound
  <2> QED BY <2>2, <2>3 DEF p
<1> HIDE DEF some
<1>3. tree \in [some -> Page] /\ TreeSound(tree)
  BY <1>2 DEF TreeSound
<1>4. /\ pages' = tree /\ req' = NoReq /\ loose' = TRUE /\ Appends(tree)
      /\ UNCHANGED <<catalog, cache, baseline, run, changes, approved, torn>>
  BY DEF DeletePage, Appends, some
<1> HIDE DEF tree
<1>5. tree \in Trees /\ torn' \in BOOLEAN
  BY <1>1, <1>3, <1>4, TreeFacts, LoadedFacts
<1> QED BY <1>3, <1>4, <1>5, CommitIInv

(* The flag is set on the text as loaded.                                  *)
LEMMA VerifyIInv == ASSUME IInv, Verify PROVE IInv'
<1> PICK t : t = req.page
  OBVIOUS
<1> PICK loaded : loaded = req.pages
  OBVIOUS
<1> PICK q : q = loaded[t]
  OBVIOUS
<1>0. loaded \in [DOMAIN loaded -> Page] /\ DOMAIN loaded \subseteq Tables /\ TreeSound(loaded)
  BY LoadedFacts
<1>1. t \in DOMAIN loaded /\ q \in Page /\ t \in Tables
  BY <1>0 DEF Verify, IInv, ReqHolds
<1> PICK p : p = [q EXCEPT !.verified = TRUE]
  OBVIOUS
<1>2. /\ p \in Page /\ p.text = q.text /\ p.print = q.print
      /\ p.object = q.object /\ p.verified = TRUE /\ q.text \in Text
  BY <1>1, PageUpdates
<1> PICK tree : tree = [loaded EXCEPT ![t].verified = TRUE]
  OBVIOUS
<1>3. tree = [loaded EXCEPT ![t] = p]
  BY <1>0, <1>1
<1>4. /\ pages' = tree /\ approved' = approved \cup {<<t, q.text>>} /\ req' = NoReq
      /\ loose' = (loose \/ loaded # pages) /\ torn' = (torn \/ loaded # pages)
      /\ UNCHANGED <<catalog, cache, baseline, first, current, count, run, changes>>
  BY DEF Verify, Overtaken
<1>5. /\ tree \in [DOMAIN loaded -> Page] /\ tree[t] = p
      /\ \A k \in DOMAIN loaded \ {t} : tree[k] = loaded[k]
  BY <1>0, <1>1, <1>2, <1>3
<1>6. tree \in Trees
  BY <1>0, <1>5, TreeFacts
<1>8. ASSUME NEW k \in DOMAIN loaded
      PROVE  /\ PageSound(tree[k])
             /\ tree[k].verified => \E a \in approved' : a[1] = k /\ tree[k].text \in {a[2], Guard(a[2])}
             /\ tree[k].text = loaded[k].text
  <2>1. PageSound(loaded[k]) /\ FlagBound(k, loaded[k])
    BY <1>0 DEF TreeSound
  <2>2. CASE k # t
    BY <1>4, <1>5, <2>1, <2>2 DEF FlagBound
  <2>3. CASE k = t
    <3>1. PageSound(p)
      BY <1>2, <2>1, <2>3 DEF PageSound
    <3>2. \E a \in approved' : a[1] = t /\ p.text \in {a[2], Guard(a[2])}
      <4>1. <<t, q.text>> \in approved'
        BY <1>4
      <4> QED BY <1>2, <4>1
    <3> QED BY <1>2, <1>5, <2>3, <3>1, <3>2
  <2> QED BY <2>2, <2>3
<1>9. TreeSound(tree)'
  BY <1>5, <1>8 DEF TreeSound, PageSound, FlagBound
<1>10. TypeOK'
  <2>1. <<t, q.text>> \in Tables \X Text
    BY <1>1, <1>2
  <2>2. req' \in Request /\ loose' \in BOOLEAN /\ torn' \in BOOLEAN
    BY <1>4, RestFacts, LoadedFacts
  <2> QED BY <1>4, <1>6, <2>1, <2>2 DEF IInv, TypeOK
<1>11. TreesSound'
  <2>1. TreeSound(first)' /\ TreeSound(current)' /\ TreeSound(run.old)'
    BY <1>4 DEF IInv, TreesSound, TreeSound, PageSound, FlagBound
  <2>2. TreeSound(pages)'
    BY <1>4, <1>9 DEF TreeSound, PageSound, FlagBound
  <2>3. TreeSound(req.pages)'
    BY <1>4, RestFacts, TreeFacts DEF TreeSound
  <2> QED BY <2>1, <2>2, <2>3 DEF TreesSound
<1>12. RunPlan' /\ ReqHolds'
  BY <1>4, RestFacts DEF IInv, RunPlan, LeftOut, ReqHolds
<1>13. TextTree(tree) = TextTree(loaded)
  BY <1>5, <1>8 DEF TextTree
<1>14. RowIsCurrent'
  <2> SUFFICES ASSUME ~torn' PROVE TextTree(tree) = TextTree(current)
    BY <1>4 DEF RowIsCurrent
  <2> QED BY <1>4, <1>13 DEF IInv, RowIsCurrent
<1>15. BaselineMet'
  <2> SUFFICES ASSUME ~loose'
               PROVE  (baseline # None => Documented(pages))' /\ TextTree(pages') = TextTree(current')
    BY DEF BaselineMet
  <2>1. ~loose /\ loaded = pages
    BY <1>4
  <2>2. TextTree(tree) = TextTree(current)
    BY <1>13, <2>1 DEF IInv, BaselineMet
  <2>3. ASSUME baseline # None PROVE Documented(pages)'
    <3>1. Documented(loaded)
      BY <2>1, <2>3 DEF IInv, BaselineMet
    <3> QED BY <1>4, <1>5, <1>8, <3>1 DEF Documented
  <2> QED BY <1>4, <2>2, <2>3
<1> QED BY <1>10, <1>11, <1>12, <1>14, <1>15 DEF IInv

(* A rollback to what was loaded leaves the row, whatever it has become.   *)
LEMMA RollbackIInv == ASSUME IInv, Rollback PROVE IInv'
<1>1. /\ pages' = (IF first = req.pages THEN pages ELSE first)
      /\ Appends(first) /\ req' = NoReq /\ loose' = TRUE /\ torn' = (torn \/ Overtaken)
      /\ UNCHANGED <<catalog, cache, baseline, run, changes, approved>>
  BY DEF Rollback
<1>2. first \in Trees /\ TreeSound(first)
  BY DEF IInv, TypeOK, TreesSound
<1>3. torn' \in BOOLEAN
  BY <1>1, LoadedFacts DEF Overtaken
<1>4. torn' \/ pages' = first
  <2>1. CASE Overtaken
    BY <1>1, <2>1
  <2>2. CASE ~Overtaken
    BY <1>1, <2>2 DEF Overtaken
  <2> QED BY <2>1, <2>2
<1>5. pages' \in {first, pages} /\ ((loose' /\ torn') \/ TextTree(pages') = TextTree(first))
  BY <1>1, <1>4
<1> QED BY <1>1, <1>2, <1>3, <1>5, CommitIInv

-----------------------------------------------------------------------------
(* Every step keeps the invariant.                                         *)
LEMMA NextIInv == IInv /\ [Next]_vars => IInv'
<1> SUFFICES ASSUME IInv, [Next]_vars PROVE IInv'
  OBVIOUS
<1>1. CASE UNCHANGED vars
  <2>1. TypeOK'
    BY <1>1 DEF vars, IInv, TypeOK
  <2>2. TreesSound'
    BY <1>1 DEF vars, IInv, TreesSound, TreeSound, FlagBound, PageSound
  <2>3. RunPlan' /\ BaselineMet' /\ ReqHolds' /\ RowIsCurrent'
    BY <1>1 DEF vars, IInv, RunPlan, LeftOut, BaselineMet, Documented, ReqHolds, RowIsCurrent
  <2> QED BY <2>1, <2>2, <2>3 DEF IInv
<1>2. ASSUME \E t \in Tables : Change(t) PROVE IInv'
  BY <1>2, OutsideIInv
<1>3. CASE Expire
  BY <1>3, OutsideIInv
<1>4. CASE Generate \/ Regenerate \/ Incremental
  BY <1>4, StartIInv
<1>5. CASE Introspect
  BY <1>5, IntrospectIInv
<1>6. CASE FinishBatch
  <2>1. PICK inferred \in Inferences : Persist(Rendered({}, FALSE, inferred), inferred)
    BY <1>6 DEF FinishBatch
  <2>2. run.step = "walked"
    BY <1>6 DEF FinishBatch
  <2> QED BY <2>1, <2>2, PersistIInv
<1>7. CASE FinishDeep
  <2>1. PICK inferred \in Inferences : Persist(Rendered(Reused, TRUE, inferred), inferred)
    BY <1>7 DEF FinishDeep
  <2>2. run.step = "walked"
    BY <1>7 DEF FinishDeep
  <2> QED BY <2>1, <2>2, PersistIInv
<1>8. CASE Fail \/ Cancel
  BY <1>8, StopIInv
<1>9. CASE Load \/ Refuse
  BY <1>9, LoadIInv
<1>10. CASE Edit \/ DeletePage \/ Verify \/ Rollback
  BY <1>10, EditIInv, DeletePageIInv, VerifyIInv, RollbackIInv
<1> QED BY <1>1, <1>2, <1>3, <1>4, <1>5, <1>6, <1>7, <1>8, <1>9, <1>10 DEF Next

(***************************************************************************)
(* Theorems.                                                               *)
(***************************************************************************)

(* Row, versions, baseline, the run at work and the handler's load fit     *)
(* together at any time.                                                   *)
THEOREM Invariance == Spec => []IInv
BY InitIInv, NextIInv, PTL DEF Spec

(* A verified flag is on the text it was given to, in the row and in what  *)
(* a rollback or a cancellation returns to, whatever runs and handlers     *)
(* overtake one another (_carry_page_verify_flags, verify_page).           *)
THEOREM FlagsAreBound == Spec => []VerifiedSound
<1>1. IInv => VerifiedSound
  BY DEF IInv, TreesSound, TreeSound, FlagBound, VerifiedSound, FlagsBound
<1> QED BY <1>1, Invariance, PTL

(* A detection that finds the catalogue unchanged is right: there is a     *)
(* page about every table as it is, unless a handler or a run that worked  *)
(* on another walk wrote the row last (_detect_database,                   *)
(* database_source_baseline).                                              *)
THEOREM DetectionIsSound == Spec => []DetectSound
<1>1. IInv => DetectSound
  <2> SUFFICES ASSUME IInv, baseline # None, baseline = Baseline(catalog, {}), ~loose,
                      NEW t \in Present(catalog)
               PROVE  t \in DOMAIN pages /\ pages[t].text.of = catalog[t]
    BY DEF DetectSound, Changed
  <2>1. Documented(pages)
    BY DEF IInv, BaselineMet
  <2>2. <<t, <<catalog[t], FALSE>>>> \in baseline
    BY PlainFingerprint DEF Baseline
  <2> QED BY <2>1, <2>2 DEF Documented
<1> QED BY <1>1, Invariance, PTL

(* The row has the texts of the version it calls current, unless a handler *)
(* has written over a run (append_version, restore_doc_version).           *)
THEOREM RowsAreCurrent == Spec => []RowIsCurrent
<1>1. IInv => RowIsCurrent
  BY DEF IInv
<1> QED BY <1>1, Invariance, PTL

-----------------------------------------------------------------------------
(* The walk of the catalogue.  The inductive invariant says which part of  *)
(* the walk is under way, that each listing still to come has its task,    *)
(* and that the statistics of a label miss as much as any listing of it.   *)
Late == {"adapter", "paged", "pack"}
Queued(s, op, on) == \E i \in DOMAIN s : s[i] = Task(op, on)
Ahead(op, on) == Queued(todo, op, on)

(* Where the walk is: at the owners, at the tables by catalogue queries, at *)
(* the tables tool by tool, at the categories.                             *)
OwnersPart(s) == s = <<Task("paged", Owners)>>
TablesPart(s) ==
  /\ s # <<>> /\ s[Len(s)].op = "bulk"
  /\ \A i \in 1..(Len(s) - 1) : s[i].op = "paged" /\ s[i].on \in Schemas
  /\ \A i, j \in 1..(Len(s) - 1) : s[i] = s[j] => i = j
ToolsPart(s) ==
  /\ s # <<>> /\ s[Len(s)].op \in {"schemas", "evidence"}
  /\ \A i \in 1..(Len(s) - 1) : s[i].op \in {"list", "describe"} /\ s[i].on \in Schemas
CategoriesPart(s) ==
  /\ s # <<>> /\ s[Len(s)].op = "end"
  /\ \A i \in 1..(Len(s) - 1) : s[i].op \in Late /\ s[i].on \in Categories
  /\ \A i, j \in 1..(Len(s) - 1) : i < j /\ s[j].op = "adapter" => s[i].op = "adapter"

Walks == [expected : Nat \cup {NoAnswer}, rows : Nat \ {0}, page : Nat, got : Nat, chopped : Nat]

SurfaceOK ==
  /\ surface.engine \in Engines /\ surface.sql \in BOOLEAN /\ surface.limited \in BOOLEAN
  /\ surface.tool \in [Categories -> {"none", "direct", "composed"}]
  /\ surface.size \in [Listings -> Nat] /\ surface.wide \in [Listings -> Nat]
  /\ Size(Owners) = NSchemas
WalkTypes ==
  /\ pc \in {"walk", "done", "failed"} /\ todo \in Seq(Tasks)
  /\ found \in [Listings -> Nat] /\ \A l \in Listings : found[l] <= Size(l)
  /\ stats \in [Labels -> Stat \cup {NoAnswer}]
  /\ walk \in Walks \cup {NoAnswer}
  /\ missed \in BOOLEAN

(* The parts follow each other, and the engine says which there are.       *)
Oracle == surface.engine = "oracle" /\ surface.sql
Course ==
  /\ pc = "done" => todo = <<>>
  /\ todo = <<>> \/ OwnersPart(todo) \/ TablesPart(todo) \/ ToolsPart(todo)
       \/ CategoriesPart(todo)
  /\ \A q \in Labels : stats[q] # NoAnswer => Oracle
  /\ OwnersPart(todo) => /\ Oracle /\ \A q \in Labels : stats[q] = NoAnswer
                         /\ \A l \in Schemas \cup {Owners} : found[l] = 0
  /\ TablesPart(todo) => /\ Oracle /\ stats[Owners] # NoAnswer
                         /\ \A s \in Schemas : Ahead("paged", s) => found[s] = 0
  /\ TablesPart(todo) \/ ToolsPart(todo) => \A c \in Categories : stats[c] = NoAnswer
  /\ ToolsPart(todo) => ~ByCatalogue
QueriesDue ==
  \A c \in Categories :
     /\ Ahead("paged", c) => Oracle
     /\ Ahead("pack", c) => ~Oracle
     /\ Ahead("adapter", c) => /\ Queried(c) => Ahead("paged", c) \/ Ahead("pack", c)
                               /\ \A d \in Categories : stats[d] = NoAnswer

(* The query at work.                                                      *)
Whole(l) == surface.wide[l] = 0 /\ Size(l) <= MaxPages
Asking ==
  walk # NoAnswer =>
    /\ todo # <<>> /\ Head(todo).op = "paged"
    /\ walk.expected \in {NoAnswer, Size(On)} /\ walk.got <= Size(On)
    /\ walk.expected = NoAnswer => Label(On) \in uncounted
    /\ ~missed /\ surface.wide[On] = 0 =>
         /\ walk.expected = Size(On)
         /\ walk.page <= walk.got /\ walk.page < MaxPages

(* What the statistics of a label miss is at least what a listing of it    *)
(* misses.                                                                 *)
Slack(q, l) ==
  stats[q] # NoAnswer /\ Size(l) + stats[q].fetched <= found[l] + stats[q].expected
Summing ==
  \A q \in Labels \ uncounted : stats[q] # NoAnswer =>
    stats[q].expected \in Nat /\ stats[q].fetched <= stats[q].expected

(* What becomes of the owners, the schemas and the categories.             *)
OwnersTold ==
  /\ stats[Owners] # NoAnswer /\ Owners \notin uncounted => Slack(Owners, Owners)
  /\ stats[Columns] # NoAnswer => stats[Owners] # NoAnswer
  /\ ByCatalogue => \E s \in Schemas : found[s] > 0
SchemasTold ==
  TablesPart(todo) \/ ByCatalogue =>
    \A s \in Schemas : s <= found[Owners] /\ ~Ahead("paged", s) /\ Columns \notin uncounted
      => Slack(Columns, s)
Excused(c) ==
  \/ c \in uncounted \/ <<c, "sql">> \in cut
  \/ ~Queried(c) /\ (surface.tool[c] = "none" \/ <<c, "tool">> \in cut)
CategoriesTold ==
  todo = <<>> \/ CategoriesPart(todo) =>
    \A c \in Categories :
      \/ \E op \in Late : Ahead(op, c)
      \/ found[c] = Size(c) \/ Told(c) \/ Excused(c)

(* What is complete if no call has failed.                                 *)
Complete ==
  ~missed =>
    /\ \A l \in Categories \cup {Owners} :
         stats[l] # NoAnswer /\ Whole(l) => found[l] = Size(l)
    /\ \A s \in Schemas : s <= found[Owners] /\ Whole(s) =>
         /\ Ahead("paged", s) \/ found[s] = Size(s)
         /\ ToolsPart(todo) => Size(s) = 0

WalkIInv ==
  /\ SurfaceOK /\ WalkTypes /\ Course /\ QueriesDue /\ Asking /\ Summing
  /\ OwnersTold /\ SchemasTold /\ CategoriesTold /\ Complete

-----------------------------------------------------------------------------
(* What is left to ask.                                                    *)
LEMMA TailFacts ==
  ASSUME NEW s \in Seq(Tasks), s # <<>>
  PROVE  /\ Tail(s) \in Seq(Tasks) /\ Len(Tail(s)) = Len(s) - 1 /\ Len(s) \in Nat \ {0}
         /\ Head(s) \in Tasks /\ Head(s) = s[1]
         /\ \A i \in 1..(Len(s) - 1) : Tail(s)[i] = s[i + 1]
         /\ \A op, on : Queued(s, op, on) <=> Head(s) = Task(op, on) \/ Queued(Tail(s), op, on)
<1>1. /\ Tail(s) \in Seq(Tasks) /\ Len(Tail(s)) = Len(s) - 1 /\ Len(s) \in Nat \ {0}
      /\ Head(s) \in Tasks /\ Head(s) = s[1]
      /\ \A i \in 1..(Len(s) - 1) : Tail(s)[i] = s[i + 1]
  OBVIOUS
<1>2. ASSUME NEW op, NEW on
      PROVE Queued(s, op, on) <=> Head(s) = Task(op, on) \/ Queued(Tail(s), op, on)
  <2>1. ASSUME Queued(s, op, on), Head(s) # Task(op, on) PROVE Queued(Tail(s), op, on)
    <3>1. PICK i \in 1..Len(s) : s[i] = Task(op, on)
      BY <2>1 DEF Queued
    <3>2. i - 1 \in 1..(Len(s) - 1) /\ Tail(s)[i - 1] = Task(op, on)
      BY <1>1, <2>1, <3>1
    <3>3. i - 1 \in DOMAIN Tail(s)
      BY <1>1, <3>2
    <3> QED BY <3>2, <3>3 DEF Queued
  <2>2. ASSUME Queued(Tail(s), op, on) PROVE Queued(s, op, on)
    <3>1. PICK i \in 1..(Len(s) - 1) : Tail(s)[i] = Task(op, on)
      BY <1>1, <2>2 DEF Queued
    <3>2. i + 1 \in DOMAIN s /\ s[i + 1] = Task(op, on)
      BY <1>1, <3>1
    <3> QED BY <3>2 DEF Queued
  <2>3. ASSUME Head(s) = Task(op, on) PROVE Queued(s, op, on)
    BY <1>1, <2>3 DEF Queued
  <2> QED BY <2>1, <2>2, <2>3
<1> QED BY <1>1, <1>2

(* No task of two parts is the last: the parts exclude each other.          *)
LEMMA OnePart ==
  ASSUME NEW s \in Seq(Tasks)
  PROVE  /\ OwnersPart(s) => ~TablesPart(s) /\ ~ToolsPart(s) /\ ~CategoriesPart(s) /\ s # <<>>
         /\ TablesPart(s) => ~ToolsPart(s) /\ ~CategoriesPart(s) /\ s # <<>>
         /\ ToolsPart(s) => ~CategoriesPart(s) /\ s # <<>>
         /\ CategoriesPart(s) => s # <<>>
<1>1. OwnersPart(s) => s # <<>> /\ s[Len(s)].op = "paged"
  BY DEF OwnersPart, Task
<1> QED BY <1>1 DEF TablesPart, ToolsPart, CategoriesPart

(* The head of a part, and what is left without it.                        *)
LEMMA OwnersHead ==
  ASSUME NEW s \in Seq(Tasks), OwnersPart(s)
  PROVE  Head(s).op = "paged" /\ Head(s).on = Owners
BY DEF OwnersPart, Task

(* The tables' queries, each of a schema of its own, end with the bulk.    *)
LEMMA TablesTail ==
  ASSUME NEW s \in Seq(Tasks), TablesPart(s)
  PROVE  /\ Head(s).op \in {"paged", "bulk"}
         /\ Head(s).op = "paged" =>
              /\ Head(s).on \in Schemas /\ TablesPart(Tail(s))
              /\ ~Queued(Tail(s), "paged", Head(s).on) /\ Queued(s, "paged", Head(s).on)
         /\ Head(s).op = "bulk" => \A l : ~Queued(s, "paged", l)
         /\ \A l : Queued(s, "paged", l) => l \in Schemas
<1>1. /\ s # <<>> /\ Tail(s) \in Seq(Tasks) /\ Len(Tail(s)) = Len(s) - 1 /\ Len(s) \in Nat \ {0}
      /\ Head(s) \in Tasks /\ Head(s) = s[1]
      /\ \A i \in 1..(Len(s) - 1) : Tail(s)[i] = s[i + 1]
  BY TailFacts DEF TablesPart
<1>2. Len(s) = 1 => Head(s).op = "bulk"
  BY <1>1 DEF TablesPart
<1>3. Len(s) # 1 => Head(s).op = "paged" /\ Head(s).on \in Schemas
  BY <1>1 DEF TablesPart
<1>4. ASSUME NEW l, NEW i \in DOMAIN s, s[i] = Task("paged", l)
      PROVE i \in 1..(Len(s) - 1) /\ l \in Schemas
  <2>1. s[i].op = "paged" /\ s[i].on = l
    BY <1>4 DEF Task
  <2>2. i # Len(s)
    BY <2>1 DEF TablesPart
  <2>3. i \in 1..(Len(s) - 1)
    BY <2>2
  <2> QED BY <2>1, <2>3 DEF TablesPart
<1>5. ASSUME Head(s).op = "paged"
      PROVE TablesPart(Tail(s)) /\ ~Queued(Tail(s), "paged", Head(s).on)
  <2>1. Len(s) \in Nat /\ Len(s) > 1
    BY <1>1, <1>2, <1>5
  <2>2. Tail(s) # <<>> /\ Tail(s)[Len(Tail(s))].op = "bulk"
    <3>1. Tail(s)[Len(s) - 1] = s[Len(s)]
      BY <1>1, <2>1
    <3>2. Len(Tail(s)) # 0
      BY <1>1, <2>1
    <3>3. Len(<<>>) = 0
      OBVIOUS
    <3>4. Tail(s) # <<>>
      BY <3>2, <3>3, Zenon
    <3> QED BY <1>1, <3>1, <3>4 DEF TablesPart
  <2>3. ASSUME NEW i \in 1..(Len(Tail(s)) - 1)
        PROVE i + 1 \in 1..(Len(s) - 1) /\ Tail(s)[i] = s[i + 1]
    BY <1>1, <2>1, <2>3
  <2>4. \A i \in 1..(Len(Tail(s)) - 1) : Tail(s)[i].op = "paged" /\ Tail(s)[i].on \in Schemas
    BY <2>3 DEF TablesPart
  <2>5. ASSUME NEW i \in 1..(Len(Tail(s)) - 1), NEW j \in 1..(Len(Tail(s)) - 1),
               Tail(s)[i] = Tail(s)[j]
        PROVE i = j
    <3>1. i + 1 = j + 1
      BY <2>3, <2>5 DEF TablesPart
    <3> QED BY <3>1
  <2>6. Head(s) = Task("paged", Head(s).on) /\ Head(s) = s[1]
    BY <1>1, <1>5 DEF Tasks, Task
  <2>7. ASSUME Queued(Tail(s), "paged", Head(s).on) PROVE FALSE
    <3>1. PICK i \in DOMAIN Tail(s) : Tail(s)[i] = Head(s)
      BY <2>6, <2>7 DEF Queued
    <3>2. i + 1 \in DOMAIN s /\ s[i + 1] = Task("paged", Head(s).on) /\ i \in Nat \ {0}
      BY <1>1, <2>1, <2>6, <3>1
    <3>3. i + 1 \in 1..(Len(s) - 1)
      BY <1>4, <3>2
    <3>4. 1 \in 1..(Len(s) - 1) /\ s[1] = s[i + 1]
      BY <2>1, <2>6, <3>2
    <3>5. i + 1 = 1
      BY <3>3, <3>4 DEF TablesPart
    <3> QED BY <3>2, <3>5
  <2> QED BY <2>2, <2>4, <2>5, <2>7 DEF TablesPart
<1>6. Head(s).op = "paged" => Queued(s, "paged", Head(s).on)
  <2>1. Head(s).op = "paged" => Head(s) = Task("paged", Head(s).on)
    BY <1>1 DEF Tasks, Task
  <2> QED BY <1>1, <2>1 DEF Queued
<1>7. ASSUME Head(s).op = "bulk", NEW l, Queued(s, "paged", l) PROVE FALSE
  <2>1. Len(s) = 1
    BY <1>3, <1>7
  <2> QED BY <1>4, <1>7, <2>1 DEF Queued
<1> QED BY <1>2, <1>3, <1>4, <1>5, <1>6, <1>7 DEF Queued

(* Tool by tool: a schema's list, the descriptions of its tables, the next *)
(* schema.                                                                 *)
LEMMA ToolsTail ==
  ASSUME NEW s \in Seq(Tasks), ToolsPart(s)
  PROVE  /\ Head(s).op \in {"schemas", "evidence", "list", "describe"}
         /\ Head(s).op \in {"list", "describe"} =>
              /\ Head(s).on \in Schemas /\ ToolsPart(Tail(s))
              /\ ToolsPart(<<Task("describe", Head(s).on)>> \o Tail(s))
         /\ \A op \in Late : \A l : ~Queued(s, op, l)
<1>1. /\ s # <<>> /\ Tail(s) \in Seq(Tasks) /\ Len(Tail(s)) = Len(s) - 1 /\ Len(s) \in Nat \ {0}
      /\ Head(s) \in Tasks /\ Head(s) = s[1]
      /\ \A i \in 1..(Len(s) - 1) : Tail(s)[i] = s[i + 1]
  BY TailFacts DEF ToolsPart
<1>2. Len(s) = 1 => Head(s).op \in {"schemas", "evidence"}
  BY <1>1 DEF ToolsPart
<1>3. Len(s) # 1 => Head(s).op \in {"list", "describe"} /\ Head(s).on \in Schemas
  BY <1>1 DEF ToolsPart
<1>4. ASSUME Head(s).op \in {"list", "describe"}
      PROVE /\ ToolsPart(Tail(s))
            /\ ToolsPart(<<Task("describe", Head(s).on)>> \o Tail(s))
  <2>1. Len(s) \in Nat /\ Len(s) > 1
    BY <1>1, <1>2, <1>4
  <2>2. Tail(s) # <<>> /\ Tail(s)[Len(Tail(s))].op \in {"schemas", "evidence"}
    <3>1. Tail(s)[Len(s) - 1] = s[Len(s)]
      BY <1>1, <2>1
    <3>2. Len(Tail(s)) # 0
      BY <1>1, <2>1
    <3>3. Len(<<>>) = 0
      OBVIOUS
    <3>4. Tail(s) # <<>>
      BY <3>2, <3>3, Zenon
    <3> QED BY <1>1, <3>1, <3>4 DEF ToolsPart
  <2>3. ASSUME NEW i \in 1..(Len(Tail(s)) - 1)
        PROVE i + 1 \in 1..(Len(s) - 1) /\ Tail(s)[i] = s[i + 1]
    BY <1>1, <2>1, <2>3
  <2>4. ToolsPart(Tail(s))
    BY <2>2, <2>3 DEF ToolsPart
  <2> DEFINE r == <<Task("describe", Head(s).on)>> \o Tail(s)
  <2>5. /\ Len(r) = Len(s) /\ r[1] = Task("describe", Head(s).on)
        /\ \A i \in 2..Len(s) : r[i] = s[i]
    <3>1. Tail(s) \in Seq(Tasks) /\ Len(Tail(s)) = Len(s) - 1
      BY <1>1
    <3>2. Len(r) = Len(s) /\ r[1] = Task("describe", Head(s).on)
      BY <2>1, <3>1
    <3>3. ASSUME NEW i \in 2..Len(s) PROVE r[i] = s[i]
      <4>1. i - 1 \in 1..(Len(s) - 1) /\ r[i] = Tail(s)[i - 1]
        BY <2>1, <3>1, <3>3
      <4>2. Tail(s)[i - 1] = s[(i - 1) + 1]
        BY <1>1, <4>1
      <4> QED BY <4>1, <4>2
    <3> QED BY <3>2, <3>3
  <2> HIDE DEF r
  <2>6. r # <<>> /\ r[Len(r)].op \in {"schemas", "evidence"}
    BY <2>1, <2>5 DEF ToolsPart
  <2>7. ASSUME NEW i \in 1..(Len(r) - 1)
        PROVE r[i].op \in {"list", "describe"} /\ r[i].on \in Schemas
    <3>1. CASE i = 1
      BY <1>2, <1>3, <1>4, <2>5, <3>1 DEF Task
    <3>2. CASE i # 1
      <4>1. i \in 2..Len(s) /\ i \in 1..(Len(s) - 1)
        BY <2>1, <2>5, <2>7, <3>2
      <4> QED BY <2>5, <4>1 DEF ToolsPart
    <3> QED BY <3>1, <3>2
  <2>8. ToolsPart(r)
    BY <2>6, <2>7 DEF ToolsPart
  <2> QED BY <2>4, <2>8 DEF r
<1>5. ASSUME NEW op \in Late, NEW l, NEW i \in DOMAIN s, s[i] = Task(op, l) PROVE FALSE
  <2>1. s[i].op = op
    BY <1>5 DEF Task
  <2>2. i = Len(s) \/ i \in 1..(Len(s) - 1)
    OBVIOUS
  <2> QED BY <2>1, <2>2 DEF ToolsPart, Late
<1> QED BY <1>2, <1>3, <1>4, <1>5 DEF Queued

(* The categories: their tools first, then their queries, then the end.    *)
LEMMA CategoriesTail ==
  ASSUME NEW s \in Seq(Tasks), CategoriesPart(s)
  PROVE  /\ Head(s).op \in Late \cup {"end"}
         /\ Head(s).op \in Late => Head(s).on \in Categories /\ CategoriesPart(Tail(s))
         /\ Head(s).op \in {"paged", "pack"} => \A l : ~Queued(Tail(s), "adapter", l)
         /\ Head(s).op = "end" => \A op \in Late : \A l : ~Queued(s, op, l)
<1>1. /\ s # <<>> /\ Tail(s) \in Seq(Tasks) /\ Len(Tail(s)) = Len(s) - 1 /\ Len(s) \in Nat \ {0}
      /\ Head(s) \in Tasks /\ Head(s) = s[1]
      /\ \A i \in 1..(Len(s) - 1) : Tail(s)[i] = s[i + 1]
  BY TailFacts DEF CategoriesPart
<1>2. Len(s) = 1 => Head(s).op = "end"
  BY <1>1 DEF CategoriesPart
<1>3. Len(s) # 1 => Head(s).op \in Late /\ Head(s).on \in Categories
  BY <1>1 DEF CategoriesPart
<1>4. ASSUME Head(s).op \in Late
      PROVE CategoriesPart(Tail(s)) /\ (Head(s).op # "adapter" => \A l : ~Queued(Tail(s), "adapter", l))
  <2>1. Len(s) \in Nat /\ Len(s) > 1
    BY <1>1, <1>2, <1>4 DEF Late
  <2>2. Tail(s) # <<>> /\ Tail(s)[Len(Tail(s))].op = "end"
    <3>1. Tail(s)[Len(s) - 1] = s[Len(s)]
      BY <1>1, <2>1
    <3>2. Len(Tail(s)) # 0
      BY <1>1, <2>1
    <3>3. Len(<<>>) = 0
      OBVIOUS
    <3>4. Tail(s) # <<>>
      BY <3>2, <3>3, Zenon
    <3> QED BY <1>1, <3>1, <3>4 DEF CategoriesPart
  <2>3. ASSUME NEW i \in 1..(Len(Tail(s)) - 1)
        PROVE i + 1 \in 1..(Len(s) - 1) /\ Tail(s)[i] = s[i + 1]
    BY <1>1, <2>1, <2>3
  <2>4. \A i \in 1..(Len(Tail(s)) - 1) : Tail(s)[i].op \in Late /\ Tail(s)[i].on \in Categories
    BY <2>3 DEF CategoriesPart
  <2>5. ASSUME NEW i \in 1..(Len(Tail(s)) - 1), NEW j \in 1..(Len(Tail(s)) - 1),
               i < j, Tail(s)[j].op = "adapter"
        PROVE Tail(s)[i].op = "adapter"
    <3>1. i + 1 < j + 1
      BY <2>5
    <3> QED BY <2>3, <2>5, <3>1 DEF CategoriesPart
  <2>6. ASSUME NEW l, Queued(Tail(s), "adapter", l) PROVE Head(s).op = "adapter"
    <3>1. PICK i \in DOMAIN Tail(s) : Tail(s)[i] = Task("adapter", l)
      BY <2>6 DEF Queued
    <3>2. Tail(s)[i].op = "adapter"
      BY <3>1 DEF Task
    <3>3. i \in 1..(Len(Tail(s)) - 1)
      BY <1>1, <2>1, <2>2, <3>1, <3>2
    <3>4. 1 \in 1..(Len(s) - 1) /\ 1 < i + 1 /\ i + 1 \in 1..(Len(s) - 1) /\ s[i + 1].op = "adapter"
      BY <2>1, <2>3, <3>2, <3>3
    <3>5. s[1].op = "adapter"
      BY <3>4 DEF CategoriesPart
    <3> QED BY <1>1, <3>5
  <2> QED BY <2>2, <2>4, <2>5, <2>6 DEF CategoriesPart
<1>5. ASSUME Head(s).op = "end", NEW op \in Late, NEW l, NEW i \in DOMAIN s, s[i] = Task(op, l)
      PROVE FALSE
  <2>1. Len(s) = 1
    BY <1>3, <1>5 DEF Late
  <2>2. s[1].op = op
    BY <1>5, <2>1 DEF Task
  <2> QED BY <1>1, <1>5, <2>2 DEF Late
<1> QED BY <1>2, <1>3, <1>4, <1>5 DEF Queued, Late

(* Sequences of tasks put together.                                        *)
LEMMA ConcatFacts ==
  ASSUME NEW a \in Seq(Tasks), NEW b \in Seq(Tasks), NEW e \in Tasks
  PROVE  LET r == a \o b \o <<e>> IN
         /\ r \in Seq(Tasks) /\ r # <<>> /\ Len(r) = Len(a) + Len(b) + 1 /\ r[Len(r)] = e
         /\ \A i \in 1..Len(a) : r[i] = a[i]
         /\ \A i \in (Len(a) + 1)..(Len(a) + Len(b)) : r[i] = b[i - Len(a)]
<1> DEFINE r == a \o b \o <<e>>
<1>1. a \o b \in Seq(Tasks) /\ Len(a \o b) = Len(a) + Len(b) /\ Len(a) \in Nat /\ Len(b) \in Nat
  OBVIOUS
<1>2. r \in Seq(Tasks) /\ Len(r) = Len(a) + Len(b) + 1
  BY <1>1
<1>3. r[Len(r)] = e
  BY <1>1, <1>2
<1>4. ASSUME NEW i \in 1..Len(a) PROVE r[i] = a[i]
  <2>1. i \in 1..Len(a \o b) /\ (a \o b)[i] = a[i]
    BY <1>1
  <2> QED BY <1>1, <2>1
<1>5. ASSUME NEW i \in (Len(a) + 1)..(Len(a) + Len(b)) PROVE r[i] = b[i - Len(a)]
  <2>1. i \in 1..Len(a \o b) /\ (a \o b)[i] = b[i - Len(a)]
    BY <1>1
  <2> QED BY <1>1, <2>1
<1>6. r # <<>>
  <2>1. Len(r) # 0
    BY <1>1, <1>2
  <2>2. Len(<<>>) = 0
    OBVIOUS
  <2> QED BY <2>1, <2>2, Zenon
<1> QED BY <1>2, <1>3, <1>4, <1>5, <1>6

(* One task for each of some listings.                                     *)
LEMMA EachFacts ==
  ASSUME NEW op \in {"paged", "list", "adapter", "pack"}, NEW ls \in Seq(Schemas \cup Categories)
  PROVE  /\ Each(op, ls) \in Seq(Tasks) /\ Len(Each(op, ls)) = Len(ls)
         /\ \A i \in 1..Len(ls) : Each(op, ls)[i] = Task(op, ls[i])
<1>1. \A i \in 1..Len(ls) : ls[i] \in Listings
  BY DEF Listings
<1>2. \A l \in Listings : Task(op, l) \in Tasks
  BY DEF Task, Tasks
<1>3. Len(ls) \in Nat
  OBVIOUS
<1>4. Each(op, ls) \in [1..Len(ls) -> Tasks]
  BY <1>1, <1>2 DEF Each
<1>5. Each(op, ls) \in Seq(Tasks) /\ Len(Each(op, ls)) = Len(ls)
  BY <1>3, <1>4
<1> QED BY <1>5 DEF Each

(* SetToSeq lists every category of a set, and no other.                   *)
LEMMA EveryCategory ==
  ASSUME NEW C \in SUBSET Categories
  PROVE  /\ SetToSeq(C) \in Seq(C)
         /\ \A c \in C : \E i \in DOMAIN SetToSeq(C) : SetToSeq(C)[i] = c
<1> DEFINE n == Cardinality(C)
<1>0. IsFiniteSet(C)
  BY WalkAssumption, FS_Subset
<1>1. n \in Nat /\ ExistsBijection(1..n, C)
  BY <1>0, FS_CardinalityType
<1>2. PICK g \in Bijection(1..n, C) : TRUE
  BY <1>1 DEF ExistsBijection
<1>3. g \in [1..n -> C] /\ IsInjective(g)
  BY <1>2 DEF Bijection, Injection
<1>4. SetToSeq(C) \in [1..n -> C] /\ IsInjective(SetToSeq(C))
  BY <1>3 DEF SetToSeq
<1>5. SetToSeq(C) \in Seq(C) /\ DOMAIN SetToSeq(C) = 1..n
  BY <1>1, <1>4
<1>6. SetToSeq(C) \in Injection(1..n, C)
  BY <1>4 DEF Injection
<1>7. IsFiniteSet(1..n) /\ Cardinality(1..n) = n
  BY <1>1, FS_Interval
<1>8. SetToSeq(C) \in Surjection(1..n, C)
  BY <1>0, <1>6, <1>7, FS_Injection
<1> QED BY <1>5, <1>8 DEF Surjection

(* How each part begins.                                                   *)
LEMMA GenericBegins ==
  Generic \in Seq(Tasks) /\ ToolsPart(Generic)
<1>1. Task("schemas", NoAnswer) \in Tasks
  BY DEF Task, Tasks
<1>2. Task("schemas", NoAnswer).op = "schemas"
  BY DEF Task
<1> QED BY <1>1, <1>2 DEF Generic, ToolsPart

(* The schemas that were found have a query each.                          *)
LEMMA TablesBegin ==
  ASSUME NEW n \in 1..NSchemas
  PROVE  LET r == Each("paged", Ordered(n)) \o <<Task("bulk", NoAnswer)>> IN
         r \in Seq(Tasks) /\ TablesPart(r) /\ \A l : Queued(r, "paged", l) <=> l \in 1..n
<1> DEFINE a == Each("paged", Ordered(n))
           e == Task("bulk", NoAnswer)
           r == a \o <<e>>
<1>1. NSchemas \in Nat \ {0} /\ n \in Nat \ {0}
  BY WalkAssumption
<1>2. Ordered(n) \in Seq(Schemas \cup Categories) /\ Len(Ordered(n)) = n
  BY <1>1 DEF Ordered, Schemas
<1>3. a \in Seq(Tasks) /\ Len(a) = n /\ \A i \in 1..n : a[i] = Task("paged", i)
  BY <1>2, EachFacts DEF Ordered
<1>4. e \in Tasks /\ e.op = "bulk"
  BY DEF Task, Tasks
<1> HIDE DEF a, e
<1>5. /\ r \in Seq(Tasks) /\ r # <<>> /\ Len(r) = n + 1 /\ r[n + 1] = e
      /\ \A i \in 1..n : r[i] = Task("paged", i)
  BY <1>1, <1>3, <1>4
<1> HIDE DEF r
<1>6. \A i \in 1..n : r[i].op = "paged" /\ r[i].on = i /\ i \in Schemas
  <2>1. \A i \in 1..n : i \in Schemas
    BY <1>1 DEF Schemas
  <2>2. \A l : Task("paged", l).op = "paged" /\ Task("paged", l).on = l
    BY DEF Task
  <2>3. \A i \in 1..n : r[i].op = "paged" /\ r[i].on = i
    BY <1>5, <2>2, Zenon
  <2> QED BY <2>1, <2>3, Zenon
<1>7. TablesPart(r)
  <2>1. r # <<>> /\ r[Len(r)].op = "bulk"
    BY <1>4, <1>5
  <2>2. 1..(Len(r) - 1) = 1..n
    BY <1>1, <1>5
  <2>3. \A i \in 1..n : r[i].op = "paged" /\ r[i].on \in Schemas
    BY <1>6
  <2>4. \A i, j \in 1..n : r[i] = r[j] => i = j
    BY <1>6
  <2> QED BY <2>1, <2>2, <2>3, <2>4 DEF TablesPart
<1>8. ASSUME NEW l, Queued(r, "paged", l) PROVE l \in 1..n
  <2>1. PICK i \in DOMAIN r : r[i] = Task("paged", l)
    BY <1>8 DEF Queued
  <2>2. r[i].op = "paged" /\ r[i].on = l
    BY <2>1 DEF Task
  <2>3. i \in 1..(n + 1) /\ i # n + 1
    BY <1>1, <1>4, <1>5, <2>1, <2>2
  <2>4. i \in 1..n
    BY <1>1, <2>3
  <2> QED BY <1>6, <2>2, <2>4
<1>9. ASSUME NEW l \in 1..n PROVE Queued(r, "paged", l)
  <2>1. l \in DOMAIN r
    BY <1>1, <1>5
  <2> QED BY <1>5, <2>1 DEF Queued
<1> QED BY <1>5, <1>7, <1>8, <1>9 DEF r, a, e

(* The schemas that were listed have their tables listed.                  *)
LEMMA ToolsBegin ==
  ASSUME NEW scopes \in {<< 1 >>} \cup {Ordered(n) : n \in 1..NSchemas}
  PROVE  LET r == Each("list", scopes) \o <<Task("evidence", NoAnswer)>> IN
         r \in Seq(Tasks) /\ ToolsPart(r)
<1> DEFINE a == Each("list", scopes)
           e == Task("evidence", NoAnswer)
           r == a \o <<e>>
<1>1. NSchemas \in Nat \ {0}
  BY WalkAssumption
<1>2. scopes \in Seq(Schemas)
  <2>1. <<1>> \in Seq(Schemas)
    BY <1>1 DEF Schemas
  <2>2. \A n \in 1..NSchemas : Ordered(n) \in Seq(Schemas)
    BY <1>1 DEF Ordered, Schemas
  <2> QED BY <2>1, <2>2
<1>3. a \in Seq(Tasks) /\ Len(a) = Len(scopes) /\ \A i \in 1..Len(scopes) : a[i] = Task("list", scopes[i])
  BY <1>2, EachFacts
<1>4. e \in Tasks /\ e.op = "evidence"
  BY DEF Task, Tasks
<1>5. \A i \in 1..Len(scopes) : Task("list", scopes[i]).op = "list" /\ Task("list", scopes[i]).on \in Schemas
  BY <1>2 DEF Task
<1>6. Len(scopes) \in Nat
  BY <1>2
<1> HIDE DEF a, e
<1>7. /\ r \in Seq(Tasks) /\ r # <<>> /\ Len(r) = Len(scopes) + 1 /\ r[Len(scopes) + 1] = e
      /\ \A i \in 1..Len(scopes) : r[i] = Task("list", scopes[i])
  BY <1>3, <1>4, <1>6
<1> HIDE DEF r
<1>8. r[Len(r)].op = "evidence" /\ 1..(Len(r) - 1) = 1..Len(scopes)
  BY <1>4, <1>6, <1>7
<1>9. ToolsPart(r)
  BY <1>5, <1>7, <1>8 DEF ToolsPart
<1> QED BY <1>7, <1>9 DEF r, a, e

(* Each category has its tool asked, and a query where the engine's pack    *)
(* has one.                                                                *)
LEMMA CategoriesBegin ==
  /\ Rest \in Seq(Tasks) /\ CategoriesPart(Rest)
  /\ \A c \in Categories :
       /\ Queued(Rest, "adapter", c)
       /\ Queued(Rest, "paged", c) => Oracle
       /\ Queued(Rest, "pack", c) => ~Oracle
       /\ Queried(c) => Queued(Rest, "paged", c) \/ Queued(Rest, "pack", c)
  /\ \A s \in Schemas : ~Queued(Rest, "paged", s)
<1> DEFINE own == IF surface.engine = "oracle" THEN "paged" ELSE "pack"
           A == SetToSeq(Categories)
           B == SetToSeq({c \in Categories : Queried(c)})
           a == Each("adapter", A)
           b == Each(own, B)
           e == Task("end", NoAnswer)
           r == a \o b \o <<e>>
           k == Len(A)
           m == Len(B)
<1>1. /\ A \in Seq(Schemas \cup Categories) /\ k \in Nat
      /\ \A i \in 1..k : A[i] \in Categories
      /\ \A c \in Categories : \E i \in 1..k : A[i] = c
  BY EveryCategory
<1>2. a \in Seq(Tasks) /\ Len(a) = k /\ \A i \in 1..k : a[i] = Task("adapter", A[i])
  BY <1>1, EachFacts
<1>3. /\ B \in Seq(Schemas \cup Categories) /\ m \in Nat
      /\ \A i \in 1..m : B[i] \in Categories /\ Queried(B[i])
      /\ \A c \in Categories : Queried(c) => \E i \in 1..m : B[i] = c
  <2> DEFINE C == {c \in Categories : Queried(c)}
  <2>1. C \in SUBSET Categories
    OBVIOUS
  <2>2. B \in Seq(C) /\ \A c \in C : \E i \in DOMAIN B : B[i] = c
    BY <2>1, EveryCategory
  <2>3. m \in Nat /\ DOMAIN B = 1..m /\ \A i \in 1..m : B[i] \in C
    BY <2>2
  <2>4. B \in Seq(Schemas \cup Categories)
    BY <2>2, <2>3
  <2> QED BY <2>2, <2>3, <2>4
<1>a. b \in Seq(Tasks) /\ Len(b) = m /\ \A i \in 1..m : b[i] = Task(own, B[i])
  BY <1>3, EachFacts
<1>4. e \in Tasks /\ e.op = "end" /\ e.on = NoAnswer
  BY DEF Task, Tasks
<1>5. r = Rest
  BY DEF Rest
<1> HIDE DEF a, b, e, A, B
<1>6. /\ r \in Seq(Tasks) /\ r # <<>> /\ Len(r) = k + m + 1 /\ r[Len(r)] = e
      /\ \A i \in 1..k : r[i] = a[i]
      /\ \A i \in (k + 1)..(k + m) : r[i] = b[i - k]
  <2> DEFINE r0 == a \o b \o <<e>>
  <2>1. /\ r0 \in Seq(Tasks) /\ r0 # <<>> /\ Len(r0) = Len(a) + Len(b) + 1 /\ r0[Len(r0)] = e
        /\ \A i \in 1..Len(a) : r0[i] = a[i]
        /\ \A i \in (Len(a) + 1)..(Len(a) + Len(b)) : r0[i] = b[i - Len(a)]
    BY <1>2, <1>a, <1>4, ConcatFacts
  <2>2. r = r0 /\ Len(a) = k /\ Len(b) = m
    BY <1>2, <1>a
  <2> HIDE DEF r0, r, k, m
  <2> QED BY <2>1, <2>2
<1>7. 1..(Len(r) - 1) = 1..(k + m)
  <2>1. Len(r) - 1 = k + m
    BY <1>1, <1>3, <1>6
  <2> QED BY <2>1
<1> HIDE DEF r, k, m
<1>8. ASSUME NEW i \in 1..k
      PROVE r[i].op = "adapter" /\ r[i].on = A[i] /\ r[i] = Task("adapter", A[i])
  BY <1>2, <1>6 DEF Task
<1>9. ASSUME NEW i \in (k + 1)..(k + m)
      PROVE i - k \in 1..m /\ r[i].op = own /\ r[i].on = B[i - k]
  <2>1. i - k \in 1..m
    BY <1>1, <1>3, <1>9
  <2> QED BY <1>a, <1>6, <2>1 DEF Task
<1>10. \A i \in 1..(k + m) : i \in 1..k \/ i \in (k + 1)..(k + m)
  BY <1>1, <1>3
<1>11. CategoriesPart(r)
  <2>1. r # <<>> /\ r[Len(r)].op = "end"
    BY <1>4, <1>6
  <2>2. \A i \in 1..(k + m) : r[i].op \in Late /\ r[i].on \in Categories
    BY <1>1, <1>3, <1>8, <1>9, <1>10 DEF Late
  <2>3. ASSUME NEW i \in 1..(k + m), NEW j \in 1..(k + m), i < j, r[j].op = "adapter"
        PROVE r[i].op = "adapter"
    <3>1. j \in 1..k
      BY <1>9, <1>10, <2>3
    <3>2. i \in 1..k
      BY <1>1, <2>3, <3>1
    <3> QED BY <1>8, <3>2
  <2> QED BY <1>7, <2>1, <2>2, <2>3 DEF CategoriesPart
<1>12. ASSUME NEW op \in Late, NEW l, Queued(r, op, l)
       PROVE l \in Categories /\ (op = "adapter" \/ (op = own /\ Queried(l)))
  <2>1. PICK i \in DOMAIN r : r[i] = Task(op, l)
    BY <1>12 DEF Queued
  <2>2. r[i].op = op /\ r[i].on = l
    BY <2>1 DEF Task
  <2>3. i \in 1..(k + m + 1) /\ i # k + m + 1
    BY <1>4, <1>6, <1>12, <2>1, <2>2 DEF Late
  <2>a. k \in Nat /\ m \in Nat
    BY <1>1, <1>3
  <2>4. i \in 1..(k + m)
    BY <2>a, <2>3
  <2> QED BY <1>1, <1>3, <1>8, <1>9, <1>10, <2>2, <2>4
<1>13. ASSUME NEW c \in Categories
       PROVE /\ Queued(r, "adapter", c)
             /\ Queried(c) => Queued(r, own, c)
  <2>1. PICK i \in 1..k : A[i] = c
    BY <1>1
  <2>2. i \in DOMAIN r /\ r[i] = Task("adapter", c)
    BY <1>1, <1>3, <1>6, <1>8, <2>1
  <2>3. ASSUME Queried(c) PROVE \E j \in DOMAIN r : r[j] = Task(own, c)
    <3>1. PICK j \in 1..m : B[j] = c
      BY <1>3, <2>3
    <3> DEFINE h == j + k
    <3>2. h \in (k + 1)..(k + m) /\ h - k = j
      BY <1>1, <1>3, <3>1
    <3> HIDE DEF h
    <3>3. h \in DOMAIN r
      BY <1>1, <1>3, <1>6, <3>2
    <3>4. r[h] = b[h - k]
      BY <1>6, <3>2
    <3>5. r[h] = b[j]
      BY <3>2, <3>4
    <3>6. b[j] = Task(own, c)
      BY <1>a, <3>1
    <3> QED BY <3>3, <3>5, <3>6
  <2> QED BY <2>2, <2>3 DEF Queued
<1>14. \A s \in Schemas : s \notin Categories
  BY NamesApart
<1>15. own \in {"paged", "pack"} /\ \A c \in Categories : Queried(c) => (own = "paged" <=> Oracle)
  BY DEF Queried, Oracle
<1> QED BY <1>5, <1>6, <1>11, <1>12, <1>13, <1>14, <1>15 DEF Late

(* The least of two.                                                       *)
LEMMA MinTwo ==
  ASSUME NEW a \in Int, NEW b \in Int
  PROVE  Min({a, b}) = IF a <= b THEN a ELSE b
BY DEF Min

-----------------------------------------------------------------------------
(* What is asked first tells the part.                                     *)
LEMMA HeadFacts ==
  ASSUME WalkTypes, Course, todo # <<>>
  PROVE  /\ On \in Listings \cup {NoAnswer}
         /\ Head(todo).op = "paged" =>
              \/ OwnersPart(todo) /\ On = Owners
              \/ TablesPart(todo) /\ On \in Schemas
              \/ CategoriesPart(todo) /\ On \in Categories
         /\ Head(todo).op = "bulk" => TablesPart(todo)
         /\ Head(todo).op \in {"schemas", "list", "describe", "evidence"} => ToolsPart(todo)
         /\ Head(todo).op \in {"list", "describe"} => On \in Schemas
         /\ Head(todo).op \in {"adapter", "pack", "end"} => CategoriesPart(todo)
         /\ Head(todo).op \in {"adapter", "pack"} => On \in Categories
<1>1. todo \in Seq(Tasks)
  BY DEF WalkTypes
<1>2. Head(todo) \in Tasks
  BY <1>1
<1>3. OwnersPart(todo) => Head(todo).op = "paged" /\ On = Owners
  BY <1>1, OwnersHead DEF On
<1>4. TablesPart(todo) =>
        /\ Head(todo).op \in {"paged", "bulk"}
        /\ Head(todo).op = "paged" => On \in Schemas
  BY <1>1, TablesTail DEF On
<1>5. ToolsPart(todo) =>
        /\ Head(todo).op \in {"schemas", "evidence", "list", "describe"}
        /\ Head(todo).op \in {"list", "describe"} => On \in Schemas
  BY <1>1, ToolsTail DEF On
<1>6. CategoriesPart(todo) =>
        /\ Head(todo).op \in Late \cup {"end"}
        /\ Head(todo).op \in Late => On \in Categories
  BY <1>1, CategoriesTail DEF On
<1> QED BY <1>2, <1>3, <1>4, <1>5, <1>6 DEF Course, Tasks, On, Late

(* What a call brings, and that a failure is not forgotten.                *)
LEMMA ReplyFacts ==
  ASSUME NEW answers, NEW reply \in Replies(answers), Called(reply), missed \in BOOLEAN
  PROVE  /\ reply \in answers \cup {NoAnswer}
         /\ missed' \in BOOLEAN
         /\ ~missed' => ~missed /\ reply # NoAnswer
BY DEF Replies, Called

(* A batch of calls does not forget a failure.                             *)
LEMMA BatchFacts ==
  ASSUME NEW n, CalledTimes(n), missed \in BOOLEAN
  PROVE  missed' \in BOOLEAN /\ (~missed' => ~missed)
BY DEF CalledTimes

(* A step that only asks: nothing but the query at work changes.           *)
LEMMA QuietStep ==
  ASSUME WalkIInv, UNCHANGED <<surface, todo, found, stats, unavailable, cut>>,
         uncounted \subseteq uncounted', missed' \in BOOLEAN, missed => missed',
         pc' \in {"walk", "done", "failed"}, pc' = "done" => todo = <<>>,
         walk' \in Walks \cup {NoAnswer}, Asking'
  PROVE  WalkIInv'
<1> USE DEF WalkIInv
<1>1. SurfaceOK'
  BY DEF SurfaceOK, Size
<1>2. WalkTypes'
  BY DEF WalkTypes, Size
<1>3. Course'
  BY DEF Course, ByCatalogue, Ahead, Oracle
<1>4. QueriesDue'
  BY DEF QueriesDue, Ahead, Oracle, Queried
<1>5. Summing'
  BY DEF Summing
<1>6. OwnersTold'
  BY DEF OwnersTold, Slack, ByCatalogue, Size
<1>7. SchemasTold'
  BY DEF SchemasTold, Slack, ByCatalogue, Size, Ahead
<1>8. CategoriesTold'
  BY DEF CategoriesTold, Told, Shown, Size, Ahead, Excused, Queried
<1>9. Complete'
  BY DEF Complete, Whole, Size, Ahead
<1> QED BY <1>1, <1>2, <1>3, <1>4, <1>5, <1>6, <1>7, <1>8, <1>9

(* The COUNT preflight of a query.                                         *)
LEMMA CountStep == WalkIInv /\ Count => WalkIInv'
<1> SUFFICES ASSUME WalkIInv, Count PROVE WalkIInv'
  OBVIOUS
<1>1. todo # <<>> /\ Head(todo).op = "paged" /\ pc = "walk" /\ missed \in BOOLEAN
  BY DEF Count, At, WalkIInv, WalkTypes
<1>2. On \in Listings
  BY <1>1, HeadFacts DEF WalkIInv, Listings
<1>3. PICK n \in Replies({Size(On)}) :
        /\ walk' = [expected |-> n, rows |-> PageRows, page |-> 0, got |-> 0, chopped |-> 0]
        /\ uncounted' = IF n = NoAnswer THEN uncounted \cup {Label(On)} ELSE uncounted
        /\ Called(n)
  BY DEF Count
<1>4. n \in {Size(On), NoAnswer} /\ missed' \in BOOLEAN /\ (~missed' => ~missed /\ n # NoAnswer)
  BY <1>1, <1>3, ReplyFacts
<1>5. UNCHANGED <<surface, pc, todo, found, stats, unavailable, cut>>
  BY DEF Count
<1>6. Size(On) \in Nat /\ PageRows \in Nat \ {0} /\ MaxPages \in Nat \ {0}
  BY <1>2, WalkAssumption DEF WalkIInv, SurfaceOK, Size
<1>7. walk' \in Walks
  BY <1>3, <1>4, <1>6 DEF Walks
<1>8. On' = On /\ Size(On)' = Size(On)
  BY <1>5 DEF On, Size
<1>9. Asking'
  BY <1>1, <1>3, <1>4, <1>5, <1>6, <1>8 DEF Asking, On, Size
<1> QED BY <1>1, <1>3, <1>4, <1>5, <1>7, <1>9, QuietStep DEF WalkIInv, WalkTypes

(* The walk's wall-clock budget runs out.                                  *)
LEMMA TimeoutStep == WalkIInv /\ Timeout => WalkIInv'
<1> SUFFICES ASSUME WalkIInv, Timeout PROVE WalkIInv'
  OBVIOUS
<1>1. UNCHANGED <<surface, todo, walk, found, stats, unavailable, uncounted, cut, missed>> /\ pc' = "failed"
  BY DEF Timeout
<1>2. Asking'
  BY <1>1 DEF WalkIInv, Asking, On, Size
<1> QED BY <1>1, <1>2, QuietStep DEF WalkIInv, WalkTypes

(* A stuttering step.                                                      *)
LEMMA WalkStutter == WalkIInv /\ UNCHANGED walkVars => WalkIInv'
<1> SUFFICES ASSUME WalkIInv, UNCHANGED walkVars PROVE WalkIInv'
  OBVIOUS
<1>1. UNCHANGED <<surface, pc, todo, walk, found, stats, unavailable, uncounted, cut, missed>>
  BY DEF walkVars
<1>2. Asking'
  BY <1>1 DEF WalkIInv, Asking, On, Size
<1> QED BY <1>1, <1>2, QuietStep DEF WalkIInv, WalkTypes, Course

(* The payload is returned.                                                *)
LEMMA EndStep == WalkIInv /\ End => WalkIInv'
<1> SUFFICES ASSUME WalkIInv, End PROVE WalkIInv'
  OBVIOUS
<1> USE DEF WalkIInv
<1>1. /\ todo # <<>> /\ Head(todo).op = "end" /\ todo' = <<>> /\ pc' = "done"
      /\ UNCHANGED <<surface, walk, found, stats, unavailable, uncounted, cut, missed>>
  BY DEF End, At
<1>2. CategoriesPart(todo) /\ todo \in Seq(Tasks)
  BY <1>1, HeadFacts DEF WalkTypes
<1>3. \A op \in Late : \A l : ~Ahead(op, l)
  BY <1>1, <1>2, CategoriesTail DEF Ahead
<1>4. \A op, l : ~Ahead(op, l)'
  BY <1>1 DEF Ahead, Queued
<1>5. ~OwnersPart(todo') /\ ~TablesPart(todo') /\ ~ToolsPart(todo') /\ ~CategoriesPart(todo')
  BY <1>1 DEF OwnersPart, TablesPart, ToolsPart, CategoriesPart
<1>6. ~OwnersPart(todo) /\ ~TablesPart(todo) /\ ~ToolsPart(todo)
  BY <1>2, OnePart
<1>7. SurfaceOK' /\ WalkTypes'
  BY <1>1 DEF SurfaceOK, WalkTypes, Size
<1>8. Course' /\ QueriesDue'
  BY <1>1, <1>4, <1>5 DEF Course, QueriesDue, Oracle
<1>9. Asking'
  <2>1. walk = NoAnswer
    BY <1>1 DEF Asking
  <2> QED BY <1>1, <2>1 DEF Asking
<1>10. Summing' /\ OwnersTold'
  BY <1>1 DEF Summing, OwnersTold, Slack, ByCatalogue, Size
<1>11. SchemasTold'
  BY <1>1, <1>3, <1>5 DEF SchemasTold, Slack, ByCatalogue, Size, Late
<1>12. CategoriesTold'
  BY <1>1, <1>2, <1>3 DEF CategoriesTold, Told, Shown, Size, Late, Excused, Queried
<1>13. Complete'
  BY <1>1, <1>3, <1>5 DEF Complete, Whole, Size, Late
<1> QED BY <1>7, <1>8, <1>9, <1>10, <1>11, <1>12, <1>13

(* The tables are walked, by queries or by tools: the categories follow.   *)
LEMMA CategoriesNext ==
  ASSUME WalkIInv, TablesPart(todo) \/ ToolsPart(todo),
         todo' = Rest,
         \A s \in Schemas : ~Ahead("paged", s),
         UNCHANGED <<surface, pc, found, stats, unavailable, uncounted, cut>>, walk' = NoAnswer,
         pc = "walk", missed' \in BOOLEAN, missed => missed'
  PROVE  WalkIInv'
<1> USE DEF WalkIInv
<1>1. /\ todo' \in Seq(Tasks) /\ CategoriesPart(todo')
      /\ \A c \in Categories :
           /\ Ahead("adapter", c)'
           /\ Ahead("paged", c)' => Oracle
           /\ Ahead("pack", c)' => ~Oracle
           /\ Queried(c) => Ahead("paged", c)' \/ Ahead("pack", c)'
      /\ \A s \in Schemas : ~Ahead("paged", s)'
  BY CategoriesBegin DEF Ahead
<1>2. ~OwnersPart(todo') /\ ~TablesPart(todo') /\ ~ToolsPart(todo') /\ todo' # <<>>
  BY <1>1, OnePart
<1>3. SurfaceOK' /\ WalkTypes'
  BY <1>1 DEF SurfaceOK, WalkTypes, Size
<1>4. \A c \in Categories : stats[c] = NoAnswer
  BY DEF Course
<1>5. Course' /\ QueriesDue'
  BY <1>1, <1>2, <1>4 DEF Course, QueriesDue, Oracle, Queried
<1>6. Asking'
  BY DEF Asking
<1>7. Summing' /\ OwnersTold'
  BY <1>1 DEF Summing, OwnersTold, Slack, ByCatalogue, Size
<1>8. SchemasTold'
  BY <1>1, <1>2 DEF SchemasTold, Slack, ByCatalogue, Size
<1>9. CategoriesTold'
  BY <1>1 DEF CategoriesTold, Late
<1>10. Complete'
  BY <1>1, <1>2 DEF Complete, Whole, Size
<1> QED BY <1>3, <1>5, <1>6, <1>7, <1>8, <1>9, <1>10

(* The tables are asked for tool by tool.                                  *)
LEMMA ToolsNext ==
  ASSUME WalkIInv, TablesPart(todo) \/ ToolsPart(todo), ~ByCatalogue,
         todo' \in Seq(Tasks), ToolsPart(todo'),
         \A s \in Schemas : ~Ahead("paged", s),
         ~missed => \A s \in Schemas : s <= found[Owners] /\ Whole(s) => Size(s) = 0,
         UNCHANGED <<surface, pc, stats, unavailable, uncounted>>, walk' = NoAnswer,
         found' \in [Listings -> Nat], \A l \in Listings : found'[l] <= Size(l),
         \A l \in Categories \cup {Owners} : found'[l] = found[l],
         pc = "walk", missed' \in BOOLEAN, missed => missed'
  PROVE  WalkIInv'
<1> USE DEF WalkIInv
<1>1. ~OwnersPart(todo') /\ ~TablesPart(todo') /\ ~CategoriesPart(todo') /\ todo' # <<>>
  BY OnePart
<1>2. \A op \in Late : \A l : ~Ahead(op, l)'
  BY ToolsTail DEF Ahead
<1>3. SurfaceOK' /\ WalkTypes'
  BY DEF SurfaceOK, WalkTypes, Size
<1>4. Course' /\ QueriesDue'
  BY <1>1, <1>2 DEF Course, QueriesDue, Oracle, Late, ByCatalogue
<1>5. Asking'
  BY DEF Asking
<1>6. Summing' /\ OwnersTold'
  BY DEF Summing, OwnersTold, Slack, ByCatalogue, Size
<1>7. SchemasTold'
  BY <1>1 DEF SchemasTold, ByCatalogue
<1>8. CategoriesTold'
  BY <1>1 DEF CategoriesTold
<1>9. Complete'
  <2>1. ASSUME NEW s \in Schemas, ~missed', (s <= found[Owners] /\ Whole(s))'
        PROVE (found[s] = Size(s) /\ Size(s) = 0)'
    <3>1. s <= found[Owners] /\ Whole(s)
      BY <2>1 DEF Whole, Size
    <3>2. Size(s) = 0 /\ s \in Listings
      BY <2>1, <3>1 DEF Listings
    <3>3. found'[s] = 0
      BY <3>2
    <3> QED BY <3>2, <3>3 DEF Size
  <2> QED BY <2>1 DEF Complete, Whole, Size
<1> QED BY <1>3, <1>4, <1>5, <1>6, <1>7, <1>8, <1>9

(* _oracle_bulk_tables is over: the categories, or the tools.              *)
LEMMA BulkStep == WalkIInv /\ Bulk => WalkIInv'
<1> SUFFICES ASSUME WalkIInv, Bulk PROVE WalkIInv'
  OBVIOUS
<1> USE DEF WalkIInv
<1>1. /\ todo # <<>> /\ Head(todo).op = "bulk" /\ pc = "walk"
      /\ todo' = IF \A s \in Schemas : found[s] = 0 THEN Generic
                 ELSE Rest
      /\ UNCHANGED <<surface, pc, walk, found, stats, unavailable, uncounted, cut, missed>>
  BY DEF Bulk, At
<1>2. TablesPart(todo) /\ todo \in Seq(Tasks)
  BY <1>1, HeadFacts DEF WalkTypes
<1>3. \A s : ~Ahead("paged", s)
  BY <1>1, <1>2, TablesTail DEF Ahead
<1>4. walk = NoAnswer
  BY <1>1 DEF Asking
<1>5. missed' \in BOOLEAN /\ missed' = missed
  BY <1>1 DEF WalkTypes
<1>6. CASE \A s \in Schemas : found[s] = 0
  <2>1. ~ByCatalogue
    BY <1>6 DEF OwnersTold
  <2>2. todo' \in Seq(Tasks) /\ ToolsPart(todo')
    BY <1>1, <1>6, GenericBegins
  <2>3. ~missed => \A s \in Schemas : s <= found[Owners] /\ Whole(s) => Size(s) = 0
    BY <1>3, <1>6 DEF Complete
  <2>4. found' \in [Listings -> Nat] /\ (\A l \in Listings : found'[l] <= Size(l))
    BY <1>1 DEF WalkTypes
  <2> QED BY <1>1, <1>2, <1>3, <1>4, <1>5, <2>1, <2>2, <2>3, <2>4, ToolsNext
<1>7. CASE ~\A s \in Schemas : found[s] = 0
  BY <1>1, <1>2, <1>3, <1>4, <1>5, <1>7, CategoriesNext
<1> QED BY <1>6, <1>7

(* What holds tool by tool.                                                *)
LEMMA ToolsFacts ==
  ASSUME WalkIInv, todo # <<>>, Head(todo).op \in {"schemas", "list", "describe", "evidence"}
  PROVE  /\ ToolsPart(todo) /\ todo \in Seq(Tasks) /\ ~ByCatalogue /\ walk = NoAnswer
         /\ \A s \in Schemas : ~Ahead("paged", s)
         /\ ~missed => \A s \in Schemas : s <= found[Owners] /\ Whole(s) => Size(s) = 0
         /\ found \in [Listings -> Nat] /\ missed \in BOOLEAN
         /\ \A l \in Listings : found[l] <= Size(l) /\ Size(l) \in Nat
<1> USE DEF WalkIInv
<1>1. ToolsPart(todo) /\ todo \in Seq(Tasks)
  BY HeadFacts DEF WalkTypes
<1>2. \A s \in Schemas : ~Ahead("paged", s)
  BY <1>1, ToolsTail DEF Ahead, Late
<1> QED BY <1>1, <1>2 DEF Course, Asking, Complete, WalkTypes, SurfaceOK, Size

(* No list is longer than what is listed (_parse_names).                   *)
LEMMA ListedFacts ==
  ASSUME NEW l \in Listings, Size(l) \in Nat, NEW n \in Listed(l)
  PROVE  n \in 0..Size(l)
<1>1. Served(l) \in 0..Size(l)
  BY WalkAssumption, MinTwo DEF Served
<1> QED BY <1>1, WalkAssumption DEF Listed

(* The schemas by their tool.                                              *)
LEMMA ListSchemasStep == WalkIInv /\ ListSchemas => WalkIInv'
<1> SUFFICES ASSUME WalkIInv, ListSchemas PROVE WalkIInv'
  OBVIOUS
<1>1. todo # <<>> /\ Head(todo).op = "schemas" /\ pc = "walk"
  BY DEF ListSchemas, At
<1>2. UNCHANGED <<surface, pc, walk, found, stats, unavailable, uncounted, cut>>
  BY DEF ListSchemas
<1>3. PICK n \in Replies({0} \cup Listed(Owners)) :
        /\ LET scopes == IF n \in {0, NoAnswer} THEN <<1>> ELSE Ordered(n) IN
              todo' = Each("list", scopes) \o <<Task("evidence", NoAnswer)>>
        /\ Called(n) \/ (n = 0 /\ UNCHANGED <<calls, faults, missed>>)
  BY DEF ListSchemas
<1>4. missed' \in BOOLEAN /\ (missed => missed')
  <2>1. missed \in BOOLEAN
    BY <1>1, ToolsFacts
  <2>2. CASE Called(n)
    BY <1>3, <2>1, <2>2, ReplyFacts
  <2>3. CASE n = 0 /\ UNCHANGED <<calls, faults, missed>>
    BY <2>1, <2>3
  <2> QED BY <1>3, <2>2, <2>3
<1>5. todo' \in Seq(Tasks) /\ ToolsPart(todo')
  <2>1. n \in {0} \cup Listed(Owners) \cup {NoAnswer}
    BY <1>3 DEF Replies
  <2>2. Size(Owners) = NSchemas /\ NSchemas \in Nat \ {0} /\ Owners \in Listings
    BY WalkAssumption DEF WalkIInv, SurfaceOK, Listings
  <2>3. n \notin {0, NoAnswer} => n \in 1..NSchemas
    BY <2>1, <2>2, ListedFacts
  <2> QED BY <1>3, <2>3, ToolsBegin
<1> QED BY <1>1, <1>2, <1>4, <1>5, ToolsFacts, ToolsNext

(* A schema's tables by their tool.                                        *)
LEMMA ListTablesStep == WalkIInv /\ ListTables => WalkIInv'
<1> SUFFICES ASSUME WalkIInv, ListTables PROVE WalkIInv'
  OBVIOUS
<1>1. todo # <<>> /\ Head(todo).op = "list" /\ pc = "walk"
  BY DEF ListTables, At
<1>2. /\ UNCHANGED <<surface, pc, walk, stats, unavailable, uncounted>>
      /\ todo' = <<Task("describe", On)>> \o Tail(todo)
  BY DEF ListTables
<1>3. PICK n \in Replies(Listed(On)) :
        /\ found' = [found EXCEPT ![On] = IF n = NoAnswer THEN 0 ELSE n]
        /\ Called(n)
  BY DEF ListTables
<1>4. /\ ToolsPart(todo) /\ todo \in Seq(Tasks) /\ found \in [Listings -> Nat] /\ On \in Schemas
      /\ \A l \in Listings : found[l] <= Size(l) /\ Size(l) \in Nat
      /\ missed \in BOOLEAN /\ walk = NoAnswer /\ ~ByCatalogue
  BY <1>1, ToolsFacts, HeadFacts DEF WalkIInv
<1>5. n \in Listed(On) \cup {NoAnswer} /\ missed' \in BOOLEAN /\ (missed => missed')
  BY <1>3, <1>4, ReplyFacts
<1>6. On \in Listings /\ \A l \in Categories \cup {Owners} : l # On
  BY <1>4, NamesApart DEF Listings
<1>7. Fit \in Nat
  BY WalkAssumption
<1>8. n # NoAnswer => n \in Nat /\ n <= Size(On)
  BY <1>4, <1>5, <1>6, <1>7, ListedFacts
<1>9. /\ found' \in [Listings -> Nat] /\ \A l \in Listings : found'[l] <= Size(l)
      /\ \A l \in Categories \cup {Owners} : found'[l] = found[l]
  BY <1>3, <1>4, <1>6, <1>8 DEF Listings
<1>10. todo' \in Seq(Tasks) /\ ToolsPart(todo')
  <2>1. ToolsPart(todo')
    BY <1>1, <1>2, <1>4, ToolsTail DEF On
  <2>2. Task("describe", On) \in Tasks
    BY <1>6 DEF Task, Tasks
  <2> QED BY <1>1, <1>2, <1>4, <2>1, <2>2
<1> QED BY <1>1, <1>2, <1>4, <1>5, <1>9, <1>10, ToolsFacts, ToolsNext

(* The descriptions of a schema's tables.                                  *)
LEMMA DescribeStep == WalkIInv /\ Describe => WalkIInv'
<1> SUFFICES ASSUME WalkIInv, Describe PROVE WalkIInv'
  OBVIOUS
<1>1. todo # <<>> /\ Head(todo).op = "describe" /\ pc = "walk"
  BY DEF Describe, At
<1>2. /\ UNCHANGED <<surface, pc, walk, found, stats, unavailable, uncounted, cut>>
      /\ todo' = Tail(todo) /\ CalledTimes(found[On])
  BY DEF Describe
<1>3. missed' \in BOOLEAN /\ (missed => missed')
  BY <1>1, <1>2, ToolsFacts, BatchFacts
<1>4. todo' \in Seq(Tasks) /\ ToolsPart(todo')
  <2>1. ToolsPart(todo) /\ todo \in Seq(Tasks)
    BY <1>1, ToolsFacts
  <2>2. ToolsPart(Tail(todo))
    BY <1>1, <2>1, ToolsTail
  <2> QED BY <1>1, <1>2, <2>1, <2>2
<1> QED BY <1>1, <1>2, <1>3, <1>4, ToolsFacts, ToolsNext

(* Constraints and indexes, or an error when there is no table at all.     *)
LEMMA CatalogEvidenceStep == WalkIInv /\ CatalogEvidence => WalkIInv'
<1> SUFFICES ASSUME WalkIInv, CatalogEvidence PROVE WalkIInv'
  OBVIOUS
<1>1. todo # <<>> /\ Head(todo).op = "evidence" /\ pc = "walk"
  BY DEF CatalogEvidence, At
<1>2. UNCHANGED <<surface, walk, found, stats, unavailable, uncounted, cut>>
  BY DEF CatalogEvidence
<1>3. walk = NoAnswer /\ missed \in BOOLEAN
  BY <1>1, ToolsFacts
<1>4. CASE \A s \in Schemas : found[s] = 0
  <2>1. pc' = "failed" /\ UNCHANGED <<todo, missed>>
    BY <1>4 DEF CatalogEvidence
  <2>2. Asking' /\ walk' \in Walks \cup {NoAnswer}
    BY <1>2, <1>3 DEF Asking
  <2> QED BY <1>2, <1>3, <2>1, <2>2, QuietStep
<1>5. CASE ~\A s \in Schemas : found[s] = 0
  <2>1. /\ todo' = Rest /\ pc' = pc
        /\ CalledTimes(MapThenSumSet(LAMBDA s : found[s], Schemas))
    BY <1>5 DEF CatalogEvidence
  <2>2. missed' \in BOOLEAN /\ (missed => missed')
    BY <1>3, <2>1, BatchFacts
  <2> QED BY <1>1, <1>2, <1>3, <2>1, <2>2, ToolsFacts, CategoriesNext
<1> QED BY <1>4, <1>5

(* The category whose tool, or whose query in one reply, is due.           *)
LEMMA CategoryAtWork ==
  ASSUME WalkIInv, todo # <<>>, Head(todo).op \in {"adapter", "pack"}
  PROVE  On \in Categories /\ missed \in BOOLEAN /\ walk = NoAnswer /\ Size(On) \in Nat
<1>1. On \in Categories
  BY HeadFacts DEF WalkIInv
<1> QED BY <1>1 DEF WalkIInv, WalkTypes, Asking, SurfaceOK, Size, Listings

(* One task on a category is done, by its tool or by PostgreSQL's query.   *)
LEMMA CategoryDone ==
  ASSUME WalkIInv, todo # <<>>, Head(todo).op \in {"adapter", "pack"}, todo' = Tail(todo),
         UNCHANGED <<surface, pc, stats, uncounted>>, walk' = NoAnswer, pc = "walk",
         NEW n \in Nat, n <= Size(On), found' \in {found, [found EXCEPT ![On] = n]},
         \A c \in Categories \ {On} : \A how \in {"tool", "sql"} :
            <<c, how>> \in unavailable => <<c, how>> \in unavailable',
         cut \subseteq cut', missed' \in BOOLEAN, missed => missed',
         Head(todo).op = "pack" \/ ~Queried(On) =>
            \/ found'[On] = Size(On) \/ {<<On, "tool">>, <<On, "sql">>} \cap unavailable' # {}
            \/ (\E c \in Categories : c = On /\ Excused(c)')
  PROVE  WalkIInv'
<1> USE DEF WalkIInv
<1>1. CategoriesPart(todo) /\ On \in Categories /\ todo \in Seq(Tasks)
  BY HeadFacts DEF WalkTypes
<1>2. CategoriesPart(todo') /\ todo' \in Seq(Tasks)
  BY <1>1, CategoriesTail DEF On, Late
<1>3. /\ ~OwnersPart(todo') /\ ~TablesPart(todo') /\ ~ToolsPart(todo') /\ todo' # <<>>
      /\ ~OwnersPart(todo) /\ ~TablesPart(todo) /\ ~ToolsPart(todo)
  BY <1>1, <1>2, OnePart
<1>4. \A op, l : Ahead(op, l) <=> Head(todo) = Task(op, l) \/ Ahead(op, l)'
  BY <1>1, TailFacts DEF Ahead
<1>5. /\ On \in Listings /\ \A l \in Schemas \cup {Owners} : l # On
      /\ Categories \subseteq Listings /\ Schemas \subseteq Listings
  BY <1>1, NamesApart DEF Listings
<1>6. \A op, l : Head(todo) = Task(op, l) => op = Head(todo).op /\ l = On
  BY DEF Task, On
<1>7. Head(todo) = Task(Head(todo).op, On)
  <2>1. Head(todo) \in Tasks
    BY <1>1
  <2> QED BY <2>1 DEF Tasks, Task, On
<1>8. /\ found' \in [Listings -> Nat] /\ \A l \in Listings : found'[l] <= Size(l)
      /\ \A l \in Listings : l # On => found'[l] = found[l]
  BY <1>5 DEF WalkTypes
<1>9. stats[On] = NoAnswer
  <2>1. CASE Head(todo).op = "adapter"
    <3>1. Ahead("adapter", On)
      BY <1>4, <1>7, <2>1
    <3> QED BY <1>1, <3>1 DEF QueriesDue
  <2>2. CASE Head(todo).op = "pack"
    <3>1. Ahead("pack", On)
      BY <1>4, <1>7, <2>2
    <3>2. On \in Labels /\ ~Oracle
      BY <1>1, <3>1 DEF QueriesDue, Labels
    <3> QED BY <3>2 DEF Course
  <2> QED BY <2>1, <2>2
<1>10. SurfaceOK' /\ WalkTypes'
  BY <1>2, <1>8 DEF SurfaceOK, WalkTypes, Size
<1>11. Course'
  BY <1>2, <1>3 DEF Course, Oracle
<1>12. QueriesDue'
  <2>1. \A l : Head(todo) # Task("paged", l)
    BY <1>6
  <2>2. \A l : Ahead("paged", l)' <=> Ahead("paged", l)
    BY <1>4, <2>1
  <2>3. ASSUME NEW c \in Categories, Ahead("adapter", c)'
        PROVE Queried(c)' => Ahead("paged", c)' \/ Ahead("pack", c)'
    <3>1. Head(todo).op # "pack"
      BY <1>1, <2>3, CategoriesTail DEF Ahead
    <3>2. Ahead("adapter", c)
      BY <1>4, <2>3
    <3>3. Queried(c) => Ahead("paged", c) \/ Ahead("pack", c)
      BY <3>2 DEF QueriesDue
    <3>4. Head(todo) # Task("pack", c)
      BY <1>6, <3>1
    <3>5. Ahead("pack", c) => Ahead("pack", c)'
      BY <1>4, <3>4
    <3>6. Queried(c)' = Queried(c)
      BY DEF Queried
    <3> QED BY <2>2, <3>3, <3>5, <3>6
  <2>4. \A c \in Categories : (Ahead("pack", c)' => Ahead("pack", c)) /\ (Ahead("adapter", c)' => Ahead("adapter", c))
    BY <1>4
  <2>5. Oracle' = Oracle
    BY DEF Oracle
  <2>6. ASSUME NEW c \in Categories
        PROVE /\ Ahead("paged", c)' => Oracle'
              /\ Ahead("pack", c)' => ~Oracle'
              /\ Ahead("adapter", c)' => \A d \in Categories : stats'[d] = NoAnswer
    BY <2>2, <2>4, <2>5 DEF QueriesDue
  <2> QED BY <2>3, <2>6 DEF QueriesDue
<1>13. Asking'
  BY DEF Asking
<1>14. Summing'
  BY DEF Summing
<1>15. OwnersTold'
  <2>1. found'[Owners] = found[Owners] /\ \A s \in Schemas : found'[s] = found[s]
    BY <1>5, <1>8 DEF Listings
  <2> QED BY <2>1 DEF OwnersTold, Slack, ByCatalogue, Size
<1>16. SchemasTold'
  <2>1. found'[Owners] = found[Owners] /\ \A s \in Schemas : found'[s] = found[s]
    BY <1>5, <1>8 DEF Listings
  <2>2. \A s \in Schemas : Ahead("paged", s) <=> Ahead("paged", s)'
    BY <1>4, <1>6
  <2> QED BY <1>3, <2>1, <2>2 DEF SchemasTold, Slack, ByCatalogue, Size
<1>17. CategoriesTold'
  <2> SUFFICES ASSUME NEW c \in Categories, ~(\E op \in Late : Ahead(op, c)')
               PROVE (found[c] = Size(c) \/ Told(c) \/ Excused(c))'
    BY DEF CategoriesTold
  <2>1. Size(c)' = Size(c)
    BY DEF Size
  <2>2. CASE c # On
    <3>1. ~(\E op \in Late : Ahead(op, c))
      BY <1>4, <1>6, <2>2
    <3>2. found[c] = Size(c) \/ Told(c) \/ Excused(c)
      BY <1>1, <3>1 DEF CategoriesTold
    <3>a. Excused(c) => Excused(c)'
      BY DEF Excused, Queried
    <3>3. Told(c) => Told(c)'
      BY <1>5, <2>2 DEF Told, Shown
    <3>4. found'[c] = found[c]
      BY <1>5, <1>8, <2>2
    <3> QED BY <2>1, <3>2, <3>a, <3>3, <3>4
  <2>3. CASE c = On
    <3>1. ~(Ahead("paged", c)' \/ Ahead("pack", c)')
      BY DEF Late
    <3>2. Head(todo).op = "pack" \/ ~Queried(On)
      <4>1. ASSUME Head(todo).op = "adapter", Queried(On) PROVE FALSE
        <5>1. Ahead("adapter", c)
          BY <1>4, <1>7, <2>3, <4>1
        <5>2. Ahead("paged", c) \/ Ahead("pack", c)
          BY <1>1, <2>3, <4>1, <5>1 DEF QueriesDue
        <5>3. Head(todo) # Task("paged", c) /\ Head(todo) # Task("pack", c)
          BY <1>6, <4>1
        <5> QED BY <1>4, <3>1, <5>2, <5>3
      <4> QED BY <4>1
    <3>3. {<<On, "tool">>, <<On, "sql">>} \cap unavailable' # {} => Told(c)'
      BY <2>3 DEF Told
    <3> QED BY <2>1, <2>3, <3>2, <3>3
  <2> QED BY <2>2, <2>3
<1>18. Complete'
  <2>1. found'[Owners] = found[Owners] /\ \A s \in Schemas : found'[s] = found[s]
    BY <1>5, <1>8 DEF Listings
  <2>2. \A s \in Schemas : Ahead("paged", s) <=> Ahead("paged", s)'
    BY <1>4, <1>6
  <2>3. \A l \in Categories \cup {Owners} : stats[l] # NoAnswer => found'[l] = found[l]
    BY <1>5, <1>8, <1>9, <2>1
  <2> QED BY <1>3, <2>1, <2>2, <2>3 DEF Complete, Whole, Size
<1> QED BY <1>10, <1>11, <1>12, <1>13, <1>14, <1>15, <1>16, <1>17, <1>18

(* A category without a tool: nothing is asked, nothing is noted.          *)
LEMMA NoToolStep == WalkIInv /\ NoTool => WalkIInv'
<1> SUFFICES ASSUME WalkIInv, NoTool PROVE WalkIInv'
  OBVIOUS
<1>1. todo # <<>> /\ Head(todo).op = "adapter" /\ pc = "walk" /\ surface.tool[On] = "none"
  BY DEF NoTool, At
<1>2. UNCHANGED <<surface, pc, walk, found, stats, unavailable, uncounted, cut, missed>> /\ todo' = Tail(todo)
  BY DEF NoTool
<1>3. On \in Categories /\ missed \in BOOLEAN /\ walk = NoAnswer /\ Size(On) \in Nat
  BY <1>1, CategoryAtWork
<1>4. ~Queried(On) => (\E c \in Categories : c = On /\ Excused(c)')
  BY <1>1, <1>2, <1>3 DEF Excused, Queried
<1>5. 0 <= Size(On) /\ 0 \in Nat
  BY <1>3
<1> QED BY <1>1, <1>2, <1>3, <1>4, <1>5, CategoryDone

(* What a tool listed is the category's listing (_collect_category).       *)
LEMMA CollectedStep ==
  ASSUME WalkIInv, At("adapter"), NEW rows \in Nat, rows <= Size(On), Collected(rows),
         cut \subseteq cut', missed' \in BOOLEAN, missed => missed',
         rows = Size(On) \/ rows = 0 \/ <<On, "tool">> \in cut'
  PROVE  WalkIInv'
<1>1. todo # <<>> /\ Head(todo).op = "adapter" /\ pc = "walk"
  BY DEF At
<1>2. /\ UNCHANGED <<surface, pc, walk, stats, uncounted>> /\ todo' = Tail(todo)
      /\ found' = [found EXCEPT ![On] = rows]
      /\ unavailable' = IF rows = 0 THEN unavailable \cup {<<On, "tool">>} ELSE unavailable
  BY DEF Collected
<1>3. On \in Categories /\ walk = NoAnswer
  BY <1>1, CategoryAtWork
<1>4. found'[On] = rows
  BY <1>2, <1>3 DEF WalkIInv, WalkTypes, Listings
<1>5. ~Queried(On) /\ <<On, "tool">> \in cut' => (\E c \in Categories : c = On /\ Excused(c)')
  BY <1>2, <1>3 DEF Excused, Queried
<1>6. \A c \in Categories \ {On} : \A how \in {"tool", "sql"} :
        <<c, how>> \in unavailable => <<c, how>> \in unavailable'
  BY <1>2
<1>7. rows = 0 => {<<On, "tool">>, <<On, "sql">>} \cap unavailable' # {}
  BY <1>2
<1>8. found' \in {found, [found EXCEPT ![On] = rows]}
  BY <1>2
<1> QED BY <1>1, <1>2, <1>3, <1>4, <1>5, <1>6, <1>7, <1>8, CategoryDone

(* A category by a tool whose reply is the listing.                        *)
LEMMA DirectListStep == WalkIInv /\ DirectList => WalkIInv'
<1> SUFFICES ASSUME WalkIInv, DirectList PROVE WalkIInv'
  OBVIOUS
<1>1. At("adapter")
  BY DEF DirectList
<1>2. PICK n \in Replies({IF Served(On) > Fit THEN 0 ELSE Served(On)}) :
        /\ Collected(IF n = NoAnswer THEN 0 ELSE n)
        /\ cut' = IF Served(On) < Size(On) THEN cut \cup {<<On, "tool">>} ELSE cut
        /\ Called(n)
  BY DEF DirectList
<1>3. On \in Categories /\ missed \in BOOLEAN /\ Size(On) \in Nat
  BY <1>1, CategoryAtWork DEF At
<1>4. /\ n \in {IF Served(On) > Fit THEN 0 ELSE Served(On)} \cup {NoAnswer}
      /\ missed' \in BOOLEAN /\ (missed => missed')
  BY <1>2, <1>3, ReplyFacts
<1>5. Served(On) \in 0..Size(On)
  BY <1>3, WalkAssumption, MinTwo DEF Served
<1> DEFINE rows == IF n = NoAnswer THEN 0 ELSE n
<1>6. rows \in Nat /\ rows <= Size(On)
  BY <1>3, <1>4, <1>5
<1>7. rows = Size(On) \/ rows = 0 \/ <<On, "tool">> \in cut'
  BY <1>2, <1>3, <1>4, <1>5
<1>8. Collected(rows) /\ cut \subseteq cut'
  BY <1>2
<1> HIDE DEF rows
<1> QED BY <1>1, <1>4, <1>6, <1>7, <1>8, CollectedStep

(* A category by a tool that puts its listing together.                    *)
LEMMA ComposedListStep == WalkIInv /\ ComposedList => WalkIInv'
<1> SUFFICES ASSUME WalkIInv, ComposedList PROVE WalkIInv'
  OBVIOUS
<1>1. At("adapter")
  BY DEF ComposedList
<1>2. On \in Categories /\ missed \in BOOLEAN /\ Size(On) \in Nat
  BY <1>1, CategoryAtWork DEF At
<1>3. CASE calls = Budget /\ Collected(0) /\ Called(NoAnswer) /\ UNCHANGED cut
  <2>1. missed' = TRUE
    BY <1>2, <1>3 DEF Called
  <2> QED BY <1>1, <1>2, <1>3, <2>1, CollectedStep
<1>4. CASE calls < Budget /\
           \E failing \in BOOLEAN, n \in 0..Size(On) :
              /\ failing => faults < MaxFaults
              /\ InFull /\ ~failing => n = Size(On)
              /\ Collected(n)
              /\ cut' = IF InFull /\ ~failing THEN cut ELSE cut \cup {<<On, "tool">>}
              /\ Called(IF failing THEN NoAnswer ELSE n)
  <2>1. PICK failing \in BOOLEAN, n \in 0..Size(On) :
              /\ InFull /\ ~failing => n = Size(On)
              /\ Collected(n)
              /\ cut' = IF InFull /\ ~failing THEN cut ELSE cut \cup {<<On, "tool">>}
              /\ Called(IF failing THEN NoAnswer ELSE n)
    BY <1>4
  <2>2. missed' \in BOOLEAN /\ (missed => missed') /\ cut \subseteq cut'
    BY <1>2, <2>1 DEF Called
  <2>3. n \in Nat /\ n <= Size(On)
    BY <1>2
  <2>4. n = Size(On) \/ <<On, "tool">> \in cut'
    BY <2>1
  <2>5. Collected(n)
    BY <2>1
  <2> QED BY <1>1, <2>2, <2>3, <2>4, <2>5, CollectedStep
<1> QED BY <1>3, <1>4 DEF ComposedList

(* A category by PostgreSQL's pack.                                        *)
LEMMA PackStep == WalkIInv /\ Pack => WalkIInv'
<1> SUFFICES ASSUME WalkIInv, Pack PROVE WalkIInv'
  OBVIOUS
<1>1. todo # <<>> /\ Head(todo).op = "pack" /\ pc = "walk"
  BY DEF Pack, At
<1>2. UNCHANGED <<surface, pc, walk, stats, uncounted>> /\ todo' = Tail(todo)
  BY DEF Pack
<1>3. PICK n \in Replies(IF Size(On) > Fit THEN 0..Fit ELSE {Size(On)}) :
          /\ IF PackAnswers(On, n)
             THEN /\ found' = [found EXCEPT ![On] = IF n = NoAnswer THEN 0 ELSE n]
                  /\ unavailable' = unavailable \ {<<On, "tool">>}
             ELSE unavailable' = unavailable \cup {<<On, "sql">>} /\ UNCHANGED found
          /\ cut' = IF n # NoAnswer /\ Size(On) > Fit THEN cut \cup {<<On, "sql">>} ELSE cut
          /\ Called(n)
  BY DEF Pack
<1>4. On \in Categories /\ missed \in BOOLEAN /\ walk = NoAnswer /\ Size(On) \in Nat /\ Fit \in Nat
  BY <1>1, CategoryAtWork, WalkAssumption
<1>5. n \in (IF Size(On) > Fit THEN 0..Fit ELSE {Size(On)}) \cup {NoAnswer} /\ missed' \in BOOLEAN /\ (missed => missed')
  BY <1>3, <1>4, ReplyFacts
<1>6. cut \subseteq cut'
  BY <1>3
<1>7. \A c \in Categories \ {On} : \A how \in {"tool", "sql"} :
        <<c, how>> \in unavailable => <<c, how>> \in unavailable'
  BY <1>3
<1>8. CASE n = NoAnswer
  <2>1. <<On, "sql">> \in unavailable' /\ found' \in {found, [found EXCEPT ![On] = 0]}
    BY <1>3, <1>8 DEF PackAnswers
  <2>2. 0 \in Nat /\ 0 <= Size(On)
    BY <1>4
  <2>3. {<<On, "tool">>, <<On, "sql">>} \cap unavailable' # {}
    BY <2>1
  <2> QED BY <1>1, <1>2, <1>4, <1>5, <1>6, <1>7, <2>1, <2>2, <2>3, CategoryDone
<1>9. CASE n # NoAnswer
  <2>1. found' = [found EXCEPT ![On] = n]
    BY <1>3, <1>9 DEF PackAnswers
  <2>2. n \in Nat /\ n <= Size(On)
    BY <1>4, <1>5, <1>9
  <2>3. found'[On] = Size(On) \/ (\E c \in Categories : c = On /\ Excused(c)')
    <3>1. found'[On] = n
      BY <1>4, <2>1 DEF WalkIInv, WalkTypes, Listings
    <3>2. n = Size(On) \/ <<On, "sql">> \in cut'
      BY <1>3, <1>4, <1>5, <1>9
    <3> QED BY <1>4, <3>1, <3>2 DEF Excused
  <2>4. found' \in {found, [found EXCEPT ![On] = n]}
    BY <2>1
  <2> QED BY <1>1, <1>2, <1>4, <1>5, <1>6, <1>7, <2>2, <2>3, <2>4, CategoryDone
<1> QED BY <1>8, <1>9

(* What the statistics gain by a query.                                    *)
Had(stat) == IF stat = NoAnswer THEN 0 ELSE stat.fetched
Awaited(stat) == IF stat = NoAnswer \/ stat.expected = NoAnswer THEN 0 ELSE stat.expected

(* Sums of statistics, with the counts that were not answered left out.    *)
LEMMA SummedFacts ==
  ASSUME NEW stat \in Stat \cup {NoAnswer}, NEW w \in Walks
  PROVE  /\ Summed(stat, w) \in Stat /\ Summed(stat, w) # NoAnswer
         /\ Had(stat) \in Nat /\ Awaited(stat) \in Nat
         /\ Summed(stat, w).fetched = Had(stat) + w.got
         /\ w.expected # NoAnswer => /\ Summed(stat, w).expected = Awaited(stat) + w.expected
                                     /\ w.expected \in Nat
<1>1. w.expected \in Nat \cup {NoAnswer} /\ w.got \in Nat /\ w.chopped \in Nat
  BY DEF Walks
<1>2. CASE stat = NoAnswer
  <2>1. Summed(stat, w) = [expected |-> w.expected, fetched |-> w.got, chopped |-> w.chopped]
    BY <1>2 DEF Summed
  <2>2. Summed(stat, w) \in Stat
    BY <1>1, <2>1 DEF Stat
  <2> QED BY <1>1, <1>2, <2>1, <2>2, NamesApart DEF Had, Awaited
<1>3. CASE stat # NoAnswer
  <2>1. stat.expected \in Nat \cup {NoAnswer} /\ stat.fetched \in Nat /\ stat.chopped \in Nat
    BY <1>3 DEF Stat
  <2> DEFINE e == IF w.expected = NoAnswer THEN stat.expected
                  ELSE w.expected + (IF stat.expected = NoAnswer THEN 0 ELSE stat.expected)
  <2>2. Summed(stat, w) = [expected |-> e, fetched |-> stat.fetched + w.got,
                           chopped |-> stat.chopped + w.chopped]
    BY <1>3 DEF Summed
  <2>3. e \in Nat \cup {NoAnswer} /\ (w.expected # NoAnswer => e = Awaited(stat) + w.expected /\ w.expected \in Nat)
    BY <1>1, <1>3, <2>1 DEF Awaited
  <2>4. Had(stat) = stat.fetched /\ Awaited(stat) \in Nat
    BY <1>3, <2>1 DEF Had, Awaited
  <2> HIDE DEF e
  <2>5. Summed(stat, w) \in Stat
    BY <1>1, <2>1, <2>2, <2>3 DEF Stat
  <2> QED BY <2>1, <2>2, <2>3, <2>4, <2>5, NamesApart
<1> QED BY <1>2, <1>3

(* A window brings rows of the listing; all that it asked for, if no row   *)
(* is too large and the reply is not chopped, or cannot be asked again.    *)
LEMMA WindowFacts ==
  ASSUME WalkIInv, todo # <<>>, Head(todo).op = "paged", walk # NoAnswer, NEW p \in Pages
  PROVE  /\ p.rows \in Nat /\ walk.got + p.rows <= Size(On)
         /\ surface.wide[On] = 0 /\ ~Refetched(p) /\ p # NoAnswer =>
              p.rows = walk.rows \/ walk.got + p.rows = Size(On)
<1>1. On \in Listings /\ walk \in Walks
  BY HeadFacts DEF WalkIInv, WalkTypes, Listings
<1>2. /\ walk.rows \in Nat \ {0} /\ walk.got \in Nat /\ walk.got <= Size(On)
      /\ Size(On) \in Nat /\ surface.wide[On] \in Nat /\ Fit \in Nat \ {0}
  BY <1>1, WalkAssumption DEF WalkIInv, Walks, Asking, SurfaceOK, Size
<1>3. Window = IF walk.rows <= Size(On) - walk.got THEN walk.rows ELSE Size(On) - walk.got
  BY <1>2, MinTwo DEF Window
<1> DEFINE chop == Oversized \/ Window > Fit
<1>4. PICK n \in {Readable} \cup (IF Oversized /\ walk.rows = 1 THEN {1} ELSE {}) :
        p = [rows |-> n, chop |-> chop]
  BY DEF Pages
<1>5. p.rows = n /\ p.chop = chop
  BY <1>4
<1>6. Oversized <=> surface.wide[On] > walk.got /\ surface.wide[On] <= walk.got + Window
  BY DEF Oversized
<1>7. Readable = IF Oversized THEN surface.wide[On] - 1 - walk.got
                 ELSE IF Fit <= Window THEN Fit ELSE Window
  BY <1>2, <1>3, MinTwo DEF Readable
<1>8. n \in Nat /\ walk.got + n <= Size(On)
  <2>1. Window \in Nat /\ walk.got + Window <= Size(On) /\ Window <= walk.rows
    BY <1>2, <1>3
  <2>2. CASE n = Readable /\ Oversized
    BY <1>2, <1>6, <1>7, <2>1, <2>2
  <2>3. CASE n = Readable /\ ~Oversized
    BY <1>2, <1>7, <2>1, <2>3
  <2>4. CASE n = 1 /\ Oversized
    BY <1>2, <1>6, <2>1, <2>4
  <2> QED BY <1>4, <2>2, <2>3, <2>4
<1>9. ASSUME surface.wide[On] = 0, ~(p.chop /\ walk.rows > 1)
      PROVE n = walk.rows \/ walk.got + n = Size(On)
  <2>1. ~Oversized /\ n = Readable
    BY <1>2, <1>4, <1>6, <1>9
  <2>2. ~(Window > Fit) \/ walk.rows = 1
    <3>1. Window > Fit => p.chop
      BY <1>5
    <3>2. walk.rows > 1 \/ walk.rows = 1
      BY <1>2
    <3> QED BY <1>9, <3>1, <3>2, Zenon
  <2> QED BY <1>2, <1>3, <1>7, <2>1, <2>2
<1> QED BY <1>5, <1>8, <1>9 DEF Refetched

(* A query is over.                                                        *)
SettledAs(w, answered) ==
  /\ pc = "walk" /\ todo # <<>> /\ Head(todo).op = "paged" /\ walk # NoAnswer
  /\ Settled(w, answered) /\ w \in Walks
  /\ w.expected \in {NoAnswer, Size(On)} /\ w.got <= Size(On)
  /\ w.expected = NoAnswer => Label(On) \in uncounted
  /\ UNCHANGED <<surface, pc, uncounted, cut>>
  /\ missed' \in BOOLEAN /\ answered \in BOOLEAN /\ (missed => missed')
  /\ ~missed' => answered
  /\ ~missed' /\ Whole(On) => w.got = Size(On)

(* The statistics afterwards.                                              *)
LEMMA SettledStats ==
  ASSUME WalkIInv, NEW w, NEW answered, SettledAs(w, answered)
  PROVE  /\ stats' \in [Labels -> Stat \cup {NoAnswer}] /\ Label(On) \in Labels
         /\ \A q \in Labels \ {Label(On)} : stats'[q] = stats[q]
         /\ stats'[Label(On)] # NoAnswer
         /\ stats'[Label(On)].fetched = Had(stats[Label(On)]) + w.got
         /\ Label(On) \notin uncounted =>
              stats'[Label(On)].expected = Awaited(stats[Label(On)]) + Size(On)
         /\ Had(stats[Label(On)]) \in Nat /\ Awaited(stats[Label(On)]) \in Nat
         /\ Label(On) \notin uncounted => Had(stats[Label(On)]) <= Awaited(stats[Label(On)])
         /\ On \in Listings /\ Size(On) \in Nat /\ w.got \in Nat
         /\ Summing'
<1>1. On \in Listings
  BY HeadFacts DEF WalkIInv, SettledAs, Listings
<1>2. Size(On) \in Nat /\ w.got \in Nat
  BY <1>1 DEF WalkIInv, SurfaceOK, Size, SettledAs, Walks
<1> DEFINE q == Label(On)
           stat == stats[q]
<1>3. q \in Labels /\ stats \in [Labels -> Stat \cup {NoAnswer}]
  BY <1>1 DEF Label, Labels, Listings, WalkIInv, WalkTypes
<1>4. stats' = [stats EXCEPT ![q] = Summed(stats[q], w)]
  BY DEF SettledAs, Settled
<1>5. stat \in Stat \cup {NoAnswer} /\ w \in Walks
  BY <1>3 DEF SettledAs
<1>6. /\ Summed(stat, w) \in Stat /\ Summed(stat, w) # NoAnswer
      /\ Had(stat) \in Nat /\ Awaited(stat) \in Nat
      /\ Summed(stat, w).fetched = Had(stat) + w.got
      /\ w.expected # NoAnswer => /\ Summed(stat, w).expected = Awaited(stat) + w.expected
                                  /\ w.expected \in Nat
  BY <1>5, SummedFacts
<1>7. q \notin uncounted => w.expected # NoAnswer /\ w.expected = Size(On)
  BY DEF SettledAs
<1>8. q \notin uncounted => Had(stat) <= Awaited(stat)
  <2>1. q \notin uncounted /\ stat # NoAnswer => stat.expected \in Nat /\ stat.fetched <= stat.expected
    BY <1>3 DEF WalkIInv, Summing
  <2> QED BY <2>1, NamesApart DEF Had, Awaited
<1>9. /\ stats' \in [Labels -> Stat \cup {NoAnswer}] /\ stats'[q] = Summed(stat, w)
      /\ \A r \in Labels \ {q} : stats'[r] = stats[r]
  BY <1>3, <1>4, <1>6
<1>10. w.got <= Size(On) /\ uncounted' = uncounted
  BY DEF SettledAs
<1> HIDE DEF q, stat
<1>11. Summing'
  <2>1. ASSUME q \notin uncounted
        PROVE stats'[q].expected \in Nat /\ stats'[q].fetched <= stats'[q].expected
    BY <1>2, <1>6, <1>7, <1>8, <1>9, <1>10, <2>1
  <2>2. ASSUME NEW r \in Labels \ uncounted, r # q, stats'[r] # NoAnswer
        PROVE stats'[r].expected \in Nat /\ stats'[r].fetched <= stats'[r].expected
    BY <1>9, <2>2 DEF WalkIInv, Summing
  <2> QED BY <1>3, <1>10, <2>1, <2>2 DEF Summing
<1> QED BY <1>1, <1>2, <1>3, <1>6, <1>7, <1>8, <1>9, <1>11 DEF q, stat

(* A gap of the listing is a gap of the statistics.                        *)
LEMMA SettledSlack ==
  ASSUME WalkIInv, NEW w, NEW answered, SettledAs(w, answered)
  PROVE  Label(On) \notin uncounted =>
           /\ stats'[Label(On)].expected \in Nat /\ stats'[Label(On)].fetched \in Nat
           /\ Size(On) + stats'[Label(On)].fetched <= w.got + stats'[Label(On)].expected
           /\ w.got # Size(On) => stats'[Label(On)].fetched < stats'[Label(On)].expected
<1>1. w.got <= Size(On)
  BY DEF SettledAs
<1> QED BY <1>1, SettledStats

(* The owners' query is over: one query for each schema, or the tools.     *)
LEMMA SettledOwners ==
  ASSUME WalkIInv, NEW w, NEW answered, SettledAs(w, answered), OwnersPart(todo), On = Owners
  PROVE  WalkIInv'
<1> USE DEF WalkIInv
<1>1. /\ walk' = NoAnswer /\ found' = [found EXCEPT ![Owners] = w.got]
      /\ todo' = IF w.got = 0 THEN Generic
                 ELSE Each("paged", Ordered(w.got)) \o <<Task("bulk", NoAnswer)>>
      /\ UNCHANGED <<surface, pc, unavailable, uncounted, cut>>
      /\ pc = "walk" /\ missed' \in BOOLEAN /\ (missed => missed')
      /\ ~missed' /\ Whole(Owners) => w.got = Size(Owners)
  BY DEF SettledAs, Settled
<1>2. Label(On) = Owners /\ Owners \in Listings /\ Owners \in Labels /\ Columns \in Labels /\ Columns # Owners
  BY NamesApart DEF Label, Listings, Labels
<1>3. /\ stats' \in [Labels -> Stat \cup {NoAnswer}] /\ stats'[Owners] # NoAnswer
      /\ \A q \in Labels \ {Owners} : stats'[q] = NoAnswer
      /\ w.got \in Nat /\ w.got <= Size(Owners) /\ Size(Owners) = NSchemas /\ Summing'
      /\ Owners \notin uncounted =>
           Size(Owners) + stats'[Owners].fetched <= w.got + stats'[Owners].expected
  <2>1. \A q \in Labels : stats[q] = NoAnswer
    BY DEF Course
  <2>2. w.got <= Size(Owners)
    BY DEF SettledAs
  <2> QED BY <1>2, <2>1, <2>2, SettledStats, SettledSlack DEF SurfaceOK
<1>4. /\ todo \in Seq(Tasks) /\ Oracle
      /\ \A l \in Schemas \cup {Owners} : found[l] = 0
  BY DEF WalkTypes, Course
<1>5. /\ \A s \in Schemas : s \in Listings /\ s # Owners
      /\ \A c \in Categories : c \in Listings /\ c \in Labels /\ c # Owners /\ c # Columns
  BY NamesApart DEF Listings, Labels
<1>6. /\ found' \in [Listings -> Nat] /\ \A l \in Listings : found'[l] <= Size(l)
      /\ found'[Owners] = w.got /\ \A s \in Schemas : found'[s] = 0
      /\ \A c \in Categories : stats'[c] = NoAnswer
  BY <1>1, <1>2, <1>3, <1>4, <1>5 DEF WalkTypes
<1>7. stats'[Columns] = NoAnswer /\ ~ByCatalogue'
  BY <1>2, <1>3 DEF ByCatalogue
<1>8. /\ todo' \in Seq(Tasks) /\ todo' # <<>> /\ ~OwnersPart(todo') /\ ~CategoriesPart(todo')
      /\ w.got = 0 => ToolsPart(todo') /\ ~TablesPart(todo') /\ \A op \in Late : \A l : ~Ahead(op, l)'
      /\ w.got # 0 => TablesPart(todo') /\ ~ToolsPart(todo')
      /\ \A s \in Schemas : s <= w.got => Ahead("paged", s)'
      /\ \A c \in Categories : \A op \in Late : ~Ahead(op, c)'
  <2>1. CASE w.got = 0
    <3>1. todo' \in Seq(Tasks) /\ ToolsPart(todo')
      BY <1>1, <2>1, GenericBegins
    <3>2. \A op \in Late : \A l : ~Ahead(op, l)'
      BY <3>1, ToolsTail DEF Ahead
    <3>3. \A s \in Schemas : ~(s <= w.got)
      BY <2>1, WalkAssumption DEF Schemas
    <3> QED BY <2>1, <3>1, <3>2, <3>3, OnePart
  <2>2. CASE w.got # 0
    <3>1. w.got \in 1..NSchemas
      BY <1>3, <2>2, WalkAssumption
    <3>2. /\ todo' \in Seq(Tasks) /\ TablesPart(todo')
          /\ \A l : Ahead("paged", l)' <=> l \in 1..w.got
      BY <1>1, <2>2, <3>1, TablesBegin DEF Ahead
    <3>3. \A s \in Schemas : s <= w.got => s \in 1..w.got
      BY <3>1, WalkAssumption DEF Schemas
    <3>4. \A c \in Categories : \A op \in Late : ~Ahead(op, c)'
      <4> SUFFICES ASSUME NEW c \in Categories, NEW op \in Late, Ahead(op, c)' PROVE FALSE
        OBVIOUS
      <4>1. PICK i \in DOMAIN todo' : todo'[i] = Task(op, c)
        BY DEF Ahead, Queued
      <4>2. todo'[i].op = op /\ todo'[i].on = c
        BY <4>1 DEF Task
      <4>3. i \in 1..(Len(todo') - 1) \/ i = Len(todo')
        BY <3>2
      <4> QED BY <3>2, <4>2, <4>3, NamesApart DEF TablesPart, Late
    <3> QED BY <2>2, <3>2, <3>3, <3>4, OnePart
  <2> QED BY <2>1, <2>2
<1>9. SurfaceOK' /\ WalkTypes'
  BY <1>1, <1>3, <1>6, <1>8 DEF SurfaceOK, WalkTypes, Size
<1>10. Course'
  BY <1>1, <1>3, <1>4, <1>6, <1>7, <1>8 DEF Course, Oracle
<1>11. QueriesDue'
  BY <1>8 DEF QueriesDue, Late
<1>12. Asking'
  BY <1>1 DEF Asking
<1>13. OwnersTold'
  BY <1>1, <1>3, <1>6, <1>7 DEF OwnersTold, Slack, Size
<1>14. SchemasTold'
  BY <1>6, <1>7, <1>8 DEF SchemasTold
<1>15. CategoriesTold'
  BY <1>8 DEF CategoriesTold
<1>16. Complete'
  <2>1. ~missed' /\ Whole(Owners) => found'[Owners] = Size(Owners)
    BY <1>1, <1>6
  <2>2. \A s \in Schemas : s <= found'[Owners] => Ahead("paged", s)' /\ ~ToolsPart(todo')
    BY <1>6, <1>8, <1>3, WalkAssumption DEF Schemas
  <2>3. Whole(Owners)' = Whole(Owners) /\ Size(Owners)' = Size(Owners)
    BY <1>1 DEF Whole, Size
  <2> QED BY <1>6, <2>1, <2>2, <2>3 DEF Complete
<1> QED BY <1>3, <1>9, <1>10, <1>11, <1>12, <1>13, <1>14, <1>15, <1>16

(* A schema's query is over.                                               *)
LEMMA SettledSchema ==
  ASSUME WalkIInv, NEW w, NEW answered, SettledAs(w, answered), TablesPart(todo), On \in Schemas
  PROVE  WalkIInv'
<1> USE DEF WalkIInv
<1>1. On # Owners /\ On \notin Categories /\ Owners \in Listings /\ On \in Listings
  BY NamesApart DEF Listings
<1>2. /\ walk' = NoAnswer /\ found' = [found EXCEPT ![On] = w.got] /\ todo' = Tail(todo)
      /\ unavailable' = unavailable \ {<<On, "tool">>}
      /\ UNCHANGED <<surface, pc, uncounted, cut>>
      /\ pc = "walk" /\ missed' \in BOOLEAN /\ (missed => missed')
      /\ ~missed' /\ Whole(On) => w.got = Size(On)
      /\ w.got <= Size(On) /\ todo # <<>> /\ Head(todo).op = "paged"
  BY <1>1 DEF SettledAs, Settled
<1>3. Label(On) = Columns /\ Columns \in Labels /\ Owners \in Labels /\ Columns # Owners
  BY NamesApart DEF Label, Labels
<1>4. /\ stats' \in [Labels -> Stat \cup {NoAnswer}] /\ stats'[Columns] # NoAnswer
      /\ \A q \in Labels \ {Columns} : stats'[q] = stats[q]
      /\ w.got \in Nat /\ Size(On) \in Nat /\ Summing'
      /\ stats'[Columns].fetched = Had(stats[Columns]) + w.got
      /\ Columns \notin uncounted =>
           /\ stats'[Columns].expected = Awaited(stats[Columns]) + Size(On)
           /\ Size(On) + stats'[Columns].fetched <= w.got + stats'[Columns].expected
      /\ Had(stats[Columns]) \in Nat /\ Awaited(stats[Columns]) \in Nat
  BY <1>3, SettledStats, SettledSlack
<1>5. /\ todo \in Seq(Tasks) /\ Oracle /\ stats[Owners] # NoAnswer
      /\ \A s \in Schemas : Ahead("paged", s) => found[s] = 0
      /\ \A c \in Categories : stats[c] = NoAnswer
  BY DEF WalkTypes, Course
<1>6. /\ TablesPart(todo') /\ todo' \in Seq(Tasks) /\ ~Ahead("paged", On) = FALSE
      /\ ~Queued(todo', "paged", On)
  BY <1>2, <1>5, TablesTail, TailFacts DEF On, Ahead
<1>7. \A op, l : Ahead(op, l) <=> Head(todo) = Task(op, l) \/ Ahead(op, l)'
  BY <1>2, <1>5, TailFacts DEF Ahead
<1>8. \A op, l : Head(todo) = Task(op, l) => op = "paged" /\ l = On
  BY <1>2 DEF Task, On
<1>9. /\ ~OwnersPart(todo') /\ ~CategoriesPart(todo') /\ ~ToolsPart(todo') /\ todo' # <<>>
      /\ ~OwnersPart(todo) /\ ~CategoriesPart(todo) /\ ~ToolsPart(todo)
  BY <1>5, <1>6, OnePart
<1>10. /\ \A s \in Schemas : s \in Listings /\ s # Owners
       /\ \A c \in Categories : c \in Listings /\ c \in Labels /\ c # Owners /\ c # Columns /\ c # On
  BY <1>1, NamesApart DEF Listings, Labels
<1>11. /\ found' \in [Listings -> Nat] /\ \A l \in Listings : found'[l] <= Size(l)
       /\ found'[On] = w.got /\ \A l \in Listings : l # On => found'[l] = found[l]
       /\ \A c \in Categories : stats'[c] = NoAnswer
       /\ stats'[Owners] = stats[Owners] /\ found'[Owners] = found[Owners]
  BY <1>1, <1>2, <1>3, <1>4, <1>5, <1>10 DEF WalkTypes
<1>12. SurfaceOK' /\ WalkTypes'
  BY <1>2, <1>4, <1>6, <1>11 DEF SurfaceOK, WalkTypes, Size
<1>13. Course'
  <2>1. \A s \in Schemas : Ahead("paged", s)' => found'[s] = 0
    <3> SUFFICES ASSUME NEW s \in Schemas, Ahead("paged", s)' PROVE found'[s] = 0
      OBVIOUS
    <3>1. s # On
      BY <1>6 DEF Ahead
    <3> QED BY <1>5, <1>7, <1>10, <1>11, <3>1
  <2> QED BY <1>2, <1>5, <1>6, <1>9, <1>11, <2>1 DEF Course, Oracle
<1>14. QueriesDue'
  <2>1. \A c \in Categories : \A op \in Late : Ahead(op, c)' <=> Ahead(op, c)
    BY <1>7, <1>8, <1>10
  <2>2. Oracle' = Oracle /\ \A c : Queried(c)' = Queried(c)
    BY <1>2 DEF Oracle, Queried
  <2> QED BY <1>11, <2>1, <2>2 DEF QueriesDue, Late
<1>15. Asking'
  BY <1>2 DEF Asking
<1>16. OwnersTold'
  <2>1. ByCatalogue' => \E s \in Schemas : found'[s] > 0
    <3> SUFFICES ASSUME ByCatalogue', w.got = 0 PROVE \E s \in Schemas : found'[s] > 0
      BY <1>4, <1>11
    <3>1. Had(stats[Columns]) > 0
      BY <1>4 DEF ByCatalogue
    <3>2. ByCatalogue
      BY <3>1 DEF ByCatalogue, Had
    <3>3. PICK s \in Schemas : found[s] > 0
      BY <3>2 DEF OwnersTold
    <3>4. s # On
      BY <1>5, <1>6, <3>3
    <3> QED BY <1>10, <1>11, <3>3, <3>4
  <2> QED BY <1>2, <1>5, <1>11, <2>1 DEF OwnersTold, Slack, Size
<1>17. SchemasTold'
  <2> SUFFICES ASSUME NEW s \in Schemas, s <= found[Owners], ~Ahead("paged", s)', Columns \notin uncounted
               PROVE Slack(Columns, s)'
    BY <1>2, <1>11 DEF SchemasTold
  <2>1. CASE s = On
    BY <1>2, <1>4, <1>11, <2>1 DEF Slack, Size
  <2>2. CASE s # On
    <3>1. ~Ahead("paged", s)
      BY <1>7, <1>8, <2>2
    <3>2. Slack(Columns, s)
      BY <3>1 DEF SchemasTold
    <3>3. stats[Columns] # NoAnswer /\ stats[Columns].expected \in Nat /\ stats[Columns].fetched \in Nat
      BY <1>3, <3>2 DEF Slack, Summing, WalkTypes, Stat
    <3>4. Had(stats[Columns]) = stats[Columns].fetched /\ Awaited(stats[Columns]) = stats[Columns].expected
      BY <3>3, NamesApart DEF Had, Awaited
    <3>5. found'[s] = found[s] /\ found[s] \in Nat /\ Size(s) \in Nat /\ Size(s)' = Size(s)
      BY <1>2, <1>10, <1>11, <2>2 DEF WalkTypes, SurfaceOK, Size
    <3>6. /\ stats'[Columns].fetched = stats[Columns].fetched + w.got
          /\ stats'[Columns].expected = stats[Columns].expected + Size(On)
      BY <1>4, <3>4
    <3>7. Size(s) + stats[Columns].fetched <= found[s] + stats[Columns].expected
      BY <3>2 DEF Slack
    <3>8. Size(s) + stats'[Columns].fetched <= found'[s] + stats'[Columns].expected
      <4>1. w.got \in Nat /\ Size(On) \in Nat /\ w.got <= Size(On)
        BY <1>2, <1>4
      <4> QED BY <3>3, <3>5, <3>6, <3>7, <4>1
    <3> QED BY <1>4, <3>5, <3>8 DEF Slack
  <2> QED BY <2>1, <2>2
<1>18. CategoriesTold'
  BY <1>9 DEF CategoriesTold
<1>19. Complete'
  <2>1. ASSUME NEW s \in Schemas, ~missed', s <= found[Owners], Whole(s), ~Ahead("paged", s)'
        PROVE found'[s] = Size(s)
    <3>1. CASE s = On
      BY <1>2, <1>11, <2>1, <3>1
    <3>2. CASE s # On
      <4>1. ~Ahead("paged", s)
        BY <1>7, <1>8, <2>1, <3>2
      <4> QED BY <1>2, <1>10, <1>11, <2>1, <3>2, <4>1 DEF Complete
    <3> QED BY <3>1, <3>2
  <2>2. \A l : (Whole(l)' <=> Whole(l)) /\ Size(l)' = Size(l)
    BY <1>2 DEF Whole, Size
  <2>3. \A l \in Categories \cup {Owners} : stats'[l] = stats[l] /\ found'[l] = found[l]
    BY <1>5, <1>1, <1>10, <1>11
  <2> QED BY <1>2, <1>9, <1>11, <2>1, <2>2, <2>3 DEF Complete
<1> QED BY <1>4, <1>12, <1>13, <1>14, <1>15, <1>16, <1>17, <1>18, <1>19

(* A category's query is over: its rows replace the tool's.                *)
LEMMA SettledCategory ==
  ASSUME WalkIInv, NEW w, NEW answered, SettledAs(w, answered), CategoriesPart(todo), On \in Categories
  PROVE  WalkIInv'
<1> USE DEF WalkIInv
<1>1. On # Owners /\ On \notin Schemas /\ Owners \in Listings /\ On \in Listings
  BY NamesApart DEF Listings
<1>2. /\ walk' = NoAnswer /\ todo' = Tail(todo)
      /\ UNCHANGED <<surface, pc, uncounted, cut>>
      /\ pc = "walk" /\ missed' \in BOOLEAN /\ (missed => missed')
      /\ ~missed' /\ Whole(On) => w.got = Size(On)
      /\ w.got <= Size(On) /\ todo # <<>> /\ Head(todo).op = "paged"
      /\ ~missed' => answered
      /\ IF w.got = 0 /\ ~answered
         THEN unavailable' = unavailable \cup {<<On, "sql">>} /\ UNCHANGED found
         ELSE /\ found' = [found EXCEPT ![On] = w.got]
              /\ unavailable' = unavailable \ {<<On, "tool">>}
  BY <1>1 DEF SettledAs, Settled
<1>3. Label(On) = On /\ On \in Labels
  BY <1>1 DEF Label, Labels
<1>4. /\ stats' \in [Labels -> Stat \cup {NoAnswer}] /\ stats'[On] # NoAnswer
      /\ \A q \in Labels \ {On} : stats'[q] = stats[q]
      /\ w.got \in Nat /\ Size(On) \in Nat /\ Summing'
      /\ On \notin uncounted =>
           /\ stats'[On].expected \in Nat
           /\ w.got # Size(On) => stats'[On].fetched < stats'[On].expected
  BY <1>3, SettledStats, SettledSlack
<1>5. todo \in Seq(Tasks)
  BY DEF WalkTypes
<1>6. CategoriesPart(todo') /\ todo' \in Seq(Tasks) /\ \A l : ~Ahead("adapter", l)'
  BY <1>2, <1>5, CategoriesTail, TailFacts DEF On, Ahead, Late
<1>7. \A op, l : Ahead(op, l) <=> Head(todo) = Task(op, l) \/ Ahead(op, l)'
  BY <1>2, <1>5, TailFacts DEF Ahead
<1>8. \A op, l : Head(todo) = Task(op, l) => op = "paged" /\ l = On
  BY <1>2 DEF Task, On
<1>9. Head(todo) = Task("paged", On)
  <2>1. Head(todo) \in Tasks
    BY <1>2, <1>5
  <2> QED BY <1>2, <2>1 DEF Tasks, Task, On
<1>10. /\ ~OwnersPart(todo') /\ ~TablesPart(todo') /\ ~ToolsPart(todo') /\ todo' # <<>>
       /\ ~OwnersPart(todo) /\ ~TablesPart(todo) /\ ~ToolsPart(todo)
  BY <1>5, <1>6, OnePart
<1>11. /\ \A s \in Schemas : s \in Listings /\ s # On
       /\ \A c \in Categories : c \in Listings /\ c \in Labels /\ c # Owners /\ c # Columns
       /\ Owners \in Labels /\ Columns \in Labels
  BY <1>1, NamesApart DEF Listings, Labels
<1>12. /\ found' \in [Listings -> Nat] /\ \A l \in Listings : found'[l] <= Size(l)
       /\ \A l \in Listings : l # On => found'[l] = found[l]
       /\ ~(w.got = 0 /\ ~answered) => found'[On] = w.got
       /\ stats'[Owners] = stats[Owners] /\ stats'[Columns] = stats[Columns]
       /\ found'[Owners] = found[Owners]
  BY <1>1, <1>2, <1>4, <1>11 DEF WalkTypes
<1>13. Oracle /\ Oracle' = Oracle /\ \A c : Queried(c)' = Queried(c)
  <2>1. Ahead("paged", On)
    BY <1>7, <1>9
  <2>2. Oracle
    BY <2>1 DEF QueriesDue
  <2> QED BY <1>2, <2>2 DEF Oracle, Queried
<1>14. \A s \in Schemas : found'[s] = found[s] /\ (Ahead("paged", s)' <=> Ahead("paged", s))
  BY <1>7, <1>8, <1>11, <1>12
<1>15. ByCatalogue' = ByCatalogue
  BY <1>12 DEF ByCatalogue
<1>16. SurfaceOK' /\ WalkTypes'
  BY <1>2, <1>4, <1>6, <1>12 DEF SurfaceOK, WalkTypes, Size
<1>17. Course'
  BY <1>2, <1>6, <1>10, <1>13 DEF Course
<1>18. QueriesDue'
  BY <1>6, <1>7, <1>13 DEF QueriesDue
<1>19. Asking'
  BY <1>2 DEF Asking
<1>20. OwnersTold'
  BY <1>2, <1>12, <1>14, <1>15 DEF OwnersTold, Slack, Size
<1>21. SchemasTold'
  BY <1>2, <1>10, <1>12, <1>14, <1>15 DEF SchemasTold, Slack, Size
<1>22. CategoriesTold'
  <2> SUFFICES ASSUME NEW c \in Categories, ~(\E op \in Late : Ahead(op, c)')
               PROVE found'[c] = Size(c) \/ Told(c)' \/ Excused(c)
    <3>1. \A c \in Categories : Excused(c)' = Excused(c)
      BY <1>2, <1>13 DEF Excused
    <3> QED BY <1>2, <3>1 DEF CategoriesTold, Size
  <2>1. CASE c # On
    <3>1. ~(\E op \in Late : Ahead(op, c))
      BY <1>7, <1>8, <2>1
    <3>2. found[c] = Size(c) \/ Told(c) \/ Excused(c)
      BY <3>1 DEF CategoriesTold
    <3>3. /\ Label(c) = c /\ stats'[c] = stats[c] /\ found'[c] = found[c]
          /\ c \notin Schemas
      BY <1>4, <1>11, <1>12, <2>1, NamesApart DEF Label
    <3>4. \A how \in {"tool", "sql"} : <<c, how>> \in unavailable => <<c, how>> \in unavailable'
      BY <1>2, <2>1
    <3>5. Told(c) => Told(c)'
      BY <3>3, <3>4 DEF Told, Shown
    <3> QED BY <3>2, <3>3, <3>5
  <2>2. CASE c = On
    <3>1. Label(c) = c
      BY <1>3, <2>2
    <3>2. CASE w.got = 0 /\ ~answered
      <4>1. <<c, "sql">> \in unavailable'
        BY <1>2, <2>2, <3>2
      <4> QED BY <4>1 DEF Told
    <3>3. CASE ~(w.got = 0 /\ ~answered) /\ w.got = Size(On)
      BY <1>12, <2>2, <3>3
    <3>4. CASE w.got # Size(On) /\ c \notin uncounted
      <4>1. stats'[c] # NoAnswer /\ stats'[c].expected \in Nat /\ stats'[c].fetched < stats'[c].expected
        BY <1>4, <2>2, <3>4
      <4>2. Shown(c)'
        BY <4>1, NamesApart DEF Shown
      <4> QED BY <3>1, <4>2 DEF Told
    <3> QED BY <3>2, <3>3, <3>4 DEF Excused
  <2> QED BY <2>1, <2>2
<1>23. Complete'
  <2>1. ASSUME NEW l \in Categories \cup {Owners}, ~missed', stats'[l] # NoAnswer, Whole(l)
        PROVE found'[l] = Size(l)
    <3>1. CASE l = On
      BY <1>2, <1>12, <2>1, <3>1
    <3>2. CASE l # On
      <4>1. stats'[l] = stats[l] /\ found'[l] = found[l]
        BY <1>1, <1>4, <1>11, <1>12, <3>2
      <4> QED BY <1>2, <2>1, <4>1 DEF Complete
    <3> QED BY <3>1, <3>2
  <2>2. \A l : (Whole(l)' <=> Whole(l)) /\ Size(l)' = Size(l)
    BY <1>2 DEF Whole, Size
  <2>3. \A s \in Schemas : ~missed' /\ s <= found'[Owners] /\ Whole(s) =>
          Ahead("paged", s)' \/ found'[s] = Size(s)
    BY <1>2, <1>12, <1>14 DEF Complete
  <2> QED BY <1>10, <2>1, <2>2, <2>3 DEF Complete
<1> QED BY <1>4, <1>16, <1>17, <1>18, <1>19, <1>20, <1>21, <1>22, <1>23

(* The next page.                                                          *)
LEMMA NextPage ==
  ASSUME NEW v \in Walks, NEW n \in Nat
  PROVE  LET r == [v EXCEPT !.got = @ + n, !.page = @ + 1] IN
         /\ r \in Walks /\ r.expected = v.expected /\ r.rows = v.rows
         /\ r.page = v.page + 1 /\ r.got = v.got + n
<1>1. v.page \in Nat /\ v.got \in Nat
  BY DEF Walks
<1>2. \A g \in Nat : \A k \in Nat :
        LET r == [[v EXCEPT !.got = g] EXCEPT !.page = k] IN
        /\ r \in Walks /\ r.expected = v.expected /\ r.rows = v.rows
        /\ r.page = k /\ r.got = g
  BY DEF Walks
<1>3. v.got + n \in Nat /\ v.page + 1 \in Nat
  BY <1>1
<1> QED BY <1>2, <1>3

(* A page is fetched: again in a smaller window, the next one, or the      *)
(* last.                                                                   *)
LEMMA FetchStep == WalkIInv /\ Fetch => WalkIInv'
<1> SUFFICES ASSUME WalkIInv, Fetch PROVE WalkIInv'
  OBVIOUS
<1> USE DEF WalkIInv
<1>1. /\ todo # <<>> /\ Head(todo).op = "paged" /\ pc = "walk" /\ walk # NoAnswer
      /\ UNCHANGED <<surface, pc, uncounted, cut>>
  BY DEF Fetch, At
<1>2. PICK p \in Replies(Pages) :
          /\ Called(p)
          /\ IF Refetched(p)
             THEN /\ walk' = [walk EXCEPT !.rows = @ \div 2, !.chopped = @ + 1]
                  /\ UNCHANGED <<todo, found, stats, unavailable>>
             ELSE LET n == IF p = NoAnswer THEN 0 ELSE p.rows
                      w == [walk EXCEPT !.got = @ + n, !.page = @ + 1] IN
                  IF Over(w, n) THEN Settled(w, p # NoAnswer)
                  ELSE walk' = w /\ UNCHANGED <<todo, found, stats, unavailable>>
  BY DEF Fetch
<1>3. missed \in BOOLEAN /\ walk \in Walks /\ On \in Listings
  BY <1>1, HeadFacts DEF WalkTypes, Listings
<1>4. p \in Pages \cup {NoAnswer} /\ missed' \in BOOLEAN /\ (missed => missed') /\ (~missed' => p # NoAnswer)
  BY <1>2, <1>3, ReplyFacts
<1>5. /\ walk.rows \in Nat \ {0} /\ walk.got \in Nat /\ walk.page \in Nat /\ walk.chopped \in Nat
      /\ walk.expected \in Nat \cup {NoAnswer}
      /\ walk = [expected |-> walk.expected, rows |-> walk.rows, page |-> walk.page,
                 got |-> walk.got, chopped |-> walk.chopped]
  BY <1>3 DEF Walks
<1>6. /\ walk.expected \in {NoAnswer, Size(On)} /\ walk.got <= Size(On)
      /\ walk.expected = NoAnswer => Label(On) \in uncounted
      /\ ~missed /\ surface.wide[On] = 0 =>
           /\ walk.expected = Size(On)
           /\ walk.page <= walk.got /\ walk.page < MaxPages
  BY <1>1 DEF Asking
<1>7. Size(On) \in Nat /\ MaxPages \in Nat \ {0}
  BY <1>3, WalkAssumption DEF SurfaceOK, Size
<1> DEFINE n == IF p = NoAnswer THEN 0 ELSE p.rows
           w == [walk EXCEPT !.got = @ + n, !.page = @ + 1]
<1>8. n \in Nat /\ walk.got + n <= Size(On)
  BY <1>1, <1>4, <1>5, <1>6, WindowFacts
<1>9. ASSUME ~missed', surface.wide[On] = 0, ~Refetched(p)
      PROVE n = walk.rows \/ walk.got + n = Size(On)
  BY <1>1, <1>4, <1>9, WindowFacts
<1>10. /\ w \in Walks /\ w.expected = walk.expected /\ w.rows = walk.rows
       /\ w.page = walk.page + 1 /\ w.got = walk.got + n
  BY <1>3, <1>8, NextPage
<1>11. CASE Refetched(p)
  <2>1. /\ walk' = [expected |-> walk.expected, rows |-> walk.rows \div 2, page |-> walk.page,
                    got |-> walk.got, chopped |-> walk.chopped + 1]
        /\ UNCHANGED <<todo, found, stats, unavailable>>
    BY <1>2, <1>5, <1>11
  <2>2. walk.rows > 1
    BY <1>11 DEF Refetched
  <2>3. walk.rows \div 2 \in Nat \ {0}
    BY <1>5, <2>2
  <2>4. walk' \in Walks
    BY <1>5, <2>1, <2>3 DEF Walks
  <2>5. Asking'
    <3>1. On' = On /\ Size(On)' = Size(On)
      BY <1>1, <2>1 DEF On, Size
    <3>2. /\ walk'.expected = walk.expected /\ walk'.got = walk.got /\ walk'.page = walk.page
      BY <2>1
    <3> QED BY <1>1, <1>4, <1>6, <2>1, <3>1, <3>2 DEF Asking, Label
  <2> QED BY <1>1, <1>4, <2>1, <2>4, <2>5, QuietStep
<1>12. w \in Walks
  BY <1>10
<1>13. CASE ~Refetched(p) /\ ~Over(w, n)
  <2>1. walk' = w /\ UNCHANGED <<todo, found, stats, unavailable>>
    BY <1>2, <1>13
  <2>2. /\ w.expected # NoAnswer => ~(w.got >= w.expected)
        /\ ~(n < w.rows) /\ w.page # MaxPages
    BY <1>13 DEF Over
  <2>3. ASSUME ~missed, surface.wide[On] = 0
        PROVE w.page <= w.got /\ w.page < MaxPages
    BY <1>5, <1>6, <1>7, <1>8, <1>10, <2>2, <2>3
  <2>4. Asking'
    <3>1. On' = On /\ Size(On)' = Size(On)
      BY <1>1, <2>1 DEF On, Size
    <3>2. w.got <= Size(On) /\ w.expected = walk.expected
      BY <1>8, <1>10
    <3> HIDE DEF w, n
    <3> QED BY <1>1, <1>4, <1>6, <2>1, <2>3, <3>1, <3>2 DEF Asking, Label
  <2> QED BY <1>1, <1>4, <1>12, <2>1, <2>4, QuietStep
<1>14. CASE ~Refetched(p) /\ Over(w, n)
  <2>1. Settled(w, p # NoAnswer)
    BY <1>2, <1>14
  <2>2. ASSUME ~missed', Whole(On)
        PROVE w.got = Size(On)
    <3>1. surface.wide[On] = 0 /\ ~missed /\ Size(On) <= MaxPages
      BY <1>4, <2>2 DEF Whole
    <3>2. n = walk.rows \/ walk.got + n = Size(On)
      BY <1>9, <1>14, <2>2, <3>1
    <3>3. w.got >= Size(On) \/ n < walk.rows \/ w.page = MaxPages
      BY <1>6, <1>10, <1>14, <3>1 DEF Over
    <3>4. CASE n = walk.rows /\ w.page = MaxPages
      BY <1>5, <1>6, <1>7, <1>8, <1>10, <3>1, <3>4
    <3> QED BY <1>5, <1>7, <1>8, <1>10, <3>2, <3>3, <3>4
  <2>3. w.expected \in {NoAnswer, Size(On)} /\ w.got <= Size(On)
        /\ (w.expected = NoAnswer => Label(On) \in uncounted)
    BY <1>6, <1>8, <1>10
  <2> HIDE DEF w, n
  <2>4. SettledAs(w, p # NoAnswer)
    BY <1>1, <1>4, <1>12, <2>1, <2>2, <2>3 DEF SettledAs
  <2> QED BY <1>1, <2>4, HeadFacts, SettledOwners, SettledSchema, SettledCategory
<1> QED BY <1>11, <1>13, <1>14

(* Nothing is found yet.                                                   *)
LEMMA WalkBegins == WalkInit => WalkIInv
<1> SUFFICES ASSUME WalkInit PROVE WalkIInv
  OBVIOUS
<1>1. /\ NSchemas \in Nat \ {0} /\ MaxRows \in Nat /\ Owners \in Listings
      /\ \A l \in Schemas \cup Categories : l # Owners
  BY WalkAssumption, NamesApart DEF Listings
<1>2. PICK e \in Engines, q \in BOOLEAN, d \in BOOLEAN,
           t \in [Categories -> {"none", "direct", "composed"}], p \in SUBSET Categories,
           s \in [Schemas \cup Categories -> 0..MaxRows], w \in Widths :
        /\ \A c \in Categories : t[c] = "composed" => d \/ e = "oracle"
        /\ surface = [engine |-> e, sql |-> q, limited |-> d, tool |-> t, packed |-> p, wide |-> w,
                      size |-> [l \in Listings |-> IF l = Owners THEN NSchemas ELSE s[l]]]
  BY DEF WalkInit
<1>3. Nothing \in [Listings -> Nat] /\ w \in [Listings -> Nat]
  <2>1. Nothing \in [Listings -> Nat]
    BY DEF Nothing
  <2>2. ASSUME NEW l \in Listings, NEW r \in Nat PROVE [Nothing EXCEPT ![l] = r] \in [Listings -> Nat]
    BY <2>1
  <2>3. Categories \cup {1} \subseteq Listings
    BY <1>1 DEF Listings, Schemas
  <2> QED BY <2>1, <2>2, <2>3 DEF Widths
<1>4. SurfaceOK
  <2>1. [l \in Listings |-> IF l = Owners THEN NSchemas ELSE s[l]] \in [Listings -> Nat]
    BY <1>1, <1>2 DEF Listings
  <2> QED BY <1>1, <1>2, <1>3, <2>1 DEF SurfaceOK, Size
<1>5. /\ pc = "walk" /\ walk = NoAnswer /\ missed = FALSE
      /\ found = Nothing /\ stats = [q_1 \in Labels |-> NoAnswer]
      /\ todo = IF surface.engine = "oracle" /\ surface.sql
                THEN <<Task("paged", Owners)>> ELSE Generic
  BY DEF WalkInit
<1>6. \A q_1 \in Labels : stats[q_1] = NoAnswer
  BY <1>5
<1>7. Columns \in Labels /\ Owners \in Labels /\ Categories \subseteq Labels
  BY DEF Labels
<1>8. ~ByCatalogue /\ stats[Owners] = NoAnswer
  BY <1>6, <1>7 DEF ByCatalogue
<1>9. \A l \in Listings : found[l] = 0
  BY <1>5 DEF Nothing
<1>10. todo \in Seq(Tasks) /\ ((Oracle /\ OwnersPart(todo)) \/ ToolsPart(todo)) /\ (ToolsPart(todo) => ~OwnersPart(todo))
  <2>1. Task("paged", Owners) \in Tasks
    BY <1>1 DEF Task, Tasks
  <2>2. todo \in Seq(Tasks) /\ ((Oracle /\ OwnersPart(todo)) \/ ToolsPart(todo))
    BY <1>5, <2>1, GenericBegins DEF Oracle, OwnersPart
  <2> QED BY <2>2, OnePart
<1>a. todo \in Seq(Tasks) /\ pc \in {"walk", "done", "failed"} /\ walk \in Walks \cup {NoAnswer} /\ missed \in BOOLEAN
  BY <1>5, <1>10
<1>11. ~TablesPart(todo) /\ ~CategoriesPart(todo) /\ todo # <<>>
  BY <1>10, OnePart
<1>12. \A op \in Late : \A c \in Categories : ~Ahead(op, c)
  <2>1. CASE ToolsPart(todo)
    <3>1. \A op \in Late : \A l : ~Queued(todo, op, l)
      BY <1>a, <2>1, ToolsTail
    <3> QED BY <3>1 DEF Ahead
  <2>2. CASE OwnersPart(todo)
    <3> SUFFICES ASSUME NEW op \in Late, NEW c \in Categories, Ahead(op, c) PROVE FALSE
      OBVIOUS
    <3>1. PICK i \in DOMAIN todo : todo[i] = Task(op, c)
      BY DEF Ahead, Queued
    <3>2. todo[i] = Task("paged", Owners)
      BY <2>2, <3>1 DEF OwnersPart
    <3>3. c = Owners
      BY <3>1, <3>2 DEF Task
    <3> QED BY <3>3, NamesApart
  <2> QED BY <1>10, <2>1, <2>2
<1>13. WalkTypes
  <2>1. \A l \in Listings : Size(l) \in Nat
    BY <1>4 DEF SurfaceOK, Size
  <2>2. found \in [Listings -> Nat] /\ \A l \in Listings : found[l] <= Size(l)
    BY <1>3, <1>5, <1>9, <2>1
  <2>3. stats \in [Labels -> Stat \cup {NoAnswer}]
    BY <1>5
  <2> QED BY <1>a, <2>2, <2>3 DEF WalkTypes
<1>14. Course
  BY <1>1, <1>5, <1>6, <1>7, <1>8, <1>9, <1>10, <1>11 DEF Course, Listings
<1>15. QueriesDue /\ Asking /\ Summing /\ OwnersTold /\ SchemasTold /\ CategoriesTold
  BY <1>5, <1>6, <1>7, <1>8, <1>11, <1>12 DEF QueriesDue, Asking, Summing, OwnersTold, SchemasTold,
     CategoriesTold, Late, ByCatalogue
<1>16. Complete
  <2>1. \A l \in Schemas : ~(l <= found[Owners])
    BY <1>1, <1>9 DEF Schemas
  <2> QED BY <1>6, <1>7, <1>8, <2>1 DEF Complete
<1> QED BY <1>4, <1>13, <1>14, <1>15, <1>16 DEF WalkIInv

-----------------------------------------------------------------------------

(* What is left to ask, the query at work, the statistics and the payload  *)
(* fit together throughout a walk (_walk_catalog_fresh, _introspect,       *)
(* _paged_rows).                                                           *)
THEOREM WalkInvariance == WalkSpec => []WalkIInv
<1>1. WalkInit => WalkIInv
  BY WalkBegins
<1>2. WalkIInv /\ [WalkNext]_walkVars => WalkIInv'
  BY CountStep, FetchStep, BulkStep, ListSchemasStep, ListTablesStep, DescribeStep,
     CatalogEvidenceStep, NoToolStep, DirectListStep, ComposedListStep, PackStep, EndStep, TimeoutStep, WalkStutter DEF WalkNext
<1> QED BY <1>1, <1>2, PTL DEF WalkSpec

(* A listing that is not complete in the payload is told in the coverage   *)
(* section, whatever failed, was chopped or skipped and however statistics *)
(* were summed (_coverage_section, walk_stats), but for the blind spots    *)
(* that the code has: no count, a query or a tool whose one reply was cut, *)
(* limited or scraped, no tool for a category, tables listed by tools.     *)
THEOREM LossesAreTold == WalkSpec => []LossIsTold
<1>1. WalkIInv => LossIsTold
  <2> SUFFICES ASSUME WalkIInv, pc = "done", NEW l \in Listings, ~Told(l), ~Blind(l)
               PROVE found[l] = Size(l)
    BY DEF LossIsTold
  <2> USE DEF WalkIInv
  <2>1. todo = <<>> /\ \A op, q : ~Ahead(op, q)
    BY DEF Course, Ahead, Queued
  <2>2. /\ found \in [Listings -> Nat] /\ \A k \in Listings : found[k] <= Size(k) /\ Size(k) \in Nat
        /\ stats \in [Labels -> Stat \cup {NoAnswer}]
        /\ Owners \in Labels /\ Columns \in Labels /\ Owners \in Listings /\ Schemas \subseteq Listings
    BY DEF WalkTypes, SurfaceOK, Size, Listings, Labels
  <2>3. ASSUME NEW q \in Labels, q \notin uncounted, NEW k \in Listings, Slack(q, k), ~Shown(q)
        PROVE found[k] = Size(k)
    <3>1. stats[q] # NoAnswer /\ stats[q].expected \in Nat /\ stats[q].fetched \in Nat
      BY <2>2, <2>3 DEF Slack, Summing, Stat
    <3>2. ~(stats[q].fetched < stats[q].expected)
      BY <2>3, <3>1, NamesApart DEF Shown
    <3> QED BY <2>2, <2>3, <3>1, <3>2 DEF Slack
  <2>4. CASE l \in Categories
    <3>1. l \notin Schemas
      BY <2>4, NamesApart
    <3> QED BY <2>1, <2>4, <3>1 DEF CategoriesTold, Blind, Excused, Label
  <2>5. CASE l = Owners
    <3>1. Label(l) = Owners
      BY <2>5, NamesApart DEF Label
    <3>2. stats[Owners] # NoAnswer /\ Owners \notin uncounted /\ ~Shown(Owners)
      BY <2>5, <3>1 DEF Blind, Told
    <3> QED BY <2>2, <2>3, <2>5, <3>2 DEF OwnersTold
  <2>6. CASE l \in Schemas
    <3>1. Label(l) = Columns
      BY <2>6 DEF Label
    <3>2. /\ Columns \notin uncounted /\ Owners \notin uncounted /\ ByCatalogue
          /\ ~Shown(Columns) /\ ~Shown(Owners)
      BY <2>6, <3>1 DEF Blind, Told
    <3>3. stats[Owners] # NoAnswer
      BY <3>2 DEF OwnersTold, ByCatalogue
    <3>4. found[Owners] = NSchemas
      BY <2>2, <2>3, <3>2, <3>3 DEF OwnersTold, SurfaceOK
    <3>5. l <= found[Owners]
      BY <2>6, <3>4, WalkAssumption DEF Schemas
    <3>6. Slack(Columns, l)
      BY <2>1, <2>6, <3>2, <3>5 DEF SchemasTold
    <3> QED BY <2>2, <2>3, <2>6, <3>2, <3>6
  <2> QED BY <2>4, <2>5, <2>6 DEF Listings
<1> QED BY <1>1, WalkInvariance, PTL

(* Where every call was answered and no row is too large for a reply,      *)
(* paging loses nothing until the limit on pages (_paged_rows).            *)
THEOREM PagesAreComplete == WalkSpec => []PagesComplete
<1>1. WalkIInv => PagesComplete
  <2> SUFFICES ASSUME WalkIInv, pc = "done", ~missed, NEW l \in Listings,
                      stats[Label(l)] # NoAnswer, surface.wide[l] = 0, Size(l) <= MaxPages,
                      l \in Schemas => l <= found[Owners]
               PROVE found[l] = Size(l)
    BY DEF PagesComplete
  <2>1. \A op, q : ~Ahead(op, q)
    BY DEF WalkIInv, Course, Ahead, Queued
  <2>2. Whole(l)
    BY DEF Whole
  <2> QED BY <2>1, <2>2 DEF WalkIInv, Complete, Listings, Label
<1> QED BY <1>1, WalkInvariance, PTL
=============================================================================
