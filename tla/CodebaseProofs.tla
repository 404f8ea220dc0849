--------------------------- MODULE CodebaseProofs ---------------------------
(***************************************************************************)
(* Machine-checked proofs about a codebase: the documents, for any         *)
(* sections, families, subpages, commits and bounds, and below them the    *)
(* clone directory, for any number of artifacts, repositories, commits,    *)
(* jobs and faults.  CodebaseDocs takes a checkout as one commit that      *)
(* another artifact's job may change; CloneStore says how that comes about.*)
(***************************************************************************)
EXTENDS CodebaseDocs, CloneStore, SequenceTheorems, TLAPS

-----------------------------------------------------------------------------
(* The documents *)

(* Only a written text has a source, and a fingerprint is of its commit.   *)
PageSound(p) ==
  /\ p.source # None => Documents(p)
  /\ p.print # None => p.source \in {None, p.print}

Sound(t) == Uniform(t) /\ \A u \in DOMAIN t : PageSound(t[u])

(* What may become current again is as sound as what is.                   *)
History == ~shaken => Sound(pages) /\ \A v \in DOMAIN versions : Sound(versions[v])

(* A page links the subpages of the plan.                                  *)
Linked(u, p) ==
  p.links = Signed(u, IF u[1] \in Families THEN run.plan[u[1]] ELSE {})

(* What a run holds is of its plan, and subpages come before sections.     *)
RunShape ==
  /\ run.step \in {"idle", "clone", "plan"} => run.reuse = Empty
  /\ run.step # "units" => run.done = Empty
  /\ DOMAIN run.reuse \subseteq UnitsOf(run.plan) /\ DOMAIN run.done \subseteq UnitsOf(run.plan)
  /\ \A u \in DOMAIN run.reuse : run.reuse[u].text # "blank" /\ Linked(u, run.reuse[u])
  /\ \A u \in DOMAIN run.done :
       /\ run.done[u].text # "blank"
       /\ run.done[u].print # None \/ Documents(run.done[u]) => Linked(u, run.done[u])
       /\ Before(u) \subseteq DOMAIN run.done

(* Every page is of one commit, as far as it is of any.                    *)
AtOne(t, rev) ==
  \A u \in DOMAIN t :
    PageSound(t[u]) /\ t[u].source \in {None, rev} /\ t[u].print \in {None, rev}

(* Whatever a run reads while its checkout is left alone is of one commit. *)
Calm ==
  ~shaken =>
    /\ run.step \in {"plan", "agents", "units"} => checkout \in Revs
    /\ run.step \in {"agents", "units"} => run.hash = checkout
    /\ run.step = "units" => run.read = checkout
    /\ AtOne(run.reuse, checkout) /\ AtOne(run.done, checkout)

(* The inductive invariant.                                                *)
IInv == TypeOK /\ History /\ RunShape /\ Calm /\ ResumeKeeps

-----------------------------------------------------------------------------
(* Trees of pages.                                                         *)
LEMMA TreeFacts ==
  /\ Empty \in Trees /\ DOMAIN Empty = {}
  /\ \A some \in SUBSET Units : \A f \in [some -> Page] : f \in Trees
  /\ \A t \in Trees : DOMAIN t \subseteq Units /\ t \in [DOMAIN t -> Page]
<1>1. \A some \in SUBSET Units : \A f \in [some -> Page] : f \in Trees
  BY DEF Trees
<1>2. Empty \in [{} -> Page] /\ DOMAIN Empty = {}
  BY DEF Empty
<1>3. ASSUME NEW t \in Trees PROVE DOMAIN t \subseteq Units /\ t \in [DOMAIN t -> Page]
  <2>1. PICK some \in SUBSET Units : t \in [some -> Page]
    BY <1>3 DEF Trees
  <2> QED BY <2>1
<1> QED BY <1>1, <1>2, <1>3

(* A page with some of its fields replaced.                                *)
LEMMA PageUpdates ==
  ASSUME NEW p \in Page, NEW rev \in Commit
  PROVE  /\ [p EXCEPT !.print = rev] \in Page
         /\ [p EXCEPT !.print = rev].print = rev
         /\ [p EXCEPT !.print = rev].text = p.text
         /\ [p EXCEPT !.print = rev].source = p.source
         /\ [p EXCEPT !.print = rev].links = p.links
BY DEF Page, Commit

(* The pages that have no text.                                            *)
LEMMA NoTextFacts ==
  /\ Blank \in Page /\ Blank.text = "blank" /\ Blank.source = None /\ Blank.print = None
  /\ Unavailable \in Page /\ Unavailable.text = "unavailable"
  /\ Unavailable.source = None /\ Unavailable.print = None
BY DEF Blank, Unavailable, Page

(* The units of a plan.                                                    *)
LEMMA UnitFacts ==
  /\ \A plan : UnitsOf(plan) \subseteq Units
  /\ \A u \in Units : u[1] \in Sections /\ u = <<u[1], u[2]>>
  /\ \A plan \in Plans, s \in Sections : <<s, Main>> \in UnitsOf(plan)
  /\ \A plan \in Plans, s \in Families, k \in Slugs : <<s, k>> \in UnitsOf(plan) <=> k \in plan[s]
  /\ \A plan \in Plans, s \in Families : plan[s] \in SUBSET Slugs
<1>1. \A plan : UnitsOf(plan) \subseteq Units
  BY DEF UnitsOf, Units
<1>2. ASSUME NEW u \in Units PROVE u[1] \in Sections /\ u = <<u[1], u[2]>>
  BY CodebaseAssumption DEF Units
<1>3. \A plan \in Plans, s \in Sections : <<s, Main>> \in UnitsOf(plan)
  BY DEF UnitsOf
<1>4. \A plan \in Plans, s \in Families, k \in Slugs : <<s, k>> \in UnitsOf(plan) <=> k \in plan[s]
  BY CodebaseAssumption DEF UnitsOf
<1>5. \A plan \in Plans, s \in Families : plan[s] \in SUBSET Slugs
  BY DEF Plans
<1> QED BY <1>1, <1>2, <1>3, <1>4, <1>5

(* At rest.                                                                *)
LEMMA NoRunFacts ==
  /\ NoRun \in RunRecord /\ NoRun.step = "idle" /\ NoRun.reuse = Empty /\ NoRun.done = Empty
  /\ \A some \in SUBSET Units :
       /\ [NoRun EXCEPT !.step = "clone", !.force = some] \in RunRecord
       /\ [NoRun EXCEPT !.step = "clone", !.force = some].step = "clone"
       /\ [NoRun EXCEPT !.step = "clone", !.force = some].reuse = Empty
       /\ [NoRun EXCEPT !.step = "clone", !.force = some].done = Empty
<1> DEFINE nothing == [s \in Families |-> {}]
<1>1. nothing \in Plans
  BY DEF Plans
<1>2. NoRun = [step |-> "idle", force |-> {}, base |-> None, hash |-> None, read |-> None,
               plan |-> nothing, reuse |-> Empty, done |-> Empty]
  BY DEF NoRun
<1> HIDE DEF nothing
<1>3. NoRun \in RunRecord /\ NoRun.step = "idle" /\ NoRun.reuse = Empty /\ NoRun.done = Empty
  BY <1>1, <1>2, TreeFacts DEF RunRecord, Commit
<1>4. ASSUME NEW some \in SUBSET Units
      PROVE  /\ [NoRun EXCEPT !.step = "clone", !.force = some] \in RunRecord
             /\ [NoRun EXCEPT !.step = "clone", !.force = some].step = "clone"
             /\ [NoRun EXCEPT !.step = "clone", !.force = some].reuse = Empty
             /\ [NoRun EXCEPT !.step = "clone", !.force = some].done = Empty
  BY <1>3 DEF RunRecord
<1> QED BY <1>3, <1>4

(* Pages that are of one commit do not mix commits.                        *)
LEMMA AtOneSound == ASSUME NEW t, NEW rev, AtOne(t, rev) PROVE Sound(t)
BY DEF AtOne, Sound, Uniform, Documents

(* Nothing is sound.                                                       *)
LEMMA EmptySound == Sound(Empty) /\ \A rev : AtOne(Empty, rev)
BY TreeFacts DEF Sound, Uniform, AtOne

(* A run that holds nothing is in order.                                   *)
LEMMA NothingHeld ==
  ASSUME run.reuse = Empty, run.done = Empty
  PROVE  RunShape /\ AtOne(run.reuse, checkout) /\ AtOne(run.done, checkout)
BY TreeFacts, EmptySound DEF RunShape

(* There is nothing at first.                                              *)
LEMMA InitIInv == Init => IInv
<1> SUFFICES ASSUME Init PROVE IInv
  OBVIOUS
<1>1. TypeOK
  <2>1. versions \in Seq(Trees) /\ Len(versions) = 0
    BY DEF Init
  <2>2. count = 0 /\ Len(versions) = IF count <= Kept THEN count ELSE Kept + 1
    BY <2>1, CodebaseAssumption DEF Init
  <2>3. count \in 0..MaxVersions
    BY <2>2, CodebaseAssumption
  <2>4. pages \in Trees /\ run \in RunRecord
    BY TreeFacts, NoRunFacts DEF Init
  <2>5. baseline \in Commit /\ tip \in Revs /\ checkout \in Commit
        /\ paid \subseteq Units /\ shaken \in BOOLEAN
    BY DEF Init, Commit
  <2> QED BY <2>1, <2>2, <2>3, <2>4, <2>5 DEF TypeOK
<1>2. RunShape /\ AtOne(run.reuse, checkout) /\ AtOne(run.done, checkout) /\ run.step = "idle"
  BY NoRunFacts, NothingHeld DEF Init
<1>3. History
  BY EmptySound DEF Init, History
<1>4. Calm
  BY <1>2 DEF Calm
<1>5. ResumeKeeps
  BY DEF Init, ResumeKeeps
<1> QED BY <1>1, <1>2, <1>3, <1>4, <1>5 DEF IInv

(* The history as a new version finds it.                                  *)
LEMMA BasedFacts ==
  ASSUME TypeOK
  PROVE  /\ Based \in Seq(Trees) /\ CountBased \in Nat
         /\ Len(Based) = IF CountBased <= Kept THEN CountBased ELSE Kept + 1
         /\ CountBased <= MaxVersions \/ CountBased = 1
         /\ History /\ ~shaken => \A v \in DOMAIN Based : Sound(Based[v])
<1>1. count \in Nat /\ Kept \in Nat /\ count <= MaxVersions
  BY CodebaseAssumption DEF TypeOK
<1>2. CASE count = 0 /\ pages # Empty
  <2>1. Based = <<pages>> /\ CountBased = 1
    BY <1>2 DEF Based, CountBased
  <2>2. pages \in Trees
    BY DEF TypeOK
  <2>3. Based \in Seq(Trees) /\ Len(Based) = 1 /\ DOMAIN Based = {1} /\ Based[1] = pages
    BY <2>1, <2>2
  <2> QED BY <1>1, <2>1, <2>3 DEF History
<1>3. CASE ~(count = 0 /\ pages # Empty)
  <2>1. Based = versions /\ CountBased = count
    BY <1>3 DEF Based, CountBased
  <2> QED BY <1>1, <2>1 DEF TypeOK, History
<1> QED BY <1>2, <1>3

(* A new version leaves a history that is typed, and sound if it is.       *)
LEMMA AppendsFacts ==
  ASSUME TypeOK, NEW t \in Trees, Appends(t)
  PROVE  /\ pages' = t /\ count' \in 0..MaxVersions /\ versions' \in Seq(Trees)
         /\ Len(versions') = IF count' <= Kept THEN count' ELSE Kept + 1
         /\ History /\ ~shaken /\ Sound(t) => \A v \in DOMAIN versions' : Sound(versions'[v])
<1> DEFINE n == IF CountBased < Kept THEN CountBased ELSE Kept
           kept == SubSeq(Based, 1, n)
<1>1. /\ Based \in Seq(Trees) /\ CountBased \in Nat
      /\ Len(Based) = IF CountBased <= Kept THEN CountBased ELSE Kept + 1
      /\ History /\ ~shaken => \A v \in DOMAIN Based : Sound(Based[v])
  BY BasedFacts
<1>2. /\ CountBased < MaxVersions /\ count' = CountBased + 1
      /\ versions' = Append(kept, t) /\ pages' = t
  BY DEF Appends
<1>3. n \in Nat /\ n <= Len(Based) /\ Kept \in Nat /\ MaxVersions \in Nat
  BY <1>1, CodebaseAssumption
<1>4. /\ kept \in Seq(Trees) /\ Len(kept) = n
      /\ \A i \in 1..n : kept[i] = Based[i]
  BY <1>1, <1>3
<1>5. count' \in 0..MaxVersions
  BY <1>1, <1>2, <1>3
<1>6. n + 1 = IF count' <= Kept THEN count' ELSE Kept + 1
  BY <1>1, <1>2, <1>3
<1> HIDE DEF kept, n
<1>7. /\ versions' \in Seq(Trees) /\ Len(versions') = n + 1
      /\ \A i \in 1..n : versions'[i] = kept[i]
      /\ versions'[n + 1] = t /\ DOMAIN versions' = 1..(n + 1)
  BY <1>2, <1>3, <1>4
<1>8. ASSUME History, ~shaken, Sound(t), NEW v \in DOMAIN versions'
      PROVE  Sound(versions'[v])
  <2>1. CASE v = n + 1
    BY <1>7, <1>8, <2>1
  <2>2. CASE v \in 1..n
    <3>1. versions'[v] = Based[v] /\ v \in DOMAIN Based
      BY <1>1, <1>3, <1>4, <1>7, <2>2
    <3> QED BY <1>1, <1>8, <3>1
  <2> QED BY <1>3, <1>7, <1>8, <2>1, <2>2
<1> QED BY <1>2, <1>5, <1>6, <1>7, <1>8

(* An edit or a rollback, between runs.                                    *)
LEMMA AppendsIInv ==
  ASSUME IInv, NEW t \in Trees, Sound(t), Idle, Appends(t), paid' = {},
         UNCHANGED <<baseline, tip, checkout, run, shaken>>
  PROVE  IInv'
<1> USE DEF IInv
<1>1. /\ pages' = t /\ count' \in 0..MaxVersions /\ versions' \in Seq(Trees)
      /\ Len(versions') = IF count' <= Kept THEN count' ELSE Kept + 1
      /\ History /\ ~shaken /\ Sound(t) => \A v \in DOMAIN versions' : Sound(versions'[v])
  BY AppendsFacts
<1>2. TypeOK'
  BY <1>1 DEF TypeOK
<1>3. History'
  BY <1>1 DEF History, Idle
<1>4. RunShape' /\ Calm'
  BY DEF RunShape, Linked, Before, Calm
<1>5. ResumeKeeps'
  BY <1>2 DEF ResumeKeeps, TypeOK
<1> QED BY <1>2, <1>3, <1>4, <1>5

(***************************************************************************)
(* Edits and rollbacks, between runs.                                      *)
(***************************************************************************)

(* A page's text is replaced by the user, or emptied.                      *)
LEMMA EditPageIInv == ASSUME IInv, NEW u \in Units, EditPage(u) PROVE IInv'
<1> USE DEF IInv
<1> DEFINE p == pages[u]
           edited == [p EXCEPT !.text = "edited"]
           emptied == [p EXCEPT !.text = "blank", !.source = None]
<1>1. Idle /\ ~shaken /\ u \in DOMAIN pages /\ paid' = {}
      /\ UNCHANGED <<baseline, tip, checkout, run, shaken>>
  BY DEF EditPage, Idle
<1>2. pages \in [DOMAIN pages -> Page] /\ DOMAIN pages \in SUBSET Units /\ p \in Page
  BY <1>1, TreeFacts DEF TypeOK
<1>3. PageSound(p) /\ Sound(pages)
  BY <1>1 DEF History, Sound
<1>4. /\ edited \in Page /\ PageSound(edited) /\ edited.source = p.source
      /\ emptied \in Page /\ PageSound(emptied) /\ emptied.source = None
  BY <1>2, <1>3 DEF Page, PageSound, Documents
<1>5. Appends([pages EXCEPT ![u] = edited]) \/ Appends([pages EXCEPT ![u] = emptied])
  <2>1. \/ Appends([pages EXCEPT ![u].text = "edited"])
        \/ Appends([pages EXCEPT ![u].text = "blank", ![u].source = None])
    BY DEF EditPage
  <2>2. [pages EXCEPT ![u].text = "edited"] = [pages EXCEPT ![u] = edited]
    BY <1>2
  <2>3. [pages EXCEPT ![u].text = "blank", ![u].source = None] = [pages EXCEPT ![u] = emptied]
    BY <1>1, <1>2
  <2> QED BY <2>1, <2>2, <2>3
<1>6. ASSUME NEW q \in Page, PageSound(q), q.source \in {None, p.source}
      PROVE  [pages EXCEPT ![u] = q] \in Trees /\ Sound([pages EXCEPT ![u] = q])
  <2> DEFINE t == [pages EXCEPT ![u] = q]
  <2>1. t \in [DOMAIN pages -> Page]
    BY <1>2
  <2>2. /\ DOMAIN t = DOMAIN pages /\ t[u] = q
        /\ \A w \in DOMAIN pages : w # u => t[w] = pages[w]
    BY <1>1, <1>2
  <2>3. \A w \in DOMAIN pages : pages[w].source # None => Documents(pages[w])
    BY <1>3 DEF Sound, PageSound
  <2> HIDE DEF t
  <2>4. \A w \in DOMAIN t : PageSound(t[w])
    BY <1>3, <1>6, <2>2 DEF Sound
  <2>5. \A w \in DOMAIN t : t[w].source # None =>
          Documents(pages[w]) /\ t[w].source = pages[w].source
    BY <1>1, <1>6, <2>2, <2>3
  <2>6. Uniform(t)
    BY <1>3, <2>2, <2>5 DEF Uniform, Sound, Documents
  <2>7. t \in Trees
    BY <1>2, <2>1, TreeFacts
  <2> QED BY <2>4, <2>6, <2>7 DEF Sound, t
<1> HIDE DEF edited, emptied
<1>7. CASE Appends([pages EXCEPT ![u] = edited])
  BY <1>1, <1>4, <1>6, <1>7, AppendsIInv
<1>8. CASE Appends([pages EXCEPT ![u] = emptied])
  BY <1>1, <1>4, <1>6, <1>8, AppendsIInv
<1> QED BY <1>5, <1>7, <1>8

(* A page is removed by the user.                                          *)
LEMMA RemovePageIInv == ASSUME IInv, NEW u \in Units, RemovePage(u) PROVE IInv'
<1> USE DEF IInv
<1> DEFINE t == [w \in DOMAIN pages \ {u} |-> pages[w]]
<1>1. Idle /\ ~shaken /\ paid' = {} /\ Appends(t)
      /\ UNCHANGED <<baseline, tip, checkout, run, shaken>>
  BY DEF RemovePage, Idle
<1>2. pages \in [DOMAIN pages -> Page] /\ DOMAIN pages \in SUBSET Units
  BY TreeFacts DEF TypeOK
<1>3. t \in [DOMAIN pages \ {u} -> Page] /\ DOMAIN pages \ {u} \in SUBSET Units
  BY <1>2
<1>4. t \in Trees
  BY <1>3, TreeFacts
<1>5. Sound(t)
  BY <1>1 DEF History, Sound, Uniform
<1> QED BY <1>1, <1>4, <1>5, AppendsIInv

(* A version that is kept becomes current again.                           *)
LEMMA RollbackIInv == ASSUME IInv, NEW v \in 1..Kept, Rollback(v) PROVE IInv'
<1> USE DEF IInv
<1>1. Idle /\ ~shaken /\ v \in DOMAIN versions /\ paid' = {} /\ Appends(versions[v])
      /\ UNCHANGED <<baseline, tip, checkout, run, shaken>>
  BY DEF Rollback, Idle
<1>2. versions[v] \in Trees
  BY <1>1 DEF TypeOK
<1>3. Sound(versions[v])
  BY <1>1 DEF History
<1> QED BY <1>1, <1>2, <1>3, AppendsIInv

(***************************************************************************)
(* A run.                                                                  *)
(***************************************************************************)

(* What holds of the row when only a run moves.                            *)
LEMMA RowStays ==
  ASSUME IInv, UNCHANGED <<pages, versions, paid, shaken>>, TypeOK', RunShape', Calm'
  PROVE  IInv'
<1>1. History'
  BY DEF IInv, History
<1>2. ResumeKeeps'
  BY DEF IInv, ResumeKeeps
<1> QED BY <1>1, <1>2 DEF IInv

(* A run starts, and gives a row without history its first version.        *)
LEMMA StartsIInv == ASSUME IInv, NEW force \in SUBSET Units, Starts(force) PROVE IInv'
<1> USE DEF IInv
<1>1. /\ UNCHANGED <<pages, baseline, tip, checkout, paid, shaken>>
      /\ versions' = Based /\ count' = CountBased /\ CountBased < MaxVersions /\ ~shaken
      /\ run' = [NoRun EXCEPT !.step = "clone", !.force = force]
  BY DEF Starts, Idle
<1>2. run' \in RunRecord /\ run'.step = "clone" /\ run'.reuse = Empty /\ run'.done = Empty
  BY <1>1, NoRunFacts
<1>3. TypeOK'
  BY <1>1, <1>2, BasedFacts, CodebaseAssumption DEF TypeOK
<1>4. History'
  BY <1>1, BasedFacts DEF History
<1>5. RunShape' /\ Calm'
  BY <1>2, NothingHeld, TreeFacts, EmptySound DEF RunShape, Calm
<1>6. ResumeKeeps'
  BY <1>1 DEF ResumeKeeps
<1> QED BY <1>3, <1>4, <1>5, <1>6

(* The three ways to start one.                                            *)
LEMMA StartingIInv ==
  ASSUME IInv, Generate \/ Incremental \/ \E u \in Units : Regenerate(u)
  PROVE  IInv'
<1>1. DOMAIN pages \subseteq Units
  BY TreeFacts DEF IInv, TypeOK
<1>2. CASE Generate
  BY <1>2, StartsIInv DEF Generate
<1>3. CASE Incremental
  <2>1. PICK impact \in SUBSET DOMAIN pages : Starts(impact)
    BY <1>3 DEF Incremental
  <2> QED BY <1>1, <2>1, StartsIInv
<1>4. ASSUME NEW u \in Units, Regenerate(u) PROVE IInv'
  <2>1. Starts({u}) \/ Starts({w \in DOMAIN pages : w[1] = u[1]})
    BY <1>4 DEF Regenerate
  <2>2. {u} \in SUBSET Units /\ {w \in DOMAIN pages : w[1] = u[1]} \in SUBSET Units
    BY <1>1
  <2> QED BY <2>1, <2>2, StartsIInv
<1> QED BY <1>2, <1>3, <1>4

(* A run at its start holds nothing, whatever its checkout.                *)
LEMMA CloneIInv == ASSUME IInv, Clone PROVE IInv'
<1> USE DEF IInv
<1>1. /\ UNCHANGED <<pages, baseline, versions, count, tip, paid, shaken>>
      /\ run.step = "clone" /\ checkout' = tip /\ tip \in Revs
      /\ run' = [run EXCEPT !.step = "plan", !.base = tip]
  BY DEF Clone, TypeOK
<1>2. /\ run' \in RunRecord /\ run'.step = "plan"
      /\ run'.reuse = run.reuse /\ run'.done = run.done
  BY <1>1 DEF TypeOK, RunRecord, Commit
<1>3. run'.reuse = Empty /\ run'.done = Empty
  BY <1>1, <1>2 DEF RunShape
<1>4. TypeOK'
  BY <1>1, <1>2 DEF TypeOK, Commit
<1>5. RunShape' /\ Calm'
  BY <1>1, <1>2, <1>3, TreeFacts, EmptySound DEF RunShape, Calm
<1> QED BY <1>1, <1>4, <1>5, RowStays

(* The remote moves, or another artifact's run moves the shared checkout.  *)
LEMMA OutsideIInv == ASSUME IInv, Push \/ OtherRefresh PROVE IInv'
<1> USE DEF IInv
<1>1. CASE Push
  <2>1. TypeOK' /\ RunShape' /\ Calm'
    BY <1>1 DEF Push, TypeOK, RunShape, Linked, Before, Calm
  <2> QED BY <1>1, <2>1, RowStays DEF Push
<1>2. CASE OtherRefresh
  <2>1. TypeOK' /\ RunShape'
    BY <1>2 DEF OtherRefresh, TypeOK, RunShape, Linked, Before, Commit
  <2>2. shaken'
    BY <1>2 DEF OtherRefresh
  <2> QED BY <2>1, <2>2 DEF History, Calm, ResumeKeeps
<1> QED BY <1>1, <1>2

(* A run is over, and the row stays or is that of the current version.     *)
LEMMA OverIInv == ASSUME IInv, Interrupt \/ Cancel PROVE IInv'
<1> USE DEF IInv
<1>1. UNCHANGED <<baseline, versions, count, tip, checkout, shaken>> /\ run' = NoRun
  BY DEF Interrupt, Cancel
<1>2. RunShape' /\ Calm'
  BY <1>1, NoRunFacts, TreeFacts, EmptySound DEF RunShape, Calm
<1>3. CASE Interrupt
  <2>1. TypeOK'
    BY <1>1, <1>3, NoRunFacts DEF Interrupt, TypeOK
  <2> QED BY <1>1, <1>2, <1>3, <2>1, RowStays DEF Interrupt
<1>4. CASE Cancel
  <2>1. pages' = Current /\ paid' = {}
    BY <1>4 DEF Cancel
  <2>2. Current \in Trees /\ (~shaken => Sound(Current))
    <3>1. CASE versions = <<>>
      BY <3>1, TreeFacts, EmptySound DEF Current
    <3>2. CASE versions # <<>>
      <4>1. Len(versions) \in DOMAIN versions /\ Current = versions[Len(versions)]
        BY <3>2 DEF Current, TypeOK
      <4> QED BY <4>1 DEF TypeOK, History
    <3> QED BY <3>1, <3>2
  <2>3. TypeOK'
    BY <1>1, <2>1, <2>2, NoRunFacts DEF TypeOK
  <2>4. History'
    BY <1>1, <2>1, <2>2 DEF History
  <2>5. ResumeKeeps'
    BY <2>1, <2>3 DEF ResumeKeeps, TypeOK
  <2> QED BY <1>2, <2>3, <2>4, <2>5
<1> QED BY <1>3, <1>4

(* What a plan reuses has the fingerprint of the checkout and the links of *)
(* the subpages that are planned.                                          *)
LEMMA PlanIInv == ASSUME IInv, Plan PROVE IInv'
<1> USE DEF IInv
<1> DEFINE kept == {s \in Sections : Reusable(pages, <<s, Main>>, checkout)}
<1>1. /\ UNCHANGED <<pages, baseline, versions, count, tip, checkout, paid, shaken>>
      /\ run.step = "plan"
  BY DEF Plan
<1>2. PICK plan \in Plans, same \in SUBSET (Families \X Slugs) :
        /\ \A s \in Families \cap kept : plan[s] = Stored(pages, s)
        /\ run' = [run EXCEPT !.step = "agents", !.hash = checkout, !.plan = plan,
             !.reuse = [u \in {w \in UnitsOf(plan) : /\ Reusable(pages, w, checkout)
                                                     /\ w[1] \in kept \/ w \in same} \ run.force
                          |-> pages[u]]]
  BY DEF Plan
<1> DEFINE some == {w \in UnitsOf(plan) : /\ Reusable(pages, w, checkout)
                                          /\ w[1] \in kept \/ w \in same} \ run.force
           reuse == [u \in some |-> pages[u]]
<1>3. some \subseteq UnitsOf(plan) /\ some \subseteq DOMAIN pages /\ some \in SUBSET Units
  BY UnitFacts DEF Reusable
<1>4. pages \in [DOMAIN pages -> Page] /\ run \in RunRecord /\ checkout \in Commit
  BY TreeFacts DEF TypeOK
<1>5. reuse \in [some -> Page] /\ DOMAIN reuse = some /\ \A u \in some : reuse[u] = pages[u]
  BY <1>3, <1>4
<1>6. reuse \in Trees
  BY <1>3, <1>5, TreeFacts
<1>7. ASSUME NEW u \in some
      PROVE  /\ pages[u].text # "blank" /\ pages[u].print = checkout
             /\ pages[u].links = Signed(u, IF u[1] \in Families THEN plan[u[1]] ELSE {})
  <2>1. /\ pages[u].text # "blank" /\ pages[u].print = checkout
        /\ pages[u].links = Signed(u, Stored(pages, u[1]))
        /\ u[1] \in kept \/ u \in same
    BY DEF Reusable
  <2>2. CASE u[2] = Main /\ u[1] \in Families
    <3>1. u \notin Families \X Slugs
      BY <2>2, CodebaseAssumption
    <3>2. plan[u[1]] = Stored(pages, u[1])
      BY <1>2, <2>1, <2>2, <3>1
    <3> QED BY <2>1, <2>2, <3>2
  <2>3. CASE ~(u[2] = Main /\ u[1] \in Families)
    BY <2>1, <2>3 DEF Signed
  <2> QED BY <2>1, <2>2, <2>3
<1>8. run' = [run EXCEPT !.step = "agents", !.hash = checkout, !.plan = plan, !.reuse = reuse]
  BY <1>2
<1> HIDE DEF some, reuse
<1>9. /\ run' \in RunRecord /\ run'.step = "agents" /\ run'.hash = checkout
      /\ run'.plan = plan /\ run'.reuse = reuse /\ run'.done = run.done
  BY <1>4, <1>6, <1>8 DEF RunRecord, Commit
<1>10. TypeOK'
  BY <1>1, <1>9 DEF TypeOK
<1>11. run.done = Empty
  BY <1>1 DEF RunShape
<1>12. RunShape'
  BY <1>3, <1>5, <1>7, <1>9, <1>11, TreeFacts DEF RunShape, Linked
<1>13. Calm'
  <2> SUFFICES ASSUME ~shaken PROVE Calm'
    BY <1>1 DEF Calm
  <2>1. checkout \in Revs
    BY <1>1 DEF Calm
  <2>2. \A u \in some : PageSound(pages[u])
    BY <1>3 DEF History, Sound
  <2>3. AtOne(reuse, checkout)
    BY <1>5, <1>7, <2>1, <2>2, CodebaseAssumption DEF AtOne, PageSound
  <2> QED BY <1>1, <1>9, <1>11, <2>1, <2>3, EmptySound DEF Calm
<1> QED BY <1>1, <1>10, <1>12, <1>13, RowStays

(* The agents read the checkout.                                           *)
LEMMA AgentsIInv == ASSUME IInv, Agents PROVE IInv'
<1> USE DEF IInv
<1>1. /\ UNCHANGED <<pages, baseline, versions, count, tip, checkout, paid, shaken>>
      /\ run.step = "agents" /\ run' = [run EXCEPT !.step = "units", !.read = checkout]
  BY DEF Agents
<1>2. /\ run' \in RunRecord /\ run'.step = "units" /\ run'.read = checkout
      /\ run'.hash = run.hash /\ run'.plan = run.plan
      /\ run'.reuse = run.reuse /\ run'.done = run.done
  BY <1>1 DEF TypeOK, RunRecord
<1>3. TypeOK'
  BY <1>1, <1>2 DEF TypeOK
<1>4. run.done = Empty
  BY <1>1 DEF RunShape
<1>5. RunShape'
  BY <1>1, <1>2, <1>4, TreeFacts DEF RunShape, Linked
<1>6. Calm'
  BY <1>1, <1>2 DEF Calm
<1> QED BY <1>1, <1>3, <1>5, <1>6, RowStays

(* A unit more is finished.                                                *)
LEMMA UnitDone ==
  ASSUME IInv, NEW u \in Units, Turn(u), NEW p \in Page, p.text # "blank",
         p.print # None \/ Documents(p) => Linked(u, p),
         ~shaken => PageSound(p) /\ p.source \in {None, checkout} /\ p.print \in {None, checkout},
         run' = [run EXCEPT !.done = With(run.done, u, p)],
         UNCHANGED <<baseline, versions, count, tip, checkout, shaken>>
  PROVE  /\ run' \in RunRecord /\ RunShape' /\ Calm'
         /\ run'.done = With(run.done, u, p) /\ run'.step = "units"
         /\ run'.plan = run.plan /\ run'.reuse = run.reuse
<1> USE DEF IInv
<1> DEFINE done == With(run.done, u, p)
<1>1. /\ run.step = "units" /\ u \in UnitsOf(run.plan)
      /\ Before(u) \subseteq DOMAIN run.done
  BY DEF Turn
<1>2. run \in RunRecord /\ run.done \in Trees
  BY DEF TypeOK, RunRecord
<1>3. /\ run.done \in [DOMAIN run.done -> Page] /\ DOMAIN run.done \cup {u} \in SUBSET Units
  BY <1>2, TreeFacts
<1>4. /\ done \in [DOMAIN run.done \cup {u} -> Page] /\ DOMAIN done = DOMAIN run.done \cup {u}
      /\ done[u] = p /\ \A w \in DOMAIN run.done : w # u => done[w] = run.done[w]
  BY <1>3 DEF With
<1>5. done \in Trees
  BY <1>3, <1>4, TreeFacts
<1> HIDE DEF done
<1>6. run' = [run EXCEPT !.done = done]
  BY DEF done
<1>7. /\ run' \in RunRecord /\ run'.done = done /\ run'.step = "units"
      /\ run'.plan = run.plan /\ run'.reuse = run.reuse
      /\ run'.hash = run.hash /\ run'.read = run.read
  BY <1>1, <1>2, <1>5, <1>6 DEF RunRecord
<1>8. \A w \in DOMAIN done :
        /\ done[w].text # "blank"
        /\ done[w].print # None \/ Documents(done[w]) => Linked(w, done[w])
        /\ Before(w) \subseteq DOMAIN done
  BY <1>1, <1>4 DEF RunShape
<1>9. RunShape'
  BY <1>1, <1>4, <1>7, <1>8 DEF RunShape, Linked, Before
<1>10. ~shaken => AtOne(done, checkout)
  BY <1>4 DEF Calm, AtOne
<1>11. Calm'
  BY <1>1, <1>7, <1>10 DEF Calm
<1> QED BY <1>7, <1>9, <1>11 DEF done

(* A unit is reused, with a fingerprint of its own.                        *)
LEMMA ReuseIInv == ASSUME IInv, NEW u \in Units, Reuse(u) PROVE IInv'
<1> USE DEF IInv
<1> DEFINE f == Fingerprint(TRUE)
           p == [run.reuse[u] EXCEPT !.print = f]
<1>1. /\ UNCHANGED <<pages, baseline, versions, count, tip, checkout, paid, shaken>>
      /\ Turn(u) /\ u \in DOMAIN run.reuse /\ run.step = "units"
      /\ run' = [run EXCEPT !.done = With(run.done, u, p)]
  BY DEF Reuse, Turn
<1>2. run \in RunRecord /\ run.hash \in Commit /\ run.reuse \in Trees
  BY DEF TypeOK, RunRecord
<1>3. run.reuse[u] \in Page
  BY <1>1, <1>2, TreeFacts
<1>4. f \in {None, run.hash} /\ f \in Commit
  BY <1>2 DEF Fingerprint, Commit
<1> HIDE DEF f
<1>5. /\ p \in Page /\ p.print = f /\ p.text = run.reuse[u].text
      /\ p.source = run.reuse[u].source /\ p.links = run.reuse[u].links
  BY <1>3, <1>4, PageUpdates
<1> HIDE DEF p
<1>6. p.text # "blank" /\ Linked(u, p)
  BY <1>1, <1>5 DEF RunShape, Linked
<1>7. ~shaken => PageSound(p) /\ p.source \in {None, checkout} /\ p.print \in {None, checkout}
  BY <1>1, <1>4, <1>5 DEF Calm, AtOne, PageSound, Documents
<1>8. run' \in RunRecord /\ RunShape' /\ Calm'
  BY <1>1, <1>5, <1>6, <1>7, UnitDone
<1>9. TypeOK'
  BY <1>1, <1>8 DEF TypeOK
<1> QED BY <1>1, <1>8, <1>9, RowStays

(* A unit that no path gave a text.                                        *)
LEMMA FailsIInv == ASSUME IInv, NEW u \in Units, Fails(u) PROVE IInv'
<1> USE DEF IInv
<1>1. /\ UNCHANGED <<pages, baseline, versions, count, tip, checkout, paid, shaken>>
      /\ Turn(u) /\ run' = [run EXCEPT !.done = With(run.done, u, Unavailable)]
  BY DEF Fails
<1>2. /\ Unavailable \in Page /\ Unavailable.text # "blank"
      /\ ~(Unavailable.print # None \/ Documents(Unavailable))
      /\ PageSound(Unavailable) /\ Unavailable.source \in {None, checkout}
      /\ Unavailable.print \in {None, checkout}
  BY NoTextFacts DEF Documents, PageSound
<1>3. run' \in RunRecord /\ RunShape' /\ Calm'
  BY <1>1, <1>2, UnitDone
<1>4. TypeOK'
  BY <1>1, <1>3 DEF TypeOK
<1> QED BY <1>1, <1>3, <1>4, RowStays

(* The page of a unit that is written: of the commit that was read, with   *)
(* the links of the plan.                                                  *)
LEMMA GeneratedFacts ==
  ASSUME IInv, NEW u \in Units, NEW sourced \in BOOLEAN,
         NEW source \in {run.hash, run.read}, run.step = "units"
  PROVE  /\ Generated(u, sourced, source) \in Page
         /\ Generated(u, sourced, source).text = "written"
         /\ Linked(u, Generated(u, sourced, source))
         /\ ~shaken => /\ PageSound(Generated(u, sourced, source))
                       /\ Generated(u, sourced, source).source = checkout
                       /\ Generated(u, sourced, source).print \in {None, checkout}
<1> USE DEF IInv
<1> DEFINE links == Signed(u, IF u[1] \in Families THEN run.plan[u[1]] ELSE {})
           f == Fingerprint(sourced)
<1>1. /\ run \in RunRecord /\ run.hash \in Commit /\ run.read \in Commit /\ run.plan \in Plans
  BY DEF TypeOK, RunRecord
<1>2. links \in SUBSET Slugs
  BY <1>1, UnitFacts DEF Signed
<1>3. f \in {None, run.hash} /\ f \in Commit
  BY <1>1 DEF Fingerprint, Commit
<1> DEFINE p == [text |-> "written", source |-> source, links |-> links, print |-> f]
<1>4. Generated(u, sourced, source) = p
  BY DEF Generated
<1> HIDE DEF links, f
<1>5. p \in Page /\ p.text = "written" /\ p.links = links /\ p.source = source /\ p.print = f
  BY <1>1, <1>2, <1>3 DEF Page, Commit
<1> HIDE DEF p
<1>6. Linked(u, p)
  BY <1>5 DEF Linked, links
<1>7. ~shaken => /\ PageSound(p) /\ p.source = checkout /\ p.print \in {None, checkout}
  BY <1>3, <1>5, CodebaseAssumption DEF Calm, PageSound, Documents
<1> QED BY <1>4, <1>5, <1>6, <1>7

(* What a checkpoint stores is a tree of the plan and, while the checkout  *)
(* is left alone, of one commit.                                           *)
LEMMA PartialFacts ==
  ASSUME IInv, NEW done \in Trees, DOMAIN done \subseteq UnitsOf(run.plan),
         ~shaken => AtOne(done, checkout)
  PROVE  /\ Partial(done) \in Trees /\ DOMAIN Partial(done) = UnitsOf(run.plan)
         /\ \A w \in DOMAIN done : Partial(done)[w] = done[w]
         /\ ~shaken => AtOne(Partial(done), checkout)
<1> USE DEF IInv
<1>1. run \in RunRecord /\ run.reuse \in Trees
  BY DEF TypeOK, RunRecord
<1>2. done \in [DOMAIN done -> Page] /\ run.reuse \in [DOMAIN run.reuse -> Page]
  BY <1>1, TreeFacts
<1>3. DOMAIN Partial(done) = UnitsOf(run.plan)
      /\ \A w \in DOMAIN done : Partial(done)[w] = done[w]
  BY DEF Partial
<1>4. ASSUME NEW w \in UnitsOf(run.plan)
      PROVE  /\ Partial(done)[w] \in Page
             /\ ~shaken => /\ PageSound(Partial(done)[w])
                           /\ Partial(done)[w].source \in {None, checkout}
                           /\ Partial(done)[w].print \in {None, checkout}
  <2>1. CASE w \in DOMAIN done
    BY <1>2, <1>3, <2>1 DEF AtOne
  <2>2. CASE w \notin DOMAIN done /\ w \in DOMAIN run.reuse
    <3> DEFINE p == [run.reuse[w] EXCEPT !.print = None]
    <3>1. Partial(done)[w] = p
      BY <2>2 DEF Partial
    <3>2. run.reuse[w] \in Page /\ None \in Commit
      BY <1>2, <2>2 DEF Commit
    <3>3. p \in Page /\ p.print = None /\ p.text = run.reuse[w].text
          /\ p.source = run.reuse[w].source
      BY <3>2, PageUpdates
    <3> HIDE DEF p
    <3>4. ~shaken => PageSound(p) /\ p.source \in {None, checkout}
      BY <2>2, <3>3 DEF Calm, AtOne, PageSound, Documents
    <3> QED BY <3>1, <3>3, <3>4
  <2>3. CASE w \notin DOMAIN done /\ w \notin DOMAIN run.reuse
    <3>1. Partial(done)[w] = Blank
      BY <2>3 DEF Partial
    <3> QED BY <3>1, NoTextFacts DEF PageSound
  <2> QED BY <2>1, <2>2, <2>3
<1>5. Partial(done) \in [UnitsOf(run.plan) -> Page]
  <2>1. Partial(done) = [w \in UnitsOf(run.plan) |-> Partial(done)[w]]
    BY DEF Partial
  <2> QED BY <1>4, <2>1
<1>6. Partial(done) \in Trees
  BY <1>5, TreeFacts, UnitFacts
<1>7. ~shaken => AtOne(Partial(done), checkout)
  BY <1>3, <1>4 DEF AtOne
<1> QED BY <1>3, <1>6, <1>7

(* A unit is written and checkpointed with what is finished: sections come *)
(* after their subpages, so that the subpages they link are stored.        *)
LEMMA WriteIInv == ASSUME IInv, NEW u \in Units, Write(u) PROVE IInv'
<1> USE DEF IInv
<1>1. /\ UNCHANGED <<baseline, versions, count, tip, checkout, shaken>>
      /\ Turn(u) /\ run.step = "units"
  BY DEF Write, Turn
<1>2. PICK sourced \in BOOLEAN, source \in {run.hash, run.read} :
        LET done == With(run.done, u, Generated(u, sourced, source)) IN
          run' = [run EXCEPT !.done = done] /\ Checkpoint(done)
  BY DEF Write
<1> DEFINE p == Generated(u, sourced, source)
           done == With(run.done, u, p)
<1>3. run' = [run EXCEPT !.done = done] /\ pages' = Partial(done) /\ paid' = Sourced(done)
  BY <1>2 DEF Checkpoint
<1>4. /\ p \in Page /\ p.text = "written" /\ Linked(u, p)
      /\ ~shaken => PageSound(p) /\ p.source = checkout /\ p.print \in {None, checkout}
  BY <1>1, GeneratedFacts
<1> HIDE DEF p
<1>5. /\ run' \in RunRecord /\ RunShape' /\ Calm' /\ run'.done = done
      /\ run'.plan = run.plan /\ run'.reuse = run.reuse
  BY <1>1, <1>3, <1>4, UnitDone
<1> HIDE DEF done
<1>6. /\ done \in Trees /\ DOMAIN done \subseteq UnitsOf(run.plan)
      /\ ~shaken => AtOne(done, checkout)
      /\ \A w \in DOMAIN done :
           /\ done[w].text # "blank"
           /\ done[w].print # None \/ Documents(done[w]) => Linked(w, done[w])
           /\ Before(w) \subseteq DOMAIN done
  <2>1. done \in Trees
    BY <1>5 DEF RunRecord
  <2>2. /\ DOMAIN done \subseteq UnitsOf(run.plan)
        /\ \A w \in DOMAIN done :
             /\ done[w].text # "blank"
             /\ done[w].print # None \/ Documents(done[w]) => Linked(w, done[w])
             /\ Before(w) \subseteq DOMAIN done
    BY <1>5 DEF RunShape, Linked, Before
  <2>3. ~shaken => AtOne(done, checkout)
    BY <1>1, <1>5 DEF Calm
  <2> QED BY <2>1, <2>2, <2>3
<1>7. /\ pages' \in Trees /\ DOMAIN pages' = UnitsOf(run.plan)
      /\ \A w \in DOMAIN done : pages'[w] = done[w]
      /\ ~shaken => AtOne(pages', checkout)
  BY <1>3, <1>6, PartialFacts
<1>8. paid' = {w \in DOMAIN done : done[w].print # None /\ done[w].text # "blank"}
  BY <1>3 DEF Sourced
<1>9. TypeOK'
  <2>1. paid' \subseteq Units
    BY <1>6, <1>8, TreeFacts
  <2> QED BY <1>1, <1>5, <1>7, <2>1 DEF TypeOK
<1>10. History'
  BY <1>1, <1>7, AtOneSound DEF History
<1>11. ResumeKeeps'
  <2> SUFFICES ASSUME ~shaken PROVE ResumeKeeps'
    BY <1>1 DEF ResumeKeeps
  <2>1. checkout \in Revs /\ run.plan \in Plans
    BY <1>1 DEF Calm, TypeOK, RunRecord
  <2> SUFFICES ASSUME NEW w \in paid'
               PROVE  /\ w \in DOMAIN pages' /\ pages'[w].source \in {checkout, None}
                      /\ <<w[1], Main>> \in paid' => Reusable(pages', w, checkout)
    BY <2>1 DEF ResumeKeeps
  <2>2. w \in DOMAIN done /\ done[w].print # None /\ done[w].text # "blank" /\ w \in Units
    BY <1>6, <1>8, TreeFacts
  <2>3. w \in DOMAIN pages' /\ pages'[w] = done[w]
    BY <1>6, <1>7, <2>2
  <2>4. done[w].source \in {checkout, None} /\ done[w].print = checkout
    BY <1>6, <2>2 DEF AtOne
  <2>5. ASSUME <<w[1], Main>> \in paid' PROVE Reusable(pages', w, checkout)
    <3>1. done[w].links = Signed(w, IF w[1] \in Families THEN run.plan[w[1]] ELSE {})
      BY <1>6, <2>2 DEF Linked
    <3>2. CASE ~(w[2] = Main /\ w[1] \in Families)
      BY <2>2, <2>3, <2>4, <3>1, <3>2 DEF Reusable, Signed
    <3>3. CASE w[2] = Main /\ w[1] \in Families
      <4> DEFINE s == w[1]
      <4>1. s \in Families /\ s \in Sections /\ w = <<s, Main>> /\ run.plan[s] \in SUBSET Slugs
        BY <2>1, <2>2, <3>3, UnitFacts
      <4> HIDE DEF s
      <4>2. ASSUME NEW k \in Slugs
            PROVE  k \in Stored(pages', s) <=> k \in run.plan[s]
        <5>1. <<s, k>> \in UnitsOf(run.plan) <=> k \in run.plan[s]
          BY <2>1, <4>1, UnitFacts
        <5>2. ASSUME k \in run.plan[s] PROVE pages'[<<s, k>>].text # "blank"
          <6>1. <<s, k>> # w /\ <<s, k>>[1] = s
            BY <4>1, CodebaseAssumption
          <6>2. <<s, k>> \in Before(w)
            BY <4>1, <5>1, <5>2, <6>1 DEF Before
          <6>3. <<s, k>> \in DOMAIN done
            BY <1>6, <2>2, <6>2
          <6> QED BY <1>6, <1>7, <6>3
        <5> QED BY <1>7, <5>1, <5>2 DEF Stored
      <4>3. Stored(pages', s) = run.plan[s]
        BY <4>1, <4>2 DEF Stored
      <4> QED BY <2>2, <2>3, <2>4, <3>1, <3>3, <4>3 DEF Reusable, s
    <3> QED BY <3>2, <3>3
  <2> QED BY <2>3, <2>4, <2>5
<1> QED BY <1>5, <1>9, <1>10, <1>11

(* What is finished is committed as the new version.                       *)
LEMMA FinishIInv == ASSUME IInv, Finish PROVE IInv'
<1> USE DEF IInv
<1>1. /\ UNCHANGED <<tip, checkout, shaken>>
      /\ run.step = "units" /\ Appends(run.done)
      /\ baseline' = run.base /\ run' = NoRun /\ paid' = {}
  BY DEF Finish, Complete
<1>2. run \in RunRecord /\ run.done \in Trees /\ run.base \in Commit
  BY DEF TypeOK, RunRecord
<1>3. ~shaken => Sound(run.done)
  BY AtOneSound DEF Calm
<1>4. /\ pages' = run.done /\ count' \in 0..MaxVersions /\ versions' \in Seq(Trees)
      /\ Len(versions') = IF count' <= Kept THEN count' ELSE Kept + 1
      /\ History /\ ~shaken /\ Sound(run.done) => \A v \in DOMAIN versions' : Sound(versions'[v])
  BY <1>1, <1>2, AppendsFacts
<1>5. TypeOK'
  BY <1>1, <1>2, <1>4, NoRunFacts DEF TypeOK
<1>6. History'
  BY <1>1, <1>3, <1>4 DEF History
<1>7. RunShape' /\ Calm'
  BY <1>1, NoRunFacts, TreeFacts, EmptySound DEF RunShape, Calm
<1>8. ResumeKeeps'
  BY <1>1, <1>5 DEF ResumeKeeps, TypeOK
<1> QED BY <1>5, <1>6, <1>7, <1>8

(* Every step keeps the invariant.                                         *)
LEMMA NextIInv == IInv /\ [Next]_vars => IInv'
<1> SUFFICES ASSUME IInv, [Next]_vars PROVE IInv'
  OBVIOUS
<1>1. ASSUME NEW u \in Units, EditPage(u) \/ RemovePage(u) PROVE IInv'
  BY <1>1, EditPageIInv, RemovePageIInv
<1>2. ASSUME NEW v \in 1..Kept, Rollback(v) PROVE IInv'
  BY <1>2, RollbackIInv
<1>3. CASE Generate \/ Incremental \/ \E u \in Units : Regenerate(u)
  BY <1>3, StartingIInv
<1>4. ASSUME NEW u \in Units, Reuse(u) \/ Write(u) \/ Fails(u) PROVE IInv'
  BY <1>4, ReuseIInv, WriteIInv, FailsIInv
<1>5. CASE Push \/ OtherRefresh
  BY <1>5, OutsideIInv
<1>6. CASE Clone \/ Plan \/ Agents \/ Finish
  BY <1>6, CloneIInv, PlanIInv, AgentsIInv, FinishIInv
<1>7. CASE Interrupt \/ Cancel
  BY <1>7, OverIInv
<1>8. CASE UNCHANGED vars
  <2>1. UNCHANGED <<pages, versions, paid, shaken>> /\ TypeOK' /\ RunShape' /\ Calm'
    BY <1>8 DEF vars, IInv, TypeOK, RunShape, Linked, Before, Calm
  <2> QED BY <2>1, RowStays
<1> QED BY <1>1, <1>2, <1>3, <1>4, <1>5, <1>6, <1>7, <1>8 DEF Next

(***************************************************************************)
(* Theorems.                                                               *)
(***************************************************************************)

(* The row, its history and a run are typed, and what a run holds is of    *)
(* its plan and, while the checkout is left alone, of one commit.          *)
THEOREM Invariance == Spec => []IInv
BY InitIInv, NextIInv, PTL DEF Spec

(* A documentation never mixes commits, neither that of the row, also when *)
(* a run was interrupted, nor any version, unless another artifact's run   *)
(* has changed the checkout under a run (generate_codebase_docs).          *)
THEOREM CommitsNeverMix == Spec => []OneCommit
<1>1. IInv => OneCommit
  BY DEF IInv, History, Sound, OneCommit
<1> QED BY <1>1, Invariance, PTL

(* What an interrupted run has checkpointed with its sources is reusable   *)
(* at its commit (_checkpoint_partial_docs, plan_regeneration).            *)
THEOREM ResumingKeeps == Spec => []ResumeKeeps
<1>1. IInv => ResumeKeeps
  BY DEF IInv
<1> QED BY <1>1, Invariance, PTL

(* A finished section links exactly the subpages there are, reused or not, *)
(* whatever happened to the checkout (_child_signature, _units_pages).     *)
THEOREM FamiliesAreCurrent == Spec => FamilyCurrent
<1> DEFINE Current2 ==
      Finish => \A s \in Families :
        Documents(pages'[<<s, Main>>])
          => pages'[<<s, Main>>].links = {k \in Slugs : <<s, k>> \in DOMAIN pages'}
<1>1. ASSUME IInv PROVE Current2
  <2> SUFFICES ASSUME Finish, NEW s \in Families, Documents(pages'[<<s, Main>>])
               PROVE  pages'[<<s, Main>>].links = {k \in Slugs : <<s, k>> \in DOMAIN pages'}
    OBVIOUS
  <2>1. pages' = run.done /\ DOMAIN run.done = UnitsOf(run.plan)
    BY DEF Finish, Complete, Appends
  <2>2. run.plan \in Plans /\ s \in Sections
    BY <1>1, CodebaseAssumption DEF IInv, TypeOK, RunRecord
  <2>3. <<s, Main>> \in DOMAIN run.done
    BY <2>1, <2>2, UnitFacts
  <2>4. Linked(<<s, Main>>, run.done[<<s, Main>>])
    BY <1>1, <2>1, <2>3 DEF IInv, RunShape
  <2>5. pages'[<<s, Main>>].links = run.plan[s]
    BY <2>1, <2>4 DEF Linked, Signed
  <2>6. run.plan[s] = {k \in Slugs : <<s, k>> \in UnitsOf(run.plan)}
    BY <2>2, UnitFacts
  <2> QED BY <2>1, <2>5, <2>6
<1>2. IInv /\ [Next]_vars => [Current2]_vars
  BY <1>1
<1> QED BY <1>2, Invariance, PTL DEF Spec, FamilyCurrent

-----------------------------------------------------------------------------
(* The clone directory *)

Marks == (Repos \X Nat) \cup {NoCommit, Rubble}
Places == {"end", "look", "fetch", "fetched", "reset", "compare", "remove",
           "clone", "cloning", "head", "read", "agents", "done"}
JobKinds == {"none", "run", "detect", "pull"}
DirRecord == [kind : {"none", "empty", "partial", "rubble", "repo"}, head : Marks,
              fetched : Marks, has : SUBSET Marks, by : Artifacts \cup {NoCommit}]
JobRecord == [kind : JobKinds, at : Places, tip : Marks, base : Marks,
              read : SUBSET Marks, met : SUBSET JobKinds]

DirTypeOK ==
  /\ repoOf \in [Artifacts -> Repos]
  /\ remote \in [tip : [Repos -> Nat], hangs : BOOLEAN]
  /\ dir \in DirRecord
  /\ job \in [Artifacts -> JobRecord]
  /\ docs \in [Artifacts -> SUBSET Marks]
  /\ base \in [Artifacts -> Marks]
  /\ clean \in [Artifacts -> BOOLEAN]

(* Who clones says so, and is not a detection. *)
ClonerAtIt ==
  dir.by # NoCommit =>
    job[dir.by].at = "cloning" /\ job[dir.by].kind \in {"run", "pull"}

(* Which steps are whose. *)
Shaped(j) ==
  /\ j.kind = "none" => j.at = "end"
  /\ j.kind = "detect" => j.at \in {"fetch", "fetched", "compare"}
  /\ j.at \in {"reset", "remove", "head", "agents", "done"} => j.kind = "run"
  /\ j.at = "compare" => j.kind = "detect"
  /\ j.at \in {"fetch", "fetched"} => j.kind \in {"run", "detect"}
  /\ j.at \in {"clone", "cloning"} => j.kind \in {"run", "pull"}

(* What a run finds in the directory when nobody but detections has        *)
(* changed it, and what it has read there.                                 *)
Undisturbed(a, d, j) ==
  j.kind = "run" /\ j.met \subseteq {"detect"} =>
    /\ d.by # NoCommit => d.by = a
    /\ j.at = "reset" => d.kind \in {"repo", "partial"}
    /\ j.at = "cloning" => d.by = a
    /\ j.at \in {"head", "read", "agents"} => d.kind = "repo" /\ d.by = NoCommit
    /\ j.at \in {"read", "agents"} => d.head = j.base
    /\ j.at \in {"agents", "done"} => j.read = {j.base}

(* The same of a run, or a detection, that nobody has disturbed at all. *)
Alone(d, j) ==
  j.met = {} =>
    /\ j.at \in {"reset", "compare"} => d.fetched = j.tip
    /\ j.at = "head" => d.head = j.tip
    /\ j.kind = "run" /\ j.at \in {"read", "agents", "done"} => j.base = j.tip

JobsFit ==
  \A a \in Artifacts :
    Shaped(job[a]) /\ Undisturbed(a, dir, job[a]) /\ Alone(dir, job[a])

(* Documents of an undisturbed run are about its baseline. *)
Described ==
  \A a \in Artifacts : clean[a] /\ base[a] # NoCommit => docs[a] = {base[a]}

DirIInv == DirTypeOK /\ ClonerAtIt /\ JobsFit /\ Described

-----------------------------------------------------------------------------
(* No directory and no job. *)
LEMMA EmptyValues ==
  /\ NoDir \in DirRecord /\ NoDir.by = NoCommit /\ NoDir.kind = "none"
  /\ NoJob \in JobRecord /\ NoJob.kind = "none" /\ NoJob.at = "end" /\ NoJob.met = {}
BY DEF NoDir, NoJob, DirRecord, JobRecord, Marks, Places, JobKinds

(* At first there is nothing to claim. *)
LEMMA DirInitIInv == CloneInit => DirIInv
<1> SUFFICES ASSUME CloneInit PROVE DirIInv
  OBVIOUS
<1>1. DirTypeOK
  BY EmptyValues DEF CloneInit, DirTypeOK, Marks
<1>2. ClonerAtIt
  BY EmptyValues DEF CloneInit, ClonerAtIt
<1>3. Shaped(NoJob) /\ Alone(NoDir, NoJob)
      /\ \A a \in Artifacts : Undisturbed(a, NoDir, NoJob)
  BY EmptyValues DEF Shaped, Alone, Undisturbed
<1>4. JobsFit
  BY <1>3 DEF CloneInit, JobsFit
<1>5. Described
  BY DEF CloneInit, Described
<1> QED BY <1>1, <1>2, <1>4, <1>5 DEF DirIInv

(* The commit at the tip of an artifact's repository. *)
LEMMA TipTyped == ASSUME DirTypeOK, NEW a \in Artifacts PROVE Tip(a) \in Marks
BY DEF DirTypeOK, Tip, Marks

(* A job that changes the directory leaves the others' claims alone: they  *)
(* have met it, and what a detection changes is no run's.                  *)
LEMMA ChangesIInv ==
  ASSUME DirIInv, NEW a \in Artifacts, NEW new \in DirRecord, NEW next \in JobRecord,
         Changes(a, new, next), Running(a),
         next.kind \in {job[a].kind, "none"},
         Shaped(next), Undisturbed(a, new, next), Alone(new, next),
         job[a].kind = "detect" =>
             new.kind = dir.kind /\ new.head = dir.head /\ new.by = dir.by,
         new.by # NoCommit =>
             \/ new.by = a /\ next.at = "cloning" /\ next.kind # "none"
             \/ new.by = dir.by /\ dir.by # a
  PROVE  DirIInv'
<1> USE DEF DirIInv
<1>1. /\ dir' = new
      /\ job' = [b \in Artifacts |->
           IF b = a THEN next
           ELSE IF Running(b) THEN [job[b] EXCEPT !.met = @ \cup {job[a].kind}] ELSE job[b]]
      /\ repoOf' = repoOf /\ remote' = remote /\ docs' = docs /\ base' = base /\ clean' = clean
  BY DEF Changes
<1>2. job'[a] = next
  BY <1>1
<1>3. \A b \in Artifacts : b # a =>
        /\ job'[b] \in JobRecord
        /\ job'[b].kind = job[b].kind /\ job'[b].at = job[b].at /\ job'[b].tip = job[b].tip
        /\ job'[b].base = job[b].base /\ job'[b].read = job[b].read
        /\ job[b].kind # "none" => job'[b].met = job[b].met \cup {job[a].kind}
  BY <1>1 DEF DirTypeOK, JobRecord, Running
<1>4. DirTypeOK'
  BY <1>1, <1>2, <1>3 DEF DirTypeOK
<1>5. ClonerAtIt'
  <2> SUFFICES ASSUME new.by # NoCommit
               PROVE  job'[new.by].at = "cloning" /\ job'[new.by].kind \in {"run", "pull"}
    BY <1>1 DEF ClonerAtIt
  <2>1. CASE new.by = a /\ next.at = "cloning"
    BY <2>1, <1>2 DEF Shaped
  <2>2. CASE new.by = dir.by /\ dir.by # a
    <3>1. new.by \in Artifacts
      BY DEF DirRecord
    <3> QED BY <2>2, <3>1, <1>3 DEF ClonerAtIt
  <2> QED BY <2>1, <2>2
<1>6. ASSUME NEW b \in Artifacts, b # a
      PROVE  Shaped(job'[b]) /\ Undisturbed(b, new, job'[b]) /\ Alone(new, job'[b])
  <2>1. Shaped(job'[b])
    BY <1>3, <1>6 DEF JobsFit, Shaped
  <2>2. Undisturbed(b, new, job'[b])
    <3> SUFFICES ASSUME job[b].kind = "run", job'[b].met \subseteq {"detect"}
                 PROVE  Undisturbed(b, new, job'[b])
      BY <1>3, <1>6 DEF Undisturbed
    <3>1. job[a].kind = "detect" /\ job[b].met \subseteq {"detect"}
      BY <1>3, <1>6
    <3>2. Undisturbed(b, dir, job[b])
      BY DEF JobsFit
    <3> QED BY <3>1, <3>2, <1>3, <1>6 DEF Undisturbed
  <2>3. Alone(new, job'[b])
    <3>1. CASE job[b].kind = "none"
      BY <3>1, <2>1, <1>3, <1>6 DEF Shaped, Alone
    <3>2. CASE job[b].kind # "none"
      BY <3>2, <1>3, <1>6 DEF Alone
    <3> QED BY <3>1, <3>2
  <2> QED BY <2>1, <2>2, <2>3
<1>7. JobsFit'
  BY <1>1, <1>2, <1>6 DEF JobsFit
<1>8. Described'
  BY <1>1 DEF Described
<1> QED BY <1>4, <1>5, <1>7, <1>8

(* A job that goes on without changing the directory. *)
LEMMA GoesIInv ==
  ASSUME DirIInv, NEW a \in Artifacts, NEW next \in JobRecord,
         job' = [job EXCEPT ![a] = next], UNCHANGED <<repoOf, remote, dir, docs, base, clean>>,
         Shaped(next), Undisturbed(a, dir, next), Alone(dir, next),
         dir.by # a
  PROVE  DirIInv'
<1> USE DEF DirIInv
<1>1. /\ job' = [job EXCEPT ![a] = next] /\ repoOf' = repoOf /\ remote' = remote
      /\ dir' = dir /\ docs' = docs /\ base' = base /\ clean' = clean
  OBVIOUS
<1>2. \A b \in Artifacts : job'[b] = IF b = a THEN next ELSE job[b]
  BY <1>1 DEF DirTypeOK
<1>3. DirTypeOK'
  BY <1>1 DEF DirTypeOK
<1>4. ClonerAtIt'
  <2>1. dir.by # NoCommit => dir.by \in Artifacts
    BY DEF DirTypeOK, DirRecord
  <2> QED BY <2>1, <1>1, <1>2 DEF ClonerAtIt
<1>5. JobsFit'
  BY <1>1, <1>2 DEF JobsFit
<1>6. Described'
  BY <1>1 DEF Described
<1> QED BY <1>3, <1>4, <1>5, <1>6

(* A job is over. *)
LEMMA NoJobFits ==
  ASSUME NEW a, NEW d
  PROVE  Shaped(NoJob) /\ Undisturbed(a, d, NoJob) /\ Alone(d, NoJob)
BY EmptyValues DEF Shaped, Undisturbed, Alone

(* Who is at a step other than cloning is not the cloner. *)
LEMMA NotCloner ==
  ASSUME DirIInv, NEW a \in Artifacts, job[a].at # "cloning"
  PROVE  dir.by # a
BY CloneBounds DEF DirIInv, ClonerAtIt

-----------------------------------------------------------------------------
(* A job begins; if somebody is cloning it has met him already. *)
LEMMA BeginIInv ==
  ASSUME DirIInv, NEW a \in Artifacts, NEW kind \in {"run", "detect", "pull"}, Begin(a, kind)
  PROVE  DirIInv'
<1> DEFINE met == IF dir.by = NoCommit THEN {} ELSE {job[dir.by].kind}
           next == [NoJob EXCEPT !.kind = kind,
                                 !.at = IF kind = "detect" THEN "fetch" ELSE "look",
                                 !.met = met]
<1>1. /\ job[a].kind = "none" /\ job' = [job EXCEPT ![a] = next]
      /\ UNCHANGED <<repoOf, remote, dir, docs, base, clean>>
  BY DEF Begin, Running
<1>2. dir.by # NoCommit => job[dir.by].kind \in {"run", "pull"}
  BY DEF DirIInv, ClonerAtIt
<1>3. met \in SUBSET JobKinds /\ (met \subseteq {"detect"} => dir.by = NoCommit)
  BY <1>2 DEF JobKinds
<1> HIDE DEF met
<1>4. /\ next \in JobRecord /\ next.kind = kind /\ next.met = met
      /\ next.at = IF kind = "detect" THEN "fetch" ELSE "look"
  BY <1>3, EmptyValues DEF JobRecord, JobKinds, Places
<1> HIDE DEF next
<1>5. Shaped(next)
  BY <1>4 DEF Shaped
<1>6. Undisturbed(a, dir, next)
  BY <1>3, <1>4 DEF Undisturbed
<1>7. Alone(dir, next)
  BY <1>4 DEF Alone
<1>8. dir.by # a
  BY <1>1, NotCloner DEF DirIInv, JobsFit, Shaped
<1> QED BY <1>1, <1>4, <1>5, <1>6, <1>7, <1>8, GoesIInv

(* The steps that look, fetch or give up: the directory stays as it is. *)
LEMMA QuietIInv ==
  ASSUME DirIInv, NEW a \in Artifacts, NEW to \in Places, job[a].kind # "none",
         Goes(a, To(a, to)),
         job[a].at \notin {"end", "cloning"},
         to \in {"look", "fetch", "remove", "clone"},
         to \in {"fetch", "remove"} => job[a].kind = "run",
         to \in {"look", "clone"} => job[a].kind \in {"run", "pull"}
  PROVE  DirIInv'
<1> DEFINE next == To(a, to)
<1>1. /\ next \in JobRecord /\ next.kind = job[a].kind /\ next.at = to
      /\ next.met = job[a].met
  BY DEF DirIInv, DirTypeOK, To, JobRecord
<1>2. job' = [job EXCEPT ![a] = next] /\ UNCHANGED <<repoOf, remote, dir, docs, base, clean>>
  BY DEF Goes
<1> HIDE DEF next
<1>3. job[a].kind = "run" /\ job[a].met \subseteq {"detect"} /\ dir.by # NoCommit => dir.by = a
  BY DEF DirIInv, JobsFit, Undisturbed
<1>4. Shaped(next) /\ Undisturbed(a, dir, next) /\ Alone(dir, next)
  BY <1>1, <1>3 DEF Shaped, Undisturbed, Alone
<1>5. dir.by # a
  BY NotCloner
<1> QED BY <1>1, <1>2, <1>4, <1>5, GoesIInv

(* A job gives up. *)
LEMMA StopsIInv ==
  ASSUME DirIInv, NEW a \in Artifacts, Goes(a, NoJob), dir.by # a
  PROVE  DirIInv'
<1>1. job' = [job EXCEPT ![a] = NoJob] /\ UNCHANGED <<repoOf, remote, dir, docs, base, clean>>
  BY DEF Goes
<1> QED BY <1>1, EmptyValues, NoJobFits, GoesIInv

(* What is found in the directory decides how a run or a pull goes on. *)
LEMMA LookIInv == ASSUME DirIInv, NEW a \in Artifacts, Look(a) PROVE DirIInv'
<1>1. /\ job[a].at = "look"
      /\ Goes(a, To(a, IF job[a].kind = "run" THEN Forced
                       ELSE IF NoFiles THEN "clone" ELSE "read"))
  BY DEF Look, At, Steps
<1>2. job[a].kind \in {"run", "pull"}
  BY <1>1 DEF DirIInv, JobsFit, Shaped, DirTypeOK, JobRecord, JobKinds
<1>3. Forced \in {"fetch", "clone", "remove"}
  BY DEF Forced, LooksAgain
<1>4. CASE job[a].kind = "run"
  BY <1>1, <1>3, <1>4, QuietIInv DEF Places
<1>5. CASE job[a].kind = "pull" /\ NoFiles
  BY <1>1, <1>5, QuietIInv DEF Places
<1>6. CASE job[a].kind = "pull" /\ ~NoFiles
  <2> DEFINE next == To(a, "read")
  <2>1. /\ next \in JobRecord /\ next.kind = "pull" /\ next.at = "read"
    BY <1>6 DEF DirIInv, DirTypeOK, To, JobRecord, Places
  <2>2. job' = [job EXCEPT ![a] = next] /\ UNCHANGED <<repoOf, remote, dir, docs, base, clean>>
    BY <1>1, <1>6 DEF Goes
  <2> HIDE DEF next
  <2>3. Shaped(next) /\ Undisturbed(a, dir, next) /\ Alone(dir, next)
    BY <2>1 DEF Shaped, Undisturbed, Alone
  <2>4. dir.by # a
    BY <1>1, NotCloner
  <2> QED BY <2>1, <2>2, <2>3, <2>4, GoesIInv
<1> QED BY <1>2, <1>4, <1>5, <1>6

(* The answer of the remote. *)
LEMMA FetchIInv == ASSUME DirIInv, NEW a \in Artifacts, Fetch(a) PROVE DirIInv'
<1> DEFINE next == [To(a, "fetched") EXCEPT !.tip = Tip(a)]
<1>1. job[a].at = "fetch" /\ job' = [job EXCEPT ![a] = next]
      /\ UNCHANGED <<repoOf, remote, dir, docs, base, clean>>
  BY DEF Fetch, At, Steps, Goes
<1>2. Tip(a) \in Marks
  BY TipTyped DEF DirIInv
<1>3. /\ next \in JobRecord /\ next.kind = job[a].kind /\ next.at = "fetched"
      /\ next.met = job[a].met
  BY <1>2 DEF DirIInv, DirTypeOK, To, JobRecord, Places
<1> HIDE DEF next
<1>4. job[a].kind \in {"run", "detect"}
  BY <1>1 DEF DirIInv, JobsFit, Shaped
<1>5. job[a].kind = "run" /\ job[a].met \subseteq {"detect"} /\ dir.by # NoCommit => dir.by = a
  BY DEF DirIInv, JobsFit, Undisturbed
<1>6. Shaped(next) /\ Undisturbed(a, dir, next) /\ Alone(dir, next)
  BY <1>3, <1>4, <1>5 DEF Shaped, Undisturbed, Alone
<1>7. dir.by # a
  BY <1>1, NotCloner
<1> QED BY <1>1, <1>3, <1>6, <1>7, GoesIInv

(* A fetch that fails or times out. *)
LEMMA FetchLostIInv ==
  ASSUME DirIInv, NEW a \in Artifacts, job[a].at \in {"fetch", "fetched"},
         Goes(a, FetchLost(a))
  PROVE  DirIInv'
<1>1. dir.by # a /\ job[a].kind # "none"
  BY NotCloner DEF DirIInv, JobsFit, Shaped
<1>2. CASE job[a].kind = "run"
  BY <1>1, <1>2, QuietIInv DEF FetchLost, Places
<1>3. CASE job[a].kind # "run"
  BY <1>1, <1>3, StopsIInv DEF FetchLost
<1> QED BY <1>2, <1>3

(* What was fetched is written; of a checkout nothing is touched. *)
LEMMA WriteFetchHeadIInv == ASSUME DirIInv, NEW a \in Artifacts, WriteFetchHead(a) PROVE DirIInv'
<1>1. job[a].at = "fetched" /\ job[a].kind # "none" /\ dir.by # a
  BY NotCloner DEF WriteFetchHead, At, DirIInv, JobsFit, Shaped
<1>2. CASE ~HasGit
  BY <1>1, <1>2, FetchLostIInv DEF WriteFetchHead
<1>3. CASE HasGit
  <2> DEFINE new == Wrote(a)
             to == IF job[a].kind = "run" THEN "reset" ELSE "compare"
             next == To(a, to)
  <2>1. Changes(a, new, next)
    BY <1>3 DEF WriteFetchHead
  <2>2. /\ new \in DirRecord /\ new.fetched = job[a].tip /\ new.kind = dir.kind
        /\ new.head = dir.head /\ new.by = dir.by
    BY DEF Wrote, FetchedDir, DirIInv, DirTypeOK, DirRecord, JobRecord
  <2>3. /\ next \in JobRecord /\ next.kind = job[a].kind /\ next.at = to
        /\ next.met = job[a].met /\ next.tip = job[a].tip
    BY DEF DirIInv, DirTypeOK, To, JobRecord, Places
  <2>4. job[a].kind \in {"run", "detect"}
    BY <1>1 DEF DirIInv, JobsFit, Shaped
  <2>5. job[a].kind = "run" /\ job[a].met \subseteq {"detect"} /\ dir.by # NoCommit => dir.by = a
    BY DEF DirIInv, JobsFit, Undisturbed
  <2>6. Shaped(next) /\ to \in {"reset", "compare"}
    BY <2>3, <2>4 DEF Shaped
  <2> HIDE DEF new, next
  <2>7. Undisturbed(a, new, next) /\ Alone(new, next)
    BY <1>3, <2>2, <2>3, <2>4, <2>5, <2>6 DEF Undisturbed, Alone, HasGit
  <2> QED
    BY <1>1, <2>1, <2>2, <2>3, <2>6, <2>7, ChangesIInv DEF Running
<1> QED BY <1>2, <1>3

(* reset --hard: of a clone that others cut off or took away it may make   *)
(* nothing, and the run starts over.                                       *)
LEMMA ResetTreeIInv == ASSUME DirIInv, NEW a \in Artifacts, ResetTree(a) PROVE DirIInv'
<1>1. job[a].at = "reset" /\ job[a].kind = "run" /\ dir.by # a
  BY NotCloner DEF ResetTree, At, DirIInv, JobsFit, Shaped
<1>2. CASE Goes(a, To(a, "remove"))
  BY <1>1, <1>2, QuietIInv DEF Places
<1>3. ASSUME HasGit, NEW mended \in {"repo", "partial"},
             mended = IF dir.by = NoCommit THEN "repo" ELSE "partial",
             Changes(a, [dir EXCEPT !.head = dir.fetched, !.kind = mended], To(a, "head"))
      PROVE  DirIInv'
  <2> DEFINE new == [dir EXCEPT !.head = dir.fetched, !.kind = mended]
             next == To(a, "head")
  <2>1. /\ new \in DirRecord /\ new.fetched = dir.fetched /\ new.kind = mended
        /\ new.head = dir.fetched /\ new.by = dir.by
    BY DEF DirIInv, DirTypeOK, DirRecord
  <2>2. /\ next \in JobRecord /\ next.kind = "run" /\ next.at = "head"
        /\ next.met = job[a].met /\ next.tip = job[a].tip
    BY <1>1 DEF DirIInv, DirTypeOK, To, JobRecord, Places
  <2>3. Changes(a, new, next)
    BY <1>3
  <2> HIDE DEF new, next
  <2>4. Undisturbed(a, dir, job[a]) /\ Alone(dir, job[a])
    BY DEF DirIInv, JobsFit
  <2>5. Undisturbed(a, new, next)
    BY <1>1, <1>3, <2>1, <2>2, <2>4 DEF Undisturbed
  <2>6. Alone(new, next)
    BY <1>1, <2>1, <2>2, <2>4 DEF Alone
  <2>7. Shaped(next)
    BY <2>2 DEF Shaped
  <2> QED
    BY <1>1, <2>1, <2>2, <2>3, <2>5, <2>6, <2>7, ChangesIInv DEF Running
<1> QED BY <1>2, <1>3 DEF ResetTree

(* The directory is removed to start over. *)
LEMMA RemoveTreeIInv == ASSUME DirIInv, NEW a \in Artifacts, RemoveTree(a) PROVE DirIInv'
<1> DEFINE next == To(a, "clone")
<1>1. job[a].at = "remove" /\ job[a].kind = "run" /\ Changes(a, NoDir, next)
  BY DEF RemoveTree, At, DirIInv, JobsFit, Shaped
<1>2. next \in JobRecord /\ next.kind = "run" /\ next.at = "clone"
  BY <1>1 DEF DirIInv, DirTypeOK, To, JobRecord, Places
<1> HIDE DEF next
<1>3. Shaped(next) /\ Undisturbed(a, NoDir, next) /\ Alone(NoDir, next)
  BY <1>2, EmptyValues DEF Shaped, Undisturbed, Alone
<1> QED BY <1>1, <1>2, <1>3, EmptyValues, ChangesIInv DEF Running

(* A clone begins in an empty place, or fails. *)
LEMMA CloneBeginIInv == ASSUME DirIInv, NEW a \in Artifacts, CloneBegin(a) PROVE DirIInv'
<1>1. job[a].at = "clone" /\ job[a].kind \in {"run", "pull"} /\ dir.by # a
  BY NotCloner DEF CloneBegin, At, DirIInv, JobsFit, Shaped
<1>2. CASE ~NoFiles
  BY <1>1, <1>2, StopsIInv DEF CloneBegin
<1>3. CASE NoFiles
  <2> DEFINE new == [NoDir EXCEPT !.kind = "partial", !.by = a]
             next == To(a, "cloning")
  <2>1. Changes(a, new, next)
    BY <1>3 DEF CloneBegin
  <2>2. new \in DirRecord /\ new.by = a
    BY EmptyValues DEF DirRecord
  <2>3. next \in JobRecord /\ next.kind = job[a].kind /\ next.at = "cloning"
    BY DEF DirIInv, DirTypeOK, To, JobRecord, Places
  <2> HIDE DEF new, next
  <2>4. Shaped(next) /\ Undisturbed(a, new, next) /\ Alone(new, next)
    BY <1>1, <2>2, <2>3 DEF Shaped, Undisturbed, Alone
  <2> QED BY <1>1, <2>1, <2>2, <2>3, <2>4, ChangesIInv DEF Running
<1> QED BY <1>2, <1>3

(* A clone ends, in its own directory or in one that was taken away. *)
LEMMA CloneEndIInv == ASSUME DirIInv, NEW a \in Artifacts, CloneEnd(a) PROVE DirIInv'
<1>1. job[a].at = "cloning" /\ job[a].kind \in {"run", "pull"}
  BY DEF CloneEnd, At, DirIInv, JobsFit, Shaped
<1>2. CASE dir.by # a
  BY <1>1, <1>2, StopsIInv DEF CloneEnd
<1>3. CASE dir.by = a
  <2> DEFINE new == [dir EXCEPT !.kind = "repo", !.by = NoCommit, !.head = Tip(a),
                                !.has = @ \cup {Tip(a)}]
             to == IF job[a].kind = "run" THEN "head" ELSE "read"
             next == [To(a, to) EXCEPT !.tip = Tip(a)]
  <2>1. Changes(a, new, next)
    BY <1>3 DEF CloneEnd
  <2>2. Tip(a) \in Marks
    BY TipTyped DEF DirIInv
  <2>3. new \in DirRecord /\ new.kind = "repo" /\ new.by = NoCommit /\ new.head = Tip(a)
    BY <2>2 DEF DirIInv, DirTypeOK, DirRecord
  <2>4. /\ next \in JobRecord /\ next.kind = job[a].kind /\ next.at = to
        /\ next.met = job[a].met /\ next.tip = Tip(a)
    BY <2>2 DEF DirIInv, DirTypeOK, To, JobRecord, Places
  <2> HIDE DEF new, next
  <2>5. Shaped(next) /\ Undisturbed(a, new, next) /\ Alone(new, next)
    BY <1>1, <2>3, <2>4 DEF Shaped, Undisturbed, Alone
  <2> QED BY <1>1, <2>1, <2>3, <2>4, <2>5, ChangesIInv DEF Running
<1> QED BY <1>2, <1>3

(* A failing clone leaves an empty directory. *)
LEMMA CloneFailsIInv == ASSUME DirIInv, NEW a \in Artifacts, CloneFails(a) PROVE DirIInv'
<1>1. job[a].at = "cloning" /\ job[a].kind \in {"run", "pull"}
  BY DEF CloneFails, At, DirIInv, JobsFit, Shaped
<1>2. CASE dir.by # a
  BY <1>1, <1>2, StopsIInv DEF CloneFails
<1>3. CASE dir.by = a
  <2> DEFINE new == [NoDir EXCEPT !.kind = "empty"]
  <2>1. Changes(a, new, NoJob)
    BY <1>3 DEF CloneFails
  <2>2. new \in DirRecord /\ new.by = NoCommit
    BY EmptyValues DEF DirRecord
  <2> HIDE DEF new
  <2> QED BY <1>1, <2>1, <2>2, NoJobFits, EmptyValues, ChangesIInv DEF Running
<1> QED BY <1>2, <1>3

(* The process dies: no job is left to claim anything. *)
LEMMA KilledIInv == ASSUME DirIInv, Killed PROVE DirIInv'
<1> USE DEF DirIInv
<1>1. /\ job' = [a \in Artifacts |-> NoJob] /\ repoOf' = repoOf /\ remote' = remote
      /\ docs' = docs /\ base' = base /\ clean' = clean
      /\ dir' = [dir EXCEPT !.by = NoCommit] \/ dir' = [NoDir EXCEPT !.kind = "rubble"]
  BY DEF Killed
<1>2. dir' \in DirRecord /\ dir'.by = NoCommit
  BY <1>1, EmptyValues DEF DirTypeOK, DirRecord
<1>3. DirTypeOK'
  BY <1>1, <1>2, EmptyValues DEF DirTypeOK
<1>4. ClonerAtIt'
  BY <1>2 DEF ClonerAtIt
<1>5. JobsFit'
  <2>1. \A a \in Artifacts : job'[a] = NoJob
    BY <1>1
  <2> QED BY <2>1, NoJobFits DEF JobsFit
<1>6. Described'
  BY <1>1 DEF Described
<1> QED BY <1>3, <1>4, <1>5, <1>6

(* A run takes its baseline from HEAD. *)
LEMMA ReadHeadIInv == ASSUME DirIInv, NEW a \in Artifacts, ReadHead(a) PROVE DirIInv'
<1> DEFINE next == [To(a, "read") EXCEPT !.base = dir.head]
<1>1. job[a].at = "head" /\ job[a].kind = "run" /\ dir.by # a
  BY NotCloner DEF ReadHead, At, DirIInv, JobsFit, Shaped
<1>2. job' = [job EXCEPT ![a] = next] /\ UNCHANGED <<repoOf, remote, dir, docs, base, clean>>
  BY DEF ReadHead, Steps, Goes
<1>3. /\ next \in JobRecord /\ next.kind = "run" /\ next.at = "read"
      /\ next.met = job[a].met /\ next.tip = job[a].tip /\ next.base = dir.head
  BY <1>1 DEF DirIInv, DirTypeOK, To, JobRecord, DirRecord, Places
<1> HIDE DEF next
<1>4. Undisturbed(a, dir, job[a]) /\ Alone(dir, job[a])
  BY DEF DirIInv, JobsFit
<1>5. Shaped(next) /\ Undisturbed(a, dir, next) /\ Alone(dir, next)
  BY <1>1, <1>3, <1>4 DEF Shaped, Undisturbed, Alone
<1> QED BY <1>1, <1>2, <1>3, <1>5, GoesIInv

(* What is read where a whole checkout is. *)
LEMMA FilesTyped ==
  ASSUME DirTypeOK
  PROVE  FilesHeld \in SUBSET Marks /\ (dir.kind = "repo" => FilesHeld = {dir.head})
BY DEF DirTypeOK, FilesHeld, NoFiles, DirRecord, Marks

(* A run reads the files. *)
LEMMA ReadFilesIInv == ASSUME DirIInv, NEW a \in Artifacts, ReadFiles(a) PROVE DirIInv'
<1>1. job[a].at = "read" /\ dir.by # a
  BY NotCloner DEF ReadFiles, At
<1>2. CASE job[a].kind = "pull" \/ FilesHeld = {}
  BY <1>1, <1>2, StopsIInv DEF ReadFiles, Steps
<1>3. CASE job[a].kind # "pull" /\ FilesHeld # {}
  <2> DEFINE next == [To(a, "agents") EXCEPT !.read = FilesHeld]
  <2>1. job' = [job EXCEPT ![a] = next] /\ UNCHANGED <<repoOf, remote, dir, docs, base, clean>>
    BY <1>3 DEF ReadFiles, Steps, Goes
  <2>2. job[a].kind = "run"
    BY <1>1, <1>3 DEF DirIInv, JobsFit, Shaped, DirTypeOK, JobRecord, JobKinds
  <2>3. /\ next \in JobRecord /\ next.kind = "run" /\ next.at = "agents"
        /\ next.met = job[a].met /\ next.tip = job[a].tip /\ next.base = job[a].base
        /\ next.read = FilesHeld
    BY <2>2, FilesTyped DEF DirIInv, DirTypeOK, To, JobRecord, Places
  <2> HIDE DEF next
  <2>4. Undisturbed(a, dir, job[a]) /\ Alone(dir, job[a])
    BY DEF DirIInv, JobsFit
  <2>5. Undisturbed(a, dir, next)
    BY <1>1, <2>2, <2>3, <2>4, FilesTyped DEF Undisturbed, DirIInv
  <2>6. Shaped(next) /\ Alone(dir, next)
    BY <1>1, <2>2, <2>3, <2>4 DEF Shaped, Alone
  <2> QED BY <1>1, <2>1, <2>3, <2>5, <2>6, GoesIInv
<1> QED BY <1>2, <1>3

(* The agents read more of them. *)
LEMMA AgentsReadIInv == ASSUME DirIInv, NEW a \in Artifacts, AgentsRead(a) PROVE DirIInv'
<1> DEFINE next == [To(a, "done") EXCEPT !.read = @ \cup FilesHeld]
<1>1. job[a].at = "agents" /\ job[a].kind = "run" /\ dir.by # a
  BY NotCloner DEF AgentsRead, At, DirIInv, JobsFit, Shaped
<1>2. job' = [job EXCEPT ![a] = next] /\ UNCHANGED <<repoOf, remote, dir, docs, base, clean>>
  BY DEF AgentsRead, Steps, Goes
<1>3. /\ next \in JobRecord /\ next.kind = "run" /\ next.at = "done"
      /\ next.met = job[a].met /\ next.tip = job[a].tip /\ next.base = job[a].base
      /\ next.read = job[a].read \cup FilesHeld
  BY <1>1, FilesTyped DEF DirIInv, DirTypeOK, To, JobRecord, Places
<1> HIDE DEF next
<1>4. Undisturbed(a, dir, job[a]) /\ Alone(dir, job[a])
  BY DEF DirIInv, JobsFit
<1>5. Undisturbed(a, dir, next)
  BY <1>1, <1>3, <1>4, FilesTyped DEF Undisturbed, DirIInv
<1>6. Shaped(next) /\ Alone(dir, next)
  BY <1>1, <1>3, <1>4 DEF Shaped, Alone
<1> QED BY <1>1, <1>2, <1>3, <1>5, <1>6, GoesIInv

(* The documents and their baseline are written. *)
LEMMA PersistsIInv == ASSUME DirIInv, NEW a \in Artifacts, Persists(a) PROVE DirIInv'
<1> USE DEF DirIInv
<1>1. /\ job[a].at = "done" /\ job[a].kind = "run" /\ dir.by # a
      /\ docs' = [docs EXCEPT ![a] = job[a].read]
      /\ base' = [base EXCEPT ![a] = job[a].base]
      /\ clean' = [clean EXCEPT ![a] = (job[a].met = {})]
      /\ job' = [job EXCEPT ![a] = NoJob]
      /\ repoOf' = repoOf /\ remote' = remote /\ dir' = dir
  BY NotCloner DEF Persists, At, JobsFit, Shaped
<1>2. DirTypeOK'
  BY <1>1, EmptyValues DEF DirTypeOK, JobRecord
<1>3. \A b \in Artifacts : job'[b] = IF b = a THEN NoJob ELSE job[b]
  BY <1>1 DEF DirTypeOK
<1>4. ClonerAtIt'
  <2>1. dir.by # NoCommit => dir.by \in Artifacts
    BY DEF DirTypeOK, DirRecord
  <2> QED BY <2>1, <1>1, <1>3 DEF ClonerAtIt
<1>5. JobsFit'
  BY <1>1, <1>3, NoJobFits DEF JobsFit
<1>6. Described'
  <2> SUFFICES ASSUME NEW b \in Artifacts, clean'[b], base'[b] # NoCommit
               PROVE  docs'[b] = {base'[b]}
    BY DEF Described
  <2>1. CASE b = a
    BY <2>1, <1>1 DEF DirTypeOK, JobsFit, Undisturbed
  <2>2. CASE b # a
    BY <2>2, <1>1 DEF DirTypeOK, Described
  <2> QED BY <2>1, <2>2
<1> QED BY <1>2, <1>4, <1>5, <1>6

-----------------------------------------------------------------------------
(* Every step keeps the invariant. *)
LEMMA DirNextIInv == DirIInv /\ [CloneNext]_cloneVars => DirIInv'
<1> SUFFICES ASSUME DirIInv, [CloneNext]_cloneVars PROVE DirIInv'
  OBVIOUS
<1>1. ASSUME UNCHANGED <<repoOf, dir, job, docs, base, clean>>,
             remote' \in [tip : [Repos -> Nat], hangs : BOOLEAN]
      PROVE  DirIInv'
  <2>1. DirTypeOK' /\ ClonerAtIt'
    BY <1>1 DEF DirIInv, DirTypeOK, ClonerAtIt
  <2>2. JobsFit' /\ Described'
    BY <1>1 DEF DirIInv, JobsFit, Described
  <2> QED BY <2>1, <2>2 DEF DirIInv
<1>2. ASSUME NEW r \in Repos, PushTo(r) PROVE DirIInv'
  <2>1. remote' \in [tip : [Repos -> Nat], hangs : BOOLEAN]
    BY <1>2 DEF PushTo, DirIInv, DirTypeOK
  <2> QED BY <1>1, <1>2, <2>1 DEF PushTo
<1>3. CASE HostHangs
  <2>1. remote' \in [tip : [Repos -> Nat], hangs : BOOLEAN]
    BY <1>3 DEF HostHangs, DirIInv, DirTypeOK
  <2> QED BY <1>1, <1>3, <2>1 DEF HostHangs
<1>4. CASE Killed
  BY <1>4, KilledIInv
<1>5. ASSUME NEW a \in Artifacts, FetchFails(a) \/ TimesOut(a) PROVE DirIInv'
  <2>1. CASE FetchFails(a)
    BY <2>1, FetchLostIInv DEF FetchFails, At
  <2>2. CASE TimesOut(a)
    BY <2>2, StopsIInv, NotCloner DEF TimesOut, At, Steps
  <2> QED BY <1>5, <2>1, <2>2
<1>6. ASSUME NEW a \in Artifacts, ResetFails(a) PROVE DirIInv'
  <2>1. job[a].at = "reset" /\ job[a].kind = "run" /\ Goes(a, To(a, "remove"))
    BY <1>6 DEF ResetFails, At, DirIInv, JobsFit, Shaped
  <2> QED BY <2>1, QuietIInv DEF Places
<1>7. ASSUME NEW a \in Artifacts, Compare(a) PROVE DirIInv'
  BY <1>7, StopsIInv, NotCloner DEF Compare, At, Steps
<1>8. CASE UNCHANGED cloneVars
  BY <1>1, <1>8 DEF cloneVars, DirIInv, DirTypeOK
<1> QED
  BY <1>2, <1>3, <1>4, <1>5, <1>6, <1>7, <1>8, BeginIInv, LookIInv, FetchIInv,
     WriteFetchHeadIInv, ResetTreeIInv, RemoveTreeIInv, CloneBeginIInv, CloneEndIInv,
     CloneFailsIInv, ReadHeadIInv, ReadFilesIInv, AgentsReadIInv, PersistsIInv
     DEF CloneNext

(* DirIInv: what the directory is to each job that uses it, and what the      *)
(* documents of an undisturbed run are about (download_repo and the head   *)
(* of generate_codebase_docs).                                             *)
THEOREM DirInvariance == CloneSpec => []DirIInv
<1>1. CloneInit => DirIInv
  BY DirInitIInv
<1>2. DirIInv /\ [CloneNext]_cloneVars => DirIInv'
  BY DirNextIInv
<1> QED
  BY <1>1, <1>2, PTL DEF CloneSpec

(* RunDescribesTip: a run nobody disturbs is about the commit that was the *)
(* tip when it fetched or cloned, whatever the directory held.             *)
THEOREM RunsDescribeTheTip == CloneSpec => RunDescribesTip
<1>1. DirIInv /\ [CloneNext]_cloneVars =>
        [\A a \in Artifacts : Persists(a) /\ job[a].met = {} =>
           docs'[a] = {job[a].tip} /\ base'[a] = job[a].tip]_cloneVars
  <2> SUFFICES ASSUME DirIInv, NEW a \in Artifacts, Persists(a), job[a].met = {}
               PROVE  docs'[a] = {job[a].tip} /\ base'[a] = job[a].tip
    OBVIOUS
  <2>1. job[a].at = "done" /\ job[a].kind = "run"
    BY DEF Persists, At, DirIInv, JobsFit, Shaped
  <2>2. job[a].base = job[a].tip /\ job[a].read = {job[a].base}
    BY <2>1 DEF DirIInv, JobsFit, Undisturbed, Alone
  <2> QED BY <2>2 DEF Persists, DirIInv, DirTypeOK
<1> QED
  BY <1>1, DirInvariance, PTL DEF CloneSpec, RunDescribesTip

(* DetectKeepsCheckout: detections never make a run's documents and its    *)
(* baseline disagree.                                                      *)
THEOREM DetectionsKeepTheCheckout == CloneSpec => DetectKeepsCheckout
<1>1. DirIInv /\ [CloneNext]_cloneVars =>
        [\A a \in Artifacts : Persists(a) /\ job[a].met \subseteq {"detect"} =>
           docs'[a] = {base'[a]}]_cloneVars
  <2> SUFFICES ASSUME DirIInv, NEW a \in Artifacts, Persists(a), job[a].met \subseteq {"detect"}
               PROVE  docs'[a] = {base'[a]}
    OBVIOUS
  <2>1. job[a].at = "done" /\ job[a].kind = "run"
    BY DEF Persists, At, DirIInv, JobsFit, Shaped
  <2>2. job[a].read = {job[a].base}
    BY <2>1 DEF DirIInv, JobsFit, Undisturbed
  <2> QED BY <2>2 DEF Persists, DirIInv, DirTypeOK
<1> QED
  BY <1>1, DirInvariance, PTL DEF CloneSpec, DetectKeepsCheckout

(* UnchangedIsCurrent: an undisturbed detection that says "unchanged" of   *)
(* undisturbed documents has fetched the very commit they are about.       *)
THEOREM UnchangedMeansCurrent == CloneSpec => UnchangedIsCurrent
<1>1. DirIInv /\ [CloneNext]_cloneVars =>
        [\A a \in Artifacts :
           Compare(a) /\ Answer(a) = "unchanged" /\ job[a].met = {} /\ clean[a]
           => docs[a] = {job[a].tip}]_cloneVars
  <2> SUFFICES ASSUME DirIInv, NEW a \in Artifacts, Compare(a), Answer(a) = "unchanged",
                      job[a].met = {}, clean[a]
               PROVE  docs[a] = {job[a].tip}
    OBVIOUS
  <2>1. job[a].at = "compare"
    BY DEF Compare, At
  <2>2. dir.fetched = job[a].tip
    BY <2>1 DEF DirIInv, JobsFit, Alone
  <2>3. dir.fetched # NoCommit /\ dir.fetched = base[a]
    BY DEF Answer, Seen, SeenTip
  <2> QED BY <2>2, <2>3 DEF DirIInv, Described
<1> QED
  BY <1>1, DirInvariance, PTL DEF CloneSpec, UnchangedIsCurrent
=============================================================================
