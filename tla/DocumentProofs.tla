--------------------------- MODULE DocumentProofs ---------------------------
(***************************************************************************)
(* Proofs about the documents of an artifact.  DocVersions: the history    *)
(* stays well formed, every version reads as the pages it was made of, the *)
(* row follows its current version, and a rollback is exact, for every     *)
(* bound and every set of pages.  UnitWriting with MermaidRepair: a page   *)
(* leaves the repair loop only when the reader is told of each diagram     *)
(* that does not render, for every page, plan and budget.                  *)
(*                                                                         *)
(* A base chain is defined as a least closed set, so its laws (ChainFull,  *)
(* ChainStep, ChainFrame) are proved without an induction over versions.   *)
(***************************************************************************)
EXTENDS DocVersions, UnitWriting, FiniteSetTheorems, WellFoundedInduction, TLAPS

\* A history whose deltas have an older base.
History(h) ==
    /\ DOMAIN h \subseteq Versions /\ \A v \in DOMAIN h : h[v] \in Rows
    /\ \A v \in DOMAIN h : h[v].base # 0 => h[v].base \in DOMAIN h /\ h[v].base < v

\* Every version of h reads as it was made.
Faithful(h) == \A v \in DOMAIN h : PagesOf(h, v) = h[v].shown

\* No chain of h is longer than the cap allows.
Capped(h) == \A v \in DOMAIN h : Cardinality(Chain(h, v)) <= MaxChain + 1

\* current_version of a is the newest version of h.
Points(h, a) ==
    IF DOMAIN h = {} THEN a.current = 0
    ELSE a.current \in DOMAIN h /\ \A v \in DOMAIN h : v <= a.current

\* The inductive invariant.
IInv == TypeOK /\ History(ver) /\ Faithful(ver) /\ Capped(ver) /\ Points(ver, art)
          /\ RowIsCurrent

-----------------------------------------------------------------------------
\* A nonempty set of versions has a greatest member.
LEMMA Greatest ==
    ASSUME NEW S \in SUBSET Versions, S # {}
    PROVE  \E m \in S : \A n \in S : n <= m
<1> DEFINE Above(m) == {n \in S : n > m}
           Uppers == {Above(m) : m \in S}
<1>0. IsFiniteSet(S)
  <2>1. IsFiniteSet(Versions)
    BY FS_Interval, VersionsAssumption DEF Versions
  <2> QED BY <2>1, FS_Subset
<1>1. Uppers \subseteq FiniteSubsetsOf(S) /\ Uppers # {}
  <2>1. \A m \in S : Above(m) \in SUBSET S /\ IsFiniteSet(Above(m))
    BY <1>0, FS_Subset
  <2> HIDE DEF Above
  <2> QED BY <2>1 DEF FiniteSubsetsOf
<1>2. IsWellFoundedOn(StrictSubsetOrdering(S), FiniteSubsetsOf(S))
  BY <1>0, FS_StrictSubsetOrderingWellFounded
<1>3. PICK F \in Uppers : \A G \in Uppers : <<G, F>> \notin StrictSubsetOrdering(S)
  <2> HIDE DEF Uppers
  <2> QED BY <1>1, <1>2, WFMin
<1>4. PICK m \in S : F = Above(m)
  BY <1>3
<1>5. SUFFICES ASSUME NEW n \in S, n > m PROVE FALSE
  BY <1>4 DEF Versions
<1>6. Above(n) \subseteq Above(m) /\ Above(n) # Above(m)
  <2>1. n \in Above(m) /\ n \notin Above(n)
    BY <1>5 DEF Versions
  <2>2. ASSUME NEW x \in S, x > n PROVE x > m
    BY <1>5, <2>2 DEF Versions
  <2> QED BY <2>1, <2>2
<1>7. <<Above(n), Above(m)>> \in StrictSubsetOrdering(S)
  BY <1>6 DEF StrictSubsetOrdering
<1> QED
  BY <1>3, <1>4, <1>7

\* ... which Max returns.
LEMMA MaxIs ==
    ASSUME NEW S \in SUBSET Versions, S # {}
    PROVE  Max(S) \in S /\ \A n \in S : n <= Max(S)
<1>1. \E m \in S : \A n \in S : m >= n
  BY Greatest DEF Versions
<1> QED
  BY <1>1 DEF Max, Versions

\* A member that bounds the set is its Max.
LEMMA MaxUnique ==
    ASSUME NEW S \in SUBSET Versions, NEW m \in S, \A n \in S : n <= m
    PROVE  Max(S) = m
<1>1. Max(S) \in S /\ m <= Max(S)
  BY MaxIs
<1>2. ASSUME NEW x \in S, m <= x PROVE x = m
  <2>1. x <= m
    OBVIOUS
  <2>2. x \in Int /\ m \in Int
    BY DEF Versions
  <2> QED BY <1>2, <2>1, <2>2
<1> QED
  BY <1>1, <1>2

\* A nonempty set of versions has a least member, which Min returns.
LEMMA MinIs ==
    ASSUME NEW S \in SUBSET Versions, S # {}
    PROVE  Min(S) \in S
<1> DEFINE R == {MaxVersion + 1 - x : x \in S}
<1>1. R \in SUBSET Versions /\ R # {}
  <2>1. ASSUME NEW x \in S PROVE MaxVersion + 1 - x \in Versions
    <3>1. x \in 1..MaxVersion /\ MaxVersion \in Nat
      BY VersionsAssumption DEF Versions
    <3> QED BY <3>1 DEF Versions
  <2> QED BY <2>1
<1>2. PICK r \in R : \A q \in R : q <= r
  <2> HIDE DEF R
  <2> QED BY <1>1, Greatest
<1>3. PICK m \in S : r = MaxVersion + 1 - m
  OBVIOUS
<1>4. ASSUME NEW y \in S PROVE m <= y
  <2>1. MaxVersion + 1 - y <= r
    BY <1>2
  <2>2. m \in Int /\ y \in Int /\ MaxVersion \in Int
    BY VersionsAssumption DEF Versions
  <2> QED BY <1>3, <2>1, <2>2
<1> QED
  BY <1>4 DEF Min

-----------------------------------------------------------------------------
(* Base chains *)

\* A chain is a closed set of stored versions from v downwards.
LEMMA ChainIs ==
    ASSUME NEW h, History(h), NEW v \in DOMAIN h
    PROVE  /\ Chain(h, v) \subseteq DOMAIN h
           /\ v \in Chain(h, v)
           /\ Closed(h, Chain(h, v))
           /\ \A u \in Chain(h, v) : u <= v
<1>1. Chain(h, v) \subseteq DOMAIN h /\ v \in Chain(h, v)
  BY DEF Chain
<1>2. Closed(h, Chain(h, v))
  BY DEF Chain, Closed
<1>3. ASSUME NEW u \in Chain(h, v) PROVE u <= v
  <2> DEFINE S == {x \in DOMAIN h : x <= v}
  <2>1. S \in SUBSET DOMAIN h /\ v \in S
    BY DEF History, Versions
  <2>2. ASSUME NEW x \in S, h[x].base \in DOMAIN h PROVE h[x].base <= v
    <3>1. h[x].base # 0 /\ h[x].base < x
      BY <2>2 DEF History, Versions
    <3> QED BY <3>1, <2>2 DEF History, Versions
  <2>3. Closed(h, S)
    BY <2>2 DEF Closed
  <2> QED BY <2>1, <2>3 DEF Chain
<1> QED
  BY <1>1, <1>2, <1>3

\* Chains are finite.
LEMMA ChainFinite ==
    ASSUME NEW h, History(h), NEW v \in DOMAIN h
    PROVE  IsFiniteSet(Chain(h, v))
<1>1. IsFiniteSet(Versions)
  BY FS_Interval, VersionsAssumption DEF Versions
<1>2. Chain(h, v) \subseteq Versions
  BY ChainIs DEF History
<1> QED
  BY <1>1, <1>2, FS_Subset

\* A full snapshot is a chain of its own.
LEMMA ChainFull ==
    ASSUME NEW h, History(h), NEW v \in DOMAIN h, h[v].base = 0
    PROVE  Chain(h, v) = {v}
<1>1. Closed(h, {v})
  BY DEF Closed, History, Versions
<1>2. v \in Chain(h, v)
  BY DEF Chain
<1>3. \A u \in Chain(h, v) : u \in {v}
  BY <1>1 DEF Chain
<1> QED
  BY <1>2, <1>3

\* A delta's chain is that of its base with the delta on top.
LEMMA ChainStep ==
    ASSUME NEW h, History(h), NEW v \in DOMAIN h, h[v].base # 0
    PROVE  Chain(h, v) = Chain(h, h[v].base) \cup {v}
<1> DEFINE b == h[v].base
           S == Chain(h, b) \cup {v}
<1>0. b \in DOMAIN h
  BY DEF History
<1>1. b \in Chain(h, b) /\ Closed(h, Chain(h, b)) /\ Chain(h, b) \subseteq DOMAIN h
  BY <1>0, ChainIs
<1>2. Chain(h, v) \subseteq S
  <2>1. Closed(h, S)
    BY <1>1 DEF Closed
  <2>2. S \in SUBSET DOMAIN h /\ v \in S
    BY <1>1
  <2> QED BY <2>1, <2>2 DEF Chain
<1>3. ASSUME NEW u \in Chain(h, b) PROVE u \in Chain(h, v)
  <2>1. u \in DOMAIN h
    BY <1>1
  <2>2. ASSUME NEW T \in SUBSET DOMAIN h, v \in T, Closed(h, T) PROVE u \in T
    <3>1. b \in T
      BY <1>0, <2>2 DEF Closed
    <3> QED BY <3>1, <2>2 DEF Chain
  <2> QED BY <2>1, <2>2 DEF Chain
<1>4. v \in Chain(h, v)
  BY ChainIs
<1> QED
  BY <1>2, <1>3, <1>4

\* A row that no other row is based on plays no part in the others' chains.
LEMMA ChainFrame ==
    ASSUME NEW g, NEW h, NEW n,
           DOMAIN h = DOMAIN g \cup {n}, n \notin DOMAIN g,
           \A v \in DOMAIN g : h[v] = g[v] /\ h[v].base # n,
           NEW v \in DOMAIN g
    PROVE  Chain(h, v) = Chain(g, v)
<1>1. ASSUME NEW u \in Chain(h, v) PROVE u \in Chain(g, v)
  <2>1. ASSUME NEW S \in SUBSET DOMAIN g, v \in S, Closed(g, S) PROVE u \in S
    <3>1. Closed(h, S)
      BY <2>1 DEF Closed
    <3>2. S \in SUBSET DOMAIN h
      OBVIOUS
    <3> QED BY <3>1, <3>2, <2>1 DEF Chain
  <2>2. Closed(g, DOMAIN g)
    BY DEF Closed
  <2> QED BY <2>1, <2>2 DEF Chain
<1>2. ASSUME NEW u \in Chain(g, v) PROVE u \in Chain(h, v)
  <2>1. ASSUME NEW S \in SUBSET DOMAIN h, v \in S, Closed(h, S) PROVE u \in S
    <3> DEFINE T == S \cap DOMAIN g
    <3>1. Closed(g, T)
      BY <2>1 DEF Closed
    <3> QED BY <3>1, <2>1 DEF Chain
  <2>2. u \in DOMAIN h
    BY DEF Chain
  <2> QED BY <2>1, <2>2 DEF Chain
<1> QED
  BY <1>1, <1>2

-----------------------------------------------------------------------------
(* Reading a version *)

\* Where the pages of a version come from.
LEMMA SayingIs ==
    ASSUME NEW h, History(h), NEW v \in DOMAIN h, NEW p \in PageIds
    PROVE  /\ Saying(h, v, p) \in SUBSET Versions
           /\ Saying(h, v, p) # {} => /\ Max(Saying(h, v, p)) \in DOMAIN h
                                      /\ Max(Saying(h, v, p)) \in Saying(h, v, p)
<1>1. Saying(h, v, p) \subseteq Chain(h, v)
  BY DEF Saying
<1>2. Chain(h, v) \subseteq DOMAIN h
  BY ChainIs
<1>3. DOMAIN h \subseteq Versions
  BY DEF History
<1>4. Saying(h, v, p) # {} => Max(Saying(h, v, p)) \in Saying(h, v, p)
  BY <1>1, <1>2, <1>3, MaxIs
<1> QED
  BY <1>1, <1>2, <1>3, <1>4

\* Reading a version gives a page tree.
LEMMA PagesType ==
    ASSUME NEW h, History(h), NEW v \in DOMAIN h
    PROVE  PagesOf(h, v) \in PageTrees
<1>1. ASSUME NEW p \in PageIds, Saying(h, v, p) # {}
      PROVE  h[Max(Saying(h, v, p))].pages[p] \in Texts \cup {Nothing}
  <2>1. Max(Saying(h, v, p)) \in DOMAIN h
    BY <1>1, SayingIs
  <2> QED BY <2>1 DEF History, Rows, PageTrees
<1> QED
  BY <1>1 DEF PagesOf, PageTrees

\* A full snapshot reads as stored.
LEMMA PagesFull ==
    ASSUME NEW h, History(h), NEW v \in DOMAIN h, h[v].base = 0
    PROVE  PagesOf(h, v) = h[v].pages
<1>1. h[v].pages \in PageTrees /\ v \in Versions
  BY DEF History, Rows
<1>2. ASSUME NEW p \in PageIds PROVE PagesOf(h, v)[p] = h[v].pages[p]
  <2>1. Saying(h, v, p) = IF h[v].pages[p] # Nothing THEN {v} ELSE {}
    BY ChainFull DEF Saying
  <2>2. Max({v}) = v
    BY <1>1, MaxUnique DEF Versions
  <2> QED BY <2>1, <2>2 DEF PagesOf
<1>3. PagesOf(h, v) = [p \in PageIds |-> PagesOf(h, v)[p]]
  BY DEF PagesOf
<1> QED
  BY <1>1, <1>2, <1>3 DEF PageTrees

\* A delta reads as its base with the stored pages on top.
LEMMA PagesStep ==
    ASSUME NEW h, History(h), NEW v \in DOMAIN h, h[v].base # 0, NEW p \in PageIds
    PROVE  PagesOf(h, v)[p] = IF h[v].pages[p] # Nothing THEN h[v].pages[p]
                              ELSE PagesOf(h, h[v].base)[p]
<1> DEFINE b == h[v].base
<1>0. b \in DOMAIN h /\ v \in Versions
  BY DEF History
<1>1. Chain(h, v) = Chain(h, b) \cup {v}
  BY ChainStep
<1>2. CASE h[v].pages[p] # Nothing
  <2>1. v \in Saying(h, v, p)
    BY <1>1, <1>2 DEF Saying
  <2>2. \A u \in Saying(h, v, p) : u <= v
    BY ChainIs DEF Saying
  <2>3. Saying(h, v, p) \in SUBSET Versions
    BY SayingIs
  <2>4. Max(Saying(h, v, p)) = v
    BY <2>1, <2>2, <2>3, MaxUnique
  <2> QED BY <2>1, <2>4, <1>2 DEF PagesOf
<1>3. CASE h[v].pages[p] = Nothing
  <2>1. Saying(h, v, p) = Saying(h, b, p)
    BY <1>1, <1>3 DEF Saying
  <2> QED BY <2>1, <1>3 DEF PagesOf
<1> QED
  BY <1>2, <1>3

\* Rows that no other row is based on play no part in what the others read.
LEMMA PagesFrame ==
    ASSUME NEW g, NEW h, NEW n, History(g),
           DOMAIN h = DOMAIN g \cup {n}, n \notin DOMAIN g,
           \A v \in DOMAIN g : h[v] = g[v] /\ h[v].base # n,
           NEW v \in DOMAIN g
    PROVE  PagesOf(h, v) = PagesOf(g, v)
<1>1. Chain(h, v) = Chain(g, v)
  BY ChainFrame
<1>2. Chain(g, v) \subseteq DOMAIN g
  BY ChainIs
<1>3. ASSUME NEW p \in PageIds PROVE PagesOf(h, v)[p] = PagesOf(g, v)[p]
  <2>1. Saying(h, v, p) = Saying(g, v, p)
    BY <1>1, <1>2 DEF Saying
  <2>2. Saying(g, v, p) # {} => Max(Saying(g, v, p)) \in DOMAIN g
    BY SayingIs
  <2> QED BY <2>1, <2>2 DEF PagesOf
<1> QED
  BY <1>3 DEF PagesOf

-----------------------------------------------------------------------------
(* Appending a version *)

\* The newest version and the number of the next one.
LEMMA TopIs ==
    ASSUME NEW h, History(h)
    PROVE  /\ Top(h) \in {0} \cup Versions
           /\ DOMAIN h = {} => Top(h) = 0
           /\ DOMAIN h # {} => Top(h) \in DOMAIN h
           /\ \A v \in DOMAIN h : v <= Top(h)
           /\ NextVersion(h) \in Nat \ {0} /\ NextVersion(h) \notin DOMAIN h
           /\ NextVersion(h) <= MaxVersion => NextVersion(h) \in Versions
<1>1. DOMAIN h \in SUBSET Versions
  BY DEF History
<1>2. CASE DOMAIN h = {}
  BY <1>2, VersionsAssumption DEF Top, NextVersion, Versions
<1>3. CASE DOMAIN h # {}
  <2>1. Top(h) \in DOMAIN h /\ \A v \in DOMAIN h : v <= Top(h)
    BY <1>1, <1>3, MaxIs DEF Top
  <2>2. Top(h) \in Versions
    BY <2>1, <1>1
  <2>3. Top(h) + 1 \notin DOMAIN h
    BY <2>1, <2>2, <1>1 DEF Versions
  <2> QED BY <1>3, <2>1, <2>2, <2>3, VersionsAssumption DEF NextVersion, Versions
<1> QED
  BY <1>2, <1>3

\* The pages that are to be stored in a delta.
LEMMA ChangedType ==
    ASSUME NEW from \in PageTrees, NEW to \in PageTrees
    PROVE  Changed(from, to) \in PageTrees
BY DEF Changed, PageTrees

\* Appending a full snapshot, or a delta that adds up to the artifact's pages,
\* keeps the history faithful, and the new version reads as the artifact.
LEMMA AppendedIs ==
    ASSUME NEW h, History(h), Faithful(h), Capped(h),
           NEW a \in Artifacts, NextVersion(h) <= MaxVersion,
           NEW base \in {0} \cup DOMAIN h,
           base # 0 => /\ Short(h, base)
                       /\ Overrides(h, a) \in PageTrees
                       /\ \A p \in PageIds :
                             a.pages[p] = IF Overrides(h, a)[p] # Nothing
                                          THEN Overrides(h, a)[p]
                                          ELSE PagesOf(h, base)[p]
    PROVE  LET g == Appended(h, a, base)
               n == NextVersion(h)
           IN  /\ History(g) /\ Faithful(g) /\ Capped(g)
               /\ Pointed(h, a) \in Artifacts /\ Points(g, Pointed(h, a))
               /\ n \in DOMAIN g /\ PagesOf(g, n) = a.pages
               /\ base = 0 => g[n].blob = a.blob
               /\ g[n].base = base
<1> DEFINE g == Appended(h, a, base)
           n == NextVersion(h)
           fresh == IF base = 0 THEN FullRow(a) ELSE DeltaRow(h, a, base)
<1>1. /\ n \in Versions /\ n \notin DOMAIN h /\ n # 0
      /\ DOMAIN h \subseteq Versions /\ \A v \in DOMAIN h : v < n
  <2>1. n \in Versions /\ n \notin DOMAIN h /\ n # 0 /\ DOMAIN h \subseteq Versions
    BY TopIs DEF History, Versions
  <2>2. \A v \in DOMAIN h : v <= Top(h)
    BY TopIs
  <2>3. Top(h) \in Int /\ \A v \in DOMAIN h : v \in Int
    BY <2>1, TopIs DEF Versions
  <2> QED BY <2>1, <2>2, <2>3 DEF NextVersion
<1>2. /\ DOMAIN g = DOMAIN h \cup {n}
      /\ g[n] = fresh
      /\ \A v \in DOMAIN h : g[v] = h[v]
  BY <1>1 DEF Appended
<1>3. fresh \in Rows /\ fresh.base = base /\ fresh.shown = a.pages
  BY <1>1 DEF Artifacts, FullRow, DeltaRow, Rows, History, AnyBlob
<1>4. History(g)
  <2>1. DOMAIN g \subseteq Versions
    BY <1>1, <1>2
  <2>2. \A v \in DOMAIN g : g[v] \in Rows
    BY <1>2, <1>3 DEF History
  <2>3. ASSUME NEW v \in DOMAIN g, g[v].base # 0
        PROVE  g[v].base \in DOMAIN g /\ g[v].base < v
    BY <1>1, <1>2, <1>3, <2>3 DEF History
  <2> QED BY <2>1, <2>2, <2>3 DEF History
<1>5. \A v \in DOMAIN h : g[v] = h[v] /\ g[v].base # n
  BY <1>1, <1>2 DEF History
<1> HIDE DEF g, fresh
<1>6. \A v \in DOMAIN h : Chain(g, v) = Chain(h, v) /\ PagesOf(g, v) = PagesOf(h, v)
  BY <1>1, <1>2, <1>5, ChainFrame, PagesFrame
<1>7. PagesOf(g, n) = a.pages
  <2>1. CASE base = 0
    <3>1. fresh.pages = a.pages
      BY <2>1 DEF fresh, FullRow
    <3> QED BY <1>2, <1>3, <1>4, <2>1, <3>1, PagesFull
  <2>2. CASE base # 0
    <3>1. fresh.pages = Overrides(h, a)
      BY <2>2 DEF fresh, DeltaRow
    <3>2. ASSUME NEW p \in PageIds PROVE PagesOf(g, n)[p] = a.pages[p]
      BY <1>2, <1>3, <1>4, <1>6, <2>2, <3>1, PagesStep
    <3>3. a.pages \in PageTrees /\ PagesOf(g, n) \in PageTrees
      BY <1>2, <1>4, PagesType DEF Artifacts
    <3> QED BY <3>2, <3>3 DEF PageTrees
  <2> QED BY <2>1, <2>2
<1>8. Faithful(g)
  BY <1>2, <1>3, <1>6, <1>7 DEF Faithful
<1>9. Cardinality(Chain(g, n)) <= MaxChain + 1
  <2>1. CASE base = 0
    <3>1. Chain(g, n) = {n}
      BY <1>2, <1>3, <1>4, <2>1, ChainFull
    <3> QED BY <3>1, FS_Singleton, VersionsAssumption
  <2>2. CASE base # 0
    <3>1. Chain(g, n) = Chain(h, base) \cup {n}
      BY <1>2, <1>3, <1>4, <1>6, <2>2, ChainStep
    <3>2. Chain(h, base) \subseteq DOMAIN h
      BY <2>2, ChainIs
    <3>3. IsFiniteSet(Chain(h, base)) /\ n \notin Chain(h, base)
      BY <1>1, <2>2, <3>2, ChainFinite
    <3>4. Cardinality(Chain(g, n)) = Cardinality(Chain(h, base)) + 1
      BY <3>1, <3>3, FS_AddElement
    <3>5. Cardinality(Chain(h, base)) \in Nat
      BY <3>3, FS_CardinalityType
    <3> QED BY <2>2, <3>4, <3>5, VersionsAssumption DEF Short
  <2> QED BY <2>1, <2>2
<1>10. Capped(g)
  BY <1>2, <1>6, <1>9 DEF Capped
<1>11. Pointed(h, a) \in Artifacts /\ Pointed(h, a).current = n
  BY <1>1 DEF Pointed, Artifacts
<1>12. Points(g, Pointed(h, a))
  <2>1. \A v \in DOMAIN g : v <= n
    BY <1>1, <1>2 DEF Versions
  <2> QED BY <1>2, <1>11, <2>1 DEF Points
<1>13. base = 0 => g[n].blob = a.blob
  BY <1>2 DEF fresh, FullRow
<1> QED
  BY <1>2, <1>3, <1>4, <1>7, <1>8, <1>10, <1>11, <1>12, <1>13 DEF g

\* What _auto_delta asks of a base, if it takes one.
GoodBase(h, a, base) ==
    base # 0 =>
        /\ base = a.current /\ a.current \in DOMAIN h /\ Short(h, a.current)
        /\ \A p \in PageIds : PagesOf(h, a.current)[p] # Nothing => a.pages[p] # Nothing

\* The delta that append_version finds by itself adds up to the artifact.
LEMMA AutoBaseIs ==
    ASSUME NEW h, History(h), NEW a \in Artifacts, NEW base, GoodBase(h, a, base)
    PROVE  /\ base \in {0} \cup DOMAIN h
           /\ base # 0 => /\ Short(h, base)
                          /\ Overrides(h, a) \in PageTrees
                          /\ \A p \in PageIds :
                                a.pages[p] = IF Overrides(h, a)[p] # Nothing
                                             THEN Overrides(h, a)[p]
                                             ELSE PagesOf(h, base)[p]
<1>1. CASE base = 0
  BY <1>1
<1>2. CASE base # 0
  <2>1. /\ base = a.current /\ a.current \in DOMAIN h /\ Short(h, a.current)
        /\ \A p \in PageIds : PagesOf(h, a.current)[p] # Nothing => a.pages[p] # Nothing
    BY <1>2 DEF GoodBase
  <2>2. Overrides(h, a) \in PageTrees
    BY <2>1, PagesType, ChangedType DEF Overrides, Artifacts
  <2>3. ASSUME NEW p \in PageIds
        PROVE  a.pages[p] = IF Overrides(h, a)[p] # Nothing THEN Overrides(h, a)[p]
                            ELSE PagesOf(h, base)[p]
    BY <2>1 DEF Overrides, Changed
  <2> QED BY <2>1, <2>2, <2>3
<1> QED
  BY <1>1, <1>2

\* ensure_baseline_version keeps the history well formed and faithful.
LEMMA BaselineIs ==
    ASSUME NEW h, NEW a \in Artifacts, History(h), Faithful(h), Capped(h), Points(h, a)
    PROVE  LET g == BaselineHistory(h, a)
               b == BaselineArtifact(h, a)
           IN  /\ History(g) /\ Faithful(g) /\ Capped(g)
               /\ b \in Artifacts /\ Points(g, b) /\ b.pages = a.pages
               /\ Legacy(h, a) => /\ b.current \in DOMAIN g
                                  /\ PagesOf(g, b.current) = b.pages
                                  /\ g[b.current].base = 0
                                  /\ g[b.current].blob = b.blob
               /\ ~Legacy(h, a) => g = h /\ b = a
<1>1. CASE ~Legacy(h, a)
  BY <1>1 DEF BaselineHistory, BaselineArtifact
<1>2. CASE Legacy(h, a)
  <2>1. NextVersion(h) <= MaxVersion
    BY <1>2, TopIs, VersionsAssumption DEF Legacy, NextVersion
  <2>2. Pointed(h, a).pages = a.pages /\ Pointed(h, a).blob = a.blob
        /\ Pointed(h, a).current = NextVersion(h)
    BY DEF Pointed, Artifacts
  <2> QED BY <1>2, <2>1, <2>2, AppendedIs DEF BaselineHistory, BaselineArtifact
<1> QED
  BY <1>1, <1>2

-----------------------------------------------------------------------------
(* The invariant *)

\* The record of no run is one of the run records.
LEMMA IdleType == Idle \in Runs
BY DEF Idle, Runs

\* The initial state satisfies the invariant.
LEMMA InitIInv == Init => IInv
<1> SUFFICES ASSUME Init PROVE IInv
  OBVIOUS
<1>1. DOMAIN ver = {}
  BY DEF Init
<1>2. art \in Artifacts /\ art.current = 0
  BY DEF Init, Trees, Artifacts, PageTrees, NoPages
<1>3. job \in Runs
  BY IdleType DEF Init
<1>4. TypeOK
  BY <1>1, <1>2, <1>3 DEF Init, TypeOK
<1>5. History(ver) /\ Faithful(ver) /\ Capped(ver) /\ Points(ver, art)
  BY <1>1, <1>2 DEF History, Faithful, Capped, Points
<1> QED
  BY <1>2, <1>4, <1>5 DEF IInv, RowIsCurrent

\* A commit on top of a good history keeps it good, and the row follows.
LEMMA CommitIs ==
    ASSUME NEW h, History(h), Faithful(h), Capped(h),
           NEW a \in Artifacts, NEW base \in {0} \cup DOMAIN h,
           base # 0 => /\ Short(h, base)
                       /\ Overrides(h, a) \in PageTrees
                       /\ \A p \in PageIds :
                             a.pages[p] = IF Overrides(h, a)[p] # Nothing
                                          THEN Overrides(h, a)[p]
                                          ELSE PagesOf(h, base)[p],
           Commit(h, a, base), paged' \in BOOLEAN, job' \in Runs
    PROVE  IInv'
<1>1. /\ ver' = Appended(h, a, base) /\ art' = Pointed(h, a) /\ clean' = TRUE
      /\ NextVersion(h) <= MaxVersion
  BY DEF Commit
<1>2. /\ History(ver') /\ Faithful(ver') /\ Capped(ver') /\ Points(ver', art')
      /\ art' \in Artifacts
      /\ PagesOf(ver', NextVersion(h)) = a.pages
      /\ ver'[NextVersion(h)].base = base
      /\ base = 0 => ver'[NextVersion(h)].blob = a.blob
  BY <1>1, AppendedIs
<1>3. TypeOK'
  BY <1>1, <1>2 DEF TypeOK, History
<1>4. art'.pages = a.pages /\ art'.blob = a.blob /\ art'.current = NextVersion(h)
  BY <1>1 DEF Pointed, Artifacts
<1>5. RowIsCurrent'
  BY <1>2, <1>4 DEF RowIsCurrent
<1> QED
  BY <1>2, <1>3, <1>5 DEF IInv

\* An edit, after the baseline it may take first.
LEMMA EditIInv == ASSUME IInv, Edit PROVE IInv'
<1> DEFINE h == BaselineHistory(ver, art)
           b == BaselineArtifact(ver, art)
<1>1. PICK a \in Edits(b) : Commit(h, a, AutoBase(h, a, TRUE))
  BY DEF Edit
<1>3. History(h) /\ Faithful(h) /\ Capped(h) /\ b \in Artifacts
  BY BaselineIs DEF IInv, TypeOK
<1>4. a \in Artifacts
  BY <1>1, <1>3 DEF Edits, Artifacts, AnyBlob
<1>5. paged' \in BOOLEAN /\ job' \in Runs
  BY DEF Edit, IInv, TypeOK
<1> DEFINE base == AutoBase(h, a, TRUE)
<1>6. /\ base \in {0} \cup DOMAIN h
      /\ base # 0 => /\ Short(h, base)
                     /\ Overrides(h, a) \in PageTrees
                     /\ \A p \in PageIds :
                           a.pages[p] = IF Overrides(h, a)[p] # Nothing
                                        THEN Overrides(h, a)[p]
                                        ELSE PagesOf(h, base)[p]
  <2>1. GoodBase(h, a, base)
    BY DEF GoodBase, AutoBase
  <2> HIDE DEF h, base
  <2> QED BY <2>1, <1>3, <1>4, AutoBaseIs
<1>7. Commit(h, a, base)
  BY <1>1
<1> HIDE DEF h, b, base
<1> QED
  BY <1>3, <1>4, <1>5, <1>6, <1>7, CommitIs

\* The start of a run: at most the baseline changes.
LEMMA StartJobIInv == ASSUME IInv, NEW scoped \in BOOLEAN, StartJob(scoped) PROVE IInv'
<1> DEFINE h == BaselineHistory(ver, art)
           b == BaselineArtifact(ver, art)
<1>1. /\ ver' = h /\ art' = b /\ clean' = (clean \/ Legacy(ver, art))
      /\ job' = [on |-> TRUE, scoped |-> scoped]
      /\ paged' = paged
  BY DEF StartJob
<1>2. /\ History(h) /\ Faithful(h) /\ Capped(h)
      /\ b \in Artifacts /\ Points(h, b)
  BY BaselineIs DEF IInv, TypeOK
<1>3. clean' \in BOOLEAN /\ job' \in Runs /\ paged' \in BOOLEAN
  BY <1>1, <1>2 DEF Runs, IInv, TypeOK, Legacy
<1>4. TypeOK'
  BY <1>1, <1>2, <1>3 DEF TypeOK, History
<1>5. RowIsCurrent'
  <2>1. CASE Legacy(ver, art)
    <3>1. PagesOf(h, b.current) = b.pages /\ h[b.current].blob = b.blob
      BY <2>1, BaselineIs DEF IInv, TypeOK
    <3> QED BY <1>1, <3>1 DEF RowIsCurrent
  <2>2. CASE ~Legacy(ver, art)
    <3>1. h = ver /\ b = art
      BY <2>2 DEF BaselineHistory, BaselineArtifact
    <3> QED BY <1>1, <2>2, <3>1 DEF RowIsCurrent, IInv, TypeOK
  <2> QED BY <2>1, <2>2
<1> QED
  BY <1>1, <1>2, <1>4, <1>5 DEF IInv

\* A checkpoint touches the row alone, which is not clean any more.
LEMMA CheckpointIInv == ASSUME IInv, Checkpoint PROVE IInv'
<1>1. PICK pages \in PageTrees, blob \in Blobs :
         art' = [art EXCEPT !.pages = pages, !.blob = blob]
  BY DEF Checkpoint
<1>2. art' \in Artifacts /\ art'.current = art.current
  BY <1>1 DEF IInv, TypeOK, Artifacts, AnyBlob
<1>3. clean' = FALSE /\ ver' = ver /\ job' = job /\ paged' = paged
  BY DEF Checkpoint
<1>4. TypeOK'
  BY <1>2, <1>3 DEF IInv, TypeOK
<1> QED
  BY <1>2, <1>3, <1>4 DEF IInv, Points, RowIsCurrent

\* The final commit of a run.
LEMMA FinishJobIInv == ASSUME IInv, FinishJob PROVE IInv'
<1>1. PICK pages \in PageTrees, blob \in Blobs :
         LET a == [art EXCEPT !.pages = pages, !.blob = blob]
         IN  Commit(ver, a, AutoBase(ver, a, job.scoped))
  BY DEF FinishJob, PageTrees, NoPages
<1> DEFINE a == [art EXCEPT !.pages = pages, !.blob = blob]
           base == AutoBase(ver, a, job.scoped)
<1>2. a \in Artifacts
  BY DEF IInv, TypeOK, Artifacts, AnyBlob
<1>3. paged' \in BOOLEAN /\ job' \in Runs
  BY IdleType DEF FinishJob, IInv, TypeOK
<1>4. Commit(ver, a, base)
  BY <1>1
<1> HIDE DEF a
<1>5. /\ base \in {0} \cup DOMAIN ver
      /\ base # 0 => /\ Short(ver, base)
                     /\ Overrides(ver, a) \in PageTrees
                     /\ \A p \in PageIds :
                           a.pages[p] = IF Overrides(ver, a)[p] # Nothing
                                        THEN Overrides(ver, a)[p]
                                        ELSE PagesOf(ver, base)[p]
  <2>1. GoodBase(ver, a, base)
    BY DEF GoodBase, AutoBase
  <2> HIDE DEF base
  <2> QED BY <2>1, <1>2, AutoBaseIs DEF IInv
<1> HIDE DEF base
<1> QED
  BY <1>2, <1>3, <1>4, <1>5, CommitIs DEF IInv

\* A cancelled run puts the current version back on the row.
LEMMA CancelJobIInv == ASSUME IInv, CancelJob PROVE IInv'
<1>1. ver' = ver /\ paged' = paged /\ job' = Idle /\ clean' = TRUE
  BY DEF CancelJob
<1>2. CASE art.current \in DOMAIN ver
  <2> DEFINE c == art.current
  <2>1. art' = [art EXCEPT !.pages = PagesOf(ver, c), !.blob = BlobOf(ver, c)]
    BY <1>2 DEF CancelJob
  <2>2. PagesOf(ver, c) \in PageTrees
    BY <1>2, PagesType DEF IInv
  <2>3. Chain(ver, c) \subseteq DOMAIN ver /\ c \in Chain(ver, c) /\ DOMAIN ver \subseteq Versions
    BY <1>2, ChainIs DEF IInv, History
  <2>4. Min(Chain(ver, c)) \in DOMAIN ver
    BY <2>3, MinIs
  <2>5. BlobOf(ver, c) \in AnyBlob
    BY <2>4 DEF BlobOf, IInv, TypeOK, Rows
  <2>6. ver[c].base = 0 => BlobOf(ver, c) = ver[c].blob
    <3>1. SUFFICES ASSUME ver[c].base = 0 PROVE Min(Chain(ver, c)) = c
      BY DEF BlobOf
    <3>2. Chain(ver, c) = {c}
      BY <1>2, <3>1, ChainFull DEF IInv
    <3> QED BY <2>3, <3>2, MinIs
  <2>7. art' \in Artifacts /\ art'.current = c
        /\ art'.pages = PagesOf(ver, c) /\ art'.blob = BlobOf(ver, c)
    <3> HIDE DEF c
    <3> QED BY <2>1, <2>2, <2>5 DEF IInv, TypeOK, Artifacts, c
  <2>8. RowIsCurrent'
    BY <1>1, <2>6, <2>7 DEF RowIsCurrent
  <2> QED BY <1>1, <2>7, <2>8, IdleType DEF IInv, TypeOK, Points
<1>3. CASE art.current \notin DOMAIN ver
  <2>1. art.current = 0
    BY <1>3 DEF IInv, Points
  <2>2. art' \in Artifacts /\ art'.current = 0
    BY <1>3, <2>1 DEF CancelJob, IInv, TypeOK, Artifacts, PageTrees, NoPages, AnyBlob
  <2> QED BY <1>1, <2>1, <2>2, IdleType DEF IInv, TypeOK, Points, RowIsCurrent
<1> QED
  BY <1>2, <1>3

\* A rollback appends what the version reads as.
LEMMA RestoreIInv == ASSUME IInv, NEW v \in Versions, Restore(v) PROVE IInv'
<1> DEFINE a == Restored(v)
           base == IF /\ paged
                      /\ art.current \in DOMAIN ver
                      /\ Overrides(ver, a) # NoPages
                      /\ Short(ver, v)
                   THEN v ELSE 0
<1>1. v \in DOMAIN ver /\ Commit(ver, a, base)
  BY DEF Restore
<1>2. PagesOf(ver, v) \in PageTrees
  BY <1>1, PagesType DEF IInv
<1>3. BlobOf(ver, v) \in AnyBlob
  <2>1. Chain(ver, v) \subseteq DOMAIN ver /\ v \in Chain(ver, v) /\ DOMAIN ver \subseteq Versions
    BY <1>1, ChainIs DEF IInv, History
  <2>2. Min(Chain(ver, v)) \in DOMAIN ver
    BY <2>1, MinIs
  <2> QED BY <2>2 DEF BlobOf, IInv, TypeOK, Rows
<1>4. a \in Artifacts /\ a.pages = PagesOf(ver, v) /\ a.current = art.current
  BY <1>2, <1>3 DEF Restored, IInv, TypeOK, Artifacts
<1> HIDE DEF a
<1>5. /\ base \in {0} \cup DOMAIN ver
      /\ base # 0 => /\ Short(ver, base)
                     /\ Overrides(ver, a) \in PageTrees
                     /\ \A p \in PageIds :
                           a.pages[p] = IF Overrides(ver, a)[p] # Nothing
                                        THEN Overrides(ver, a)[p]
                                        ELSE PagesOf(ver, base)[p]
  <2>1. CASE base = 0
    BY <2>1
  <2>2. CASE base # 0
    <3>1. base = v /\ art.current \in DOMAIN ver /\ Short(ver, v)
      BY <2>2
    <3>2. Overrides(ver, a) \in PageTrees
      BY <1>2, <1>4, <3>1, PagesType, ChangedType DEF Overrides, IInv
    <3>3. ASSUME NEW p \in PageIds
          PROVE  a.pages[p] = IF Overrides(ver, a)[p] # Nothing
                              THEN Overrides(ver, a)[p] ELSE PagesOf(ver, v)[p]
      BY <1>4 DEF Overrides, Changed
    <3> QED BY <1>1, <3>1, <3>2, <3>3
  <2> QED BY <2>1, <2>2
<1>6. paged' \in BOOLEAN /\ job' \in Runs
  BY DEF Restore, IInv, TypeOK
<1> HIDE DEF base
<1> QED
  BY <1>1, <1>4, <1>5, <1>6, CommitIs DEF IInv

\* A version nothing is based on can go: the others read as before.
LEMMA DeleteIInv == ASSUME IInv, NEW v \in Versions, Delete(v) PROVE IInv'
<1>1. /\ v \in DOMAIN ver /\ v # art.current
      /\ \A u \in DOMAIN ver : ver[u].base # v
      /\ DOMAIN ver' = DOMAIN ver \ {v}
      /\ \A u \in DOMAIN ver' : ver'[u] = ver[u]
      /\ art' = art /\ clean' = clean /\ job' = job /\ paged' = paged
  BY DEF Delete, Deletable, Restrict
<1>2. History(ver')
  <2>1. DOMAIN ver' \subseteq Versions /\ \A u \in DOMAIN ver' : ver'[u] \in Rows
    BY <1>1 DEF IInv, History
  <2>2. \A u \in DOMAIN ver' : ver'[u].base # 0 =>
            ver'[u].base \in DOMAIN ver' /\ ver'[u].base < u
    BY <1>1 DEF IInv, History
  <2> QED BY <2>1, <2>2 DEF History
<1>3. /\ DOMAIN ver = DOMAIN ver' \cup {v} /\ v \notin DOMAIN ver'
      /\ \A u \in DOMAIN ver' : ver[u] = ver'[u] /\ ver[u].base # v
  BY <1>1
<1>4. \A u \in DOMAIN ver' : Chain(ver, u) = Chain(ver', u)
                             /\ PagesOf(ver, u) = PagesOf(ver', u)
  BY <1>2, <1>3, ChainFrame, PagesFrame
<1>5. Faithful(ver') /\ Capped(ver')
  BY <1>1, <1>4 DEF IInv, Faithful, Capped
<1>6. Points(ver', art')
  <2>1. art.current \in DOMAIN ver /\ \A u \in DOMAIN ver : u <= art.current
    BY <1>1 DEF IInv, Points
  <2> QED BY <1>1, <2>1 DEF Points
<1>7. TypeOK'
  BY <1>1, <1>2 DEF IInv, TypeOK, History
<1>8. RowIsCurrent'
  <2>1. art.current \in DOMAIN ver'
    BY <1>1 DEF IInv, Points
  <2> QED BY <1>1, <1>4, <2>1 DEF IInv, RowIsCurrent
<1> QED
  BY <1>2, <1>5, <1>6, <1>7, <1>8 DEF IInv

-----------------------------------------------------------------------------
\* The invariant is inductive.
LEMMA NextIInv == ASSUME IInv, [Next]_vars PROVE IInv'
<1>1. CASE Edit
  BY <1>1, EditIInv
<1>2. CASE Checkpoint
  BY <1>2, CheckpointIInv
<1>3. CASE FinishJob
  BY <1>3, FinishJobIInv
<1>4. CASE CancelJob
  BY <1>4, CancelJobIInv
<1>5. CASE FailJob
  BY <1>5, IdleType DEF FailJob, IInv, TypeOK, Points, RowIsCurrent
<1>6. ASSUME NEW scoped \in BOOLEAN, StartJob(scoped) PROVE IInv'
  BY <1>6, StartJobIInv
<1>7. ASSUME NEW v \in Versions, Restore(v) PROVE IInv'
  BY <1>7, RestoreIInv
<1>8. ASSUME NEW v \in Versions, Delete(v) PROVE IInv'
  BY <1>8, DeleteIInv
<1>9. CASE UNCHANGED vars
  BY <1>9 DEF vars, IInv, TypeOK, Points, RowIsCurrent
<1> QED
  BY <1>1, <1>2, <1>3, <1>4, <1>5, <1>6, <1>7, <1>8, <1>9 DEF Next

\* The invariant holds in every reachable state of the version history.
THEOREM Invariance == Spec => []IInv
<1>1. Init => IInv
  BY InitIInv
<1>2. IInv /\ [Next]_vars => IInv'
  BY NextIInv
<1> QED
  BY <1>1, <1>2, PTL DEF Spec

\* doc_version_repo: however versions are appended as deltas, rolled back and
\* deleted, each of them reads as the pages the artifact had at the time.
THEOREM HistoryIsFaithful == Spec => []HistoryFaithful
<1>1. IInv => HistoryFaithful
  BY DEF IInv, Faithful, HistoryFaithful
<1> QED
  BY <1>1, Invariance, PTL

\* current_version is the newest version, and exists if any version does.
THEOREM CurrentIsTheLatest == Spec => []CurrentIsLatest
<1>1. IInv => CurrentIsLatest
  <2> SUFFICES ASSUME IInv PROVE art.current = Top(ver)
    BY DEF CurrentIsLatest
  <2>1. CASE DOMAIN ver = {}
    BY <2>1 DEF IInv, Points, Top
  <2>2. CASE DOMAIN ver # {}
    BY <2>2, MaxUnique DEF IInv, Points, Top, History
  <2> QED BY <2>1, <2>2
<1> QED
  BY <1>1, Invariance, PTL

\* Bases exist and are older, and the _MAX_DELTA_CHAIN cap holds.
THEOREM ChainsAreSound == Spec => []ChainsSound
<1>1. IInv => ChainsSound
  BY DEF IInv, History, Capped, ChainsSound
<1> QED
  BY <1>1, Invariance, PTL

\* After a commit or a cancellation the row is its current version.
THEOREM RowFollows == Spec => []RowIsCurrent
<1>1. IInv => RowIsCurrent
  BY DEF IInv
<1> QED
  BY <1>1, Invariance, PTL

\* restore_version brings back exactly the pages the version was made of.
THEOREM RestoreIsExact == Spec => RestoreExact
<1>1. IInv /\ [Next]_vars =>
        [\A v \in DOMAIN ver : Restore(v) => art'.pages = ver[v].shown]_vars
  <2> SUFFICES ASSUME IInv, NEW v \in DOMAIN ver, Restore(v)
               PROVE  art'.pages = ver[v].shown
    OBVIOUS
  <2>1. art'.pages = PagesOf(ver, v)
    BY DEF Restore, Restored, Commit, Pointed, IInv, TypeOK, Artifacts
  <2> QED BY <2>1 DEF IInv, Faithful
<1> QED
  BY <1>1, Invariance, PTL DEF Spec, RestoreExact

-----------------------------------------------------------------------------
\* Induction up to a bound, for a set instead of a predicate.
LEMMA UpToBound ==
    ASSUME NEW n \in Nat, NEW T, 0 \in T,
           \A k \in Nat : k < n /\ k \in T => k + 1 \in T
    PROVE  0..n \subseteq T
<1> DEFINE R == {ss \in Nat \X Nat : ss[1] < ss[2]}
           Rest == (0..n) \ T
<1>1. SUFFICES ASSUME Rest # {} PROVE FALSE
  OBVIOUS
<1>2. IsWellFoundedOn(R, Nat)
  BY NatLessThanWellFounded DEF OpToRel
<1>3. PICK x \in Rest : \A y \in Rest : <<y, x>> \notin R
  <2>1. Rest \subseteq Nat
    OBVIOUS
  <2> HIDE DEF R, Rest
  <2> QED BY <1>1, <1>2, <2>1, WFMin
<1>4. x \in Nat \ {0} /\ x <= n /\ x \notin T
  OBVIOUS
<1>5. x - 1 \in Nat /\ x - 1 < n /\ x - 1 < x /\ (x - 1) + 1 = x
  BY <1>4
<1>6. x - 1 \in T
  <2>1. <<x - 1, x>> \in R
    BY <1>4, <1>5
  <2> HIDE DEF R
  <2>2. x - 1 \notin Rest
    BY <1>3, <2>1
  <2> QED BY <1>5, <2>2
<1> QED BY <1>4, <1>5, <1>6

\* A set of numbers can be listed in ascending order.
Lists(q, S) ==
    /\ q \in [1..Cardinality(S) -> S]
    /\ \A i, j \in 1..Cardinality(S) : i < j => q[i] < q[j]
    /\ \A x \in S : \E i \in 1..Cardinality(S) : q[i] = x

\* Every set of numbers up to a bound has such a listing.
LEMMA ListExists ==
    ASSUME NEW n \in Nat, NEW S \in SUBSET (1..n)
    PROVE  \E q : Lists(q, S)
<1> DEFINE T == {k \in 0..n : \A U \in SUBSET (1..k) : \E q : Lists(q, U)}
<1>1. 0 \in T
  <2> SUFFICES ASSUME NEW U \in SUBSET (1..0) PROVE \E q : Lists(q, U)
    OBVIOUS
  <2>1. U = {} /\ Cardinality(U) = 0
    <3>1. U = {}
      OBVIOUS
    <3> QED BY <3>1, FS_EmptySet
  <2>2. Lists(<<>>, U)
    BY <2>1 DEF Lists
  <2> QED BY <2>2
<1>2. ASSUME NEW k \in Nat, k < n, k \in T PROVE k + 1 \in T
  <2> SUFFICES ASSUME NEW U \in SUBSET (1..(k + 1)) PROVE \E q : Lists(q, U)
    BY <1>2
  <2>1. CASE k + 1 \notin U
    <3>1. U \in SUBSET (1..k)
      BY <1>2, <2>1
    <3> QED BY <1>2, <3>1
  <2>2. CASE k + 1 \in U
    <3> DEFINE L == U \ {k + 1}
               m == Cardinality(L)
    <3>1. L \in SUBSET (1..k) /\ \A x \in L : x < k + 1
      BY <1>2
    <3>2. PICK q : Lists(q, L)
      BY <1>2, <3>1
    <3>3. IsFiniteSet(L) /\ m \in Nat /\ Cardinality(U) = m + 1
      <4>1. IsFiniteSet(1..k)
        BY <1>2, FS_Interval
      <4>2. IsFiniteSet(L)
        BY <3>1, <4>1, FS_Subset
      <4>3. U = L \cup {k + 1} /\ k + 1 \notin L
        BY <2>2
      <4>4. Cardinality(L \cup {k + 1}) = m + 1 /\ m \in Nat
        BY <4>2, <4>3, FS_AddElement, FS_CardinalityType
      <4> QED BY <4>2, <4>3, <4>4
    <3>4. m + 1 \in Nat
      BY <3>3
    <3> DEFINE r == [i \in 1..(m + 1) |-> IF i = m + 1 THEN k + 1 ELSE q[i]]
    <3>5. \A i \in 1..(m + 1) : i = m + 1 \/ i \in 1..m
      BY <3>3
    <3>6. \A i \in 1..m : i \in 1..(m + 1) /\ i # m + 1 /\ q[i] \in L
      <4>1. q \in [1..m -> L]
        BY <3>2 DEF Lists
      <4> HIDE DEF L, m
      <4> QED BY <3>3, <4>1
    <3> HIDE DEF L, m
    <3>7. /\ r[m + 1] = k + 1 /\ m + 1 \in 1..(m + 1)
          /\ \A i \in 1..m : r[i] = q[i]
      BY <3>3, <3>6
    <3>8. L \subseteq U
      BY DEF L
    <3>9. r \in [1..(m + 1) -> U]
      BY <2>2, <3>5, <3>6, <3>8
    <3> HIDE DEF r
    <3>10. \A i, j \in 1..(m + 1) : i < j => r[i] < r[j]
      <4> SUFFICES ASSUME NEW i \in 1..(m + 1), NEW j \in 1..(m + 1), i < j PROVE r[i] < r[j]
        OBVIOUS
      <4>1. i \in 1..m
        BY <3>3
      <4>2. CASE j = m + 1
        BY <3>1, <3>6, <3>7, <4>1, <4>2
      <4>3. CASE j \in 1..m
        BY <3>2, <3>7, <4>1, <4>3 DEF Lists, m
      <4> QED BY <3>5, <4>2, <4>3
    <3>11. \A x \in U : \E i \in 1..(m + 1) : r[i] = x
      <4> SUFFICES ASSUME NEW x \in U PROVE \E i \in 1..(m + 1) : r[i] = x
        OBVIOUS
      <4>1. CASE x = k + 1
        BY <3>7, <4>1
      <4>2. CASE x \in L
        <5>1. PICK i \in 1..m : q[i] = x
          BY <3>2, <4>2 DEF Lists, m
        <5> QED BY <3>6, <3>7, <5>1
      <4> QED BY <4>1, <4>2 DEF L
    <3>12. Lists(r, U)
      BY <3>3, <3>9, <3>10, <3>11 DEF Lists
    <3> QED BY <3>12
  <2> QED BY <2>1, <2>2
<1>3. n \in T
  <2> HIDE DEF T
  <2>1. 0..n \subseteq T
    BY <1>1, <1>2, UpToBound
  <2> QED BY <2>1
<1> QED BY <1>3

\* The listing the loop takes the blocks of a page in is one.
LEMMA AscendingLists ==
    ASSUME NEW n \in Nat, NEW S \in SUBSET (1..n)
    PROVE  Lists(Ascending(S), S)
<1>1. PICK q : Lists(q, S)
  BY ListExists
<1> QED BY <1>1 DEF Lists, Ascending

-----------------------------------------------------------------------------
\* The repair loop of a page.

\* What waits in the queue, and what run_repair_loop keeps of a page.
Jobs == [block : Nat, body : Broken]
Loops ==
    [blocks : Seq(Broken \cup {Fine}), queue : Seq(Jobs), tried : [Broken -> Nat],
     calls : Seq(Nat), fixed : SUBSET Nat, marked : SUBSET Nat, unqueued : SUBSET Nat,
     known : SUBSET Broken, late : BOOLEAN]

\* The diagrams that wait for a repair.
Waits(queue) == {queue[i].block : i \in 1..Len(queue)}
Once(queue) == \A i, j \in 1..Len(queue) : queue[i].block = queue[j].block => i = j

\* A broken diagram waits, or its fate is told, and no more than one of these;
\* out are diagrams just taken from the queue.
LoopIs(l, out) ==
    /\ l \in Loops
    /\ Len(l.calls) = Len(l.blocks)
    /\ \A b \in 1..Len(l.calls) : l.calls[b] <= TotalCap
    /\ \A b \in 1..Len(l.blocks) : l.blocks[b] = Fine \/ b \in out
          \/ b \in Waits(l.queue) \cup l.fixed \cup l.marked \cup l.unqueued
    /\ Once(l.queue)
    /\ out \subseteq 1..Len(l.blocks) /\ Waits(l.queue) \subseteq 1..Len(l.blocks)
    /\ \A b \in out : b \notin Waits(l.queue) \cup l.fixed \cup l.marked
    /\ \A b \in Waits(l.queue) : b \notin l.fixed \cup l.marked
    /\ \A b \in l.fixed : b \notin l.marked

\* Between two pages nothing waits.
LEMMA NoLoopIs == LoopIs(NoLoop, {})
<1>1. NoLoop \in Loops
  BY RepairAssumption DEF NoLoop, Loops, Jobs
<1> QED BY <1>1 DEF LoopIs, NoLoop, Waits, Once

\* The cap on the calls for one diagram.
LEMMA CapIs == TotalCap \in Nat /\ 0 <= TotalCap
BY RepairAssumption DEF TotalCap

\* A repaired diagram.
LEMMA FixedIs ==
    ASSUME NEW l, NEW b, LoopIs(l, {b})
    PROVE  /\ LoopIs([l EXCEPT !.fixed = @ \cup {b}], {})
           /\ \A body \in Broken : LoopIs(Repaired(l, b, body), {})
<1>1. l \in Loops /\ b \in 1..Len(l.blocks) /\ b \in Nat
  BY DEF LoopIs, Loops
<1> DEFINE fixed == l.fixed \cup {b}
           m == [l EXCEPT !.fixed = fixed]
<1>2. fixed \in SUBSET Nat
  BY <1>1 DEF Loops
<1>3. /\ m \in Loops /\ m.fixed = fixed /\ m.blocks = l.blocks /\ m.queue = l.queue
      /\ m.calls = l.calls /\ m.marked = l.marked /\ m.unqueued = l.unqueued
  BY <1>1, <1>2 DEF Loops
<1>4. LoopIs(m, {})
  BY <1>3 DEF LoopIs
<1>5. ASSUME NEW body \in Broken PROVE LoopIs(Repaired(l, b, body), {})
  <2> DEFINE known == l.known \cup {body}
             k == [l EXCEPT !.fixed = fixed, !.known = known]
  <2>1. known \in SUBSET Broken
    BY <1>1 DEF Loops
  <2>2. /\ k \in Loops /\ k.fixed = fixed /\ k.blocks = l.blocks /\ k.queue = l.queue
        /\ k.calls = l.calls /\ k.marked = l.marked /\ k.unqueued = l.unqueued
    BY <1>1, <1>2, <2>1 DEF Loops
  <2>3. k = Repaired(l, b, body)
    BY DEF Repaired
  <2> HIDE DEF k
  <2>4. LoopIs(k, {})
    BY <2>2 DEF LoopIs
  <2> QED BY <2>3, <2>4
<1> QED BY <1>4, <1>5

\* A diagram given up.
LEMMA MarkedIs ==
    ASSUME NEW l, NEW b, LoopIs(l, {b})
    PROVE  LoopIs(Marked(l, b), {})
<1>1. l \in Loops /\ b \in 1..Len(l.blocks) /\ b \in Nat
  BY DEF LoopIs, Loops
<1> DEFINE marked == l.marked \cup {b}
           m == [l EXCEPT !.marked = marked]
<1>2. marked \in SUBSET Nat
  BY <1>1 DEF Loops
<1>3. /\ m \in Loops /\ m.marked = marked /\ m.blocks = l.blocks /\ m.queue = l.queue
      /\ m.calls = l.calls /\ m.fixed = l.fixed /\ m.unqueued = l.unqueued
  BY <1>1, <1>2 DEF Loops
<1>4. m = Marked(l, b)
  BY DEF Marked
<1> HIDE DEF m
<1>5. LoopIs(m, {})
  BY <1>3 DEF LoopIs
<1> QED BY <1>4, <1>5

\* A diagram queued again, with the body it now has.
LEMMA RetriedIs ==
    ASSUME NEW l, NEW b, LoopIs(l, {b}), NEW body \in Broken
    PROVE  LoopIs(Retried(l, b, body), {})
<1>1. l \in Loops /\ b \in 1..Len(l.blocks) /\ b \in Nat /\ l.queue \in Seq(Jobs)
  BY DEF LoopIs, Loops
<1> DEFINE queue == Append(l.queue, Job(b, body))
           m == [l EXCEPT !.queue = queue]
           n == Len(l.queue)
<1>2. Job(b, body) \in Jobs /\ Job(b, body).block = b
  BY <1>1 DEF Job, Jobs
<1>3. /\ queue \in Seq(Jobs) /\ Len(queue) = n + 1 /\ queue[n + 1].block = b /\ n \in Nat
      /\ \A i \in 1..n : queue[i] = l.queue[i]
  BY <1>1, <1>2
<1>4. m = Retried(l, b, body)
  BY DEF Retried
<1> HIDE DEF queue
<1>5. \A i \in 1..(n + 1) : i = n + 1 \/ i \in 1..n
  BY <1>3
<1>6. Waits(queue) = Waits(l.queue) \cup {b}
  BY <1>3, <1>5 DEF Waits
<1>7. Once(queue)
  <2> SUFFICES ASSUME NEW i \in 1..(n + 1), NEW j \in 1..(n + 1),
                      queue[i].block = queue[j].block
               PROVE  i = j
    BY <1>3 DEF Once
  <2>1. \A k \in 1..n : queue[k].block # b
    BY <1>3 DEF LoopIs, Waits
  <2>2. CASE i \in 1..n /\ j \in 1..n
    BY <1>3, <2>2 DEF LoopIs, Once
  <2>3. CASE i = n + 1 \/ j = n + 1
    BY <1>3, <1>5, <2>1, <2>3
  <2> QED BY <1>5, <2>2, <2>3
<1>8. /\ m \in Loops /\ m.queue = queue /\ m.blocks = l.blocks /\ m.marked = l.marked
      /\ m.calls = l.calls /\ m.fixed = l.fixed /\ m.unqueued = l.unqueued
  BY <1>1, <1>3 DEF Loops
<1> HIDE DEF m
<1>9. LoopIs(m, {})
  BY <1>1, <1>6, <1>7, <1>8 DEF LoopIs
<1> QED BY <1>4, <1>9

\* A call for a diagram that had one left.
LEMMA AskedIs ==
    ASSUME NEW l, NEW b, LoopIs(l, {b}), NEW body \in Broken, l.calls[b] < TotalCap
    PROVE  LoopIs(Asked(l, b, body), {b})
<1>1. l \in Loops /\ b \in 1..Len(l.blocks) /\ l.calls \in Seq(Nat) /\ l.tried \in [Broken -> Nat]
      /\ Len(l.calls) = Len(l.blocks)
  BY DEF LoopIs, Loops
<1> DEFINE tried == [l.tried EXCEPT ![body] = l.tried[body] + 1]
           calls == [l.calls EXCEPT ![b] = l.calls[b] + 1]
           m == [l EXCEPT !.tried = tried, !.calls = calls]
<1>2. l.calls[b] \in Nat /\ l.tried[body] \in Nat
  BY <1>1
<1>3. l.calls[b] + 1 \in Nat /\ l.calls[b] + 1 <= TotalCap /\ l.tried[body] + 1 \in Nat
  BY <1>2, CapIs
<1>4. tried \in [Broken -> Nat]
  BY <1>1, <1>3
<1>5. calls \in Seq(Nat) /\ Len(calls) = Len(l.calls)
      /\ \A c \in 1..Len(l.calls) : calls[c] = IF c = b THEN l.calls[b] + 1 ELSE l.calls[c]
  BY <1>1, <1>3
<1>6. \A c \in 1..Len(l.calls) : calls[c] <= TotalCap
  BY <1>3, <1>5 DEF LoopIs
<1>7. Asked(l, b, body) = m
  BY DEF Asked
<1> HIDE DEF tried, calls
<1>8. /\ m \in Loops /\ m.queue = l.queue /\ m.blocks = l.blocks /\ m.marked = l.marked
      /\ m.calls = calls /\ m.fixed = l.fixed /\ m.unqueued = l.unqueued
  BY <1>1, <1>4, <1>5 DEF Loops
<1> HIDE DEF m
<1>9. LoopIs(m, {b})
  BY <1>5, <1>6, <1>8 DEF LoopIs
<1> QED BY <1>7, <1>9

\* The head of the queue is taken.
LEMMA TakenIs ==
    ASSUME NEW l, LoopIs(l, {}), l.queue # <<>>
    PROVE  /\ LoopIs([l EXCEPT !.queue = Tail(@)], {Head(l.queue).block})
           /\ Head(l.queue).body \in Broken
           /\ Head(l.queue).block \in 1..Len(l.blocks)
<1> DEFINE b == Head(l.queue).block
           queue == Tail(l.queue)
           m == [l EXCEPT !.queue = queue]
           n == Len(l.queue)
<1>1. l \in Loops /\ l.queue \in Seq(Jobs) /\ n \in Nat \ {0}
  BY DEF LoopIs, Loops
<1>2. /\ queue \in Seq(Jobs) /\ Len(queue) = n - 1 /\ Head(l.queue) = l.queue[1]
      /\ \A i \in 1..(n - 1) : queue[i] = l.queue[i + 1]
  BY <1>1
<1>3. l.queue[1] \in Jobs /\ 1 \in 1..n
  BY <1>1
<1>4. Head(l.queue).body \in Broken /\ b \in Waits(l.queue) /\ b = l.queue[1].block
  BY <1>2, <1>3 DEF Jobs, Waits
<1> HIDE DEF queue, b
<1>5. \A i \in 1..(n - 1) : i + 1 \in 1..n /\ i + 1 # 1
  BY <1>1
<1>6. \A i \in 1..n : i = 1 \/ (i - 1 \in 1..(n - 1) /\ (i - 1) + 1 = i)
  BY <1>1
<1>7. b \notin Waits(queue)
  <2> SUFFICES ASSUME NEW i \in 1..(n - 1), queue[i].block = b PROVE FALSE
    BY <1>2 DEF Waits
  <2>1. l.queue[i + 1].block = l.queue[1].block
    BY <1>2, <1>4
  <2> QED BY <1>3, <1>5, <2>1 DEF LoopIs, Once
<1>8. Waits(l.queue) = Waits(queue) \cup {b}
  <2>1. ASSUME NEW i \in 1..n PROVE l.queue[i].block \in Waits(queue) \cup {b}
    <3>1. CASE i = 1
      BY <1>4, <3>1
    <3>2. CASE i - 1 \in 1..(n - 1) /\ (i - 1) + 1 = i
      <4>1. queue[i - 1] = l.queue[i]
        BY <1>2, <3>2
      <4> QED BY <1>2, <3>2, <4>1 DEF Waits
    <3> QED BY <1>6, <3>1, <3>2
  <2>2. Waits(queue) \subseteq Waits(l.queue)
    BY <1>2, <1>5 DEF Waits
  <2>3. Waits(l.queue) \subseteq Waits(queue) \cup {b}
    BY <2>1 DEF Waits
  <2> QED BY <1>4, <2>2, <2>3
<1>9. Once(queue)
  <2> SUFFICES ASSUME NEW i \in 1..(n - 1), NEW j \in 1..(n - 1),
                      queue[i].block = queue[j].block
               PROVE  i = j
    BY <1>2 DEF Once
  <2>1. i + 1 = j + 1
    BY <1>2, <1>5 DEF LoopIs, Once
  <2> QED BY <1>1, <2>1
<1>10. /\ m \in Loops /\ m.queue = queue /\ m.blocks = l.blocks /\ m.marked = l.marked
       /\ m.calls = l.calls /\ m.fixed = l.fixed /\ m.unqueued = l.unqueued
  BY <1>1, <1>2 DEF Loops
<1>11. m = [l EXCEPT !.queue = Tail(@)]
  BY DEF queue
<1> HIDE DEF m
<1>12. LoopIs(m, {b})
  BY <1>4, <1>7, <1>8, <1>9, <1>10 DEF LoopIs
<1>13. b \in 1..Len(l.blocks)
  BY <1>4 DEF LoopIs
<1> QED BY <1>4, <1>11, <1>12, <1>13 DEF b

\* The jobs of a set of diagrams: each once.
LEMMA JobsForIs ==
    ASSUME NEW blocks \in Seq(Broken \cup {Fine}), NEW S \in SUBSET (1..Len(blocks)),
           \A b \in S : blocks[b] \in Broken
    PROVE  /\ JobsFor(blocks, S) \in Seq(Jobs)
           /\ Waits(JobsFor(blocks, S)) = S
           /\ Once(JobsFor(blocks, S))
<1> DEFINE n == Len(blocks)
           m == Cardinality(S)
           f == Ascending(S)
           q == JobsFor(blocks, S)
<1>1. n \in Nat /\ m \in Nat
  <2>1. n \in Nat
    OBVIOUS
  <2>2. IsFiniteSet(S)
    <3>1. IsFiniteSet(1..n)
      BY <2>1, FS_Interval
    <3> QED BY <3>1, FS_Subset
  <2> QED BY <2>1, <2>2, FS_CardinalityType
<1>2. Lists(f, S)
  BY <1>1, AscendingLists
<1> HIDE DEF f
<1>3. /\ f \in [1..m -> S]
      /\ \A i, j \in 1..m : i < j => f[i] < f[j]
      /\ \A x \in S : \E i \in 1..m : f[i] = x
  BY <1>2 DEF Lists
<1>4. q = [i \in 1..m |-> Job(f[i], blocks[f[i]])]
  BY DEF JobsFor, f
<1> HIDE DEF q, m
<1>5. \A i \in 1..m : f[i] \in S /\ f[i] \in Nat /\ blocks[f[i]] \in Broken
  <2>1. S \subseteq Nat
    BY <1>1
  <2> QED BY <1>3, <2>1
<1>6. \A i \in 1..m : Job(f[i], blocks[f[i]]) \in Jobs
  BY <1>5 DEF Job, Jobs
<1>7. q \in Seq(Jobs) /\ Len(q) = m /\ \A i \in 1..m : q[i].block = f[i]
  BY <1>1, <1>4, <1>6 DEF Job
<1>8. Waits(q) = S
  <2>1. Waits(q) \subseteq S
    BY <1>5, <1>7 DEF Waits
  <2>2. ASSUME NEW x \in S PROVE x \in Waits(q)
    BY <1>3, <1>7 DEF Waits
  <2> QED BY <2>1, <2>2
<1>9. Once(q)
  <2> SUFFICES ASSUME NEW i \in 1..m, NEW j \in 1..m, f[i] = f[j] PROVE i = j
    BY <1>7 DEF Once
  <2>1. ~(i < j) /\ ~(j < i)
    BY <1>3, <1>5
  <2> QED BY <1>1, <2>1
<1> QED BY <1>7, <1>8, <1>9 DEF q

\* Two lists of jobs for different diagrams, one after the other.
LEMMA Joined ==
    ASSUME NEW p \in Seq(Jobs), NEW q \in Seq(Jobs), Once(p), Once(q),
           Waits(p) \cap Waits(q) = {}
    PROVE  p \o q \in Seq(Jobs) /\ Waits(p \o q) = Waits(p) \cup Waits(q) /\ Once(p \o q)
<1> DEFINE m == Len(p)
           n == Len(q)
           r == p \o q
<1>1. /\ m \in Nat /\ n \in Nat /\ r \in Seq(Jobs) /\ Len(r) = m + n
      /\ \A i \in 1..m : i \in 1..(m + n) /\ r[i] = p[i]
      /\ \A i \in 1..n : m + i \in 1..(m + n) /\ r[m + i] = q[i]
  OBVIOUS
<1> HIDE DEF r
<1>2. ASSUME NEW i \in 1..(m + n), i \notin 1..m
      PROVE  \E k \in 1..n : i = m + k
  <2>1. i - m \in 1..n /\ i = m + (i - m)
    BY <1>1, <1>2
  <2> QED BY <2>1
<1>3. Waits(r) = Waits(p) \cup Waits(q)
  <2>1. ASSUME NEW i \in 1..(m + n) PROVE r[i].block \in Waits(p) \cup Waits(q)
    <3>1. CASE i \in 1..m
      BY <1>1, <3>1 DEF Waits
    <3>2. CASE i \notin 1..m
      <4>1. PICK k \in 1..n : i = m + k
        BY <1>2, <3>2
      <4> QED BY <1>1, <4>1 DEF Waits
    <3> QED BY <3>1, <3>2
  <2>2. Waits(p) \subseteq Waits(r)
    BY <1>1 DEF Waits
  <2>3. Waits(q) \subseteq Waits(r)
    BY <1>1 DEF Waits
  <2>4. Waits(r) \subseteq Waits(p) \cup Waits(q)
    BY <1>1, <2>1 DEF Waits
  <2> QED BY <2>2, <2>3, <2>4
<1>4. Once(r)
  <2> SUFFICES ASSUME NEW i \in 1..(m + n), NEW j \in 1..(m + n), r[i].block = r[j].block
               PROVE  i = j
    BY <1>1 DEF Once
  <2>1. \A k \in 1..m : p[k].block \in Waits(p)
    BY DEF Waits
  <2>2. \A k \in 1..n : q[k].block \in Waits(q)
    BY DEF Waits
  <2>3. CASE i \in 1..m /\ j \in 1..m
    BY <1>1, <2>3 DEF Once
  <2>4. CASE i \in 1..m /\ j \notin 1..m
    <3>1. PICK k \in 1..n : j = m + k
      BY <1>2, <2>4
    <3> QED BY <1>1, <2>1, <2>2, <2>4, <3>1
  <2>5. CASE i \notin 1..m /\ j \in 1..m
    <3>1. PICK k \in 1..n : i = m + k
      BY <1>2, <2>5
    <3> QED BY <1>1, <2>1, <2>2, <2>5, <3>1
  <2>6. CASE i \notin 1..m /\ j \notin 1..m
    <3>1. PICK k \in 1..n : i = m + k
      BY <1>2, <2>6
    <3>2. PICK h \in 1..n : j = m + h
      BY <1>2, <2>6
    <3>3. k = h
      BY <1>1, <3>1, <3>2 DEF Once
    <3> QED BY <3>1, <3>2, <3>3
  <2> QED BY <2>3, <2>4, <2>5, <2>6
<1> QED BY <1>1, <1>3, <1>4 DEF r

\* A page enters the loop: what is broken waits, is marked, or came too late.
LEMMA QueuedIs ==
    ASSUME NEW blocks \in Seq(Broken \cup {Fine}), NEW late \in BOOLEAN, NEW llm \in BOOLEAN
    PROVE  LoopIs(Queued(blocks, late, llm), {})
<1> DEFINE severed == {b \in DOMAIN blocks : blocks[b] = Cut}
           closed == {b \in DOMAIN blocks : blocks[b] \in Bodies}
           open == llm /\ ~late
           calls == [b \in DOMAIN blocks |-> 0]
           first == IF open THEN JobsFor(blocks, severed) ELSE <<>>
           second == IF late THEN <<>> ELSE JobsFor(blocks, closed)
           queue == first \o second
           marked == IF open THEN {} ELSE severed
           unqueued == IF late THEN closed ELSE {}
           l == [NoLoop EXCEPT !.blocks = blocks, !.late = late, !.calls = calls,
                               !.queue = queue, !.marked = marked, !.unqueued = unqueued]
<1>1. l = Queued(blocks, late, llm)
  BY DEF Queued
<1>2. DOMAIN blocks = 1..Len(blocks) /\ Len(blocks) \in Nat
  OBVIOUS
<1>3. /\ severed \in SUBSET (1..Len(blocks)) /\ closed \in SUBSET (1..Len(blocks))
      /\ severed \cap closed = {}
      /\ \A b \in severed : blocks[b] \in Broken
      /\ \A b \in closed : blocks[b] \in Broken
      /\ \A b \in 1..Len(blocks) : blocks[b] = Fine \/ b \in severed \/ b \in closed
  BY <1>2, RepairAssumption DEF Broken
<1> HIDE DEF severed, closed
<1>4. <<>> \in Seq(Jobs) /\ Waits(<<>>) = {} /\ Once(<<>>)
  BY DEF Waits, Once
<1>5. /\ first \in Seq(Jobs) /\ Once(first)
      /\ Waits(first) = IF open THEN severed ELSE {}
  BY <1>3, <1>4, JobsForIs
<1>6. /\ second \in Seq(Jobs) /\ Once(second)
      /\ Waits(second) = IF late THEN {} ELSE closed
  BY <1>3, <1>4, JobsForIs
<1> HIDE DEF first, second
<1>7. /\ queue \in Seq(Jobs) /\ Once(queue)
      /\ Waits(queue) = (IF open THEN severed ELSE {}) \cup (IF late THEN {} ELSE closed)
  <2>1. Waits(first) \cap Waits(second) = {}
    BY <1>3, <1>5, <1>6
  <2> QED BY <1>5, <1>6, <2>1, Joined
<1>8. /\ calls \in Seq(Nat) /\ Len(calls) = Len(blocks)
      /\ \A b \in 1..Len(calls) : calls[b] <= TotalCap
  BY <1>2, CapIs
<1>9. /\ marked \in SUBSET Nat /\ unqueued \in SUBSET Nat
      /\ marked = IF open THEN {} ELSE severed
      /\ unqueued = IF late THEN closed ELSE {}
  BY <1>3
<1> HIDE DEF calls, queue, marked, unqueued
<1>10. NoLoop \in Loops /\ NoLoop.fixed = {}
  BY NoLoopIs DEF LoopIs, NoLoop
<1>11. /\ l \in Loops /\ l.queue = queue /\ l.blocks = blocks /\ l.marked = marked
       /\ l.calls = calls /\ l.fixed = {} /\ l.unqueued = unqueued
  BY <1>7, <1>8, <1>9, <1>10 DEF Loops
<1> HIDE DEF l
<1>12. LoopIs(l, {})
  <2>1. \A b \in 1..Len(blocks) :
          blocks[b] = Fine \/ b \in Waits(queue) \cup marked \cup unqueued
    BY <1>3, <1>7, <1>9
  <2>2. Waits(queue) \subseteq 1..Len(blocks) /\ Waits(queue) \cap marked = {}
    BY <1>3, <1>7, <1>9
  <2> QED BY <1>7, <1>8, <1>11, <2>1, <2>2 DEF LoopIs
<1> QED BY <1>1, <1>12

-----------------------------------------------------------------------------
\* After an answer that does not render the diagram waits again or is marked.
LEMMA AgainIs ==
    ASSUME NEW l, NEW b, LoopIs(l, {b}), NEW body \in Broken
    PROVE  LoopIs(Again(l, b, body), {})
BY RetriedIs, MarkedIs DEF Again

\* A step of the loop: the head of the queue is taken, and repaired, marked or
\* queued again.
LEMMA StepIs ==
    ASSUME LoopIs(loop, {}), NEW llm, RepairStep(llm)
    PROVE  LoopIs(loop', {})
<1> DEFINE b == Head(loop.queue).block
           body == Head(loop.queue).body
           l == [loop EXCEPT !.queue = Tail(@)]
<1>1. /\ LoopIs(l, {b}) /\ body \in Broken /\ b \in 1..Len(loop.blocks)
  BY TakenIs DEF RepairStep
<1>2. \/ loop' = [l EXCEPT !.fixed = @ \cup {b}]
      \/ loop' = Marked(l, b)
      \/ /\ BudgetLeft(l, b)
         /\ \E answer \in Answers :
              loop' = CASE answer = "nothing" -> Again(Asked(l, b, body), b, body)
                        [] answer = "works" -> Repaired(Asked(l, b, body), b, body)
                        [] OTHER -> Again(Asked(l, b, body), b, answer)
  BY DEF RepairStep
<1> HIDE DEF b, body, l
<1>3. CASE loop' = [l EXCEPT !.fixed = @ \cup {b}]
  BY <1>1, <1>3, FixedIs
<1>4. CASE loop' = Marked(l, b)
  BY <1>1, <1>4, MarkedIs
<1>5. ASSUME BudgetLeft(l, b), NEW answer \in Answers,
             loop' = CASE answer = "nothing" -> Again(Asked(l, b, body), b, body)
                       [] answer = "works" -> Repaired(Asked(l, b, body), b, body)
                       [] OTHER -> Again(Asked(l, b, body), b, answer)
      PROVE  LoopIs(loop', {})
  <2>1. LoopIs(Asked(l, b, body), {b})
    BY <1>1, <1>5, AskedIs DEF BudgetLeft
  <2>2. CASE answer = "nothing"
    BY <1>1, <1>5, <2>1, <2>2, AgainIs
  <2>3. CASE answer = "works" /\ answer # "nothing"
    BY <1>1, <1>5, <2>1, <2>3, FixedIs
  <2>4. CASE answer # "nothing" /\ answer # "works"
    <3>1. answer \in Broken
      BY <2>4 DEF Answers, Broken
    <3> QED BY <1>5, <2>1, <2>4, <3>1, AgainIs
  <2> QED BY <2>2, <2>3, <2>4
<1> QED BY <1>2, <1>3, <1>4, <1>5

\* The deadline of a page passes.
LEMMA DeadlineIs ==
    ASSUME LoopIs(loop, {}), Deadline
    PROVE  LoopIs(loop', {})
<1>1. loop' = [loop EXCEPT !.late = TRUE] /\ loop \in Loops
  BY DEF Deadline, LoopIs
<1> DEFINE m == [loop EXCEPT !.late = TRUE]
<1>2. /\ m \in Loops /\ m.queue = loop.queue /\ m.blocks = loop.blocks /\ m.marked = loop.marked
      /\ m.calls = loop.calls /\ m.fixed = loop.fixed /\ m.unqueued = loop.unqueued
  BY <1>1 DEF Loops
<1> HIDE DEF m
<1>3. LoopIs(m, {})
  BY <1>2 DEF LoopIs
<1> QED BY <1>1, <1>3 DEF m

\* A page opens the loop.
LEMMA OpenIs ==
    ASSUME NEW d \in Seq(Broken \cup {Fine}), NEW llm \in BOOLEAN, OpenLoop(d, llm)
    PROVE  LoopIs(loop', {})
<1>1. PICK late \in BOOLEAN : loop' = Queued(d, late, llm)
  BY DEF OpenLoop
<1> QED BY <1>1, QueuedIs

\* What is true of a run's writing: where it is, and the loop of its page.
WritingIInv ==
    /\ LoopIs(loop, {})
    /\ model \in BOOLEAN
    /\ at \in Nat \ {0}
    /\ phase = "guard" => at <= Len(Order)

\* A run begins between two pages.
LEMMA WritingStarts == WritingInit => WritingIInv
<1> SUFFICES ASSUME WritingInit PROVE WritingIInv
  OBVIOUS
<1>1. loop = NoLoop /\ at = 1 /\ phase # "guard"
  BY DEF WritingInit
<1>2. model \in BOOLEAN
  BY DEF WritingInit
<1> QED BY <1>1, <1>2, NoLoopIs DEF WritingIInv

\* The diagrams of a unit's text are bodies the loop knows.
LEMMA DrawingsAre ==
    ASSUME at \in 1..Len(Order), NEW t, NEW d \in DrawingsOf(Order[at], t)
    PROVE  d \in Seq(Broken \cup {Fine})
<1>1. Order[at] \in Units
  BY WritingAssumption DEF Units
<1>2. <<>> \in Seq(Broken \cup {Fine})
  OBVIOUS
<1> QED BY <1>1, <1>2, WritingAssumption DEF DrawingsOf

\* Only the repair of a page touches its loop.
LEMMA WritingSteps == WritingIInv /\ [WritingNext]_uvars => WritingIInv'
<1> SUFFICES ASSUME WritingIInv, [WritingNext]_uvars PROVE WritingIInv'
  OBVIOUS
<1>1. ASSUME UNCHANGED <<loop, model, at>>, phase' # "guard" \/ phase' = phase
      PROVE  WritingIInv'
  BY <1>1 DEF WritingIInv, LoopIs, Waits, Once
<1>2. CASE Stop
  BY <1>1, <1>2 DEF Stop
<1>3. CASE Orchestrate
  BY <1>1, <1>3 DEF Orchestrate
<1>4. CASE Gather
  BY <1>1, <1>4 DEF Gather, Ended
<1>5. CASE Over
  BY <1>1, <1>5 DEF Over, uvars
<1>6. ASSUME NEW u \in Units, AgentStep(u) \/ AgentAnswers(u) PROVE WritingIInv'
  <2>1. CASE AgentStart(u)
    BY <1>1, <2>1 DEF AgentStart, agentRest
  <2>2. CASE AgentTimeout(u)
    BY <1>1, <2>2 DEF AgentTimeout, Settles, agentRest
  <2>3. CASE AgentAnswers(u)
    BY <1>1, <2>3 DEF AgentAnswers, Settles, agentRest
  <2> QED BY <1>6, <2>1, <2>2, <2>3 DEF AgentStep
<1>7. CASE EndStep
  <2>1. CASE OpenGuard
    BY <1>1, <2>1 DEF OpenGuard
  <2>2. CASE GuardStep
    BY <1>1, <2>2 DEF GuardStep
  <2>3. CASE Close
    BY <1>1, <2>3 DEF Close, endRest
  <2>4. CASE Last
    BY <1>1, <2>4 DEF Last, endRest
  <2>5. CASE Persist
    BY <1>1, <2>5 DEF Persist, endRest
  <2> QED BY <1>7, <2>1, <2>2, <2>3, <2>4, <2>5 DEF EndStep
<1>8. CASE Skip
  <2>1. UNCHANGED <<loop, model>> /\ at' = at + 1 /\ phase' # "guard"
    BY <1>8 DEF Skip
  <2>2. at' \in Nat \ {0} /\ model' \in BOOLEAN
    BY <2>1 DEF WritingIInv
  <2>3. LoopIs(loop, {})'
    BY <2>1 DEF WritingIInv, LoopIs, Waits, Once
  <2> QED BY <2>1, <2>2, <2>3 DEF WritingIInv
<1>9. CASE UnitText
  <2>1. at \in 1..Len(Order) /\ at' = at /\ model' = model
    BY <1>9 DEF UnitText, WritingIInv, unitRest
  <2>2. CASE loop' = loop
    BY <2>1, <2>2 DEF WritingIInv, LoopIs, Waits, Once
  <2>3. ASSUME NEW t, NEW d \in DrawingsOf(Order[at], t), OpenLoop(d, model)
        PROVE  WritingIInv'
    <3>1. LoopIs(loop', {})
      BY <2>1, <2>3, DrawingsAre, OpenIs DEF WritingIInv
    <3> QED BY <2>1, <3>1 DEF WritingIInv
  <2> QED BY <1>9, <2>2, <2>3 DEF UnitText
<1>10. CASE SpecGuard
  <2>1. at \in 1..Len(Order) /\ at' = at /\ model' = model
    BY <1>10 DEF SpecGuard, WritingIInv, unitRest
  <2>2. CASE loop' = loop
    BY <2>1, <2>2 DEF WritingIInv, LoopIs, Waits, Once
  <2>3. ASSUME NEW d \in DrawingsOf(Order[at], draft), OpenLoop(d, model)
        PROVE  WritingIInv'
    <3>1. LoopIs(loop', {})
      BY <2>1, <2>3, DrawingsAre, OpenIs DEF WritingIInv
    <3> QED BY <2>1, <3>1 DEF WritingIInv
  <2> QED BY <1>10, <2>2, <2>3 DEF SpecGuard
<1>11. CASE Repair
  <2>1. LoopIs(loop', {})
    BY <1>11, StepIs, DeadlineIs DEF Repair, WritingIInv
  <2> QED BY <1>11, <2>1 DEF Repair, WritingIInv, unitRest
<1>12. CASE Finish
  <2>1. loop' = NoLoop /\ at' = at + 1 /\ phase' # "guard" /\ model' = model
    BY <1>12 DEF Finish, unitRest
  <2> QED BY <2>1, NoLoopIs DEF WritingIInv
<1>13. CASE UNCHANGED uvars
  BY <1>1, <1>13 DEF uvars
<1> QED BY <1>2, <1>3, <1>4, <1>5, <1>6, <1>7, <1>8, <1>9, <1>10, <1>11, <1>12, <1>13
        DEF WritingNext, UnitStep

\* Of a page that left the repair loop, the reader is told of every diagram
\* that does not render, and no diagram costs more calls than its cap.
LEMMA Told == LoopIs(loop, {}) => BrokenTold
<1> SUFFICES ASSUME LoopIs(loop, {}) PROVE BrokenTold
  OBVIOUS
<1>1. loop.blocks \in Seq(Broken \cup {Fine}) /\ loop.calls \in Seq(Nat)
  BY DEF LoopIs, Loops
<1>2. DOMAIN loop.blocks = 1..Len(loop.blocks) /\ DOMAIN loop.calls = 1..Len(loop.calls)
  BY <1>1
<1>3. LoopOver => Waits(loop.queue) = {}
  BY DEF LoopOver, Waits
<1> QED BY <1>2, <1>3 DEF BrokenTold, LoopIs

\* The loop of the page being written is as described, in every flow.
THEOREM WritingInvariant == WritingSpec => []WritingIInv
<1> QED BY WritingStarts, WritingSteps, PTL DEF WritingSpec

\* No page leaves run_repair_loop with a diagram that does not render and is
\* neither replaced nor marked, other than one whose deadline had passed before
\* it was queued (which the code leaves as it is), whatever the model answers;
\* and no diagram takes more calls than the cap.
THEOREM WritingBrokenTold == WritingSpec => []BrokenTold
<1>1. WritingIInv => BrokenTold
  BY Told DEF WritingIInv
<1> QED BY <1>1, WritingInvariant, PTL
=============================================================================
