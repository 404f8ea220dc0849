--------------------------- MODULE ProductsProofs ---------------------------
(***************************************************************************)
(* Machine-checked proofs about a product, as MCProducts composes it: its  *)
(* rows, for any artifacts, pages, preset servers and requests, the tree   *)
(* of its knowledge, for any nodes and moves, and the git accounts its     *)
(* repositories are cloned with, for any URLs, threads, saves and faults;  *)
(* and of the decisions its requests take, those that hold of any input.   *)
(***************************************************************************)
EXTENDS ProductStore, KnowledgeTree, SettingStore, ProductParts, WellFoundedInduction, TLAPS

-----------------------------------------------------------------------------
(* The rows of a product *)

(* A row is pinned to nothing or to a server that is there.                *)
PinsLive == \A e \in Present : row[e].pin \in Live \cup {None}

(* Two databases on one preset server were seen to share it.               *)
PinsShared ==
  \A c, d \in Databases \cap Present :
    c # d /\ row[c].pin = row[d].pin /\ row[d].pin # None => row[d].pin \in shared

(* What a client has read of pins stays true enough to be written again,   *)
(* and what it made up names servers that there are.                       *)
Known(rows) ==
  /\ \A e \in DOMAIN rows : rows[e].pin \in Servers => server[rows[e].pin] # Unborn
  /\ \A d \in Databases \cap DOMAIN rows : rows[d].preset /\ ~rows[d].claimed =>
       \/ /\ rows[d].pin \in Servers
          /\ server[rows[d].pin] = Gone \/ server[rows[d].pin].of = d
       \/ rows[d].pin = None /\ \E s \in shared : server[s] = Gone

Remembered ==
  /\ Known(payload)
  /\ ~LoopFree => Known(put.rows)

(* The codebases of a PUT are locked until it has written.                 *)
PutHolds ==
  put.at \in {"save", "write"} =>
    \A c \in Codebases : c \in Present \cup DOMAIN put.rows => lock[c] = "put"

(* The page p has the body it had, and is verified if it was.              *)
Carried(p, old, new) ==
  p \in DOMAIN new /\ new[p].text = old[p].text /\ (old[p].flag => new[p].flag)

(* Stripped pages have been filled from rows that nobody else wrote since. *)
Filled ==
  ~LoopFree /\ ~put.post =>
    \A e \in DOMAIN put.rows \cap DOMAIN payload : e \notin put.since /\ row[e] # None =>
      \A p \in DOMAIN row[e].pages \cap DOMAIN payload[e].pages :
        payload[e].pages[p].text = Stripped /\ row[e].pages[p].text # Stripped =>
          Carried(p, row[e].pages, put.rows[e].pages)

(* What a PUT has saved is what there is, but for jobs.                    *)
SavedStands ==
  put.at = "write" =>
    /\ put.saved \in [Entities -> RowRecord \cup {None}]
    /\ \A e \in Entities :
         /\ put.saved[e] = None <=> row[e] = None
         /\ row[e] # None =>
              /\ put.saved[e].verified = row[e].verified /\ put.saved[e].token = row[e].token
              /\ e \in Codebases \/ e \notin put.since => put.saved[e].ver = row[e].ver

(* The inductive invariant.                                                *)
IInv == /\ StoreTypeOK
        /\ PinsLive /\ PinsShared /\ PresetPaired /\ Remembered
        /\ PutHolds /\ Filled /\ SavedStands

-----------------------------------------------------------------------------
(* The fields of a row.                                                    *)
LEMMA RowFields ==
  ASSUME NEW r \in RowRecord
  PROVE  /\ r # None
         /\ r.pages \in PageMaps /\ r.ver \in 0..MaxWrites /\ r.verified \in BOOLEAN
         /\ r.token \in 0..MaxRequests /\ r.preset \in BOOLEAN /\ r.pin \in Servers \cup {None}
         /\ r.claimed \in BOOLEAN
BY StoreIds DEF RowRecord

(* A row with one or two fields replaced is a row.                         *)
LEMMA RowUpdates ==
  ASSUME NEW r \in RowRecord, NEW ps \in PageMaps, NEW n \in 0..MaxWrites,
         NEW b \in BOOLEAN, NEW k \in 0..MaxRequests, NEW s \in Servers \cup {None}
  PROVE  /\ [r EXCEPT !.pages = ps] \in RowRecord
         /\ [r EXCEPT !.pages = ps, !.ver = n] \in RowRecord
         /\ [r EXCEPT !.ver = n, !.verified = b] \in RowRecord
         /\ [r EXCEPT !.verified = b] \in RowRecord
         /\ [r EXCEPT !.token = k] \in RowRecord
         /\ [r EXCEPT !.pin = s] \in RowRecord
BY DEF RowRecord

(* A new row is one.                                                       *)
LEMMA RowMade ==
  ASSUME NEW ps \in PageMaps, NEW n \in 0..MaxWrites, NEW b \in BOOLEAN,
         NEW k \in 0..MaxRequests, NEW c \in BOOLEAN, NEW s \in Servers \cup {None}
  PROVE  /\ Row(ps, n, b, k, c, s) \in RowRecord
         /\ Row(ps, n, b, k, c, s).pin = s
         /\ Row(ps, n, b, k, c, s).preset = c
         /\ Row(ps, n, b, k, c, s).claimed = FALSE
BY DEF Row, RowRecord

(* Maps of pages.                                                          *)
LEMMA PageMapsFacts ==
  /\ NoPages \in PageMaps
  /\ \A some \in SUBSET Pages : \A f \in [some -> Page] : f \in PageMaps
  /\ \A m \in PageMaps : /\ DOMAIN m \in SUBSET Pages
                         /\ m \in [DOMAIN m -> Page]
<1>1. NoPages \in [{} -> Page]
  BY DEF NoPages
<1>2. \A some \in SUBSET Pages : \A f \in [some -> Page] : f \in PageMaps
  BY DEF PageMaps
<1>3. ASSUME NEW m \in PageMaps
      PROVE  /\ DOMAIN m \in SUBSET Pages
             /\ m \in [DOMAIN m -> Page]
  <2>1. PICK some \in SUBSET Pages : m \in [some -> Page]
    BY <1>3 DEF PageMaps
  <2> QED BY <2>1
<1>4. NoPages \in PageMaps
  BY <1>1, <1>2
<1> QED BY <1>2, <1>3, <1>4

(* Servers.                                                                *)
LEMMA ServerFacts ==
  ASSUME StoreTypeOK
  PROVE  /\ Live \subseteq Servers /\ None \notin Live
         /\ \A s \in Servers : /\ s \in Live <=> server[s] \notin {Unborn, Gone}
                               /\ s \in Live => server[s].of \in Databases
         /\ \A d \in Databases : [of |-> d] \notin {Unborn, Gone} /\ [of |-> d].of = d
BY StoreIds DEF StoreTypeOK, Live

(* The row of an artifact that is there.                                   *)
LEMMA RowTyped ==
  ASSUME StoreTypeOK
  PROVE  /\ \A e \in Entities : e \in Present <=> row[e] # None
         /\ \A e \in Entities : row[e] # None => row[e] \in RowRecord
         /\ Databases \subseteq Entities /\ Codebases \subseteq Entities
         /\ Present \subseteq Entities
BY DEF StoreTypeOK, Present, Entities

(* Nothing is stored and nobody has read anything at first.                *)
LEMMA InitIInv == StoreInit => IInv
<1> SUFFICES ASSUME StoreInit PROVE IInv
  OBVIOUS
<1> DEFINE fresh == NewRow(0, None)
<1>1. fresh \in RowRecord /\ fresh.pin = None /\ fresh.preset = FALSE
  <2>1. 0 \in 0..MaxWrites /\ 0 \in 0..MaxRequests
    BY StoreIds
  <2>2. NoPages \in PageMaps
    BY PageMapsFacts
  <2>3. fresh = Row(NoPages, 0, FALSE, 0, FALSE, None)
    BY DEF NewRow
  <2>4. fresh = [pages |-> NoPages, ver |-> 0, verified |-> FALSE, token |-> 0,
                 preset |-> FALSE, pin |-> None, claimed |-> FALSE]
    BY <2>3 DEF Row
  <2> HIDE DEF fresh
  <2>5. fresh \in RowRecord
    BY <2>1, <2>2, <2>4 DEF RowRecord
  <2>6. fresh.pin = None /\ fresh.preset = FALSE
    BY <2>4
  <2> QED BY <2>5, <2>6
<1> HIDE DEF fresh
<1>2. /\ row \in [Entities -> {None, fresh}]
      /\ \A e \in Entities : row[e] # None => row[e] = fresh
  BY DEF StoreInit, fresh
<1>3. StoreTypeOK
  <2>1. row \in [Entities -> RowRecord \cup {None}]
    BY <1>1, <1>2
  <2>2. server \in [Servers -> [of : Databases] \cup {Unborn, Gone}]
    BY DEF StoreInit
  <2>3. writes \in 0..MaxWrites /\ requests \in 0..MaxRequests /\ claims \in 0..MaxClaims
    BY StoreIds DEF StoreInit
  <2>4. IsPart(payload)
    BY DEF StoreInit, NoRows, IsPart
  <2> QED BY <2>1, <2>2, <2>3, <2>4 DEF StoreInit, StoreTypeOK
<1>4. Live = {}
  BY DEF StoreInit, Live
<1>5. PinsLive /\ PinsShared
  BY <1>1, <1>2, RowTyped, <1>3 DEF PinsLive, PinsShared
<1>6. PresetPaired
  BY <1>1, <1>2, <1>4, RowTyped, <1>3 DEF PresetPaired
<1>7. Remembered /\ PutHolds /\ Filled /\ SavedStands
  BY DEF StoreInit, NoPut, NoRows, LoopFree, Remembered, Known, PutHolds, Filled, SavedStands
<1> QED BY <1>3, <1>5, <1>6, <1>7 DEF IInv

(***************************************************************************)
(* What may happen to the servers, and what stays true then.               *)
(***************************************************************************)

(* A server is born once and dies once, and what was noted stays noted.    *)
ServersMove ==
  /\ \A s \in Servers : \/ server'[s] = server[s]
                        \/ server[s] = Unborn /\ \E d \in Databases : server'[s] = [of |-> d]
                        \/ server[s] # Unborn /\ server'[s] = Gone
  /\ shared \subseteq shared' /\ orphaned \subseteq orphaned'

(* What a client knows, and a PUT is about to write, stays good.           *)
LEMMA RememberedStays ==
  ASSUME IInv, ServersMove, payload' = payload,
         put' = NoPut \/ (~LoopFree /\ put'.rows = put.rows) \/ put' = put
  PROVE  Remembered'
<1>1. \A s \in Servers :
        /\ \/ server'[s] = server[s]
           \/ server[s] = Unborn /\ \E d \in Databases : server'[s] = [of |-> d]
           \/ server[s] # Unborn /\ server'[s] = Gone
        /\ s \in Live <=> server[s] \notin {Unborn, Gone}
        /\ s \in Live' <=> server'[s] \notin {Unborn, Gone}
  BY DEF ServersMove, Live
<1>2. Live' \subseteq Servers /\ Unborn # Gone
  BY StoreIds DEF Live
<1>3. shared \subseteq shared' /\ orphaned \subseteq orphaned' /\ shared \subseteq Servers
  BY DEF ServersMove, IInv, StoreTypeOK
<1>4. ASSUME NEW rows, Known(rows)
      PROVE  /\ \A e \in DOMAIN rows : rows[e].pin \in Servers => server'[rows[e].pin] # Unborn
             /\ \A d \in Databases \cap DOMAIN rows : rows[d].preset /\ ~rows[d].claimed =>
                  \/ /\ rows[d].pin \in Servers
                     /\ server'[rows[d].pin] = Gone \/ server'[rows[d].pin].of = d
                  \/ rows[d].pin = None /\ \E s \in shared' : server'[s] = Gone
  <2>1. \A e \in DOMAIN rows : rows[e].pin \in Servers => server'[rows[e].pin] # Unborn
    BY <1>4, <1>1, <1>2, StoreIds DEF Known
  <2>2. ASSUME NEW d \in Databases \cap DOMAIN rows, rows[d].preset, ~rows[d].claimed
        PROVE  \/ /\ rows[d].pin \in Servers
                  /\ server'[rows[d].pin] = Gone \/ server'[rows[d].pin].of = d
               \/ rows[d].pin = None /\ \E s \in shared' : server'[s] = Gone
    <3>1. CASE rows[d].pin = None /\ \E s \in shared : server[s] = Gone
      BY <3>1, <1>1, <1>2, <1>3
    <3>2. CASE rows[d].pin \in Servers
               /\ (server[rows[d].pin] = Gone \/ server[rows[d].pin].of = d)
      BY <3>2, <1>1, <1>2, <1>4, <2>2 DEF Known
    <3> QED BY <3>1, <3>2, <2>2, <1>4 DEF Known
  <2> QED BY <2>1, <2>2
<1>5. Known(payload)
  BY DEF IInv, Remembered
<1>6. ~LoopFree => Known(put.rows)
  BY DEF IInv, Remembered
<1>7. Known(payload)'
  BY <1>4, <1>5 DEF Known
<1>8. (~LoopFree => Known(put.rows))'
  <2>1. CASE put' = NoPut
    BY <2>1 DEF LoopFree, NoPut
  <2>2. CASE ~LoopFree /\ put'.rows = put.rows
    BY <2>2, <1>4, <1>6 DEF Known
  <2>3. CASE put' = put
    BY <2>3, <1>4, <1>6 DEF Known, LoopFree
  <2> QED BY <2>1, <2>2, <2>3
<1> QED BY <1>7, <1>8 DEF Remembered

(* The pins stay good when no row comes or goes and none is pinned anew.   *)
LEMMA SamePins ==
  ASSUME IInv, server' = server, shared' = shared, orphaned' = orphaned,
         \A e \in Entities :
           /\ row'[e] = None <=> row[e] = None
           /\ row[e] # None => /\ row'[e].pin = row[e].pin /\ row'[e].preset = row[e].preset
                              /\ row'[e].claimed = row[e].claimed
  PROVE  PinsLive' /\ PinsShared' /\ PresetPaired'
<1>1. Live' = Live /\ Live \subseteq Servers
  BY DEF Live
<1>2. Present' = Present /\ Databases \subseteq Entities /\ Present \subseteq Entities
  BY DEF Present, Entities
<1>3. \A e \in Present : row[e] # None
  BY DEF Present
<1>4. PinsLive'
  BY <1>1, <1>2, <1>3 DEF PinsLive, IInv
<1>5. PinsShared'
  BY <1>2, <1>3 DEF PinsShared, IInv
<1>6. \A s \in Live : server[s].of \in Databases
  BY ServerFacts DEF IInv
<1>7. PresetPaired'
  BY <1>1, <1>2, <1>6 DEF PresetPaired, Serves, IInv
<1> QED BY <1>4, <1>5, <1>7

(* While no PUT is under way nothing is claimed of one.                    *)
LEMMA NoPutStays ==
  ASSUME put' = NoPut \/ (LoopFree /\ put' = put)
  PROVE  PutHolds' /\ Filled' /\ SavedStands'
BY DEF LoopFree, NoPut, PutHolds, Filled, SavedStands

(***************************************************************************)
(* Documentation jobs.                                                     *)
(***************************************************************************)

(* A job takes the lock of its artifact, never one that a PUT holds.       *)
LEMMA JobStartIInv == ASSUME IInv, NEW e \in Entities, JobStart(e) PROVE IInv'
<1> USE DEF JobStart, IInv
<1>1. StoreTypeOK'
  BY DEF StoreTypeOK, IsPart, IsPut
<1>2. PinsLive' /\ PinsShared' /\ PresetPaired'
  BY SamePins
<1>3. Remembered'
  BY RememberedStays DEF ServersMove
<1>4. PutHolds'
  BY StoreIds DEF PutHolds, Locked, Present, StoreTypeOK, Entities
<1>5. Filled' /\ SavedStands'
  BY DEF Filled, SavedStands, LoopFree
<1> QED BY <1>1, <1>2, <1>3, <1>4, <1>5

(* A job that fails leaves its artifact as it was and frees the lock.      *)
LEMMA JobFailsIInv == ASSUME IInv, NEW e \in Entities, JobFails(e) PROVE IInv'
<1> USE DEF JobFails, IInv
<1>1. StoreTypeOK'
  BY DEF StoreTypeOK, IsPart, IsPut
<1>2. PinsLive' /\ PinsShared' /\ PresetPaired'
  BY SamePins
<1>3. Remembered'
  BY RememberedStays DEF ServersMove
<1>4. PutHolds'
  BY DEF PutHolds, Present, StoreTypeOK, Entities
<1>5. Filled' /\ SavedStands'
  BY DEF Filled, SavedStands, LoopFree
<1> QED BY <1>1, <1>2, <1>3, <1>4, <1>5

(* What a job writes, and that a PUT under way is told.                    *)
LEMMA JobCommitRow ==
  ASSUME StoreTypeOK, NEW e \in Entities, JobCommit(e), row[e] # None
  PROVE  /\ \E ps \in PageMaps, n \in 0..MaxWrites :
              row' = [row EXCEPT ![e] = [row[e] EXCEPT !.pages = ps, !.ver = n]]
         /\ writes' \in 0..MaxWrites
<1>1. PICK some \in (SUBSET Pages) \ {{}} :
        row' = [row EXCEPT ![e].pages = [p \in some |-> Written(writes')], ![e].ver = writes']
  BY DEF JobCommit
<1>2. writes' \in 0..MaxWrites
  BY StoreIds DEF JobCommit, Write, StoreTypeOK
<1>3. [p \in some |-> Written(writes')] \in PageMaps
  <2>1. [p \in some |-> Written(writes')] \in [some -> Page]
    BY <1>2 DEF Written, Page
  <2> QED BY <2>1, PageMapsFacts
<1>4. row' = [row EXCEPT ![e] = [row[e] EXCEPT !.pages = [p \in some |-> Written(writes')],
                                              !.ver = writes']]
  BY <1>1 DEF StoreTypeOK
<1> QED BY <1>2, <1>3, <1>4

(* A job commits; a PUT under way is told, and its codebases are not       *)
(* touched once it holds their locks.                                      *)
LEMMA JobCommitIInv == ASSUME IInv, NEW e \in Entities, JobCommit(e) PROVE IInv'
<1> USE DEF IInv
<1>0. server' = server /\ payload' = payload /\ shared' = shared /\ orphaned' = orphaned
      /\ ask' = ask /\ requests' = requests /\ claims' = claims
  BY DEF JobCommit
<1>1. lock[e] = "job" /\ lock' = [lock EXCEPT ![e] = None]
  BY DEF JobCommit
<1>2. CASE row[e] = None
  <2>0. row' = row /\ put' = put /\ writes' = writes
    BY <1>2 DEF JobCommit
  <2>1. StoreTypeOK'
    BY <1>0, <1>1, <2>0 DEF StoreTypeOK, IsPart, IsPut
  <2>2. PinsLive' /\ PinsShared' /\ PresetPaired'
    BY <1>0, <2>0, SamePins
  <2>3. Remembered'
    BY <1>0, <2>0, RememberedStays DEF ServersMove
  <2>4. PutHolds'
    BY <1>1, <2>0 DEF PutHolds, Present, StoreTypeOK, Entities
  <2>5. Filled' /\ SavedStands'
    BY <1>0, <2>0 DEF Filled, SavedStands, LoopFree
  <2> QED BY <2>1, <2>2, <2>3, <2>4, <2>5
<1>3. CASE row[e] # None
  <2>1. PICK ps \in PageMaps, n \in 0..MaxWrites :
          row' = [row EXCEPT ![e] = [row[e] EXCEPT !.pages = ps, !.ver = n]]
    BY <1>3, JobCommitRow
  <2> DEFINE new == [row[e] EXCEPT !.pages = ps, !.ver = n]
  <2>2. row[e] \in RowRecord
    BY <1>3, RowTyped
  <2>3. /\ new \in RowRecord /\ new # None
        /\ new.pin = row[e].pin /\ new.preset = row[e].preset /\ new.claimed = row[e].claimed
        /\ new.verified = row[e].verified /\ new.token = row[e].token
    BY <2>2, StoreIds DEF RowRecord
  <2> HIDE DEF new
  <2>4. /\ row' = [row EXCEPT ![e] = new]
        /\ row'[e] = new /\ \A x \in Entities : x # e => row'[x] = row[x]
        /\ row' \in [Entities -> RowRecord \cup {None}]
    BY <2>1, <2>3 DEF StoreTypeOK, new
  <2>5. put' = IF LoopFree THEN put ELSE [put EXCEPT !.since = @ \cup {e}]
    BY <1>3 DEF JobCommit
  <2>6. CASE LoopFree
    <3>0. put' = put
      BY <2>5, <2>6
    <3>1. StoreTypeOK'
      BY <1>0, <1>1, <2>4, <1>3, <3>0, JobCommitRow DEF StoreTypeOK, IsPart, IsPut
    <3>2. PinsLive' /\ PinsShared' /\ PresetPaired'
      BY <1>0, <1>3, <2>3, <2>4, SamePins
    <3>3. Remembered'
      BY <1>0, <3>0, RememberedStays DEF ServersMove
    <3>4. PutHolds' /\ Filled' /\ SavedStands'
      BY <3>0, <2>6, NoPutStays
    <3> QED BY <3>1, <3>2, <3>3, <3>4
  <2>7. CASE ~LoopFree
    <3>1. /\ put' = [put EXCEPT !.since = put.since \cup {e}]
          /\ IsPut
      BY <2>5, <2>7 DEF StoreTypeOK, LoopFree, NoPut
    <3>2. /\ put'.at = put.at /\ put'.rows = put.rows /\ put'.saved = put.saved
          /\ put'.since = put.since \cup {e} /\ put'.renewed = put.renewed /\ put'.post = put.post
      BY <3>1 DEF IsPut
    <3>3. IsPut'
      <4>1. /\ put.at \in {"lock", "save", "write"} /\ put.renewed \in SUBSET Codebases
            /\ put.since \in SUBSET Entities
            /\ put.saved \in {<<>>} \cup [Entities -> RowRecord \cup {None}]
            /\ put = [at |-> put.at, post |-> put.post, renewed |-> put.renewed,
                      since |-> put.since, saved |-> put.saved, rows |-> put.rows]
            /\ put.post \in BOOLEAN
        BY <3>1 DEF IsPut
      <4>2. put' = [at |-> put.at, post |-> put.post, renewed |-> put.renewed,
                    since |-> put.since \cup {e}, saved |-> put.saved, rows |-> put.rows]
        BY <3>1, <4>1
      <4>3. put.since \cup {e} \in SUBSET Entities
        BY <4>1
      <4>4. IsPart(put.rows)'
        BY <3>1, <3>2 DEF IsPut, IsPart
      <4> QED BY <4>1, <4>2, <4>3, <4>4 DEF IsPut
    <3>4. StoreTypeOK'
      BY <1>0, <1>1, <2>4, <3>3, <1>3, JobCommitRow DEF StoreTypeOK, IsPart
    <3>5. PinsLive' /\ PinsShared' /\ PresetPaired'
      BY <1>0, <1>3, <2>3, <2>4, SamePins
    <3>6. Remembered'
      BY <1>0, <3>2, <2>7, RememberedStays DEF ServersMove
    <3>7. PutHolds' /\ (put'.at \in {"save", "write"} => e \in Databases)
      BY <1>1, <1>3, <2>3, <2>4, <3>2 DEF PutHolds, Present, StoreTypeOK, Entities
    <3>8. Filled'
      BY <1>0, <1>3, <2>4, <2>7, <3>2 DEF Filled, LoopFree, IsPut, IsPart
    <3>9. SavedStands'
      BY <1>3, <2>3, <2>4, <3>2, <3>7, StoreIds DEF SavedStands, Entities
    <3> QED BY <3>4, <3>5, <3>6, <3>7, <3>8, <3>9
  <2> QED BY <2>6, <2>7
<1> QED BY <1>2, <1>3

(***************************************************************************)
(* A PUT and what it is made of.                                           *)
(***************************************************************************)

(* What is stored is good to be remembered.                                *)
LEMMA StoredKnown == ASSUME IInv PROVE Known([e \in Present |-> row[e]])
<1> DEFINE rows == [e \in Present |-> row[e]]
<1>1. DOMAIN rows = Present /\ \A e \in Present : rows[e] = row[e]
  OBVIOUS
<1> HIDE DEF rows
<1>2. StoreTypeOK /\ PinsLive /\ PinsShared /\ PresetPaired
  BY DEF IInv
<1>3. \A d \in Databases : d \in Present <=> row[d] # None
  BY <1>2, RowTyped
<1>4. \A e \in Present : rows[e].pin \in Servers => server[rows[e].pin] # Unborn
  BY <1>1, <1>2, StoreIds DEF PinsLive, Live
<1>5. ASSUME NEW d \in Databases \cap Present, rows[d].preset, ~rows[d].claimed
      PROVE  \/ /\ rows[d].pin \in Servers
                /\ server[rows[d].pin] = Gone \/ server[rows[d].pin].of = d
             \/ rows[d].pin = None /\ \E s \in shared : server[s] = Gone
  BY <1>1, <1>2, <1>3, <1>5, ServerFacts DEF PresetPaired
<1> QED BY <1>1, <1>4, <1>5 DEF Known, rows

(* Rows with the same pins are as good to be remembered.                   *)
LEMMA KnownPins ==
  ASSUME NEW rows, NEW some, Known(rows), DOMAIN some \subseteq DOMAIN rows,
         \A e \in DOMAIN some : /\ some[e].pin = rows[e].pin /\ some[e].preset = rows[e].preset
                               /\ some[e].claimed = rows[e].claimed
  PROVE  Known(some)
<1>1. \A e \in DOMAIN some : e \in DOMAIN rows
  OBVIOUS
<1> QED BY <1>1 DEF Known

(* A client reads the product, whole or light.                             *)
LEMMA ReadIInv == ASSUME IInv, NEW light \in BOOLEAN, Read(light) PROVE IInv'
<1> USE DEF IInv
<1> DEFINE got(e) == IF light THEN [row[e] EXCEPT !.pages = Light(row[e].pages)] ELSE row[e]
<1>1. /\ UNCHANGED <<row, server, lock, put, ask, writes, requests, claims, shared, orphaned>>
      /\ LoopFree /\ payload' = [e \in Present |-> got(e)]
  BY DEF Read
<1>2. \A e \in Present : got(e) \in RowRecord /\ got(e).pin = row[e].pin
                          /\ got(e).preset = row[e].preset /\ got(e).claimed = row[e].claimed
  <2> SUFFICES ASSUME NEW e \in Present
               PROVE  got(e) \in RowRecord /\ got(e).pin = row[e].pin
                      /\ got(e).preset = row[e].preset /\ got(e).claimed = row[e].claimed
    OBVIOUS
  <2>1. row[e] \in RowRecord /\ row[e].pages \in PageMaps
    BY RowTyped, RowFields
  <2>2. Light(row[e].pages) \in PageMaps
    <3>1. DOMAIN row[e].pages \in SUBSET Pages
      BY <2>1, PageMapsFacts
    <3>2. Light(row[e].pages) \in [DOMAIN row[e].pages -> Page]
      BY <2>1, PageMapsFacts DEF Light, Page
    <3> QED BY <3>1, <3>2, PageMapsFacts
  <2> DEFINE new == [row[e] EXCEPT !.pages = Light(row[e].pages)]
  <2>3. /\ new \in RowRecord /\ new.pin = row[e].pin /\ new.preset = row[e].preset
        /\ new.claimed = row[e].claimed
    BY <2>1, <2>2 DEF RowRecord
  <2> QED BY <2>1, <2>3
<1> HIDE DEF got
<1>3. DOMAIN payload' = Present /\ \A e \in Present : payload'[e] = got(e)
  BY <1>1
<1>4. StoreTypeOK'
  <2>1. IsPart(payload)'
    BY <1>1, <1>2, <1>3, RowTyped DEF IsPart
  <2> QED BY <1>1, <2>1 DEF StoreTypeOK, IsPart, IsPut
<1>5. PinsLive' /\ PinsShared' /\ PresetPaired'
  BY <1>1, SamePins
<1>6. Remembered'
  <2>1. Known([e \in Present |-> row[e]])
    BY StoredKnown
  <2>2. Known(payload')
    BY <1>2, <1>3, <2>1, KnownPins
  <2>3. Known(payload)'
    BY <1>1, <2>2 DEF Known, Live
  <2> QED BY <1>1, <2>3 DEF Remembered, LoopFree
<1>7. PutHolds' /\ Filled' /\ SavedStands'
  BY <1>1, NoPutStays
<1> QED BY <1>4, <1>5, <1>6, <1>7

(* Merging two maps of pages.                                              *)
LEMMA MergedPages ==
  ASSUME NEW sent \in PageMaps, NEW kept \in PageMaps
  PROVE  /\ Merged(sent, kept) \in PageMaps
         /\ \A p \in DOMAIN sent \cap DOMAIN kept :
              sent[p].text = Stripped /\ kept[p].text # Stripped =>
                Carried(p, kept, Merged(sent, kept))
<1>1. /\ DOMAIN sent \in SUBSET Pages
      /\ sent \in [DOMAIN sent -> Page]
      /\ kept \in [DOMAIN kept -> Page]
  BY PageMapsFacts
<1>2. \A p \in DOMAIN sent \cap DOMAIN kept :
        LET fill == [kept[p] EXCEPT !.flag = kept[p].flag \/ sent[p].flag] IN
        /\ fill \in Page /\ fill.text = kept[p].text
        /\ kept[p].flag => fill.flag
  BY <1>1 DEF Page
<1>3. Merged(sent, kept) \in [DOMAIN sent -> Page]
  BY <1>1, <1>2 DEF Merged
<1>4. Merged(sent, kept) \in PageMaps
  BY <1>1, <1>3, PageMapsFacts
<1> QED BY <1>2, <1>4 DEF Merged, Carried

(* What a client sends for an artifact: the row it has read, a new one, or *)
(* one whose type and pin it makes up from the servers that there are.     *)
LEMMA BodyFacts ==
  ASSUME IInv, NEW e \in Entities, NEW claim,
         claim \in {None} \cup [of : Databases, preset : BOOLEAN, pin : Live \cup {None}],
         NEW b, b = Body(e, claim)
  PROVE  /\ b \in RowRecord
         /\ e \in DOMAIN payload => b.pages = payload[e].pages
         /\ b.pin \in Servers => server[b.pin] # Unborn
         /\ e \in Databases /\ b.preset /\ ~b.claimed =>
              \/ b.pin \in Servers /\ (server[b.pin] = Gone \/ server[b.pin].of = e)
              \/ b.pin = None /\ \E s \in shared : server[s] = Gone
<1> USE DEF IInv
<1> DEFINE known == IF e \in DOMAIN payload THEN payload[e] ELSE NewRow(0, None)
<1>1. /\ known \in RowRecord
      /\ e \in DOMAIN payload => known = payload[e]
      /\ e \notin DOMAIN payload => known.pin = None /\ known.preset = FALSE
  <2>1. CASE e \in DOMAIN payload
    BY <2>1 DEF StoreTypeOK, IsPart
  <2>2. CASE e \notin DOMAIN payload
    <3>1. 0 \in 0..MaxWrites /\ 0 \in 0..MaxRequests
      BY StoreIds
    <3> DEFINE fresh == NewRow(0, None)
    <3>2. fresh = [pages |-> NoPages, ver |-> 0, verified |-> FALSE, token |-> 0,
                   preset |-> FALSE, pin |-> None, claimed |-> FALSE]
      BY DEF NewRow, Row
    <3>3. None \in Servers \cup {None} /\ NoPages \in PageMaps
      BY PageMapsFacts
    <3> HIDE DEF fresh
    <3>4. fresh \in RowRecord /\ fresh.pin = None /\ fresh.preset = FALSE
      BY <3>1, <3>2, <3>3 DEF RowRecord
    <3>5. known = fresh
      BY <2>2 DEF fresh
    <3> HIDE DEF known
    <3> QED BY <2>2, <3>4, <3>5
  <2> QED BY <2>1, <2>2
<1>2. /\ known.pin \in Servers => server[known.pin] # Unborn
      /\ e \in Databases /\ known.preset /\ ~known.claimed =>
           \/ known.pin \in Servers /\ (server[known.pin] = Gone \/ server[known.pin].of = e)
           \/ known.pin = None /\ \E s \in shared : server[s] = Gone
  BY <1>1, StoreIds DEF Remembered, Known
<1>3. b = IF claim = None \/ claim.of # e THEN known
          ELSE [known EXCEPT !.preset = claim.preset, !.pin = claim.pin, !.claimed = TRUE]
  BY DEF Body
<1> HIDE DEF known
<1>4. CASE claim = None \/ claim.of # e
  BY <1>1, <1>2, <1>3, <1>4
<1>5. CASE ~(claim = None \/ claim.of # e)
  <2>1. claim.preset \in BOOLEAN /\ claim.pin \in Live \cup {None}
    BY <1>5
  <2>2. claim.pin \in Servers \cup {None} /\ (claim.pin \in Servers => server[claim.pin] # Unborn)
    BY <2>1, StoreIds DEF Live
  <2>3. /\ b \in RowRecord /\ b.pages = known.pages /\ b.pin = claim.pin /\ b.claimed = TRUE
    BY <1>1, <1>3, <1>5, <2>1, <2>2 DEF RowRecord
  <2> QED BY <1>1, <2>2, <2>3
<1> QED BY <1>4, <1>5

(* The body of a PUT is merged with the pages that are stored.             *)
LEMMA PutMergeIInv ==
  ASSUME IInv, NEW post \in BOOLEAN, NEW kept \in SUBSET Entities, NEW renewed \in SUBSET Codebases,
         PutMerge(post, kept, renewed)
  PROVE  IInv'
<1> USE DEF IInv
<1>0. PICK claim \in {None} \cup [of : kept \cap Databases, preset : BOOLEAN, pin : Live \cup {None}] :
        /\ put' = [at |-> "lock", post |-> post, renewed |-> renewed, since |-> {}, saved |-> <<>>,
                   rows |-> [e \in kept |->
                     IF post \/ row[e] = None THEN Body(e, claim)
                     ELSE [Body(e, claim) EXCEPT !.pages = Merged(@, row[e].pages)]]]
        /\ IF claim = None /\ kept \subseteq DOMAIN payload THEN UNCHANGED claims
           ELSE claims < MaxClaims /\ claims' = claims + 1
  BY DEF PutMerge
<1> DEFINE sent(e) == Body(e, claim)
           new(e) == IF post \/ row[e] = None THEN sent(e)
                     ELSE [sent(e) EXCEPT !.pages = Merged(sent(e).pages, row[e].pages)]
           rows == [e \in kept |-> new(e)]
<1>1. /\ UNCHANGED <<row, server, lock, payload, ask, writes, shared, orphaned>>
      /\ LoopFree /\ requests' \in 0..MaxRequests /\ claims' \in 0..MaxClaims
      /\ put' = [at |-> "lock", post |-> post, renewed |-> renewed, since |-> {}, saved |-> <<>>,
                 rows |-> rows]
  <2>1. put' = [at |-> "lock", post |-> post, renewed |-> renewed, since |-> {}, saved |-> <<>>,
                rows |-> rows]
    BY <1>0
  <2>2. claims' = claims \/ (claims < MaxClaims /\ claims' = claims + 1)
    BY <1>0
  <2>3. claims' \in 0..MaxClaims
    BY <2>2, StoreIds DEF StoreTypeOK
  <2> HIDE DEF rows
  <2>4. /\ UNCHANGED <<row, server, lock, payload, ask, writes, shared, orphaned>>
        /\ LoopFree /\ requests < MaxRequests /\ requests' = requests + 1
    BY DEF PutMerge, Request
  <2>5. requests' \in 0..MaxRequests
    BY <2>4, StoreIds DEF StoreTypeOK
  <2> QED BY <2>1, <2>3, <2>4, <2>5
<1>2. \A e \in kept :
        /\ sent(e) \in RowRecord
        /\ e \in DOMAIN payload => sent(e).pages = payload[e].pages
        /\ sent(e).pin \in Servers => server[sent(e).pin] # Unborn
        /\ e \in Databases /\ sent(e).preset /\ ~sent(e).claimed =>
             \/ sent(e).pin \in Servers
                /\ (server[sent(e).pin] = Gone \/ server[sent(e).pin].of = e)
             \/ sent(e).pin = None /\ \E s \in shared : server[s] = Gone
  BY BodyFacts
<1> HIDE DEF sent
<1>3. \A e \in kept :
        /\ new(e) \in RowRecord
        /\ new(e).pin = sent(e).pin /\ new(e).preset = sent(e).preset
        /\ new(e).claimed = sent(e).claimed
        /\ ~post /\ row[e] # None => \A p \in DOMAIN row[e].pages \cap DOMAIN sent(e).pages :
             sent(e).pages[p].text = Stripped /\ row[e].pages[p].text # Stripped =>
               Carried(p, row[e].pages, new(e).pages)
  <2> SUFFICES ASSUME NEW e \in kept
               PROVE  /\ new(e) \in RowRecord
                      /\ new(e).pin = sent(e).pin /\ new(e).preset = sent(e).preset
                      /\ new(e).claimed = sent(e).claimed
                      /\ ~post /\ row[e] # None =>
                           \A p \in DOMAIN row[e].pages \cap DOMAIN sent(e).pages :
                             sent(e).pages[p].text = Stripped /\ row[e].pages[p].text # Stripped =>
                               Carried(p, row[e].pages, new(e).pages)
    OBVIOUS
  <2>1. sent(e) \in RowRecord /\ sent(e).pages \in PageMaps
    BY <1>2, RowFields
  <2>2. CASE post \/ row[e] = None
    BY <2>1, <2>2
  <2>3. CASE ~post /\ row[e] # None
    <3>1. row[e].pages \in PageMaps
      BY <2>3, RowTyped, RowFields
    <3> DEFINE m == Merged(sent(e).pages, row[e].pages)
    <3>2. /\ m \in PageMaps
          /\ \A p \in DOMAIN sent(e).pages \cap DOMAIN row[e].pages :
               sent(e).pages[p].text = Stripped /\ row[e].pages[p].text # Stripped =>
                 Carried(p, row[e].pages, m)
      BY <2>1, <3>1, MergedPages
    <3>3. new(e) = [sent(e) EXCEPT !.pages = m]
      BY <2>3
    <3> HIDE DEF m, new
    <3>4. /\ new(e) \in RowRecord /\ new(e).pages = m
          /\ new(e).pin = sent(e).pin /\ new(e).preset = sent(e).preset
          /\ new(e).claimed = sent(e).claimed
      BY <2>1, <3>2, <3>3 DEF RowRecord
    <3> QED BY <3>2, <3>4
  <2> QED BY <2>2, <2>3
<1> HIDE DEF new
<1>4. DOMAIN rows = kept /\ \A e \in kept : rows[e] = new(e)
  OBVIOUS
<1>5. rows \in [kept -> RowRecord]
  BY <1>3
<1> HIDE DEF rows
<1>6. /\ put'.at = "lock" /\ put'.post = post /\ put'.rows = rows /\ put'.since = {}
      /\ put'.renewed = renewed /\ put'.saved = <<>>
  BY <1>1
<1>7. IsPut'
  <2>1. IsPart(put.rows)'
    BY <1>4, <1>5, <1>6 DEF IsPart
  <2> QED BY <1>1, <1>6, <2>1 DEF IsPut
<1>8. StoreTypeOK'
  BY <1>1, <1>7 DEF StoreTypeOK, IsPart
<1>9. PinsLive' /\ PinsShared' /\ PresetPaired'
  BY <1>1, SamePins
<1>10. Remembered'
  <2>1. Known(payload)
    BY DEF Remembered
  <2>2. Known(rows)
    BY <1>2, <1>3, <1>4 DEF Known
  <2>3. Known(put.rows)'
    BY <1>1, <1>6, <2>2 DEF Known
  <2>4. Known(payload)'
    BY <1>1, <2>1 DEF Known
  <2> QED BY <2>3, <2>4 DEF Remembered
<1>11. PutHolds' /\ SavedStands'
  BY <1>6 DEF PutHolds, SavedStands
<1>12. Filled'
  BY <1>1, <1>2, <1>3, <1>4, <1>6 DEF Filled
<1> QED BY <1>8, <1>9, <1>10, <1>11, <1>12

(* A PUT under way is a record with these fields.                          *)
LEMMA PutFields ==
  ASSUME StoreTypeOK, ~LoopFree
  PROVE  /\ IsPut /\ IsPart(put.rows)
         /\ put.at \in {"lock", "save", "write"} /\ put.renewed \subseteq Codebases
         /\ put.since \subseteq Entities
         /\ put.saved \in {<<>>} \cup [Entities -> RowRecord \cup {None}]
         /\ put.post \in BOOLEAN
         /\ put = [at |-> put.at, post |-> put.post, renewed |-> put.renewed, since |-> put.since,
                   saved |-> put.saved, rows |-> put.rows]
BY DEF StoreTypeOK, IsPut, LoopFree, NoPut

(* A PUT locks every codebase there is or it names, or gives up.           *)
LEMMA PutLockIInv == ASSUME IInv, PutLock PROVE IInv'
<1> USE DEF IInv
<1>1. /\ UNCHANGED <<row, server, payload, ask, writes, requests, claims, shared, orphaned>>
      /\ put.at = "lock" /\ ~LoopFree
  BY DEF PutLock, LoopFree
<1>2. PinsLive' /\ PinsShared' /\ PresetPaired'
  BY <1>1, SamePins
<1>3. CASE Busy
  <2>1. put' = NoPut /\ lock' = lock
    BY <1>3 DEF PutLock
  <2>2. StoreTypeOK'
    BY <1>1, <2>1 DEF StoreTypeOK, IsPart
  <2>3. Remembered'
    BY <1>1, <2>1, RememberedStays DEF ServersMove
  <2> QED BY <1>2, <2>1, <2>2, <2>3, NoPutStays
<1>4. CASE ~Busy
  <2>1. /\ put' = [put EXCEPT !.at = "save"]
        /\ lock' = [e \in Entities |-> IF e \in PutLocks /\ ~Locked(e) THEN "put" ELSE lock[e]]
    BY <1>4 DEF PutLock
  <2>2. put' = [at |-> "save", post |-> put.post, renewed |-> put.renewed, since |-> put.since,
                saved |-> put.saved, rows |-> put.rows]
    BY <1>1, <2>1, PutFields
  <2>3. /\ put'.at = "save" /\ put'.rows = put.rows /\ put'.since = put.since
        /\ put'.post = put.post
    BY <2>2
  <2>4. IsPart(put.rows)'
    BY <1>1, <2>3, PutFields DEF IsPart
  <2>5. IsPut'
    BY <1>1, <2>2, <2>3, <2>4, PutFields DEF IsPut
  <2>6. lock' \in [Entities -> {None, "job", "put"}]
    BY <2>1 DEF StoreTypeOK
  <2>7. StoreTypeOK'
    BY <1>1, <2>5, <2>6 DEF StoreTypeOK, IsPart
  <2>8. Remembered'
    BY <1>1, <2>3, RememberedStays DEF ServersMove
  <2>9. PutHolds'
    <3>1. \A c \in PutLocks : ~Locked(c)
      BY <1>4 DEF Busy, LockedOut
    <3>2. \A c \in Codebases : c \in Present \cup DOMAIN put.rows => c \in PutLocks /\ c \in Entities
      BY DEF PutLocks, Entities
    <3>3. Present' = Present
      BY <1>1 DEF Present
    <3> QED BY <2>1, <2>3, <3>1, <3>2, <3>3 DEF PutHolds
  <2>10. Filled' /\ SavedStands'
    BY <1>1, <2>3 DEF Filled, SavedStands, LoopFree
  <2> QED BY <1>2, <2>7, <2>8, <2>9, <2>10
<1> QED BY <1>3, <1>4

(* A PUT reads what the server owns.                                       *)
LEMMA PutSnapshotIInv == ASSUME IInv, PutSnapshot PROVE IInv'
<1> USE DEF IInv
<1>1. /\ UNCHANGED <<row, server, lock, payload, ask, writes, requests, claims, shared, orphaned>>
      /\ put.at = "save" /\ ~LoopFree
      /\ put' = [put EXCEPT !.at = "write", !.saved = row]
  BY DEF PutSnapshot, LoopFree
<1>2. put' = [at |-> "write", post |-> put.post, renewed |-> put.renewed, since |-> put.since,
              saved |-> row, rows |-> put.rows]
  <2> DEFINE a == put.at  o == put.post  r == put.renewed  n == put.since  v == put.saved
             w == put.rows
  <2>1. put = [at |-> a, post |-> o, renewed |-> r, since |-> n, saved |-> v, rows |-> w]
    BY <1>1, PutFields
  <2> HIDE DEF a, o, r, n, v, w
  <2>2. put' = [at |-> "write", post |-> o, renewed |-> r, since |-> n, saved |-> row, rows |-> w]
    BY <1>1, <2>1
  <2> QED BY <2>2 DEF o, r, n, w
<1>3. /\ put'.post = put.post
      /\ put'.at = "write" /\ put'.rows = put.rows /\ put'.since = put.since /\ put'.saved = row
  BY <1>2
<1>4. row \in [Entities -> RowRecord \cup {None}]
  BY DEF StoreTypeOK
<1>5. IsPart(put.rows)'
  BY <1>1, <1>3, PutFields DEF IsPart
<1>6. IsPut'
  BY <1>1, <1>2, <1>3, <1>4, <1>5, PutFields DEF IsPut
<1>7. StoreTypeOK'
  BY <1>1, <1>6 DEF StoreTypeOK, IsPart
<1>8. PinsLive' /\ PinsShared' /\ PresetPaired'
  BY <1>1, SamePins
<1>9. Remembered'
  BY <1>1, <1>3, RememberedStays DEF ServersMove
<1>10. PutHolds'
  BY <1>1, <1>3 DEF PutHolds, Present
<1>11. Filled'
  BY <1>1, <1>3 DEF Filled, LoopFree
<1>12. SavedStands'
  BY <1>1, <1>3, <1>4 DEF SavedStands
<1> QED BY <1>7, <1>8, <1>9, <1>10, <1>11, <1>12

(* The rows a PUT writes, the servers it leaves behind and those that two   *)
(* of its rows are pinned to.                                              *)
LostServers(written) == {s \in Live : Serves(s, row) /\ ~Serves(s, written)}
TwiceNamed ==
  {s \in Live : \E c, d \in Databases \cap DOMAIN put.rows :
     c # d /\ put.rows[c].pin = s /\ put.rows[d].pin = s}
Sound == \A e \in DOMAIN put.rows : put.rows[e].pin \in Live \cup {None}

(* A written row is that of the payload with what had been saved, and no   *)
(* row is written when one is pinned to a server that is gone.             *)
LEMMA PutWritten ==
  ASSUME IInv, PutWrite
  PROVE  /\ ~LoopFree /\ put' = NoPut
         /\ ~Sound => row' = row /\ orphaned' = orphaned /\ shared' = shared
         /\ Sound =>
              /\ row' \in [Entities -> RowRecord \cup {None}]
              /\ orphaned' = orphaned \cup LostServers(row')
              /\ shared' = shared \cup TwiceNamed
              /\ \A e \in Entities : row'[e] # None <=> e \in DOMAIN put.rows
              /\ \A e \in Entities \cap DOMAIN put.rows :
                   /\ row'[e].pages = put.rows[e].pages
                   /\ row'[e].pin = put.rows[e].pin /\ row'[e].preset = put.rows[e].preset
                   /\ row'[e].claimed = put.rows[e].claimed
                   /\ row'[e].token = TokenOf(e, put.saved[e])
                   /\ put.saved[e] # None =>
                        /\ row'[e].ver = put.saved[e].ver
                        /\ row'[e].verified = put.saved[e].verified
<1> USE DEF IInv
<1> DEFINE new(e) == [Restored(put.rows[e], put.saved[e]) EXCEPT !.token = TokenOf(e, put.saved[e])]
           written == [e \in Entities |-> IF e \in DOMAIN put.rows THEN new(e) ELSE None]
<1>1. put.at = "write" /\ put' = NoPut /\ ~LoopFree
  BY DEF PutWrite, LoopFree
<1>2. /\ row' = IF Sound THEN written ELSE row
      /\ orphaned' = IF Sound THEN orphaned \cup LostServers(written) ELSE orphaned
      /\ shared' = IF Sound THEN shared \cup TwiceNamed ELSE shared
  BY DEF PutWrite, Sound, LostServers, TwiceNamed
<1>3. /\ put.saved \in [Entities -> RowRecord \cup {None}] /\ IsPart(put.rows)
  BY <1>1, PutFields DEF SavedStands
<1>4. requests \in 0..MaxRequests /\ 0 \in 0..MaxRequests /\ 0 \in 0..MaxWrites
  BY StoreIds DEF StoreTypeOK
<1>5. ASSUME NEW e \in Entities \cap DOMAIN put.rows
      PROVE  /\ new(e) \in RowRecord /\ new(e) # None
             /\ new(e).pages = put.rows[e].pages
             /\ new(e).pin = put.rows[e].pin /\ new(e).preset = put.rows[e].preset
             /\ new(e).claimed = put.rows[e].claimed
             /\ new(e).token = TokenOf(e, put.saved[e])
             /\ put.saved[e] # None =>
                  /\ new(e).ver = put.saved[e].ver
                  /\ new(e).verified = put.saved[e].verified
  <2> DEFINE r == put.rows[e]  v == put.saved[e]  k == TokenOf(e, v)
  <2>1. r \in RowRecord
    BY <1>3 DEF IsPart
  <2>2. v = None \/ v \in RowRecord
    BY <1>3
  <2>3. k \in 0..MaxRequests
    BY <1>4, <2>2, RowFields DEF TokenOf
  <2> HIDE DEF r, v, k
  <2>4. PICK n \in 0..MaxWrites, b \in BOOLEAN :
          /\ Restored(r, v) = [r EXCEPT !.ver = n, !.verified = b]
          /\ v # None => n = v.ver /\ b = v.verified
    <3>1. CASE v = None
      <4>1. Restored(r, v) = [r EXCEPT !.ver = 0, !.verified = FALSE]
        BY <3>1 DEF Restored, Owned
      <4> QED BY <1>4, <3>1, <4>1
    <3>2. CASE v # None
      <4>1. Restored(r, v) = [r EXCEPT !.ver = v.ver, !.verified = v.verified]
        BY <3>2 DEF Restored, Owned
      <4> QED BY <2>2, <3>2, <4>1, RowFields
    <3> QED BY <3>1, <3>2
  <2> DEFINE x == [r EXCEPT !.ver = n, !.verified = b]
  <2>5. /\ x \in RowRecord /\ x.pages = r.pages /\ x.pin = r.pin /\ x.preset = r.preset
        /\ x.ver = n /\ x.verified = b /\ x.claimed = r.claimed
    BY <2>1 DEF RowRecord
  <2>6. Restored(r, v) = x
    BY <2>4
  <2> HIDE DEF x
  <2> DEFINE y == [x EXCEPT !.token = k]
  <2>7. /\ y \in RowRecord /\ y.pages = r.pages /\ y.pin = r.pin /\ y.preset = r.preset
        /\ y.ver = n /\ y.verified = b /\ y.token = k /\ y.claimed = r.claimed
    BY <2>3, <2>5 DEF RowRecord
  <2>8. y # None
    BY <2>7, StoreIds
  <2> HIDE DEF y
  <2>9. new(e) = y
    BY <2>6 DEF y, r, v, k
  <2> QED BY <2>4, <2>7, <2>8, <2>9 DEF r, v, k
<1> HIDE DEF new
<1>6. ASSUME Sound
      PROVE  /\ row' = written /\ orphaned' = orphaned \cup LostServers(row')
             /\ shared' = shared \cup TwiceNamed
  BY <1>2, <1>6
<1>7. \A e \in Entities : written[e] = IF e \in DOMAIN put.rows THEN new(e) ELSE None
  OBVIOUS
<1>8. written \in [Entities -> RowRecord \cup {None}]
  BY <1>5
<1> HIDE DEF written
<1> QED BY <1>1, <1>2, <1>5, <1>6, <1>7, <1>8

(* A PUT writes the rows: those that were read are in order as they were   *)
(* then, and those that its client made up are marked.                     *)
LEMMA PutWriteIInv == ASSUME IInv, PutWrite PROVE IInv'
<1> USE DEF IInv
<1>1. /\ UNCHANGED <<server, payload, ask, writes, requests, claims>>
      /\ lock' = [e \in Entities |-> IF lock[e] = "put" THEN None ELSE lock[e]]
      /\ put' = NoPut /\ ~LoopFree
  BY PutWritten DEF PutWrite
<1>2. PutHolds' /\ Filled' /\ SavedStands'
  BY <1>1, NoPutStays
<1>3. Live' = Live /\ Live \subseteq Servers /\ Databases \subseteq Entities
  BY <1>1 DEF Live, Entities
<1>4. lock' \in [Entities -> {None, "job", "put"}]
  BY <1>1 DEF StoreTypeOK
<1>5. CASE ~Sound
  <2>1. row' = row /\ orphaned' = orphaned /\ shared' = shared
    BY <1>5, PutWritten
  <2>2. StoreTypeOK'
    BY <1>1, <1>4, <2>1 DEF StoreTypeOK, IsPart
  <2>3. PinsLive' /\ PinsShared' /\ PresetPaired'
    BY <1>1, <2>1, SamePins
  <2>4. Remembered'
    BY <1>1, <2>1, RememberedStays DEF ServersMove
  <2> QED BY <1>2, <2>2, <2>3, <2>4
<1>6. CASE Sound
  <2>1. /\ row' \in [Entities -> RowRecord \cup {None}]
        /\ orphaned' = orphaned \cup LostServers(row') /\ shared' = shared \cup TwiceNamed
        /\ \A e \in Entities : row'[e] # None <=> e \in DOMAIN put.rows
        /\ \A e \in Entities \cap DOMAIN put.rows :
             /\ row'[e].pin = put.rows[e].pin /\ row'[e].preset = put.rows[e].preset
             /\ row'[e].claimed = put.rows[e].claimed
    BY <1>6, PutWritten
  <2>2. /\ orphaned \subseteq orphaned' /\ orphaned' \subseteq Servers
        /\ shared \subseteq shared' /\ shared' \subseteq Servers
    BY <1>3, <2>1 DEF LostServers, TwiceNamed, StoreTypeOK
  <2>3. StoreTypeOK'
    BY <1>1, <1>4, <2>1, <2>2 DEF StoreTypeOK, IsPart
  <2>4. Remembered'
    BY <1>1, <2>2, RememberedStays DEF ServersMove
  <2>5. Known(put.rows)
    BY <1>1 DEF Remembered
  <2>6. \A e \in Entities : e \in Present' <=> e \in DOMAIN put.rows
    BY <2>1 DEF Present
  <2>7. Present' \subseteq Entities
    BY DEF Present
  <2>8. PinsLive'
    BY <1>3, <1>6, <2>1, <2>6, <2>7 DEF PinsLive, Sound
  <2>9. PinsShared'
    <3> SUFFICES ASSUME NEW c \in Databases, NEW d \in Databases, c \in Present', d \in Present',
                        c # d, row'[c].pin = row'[d].pin, row'[d].pin # None
                 PROVE  row'[d].pin \in shared'
      BY DEF PinsShared
    <3>1. c \in DOMAIN put.rows /\ d \in DOMAIN put.rows /\ c \in Entities /\ d \in Entities
      BY <1>3, <2>6
    <3>2. put.rows[c].pin = row'[d].pin /\ put.rows[d].pin = row'[d].pin
      BY <2>1, <3>1
    <3>3. row'[d].pin \in Live
      BY <1>6, <3>1, <3>2 DEF Sound
    <3> QED BY <2>1, <3>1, <3>2, <3>3 DEF TwiceNamed
  <2>10. ASSUME NEW d \in Databases, row'[d] # None, row'[d].preset, ~row'[d].claimed
         PROVE  \/ row'[d].pin \in Live' /\ server'[row'[d].pin].of = d
                \/ row'[d].pin = None /\ \E s \in shared' : server'[s] = Gone
    <3>1. d \in DOMAIN put.rows /\ d \in Entities
      BY <1>3, <2>1, <2>10
    <3>2. /\ put.rows[d].preset /\ ~put.rows[d].claimed
          /\ row'[d].pin = put.rows[d].pin /\ put.rows[d].pin \in Live \cup {None}
      BY <1>6, <2>1, <2>10, <3>1 DEF Sound
    <3>3. CASE put.rows[d].pin = None /\ \E s \in shared : server[s] = Gone
      BY <1>1, <2>2, <3>2, <3>3
    <3>4. CASE put.rows[d].pin \in Servers
               /\ (server[put.rows[d].pin] = Gone \/ server[put.rows[d].pin].of = d)
      <4>1. put.rows[d].pin \in Live
        BY <3>2, <3>4, StoreIds
      <4>2. server[put.rows[d].pin] # Gone
        BY <4>1 DEF Live
      <4> QED BY <1>1, <1>3, <3>2, <3>4, <4>1, <4>2
    <3> QED BY <2>5, <3>1, <3>2, <3>3, <3>4 DEF Known
  <2>11. ASSUME NEW s \in Live' \ orphaned'
         PROVE  LET d == server'[s].of IN row'[d] # None /\ row'[d].preset /\ row'[d].pin = s
    <3>1. s \in Live /\ s \notin orphaned /\ s \notin LostServers(row')
      BY <1>3, <2>1
    <3>2. Serves(s, row)
      BY <3>1 DEF PresetPaired
    <3>3. Serves(s, row')
      BY <3>1, <3>2 DEF LostServers
    <3> QED BY <1>1, <3>3 DEF Serves
  <2>12. PresetPaired'
    BY <2>10, <2>11 DEF PresetPaired, Serves
  <2> QED BY <1>2, <2>3, <2>4, <2>8, <2>9, <2>12
<1> QED BY <1>5, <1>6

(***************************************************************************)
(* Single artifacts: a request runs while no PUT is on the event loop.     *)
(***************************************************************************)

(* What a request owes: typed variables and pins in order.                 *)
LEMMA RequestKeeps ==
  ASSUME IInv, ServersMove, LoopFree, put' = put, payload' = payload,
         StoreTypeOK', PinsLive', PinsShared', PresetPaired'
  PROVE  IInv'
<1>1. Remembered'
  BY RememberedStays
<1>2. PutHolds' /\ Filled' /\ SavedStands'
  BY NoPutStays
<1> QED BY <1>1, <1>2 DEF IInv

(* A plain artifact is written: whoever it displaces or joins is noted.    *)
LEMMA PlainRow ==
  ASSUME IInv, NEW e \in Entities, NEW r \in RowRecord,
         ~r.preset, r.pin \in Live \cup {None},
         row' = [row EXCEPT ![e] = r], server' = server,
         shared' = shared \cup Shares(e, r.pin), orphaned' = orphaned \cup Orphans(e)
  PROVE  /\ row' \in [Entities -> RowRecord \cup {None}]
         /\ shared' \subseteq Servers /\ orphaned' \subseteq Servers /\ ServersMove
         /\ PinsLive' /\ PinsShared' /\ PresetPaired'
<1> USE DEF IInv
<1>1. /\ Live' = Live /\ Live \subseteq Servers /\ None \notin Live
      /\ Databases \subseteq Entities /\ r # None
  BY ServerFacts, RowTyped, RowFields DEF Live
<1>2. /\ row' \in [Entities -> RowRecord \cup {None}]
      /\ row'[e] = r /\ \A x \in Entities : x # e => row'[x] = row[x]
  BY DEF StoreTypeOK
<1>3. shared' \subseteq Servers /\ orphaned' \subseteq Servers /\ ServersMove
  BY <1>1 DEF StoreTypeOK, Shares, Orphans, ServersMove
<1>4. \A x \in Entities : x \in Present' <=> row'[x] # None
  BY DEF Present
<1>5. \A x \in Entities : x \in Present <=> row[x] # None
  BY DEF Present
<1>6. PinsLive'
  <2> SUFFICES ASSUME NEW x \in Present' PROVE row'[x].pin \in Live \cup {None}
    BY <1>1 DEF PinsLive
  <2>1. x \in Entities /\ row'[x] # None
    BY DEF Present
  <2> QED BY <1>2, <1>5, <2>1 DEF PinsLive
<1>7. PinsShared'
  <2> SUFFICES ASSUME NEW c \in Databases, NEW d \in Databases, c \in Present', d \in Present',
                      c # d, row'[c].pin = row'[d].pin, row'[d].pin # None
               PROVE  row'[d].pin \in shared'
    BY DEF PinsShared
  <2>1. row'[c] # None /\ row'[d] # None /\ c \in Entities /\ d \in Entities
    BY <1>1, <1>4
  <2>2. CASE c # e /\ d # e
    BY <1>2, <1>5, <2>1, <2>2 DEF PinsShared
  <2>3. CASE c = e
    BY <1>2, <2>1, <2>3 DEF Shares, Pinned
  <2>4. CASE d = e
    BY <1>2, <2>1, <2>4 DEF Shares, Pinned
  <2> QED BY <2>2, <2>3, <2>4
<1>8. \A d \in Databases : row'[d] # None /\ row'[d].preset =>
        row[d] # None /\ row[d].preset /\ row'[d] = row[d]
  BY <1>1, <1>2
<1>9. ASSUME NEW s \in Live' \ orphaned'
      PROVE  LET d == server'[s].of IN row'[d] # None /\ row'[d].preset /\ row'[d].pin = s
  <2> DEFINE d == server[s].of
  <2>1. s \in Live /\ s \notin orphaned /\ s \notin Orphans(e) /\ server'[s].of = d
    BY <1>1
  <2>2. row[d] # None /\ row[d].preset /\ row[d].pin = s /\ d \in Databases
    BY <2>1, ServerFacts DEF PresetPaired, Serves
  <2> HIDE DEF d
  <2>3. d # e
    BY <2>1, <2>2 DEF Orphans, Serves
  <2> QED BY <1>1, <1>2, <2>1, <2>2, <2>3
<1>10. PresetPaired'
  <2>1. \A d \in Databases : row'[d] # None /\ row'[d].preset /\ ~row'[d].claimed =>
          \/ row'[d].pin \in Live' /\ server'[row'[d].pin].of = d
          \/ row'[d].pin = None /\ \E s \in shared' : server'[s] = Gone
    BY <1>1, <1>8 DEF PresetPaired
  <2> QED BY <1>9, <2>1 DEF PresetPaired, Serves
<1> QED BY <1>2, <1>3, <1>6, <1>7, <1>10

(* POST of an artifact, over one that may be there.                        *)
LEMMA AddChildIInv ==
  ASSUME IInv, NEW e \in Entities, NEW pin \in Servers \cup {None}, AddChild(e, pin)
  PROVE  IInv'
<1> USE DEF IInv
<1>1. /\ UNCHANGED <<server, lock, payload, put, ask, writes, claims>>
      /\ LoopFree /\ requests' \in 0..MaxRequests /\ pin \in Live \cup {None}
      /\ orphaned' = orphaned \cup Orphans(e) /\ shared' = shared \cup Shares(e, pin)
  BY StoreIds DEF AddChild, Request, StoreTypeOK
<1>2. PICK token \in {0, requests'} :
        row' = [row EXCEPT ![e] = Owned(NewRow(IF token = 0
                                               THEN IF row[e] = None THEN 0 ELSE row[e].token
                                               ELSE token, pin), row[e])]
  BY DEF AddChild
<1> DEFINE k == IF token = 0 THEN IF row[e] = None THEN 0 ELSE row[e].token ELSE token
           made == NewRow(k, pin)
           r == Owned(made, row[e])
<1>3. 0 \in 0..MaxRequests /\ 0 \in 0..MaxWrites
  BY StoreIds
<1>4. row[e] = None \/ row[e] \in RowRecord
  BY DEF StoreTypeOK
<1>5. k \in 0..MaxRequests
  BY <1>1, <1>2, <1>3, <1>4, RowFields
<1> HIDE DEF k
<1>6. made \in RowRecord /\ made.pin = pin /\ made.preset = FALSE
  BY <1>3, <1>5, RowMade, PageMapsFacts DEF NewRow
<1> HIDE DEF made
<1>7. PICK n \in 0..MaxWrites, b \in BOOLEAN : r = [made EXCEPT !.ver = n, !.verified = b]
  <2>1. CASE row[e] = None
    BY <1>3, <2>1 DEF Owned
  <2>2. CASE row[e] # None
    BY <1>4, <2>2, RowFields DEF Owned
  <2> QED BY <2>1, <2>2
<1>8. row' = [row EXCEPT ![e] = r]
  BY <1>2 DEF made, k
<1> HIDE DEF r
<1>9. r \in RowRecord /\ r.pin = pin /\ ~r.preset
  BY <1>6, <1>7 DEF RowRecord
<1>10. /\ row' \in [Entities -> RowRecord \cup {None}]
       /\ shared' \subseteq Servers /\ orphaned' \subseteq Servers /\ ServersMove
       /\ PinsLive' /\ PinsShared' /\ PresetPaired'
  BY <1>1, <1>8, <1>9, PlainRow
<1>11. StoreTypeOK'
  BY <1>1, <1>10 DEF StoreTypeOK, IsPart, IsPut
<1> QED BY <1>1, <1>10, <1>11, RequestKeeps

(* PUT of a database's settings: not those of a preset.                    *)
LEMMA PinMetaIInv ==
  ASSUME IInv, NEW d \in Databases, NEW pin \in Servers \cup {None}, PinMeta(d, pin)
  PROVE  IInv'
<1> USE DEF IInv
<1>1. /\ UNCHANGED <<server, lock, payload, put, ask, writes, claims, orphaned>>
      /\ LoopFree /\ requests' \in 0..MaxRequests /\ pin \in Live \cup {None}
      /\ row[d] # None /\ ~row[d].preset /\ shared' = shared \cup Shares(d, pin)
  BY StoreIds DEF PinMeta, Request, StoreTypeOK
<1>2. row[d] \in RowRecord /\ d \in Entities
  BY <1>1, RowTyped
<1> DEFINE r == [row[d] EXCEPT !.pin = pin]
<1>3. row' = [row EXCEPT ![d] = r]
  BY DEF PinMeta, StoreTypeOK
<1>4. r \in RowRecord /\ r.pin = pin /\ r.preset = row[d].preset
  BY <1>2 DEF RowRecord
<1> HIDE DEF r
<1>5. orphaned' = orphaned \cup Orphans(d)
  BY <1>1 DEF Orphans, Serves
<1>6. /\ row' \in [Entities -> RowRecord \cup {None}]
      /\ shared' \subseteq Servers /\ orphaned' \subseteq Servers /\ ServersMove
      /\ PinsLive' /\ PinsShared' /\ PresetPaired'
  BY <1>1, <1>2, <1>3, <1>4, <1>5, PlainRow
<1>7. StoreTypeOK'
  BY <1>1, <1>6 DEF StoreTypeOK, IsPart, IsPut
<1> QED BY <1>1, <1>6, <1>7, RequestKeeps

(* A page saved from the editor.                                           *)
LEMMA EditPageIInv ==
  ASSUME IInv, NEW e \in Entities, NEW p \in Pages, EditPage(e, p)
  PROVE  IInv'
<1> USE DEF IInv
<1>1. /\ UNCHANGED <<server, lock, payload, put, ask, claims, shared, orphaned>>
      /\ LoopFree /\ requests' \in 0..MaxRequests /\ writes' \in 0..MaxWrites /\ row[e] # None
  BY StoreIds DEF EditPage, Request, Write, StoreTypeOK
<1>2. row[e] \in RowRecord /\ row[e].pages \in PageMaps
  BY <1>1, RowTyped, RowFields
<1> DEFINE old == row[e].pages
           ps == [q \in DOMAIN old \cup {p} |-> IF q = p THEN Written(writes') ELSE old[q]]
           r == [row[e] EXCEPT !.pages = ps, !.ver = writes']
<1>3. row' = [row EXCEPT ![e] = r]
  BY DEF EditPage, StoreTypeOK
<1>4. ps \in PageMaps
  <2>1. DOMAIN old \in SUBSET Pages /\ old \in [DOMAIN old -> Page]
    BY <1>2, PageMapsFacts
  <2> HIDE DEF old
  <2>2. ps \in [DOMAIN old \cup {p} -> Page]
    BY <1>1, <2>1 DEF Written, Page
  <2> QED BY <2>1, <2>2, PageMapsFacts
<1> HIDE DEF ps
<1>5. /\ r \in RowRecord /\ r # None /\ r.pin = row[e].pin /\ r.preset = row[e].preset
      /\ r.claimed = row[e].claimed
  BY <1>1, <1>2, <1>4, StoreIds DEF RowRecord
<1> HIDE DEF r
<1>6. /\ row' \in [Entities -> RowRecord \cup {None}]
      /\ row'[e] = r /\ \A x \in Entities : x # e => row'[x] = row[x]
  BY <1>3, <1>5 DEF StoreTypeOK
<1>7. PinsLive' /\ PinsShared' /\ PresetPaired'
  BY <1>1, <1>5, <1>6, SamePins
<1>8. StoreTypeOK'
  BY <1>1, <1>6 DEF StoreTypeOK, IsPart, IsPut
<1>9. ServersMove
  BY <1>1 DEF ServersMove
<1> QED BY <1>1, <1>7, <1>8, <1>9, RequestKeeps

(* The verified mark.                                                      *)
LEMMA VerifyIInv == ASSUME IInv, NEW e \in Entities, Verify(e) PROVE IInv'
<1> USE DEF IInv
<1>1. /\ UNCHANGED <<server, lock, payload, put, ask, writes, claims, shared, orphaned>>
      /\ LoopFree /\ requests' \in 0..MaxRequests /\ row[e] # None
  BY StoreIds DEF Verify, Request, StoreTypeOK
<1>2. row[e] \in RowRecord
  BY <1>1, RowTyped
<1> DEFINE r == [row[e] EXCEPT !.verified = TRUE]
<1>3. row' = [row EXCEPT ![e] = r]
  BY DEF Verify, StoreTypeOK
<1>4. /\ r \in RowRecord /\ r # None /\ r.pin = row[e].pin /\ r.preset = row[e].preset
      /\ r.claimed = row[e].claimed
  BY <1>2, StoreIds DEF RowRecord
<1> HIDE DEF r
<1>5. /\ row' \in [Entities -> RowRecord \cup {None}]
      /\ row'[e] = r /\ \A x \in Entities : x # e => row'[x] = row[x]
  BY <1>3, <1>4 DEF StoreTypeOK
<1>6. PinsLive' /\ PinsShared' /\ PresetPaired'
  BY <1>1, <1>4, <1>5, SamePins
<1>7. StoreTypeOK'
  BY <1>1, <1>5 DEF StoreTypeOK, IsPart, IsPut
<1>8. ServersMove
  BY <1>1 DEF ServersMove
<1> QED BY <1>1, <1>6, <1>7, <1>8, RequestKeeps

(* The verified mark of a page.                                            *)
LEMMA VerifyPageIInv ==
  ASSUME IInv, NEW e \in Entities, NEW p \in Pages, VerifyPage(e, p)
  PROVE  IInv'
<1> USE DEF IInv
<1>1. /\ UNCHANGED <<server, lock, payload, put, ask, writes, claims, shared, orphaned>>
      /\ LoopFree /\ requests' \in 0..MaxRequests /\ row[e] # None
      /\ p \in DOMAIN row[e].pages
  BY StoreIds DEF VerifyPage, Request, StoreTypeOK
<1>2. row[e] \in RowRecord /\ row[e].pages \in PageMaps
  BY <1>1, RowTyped, RowFields
<1> DEFINE old == row[e].pages
           mark == [old[p] EXCEPT !.flag = TRUE]
           ps == [old EXCEPT ![p] = mark]
           r == [row[e] EXCEPT !.pages = ps]
<1>3. row' = [row EXCEPT ![e] = r]
  BY DEF VerifyPage, StoreTypeOK
<1>4. ps \in PageMaps
  <2>1. DOMAIN old \in SUBSET Pages /\ old \in [DOMAIN old -> Page] /\ p \in DOMAIN old
    BY <1>1, <1>2, PageMapsFacts
  <2> HIDE DEF old
  <2>2. mark \in Page
    BY <2>1 DEF Page
  <2> HIDE DEF mark
  <2>3. ps \in [DOMAIN old -> Page]
    BY <2>1, <2>2
  <2> QED BY <2>1, <2>3, PageMapsFacts
<1> HIDE DEF ps
<1>5. /\ r \in RowRecord /\ r # None /\ r.pin = row[e].pin /\ r.preset = row[e].preset
      /\ r.claimed = row[e].claimed
  BY <1>1, <1>2, <1>4, StoreIds DEF RowRecord
<1> HIDE DEF r
<1>6. /\ row' \in [Entities -> RowRecord \cup {None}]
      /\ row'[e] = r /\ \A x \in Entities : x # e => row'[x] = row[x]
  BY <1>3, <1>5 DEF StoreTypeOK
<1>7. PinsLive' /\ PinsShared' /\ PresetPaired'
  BY <1>1, <1>5, <1>6, SamePins
<1>8. StoreTypeOK'
  BY <1>1, <1>6 DEF StoreTypeOK, IsPart, IsPut
<1>9. ServersMove
  BY <1>1 DEF ServersMove
<1> QED BY <1>1, <1>7, <1>8, <1>9, RequestKeeps

(***************************************************************************)
(* Artifacts that go.                                                      *)
(***************************************************************************)

(* Rows go and the servers of their presets are noted as left behind.      *)
LEMMA RowsGo ==
  ASSUME IInv, row' \in [Entities -> RowRecord \cup {None}],
         \A e \in Entities : row'[e] = row[e] \/ row'[e] = None,
         server' = server, shared' = shared, orphaned \subseteq orphaned',
         \A d \in Databases : row'[d] # row[d] => Orphans(d) \subseteq orphaned'
  PROVE  PinsLive' /\ PinsShared' /\ PresetPaired'
<1> USE DEF IInv
<1>1. /\ Live' = Live /\ Live \subseteq Servers /\ Databases \subseteq Entities
  BY DEF Live, Entities
<1>2. \A e \in Present' : e \in Present /\ e \in Entities /\ row'[e] = row[e]
  BY DEF Present
<1>3. PinsLive'
  BY <1>1, <1>2 DEF PinsLive
<1>4. PinsShared'
  BY <1>1, <1>2 DEF PinsShared
<1>5. \A d \in Databases : row'[d] # None => row'[d] = row[d]
  BY <1>1
<1>6. ASSUME NEW s \in Live' \ orphaned'
      PROVE  LET d == server'[s].of IN row'[d] # None /\ row'[d].preset /\ row'[d].pin = s
  <2> DEFINE d == server[s].of
  <2>1. s \in Live /\ s \notin orphaned /\ s \notin orphaned' /\ server'[s].of = d
    BY <1>1, <1>6
  <2>2. row[d] # None /\ row[d].preset /\ row[d].pin = s /\ d \in Databases
    BY <2>1, ServerFacts DEF PresetPaired, Serves
  <2> HIDE DEF d
  <2>3. row'[d] = row[d]
    BY <2>1, <2>2 DEF Orphans, Serves
  <2> QED BY <2>1, <2>2, <2>3
<1>7. PresetPaired'
  <2>1. \A d \in Databases : row'[d] # None /\ row'[d].preset /\ ~row'[d].claimed =>
          \/ row'[d].pin \in Live' /\ server'[row'[d].pin].of = d
          \/ row'[d].pin = None /\ \E s \in shared' : server'[s] = Gone
    BY <1>1, <1>5 DEF PresetPaired
  <2> QED BY <1>6, <2>1 DEF PresetPaired, Serves
<1> QED BY <1>3, <1>4, <1>7

(* A codebase is deleted.                                                  *)
LEMMA DeleteCodebaseIInv ==
  ASSUME IInv, NEW c \in Codebases, DeleteCodebase(c)
  PROVE  IInv'
<1> USE DEF IInv
<1>1. /\ UNCHANGED <<server, lock, payload, put, ask, writes, claims, shared, orphaned>>
      /\ LoopFree /\ requests' \in 0..MaxRequests /\ row' = [row EXCEPT ![c] = None]
  BY StoreIds DEF DeleteCodebase, Request, StoreTypeOK
<1>2. /\ row' \in [Entities -> RowRecord \cup {None}]
      /\ \A e \in Entities : row'[e] = row[e] \/ row'[e] = None
      /\ \A d \in Databases : row'[d] = row[d]
  BY <1>1, StoreIds DEF StoreTypeOK, Entities
<1>3. PinsLive' /\ PinsShared' /\ PresetPaired'
  BY <1>1, <1>2, RowsGo
<1>4. StoreTypeOK'
  BY <1>1, <1>2 DEF StoreTypeOK, IsPart, IsPut
<1>5. ServersMove
  BY <1>1 DEF ServersMove
<1> QED BY <1>1, <1>3, <1>4, <1>5, RequestKeeps

(* The product is deleted with all its rows, but not the servers.          *)
LEMMA DeleteProductIInv == ASSUME IInv, DeleteProduct PROVE IInv'
<1> USE DEF IInv
<1>1. /\ UNCHANGED <<server, lock, payload, put, ask, writes, claims, shared>>
      /\ LoopFree /\ requests' \in 0..MaxRequests /\ row' = [e \in Entities |-> None]
      /\ orphaned' = orphaned \cup UNION {Orphans(d) : d \in Databases}
  BY StoreIds DEF DeleteProduct, Request, StoreTypeOK
<1>2. /\ row' \in [Entities -> RowRecord \cup {None}]
      /\ \A e \in Entities : row'[e] = row[e] \/ row'[e] = None
  BY <1>1
<1>3. /\ orphaned \subseteq orphaned' /\ orphaned' \subseteq Servers
      /\ \A d \in Databases : Orphans(d) \subseteq orphaned'
  BY <1>1 DEF StoreTypeOK, Orphans, Live
<1>4. PinsLive' /\ PinsShared' /\ PresetPaired'
  BY <1>1, <1>2, <1>3, RowsGo
<1>5. StoreTypeOK'
  BY <1>1, <1>2, <1>3 DEF StoreTypeOK, IsPart, IsPut
<1>6. ServersMove
  BY <1>1, <1>3 DEF ServersMove
<1> QED BY <1>1, <1>4, <1>5, <1>6, RequestKeeps

(* A database goes with the server it is pinned to, and whoever else was   *)
(* pinned there is unpinned.                                               *)
LEMMA WithoutFacts ==
  ASSUME IInv, NEW d \in Databases, NEW w, w = RowsWithout(d), NEW v, v = DropServer(d)
  PROVE  /\ w \in [Entities -> RowRecord \cup {None}] /\ w[d] = None
         /\ v \in [Servers -> [of : Databases] \cup {Unborn, Gone}]
         /\ \A s \in Servers : \/ v[s] = server[s]
                               \/ s \in Live /\ v[s] = Gone
         /\ \A e \in Entities : w[e] # None =>
              /\ e # d /\ row[e] # None /\ w[e].preset = row[e].preset /\ w[e].claimed = row[e].claimed
              /\ \/ w[e].pin = row[e].pin /\ (w[e].pin \in Servers => v[w[e].pin] = server[w[e].pin])
                 \/ w[e].pin = None /\ row[e].pin \in Servers /\ v[row[e].pin] = Gone
                    /\ row[d] # None /\ row[d].pin = row[e].pin
         /\ \A s \in Servers : v[s] \notin {Unborn, Gone} =>
              /\ s \in Live /\ v[s] = server[s]
              /\ row[d] # None => row[d].pin # s
              /\ \A e \in Entities : e # d /\ row[e] # None /\ row[e].pin = s => w[e] = row[e]
<1> USE DEF IInv
<1>1. /\ Live \subseteq Servers /\ None \notin Live /\ d \in Entities /\ None \notin Servers
      /\ \A s \in Servers : s \in Live <=> server[s] \notin {Unborn, Gone}
  BY ServerFacts, RowTyped, StoreIds
<1>2. server \in [Servers -> [of : Databases] \cup {Unborn, Gone}]
      /\ row \in [Entities -> RowRecord \cup {None}]
  BY DEF StoreTypeOK
<1>3. CASE ~(row[d] # None /\ row[d].pin \in Live)
  <2>1. v = server /\ w = [row EXCEPT ![d] = None]
    BY <1>3 DEF DropServer, RowsWithout
  <2>2. row[d] # None => row[d].pin \notin Live
    BY <1>3
  <2> QED BY <1>1, <1>2, <2>1, <2>2
<1>4. CASE row[d] # None /\ row[d].pin \in Live
  <2> DEFINE s == row[d].pin
  <2>1. v = [server EXCEPT ![s] = Gone] /\ w = [Unpinned(row, s) EXCEPT ![d] = None]
    BY <1>4 DEF DropServer, RowsWithout
  <2>2. s \in Live /\ s \in Servers /\ s # None
    BY <1>1, <1>4
  <2>3. row[d] # None /\ row[d].pin = s
    BY <1>4
  <2> HIDE DEF s
  <2>4. ASSUME NEW e \in Entities
        PROVE  /\ Unpinned(row, s)[e] \in RowRecord \cup {None}
               /\ row[e] = None => Unpinned(row, s)[e] = None
               /\ row[e] # None /\ row[e].pin # s => Unpinned(row, s)[e] = row[e]
               /\ row[e] # None /\ row[e].pin = s =>
                    /\ Unpinned(row, s)[e].preset = row[e].preset
                    /\ Unpinned(row, s)[e].claimed = row[e].claimed /\ Unpinned(row, s)[e].pin = None
    <3>1. CASE row[e] = None
      BY <3>1 DEF Unpinned
    <3>2. CASE row[e] # None /\ row[e].pin # s
      BY <1>2, <3>2 DEF Unpinned
    <3>3. CASE row[e] # None /\ row[e].pin = s
      <4> DEFINE r == [row[e] EXCEPT !.pin = None]
      <4>1. row[e] \in RowRecord
        BY <1>2, <3>3
      <4>2. r \in RowRecord /\ r.preset = row[e].preset /\ r.claimed = row[e].claimed /\ r.pin = None
        BY <4>1 DEF RowRecord
      <4>3. Unpinned(row, s)[e] = r
        BY <3>3 DEF Unpinned
      <4> QED BY <3>3, <4>2, <4>3
    <3> QED BY <3>1, <3>2, <3>3
  <2>5. Unpinned(row, s) \in [Entities -> RowRecord \cup {None}]
    <3>1. DOMAIN Unpinned(row, s) = Entities
          /\ Unpinned(row, s) = [e \in Entities |-> Unpinned(row, s)[e]]
      BY DEF Unpinned
    <3> QED BY <2>4, <3>1
  <2>6. /\ w \in [Entities -> RowRecord \cup {None}] /\ w[d] = None
        /\ \A e \in Entities : e # d => w[e] = Unpinned(row, s)[e]
    BY <1>1, <2>1, <2>5
  <2>7. /\ v \in [Servers -> [of : Databases] \cup {Unborn, Gone}] /\ v[s] = Gone
        /\ \A x \in Servers : x # s => v[x] = server[x]
    BY <1>2, <2>1, <2>2
  <2>8. ASSUME NEW e \in Entities, w[e] # None
        PROVE  /\ e # d /\ row[e] # None /\ w[e].preset = row[e].preset /\ w[e].claimed = row[e].claimed
               /\ \/ w[e].pin = row[e].pin
                     /\ (w[e].pin \in Servers => v[w[e].pin] = server[w[e].pin])
                  \/ w[e].pin = None /\ row[e].pin \in Servers /\ v[row[e].pin] = Gone
                     /\ row[d] # None /\ row[d].pin = row[e].pin
    <3>1. e # d /\ w[e] = Unpinned(row, s)[e] /\ row[e] # None
      BY <2>4, <2>6, <2>8
    <3>2. CASE row[e].pin # s
      BY <2>4, <2>7, <3>1, <3>2
    <3>3. CASE row[e].pin = s
      BY <2>2, <2>3, <2>4, <2>7, <3>1, <3>3
    <3> QED BY <3>1, <3>2, <3>3
  <2>9. ASSUME NEW x \in Servers, v[x] \notin {Unborn, Gone}
        PROVE  /\ x \in Live /\ v[x] = server[x]
               /\ row[d] # None => row[d].pin # x
               /\ \A e \in Entities : e # d /\ row[e] # None /\ row[e].pin = x => w[e] = row[e]
    <3>1. x # s /\ v[x] = server[x]
      BY <2>7, <2>9
    <3> QED BY <1>1, <2>3, <2>4, <2>6, <2>9, <3>1
  <2> QED BY <2>2, <2>6, <2>7, <2>8, <2>9
<1> QED BY <1>3, <1>4

(* What is left is in order: a second database on the dropped server was   *)
(* known to share it.                                                      *)
LEMMA WithoutPins ==
  ASSUME IInv, NEW d \in Databases, NEW w, w = RowsWithout(d), NEW v, v = DropServer(d)
  PROVE  /\ \A e \in Entities : w[e] # None =>
              w[e].pin = None \/ (w[e].pin \in Servers /\ v[w[e].pin] \notin {Unborn, Gone})
         /\ \A b, c \in Databases : w[b] # None /\ w[c] # None /\ b # c
              /\ w[b].pin = w[c].pin /\ w[c].pin # None => w[c].pin \in shared
         /\ \A c \in Databases : w[c] # None /\ w[c].preset /\ ~w[c].claimed =>
              \/ w[c].pin \in Servers /\ v[w[c].pin] \notin {Unborn, Gone} /\ v[w[c].pin].of = c
              \/ w[c].pin = None /\ \E s \in shared : v[s] = Gone
         /\ \A s \in Servers : v[s] \notin {Unborn, Gone} /\ s \notin orphaned =>
              /\ v[s].of \in Databases /\ v[s].of # d
              /\ w[v[s].of] # None /\ w[v[s].of].preset /\ w[v[s].of].pin = s
<1> USE DEF IInv
<1>0. /\ Live \subseteq Servers /\ None \notin Servers /\ Databases \subseteq Entities
      /\ \A s \in Servers : s \in Live <=> server[s] \notin {Unborn, Gone}
      /\ \A s \in Servers : s \in Live => server[s].of \in Databases
      /\ \A e \in Entities : e \in Present <=> row[e] # None
      /\ shared \subseteq Servers
  BY ServerFacts, RowTyped, StoreIds DEF StoreTypeOK
<1>1. /\ \A s \in Servers : \/ v[s] = server[s]
                            \/ s \in Live /\ v[s] = Gone
      /\ \A e \in Entities : w[e] # None =>
           /\ e # d /\ row[e] # None /\ w[e].preset = row[e].preset /\ w[e].claimed = row[e].claimed
           /\ \/ w[e].pin = row[e].pin /\ (w[e].pin \in Servers => v[w[e].pin] = server[w[e].pin])
              \/ w[e].pin = None /\ row[e].pin \in Servers /\ v[row[e].pin] = Gone
                 /\ row[d] # None /\ row[d].pin = row[e].pin
      /\ \A s \in Servers : v[s] \notin {Unborn, Gone} =>
           /\ s \in Live /\ v[s] = server[s]
           /\ row[d] # None => row[d].pin # s
           /\ \A e \in Entities : e # d /\ row[e] # None /\ row[e].pin = s => w[e] = row[e]
  BY WithoutFacts
<1>2. ASSUME NEW e \in Entities, w[e] # None
      PROVE  w[e].pin = None \/ (w[e].pin \in Servers /\ v[w[e].pin] \notin {Unborn, Gone})
  <2>1. row[e] # None /\ row[e].pin \in Live \cup {None}
    BY <1>0, <1>1, <1>2 DEF PinsLive
  <2> QED BY <1>0, <1>1, <1>2, <2>1
<1>3. ASSUME NEW b \in Databases, NEW c \in Databases, w[b] # None, w[c] # None, b # c,
             w[b].pin = w[c].pin, w[c].pin # None
      PROVE  w[c].pin \in shared
  <2>1. row[b] # None /\ row[c] # None /\ row[b].pin = w[b].pin /\ row[c].pin = w[c].pin
    BY <1>0, <1>1, <1>3
  <2> QED BY <1>0, <1>3, <2>1 DEF PinsShared
<1>4. ASSUME NEW c \in Databases, w[c] # None, w[c].preset, ~w[c].claimed
      PROVE  \/ w[c].pin \in Servers /\ v[w[c].pin] \notin {Unborn, Gone} /\ v[w[c].pin].of = c
             \/ w[c].pin = None /\ \E s \in shared : v[s] = Gone
  <2>1. c \in Entities /\ c # d /\ row[c] # None /\ row[c].preset /\ ~row[c].claimed
    BY <1>0, <1>1, <1>4
  <2>2. CASE row[c].pin = None /\ \E s \in shared : server[s] = Gone
    <3>1. w[c].pin = None
      BY <1>0, <1>1, <1>4, <2>1, <2>2
    <3>2. \E s \in shared : v[s] = Gone
      BY <1>0, <1>1, <2>2
    <3> QED BY <3>1, <3>2
  <2>3. CASE row[c].pin \in Live /\ server[row[c].pin].of = c
    <3>1. CASE w[c].pin = row[c].pin
      BY <1>0, <1>1, <1>4, <2>1, <2>3, <3>1
    <3>2. CASE w[c].pin = None /\ row[c].pin \in Servers /\ v[row[c].pin] = Gone
               /\ row[d] # None /\ row[d].pin = row[c].pin
      <4>1. row[c].pin \in shared
        BY <1>0, <2>1, <3>2 DEF PinsShared
      <4> QED BY <3>2, <4>1
    <3> QED BY <1>1, <1>4, <2>1, <3>1, <3>2
  <2> QED BY <2>1, <2>2, <2>3 DEF PresetPaired
<1>5. ASSUME NEW s \in Servers, v[s] \notin {Unborn, Gone}, s \notin orphaned
      PROVE  /\ v[s].of \in Databases /\ v[s].of # d
             /\ w[v[s].of] # None /\ w[v[s].of].preset /\ w[v[s].of].pin = s
  <2> DEFINE c == server[s].of
  <2>1. s \in Live /\ v[s].of = c /\ c \in Databases /\ c \in Entities
    BY <1>0, <1>1, <1>5
  <2>2. row[c] # None /\ row[c].preset /\ row[c].pin = s
    BY <1>5, <2>1 DEF PresetPaired, Serves
  <2> HIDE DEF c
  <2>3. c # d
    BY <1>1, <1>5, <2>2
  <2>4. w[c] = row[c]
    BY <1>1, <1>5, <2>1, <2>2, <2>3
  <2> QED BY <2>1, <2>2, <2>3, <2>4
<1> QED BY <1>2, <1>3, <1>4, <1>5

(* A database is deleted.                                                  *)
LEMMA DeleteDatabaseIInv ==
  ASSUME IInv, NEW d \in Databases, DeleteDatabase(d)
  PROVE  IInv'
<1> USE DEF IInv
<1>1. /\ UNCHANGED <<lock, payload, put, ask, writes, claims, shared, orphaned>>
      /\ LoopFree /\ requests' \in 0..MaxRequests
      /\ row' = RowsWithout(d) /\ server' = DropServer(d)
  BY StoreIds DEF DeleteDatabase, Request, StoreTypeOK
<1>2. /\ row' \in [Entities -> RowRecord \cup {None}]
      /\ server' \in [Servers -> [of : Databases] \cup {Unborn, Gone}]
      /\ \A s \in Servers : \/ server'[s] = server[s]
                            \/ s \in Live /\ server'[s] = Gone
  BY <1>1, WithoutFacts
<1>3. StoreTypeOK'
  BY <1>1, <1>2 DEF StoreTypeOK, IsPart, IsPut
<1>4. ServersMove
  BY <1>1, <1>2 DEF ServersMove, Live
<1>5. /\ Databases \subseteq Entities
      /\ \A e \in Entities : e \in Present' <=> row'[e] # None
      /\ \A s \in Servers : s \in Live' <=> server'[s] \notin {Unborn, Gone}
      /\ Live' \subseteq Servers /\ Present' \subseteq Entities
  BY DEF Present, Live, Entities
<1>6. PinsLive' /\ PinsShared' /\ PresetPaired'
  <2>1. PinsLive'
    BY <1>1, <1>5, WithoutPins DEF PinsLive
  <2>2. PinsShared'
    BY <1>1, <1>5, WithoutPins DEF PinsShared
  <2>3. PresetPaired'
    BY <1>1, <1>5, WithoutPins DEF PresetPaired, Serves
  <2> QED BY <2>1, <2>2, <2>3
<1> QED BY <1>1, <1>3, <1>4, <1>6, RequestKeeps

(* A preset database takes the place of the old one, on a server of its    *)
(* own that nobody has been pinned to.                                     *)
LEMMA AddPresetCommitIInv ==
  ASSUME IInv, NEW a \in Asks, NEW s \in Servers, AddPresetCommit(a, s)
  PROVE  IInv'
<1> USE DEF IInv
<1> DEFINE d == ask[a]
<1>1. /\ UNCHANGED <<lock, payload, put, writes, requests, claims, shared, orphaned>>
      /\ LoopFree /\ d \in Databases /\ server[s] = Unborn /\ ask' = [ask EXCEPT ![a] = Gone]
  BY DEF AddPresetCommit
<1>2. ask' \in [Asks -> Databases \cup {None, Gone}]
  BY <1>1 DEF StoreTypeOK
<1>3. CASE Locked(d)
  <2>1. row' = row /\ server' = server
    BY <1>3 DEF AddPresetCommit
  <2>2. StoreTypeOK'
    BY <1>1, <1>2, <2>1 DEF StoreTypeOK, IsPart, IsPut
  <2>3. ServersMove
    BY <1>1, <2>1 DEF ServersMove
  <2>4. PinsLive' /\ PinsShared' /\ PresetPaired'
    BY <1>1, <2>1, SamePins
  <2> QED BY <1>1, <2>2, <2>3, <2>4, RequestKeeps
<1>4. CASE ~Locked(d)
  <2> DEFINE w == RowsWithout(d)
             v == DropServer(d)
             r == Row(NoPages, 0, FALSE, 0, TRUE, s)
             new == [of |-> d]
  <2>1. row' = [w EXCEPT ![d] = r] /\ server' = [v EXCEPT ![s] = new]
    BY <1>4 DEF AddPresetCommit, Dropped
  <2>2. r \in RowRecord /\ r # None /\ r.pin = s /\ r.preset = TRUE
    <3>1. NoPages \in PageMaps /\ 0 \in 0..MaxWrites /\ 0 \in 0..MaxRequests
      BY PageMapsFacts, StoreIds
    <3>2. s \in Servers \cup {None} /\ FALSE \in BOOLEAN /\ TRUE \in BOOLEAN
      OBVIOUS
    <3>3. r \in RowRecord /\ r.pin = s /\ r.preset = TRUE
      BY <3>1, <3>2, RowMade
    <3> QED BY <3>3, StoreIds
  <2>3. new \notin {Unborn, Gone} /\ new.of = d /\ new \in [of : Databases]
    BY <1>1, ServerFacts
  <2>4. /\ w \in [Entities -> RowRecord \cup {None}]
        /\ v \in [Servers -> [of : Databases] \cup {Unborn, Gone}]
        /\ \A x \in Servers : v[x] = server[x] \/ (server[x] \notin {Unborn, Gone} /\ v[x] = Gone)
    BY <1>1, WithoutFacts DEF Live
  <2>5. /\ \A e \in Entities : w[e] # None =>
             w[e].pin = None \/ (w[e].pin \in Servers /\ v[w[e].pin] \notin {Unborn, Gone})
        /\ \A b, c \in Databases : w[b] # None /\ w[c] # None /\ b # c
             /\ w[b].pin = w[c].pin /\ w[c].pin # None => w[c].pin \in shared
        /\ \A c \in Databases : w[c] # None /\ w[c].preset /\ ~w[c].claimed =>
             \/ w[c].pin \in Servers /\ v[w[c].pin] \notin {Unborn, Gone} /\ v[w[c].pin].of = c
             \/ w[c].pin = None /\ \E x \in shared : v[x] = Gone
        /\ \A x \in Servers : v[x] \notin {Unborn, Gone} /\ x \notin orphaned =>
             /\ v[x].of \in Databases /\ v[x].of # d
             /\ w[v[x].of] # None /\ w[v[x].of].preset /\ w[v[x].of].pin = x
    BY <1>1, WithoutPins
  <2>6. /\ d \in Entities /\ Databases \subseteq Entities /\ s # None /\ v[s] = Unborn
    BY <1>1, <2>4, RowTyped, StoreIds
  <2> HIDE DEF w, v, r, new, d
  <2>7. /\ row'[d] = r /\ \A e \in Entities : e # d => row'[e] = w[e]
        /\ row' \in [Entities -> RowRecord \cup {None}]
    BY <2>1, <2>2, <2>4, <2>6
  <2>8. /\ server'[s] = new /\ \A x \in Servers : x # s => server'[x] = v[x]
        /\ server' \in [Servers -> [of : Databases] \cup {Unborn, Gone}]
    BY <2>1, <2>3, <2>4
  <2>9. StoreTypeOK'
    BY <1>1, <1>2, <2>7, <2>8 DEF StoreTypeOK, IsPart, IsPut
  <2>10. ServersMove
    BY <1>1, <2>4, <2>6, <2>8 DEF ServersMove, new, d
  <2>11. /\ \A e \in Entities : e \in Present' <=> row'[e] # None
         /\ \A x \in Servers : x \in Live' <=> server'[x] \notin {Unborn, Gone}
         /\ Live' \subseteq Servers /\ Present' \subseteq Entities
    BY DEF Present, Live
  <2>12. \A e \in Entities : w[e] # None => w[e].pin # s
    BY <2>5, <2>6
  <2>13. PinsLive'
    <3> SUFFICES ASSUME NEW e \in Entities, row'[e] # None PROVE row'[e].pin \in Live' \cup {None}
      BY <2>11 DEF PinsLive
    <3>1. CASE e = d
      BY <2>2, <2>3, <2>7, <2>8, <2>11, <3>1
    <3>2. CASE e # d
      BY <2>5, <2>7, <2>8, <2>11, <2>12, <3>2
    <3> QED BY <3>1, <3>2
  <2>14. PinsShared'
    <3> SUFFICES ASSUME NEW b \in Databases, NEW c \in Databases, row'[b] # None, row'[c] # None,
                        b # c, row'[b].pin = row'[c].pin, row'[c].pin # None
                 PROVE  row'[c].pin \in shared'
      BY <2>6, <2>11 DEF PinsShared
    <3>1. b # d /\ c # d
      BY <2>2, <2>6, <2>7, <2>12
    <3> QED BY <1>1, <2>5, <2>6, <2>7, <3>1
  <2>15. ASSUME NEW c \in Databases, row'[c] # None, row'[c].preset, ~row'[c].claimed
         PROVE  \/ row'[c].pin \in Live' /\ server'[row'[c].pin].of = c
                \/ row'[c].pin = None /\ \E x \in shared' : server'[x] = Gone
    <3>1. CASE c = d
      BY <2>2, <2>3, <2>7, <2>8, <2>11, <3>1
    <3>2. CASE c # d /\ w[c].pin = None /\ \E x \in shared : v[x] = Gone
      <4>1. PICK x \in shared : v[x] = Gone
        BY <3>2
      <4>2. x \in Servers /\ x # s
        BY <2>6, <4>1, StoreIds DEF StoreTypeOK
      <4>3. row'[c] = w[c]
        BY <2>6, <2>7, <3>2
      <4> QED BY <1>1, <2>8, <3>2, <4>1, <4>2, <4>3
    <3>3. CASE c # d /\ w[c].pin \in Servers /\ v[w[c].pin] \notin {Unborn, Gone}
               /\ v[w[c].pin].of = c
      <4>1. row'[c] = w[c] /\ w[c].pin # s
        BY <2>6, <2>7, <2>12, <2>15, <3>3
      <4> QED BY <2>8, <2>11, <3>3, <4>1
    <3> QED BY <2>5, <2>6, <2>7, <2>15, <3>1, <3>2, <3>3
  <2>16. ASSUME NEW x \in Live' \ orphaned'
         PROVE  LET c == server'[x].of IN row'[c] # None /\ row'[c].preset /\ row'[c].pin = x
    <3>1. CASE x = s
      BY <2>2, <2>3, <2>7, <2>8, <3>1
    <3>2. CASE x # s
      <4>1. x \in Servers /\ server'[x] = v[x] /\ v[x] \notin {Unborn, Gone} /\ x \notin orphaned
        BY <1>1, <2>8, <2>11, <2>16, <3>2
      <4> QED BY <2>5, <2>6, <2>7, <4>1
    <3> QED BY <3>1, <3>2
  <2>17. PresetPaired'
    BY <2>15, <2>16 DEF PresetPaired, Serves
  <2> QED BY <1>1, <2>9, <2>10, <2>13, <2>14, <2>17, RequestKeeps
<1> QED BY <1>3, <1>4

(* The request of a preset database, its check, and steps that touch       *)
(* nothing but them.                                                       *)
LEMMA AsksIInv ==
  ASSUME IInv, ask' \in [Asks -> Databases \cup {None, Gone}], requests' \in 0..MaxRequests,
         UNCHANGED <<row, server, lock, payload, put, writes, claims, shared, orphaned>>
  PROVE  IInv'
<1> USE DEF IInv
<1>1. StoreTypeOK'
  BY DEF StoreTypeOK, IsPart, IsPut
<1>2. PinsLive' /\ PinsShared' /\ PresetPaired'
  BY SamePins
<1>3. Remembered'
  BY RememberedStays DEF ServersMove
<1>4. PutHolds' /\ Filled' /\ SavedStands'
  BY DEF PutHolds, Filled, SavedStands, LoopFree, Present
<1> QED BY <1>1, <1>2, <1>3, <1>4

(* Every step keeps the invariant.                                         *)
LEMMA NextIInv == IInv /\ [StoreNext]_storeVars => IInv'
<1> SUFFICES ASSUME IInv, [StoreNext]_storeVars PROVE IInv'
  OBVIOUS
<1>1. ASSUME NEW e \in Entities, JobStart(e) PROVE IInv'
  BY <1>1, JobStartIInv
<1>2. ASSUME NEW e \in Entities, JobCommit(e) PROVE IInv'
  BY <1>2, JobCommitIInv
<1>3. ASSUME NEW e \in Entities, JobFails(e) PROVE IInv'
  BY <1>3, JobFailsIInv
<1>4. ASSUME NEW e \in Entities, Verify(e) PROVE IInv'
  BY <1>4, VerifyIInv
<1>5. ASSUME NEW e \in Entities, NEW pin \in Servers \cup {None}, AddChild(e, pin) PROVE IInv'
  BY <1>5, AddChildIInv
<1>6. ASSUME NEW e \in Entities, NEW p \in Pages, EditPage(e, p) PROVE IInv'
  BY <1>6, EditPageIInv
<1>7. ASSUME NEW light \in BOOLEAN, Read(light) PROVE IInv'
  BY <1>7, ReadIInv
<1>8. ASSUME NEW post \in BOOLEAN, NEW kept \in SUBSET Entities, NEW renewed \in SUBSET Codebases,
             PutMerge(post, kept, renewed)
      PROVE  IInv'
  BY <1>8, PutMergeIInv
<1>9. CASE PutLock \/ PutSnapshot \/ PutWrite
  BY <1>9, PutLockIInv, PutSnapshotIInv, PutWriteIInv
<1>10. ASSUME NEW c \in Codebases, DeleteCodebase(c) PROVE IInv'
  BY <1>10, DeleteCodebaseIInv
<1>11. ASSUME NEW d \in Databases, DeleteDatabase(d) PROVE IInv'
  BY <1>11, DeleteDatabaseIInv
<1>12. ASSUME NEW d \in Databases, NEW pin \in Servers \cup {None}, PinMeta(d, pin) PROVE IInv'
  BY <1>12, PinMetaIInv
<1>13. ASSUME NEW a \in Asks, NEW d \in Databases, AddPresetStart(a, d) PROVE IInv'
  <2>1. requests' \in 0..MaxRequests /\ ask' \in [Asks -> Databases \cup {None, Gone}]
    BY <1>13, StoreIds DEF AddPresetStart, Request, IInv, StoreTypeOK
  <2> QED BY <1>13, <2>1, AsksIInv DEF AddPresetStart, Request
<1>14. ASSUME NEW a \in Asks, CheckFails(a) PROVE IInv'
  <2>1. requests' \in 0..MaxRequests /\ ask' \in [Asks -> Databases \cup {None, Gone}]
    BY <1>14 DEF CheckFails, IInv, StoreTypeOK
  <2> QED BY <1>14, <2>1, AsksIInv DEF CheckFails
<1>15. ASSUME NEW a \in Asks, NEW s \in Servers, AddPresetCommit(a, s) PROVE IInv'
  BY <1>15, AddPresetCommitIInv
<1>16. CASE DeleteProduct
  BY <1>16, DeleteProductIInv
<1>17. CASE UNCHANGED storeVars
  BY <1>17, AsksIInv DEF storeVars, IInv, StoreTypeOK
<1>18. ASSUME NEW e \in Entities, NEW p \in Pages, VerifyPage(e, p) PROVE IInv'
  BY <1>18, VerifyPageIInv
<1> QED
  BY <1>1, <1>2, <1>3, <1>4, <1>5, <1>6, <1>7, <1>8, <1>9, <1>10, <1>11, <1>12, <1>13,
     <1>14, <1>15, <1>16, <1>17, <1>18 DEF StoreNext

(***************************************************************************)
(* Theorems.                                                               *)
(***************************************************************************)

(* The store is typed, every pin is to a server that is there, and a PUT   *)
(* under way holds the locks of the codebases and knows what there is.     *)
THEOREM Invariance == StoreSpec => []IInv
BY InitIInv, NextIInv, PTL DEF StoreSpec

(* A preset database has a live server of its own and a preset server its  *)
(* database, whatever is stored, re-added, deleted and written back from   *)
(* an old read; excepted are a database whose type or pin the body of a    *)
(* whole product made up, databases of which two were pinned to a server   *)
(* that was dropped since, and servers that another request left behind    *)
(* (_add_preset_database, _drop_preset_server, _database_orm_from_pydantic).*)
THEOREM PresetsPaired == StoreSpec => []PresetPaired
<1>1. IInv => PresetPaired
  BY DEF IInv
<1> QED BY <1>1, Invariance, PTL

(* Only the last step of a PUT is one.                                     *)
LEMMA OnlyPutWrites == ASSUME IInv, [StoreNext]_storeVars, PutDone PROVE PutWrite
<1> USE DEF PutDone
<1>1. put.at = "write" /\ ~LoopFree /\ put' # put
  <2>1. put.at # "idle"
    BY DEF PutDone
  <2> QED BY <2>1 DEF LoopFree, NoPut
<1>2. ASSUME NEW e \in Entities, JobCommit(e) PROVE FALSE
  <2>1. put' = put \/ put' = [put EXCEPT !.since = @ \cup {e}]
    BY <1>2 DEF JobCommit
  <2>2. put' # NoPut
    BY <1>1, <2>1, PutFields DEF IInv, NoPut
  <2> QED BY <2>2
<1> QED
  BY <1>1, <1>2 DEF StoreNext, storeVars, JobStart, JobFails, Verify, VerifyPage, Request, AddChild, EditPage,
     Read, PutMerge, PutLock, PutSnapshot, DeleteCodebase, DeleteDatabase, PinMeta,
     AddPresetStart, CheckFails, AddPresetCommit, DeleteProduct

(* What the server owns outlives a PUT of the whole product, whatever jobs *)
(* and requests run in between (_restore_server_owned_state).              *)
THEOREM OwnedIsKept == StoreSpec => OwnedKept
<1> DEFINE Kept ==
      PutDone => \A e \in Through :
        /\ row'[e].verified = row[e].verified
        /\ e \notin put.renewed => row'[e].token = row[e].token
        /\ e \in Codebases \/ e \notin put.since => row'[e].ver = row[e].ver
<1>1. ASSUME IInv, [StoreNext]_storeVars PROVE Kept
  <2> SUFFICES ASSUME PutDone, NEW e \in Entities, row[e] # None, row'[e] # None
               PROVE  /\ row'[e].verified = row[e].verified
                      /\ e \notin put.renewed => row'[e].token = row[e].token
                      /\ e \in Codebases \/ e \notin put.since => row'[e].ver = row[e].ver
    BY DEF Through
  <2>1. PutWrite /\ put.at = "write"
    BY <1>1, OnlyPutWrites DEF PutDone
  <2>2. /\ put.saved[e] # None
        /\ put.saved[e].verified = row[e].verified /\ put.saved[e].token = row[e].token
        /\ e \in Codebases \/ e \notin put.since => put.saved[e].ver = row[e].ver
    BY <1>1, <2>1 DEF IInv, SavedStands
  <2>3. CASE ~Sound
    BY <1>1, <2>1, <2>3, PutWritten
  <2>4. CASE Sound
    <3>1. /\ row'[e].token = TokenOf(e, put.saved[e])
          /\ row'[e].ver = put.saved[e].ver /\ row'[e].verified = put.saved[e].verified
      BY <1>1, <2>1, <2>2, <2>4, PutWritten
    <3> QED BY <2>2, <3>1 DEF TokenOf
  <2> QED BY <2>3, <2>4
<1>2. IInv /\ [StoreNext]_storeVars => [Kept]_storeVars
  BY <1>1
<1> QED BY <1>2, Invariance, PTL DEF StoreSpec, OwnedKept

(* A PUT of a product read without page bodies loses none of them and no   *)
(* verified mark of theirs, but for documentation committed since it       *)
(* merged (merge_stored_page_bodies).                                      *)
THEOREM BodiesAreKept == StoreSpec => BodiesKept
<1> DEFINE Lasts ==
      PutDone /\ ~put.post =>
        \A e \in (Through \cap DOMAIN put.rows \cap DOMAIN payload) \ put.since :
          \A p \in DOMAIN row[e].pages \cap DOMAIN payload[e].pages :
            LET old == row[e].pages[p] IN
            payload[e].pages[p].text = Stripped /\ old.text # Stripped =>
              /\ p \in DOMAIN row'[e].pages
              /\ row'[e].pages[p].text = old.text
              /\ old.flag => row'[e].pages[p].flag
<1>1. ASSUME IInv, [StoreNext]_storeVars PROVE Lasts
  <2> SUFFICES ASSUME PutDone, ~put.post, NEW e \in Entities \cap DOMAIN put.rows \cap DOMAIN payload,
                      e \notin put.since, row[e] # None, row'[e] # None,
                      NEW p \in DOMAIN row[e].pages \cap DOMAIN payload[e].pages,
                      payload[e].pages[p].text = Stripped, row[e].pages[p].text # Stripped
               PROVE  Carried(p, row[e].pages, row'[e].pages)
    BY DEF Through, Carried
  <2>1. PutWrite
    BY <1>1, OnlyPutWrites
  <2>2. ~LoopFree
    BY <1>1, <2>1, PutWritten
  <2>3. Carried(p, row[e].pages, put.rows[e].pages)
    BY <1>1, <2>2 DEF IInv, Filled
  <2>4. CASE ~Sound
    BY <1>1, <2>1, <2>4, PutWritten DEF Carried
  <2>5. CASE Sound
    <3>1. row'[e].pages = put.rows[e].pages
      BY <1>1, <2>1, <2>5, PutWritten
    <3> QED BY <2>3, <3>1
  <2> QED BY <2>4, <2>5
<1>2. IInv /\ [StoreNext]_storeVars => [Lasts]_storeVars
  BY <1>1
<1> QED BY <1>2, Invariance, PTL DEF StoreSpec, BodiesKept

-----------------------------------------------------------------------------
(* The knowledge tree *)

(* A move at work has the node, its target, and where its climb is. *)
MoveRecord ==
  [at : {"walk"}, node : Nodes, to : Nodes, cursor : Nodes,
   next : Nodes \cup {TopLevel, Uncreated, Deleted}, seen : SUBSET Nodes]
  \cup
  [at : {"save"}, node : Nodes, to : Nodes \cup {TopLevel}, cursor : Nodes \cup {TopLevel},
   next : Nodes \cup {TopLevel, Uncreated, Deleted}, seen : SUBSET Nodes]

TreeTypeOK ==
  /\ parent \in [Nodes -> Nodes \cup {TopLevel, Uncreated, Deleted}]
  /\ move \in [Moves -> {Idle, Ended} \cup MoveRecord]
  /\ overlap \in BOOLEAN

(* No nodes hang on one another alone: of any, one has its parent outside. *)
NoRing ==
  \A S \in SUBSET {n \in Nodes : Living(n)} : S # {} => \E n \in S : parent[n] \notin S

OneMove == \A m1, m2 \in Moves : Moving(m1) /\ Moving(m2) => m1 = m2

(* What a climb has passed is still the way up from the target, and without *)
(* the node to be moved; when it is over, the way is complete.             *)
Climbed(w) == w.seen \cup {w.cursor}
OnTheWay(w) ==
  /\ w.to \in Climbed(w) /\ w.cursor \in Nodes /\ w.node \notin w.seen
  /\ \A a \in w.seen : parent[a] \in Climbed(w)
  /\ parent[w.cursor] = w.next
  /\ \A a \in Climbed(w) : w.to \in Subtree(a)
  /\ w.at = "save" => w.node # w.cursor /\ WalkedOut(w)
ClimbsHold ==
  \A m \in Moves : Moving(m) /\ move[m].to \in Nodes /\ Living(move[m].to)
    => OnTheWay(move[m])

(* A target has existed, and what is deleted is not created again. *)
TargetsBorn ==
  \A m \in Moves : Moving(m) /\ move[m].to \in Nodes => parent[move[m].to] # Uncreated

TreeIInv ==
  /\ TreeTypeOK /\ ParentsThere /\ TargetsBorn
  /\ overlap \/ (NoRing /\ OneMove /\ ClimbsHold)

(* Below is nested and the least such set. *)
LEMMA BelowNested ==
  ASSUME NEW R \in SUBSET Nodes
  PROVE  R \subseteq Below(R) /\ Below(R) \in SUBSET Nodes /\ Nested(Below(R))
BY DEF Below, Nested

(* A node whose parent is outside the subtree is its root, or outside. *)
LEMMA SubtreeRoot ==
  ASSUME NEW n \in Nodes, NEW m \in Subtree(n), m # n
  PROVE  parent[m] \in Subtree(n)
<1> SUFFICES ASSUME parent[m] \notin Subtree(n) PROVE FALSE
  OBVIOUS
<1> DEFINE S == Subtree(n) \ {m}
<1>1. {n} \subseteq S /\ S \in SUBSET Nodes
  BY BelowNested DEF Subtree
<1>2. Nested(S)
  BY BelowNested DEF Subtree, Nested
<1> QED BY <1>1, <1>2 DEF Subtree, Below

LEMMA TreeInitIInv == TreeInit => TreeIInv
<1> SUFFICES ASSUME TreeInit PROVE TreeIInv
  OBVIOUS
<1>1. TreeTypeOK /\ ParentsThere /\ overlap = FALSE
  BY DEF TreeInit, TreeTypeOK
<1>2. OneMove /\ ClimbsHold /\ TargetsBorn
  BY DEF TreeInit, OneMove, ClimbsHold, TargetsBorn, Moving, Idle, Ended
<1>3. NoRing
  <2> SUFFICES ASSUME NEW S \in SUBSET {n \in Nodes : Living(n)}, NEW n \in S,
                      \A k \in S : parent[k] \in S
               PROVE  FALSE
    BY DEF NoRing
  <2>1. Roots \subseteq Nodes \ S
    BY TreeIds DEF Roots
  <2>2. Nested(Nodes \ S)
    BY DEF Nested
  <2>3. n \in Below(Roots)
    BY DEF TreeInit, Shown
  <2> QED BY <2>1, <2>2, <2>3 DEF Below
<1> QED BY <1>1, <1>2, <1>3 DEF TreeIInv

(* A new node has no children, so it is in no way up and closes no ring. *)
LEMMA CreateNodeIInv ==
  ASSUME TreeIInv, NEW n \in Nodes, CreateNode(n)
  PROVE  TreeIInv'
<1> PICK up \in {m \in Nodes : Living(m)} \cup {TopLevel} : parent' = [parent EXCEPT ![n] = up]
  BY DEF CreateNode
<1>1. /\ parent[n] = Uncreated /\ ~Living(n) /\ up # n
      /\ parent \in [Nodes -> Nodes \cup {TopLevel, Uncreated, Deleted}]
      /\ \A m \in Nodes \ {n} : parent'[m] = parent[m]
      /\ parent'[n] = up /\ UNCHANGED <<move, overlap>>
  BY TreeIds DEF CreateNode, TreeIInv, TreeTypeOK, Living
<1>2. \A m \in Nodes : Living(m)' <=> m = n \/ Living(m)
  BY <1>1, TreeIds DEF Living
<1>3. \A m \in Nodes : parent[m] # n
  BY <1>1 DEF TreeIInv, ParentsThere
<1>4. TreeTypeOK' /\ TargetsBorn'
  BY <1>1, TreeIds DEF TreeIInv, TreeTypeOK, TargetsBorn, Moving, Living
<1>5. ParentsThere'
  <2>1. \A m \in Nodes : parent'[m] \in Nodes => m = n \/ Living(parent[m])
    BY <1>1 DEF TreeIInv, ParentsThere
  <2>2. up \in Nodes => Living(up)
    BY TreeIds
  <2> QED BY <1>1, <1>2, <2>1, <2>2 DEF ParentsThere, Living
<1>6. ASSUME NoRing PROVE NoRing'
  <2> SUFFICES ASSUME NEW S \in SUBSET Nodes, \A k \in S : k = n \/ Living(k), NEW m \in S,
                      \A k \in S : parent'[k] \in S
               PROVE  FALSE
    BY <1>2 DEF NoRing
  <2>1. \A k \in S \ {n} : parent[k] \in S \ {n}
    BY <1>1, <1>3
  <2>2. S \ {n} # {}
    BY <1>1
  <2> QED BY <1>6, <2>1, <2>2 DEF NoRing
<1>7. OneMove => OneMove'
  BY <1>1 DEF OneMove, Moving
<1>8. ASSUME ClimbsHold PROVE ClimbsHold'
  <2> SUFFICES ASSUME NEW m \in Moves, Moving(m), move[m].to \in Nodes, Living(move[m].to)'
               PROVE  OnTheWay(move[m])'
    BY <1>1 DEF ClimbsHold, Moving
  <2> DEFINE w == move[m]
  <2>1. w \in MoveRecord
    BY DEF TreeIInv, TreeTypeOK, Moving, Idle, Ended
  <2>2. w.to # n
    BY <1>1 DEF TreeIInv, TargetsBorn
  <2> QED
    <3>1. OnTheWay(w)
      BY <1>1, <1>8, <2>2 DEF ClimbsHold, Living
    <3>2. \A a \in Climbed(w) : a \in Nodes /\ w.to \in Subtree(a)
      BY <2>1, <3>1 DEF OnTheWay, Climbed, MoveRecord
    <3>3. n \notin Climbed(w)
      <4> SUFFICES ASSUME n \in Climbed(w) PROVE FALSE
        OBVIOUS
      <4>1. Nested({n})
        BY <1>3 DEF Nested
      <4>2. Subtree(n) \subseteq {n}
        BY <4>1 DEF Subtree, Below
      <4> QED BY <2>2, <3>2, <4>2
    <3>4. \A a \in Climbed(w) : w.to \in Subtree(a)'
      <4> SUFFICES ASSUME NEW a \in Climbed(w), NEW S \in SUBSET Nodes, a \in S, Nested(S)'
                   PROVE  w.to \in S
        BY <2>1, <3>2 DEF Subtree, Below, Nested, MoveRecord
      <4>1. Nested(S)
        BY <1>1, TreeIds DEF Nested
      <4> QED BY <3>2, <4>1 DEF Subtree, Below
    <3>5. \A a \in Climbed(w) : parent'[a] = parent[a]
      BY <1>1, <3>2, <3>3
    <3> HIDE DEF w
    <3>6. w.seen \in SUBSET Nodes /\ w.cursor \in Nodes
      BY <2>1, <3>1 DEF MoveRecord, OnTheWay
    <3>7. OnTheWay(w)'
      BY <3>1, <3>4, <3>5, <3>6, <1>1 DEF OnTheWay, Climbed, WalkedOut, w
    <3> QED BY <3>7, <1>1 DEF w
<1> QED BY <1>1, <1>4, <1>5, <1>6, <1>7, <1>8 DEF TreeIInv

(* With a node its whole subtree goes, and what stays has its parent. *)
LEMMA DeleteNodeIInv ==
  ASSUME TreeIInv, NEW n \in Nodes, DeleteNode(n)
  PROVE  TreeIInv'
<1> DEFINE D == Subtree(n)
<1>1. /\ n \in D /\ D \in SUBSET Nodes /\ Nested(D)
  BY BelowNested DEF Subtree
<1> HIDE DEF D
<1>2. /\ parent \in [Nodes -> Nodes \cup {TopLevel, Uncreated, Deleted}]
      /\ \A m \in D : parent'[m] = Deleted
      /\ \A m \in Nodes \ D : parent'[m] = parent[m]
      /\ UNCHANGED <<move, overlap>>
  BY <1>1 DEF DeleteNode, TreeIInv, TreeTypeOK, D
<1>3. \A m \in Nodes : Living(m)' <=> m \notin D /\ Living(m)
  BY <1>1, <1>2, TreeIds DEF Living
<1>4. \A m \in Nodes \ D : parent[m] \notin D
  BY <1>1 DEF Nested
<1>5. TreeTypeOK' /\ TargetsBorn'
  BY <1>1, <1>2, TreeIds DEF DeleteNode, TreeIInv, TreeTypeOK, TargetsBorn, Moving, D
<1>6. ParentsThere'
  <2> SUFFICES ASSUME NEW m \in Nodes, parent'[m] \in Nodes
               PROVE  parent'[parent'[m]] \in Nodes \cup {TopLevel}
    BY DEF ParentsThere, Living
  <2>1. m \notin D /\ parent'[m] = parent[m]
    BY <1>2, TreeIds
  <2>2. parent[m] \notin D /\ Living(parent[m])
    BY <1>4, <2>1 DEF TreeIInv, ParentsThere
  <2> QED BY <1>2, <2>1, <2>2 DEF Living
<1>7. ASSUME NoRing PROVE NoRing'
  BY <1>2, <1>3, <1>7 DEF NoRing
<1>8. OneMove => OneMove'
  BY <1>2 DEF OneMove, Moving
<1>9. ASSUME ClimbsHold PROVE ClimbsHold'
  <2> SUFFICES ASSUME NEW m \in Moves, Moving(m), move[m].to \in Nodes, Living(move[m].to)'
               PROVE  OnTheWay(move[m])'
    BY <1>2 DEF ClimbsHold, Moving
  <2> DEFINE w == move[m]
  <2>1. w \in MoveRecord
    BY DEF TreeIInv, TreeTypeOK, Moving, Idle, Ended
  <2>2. w.to \notin D /\ Living(w.to)
    BY <1>2, TreeIds DEF Living
  <2>3. OnTheWay(w)
    BY <1>9, <2>2 DEF ClimbsHold
  <2>4. \A a \in Climbed(w) : a \in Nodes /\ w.to \in Subtree(a)
    BY <2>1, <2>3 DEF OnTheWay, Climbed, MoveRecord
  <2>5. \A a \in Climbed(w) : a \notin D
    BY <1>1, <2>2, <2>4 DEF Subtree, Below
  <2>6. \A a \in Climbed(w) : w.to \in Subtree(a)'
    <3> SUFFICES ASSUME NEW a \in Climbed(w), NEW S \in SUBSET Nodes, a \in S, Nested(S)'
                 PROVE  w.to \in S
      BY <2>1, <2>4 DEF Subtree, Below, Nested, MoveRecord
    <3>1. Nested(S \cup D)
      BY <1>1, <1>2 DEF Nested
    <3>2. S \cup D \in SUBSET Nodes
      BY <1>1
    <3> QED BY <2>2, <2>4, <3>1, <3>2 DEF Subtree, Below
  <2>7. \A a \in Climbed(w) : parent'[a] = parent[a]
    BY <1>2, <2>4, <2>5
  <2> HIDE DEF w
  <2>8. OnTheWay(w)'
    BY <2>3, <2>6, <2>7, <1>2 DEF OnTheWay, Climbed, WalkedOut, w
  <2> QED BY <2>8, <1>2 DEF w
<1> QED BY <1>2, <1>5, <1>6, <1>7, <1>8, <1>9 DEF TreeIInv

(* A second move beside a first one is noted; the first starts at its target. *)
LEMMA MoveStartIInv ==
  ASSUME TreeIInv, NEW m \in Moves, MoveStart(m)
  PROVE  TreeIInv'
<1> PICK n \in Nodes, up \in Nodes \cup {TopLevel} :
      /\ Living(n) /\ up # n
      /\ up \in Nodes => Living(up)
      /\ move' = [move EXCEPT ![m] =
            [at |-> IF up = TopLevel THEN "save" ELSE "walk", node |-> n, to |-> up,
             cursor |-> up, next |-> IF up = TopLevel THEN up ELSE parent[up], seen |-> {}]]
  BY DEF MoveStart
<1> PICK w : w = [at |-> IF up = TopLevel THEN "save" ELSE "walk", node |-> n, to |-> up,
                  cursor |-> up, next |-> IF up = TopLevel THEN up ELSE parent[up], seen |-> {}]
  OBVIOUS
<1>1. w \in MoveRecord
  BY TreeIds DEF MoveRecord, TreeIInv, TreeTypeOK
<1>2. /\ w.at = (IF up = TopLevel THEN "save" ELSE "walk") /\ w.node = n /\ w.to = up
      /\ w.cursor = up /\ w.next = (IF up = TopLevel THEN up ELSE parent[up]) /\ w.seen = {}
  OBVIOUS
<1>3. move' = [move EXCEPT ![m] = w] /\ UNCHANGED parent
  BY DEF MoveStart
<1>4. move'[m] = w /\ \A k \in Moves \ {m} : move'[k] = move[k]
  BY <1>3 DEF TreeIInv, TreeTypeOK
<1>5. TreeTypeOK'
  BY <1>1, <1>3 DEF TreeIInv, TreeTypeOK, MoveStart, MoveRecord
<1>6. ParentsThere'
  BY <1>3 DEF TreeIInv, ParentsThere, Living
<1>7. TargetsBorn'
  BY <1>2, <1>3, <1>4, TreeIds DEF TreeIInv, TargetsBorn, Moving, Living
<1>8. ASSUME ~overlap' PROVE NoRing' /\ OneMove' /\ ClimbsHold'
  <2>1. ~overlap /\ \A k \in Moves \ {m} : ~Moving(k)
    BY <1>8 DEF MoveStart, TreeIInv, TreeTypeOK
  <2>2. NoRing'
    BY <1>3, <2>1 DEF TreeIInv, NoRing, Living
  <2>3. \A k \in Moves : Moving(k)' => k = m
    BY <1>4, <2>1 DEF Moving
  <2>4. OneMove'
    BY <2>3 DEF OneMove
  <2>5. ASSUME up \in Nodes PROVE OnTheWay(w)'
    <3>1. up \in Subtree(up)'
      BY <2>5 DEF Subtree, Below
    <3>2. w.at = "walk" => w.at # "save"
      OBVIOUS
    <3>3. w.at = "walk" /\ w.next = parent[up]
      BY <1>2, <2>5, TreeIds
    <3> QED BY <1>2, <1>3, <2>5, <3>1, <3>2, <3>3 DEF OnTheWay, Climbed
  <2>6. ClimbsHold'
    BY <1>2, <1>4, <2>3, <2>5 DEF ClimbsHold, OnTheWay, Climbed, WalkedOut, Subtree, Below, Nested
  <2> QED BY <2>2, <2>4, <2>6
<1> QED BY <1>5, <1>6, <1>7, <1>8 DEF TreeIInv, TreeTypeOK

(* A step up is to the parent of what was passed last. *)
LEMMA WalkUpIInv ==
  ASSUME TreeIInv, NEW m \in Moves, WalkUp(m)
  PROVE  TreeIInv'
<1> DEFINE w == move[m]
<1> DEFINE v == [w EXCEPT !.cursor = w.next, !.next = parent[w.next], !.seen = @ \cup {w.cursor}]
<1>0. UNCHANGED <<parent, overlap>> /\ w.at = "walk"
  BY DEF WalkUp
<1>1. w \in MoveRecord /\ Moving(m)
  BY <1>0 DEF TreeIInv, TreeTypeOK, Moving, Idle, Ended
<1> DEFINE s == [w EXCEPT !.at = "save"]
<1>2. /\ s \in MoveRecord /\ s.at = "save"
      /\ s.node = w.node /\ s.to = w.to /\ s.cursor = w.cursor /\ s.next = w.next /\ s.seen = w.seen
  BY <1>1 DEF MoveRecord
<1>3. ASSUME w.next \in Nodes
      PROVE  /\ v \in MoveRecord /\ v.at = "walk"
             /\ v.node = w.node /\ v.to = w.to /\ v.cursor = w.next /\ v.next = parent[w.next]
             /\ v.seen = w.seen \cup {w.cursor}
  BY <1>0, <1>1, <1>3 DEF MoveRecord, TreeIInv, TreeTypeOK
<1>4. move' = [move EXCEPT ![m] = IF Closes(w) THEN Ended ELSE IF WalkOver(w) THEN s ELSE v]
  BY DEF WalkUp
<1> HIDE DEF w, v, s
<1>5. \/ Closes(w) /\ move'[m] = Ended
      \/ ~Closes(w) /\ WalkOver(w) /\ move'[m] = s
      \/ ~Closes(w) /\ ~WalkOver(w) /\ move'[m] = v
  BY <1>4 DEF TreeIInv, TreeTypeOK
<1>6. \A k \in Moves \ {m} : move'[k] = move[k]
  BY <1>4 DEF TreeIInv, TreeTypeOK
<1>7. ~WalkOver(w) => w.next \in Nodes
  BY DEF WalkOver, WalkedOut
<1>8. TreeTypeOK'
  BY <1>0, <1>2, <1>3, <1>4, <1>7 DEF TreeIInv, TreeTypeOK
<1>9. \A k \in Moves : Moving(k)' => Moving(k) /\ move'[k].to = move[k].to
  BY <1>1, <1>2, <1>3, <1>5, <1>6, <1>7 DEF Moving, Ended, w
<1>10. ParentsThere' /\ TargetsBorn'
  BY <1>0, <1>9 DEF TreeIInv, ParentsThere, TargetsBorn, Living
<1>11. (NoRing => NoRing') /\ (OneMove => OneMove')
  BY <1>0, <1>9 DEF NoRing, OneMove, Living
<1>12. ASSUME ClimbsHold PROVE ClimbsHold'
  <2> SUFFICES ASSUME NEW k \in Moves, NEW x, x = move'[k], Moving(k)', x.to \in Nodes,
                      Living(x.to)'
               PROVE  OnTheWay(x)
    BY <1>0 DEF ClimbsHold, OnTheWay, Climbed, WalkedOut, Subtree, Below, Nested
  <2>1. OnTheWay(move[k])
    BY <1>0, <1>9, <1>12 DEF ClimbsHold, Living
  <2>2. CASE k # m
    BY <1>6, <2>1, <2>2
  <2>3. CASE k = m /\ move'[m] = s /\ ~Closes(w) /\ WalkOver(w)
    <3>1. OnTheWay(s)
      BY <1>2, <2>1, <2>3 DEF OnTheWay, Climbed, WalkedOut, WalkOver, Closes, Cyclic, w
    <3> QED BY <2>3, <3>1
  <2>4. CASE k = m /\ move'[m] = v /\ ~Closes(w) /\ ~WalkOver(w)
    <3>1. OnTheWay(w) /\ w.next \in Nodes
      BY <1>7, <2>1, <2>4 DEF w
    <3>2. w.to \in Subtree(w.next)
      <4> SUFFICES ASSUME NEW S \in SUBSET Nodes, w.next \in S, Nested(S)
                   PROVE  w.to \in S
        BY <3>1, <1>0, <1>1 DEF Subtree, Below, MoveRecord
      <4>1. w.cursor \in S
        BY <3>1 DEF OnTheWay, Nested
      <4> QED BY <3>1, <4>1 DEF OnTheWay, Climbed, Subtree, Below
    <3>3. OnTheWay(v)
      BY <1>3, <2>4, <3>1, <3>2 DEF OnTheWay, Climbed, Closes, Cyclic
    <3> QED BY <2>4, <3>3
  <2> QED BY <1>5, <2>2, <2>3, <2>4 DEF Moving, Ended
<1> QED BY <1>0, <1>8, <1>10, <1>11, <1>12 DEF TreeIInv

(* A node that is not on the way up from its new parent closes no ring. *)
LEMMA MoveSaveIInv ==
  ASSUME TreeIInv, NEW m \in Moves, MoveSave(m)
  PROVE  TreeIInv'
<1> DEFINE w == move[m]
<1>1. /\ w.at = "save" /\ Moving(m) /\ move' = [move EXCEPT ![m] = Ended] /\ UNCHANGED overlap
      /\ parent' = IF Living(w.node) /\ (w.to \in Nodes => Living(w.to))
                   THEN [parent EXCEPT ![w.node] = w.to] ELSE parent
  BY DEF MoveSave, Moving
<1>2. w \in MoveRecord
  BY <1>1 DEF TreeIInv, TreeTypeOK, Moving, Idle, Ended
<1>3. w.node \in Nodes /\ w.to \in Nodes \cup {TopLevel} /\ w.seen \in SUBSET Nodes
  BY <1>2 DEF MoveRecord
<1> HIDE DEF w
<1>4. \A k \in Moves : Moving(k)' => k # m /\ Moving(k) /\ move'[k] = move[k]
  BY <1>1 DEF TreeIInv, TreeTypeOK, Moving, Ended
<1>5. \/ parent' = parent
      \/ /\ Living(w.node) /\ (w.to \in Nodes => Living(w.to))
         /\ parent' \in [Nodes -> Nodes \cup {TopLevel, Uncreated, Deleted}]
         /\ parent'[w.node] = w.to
         /\ \A k \in Nodes \ {w.node} : parent'[k] = parent[k]
  BY <1>1, <1>3 DEF TreeIInv, TreeTypeOK
<1>6. \A k \in Nodes : Living(k)' <=> Living(k)
  BY <1>3, <1>5 DEF Living
<1>7. TreeTypeOK'
  BY <1>1, <1>5 DEF TreeIInv, TreeTypeOK
<1>8. ParentsThere'
  <2> SUFFICES ASSUME NEW k \in Nodes, parent'[k] \in Nodes
               PROVE  Living(parent'[k])
    BY <1>6 DEF ParentsThere, Living
  <2> QED BY <1>3, <1>5 DEF TreeIInv, ParentsThere
<1>9. TargetsBorn'
  <2> SUFFICES ASSUME NEW k \in Moves, Moving(k), move[k].to \in Nodes
               PROVE  parent'[move[k].to] # Uncreated
    BY <1>4 DEF TargetsBorn
  <2> QED BY <1>3, <1>5, TreeIds DEF TreeIInv, TargetsBorn
<1>10. OneMove => OneMove' /\ ClimbsHold'
  BY <1>1, <1>4 DEF OneMove, ClimbsHold
<1>11. ASSUME NoRing, ClimbsHold PROVE NoRing'
  <2> SUFFICES ASSUME NEW S \in SUBSET Nodes, \A k \in S : Living(k), S # {},
                      \A k \in S : parent'[k] \in S
               PROVE  FALSE
    BY <1>6 DEF NoRing
  <2>1. CASE parent' = parent
    BY <1>11, <2>1 DEF NoRing
  <2>2. CASE /\ Living(w.node) /\ (w.to \in Nodes => Living(w.to))
             /\ parent'[w.node] = w.to
             /\ \A k \in Nodes \ {w.node} : parent'[k] = parent[k]
    <3>1. w.node \in S
      BY <1>11, <2>2 DEF NoRing
    <3>2. w.to \in S
      BY <2>2, <3>1
    <3>3. OnTheWay(w)
      BY <1>1, <1>11, <2>2, <3>2 DEF ClimbsHold, w
    <3>4. w.to \in S \cap Climbed(w) /\ w.node \notin Climbed(w)
      BY <1>1, <3>2, <3>3 DEF OnTheWay, Climbed
    <3>5. \A k \in S \cap Climbed(w) : parent[k] \in S \cap Climbed(w)
      BY <1>1, <2>2, <3>3, <3>4 DEF OnTheWay, Climbed, WalkedOut
    <3> QED BY <1>11, <3>4, <3>5 DEF NoRing
  <2> QED BY <1>5, <2>1, <2>2
<1> QED BY <1>1, <1>7, <1>8, <1>9, <1>10, <1>11 DEF TreeIInv

LEMMA TreeNextIInv == TreeIInv /\ [TreeNext]_treeVars => TreeIInv'
<1> SUFFICES ASSUME TreeIInv, [TreeNext]_treeVars PROVE TreeIInv'
  OBVIOUS
<1>1. CASE UNCHANGED treeVars
  BY <1>1 DEF treeVars, TreeIInv, TreeTypeOK, ParentsThere, TargetsBorn, NoRing, OneMove,
     ClimbsHold, OnTheWay, Climbed, WalkedOut, Moving, Living, Subtree, Below, Nested
<1>2. CASE TreeNext
  BY <1>2, CreateNodeIInv, DeleteNodeIInv, MoveStartIInv, WalkUpIInv, MoveSaveIInv DEF TreeNext
<1> QED BY <1>1, <1>2

(* No deletion or lone move leaves a ring or a parent that is gone.        *)
THEOREM TreeInvariance == TreeSpec => []TreeIInv
BY TreeInitIInv, TreeNextIInv, PTL DEF TreeSpec

(* Every node of a product is in the tree that build_tree returns, however *)
(* nodes are created, deleted and moved, unless two moves have overlapped  *)
(* (_validate_parent_move, update_node).                                   *)
THEOREM NodesAreShown == TreeSpec => []NodesShown
<1>1. TreeIInv => NodesShown
  <2> SUFFICES ASSUME TreeIInv, ~overlap, NEW n \in Nodes, Living(n),
                      NEW S \in SUBSET Nodes, Roots \subseteq S, Nested(S), n \notin S
               PROVE  FALSE
    BY DEF NodesShown, Shown, Below
  <2> DEFINE hidden == {k \in Nodes : Living(k) /\ k \notin S}
  <2>1. PICK k \in hidden : parent[k] \notin hidden
    BY DEF TreeIInv, NoRing
  <2>2. parent[k] \in Nodes
    BY <2>1 DEF Living, Roots
  <2>3. Living(parent[k])
    BY <2>2 DEF TreeIInv, ParentsThere
  <2> QED BY <2>1, <2>2, <2>3 DEF Nested
<1> QED BY <1>1, TreeInvariance, PTL

-----------------------------------------------------------------------------
(* The git accounts of a host *)

\* What a row may hold.
RowValues == Urls \cup Nat \cup {Unset}

\* The lists of accounts a save may carry.
Lists == UNION {[0 .. n - 1 -> [url : Urls, token : {Blank} \cup Nat]] : n \in 0 .. NSlots}
Distinct(es) == \A s, t \in DOMAIN es : es[s].url = es[t].url => s = t

\* What a thread at work keeps.
Works ==
  [at : {"list", "read", "put", "write", "drop"}, todo : SUBSET Keys,
   key : Keys \cup {Unset}, got : [Keys -> RowValues], val : RowValues, clean : BOOLEAN,
   entries : Lists \cup {<<>>}, rows : [Keys -> RowValues], left : SUBSET Keys]

\* The types of the variables.
SettingTypes ==
  /\ stored \in [Keys -> RowValues]
  /\ cache \in [Keys -> RowValues \cup {Absent}]
  /\ thread \in [Threads -> {Resting} \cup Works]
  /\ meant \in [Urls -> Nat \cup {Unset}]
  /\ tainted \in BOOLEAN /\ saves \in Nat

\* What a thread has read is what is stored, if it met no stale entry, no
\* error and no save.
ReadIs(w, st) ==
  w.clean =>
    /\ w.at = "list" => w.got = NothingRead
    /\ w.at \in {"read", "put"} => \A k \in Keys \ w.todo : w.got[k] = st[k]
    /\ w.at = "put" => w.val = st[w.key]

\* Rows with an account for a URL at most, and the tokens m.
Fits(rows, m) ==
  /\ \A s, t \in Slots : rows[<<s, "url">>] = rows[<<t, "url">>]
                           /\ rows[<<s, "url">>] # Unset => s = t
  /\ \A u \in Urls \ {Public} : Resolved(rows, u) = m[u]

\* What a save has deleted and written so far.
Progress(w, st) ==
  \A k \in Keys \ w.left :
    /\ k \in w.todo => w.rows[k] = Unset
    /\ k \notin w.todo => st[k] = w.rows[k]

\* What a save knows: the accounts as they were meant, or the rows they come to.
SaverIs(w, st, m, bad) ==
  /\ w.entries \in Lists /\ Distinct(w.entries)
  /\ w.at \in {"write", "drop"} /\ w.clean /\ ~bad =>
       Progress(w, st) /\ Fits(w.rows, Asked(w.entries, m))
  /\ w.at \notin {"write", "drop"} /\ ~bad => Fits(st, m)

\* The inductive invariant.
SettingIInv ==
  /\ SettingTypes
  /\ \A t \in Threads : thread[t] # Resting => ReadIs(thread[t], stored)
  /\ \A r \in Resolvers : thread[r] # Resting =>
       /\ thread[r].at \in {"list", "read", "put"}
       /\ thread[r].clean => thread[Saver] = Resting
  /\ thread[Saver] # Resting => SaverIs(thread[Saver], stored, meant, tainted)
  /\ thread[Saver] = Resting /\ ~tainted => Fits(stored, meant)

\* A key is a slot's.
LEMMA KeysAre ==
    ASSUME NEW s \in Slots
    PROVE  /\ <<s, "url">> \in Keys /\ <<s, "token">> \in Keys /\ s \in Nat
           /\ <<s, "url">>[1] = s /\ <<s, "url">>[2] = "url"
           /\ <<s, "token">>[1] = s /\ <<s, "token">>[2] = "token"
<1>1. s \in Nat
  BY SettingIds DEF Slots
<1> QED BY <1>1 DEF Keys

\* With one account for a URL, the first and the last of the URL are that one.
LEMMA ResolvedIs ==
    ASSUME NEW rows, NEW u \in Urls \ {Public},
           \A s, t \in Slots : rows[<<s, "url">>] = rows[<<t, "url">>]
                                 /\ rows[<<s, "url">>] # Unset => s = t
    PROVE  /\ (\A s \in Slots : rows[<<s, "url">>] # u) => Resolved(rows, u) = Unset
           /\ \A s \in Slots : rows[<<s, "url">>] = u => Resolved(rows, u) = rows[<<s, "token">>]
<1>1. u # Unset /\ u # Public
  BY SettingIds
<1>2. \A s \in Slots : Url(rows, s) = u <=> rows[<<s, "url">>] = u
  BY <1>1 DEF Url
<1>3. Matches(rows, u) = {s \in Slots : rows[<<s, "url">>] = u}
  BY <1>1, <1>2 DEF Matches
<1>4. ASSUME \A s \in Slots : rows[<<s, "url">>] # u PROVE Resolved(rows, u) = Unset
  BY <1>3, <1>4 DEF Resolved
<1>5. ASSUME NEW s \in Slots, rows[<<s, "url">>] = u
      PROVE  Resolved(rows, u) = rows[<<s, "token">>]
  <2>1. Matches(rows, u) = {s}
    BY <1>1, <1>3, <1>5
  <2>2. s \in Nat
    BY KeysAre
  <2> QED BY <2>1, <2>2 DEF Resolved, Token
<1> QED BY <1>4, <1>5

\* A blank token field keeps the token its URL had.
LEMMA PreviousIs ==
    ASSUME NEW rows, NEW m, Fits(rows, m), NEW es, NEW s, es[s].url \in Urls \ {Public}
    PROVE  Previous(rows, es, s) = m[es[s].url]
<1> DEFINE u == es[s].url
           same == {t \in Slots : Url(rows, t) = u}
<1>1. u # Unset /\ u # Public /\ Resolved(rows, u) = m[u]
  BY SettingIds DEF Fits
<1>2. same = {t \in Slots : rows[<<t, "url">>] = u}
  BY <1>1 DEF Url
<1>3. CASE same = {}
  <2>1. Resolved(rows, u) = Unset
    BY <1>2, <1>3, ResolvedIs DEF Fits
  <2> QED BY <1>1, <1>3, <2>1 DEF Previous, PreviousByUrl
<1>4. CASE same # {}
  <2>1. PICK t \in Slots : rows[<<t, "url">>] = u
    BY <1>2, <1>4
  <2>2. same = {t}
    BY <1>1, <1>2, <2>1 DEF Fits
  <2>3. Resolved(rows, u) = rows[<<t, "token">>]
    BY <2>1, ResolvedIs DEF Fits
  <2>4. t \in Nat
    BY KeysAre
  <2> QED BY <1>1, <2>2, <2>3, <2>4 DEF Previous, PreviousByUrl, Token
<1> QED BY <1>3, <1>4

\* The accounts of a list are on slots.
LEMMA ListsAre ==
    ASSUME NEW es \in Lists
    PROVE  /\ DOMAIN es \subseteq Slots
           /\ \A s \in DOMAIN es : es[s].url \in Urls /\ es[s].token \in {Blank} \cup Nat
<1>1. PICK n \in 0 .. NSlots : es \in [0 .. n - 1 -> [url : Urls, token : {Blank} \cup Nat]]
  BY DEF Lists
<1>2. 0 .. n - 1 \subseteq Slots
  BY SettingIds DEF Slots
<1> QED BY <1>1, <1>2

\* The rows a save is to write have the tokens that were asked for.
LEMMA NewRowsFit ==
    ASSUME NEW rows \in [Keys -> RowValues], NEW m, Fits(rows, m), NEW es \in Lists, Distinct(es)
    PROVE  Fits(NewRows(rows, es), Asked(es, m))
<1> DEFINE new == NewRows(rows, es)
<1>1. \A s \in Slots : /\ s \notin DOMAIN es => new[<<s, "url">>] = Unset
                       /\ s \in DOMAIN es => new[<<s, "url">>] = es[s].url
  BY KeysAre DEF NewRows
<1>2. \A s \in DOMAIN es : new[<<s, "token">>] =
         IF es[s].token = Blank THEN Previous(rows, es, s) ELSE es[s].token
  <2> SUFFICES ASSUME NEW s \in DOMAIN es
               PROVE  new[<<s, "token">>] =
                        IF es[s].token = Blank THEN Previous(rows, es, s) ELSE es[s].token
    OBVIOUS
  <2>1. s \in Slots
    BY ListsAre
  <2> QED BY <2>1, KeysAre DEF NewRows
<1> HIDE DEF new
<1>3. \A s, t \in Slots : new[<<s, "url">>] = new[<<t, "url">>]
                            /\ new[<<s, "url">>] # Unset => s = t
  BY <1>1 DEF Distinct
<1>4. ASSUME NEW u \in Urls \ {Public} PROVE Resolved(new, u) = Asked(es, m)[u]
  <2> DEFINE given == {s \in DOMAIN es : es[s].url = u}
  <2>1. u # Unset
    BY SettingIds
  <2>2. Asked(es, m)[u] =
          IF given = {} THEN Unset
          ELSE LET t == es[CHOOSE s \in given : TRUE].token IN IF t = Blank THEN m[u] ELSE t
    BY DEF Asked
  <2>3. CASE given = {}
    <3>1. \A s \in Slots : new[<<s, "url">>] # u
      BY <1>1, <2>1, <2>3
    <3> QED BY <1>3, <2>2, <2>3, <3>1, ResolvedIs
  <2>4. CASE given # {}
    <3>1. PICK s \in DOMAIN es : es[s].url = u
      BY <2>4
    <3>2. given = {s}
      BY <3>1 DEF Distinct
    <3>3. (CHOOSE x \in given : TRUE) = s
      BY <3>2
    <3>4. s \in Slots /\ new[<<s, "url">>] = u
      BY <1>1, <3>1, ListsAre
    <3>5. Resolved(new, u) = new[<<s, "token">>]
      BY <1>3, <3>4, ResolvedIs
    <3>6. Previous(rows, es, s) = m[u]
      BY <3>1, PreviousIs
    <3>7. Asked(es, m)[u] = IF es[s].token = Blank THEN m[u] ELSE es[s].token
      BY <2>2, <2>4, <3>3
    <3> QED BY <1>2, <3>5, <3>6, <3>7
  <2> QED BY <2>3, <2>4
<1> QED BY <1>3, <1>4 DEF Fits, new

\* Some slot is the last of any.
LEMMA LastOf ==
    ASSUME NEW S \in SUBSET Slots, S # {}
    PROVE  \E t \in S : \A s \in S : s <= t
<1> DEFINE R == {ss \in Nat \X Nat : ss[1] < ss[2]}
           Above == {NSlots - s : s \in S}
<1>1. IsWellFoundedOn(R, Nat)
  BY NatLessThanWellFounded DEF OpToRel
<1>2. \A s \in S : s \in Nat /\ NSlots - s \in Nat
  BY SettingIds DEF Slots
<1>3. PICK x \in Above : \A y \in Above : <<y, x>> \notin R
  <2>1. Above \subseteq Nat /\ Above # {}
    BY <1>2
  <2> HIDE DEF R, Above
  <2> QED BY <1>1, <2>1, WFMin
<1>4. PICK t \in S : x = NSlots - t
  OBVIOUS
<1>5. ASSUME NEW s \in S PROVE s <= t
  <2>1. <<NSlots - s, NSlots - t>> \notin R
    BY <1>3, <1>4
  <2>2. ~(NSlots - s < NSlots - t)
    BY <1>2, <2>1
  <2> QED BY <1>2, <2>2, SettingIds
<1> QED BY <1>5

\* The rows of a save are values.
LEMMA NewRowsAre ==
    ASSUME NEW rows \in [Keys -> RowValues], NEW es \in Lists \cup {<<>>}
    PROVE  NewRows(rows, es) \in [Keys -> RowValues]
<1>1. Unset \in RowValues
  BY DEF RowValues
<1>2. ASSUME NEW s PROVE Previous(rows, es, s) \in RowValues
  <2> DEFINE same == {t \in Slots : Url(rows, t) = es[s].url}
             last == CHOOSE t \in same : \A other \in same : other <= t
  <2>1. Previous(rows, es, s) =
          IF es[s].url = Public \/ same = {} THEN Unset ELSE rows[<<last, "token">>]
    BY DEF Previous, PreviousByUrl, Token
  <2>2. CASE same = {}
    BY <1>1, <2>1, <2>2
  <2>3. CASE same # {}
    <3>1. last \in same
      <4>1. same \in SUBSET Slots
        OBVIOUS
      <4> HIDE DEF same
      <4> QED BY <2>3, <4>1, LastOf
    <3>2. last \in Slots
      BY <3>1
    <3> HIDE DEF last
    <3>3. rows[<<last, "token">>] \in RowValues
      BY <3>2, KeysAre
    <3> QED BY <1>1, <2>1, <3>3
  <2> QED BY <2>2, <2>3
<1>3. ASSUME NEW k \in Keys, k[1] \in DOMAIN es
      PROVE  es[k[1]].url \in RowValues /\ (es[k[1]].token = Blank \/ es[k[1]].token \in RowValues)
  <2>1. es \in Lists
    BY <1>3
  <2> QED BY <1>3, <2>1, ListsAre DEF RowValues
<1>4. NewRows(rows, es) \in [Keys -> RowValues]
  BY <1>1, <1>2, <1>3 DEF NewRows
<1> QED BY <1>4

\* A thread that begins has read nothing.
LEMMA StartIs ==
  /\ Start \in Works /\ Start # Resting /\ Start.at = "list" /\ Start.got = NothingRead
  /\ \A b \in BOOLEAN : /\ [Start EXCEPT !.clean = b] \in Works
                       /\ [Start EXCEPT !.clean = b].at = "list"
                       /\ [Start EXCEPT !.clean = b].got = NothingRead
                       /\ [Start EXCEPT !.clean = b].clean = b
  /\ \A es \in Lists : /\ [Start EXCEPT !.entries = es] \in Works
                      /\ [Start EXCEPT !.entries = es].at = "list"
                      /\ [Start EXCEPT !.entries = es].got = NothingRead
                      /\ [Start EXCEPT !.entries = es].entries = es
<1>1. Unset \in RowValues
  BY DEF RowValues
<1>2. NothingRead \in [Keys -> RowValues]
  BY <1>1 DEF NothingRead
<1>3. Start \in Works
  BY <1>1, <1>2 DEF Start, Works
<1>4. Start.at = "list" /\ Start.got = NothingRead /\ Start # Resting
  BY DEF Start, Resting
<1> QED BY <1>3, <1>4 DEF Works

\* Nobody at work is at rest.
LEMMA AtWork == \A w \in Works : w # Resting
BY DEF Works, Resting

\* The accounts stored at first are those meant.
LEMMA SettingStarts == SettingInit => SettingIInv
<1> SUFFICES ASSUME SettingInit PROVE SettingIInv
  OBVIOUS
<1>1. PICK order \in [Slots -> Urls] :
        /\ \A s, t \in Slots : order[s] = order[t] => s = t
        /\ \A u \in Urls : (\A s \in Slots : order[s] # u) => meant[u] = Unset
        /\ stored = [k \in Keys |-> IF k[2] = "url" THEN order[k[1]] ELSE meant[order[k[1]]]]
  BY DEF SettingInit
<1>2. meant \in [Urls -> Nat \cup {Unset}]
  BY DEF SettingInit
<1>3. \A s \in Slots : stored[<<s, "url">>] = order[s] /\ stored[<<s, "token">>] = meant[order[s]]
  BY <1>1, KeysAre
<1>4. stored \in [Keys -> RowValues]
  <2>1. \A k \in Keys : k[1] \in Slots
    BY DEF Keys
  <2> QED BY <1>1, <1>2, <2>1 DEF RowValues
<1>5. SettingTypes
  BY <1>2, <1>4 DEF SettingInit, SettingTypes
<1>6. \A t \in Threads : thread[t] = Resting
  BY DEF SettingInit
<1>7. Fits(stored, meant)
  <2>1. ASSUME NEW s \in Slots, NEW t \in Slots, stored[<<s, "url">>] = stored[<<t, "url">>]
        PROVE  s = t
    <3>1. order[s] = order[t]
      BY <1>3, <2>1
    <3> QED BY <1>1, <3>1
  <2>2. ASSUME NEW u \in Urls \ {Public} PROVE Resolved(stored, u) = meant[u]
    <3>1. CASE \A s \in Slots : order[s] # u
      <4>1. \A s \in Slots : stored[<<s, "url">>] # u
        BY <1>3, <3>1
      <4>2. Resolved(stored, u) = Unset
        BY <2>1, <4>1, ResolvedIs
      <4> QED BY <1>1, <3>1, <4>2
    <3>2. ASSUME NEW s \in Slots, order[s] = u PROVE Resolved(stored, u) = meant[u]
      <4>1. stored[<<s, "url">>] = u /\ stored[<<s, "token">>] = meant[u]
        BY <1>3, <3>2
      <4>2. Resolved(stored, u) = stored[<<s, "token">>]
        BY <2>1, <4>1, ResolvedIs
      <4> QED BY <4>1, <4>2
    <3> QED BY <3>1, <3>2
  <2> QED BY <2>1, <2>2 DEF Fits
<1> QED BY <1>5, <1>6, <1>7 DEF SettingIInv, Threads

\* A thread goes on reading.
LEMMA ReadFrame ==
    ASSUME SettingIInv, NEW t \in Threads, NEW w \in Works,
           thread[t] \in Works, thread[t].at \in {"list", "read", "put"},
           w.at \in {"list", "read", "put"}, w.entries = thread[t].entries,
           w.clean => thread[t].clean, ReadIs(w, stored),
           thread' = [thread EXCEPT ![t] = w],
           cache' \in [Keys -> RowValues \cup {Absent}],
           UNCHANGED <<stored, meant, tainted, saves>>
    PROVE  SettingIInv'
<1>1. thread \in [Threads -> {Resting} \cup Works]
  BY DEF SettingIInv, SettingTypes
<1>2. /\ thread'[t] = w /\ w # Resting /\ thread[t] # Resting
      /\ \A s \in Threads \ {t} : thread'[s] = thread[s]
  BY <1>1, AtWork
<1>3. SettingTypes'
  BY <1>1 DEF SettingIInv, SettingTypes
<1>4. \A s \in Threads : thread'[s] # Resting => ReadIs(thread'[s], stored')
  BY <1>2 DEF SettingIInv
<1>5. Saver \in Threads /\ \A r \in Resolvers : r \in Threads /\ r # Saver
  BY SettingIds DEF Threads
<1>6. thread'[Saver] = Resting <=> thread[Saver] = Resting
  BY <1>2, <1>5
<1>7. \A r \in Resolvers : thread'[r] # Resting =>
        /\ thread'[r].at \in {"list", "read", "put"}
        /\ thread'[r].clean => thread'[Saver] = Resting
  BY <1>2, <1>5, <1>6 DEF SettingIInv
<1>8. thread'[Saver] # Resting => SaverIs(thread'[Saver], stored', meant', tainted')
  BY <1>2, <1>5 DEF SettingIInv, SaverIs
<1>9. thread'[Saver] = Resting /\ ~tainted' => Fits(stored', meant')
  BY <1>6 DEF SettingIInv
<1> QED BY <1>3, <1>4, <1>7, <1>8, <1>9 DEF SettingIInv

\* A thread with a value read and taken over.
LEMMA TakenIs ==
    ASSUME NEW w \in Works, NEW k, NEW v \in RowValues, NEW clean \in BOOLEAN,
           w.at \in {"read", "put"}, NEW st,
           clean => w.clean /\ v = st[k], ReadIs(w, st)
    PROVE  LET x == [Taken(w, k, v) EXCEPT !.clean = clean] IN
           /\ x \in Works /\ x.at = "read" /\ x.entries = w.entries /\ x.clean = clean
           /\ ReadIs(x, st)
<1> DEFINE got == [w.got EXCEPT ![k] = v]
           todo == w.todo \ {k}
           x == [Taken(w, k, v) EXCEPT !.clean = clean]
<1>1. got \in [Keys -> RowValues] /\ todo \in SUBSET Keys /\ Unset \in RowValues
      /\ \A j \in Keys : got[j] = IF j = k THEN v ELSE w.got[j]
  BY DEF Works, RowValues
<1> HIDE DEF got, todo
<1>2. x = [w EXCEPT !.at = "read", !.got = got, !.todo = todo, !.val = Unset, !.key = Unset,
                    !.clean = clean]
  BY DEF Taken, got, todo, Works
<1> HIDE DEF x
<1>3. /\ x \in Works /\ x.at = "read" /\ x.entries = w.entries /\ x.clean = clean
      /\ x.got = got /\ x.todo = todo
  BY <1>1, <1>2 DEF Works
<1>4. ReadIs(x, st)
  <2> SUFFICES ASSUME clean, NEW j \in Keys \ todo PROVE got[j] = st[j]
    BY <1>3 DEF ReadIs
  <2>1. j = k \/ j \in Keys \ w.todo
    BY DEF todo
  <2> QED BY <1>1, <2>1 DEF ReadIs
<1> QED BY <1>3, <1>4 DEF x

\* What the next key of a lookup or a save brings.
LEMMA ReadsStep ==
    ASSUME SettingIInv, NEW t \in Threads, Reads(t)
    PROVE  SettingIInv'
<1> DEFINE w == thread[t]
<1>1. /\ thread \in [Threads -> {Resting} \cup Works] /\ stored \in [Keys -> RowValues]
      /\ cache \in [Keys -> RowValues \cup {Absent}]
  BY DEF SettingIInv, SettingTypes
<1>2. Unset \in RowValues
  BY DEF RowValues
<1>3. CASE \E fails \in BOOLEAN : List(t, fails)
  <2>1. PICK fails \in BOOLEAN : List(t, fails)
    BY <1>3
  <2>2. w \in Works /\ w.at = "list" /\ ReadIs(w, stored) /\ w # Resting
    <3>1. w.at = "list"
      BY <2>1 DEF List
    <3>2. w # Resting
      BY <3>1 DEF Resting
    <3> QED BY <1>1, <3>1, <3>2 DEF SettingIInv
  <2> DEFINE todo == IF fails THEN {} ELSE ReadKeys
             clean == w.clean /\ ~fails
             x == [w EXCEPT !.at = "read", !.todo = todo, !.clean = clean]
  <2>3. todo \in SUBSET Keys /\ clean \in BOOLEAN
    BY <2>2 DEF ReadKeys, Works
  <2>4. thread' = [thread EXCEPT ![t] = x] /\ UNCHANGED <<stored, cache, meant, tainted, saves>>
    BY <1>1, <2>1 DEF List
  <2>5. ~fails => todo = ReadKeys
    OBVIOUS
  <2>6. clean => w.clean /\ ~fails
    OBVIOUS
  <2> HIDE DEF todo, clean
  <2>7. x \in Works /\ x.at = "read" /\ x.entries = w.entries /\ x.clean = clean /\ x.todo = todo
        /\ x.got = w.got
    BY <2>2, <2>3 DEF Works
  <2> HIDE DEF x
  <2>8. ReadIs(x, stored)
    <3> SUFFICES ASSUME clean, NEW k \in Keys \ todo PROVE w.got[k] = stored[k]
      BY <2>7 DEF ReadIs
    <3>1. w.got[k] = Unset
      BY <2>2, <2>6 DEF ReadIs, NothingRead
    <3>2. k \notin RowKeys
      BY <2>5, <2>6 DEF ReadKeys, RowKeys
    <3> QED BY <3>1, <3>2 DEF RowKeys
  <2> QED BY <1>1, <2>2, <2>4, <2>6, <2>7, <2>8, ReadFrame
<1>4. ASSUME NEW k \in Keys, GetHit(t, k) \/ GetFails(t, k) PROVE SettingIInv'
  <2>1. w \in Works /\ w.at = "read" /\ ReadIs(w, stored) /\ w # Resting
    <3>1. w.at = "read"
      BY <1>4 DEF GetHit, GetFails, Reading
    <3>2. w # Resting
      BY <3>1 DEF Resting
    <3> QED BY <1>1, <3>1, <3>2 DEF SettingIInv
  <2>2. CASE GetHit(t, k)
    <3> DEFINE clean == w.clean /\ cache[k] = stored[k]
               x == [Taken(w, k, cache[k]) EXCEPT !.clean = clean]
    <3>1. clean \in BOOLEAN /\ cache[k] \in RowValues /\ (clean => w.clean /\ cache[k] = stored[k])
      BY <1>1, <2>1, <2>2 DEF GetHit, Works
    <3>2. thread' = [thread EXCEPT ![t] = x] /\ UNCHANGED <<stored, cache, meant, tainted, saves>>
      BY <2>2 DEF GetHit
    <3> HIDE DEF clean
    <3>3. x \in Works /\ x.at = "read" /\ x.entries = w.entries /\ x.clean = clean
          /\ ReadIs(x, stored)
      BY <2>1, <3>1, TakenIs
    <3> HIDE DEF x
    <3> QED BY <1>1, <2>1, <3>1, <3>2, <3>3, ReadFrame
  <2>3. CASE GetFails(t, k)
    <3> DEFINE x == [Taken(w, k, Unset) EXCEPT !.clean = FALSE]
    <3>1. thread' = [thread EXCEPT ![t] = x] /\ UNCHANGED <<stored, cache, meant, tainted, saves>>
      BY <1>1, <2>1, <2>3 DEF GetFails
    <3>2. x \in Works /\ x.at = "read" /\ x.entries = w.entries /\ x.clean = FALSE
          /\ ReadIs(x, stored)
      BY <1>2, <2>1, TakenIs
    <3> HIDE DEF x
    <3> QED BY <1>1, <2>1, <3>1, <3>2, ReadFrame
  <2> QED BY <1>4, <2>2, <2>3
<1>5. ASSUME NEW k \in Keys, GetMiss(t, k) PROVE SettingIInv'
  <2>1. w \in Works /\ w.at = "read" /\ ReadIs(w, stored) /\ w # Resting
    <3>1. w.at = "read"
      BY <1>5 DEF GetMiss, Reading
    <3>2. w # Resting
      BY <3>1 DEF Resting
    <3> QED BY <1>1, <3>1, <3>2 DEF SettingIInv
  <2> DEFINE x == [w EXCEPT !.at = "put", !.val = stored[k], !.key = k]
  <2>2. thread' = [thread EXCEPT ![t] = x] /\ UNCHANGED <<stored, cache, meant, tainted, saves>>
    BY <1>1, <1>5 DEF GetMiss
  <2>3. /\ x \in Works /\ x.at = "put" /\ x.entries = w.entries /\ x.clean = w.clean
        /\ x.val = stored[k] /\ x.key = k /\ x.got = w.got /\ x.todo = w.todo
    BY <1>1, <2>1 DEF Works
  <2> HIDE DEF x
  <2>4. ReadIs(x, stored)
    BY <2>1, <2>3 DEF ReadIs
  <2> QED BY <1>1, <2>1, <2>2, <2>3, <2>4, ReadFrame
<1>6. CASE CachePut(t)
  <2>1. w \in Works /\ w.at = "put" /\ ReadIs(w, stored) /\ w # Resting
    <3>1. w.at = "put"
      BY <1>6 DEF CachePut
    <3>2. w # Resting
      BY <3>1 DEF Resting
    <3> QED BY <1>1, <3>1, <3>2 DEF SettingIInv
  <2>2. w.val \in RowValues /\ w.clean \in BOOLEAN /\ (w.clean => w.val = stored[w.key])
    BY <2>1 DEF Works, ReadIs
  <2> DEFINE x == [Taken(w, w.key, w.val) EXCEPT !.clean = w.clean]
  <2>3. x = Taken(w, w.key, w.val)
    BY <2>1 DEF Taken, Works
  <2>4. /\ thread' = [thread EXCEPT ![t] = x] /\ UNCHANGED <<stored, meant, tainted, saves>>
        /\ cache' = [cache EXCEPT ![w.key] = w.val]
    BY <1>6, <2>3 DEF CachePut
  <2>5. cache' \in [Keys -> RowValues \cup {Absent}]
    BY <1>1, <2>2, <2>4
  <2>6. x \in Works /\ x.at = "read" /\ x.entries = w.entries /\ x.clean = w.clean
        /\ ReadIs(x, stored)
    BY <2>1, <2>2, TakenIs
  <2> HIDE DEF x
  <2> QED BY <2>1, <2>4, <2>5, <2>6, ReadFrame
<1> QED BY <1>3, <1>4, <1>5, <1>6 DEF Reads

\* A lookup begins or ends.
LEMMA ResolveStep ==
    ASSUME SettingIInv, NEW r \in Resolvers, ResolveStart(r) \/ ResolveEnd(r)
    PROVE  SettingIInv'
<1>1. thread \in [Threads -> {Resting} \cup Works] /\ r \in Threads /\ Saver \in Threads /\ r # Saver
  BY SettingIds DEF SettingIInv, SettingTypes, Threads
<1>2. UNCHANGED <<stored, cache, meant, tainted, saves>>
  BY DEF ResolveStart, ResolveEnd
<1> DEFINE b == ~Saving
           x == [Start EXCEPT !.clean = b]
<1>3. PICK y \in {Resting, x} : thread' = [thread EXCEPT ![r] = y]
  BY DEF ResolveStart, ResolveEnd
<1>4. b \in BOOLEAN /\ (b => thread[Saver] = Resting)
  BY DEF Saving
<1> HIDE DEF b
<1>5. x \in Works /\ x.at = "list" /\ x.got = NothingRead /\ x.clean = b
  BY <1>4, StartIs
<1> HIDE DEF x
<1>6. thread'[r] = y /\ \A t \in Threads \ {r} : thread'[t] = thread[t]
  BY <1>1, <1>3
<1>7. thread' \in [Threads -> {Resting} \cup Works]
  BY <1>1, <1>3, <1>5
<1>8. SettingTypes'
  BY <1>2, <1>7 DEF SettingIInv, SettingTypes
<1>9. \A t \in Threads : thread'[t] # Resting => ReadIs(thread'[t], stored')
  BY <1>2, <1>5, <1>6 DEF SettingIInv, ReadIs
<1>10. thread'[Saver] = thread[Saver]
  BY <1>1, <1>6
<1>11. \A s \in Resolvers : thread'[s] # Resting =>
        /\ thread'[s].at \in {"list", "read", "put"}
        /\ thread'[s].clean => thread'[Saver] = Resting
  BY <1>4, <1>5, <1>6, <1>10 DEF SettingIInv, Threads
<1> QED BY <1>2, <1>8, <1>9, <1>10, <1>11 DEF SettingIInv

\* A save begins: whoever is reading may read what it writes.
LEMMA SaveStarts ==
    ASSUME SettingIInv, NEW es \in AccountLists, SaveStart(es)
    PROVE  SettingIInv'
<1>1. /\ thread \in [Threads -> {Resting} \cup Works] /\ Saver \in Threads /\ saves \in Nat
      /\ Resolvers \subseteq Threads /\ Saver \notin Resolvers
  BY SettingIds DEF SettingIInv, SettingTypes, Threads
<1>2. /\ UNCHANGED <<stored, cache, meant, tainted>> /\ saves' = saves + 1
      /\ thread[Saver] = Resting
  BY DEF SaveStart, Saving
<1>3. es \in Lists /\ Distinct(es)
  <2>1. saves + 1 \in Nat
    BY <1>1
  <2>2. PICK n \in 0 .. NSlots : es \in [0 .. n - 1 -> [url : Urls, token : {Blank, saves + 1}]]
    BY DEF AccountLists
  <2>3. es \in [0 .. n - 1 -> [url : Urls, token : {Blank} \cup Nat]]
    BY <2>1, <2>2
  <2>4. \A s, t \in DOMAIN es : es[s].url = es[t].url => s = t
    BY DEF AccountLists
  <2> QED BY <2>3, <2>4 DEF Lists, Distinct
<1> DEFINE x == [Start EXCEPT !.entries = es]
           over(t) == [thread[t] EXCEPT !.clean = FALSE]
<1>4. thread' = [t \in Threads |->
         IF t = Saver THEN x ELSE IF thread[t] = Resting THEN Resting ELSE over(t)]
  BY DEF SaveStart
<1>5. x \in Works /\ x.at = "list" /\ x.got = NothingRead /\ x.entries = es
  BY <1>3, StartIs
<1> HIDE DEF x
<1>6. \A t \in Threads : thread[t] # Resting =>
         over(t) \in Works /\ over(t).clean = FALSE /\ over(t).at = thread[t].at
  BY <1>1 DEF Works
<1> HIDE DEF over
<1>7. /\ thread'[Saver] = x
      /\ \A t \in Threads \ {Saver} :
           thread'[t] = IF thread[t] = Resting THEN Resting ELSE over(t)
  BY <1>1, <1>4
<1>8. thread' \in [Threads -> {Resting} \cup Works]
  BY <1>4, <1>5, <1>6
<1>9. SettingTypes'
  BY <1>1, <1>2, <1>8 DEF SettingIInv, SettingTypes
<1>10. \A t \in Threads : thread'[t] # Resting => ReadIs(thread'[t], stored')
  BY <1>5, <1>6, <1>7 DEF ReadIs
<1>11. \A r \in Resolvers : thread'[r] # Resting =>
        /\ thread'[r].at \in {"list", "read", "put"}
        /\ thread'[r].clean => thread'[Saver] = Resting
  BY <1>1, <1>6, <1>7 DEF SettingIInv
<1>12. SaverIs(thread'[Saver], stored', meant', tainted')
  <2>1. ~tainted => Fits(stored, meant)
    BY <1>2 DEF SettingIInv
  <2> QED BY <1>2, <1>3, <1>5, <1>7, <2>1 DEF SaverIs
<1>13. thread'[Saver] # Resting
  BY <1>5, <1>7, AtWork
<1> QED BY <1>9, <1>10, <1>11, <1>12, <1>13 DEF SettingIInv

\* A save goes on writing.
LEMMA SaveFrame ==
    ASSUME SettingIInv, NEW w \in Works, thread[Saver] # Resting,
           w.at \in {"write", "drop"}, thread' = [thread EXCEPT ![Saver] = w],
           stored' \in [Keys -> RowValues], cache' \in [Keys -> RowValues \cup {Absent}],
           UNCHANGED <<meant, tainted, saves>>, SaverIs(w, stored', meant, tainted)
    PROVE  SettingIInv'
<1>1. /\ thread \in [Threads -> {Resting} \cup Works] /\ Saver \in Threads
      /\ Resolvers \subseteq Threads /\ Saver \notin Resolvers /\ Threads = Resolvers \cup {Saver}
  BY SettingIds DEF SettingIInv, SettingTypes, Threads
<1>2. thread'[Saver] = w /\ w # Resting /\ \A r \in Resolvers : thread'[r] = thread[r]
  BY <1>1, AtWork
<1>3. SettingTypes'
  BY <1>1 DEF SettingIInv, SettingTypes
<1>4. \A r \in Resolvers : thread[r] # Resting =>
         thread[r].at \in {"list", "read", "put"} /\ ~thread[r].clean
  BY DEF SettingIInv
<1>5. \A t \in Threads : thread'[t] # Resting => ReadIs(thread'[t], stored')
  BY <1>1, <1>2, <1>4 DEF ReadIs
<1>6. \A r \in Resolvers : thread'[r] # Resting =>
        /\ thread'[r].at \in {"list", "read", "put"}
        /\ thread'[r].clean => thread'[Saver] = Resting
  BY <1>2, <1>4
<1>7. SaverIs(thread'[Saver], stored', meant', tainted')
  BY <1>2
<1> QED BY <1>2, <1>3, <1>5, <1>6, <1>7 DEF SettingIInv

\* What is read of the accounts is what is stored.
LEMMA ReadAllIs ==
    ASSUME SettingIInv, NEW t \in Threads, ReadAll(t), thread[t].clean
    PROVE  thread[t].got = stored
<1>1. thread[t].at = "read" /\ thread[t].todo = {} /\ thread[t] # Resting
  BY DEF ReadAll, Resting
<1>2. thread[t] \in Works /\ stored \in [Keys -> RowValues]
  BY <1>1 DEF SettingIInv, SettingTypes
<1>3. thread[t].got \in [Keys -> RowValues]
  BY <1>2 DEF Works
<1>4. \A k \in Keys : thread[t].got[k] = stored[k]
  BY <1>1 DEF SettingIInv, ReadIs
<1> QED BY <1>2, <1>3, <1>4

\* The save turns from reading to writing.
LEMMA SavePlans ==
    ASSUME SettingIInv, NEW fails \in BOOLEAN, SavePlan(fails)
    PROVE  SettingIInv'
<1> DEFINE w == thread[Saver]
           rows == NewRows(w.got, w.entries)
           todo == IF fails THEN {} ELSE RowKeys
           left == {k \in Keys : rows[k] # Unset}
           clean == w.clean /\ ~fails
           x == [w EXCEPT !.at = "write", !.todo = todo, !.rows = rows, !.left = left, !.clean = clean]
<1>1. ReadAll(Saver) /\ w.at = "read" /\ w.todo = {} /\ w # Resting
  BY DEF SavePlan, ReadAll, Resting
<1>2. thread \in [Threads -> {Resting} \cup Works] /\ w \in Works /\ Saver \in Threads
  BY <1>1 DEF SettingIInv, SettingTypes, Threads
<1>3. thread' = [thread EXCEPT ![Saver] = x] /\ UNCHANGED <<stored, cache, meant, tainted, saves>>
  BY <1>2 DEF SavePlan
<1>4. rows \in [Keys -> RowValues]
  BY <1>2, NewRowsAre DEF Works
<1>5. todo \in SUBSET Keys /\ left \in SUBSET Keys /\ clean \in BOOLEAN
      /\ (clean => w.clean /\ todo = RowKeys)
  BY <1>2 DEF RowKeys, Works
<1>6. \A k \in Keys : k \in left <=> rows[k] # Unset
  OBVIOUS
<1>7. SaverIs(w, stored, meant, tainted)
  BY <1>1 DEF SettingIInv
<1>8. clean /\ ~tainted => Fits(rows, Asked(w.entries, meant))
  <2> SUFFICES ASSUME clean, ~tainted PROVE Fits(rows, Asked(w.entries, meant))
    OBVIOUS
  <2>1. w.got = stored
    BY <1>1, <1>2, <1>5, ReadAllIs
  <2>2. Fits(stored, meant) /\ w.entries \in Lists /\ Distinct(w.entries)
    BY <1>1, <1>7 DEF SaverIs
  <2>3. stored \in [Keys -> RowValues]
    BY DEF SettingIInv, SettingTypes
  <2> QED BY <2>1, <2>2, <2>3, NewRowsFit
<1> HIDE DEF rows, todo, left, clean
<1>9. /\ x \in Works /\ x.at = "write" /\ x.todo = todo /\ x.rows = rows /\ x.left = left
      /\ x.clean = clean /\ x.entries = w.entries
  BY <1>2, <1>4, <1>5 DEF Works
<1> HIDE DEF x
<1>10. clean => Progress(x, stored)
  BY <1>5, <1>6, <1>9 DEF Progress, RowKeys
<1>11. SaverIs(x, stored, meant, tainted)
  BY <1>7, <1>8, <1>9, <1>10 DEF SaverIs
<1> QED BY <1>1, <1>3, <1>9, <1>11, SaveFrame DEF SettingIInv, SettingTypes

\* A row is deleted or written, or stays as it was.
LEMMA WritesRow ==
    ASSUME SettingIInv, NEW k \in Keys, NEW v \in RowValues, NEW fails \in BOOLEAN,
           WriteRow(k, v, fails), thread[Saver].at = "write",
           \/ v = Unset /\ k \in thread[Saver].todo
           \/ thread[Saver].todo = {} /\ v = thread[Saver].rows[k]
    PROVE  SettingIInv'
<1> DEFINE w == thread[Saver]
           todo == w.todo \ {k}
           left == IF v = Unset THEN w.left ELSE w.left \ {k}
           clean == w.clean /\ ~fails
           x == [w EXCEPT !.at = "drop", !.key = k, !.todo = todo, !.left = left, !.clean = clean]
<1>1. w # Resting
  BY DEF Resting
<1>2. thread \in [Threads -> {Resting} \cup Works] /\ w \in Works /\ Saver \in Threads
      /\ stored \in [Keys -> RowValues] /\ cache \in [Keys -> RowValues \cup {Absent}]
  BY <1>1 DEF SettingIInv, SettingTypes, Threads
<1>3. thread' = [thread EXCEPT ![Saver] = x] /\ UNCHANGED <<cache, meant, tainted, saves>>
      /\ stored' = IF fails THEN stored ELSE [stored EXCEPT ![k] = v]
  BY <1>2 DEF WriteRow
<1>4. /\ stored' \in [Keys -> RowValues]
      /\ ~fails => \A j \in Keys : stored'[j] = IF j = k THEN v ELSE stored[j]
  BY <1>2, <1>3
<1>5. todo \in SUBSET Keys /\ left \in SUBSET Keys /\ clean \in BOOLEAN
      /\ (clean => w.clean /\ ~fails)
  BY <1>2 DEF Works
<1>6. \A j \in Keys : /\ j \in todo <=> (j # k /\ j \in w.todo)
                      /\ j \in left <=> (j \in w.left /\ (v = Unset \/ j # k))
  OBVIOUS
<1> HIDE DEF todo, left, clean
<1>7. /\ x \in Works /\ x.at = "drop" /\ x.todo = todo /\ x.rows = w.rows /\ x.left = left
      /\ x.clean = clean /\ x.entries = w.entries
  BY <1>2, <1>5 DEF Works
<1> HIDE DEF x
<1>8. SaverIs(w, stored, meant, tainted)
  BY <1>1 DEF SettingIInv
<1>9. ASSUME clean, ~tainted PROVE Progress(x, stored')
  <2>1. Progress(w, stored)
    BY <1>5, <1>8, <1>9 DEF SaverIs
  <2>2. \A j \in Keys : j \notin w.left =>
          (j \in w.todo => w.rows[j] = Unset) /\ (j \notin w.todo => stored[j] = w.rows[j])
    BY <2>1 DEF Progress
  <2> DEFINE now == stored'
  <2>3. \A j \in Keys : now[j] = IF j = k THEN v ELSE stored[j]
    BY <1>4, <1>5, <1>9
  <2> HIDE DEF now
  <2>4. ASSUME NEW j \in Keys, j \notin left, j # k
        PROVE  (j \in todo => w.rows[j] = Unset) /\ (j \notin todo => now[j] = w.rows[j])
    BY <1>6, <2>2, <2>3, <2>4
  <2>5. k \notin todo
    BY <1>6
  <2>6. ASSUME k \notin left PROVE now[k] = w.rows[k]
    <3>1. now[k] = v
      BY <2>3
    <3>2. CASE v = Unset /\ k \in w.todo
      <4>1. k \notin w.left
        BY <1>6, <2>6, <3>2
      <4> QED BY <2>2, <3>1, <3>2, <4>1
    <3> QED BY <3>1, <3>2
  <2>7. Progress(x, now)
    BY <1>7, <2>4, <2>5, <2>6 DEF Progress
  <2> QED BY <2>7 DEF now
<1>10. SaverIs(x, stored', meant, tainted)
  BY <1>5, <1>7, <1>8, <1>9 DEF SaverIs
<1> QED BY <1>1, <1>2, <1>3, <1>4, <1>7, <1>10, SaveFrame

\* Every step of a save.
LEMMA SaveSteps ==
    ASSUME SettingIInv, SaveStep
    PROVE  SettingIInv'
<1> DEFINE w == thread[Saver]
<1>1. thread \in [Threads -> {Resting} \cup Works] /\ Saver \in Threads
      /\ stored \in [Keys -> RowValues] /\ cache \in [Keys -> RowValues \cup {Absent}]
  BY DEF SettingIInv, SettingTypes, Threads
<1>2. ASSUME NEW fails \in BOOLEAN, SavePlan(fails) \/ DeleteRow(fails) \/ SetRow(fails)
      PROVE  SettingIInv'
  <2>1. CASE SavePlan(fails)
    BY <2>1, SavePlans
  <2>2. CASE DeleteRow(fails)
    <3>1. PICK k \in w.todo : WriteRow(k, Unset, fails)
      BY <2>2 DEF DeleteRow
    <3>2. w.at = "write" /\ w # Resting
      BY <2>2 DEF DeleteRow, Resting
    <3>3. k \in Keys /\ Unset \in RowValues
      BY <1>1, <3>2 DEF Works, RowValues
    <3> QED BY <3>1, <3>2, <3>3, WritesRow
  <2>3. CASE SetRow(fails)
    <3>1. PICK k \in Keys : WriteRow(k, w.rows[k], fails)
      BY <2>3 DEF SetRow
    <3>2. w.at = "write" /\ w # Resting /\ w.todo = {}
      BY <2>3 DEF SetRow, Resting
    <3>3. w.rows[k] \in RowValues
      BY <1>1, <3>2 DEF Works
    <3> QED BY <3>1, <3>2, <3>3, WritesRow
  <2> QED BY <1>2, <2>1, <2>2, <2>3
<1>3. CASE CacheDrop
  <2> DEFINE x == [w EXCEPT !.at = "write", !.key = Unset]
  <2>1. w.at = "drop" /\ w # Resting
    BY <1>3 DEF CacheDrop, Resting
  <2>2. w \in Works /\ SaverIs(w, stored, meant, tainted)
    BY <1>1, <2>1 DEF SettingIInv
  <2>3. thread' = [thread EXCEPT ![Saver] = x] /\ UNCHANGED <<stored, meant, tainted, saves>>
        /\ cache' = [cache EXCEPT ![w.key] = Absent]
    BY <1>1, <1>3 DEF CacheDrop
  <2>4. cache' \in [Keys -> RowValues \cup {Absent}]
    BY <1>1, <2>3
  <2>5. /\ x \in Works /\ x.at = "write" /\ x.todo = w.todo /\ x.rows = w.rows
        /\ x.left = w.left /\ x.clean = w.clean /\ x.entries = w.entries
    BY <2>2 DEF Works
  <2> HIDE DEF x
  <2>6. SaverIs(x, stored, meant, tainted)
    BY <2>1, <2>2, <2>5 DEF SaverIs, Progress
  <2> QED BY <1>1, <2>1, <2>3, <2>4, <2>5, <2>6, SaveFrame
<1>4. CASE SaveEnd
  <2>1. w.at = "write" /\ w.todo = {} /\ w.left = {} /\ w # Resting
    BY <1>4 DEF SaveEnd, Resting
  <2>2. w \in Works /\ SaverIs(w, stored, meant, tainted)
    BY <1>1, <2>1 DEF SettingIInv
  <2>3. thread' = [thread EXCEPT ![Saver] = Resting] /\ UNCHANGED <<stored, cache, saves>>
        /\ meant' = Asked(w.entries, meant) /\ tainted' = (tainted \/ ~w.clean)
    BY <1>4 DEF SaveEnd
  <2>4. Asked(w.entries, meant) \in [Urls -> Nat \cup {Unset}]
    <3>1. meant \in [Urls -> Nat \cup {Unset}] /\ w.entries \in Lists
      BY <2>2 DEF SettingIInv, SettingTypes, SaverIs
    <3> DEFINE es == w.entries
    <3>2. ASSUME NEW u \in Urls PROVE Asked(es, meant)[u] \in Nat \cup {Unset}
      <4> DEFINE given == {s \in DOMAIN es : es[s].url = u}
                 t == es[CHOOSE s \in given : TRUE].token
      <4>1. Asked(es, meant)[u] =
              IF given = {} THEN Unset ELSE IF t = Blank THEN meant[u] ELSE t
        BY DEF Asked
      <4>2. given # {} => t \in {Blank} \cup Nat
        BY <3>1, ListsAre
      <4> QED BY <3>1, <4>1, <4>2
    <3>3. Asked(es, meant) = [u \in Urls |-> Asked(es, meant)[u]]
      BY DEF Asked
    <3> QED BY <3>2, <3>3
  <2>5. thread' \in [Threads -> {Resting} \cup Works]
    BY <1>1, <2>3
  <2>6. SettingTypes'
    BY <2>3, <2>4, <2>5, <2>2 DEF SettingIInv, SettingTypes, Works
  <2>7. thread'[Saver] = Resting /\ \A t \in Threads \ {Saver} : thread'[t] = thread[t]
    BY <1>1, <2>3
  <2>8. \A t \in Threads : thread'[t] # Resting => ReadIs(thread'[t], stored')
    BY <2>3, <2>7 DEF SettingIInv
  <2>9. \A r \in Resolvers : thread'[r] # Resting =>
        /\ thread'[r].at \in {"list", "read", "put"}
        /\ thread'[r].clean => thread'[Saver] = Resting
    BY <2>7, SettingIds DEF SettingIInv, Threads
  <2>10. ASSUME w.clean, ~tainted PROVE Fits(stored, Asked(w.entries, meant))
    <3>1. w.rows \in [Keys -> RowValues]
      BY <2>2 DEF Works
    <3>2. \A k \in Keys : stored[k] = w.rows[k]
      BY <2>1, <2>2, <2>10 DEF SaverIs, Progress
    <3>3. stored = w.rows
      BY <1>1, <3>1, <3>2
    <3> QED BY <2>1, <2>2, <2>10, <3>3 DEF SaverIs
  <2>11. ~tainted' => Fits(stored', meant')
    BY <2>3, <2>10
  <2> QED BY <2>6, <2>7, <2>8, <2>9, <2>11 DEF SettingIInv
<1> QED BY <1>2, <1>3, <1>4 DEF SaveStep

\* Every step keeps it all.
LEMMA SettingSteps == SettingIInv /\ [SettingNext]_settingVars => SettingIInv'
<1> SUFFICES ASSUME SettingIInv, [SettingNext]_settingVars PROVE SettingIInv'
  OBVIOUS
<1>1. CASE UNCHANGED settingVars
  BY <1>1 DEF settingVars, SettingIInv, SettingTypes
<1> QED BY <1>1, ReadsStep, SaveSteps, ResolveStep, SaveStarts DEF SettingNext

\* Rows, cache and threads fit together: what was read without a stale entry, an
\* error or a save is what is stored, and what a save has yet to write completes
\* the rows it was asked for.
THEOREM SettingInvariance == SettingSpec => []SettingIInv
<1> QED BY SettingStarts, SettingSteps, PTL DEF SettingSpec

\* A lookup that ends with no save under way and no stale entry read.
LEMMA LookupIs ==
    ASSUME SettingIInv, [SettingNext]_settingVars, NEW r \in Resolvers, NEW u \in Urls \ {Public},
           thread[r] # Resting, thread'[r] = Resting, thread[r].clean, ~tainted
    PROVE  Resolved(thread[r].got, u) = meant[u]
<1>1. thread \in [Threads -> {Resting} \cup Works] /\ r \in Threads /\ r # Saver
  BY SettingIds DEF SettingIInv, SettingTypes, Threads
<1>2. ReadAll(r)
  <2>1. ASSUME NEW s \in Resolvers, ResolveStart(s) \/ ResolveEnd(s) PROVE ReadAll(r)
    BY <1>1, <2>1 DEF ResolveStart, ResolveEnd
  <2>2. ASSUME NEW es, SaveStart(es) PROVE FALSE
    BY <1>1, <2>2 DEF SaveStart, Works, Resting
  <2>3. CASE SaveStep
    BY <1>1, <2>3 DEF SaveStep, SavePlan, DeleteRow, SetRow, WriteRow, CacheDrop, SaveEnd
  <2>4. ASSUME NEW t \in Threads, Reads(t) PROVE FALSE
    <3>1. r = t
      BY <1>1, <2>4 DEF Reads, List, GetHit, GetMiss, GetFails, CachePut
    <3>2. thread'[t].at = "idle"
      BY <3>1 DEF Resting
    <3> DEFINE w == thread[t]
    <3>3. CASE thread[t].at \in {"list", "read", "put"}
      <4>1. w \in Works
        BY <1>1, <3>3 DEF Resting
      <4>2. ASSUME NEW fails \in BOOLEAN, List(t, fails) PROVE FALSE
        <5> DEFINE todo == IF fails THEN {} ELSE ReadKeys
                   clean == w.clean /\ ~fails
                   x == [w EXCEPT !.at = "read", !.todo = todo, !.clean = clean]
        <5>1. thread' = [thread EXCEPT ![t] = x]
          BY <1>1, <4>2 DEF List
        <5>2. x.at = "read"
          BY <4>1 DEF Works
        <5> HIDE DEF x
        <5>3. thread'[t] = x
          BY <1>1, <5>1
        <5> QED BY <3>2, <5>2, <5>3
      <4>3. ASSUME NEW k, GetMiss(t, k) PROVE FALSE
        <5> DEFINE x == [w EXCEPT !.at = "put", !.val = stored[k], !.key = k]
        <5>1. thread' = [thread EXCEPT ![t] = x]
          BY <1>1, <4>3 DEF GetMiss
        <5>2. x.at = "put"
          BY <4>1 DEF Works
        <5> HIDE DEF x
        <5>3. thread'[t] = x
          BY <1>1, <5>1
        <5> QED BY <3>2, <5>2, <5>3
      <4>4. \A k, v : Taken(w, k, v).at = "read" /\ \A b : [Taken(w, k, v) EXCEPT !.clean = b].at = "read"
        BY <4>1 DEF Taken, Works
      <4>5. ASSUME NEW k, GetHit(t, k) \/ GetFails(t, k) \/ CachePut(t) PROVE FALSE
        <5>1. CASE GetHit(t, k)
          <6>1. thread'[t].at = "read"
            BY <1>1, <4>4, <5>1 DEF GetHit
          <6> QED BY <3>2, <6>1
        <5>2. CASE GetFails(t, k)
          <6>1. thread'[t].at = "read"
            BY <1>1, <4>4, <5>2 DEF GetFails
          <6> QED BY <3>2, <6>1
        <5>3. CASE CachePut(t)
          <6>1. thread'[t].at = "read"
            BY <1>1, <4>4, <5>3 DEF CachePut
          <6> QED BY <3>2, <6>1
        <5> QED BY <4>5, <5>1, <5>2, <5>3
      <4> QED BY <2>4, <4>2, <4>3, <4>5 DEF Reads
    <3> QED BY <2>4, <3>3 DEF Reads, List, GetHit, GetMiss, GetFails, CachePut, Reading
  <2>5. CASE UNCHANGED settingVars
    BY <2>5 DEF settingVars
  <2> QED BY <2>1, <2>2, <2>3, <2>4, <2>5 DEF SettingNext
<1>3. thread[r].got = stored
  BY <1>1, <1>2, ReadAllIs
<1>4. Fits(stored, meant)
  BY DEF SettingIInv
<1> QED BY <1>3, <1>4 DEF Fits

\* A lookup by resolve_git_token beside no save finds the token that the account
\* of its URL was last given, whatever saves reordered, kept blank or removed.
THEOREM TokensOfTheirHosts == SettingSpec => TokenOfItsHost
<1>1. SettingIInv /\ [SettingNext]_settingVars =>
        [\A r \in Resolvers, u \in Urls \ {Public} :
           thread[r] # Resting /\ thread'[r] = Resting /\ thread[r].clean /\ ~tainted
           => Resolved(thread[r].got, u) = meant[u]]_settingVars
  BY LookupIs
<1> QED BY <1>1, SettingInvariance, PTL DEF SettingSpec, TokenOfItsHost

-----------------------------------------------------------------------------
(* Decisions, for every input                                              *)

(* ListedIffOpened for any role, those the code does not know included: a  *)
(* product is in the listing of exactly those who may open it              *)
(* (_visible_product_ids, resolve_product_access).                         *)
THEOREM OpenedIsListed ==
  ASSUME NEW role, NEW owner \in BOOLEAN, NEW grant \in Grants
  PROVE  Listed(role, owner, grant) <=> Access(TRUE, role, owner, grant, "ro") = 200
BY DEF Listed, Access, Level, Grants

(* What a request may make of an account: no token but another one is      *)
(* issued.                                                                 *)
Accounts == [password : Nat, mustChange : BOOLEAN, reset : [hash : Nat, expires : Nat]]
Later(user, token) ==
  {Reset(user, t, n, p).user : t \in Nat, n \in Nat, p \in Nat}
  \cup {Change(user, old, p).user : old \in Nat, p \in Nat}
  \cup {Issue(user, p, t, e) : p \in Nat, t \in Nat \ {0, token}, e \in Nat}

(* ResetOnce for any times and passwords and as many requests as there may *)
(* be: a reset token is spent by the reset it allows, by a password change *)
(* and by another token, and one that is spent stays so (auth/router.py).  *)
THEOREM TokensAreSpent ==
  ASSUME NEW token \in Nat \ {0}, NEW user \in Accounts
  PROVE  LET Spent(u) == u.reset.hash # token IN
         /\ \A n, p \in Nat :
              /\ Reset(user, token, n, p).answer = 200 => Spent(Reset(user, token, n, p).user)
              /\ Change(user, n, p).answer = 200 => Spent(Change(user, n, p).user)
         /\ \A p, e \in Nat, t \in Nat \ {token} : Spent(Issue(user, p, t, e))
         /\ Spent(user) => /\ \A u \in Later(user, token) : u \in Accounts /\ Spent(u)
                           /\ \A n, p \in Nat : Reset(user, token, n, p).answer = 401
<1>1. \A n, p \in Nat : Reset(user, token, n, p).answer = 200
                          => Reset(user, token, n, p).user.reset.hash = 0
  BY DEF Reset, NoReset
<1>2. \A n, p \in Nat : Change(user, n, p).answer = 200
                          => Change(user, n, p).user.reset.hash = 0
  BY DEF Change, NoReset
<1>3. \A p, e \in Nat, t \in Nat : Issue(user, p, t, e).reset.hash = t
  BY DEF Issue
<1>4. \A n, p \in Nat : user.reset.hash # token => Reset(user, token, n, p).answer = 401
  BY DEF Reset
<1>5. ASSUME user.reset.hash # token, NEW u \in Later(user, token)
      PROVE  u \in Accounts /\ u.reset.hash # token
  <2>1. CASE \E t, n, p \in Nat : u = Reset(user, t, n, p).user
    BY <1>5, <2>1 DEF Reset, NoReset, Accounts
  <2>2. CASE \E old, p \in Nat : u = Change(user, old, p).user
    BY <1>5, <2>2 DEF Change, NoReset, Accounts
  <2>3. CASE \E p, e \in Nat, t \in Nat \ {0, token} : u = Issue(user, p, t, e)
    BY <2>3 DEF Issue, Accounts
  <2> QED BY <1>5, <2>1, <2>2, <2>3 DEF Later
<1> QED BY <1>1, <1>2, <1>3, <1>4, <1>5

(* EditUnverifies for any pages and texts: the page that a user has written *)
(* is verified only if its text is what it was, the other pages are as they *)
(* were, and a tree sent whole has no verified page                         *)
(* (update_database_content, update_codebase_content).                      *)
THEOREM EditsUnverify ==
  ASSUME NEW Texts, NEW P, NEW pages \in [P -> [text : Texts, verified : BOOLEAN]],
         NEW docs, NEW p, NEW text \in Texts,
         NEW S, NEW sent \in [S -> [text : Texts, verified : BOOLEAN]]
  PROVE  LET held == [pages |-> pages, docs |-> docs]
             after == Edited(held, [page_id |-> p, content |-> text]).pages
             whole == Edited(held, [pages |-> sent]).pages
         IN /\ DOMAIN after = P \cup {p} /\ after[p].text = text
            /\ \A q \in P \ {p} : after[q] = pages[q]
            /\ \A q \in P \cup {p} : after[q].verified => q \in P /\ after[q] = pages[q]
            /\ DOMAIN whole = S
            /\ \A q \in S : whole[q] = [text |-> sent[q].text, verified |-> FALSE]
<1> DEFINE held == [pages |-> pages, docs |-> docs]
           edit == [page_id |-> p, content |-> text]
           tree == [pages |-> sent]
<1>1. DOMAIN edit = {"page_id", "content"} /\ DOMAIN tree = {"pages"}
  OBVIOUS
<1>2. Edited(held, edit) = [held EXCEPT !.pages = EditedPage(pages, p, text)]
  BY <1>1 DEF Edited
<1>3. Edited(held, tree) = [held EXCEPT !.pages = ReplacedPages(sent)]
  BY <1>1 DEF Edited
<1>4. Edited(held, edit).pages = EditedPage(pages, p, text)
  BY <1>2
<1>5. Edited(held, tree).pages = ReplacedPages(sent)
  BY <1>3
<1> DEFINE after == EditedPage(pages, p, text)
<1>6. DOMAIN after = P \cup {p} /\ after[p].text = text /\ \A q \in P \ {p} : after[q] = pages[q]
  BY DEF EditedPage
<1>7. \A q \in P \cup {p} : after[q].verified => q \in P /\ after[q] = pages[q]
  BY DEF EditedPage
<1>8. /\ DOMAIN ReplacedPages(sent) = S
      /\ \A q \in S : ReplacedPages(sent)[q] = [text |-> sent[q].text, verified |-> FALSE]
  BY DEF ReplacedPages
<1> QED BY <1>4, <1>5, <1>6, <1>7, <1>8

(* Of a mapping of any length the first group that the user is in and whose *)
(* role exists decides, whatever follows it; and nobody is mapped to a role *)
(* that is none (_map_keycloak_role).                                       *)
THEOREM FirstGroupDecides ==
  ASSUME NEW mapping \in Seq([group : STRING, role : STRING]), NEW groups,
         NEW i \in 1..Len(mapping),
         mapping[i].group \in groups, mapping[i].role \in Roles \ {"legacy"},
         \A j \in 1..(i - 1) : mapping[j].group \notin groups \/ mapping[j].role \notin Roles \ {"legacy"}
  PROVE  MappedRole(mapping, groups) = mapping[i].role
<1> DEFINE hits == {k \in DOMAIN mapping :
                      mapping[k].group \in groups /\ mapping[k].role \in Roles \ {"legacy"}}
           h == CHOOSE k \in hits : \A j \in hits : k <= j
<1>1. i \in hits /\ \A j \in hits : i <= j
  OBVIOUS
<1>2. h \in hits /\ \A j \in hits : h <= j
  BY <1>1
<1>3. h = i
  <2>1. h <= i /\ i <= h /\ h \in Int
    BY <1>1, <1>2
  <2> QED BY <2>1
<1>4. MappedRole(mapping, groups) = IF hits = {} THEN "none" ELSE mapping[h].role
  BY DEF MappedRole
<1> QED BY <1>1, <1>3, <1>4

(* The exports of a save, task by task (sync_runtime_settings).            *)
LEMMA SyncUnfolds ==
  ASSUME NEW settings, NEW env
  PROVE  SyncedUrl(settings, env) =
           TaskUrl(settings, TaskUrl(settings, TaskUrl(settings, env, "docgen"), "expert"), "summary")
<1>1. Len(ModelTasks) = 3 /\ ModelTasks[1] = "docgen" /\ ModelTasks[2] = "expert" /\ ModelTasks[3] = "summary"
  BY DEF ModelTasks
<1> DEFINE a == TaskUrl(settings, env, "docgen")
           b == TaskUrl(settings, a, "expert")
           c == TaskUrl(settings, b, "summary")
           g == [i \in 0 .. 3 |-> CASE i = 0 -> env [] i = 1 -> a [] i = 2 -> b [] OTHER -> c]
           Is(f) == f = [i \in 0 .. Len(ModelTasks) |->
                          IF i = 0 THEN env ELSE TaskUrl(settings, f[i - 1], ModelTasks[i])]
<1>2. Is(g)
  <2> HIDE DEF a, b, c
  <2>1. g[0] = env /\ g[1] = a /\ g[2] = b /\ g[3] = c
    OBVIOUS
  <2>2. /\ a = TaskUrl(settings, env, "docgen") /\ b = TaskUrl(settings, a, "expert")
        /\ c = TaskUrl(settings, b, "summary")
    BY DEF a, b, c
  <2> HIDE DEF g
  <2>3. \A i \in 0 .. 3 : g[i] = IF i = 0 THEN env ELSE TaskUrl(settings, g[i - 1], ModelTasks[i])
    <3> SUFFICES ASSUME NEW i \in 0 .. 3
                 PROVE  g[i] = IF i = 0 THEN env ELSE TaskUrl(settings, g[i - 1], ModelTasks[i])
      OBVIOUS
    <3>1. i = 0 \/ i = 1 \/ i = 2 \/ i = 3
      OBVIOUS
    <3>2. CASE i = 0
      BY <2>1, <3>2
    <3>3. CASE i = 1
      BY <1>1, <2>1, <2>2, <3>3
    <3>4. CASE i = 2
      BY <1>1, <2>1, <2>2, <3>4
    <3>5. CASE i = 3
      BY <1>1, <2>1, <2>2, <3>5
    <3> QED BY <3>1, <3>2, <3>3, <3>4, <3>5
  <2>4. g = [i \in 0 .. 3 |-> g[i]]
    BY DEF g
  <2> QED BY <1>1, <2>3, <2>4
<1>3. ASSUME NEW f, Is(f) PROVE f[3] = c
  <2>1. \A i \in 0 .. 3 : f[i] = IF i = 0 THEN env ELSE TaskUrl(settings, f[i - 1], ModelTasks[i])
    BY <1>1, <1>3
  <2> HIDE DEF Is
  <2>2. f[0] = env
    BY <2>1
  <2>3. f[1] = a
    BY <1>1, <2>1, <2>2
  <2>4. f[2] = b
    BY <1>1, <2>1, <2>3
  <2> QED BY <1>1, <2>1, <2>4
<1>4. SyncedUrl(settings, env) = (CHOOSE f : Is(f))[3]
  BY <1>1 DEF SyncedUrl
<1>5. Is(CHOOSE f : Is(f))
  <2> HIDE DEF g, Is
  <2> QED BY <1>2
<1> HIDE DEF Is, c
<1>6. SyncedUrl(settings, env) = c
  BY <1>3, <1>4, <1>5
<1> QED BY <1>6 DEF c

(* ConfiguredTasksKept for any URLs: a save leaves in the environment what *)
(* the last configured task uses, which is then what the tasks without a   *)
(* setting use; it changes no configured task; and to export once more     *)
(* changes nothing (sync_runtime_settings, get_model_for_task).            *)
THEOREM SyncsSettle ==
  ASSUME NEW BaseUrls, "unset" \notin BaseUrls,
         NEW settings \in [{"docgen", "expert", "summary"} -> BaseUrls \cup {"unset"}],
         NEW env \in BaseUrls \cup {"unset"}
  PROVE  LET synced == SyncedUrl(settings, env)
             last == IF settings["summary"] # "unset" THEN settings["summary"]
                     ELSE IF settings["expert"] # "unset" THEN settings["expert"]
                     ELSE IF settings["docgen"] # "unset" THEN settings["docgen"]
                     ELSE IF env # "unset" THEN env ELSE "default"
         IN /\ synced = last /\ SyncedUrl(settings, synced) = synced
            /\ \A t \in DOMAIN settings :
                 TaskUrl(settings, synced, t) = IF settings[t] # "unset" THEN settings[t] ELSE last
<1>1. ASSUME NEW e \in BaseUrls \cup {"unset", "default"}
      PROVE  SyncedUrl(settings, e) =
               IF settings["summary"] # "unset" THEN settings["summary"]
               ELSE IF settings["expert"] # "unset" THEN settings["expert"]
               ELSE IF settings["docgen"] # "unset" THEN settings["docgen"]
               ELSE IF e # "unset" THEN e ELSE "default"
  BY <1>1, SyncUnfolds DEF TaskUrl
<1> DEFINE synced == SyncedUrl(settings, env)
<1>2. synced \in BaseUrls \cup {"default"} /\ synced # "unset"
  BY <1>1
<1> HIDE DEF synced
<1>3. SyncedUrl(settings, synced) = synced
  BY <1>1, <1>2 DEF synced
<1>4. \A t \in DOMAIN settings :
        TaskUrl(settings, synced, t) = IF settings[t] # "unset" THEN settings[t] ELSE synced
  BY <1>2 DEF TaskUrl
<1> QED BY <1>1, <1>3, <1>4 DEF synced
=============================================================================
