---------------------------- MODULE ProductStore ----------------------------
(***************************************************************************)
(* A product and the artifacts that belong to it                           *)
(* (repositories/product_repo.py, routers/products.py, databases.py).      *)
(* Request handlers are coroutines that hardly ever await, so they follow  *)
(* one another on the event loop; the threads that write documentation     *)
(* commit between any two of their steps.  A PUT, or a POST, of the whole  *)
(* product deletes every artifact and writes those of its body: it must    *)
(* bring back what the body leaves out, and it takes the body's word for   *)
(* the type of a database and the server it is pinned to.                  *)
(***************************************************************************)
EXTENDS Integers, FiniteSets, Functions

CONSTANTS Codebases, Databases,  \* artifact ids; a PUT locks the codebases only
          Pages, Servers,
          Asks,                  \* requests to add a preset database
          None,
          Stripped,              \* a page without the key "content"
          Unborn, Gone,
          MaxWrites,             \* bound on writes of documents and tokens
          MaxRequests,           \* bound on requests
  MaxClaims              \* bound on bodies with what their client has not read

Entities == Codebases \cup Databases

VARIABLES
  row,       \* the row of each artifact, or None
  server,    \* the preset server of a database: [of |-> its id], Unborn or Gone
  lock,      \* lock_for_entity: None, "job" or "put"
  payload,   \* the product as a client last read it: artifacts to rows
  put,       \* the PUT, or the POST, of a whole product on the event loop
  ask,       \* requests to add a preset: None, the database, or Gone once answered
  writes, requests, claims,
  shared,    \* preset servers that a second database has been pinned to
  orphaned   \* preset servers whose database another request replaced or retyped

storeVars == <<row, server, lock, payload, put, ask, writes, requests, claims, shared, orphaned>>

Present == {e \in Entities : row[e] # None}
Live == {s \in Servers : server[s] \notin {Unborn, Gone}}
NoPages == [p \in {} |-> None]
NoRows == [e \in {} |-> None]
NoPut == [at |-> "idle"]
LoopFree == put.at = "idle"

(* claimed: a client's body made up the type and the pin of the row. *)
Row(pages, ver, verified, token, preset, pin) ==
  [pages |-> pages, ver |-> ver, verified |-> verified, token |-> token,
   preset |-> preset, pin |-> pin, claimed |-> FALSE]
NewRow(token, pin) == Row(NoPages, 0, FALSE, token, FALSE, pin)

(* A page: its body and its own verified flag, which ride in one JSON. *)
Page == [text : 0..MaxWrites \cup {Stripped}, flag : BOOLEAN]
Written(n) == [text |-> n, flag |-> FALSE]

PageMaps == UNION {[some -> Page] : some \in SUBSET Pages}
RowRecord == [pages : PageMaps, ver : 0..MaxWrites, verified : BOOLEAN,
              token : 0..MaxRequests, preset : BOOLEAN, pin : Servers \cup {None},
              claimed : BOOLEAN]
IsPart(rows) == DOMAIN rows \subseteq Entities /\ rows \in [DOMAIN rows -> RowRecord]
IsPut ==
  /\ put \in [at : {"lock", "save", "write"}, post : BOOLEAN, renewed : SUBSET Codebases,
              since : SUBSET Entities, saved : {<<>>} \cup [Entities -> RowRecord \cup {None}],
              rows : {put.rows}]
  /\ IsPart(put.rows)

ASSUME StoreIds ==
  /\ Codebases \cap Databases = {}
  /\ MaxWrites \in Nat /\ MaxRequests \in Nat /\ MaxClaims \in Nat /\ Stripped \notin Int
  /\ None \notin Servers \cup RowRecord \cup {"job", "put"}
  /\ Unborn # Gone /\ {Unborn, Gone} \cap [of : Databases] = {}

StoreTypeOK ==
  /\ row \in [Entities -> RowRecord \cup {None}]
  /\ server \in [Servers -> [of : Databases] \cup {Unborn, Gone}]
  /\ lock \in [Entities -> {None, "job", "put"}]
  /\ IsPart(payload)
  /\ put = NoPut \/ IsPut
  /\ ask \in [Asks -> Databases \cup {None, Gone}]
  /\ writes \in 0..MaxWrites /\ requests \in 0..MaxRequests /\ claims \in 0..MaxClaims
  /\ shared \subseteq Servers /\ orphaned \subseteq Servers

Request == LoopFree /\ requests < MaxRequests /\ requests' = requests + 1
Write == writes < MaxWrites /\ writes' = writes + 1
Locked(e) == lock[e] # None
Pinned(s) == {d \in Databases : row[d] # None /\ row[d].pin = s}

(* The server s serves the preset database that it was made for. *)
Serves(s, rows) ==
  LET d == server[s].of IN rows[d] # None /\ rows[d].preset /\ rows[d].pin = s

(* The rows once the server s is deleted: ON DELETE SET NULL. *)
Unpinned(rows, s) ==
  [e \in Entities |-> IF rows[e] # None /\ rows[e].pin = s
                      THEN [rows[e] EXCEPT !.pin = None] ELSE rows[e]]

StoreInit ==
  /\ row \in [Entities -> {None, NewRow(0, None)}]
  /\ server = [s \in Servers |-> Unborn]
  /\ lock = [e \in Entities |-> None]
  /\ payload = NoRows
  /\ put = NoPut
  /\ ask = [a \in Asks |-> None]
  /\ writes = 0 /\ requests = 0 /\ claims = 0
  /\ shared = {} /\ orphaned = {}

(***************************************************************************)
(* Documentation jobs, in threads of their own.                            *)
(***************************************************************************)
JobStart(e) ==
  /\ row[e] # None /\ ~Locked(e) /\ writes < MaxWrites
  /\ lock' = [lock EXCEPT ![e] = "job"]
  /\ UNCHANGED <<row, server, payload, put, ask, writes, requests, claims, shared, orphaned>>

(* The pages and the version that current_version points to, in one commit; *)
(* a job whose row is gone fails.                                           *)
JobCommit(e) ==
  /\ lock[e] = "job"
  /\ lock' = [lock EXCEPT ![e] = None]
  /\ IF row[e] = None THEN UNCHANGED <<row, put, writes>>
     ELSE /\ Write
          /\ \E some \in (SUBSET Pages) \ {{}} :
               row' = [row EXCEPT ![e].pages = [p \in some |-> Written(writes')], ![e].ver = writes']
          /\ put' = IF LoopFree THEN put ELSE [put EXCEPT !.since = @ \cup {e}]
  /\ UNCHANGED <<server, payload, ask, requests, claims, shared, orphaned>>

JobFails(e) ==
  /\ lock[e] = "job"
  /\ lock' = [lock EXCEPT ![e] = None]
  /\ UNCHANGED <<row, server, payload, put, ask, writes, requests, claims, shared, orphaned>>

(***************************************************************************)
(* GET, whole or light, and the PUT, or the POST, of a whole product.      *)
(***************************************************************************)
(* A light page keeps its flag. *)
Light(pages) == [p \in DOMAIN pages |-> [pages[p] EXCEPT !.text = Stripped]]

Read(light) ==
  /\ LoopFree /\ requests < MaxRequests
  /\ payload' = [e \in Present |->
       IF light THEN [row[e] EXCEPT !.pages = Light(@)] ELSE row[e]]
  /\ UNCHANGED <<row, server, lock, put, ask, writes, requests, claims, shared, orphaned>>

(* What the client sends for e: the row as it read it or a new one; for one *)
(* database it may name any type and any server there is.                   *)
Body(e, claim) ==
  LET known == IF e \in DOMAIN payload THEN payload[e] ELSE NewRow(0, None) IN
  IF claim = None \/ claim.of # e THEN known
  ELSE [known EXCEPT !.preset = claim.preset, !.pin = claim.pin, !.claimed = TRUE]

(* A page without a body gets the one that is stored and keeps the flag it  *)
(* was sent with; keys that it lacks come from the stored page.             *)
SentAsIs(sent, stored) == sent
Merged(sent, stored) ==
  [p \in DOMAIN sent |->
    IF sent[p].text = Stripped /\ p \in DOMAIN stored /\ stored[p].text # Stripped
    THEN [stored[p] EXCEPT !.flag = @ \/ sent[p].flag]
    ELSE sent[p]]

(* A PUT fills its pages (merge_stored_page_bodies), before any lock is     *)
(* taken; a POST does not.  The client may leave artifacts out, add some    *)
(* and give a codebase a new token.                                         *)
PutMerge(post, kept, renewed) ==
  /\ Request
  /\ renewed \subseteq kept \cap Codebases
  /\ \E claim \in {None} \cup [of : kept \cap Databases, preset : BOOLEAN, pin : Live \cup {None}] :
       /\ put' = [at |-> "lock", post |-> post, renewed |-> renewed, since |-> {}, saved |-> <<>>,
                  rows |-> [e \in kept |->
                    IF post \/ row[e] = None THEN Body(e, claim)
                    ELSE [Body(e, claim) EXCEPT !.pages = Merged(@, row[e].pages)]]]
       /\ IF claim = None /\ kept \subseteq DOMAIN payload THEN UNCHANGED claims
          ELSE claims < MaxClaims /\ claims' = claims + 1
  /\ UNCHANGED <<row, server, lock, payload, ask, writes, shared, orphaned>>

PutLocks == Codebases \cap (Present \cup DOMAIN put.rows)
LockedOut == \E c \in PutLocks : Locked(c)
NeverLockedOut == FALSE
Busy == LockedOut

(* All locks in sorted order or 409. *)
PutLock ==
  /\ put.at = "lock"
  /\ IF Busy THEN put' = NoPut /\ UNCHANGED lock
     ELSE /\ put' = [put EXCEPT !.at = "save"]
          /\ lock' = [e \in Entities |-> IF e \in PutLocks /\ ~Locked(e) THEN "put" ELSE lock[e]]
  /\ UNCHANGED <<row, server, payload, ask, writes, requests, claims, shared, orphaned>>

(* What the server owns, read before the rows are deleted. *)
PutSnapshot ==
  /\ put.at = "save"
  /\ put' = [put EXCEPT !.at = "write", !.saved = row]
  /\ UNCHANGED <<row, server, lock, payload, ask, writes, requests, claims, shared, orphaned>>

Owned(new, prev) ==
  IF prev = None THEN [new EXCEPT !.ver = 0, !.verified = FALSE]
  ELSE [new EXCEPT !.ver = prev.ver, !.verified = prev.verified]
FromPayload(new, prev) == new
Restored(new, prev) == Owned(new, prev)

TokenOf(e, prev) ==
  IF e \in put.renewed THEN requests ELSE IF prev = None THEN 0 ELSE prev.token

(* Delete all, write those of the body; a pin on a server that is gone     *)
(* breaks a foreign key and the transaction rolls back.  A release only    *)
(* frees what this PUT has locked.                                         *)
PutWrite ==
  LET new(e) == [Restored(put.rows[e], put.saved[e]) EXCEPT
                   !.token = TokenOf(e, put.saved[e])]
      written == [e \in Entities |-> IF e \in DOMAIN put.rows THEN new(e) ELSE None]
      sound == \A e \in DOMAIN put.rows : put.rows[e].pin \in Live \cup {None}
      lost == {s \in Live : Serves(s, row) /\ ~Serves(s, written)}
      twice == {s \in Live : \E c, d \in Databases \cap DOMAIN put.rows :
                  c # d /\ put.rows[c].pin = s /\ put.rows[d].pin = s}
  IN
  /\ put.at = "write"
  /\ row' = IF sound THEN written ELSE row
  /\ orphaned' = IF sound THEN orphaned \cup lost ELSE orphaned
  /\ shared' = IF sound THEN shared \cup twice ELSE shared
  /\ put' = NoPut
  /\ lock' = [e \in Entities |-> IF lock[e] = "put" THEN None ELSE lock[e]]
  /\ UNCHANGED <<server, payload, ask, writes, requests, claims>>

(***************************************************************************)
(* Single artifacts.                                                       *)
(***************************************************************************)
Orphans(d) == {s \in Live : server[s].of = d /\ Serves(s, row)}
Shares(d, pin) == IF pin \in Live /\ Pinned(pin) \ {d} # {} THEN {pin} ELSE {}

(* POST of an artifact, also over one with the same id, which keeps what   *)
(* the server owns; a database without db_type names its own server.       *)
AddChild(e, pin) ==
  /\ Request /\ ~Locked(e)
  /\ pin \in (IF e \in Databases THEN Live ELSE {}) \cup {None}
  /\ \E token \in IF e \in Codebases THEN {0, requests'} ELSE {0} :
       LET kept == IF row[e] = None THEN 0 ELSE row[e].token IN
       row' = [row EXCEPT ![e] =
         Owned(NewRow(IF token = 0 THEN kept ELSE token, pin), row[e])]
  /\ orphaned' = orphaned \cup Orphans(e)
  /\ shared' = shared \cup Shares(e, pin)
  /\ UNCHANGED <<server, lock, payload, put, ask, writes, claims>>

DeleteCodebase(c) ==
  /\ Request /\ row[c] # None /\ ~Locked(c)
  /\ row' = [row EXCEPT ![c] = None]
  /\ UNCHANGED <<server, lock, payload, put, ask, writes, claims, shared, orphaned>>

(* _drop_preset_server: the server that the row is pinned to, if it is one *)
(* of a preset; whose preset is not asked.                                 *)
DropServer(d) ==
  IF row[d] # None /\ row[d].pin \in Live THEN [server EXCEPT ![row[d].pin] = Gone] ELSE server
KeepServer(d) == server
Dropped(d) == DropServer(d)

RowsWithout(d) ==
  [(IF row[d] # None /\ row[d].pin \in Live THEN Unpinned(row, row[d].pin) ELSE row)
    EXCEPT ![d] = None]

DeleteDatabase(d) ==
  /\ Request /\ row[d] # None /\ ~Locked(d)
  /\ server' = DropServer(d)
  /\ row' = RowsWithout(d)
  /\ UNCHANGED <<lock, payload, put, ask, writes, claims, shared, orphaned>>

(* POST with db_type: the connection is checked first, without a lock. *)
AddPresetStart(a, d) ==
  /\ Request /\ ask[a] = None
  /\ ask' = [ask EXCEPT ![a] = d]
  /\ UNCHANGED <<row, server, lock, payload, put, writes, claims, shared, orphaned>>

(* Then one commit under the lock of the database: the old server goes and *)
(* a new one comes with the row.  Busy: 409 and nothing is written.        *)
AddPresetCommit(a, s) ==
  LET d == ask[a] IN
  /\ LoopFree /\ d \in Databases /\ server[s] = Unborn
  /\ ask' = [ask EXCEPT ![a] = Gone]
  /\ IF Locked(d) THEN UNCHANGED <<row, server>>
     ELSE /\ server' = [Dropped(d) EXCEPT ![s] = [of |-> d]]
          /\ row' = [RowsWithout(d) EXCEPT ![d] = Row(NoPages, 0, FALSE, 0, TRUE, s)]
  /\ UNCHANGED <<lock, payload, put, writes, requests, claims, shared, orphaned>>

CheckFails(a) ==
  /\ ask[a] \in Databases
  /\ ask' = [ask EXCEPT ![a] = Gone]
  /\ UNCHANGED <<row, server, lock, payload, put, writes, requests, claims, shared, orphaned>>

(* PUT of a database's settings; those of a preset are fixed. *)
PinMeta(d, pin) ==
  /\ Request /\ row[d] # None /\ ~row[d].preset
  /\ pin \in Live \cup {None}
  /\ row' = [row EXCEPT ![d].pin = pin]
  /\ shared' = shared \cup Shares(d, pin)
  /\ UNCHANGED <<server, lock, payload, put, ask, writes, claims, orphaned>>

(* A page saved from the editor, with its version; databases take no lock. *)
EditPage(e, p) ==
  /\ Request /\ Write /\ row[e] # None /\ (e \in Codebases => ~Locked(e))
  /\ row' = [row EXCEPT ![e].pages =
               [q \in DOMAIN @ \cup {p} |-> IF q = p THEN Written(writes') ELSE @[q]],
                        ![e].ver = writes']
  /\ UNCHANGED <<server, lock, payload, put, ask, claims, shared, orphaned>>

Verify(e) ==
  /\ Request /\ row[e] # None /\ ~row[e].verified
  /\ row' = [row EXCEPT ![e].verified = TRUE]
  /\ UNCHANGED <<server, lock, payload, put, ask, writes, claims, shared, orphaned>>

VerifyPage(e, p) ==
  /\ Request /\ row[e] # None /\ p \in DOMAIN row[e].pages /\ ~row[e].pages[p].flag
  /\ row' = [row EXCEPT ![e].pages[p].flag = TRUE]
  /\ UNCHANGED <<server, lock, payload, put, ask, writes, claims, shared, orphaned>>

(* No lock is taken; the servers of its presets stay.  A product with the *)
(* same id may be created again: the store is then as empty as here.      *)
DeleteProduct ==
  /\ Request /\ Present # {}
  /\ row' = [e \in Entities |-> None]
  /\ orphaned' = orphaned \cup UNION {Orphans(d) : d \in Databases}
  /\ UNCHANGED <<server, lock, payload, put, ask, writes, claims, shared>>

StoreNext ==
  \/ \E e \in Entities :
       \/ JobStart(e) \/ JobCommit(e) \/ JobFails(e) \/ Verify(e)
       \/ \E pin \in Servers \cup {None} : AddChild(e, pin)
       \/ \E p \in Pages : EditPage(e, p) \/ VerifyPage(e, p)
  \/ \E light \in BOOLEAN : Read(light)
  \/ \E post \in BOOLEAN, kept \in SUBSET Entities, renewed \in SUBSET Codebases :
       PutMerge(post, kept, renewed)
  \/ PutLock \/ PutSnapshot \/ PutWrite
  \/ \E c \in Codebases : DeleteCodebase(c)
  \/ \E d \in Databases :
       \/ DeleteDatabase(d)
       \/ \E pin \in Servers \cup {None} : PinMeta(d, pin)
       \/ \E a \in Asks : AddPresetStart(a, d)
  \/ \E a \in Asks : CheckFails(a) \/ \E s \in Servers : AddPresetCommit(a, s)
  \/ DeleteProduct

StoreSpec == StoreInit /\ [][StoreNext]_storeVars

(***************************************************************************)
(* Properties.                                                             *)
(***************************************************************************)
PutDone == put.at = "write" /\ put' = NoPut
Through == {e \in Entities : row[e] # None /\ row'[e] # None}

(* A PUT of a product that was read light, without its page bodies, leaves *)
(* every page it names with the body it had, and a verified body verified, *)
(* unless documentation was committed after the bodies had been merged in  *)
(* (merge_stored_page_bodies, _upsert_product_locked).                     *)
BodiesKept ==
  [][PutDone /\ ~put.post =>
       \A e \in (Through \cap DOMAIN put.rows \cap DOMAIN payload) \ put.since :
         \A p \in DOMAIN row[e].pages \cap DOMAIN payload[e].pages :
           LET old == row[e].pages[p] IN
           payload[e].pages[p].text = Stripped /\ old.text # Stripped =>
             /\ p \in DOMAIN row'[e].pages
             /\ row'[e].pages[p].text = old.text
             /\ old.flag => row'[e].pages[p].flag]_storeVars

(* What the server owns outlives a PUT or a POST of the whole product: the *)
(* verified flag and the token always, the pointer to the current version  *)
(* for a codebase always and for a database unless a job committed it      *)
(* after the request had begun (_upsert_product_locked).                   *)
OwnedKept ==
  [][PutDone => \A e \in Through :
       /\ row'[e].verified = row[e].verified
       /\ e \notin put.renewed => row'[e].token = row[e].token
       /\ e \in Codebases \/ e \notin put.since => row'[e].ver = row[e].ver]_storeVars

(* A preset database is pinned to a live server of its own, or to none     *)
(* once a server that two databases were pinned to was dropped, unless the *)
(* body of a PUT or POST of the whole product made up its type or its pin, *)
(* which is taken unchecked; a preset server serves the database that it   *)
(* was made for, unless another request replaced that database, gave it    *)
(* another type or pin or left it out (_add_preset_database,               *)
(* _drop_preset_server, _database_orm_from_pydantic).                      *)
PresetPaired ==
  /\ \A d \in Databases : row[d] # None /\ row[d].preset /\ ~row[d].claimed =>
       \/ row[d].pin \in Live /\ server[row[d].pin].of = d
       \/ row[d].pin = None /\ \E s \in shared : server[s] = Gone
  /\ \A s \in Live \ orphaned : Serves(s, row)
=============================================================================
