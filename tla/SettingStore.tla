---------------------------- MODULE SettingStore ----------------------------
(***************************************************************************)
(* The settings store with its cache (config/settings.py), used for the    *)
(* one setting that takes many keys: the git accounts of a host            *)
(* (routers/admin.py _save_git_accounts), slot by slot a URL and a token.  *)
(* Every request runs in a thread of its own; nothing spans the keys.      *)
(***************************************************************************)
EXTENDS Integers, FiniteSets

CONSTANTS Resolvers, Saver,  \* threads that look a token up; the one that saves
          Urls, Public,      \* account URLs; the blank one, for the public host
          NSlots,            \* accounts of the host, at most
          Blank,             \* a token field left empty: keep the token
          Unset,             \* no row; also what a failed read returns
          Absent,            \* not in the cache
          MaxSaves, MaxResolves, MaxFaults

ASSUME SettingIds == Saver \notin Resolvers /\ NSlots \in Nat /\ Unset \notin Urls

Slots == 0 .. NSlots - 1
Keys == Slots \X {"url", "token"}
Threads == Resolvers \cup {Saver}

VARIABLES
  stored,    \* the rows of the store
  cache,     \* _SETTINGS_CACHE; a cached Unset is _SETTINGS_CACHE_MISS
  thread,    \* what each thread is doing
  meant,     \* the token each URL was last given
  tainted,   \* a save met an error or read a stale entry
  saves, resolves, faults

settingVars == <<stored, cache, thread, meant, tainted, saves, resolves, faults>>

Resting == [at |-> "idle"]
Saving == thread[Saver] # Resting
NothingRead == [k \in Keys |-> Unset]

(* The keys of the rows there are (list_settings). *)
RowKeys == {k \in Keys : stored[k] # Unset}

(* get_git_accounts reads both fields of every slot that has a row. *)
ReadKeys == {k \in Keys : \E j \in RowKeys : j[1] = k[1]}

(* It goes by the slots' numbers, the URL before the token. *)
Before(j, k) == j[1] < k[1] \/ (j[1] = k[1] /\ j[2] = "url" /\ k[2] = "token")
First(k, S) == k \in S /\ \A j \in S \ {k} : Before(k, j)

SettingInit ==
  /\ meant \in [Urls -> Nat \cup {Unset}]
  /\ \E order \in [Slots -> Urls] :
       /\ \A s, t \in Slots : order[s] = order[t] => s = t
       /\ \A u \in Urls : (\A s \in Slots : order[s] # u) => meant[u] = Unset
       /\ stored = [k \in Keys |-> IF k[2] = "url" THEN order[k[1]] ELSE meant[order[k[1]]]]
  /\ cache = [k \in Keys |-> Absent]
  /\ thread = [t \in Threads |-> Resting]
  /\ tainted = FALSE
  /\ saves = 0 /\ resolves = 0 /\ faults = 0

Fault(fails) == /\ fails => faults < MaxFaults
                /\ faults' = IF fails THEN faults + 1 ELSE faults

(***************************************************************************)
(* get_git_accounts: which slots there are, then key by key.               *)
(***************************************************************************)
Start == [at |-> "list", todo |-> {}, key |-> Unset, got |-> NothingRead,
          val |-> Unset, clean |-> TRUE, entries |-> <<>>,
          rows |-> NothingRead, left |-> {}]

(* A listing that fails lists nothing. *)
List(t, fails) ==
  /\ thread[t].at = "list" /\ Fault(fails)
  /\ thread' = [thread EXCEPT ![t].at = "read",
                              ![t].todo = IF fails THEN {} ELSE ReadKeys,
                              ![t].clean = @ /\ ~fails]
  /\ UNCHANGED <<stored, cache, meant, tainted, saves, resolves>>

Taken(w, k, v) ==
  [w EXCEPT !.at = "read", !.got[k] = v, !.todo = @ \ {k}, !.val = Unset, !.key = Unset]
Reading(t, k) == thread[t].at = "read" /\ First(k, thread[t].todo)

(* get_setting: a hit costs no read of the store. *)
GetHit(t, k) ==
  LET w == thread[t] IN
  /\ Reading(t, k) /\ cache[k] # Absent
  /\ thread' = [thread EXCEPT ![t] =
       [Taken(w, k, cache[k]) EXCEPT !.clean = w.clean /\ cache[k] = stored[k]]]
  /\ UNCHANGED <<stored, cache, meant, tainted, saves, resolves, faults>>

(* A miss, which an entry older than the TTL is too (_cache_get), reads    *)
(* the row and caches it in a later step ...                               *)
GetMiss(t, k) ==
  /\ Reading(t, k)
  /\ thread' = [thread EXCEPT ![t].at = "put", ![t].val = stored[k], ![t].key = k]
  /\ UNCHANGED <<stored, cache, meant, tainted, saves, resolves, faults>>

CachePut(t) ==
  LET w == thread[t] IN
  /\ w.at = "put"
  /\ cache' = [cache EXCEPT ![w.key] = w.val]
  /\ thread' = [thread EXCEPT ![t] = Taken(w, w.key, w.val)]
  /\ UNCHANGED <<stored, meant, tainted, saves, resolves, faults>>

(* ... and one that fails returns the default and caches nothing. *)
GetFails(t, k) ==
  /\ Reading(t, k) /\ Fault(TRUE)
  /\ thread' = [thread EXCEPT ![t] = [Taken(@, k, Unset) EXCEPT !.clean = FALSE]]
  /\ UNCHANGED <<stored, cache, meant, tainted, saves, resolves>>

(***************************************************************************)
(* resolve_git_token: all accounts are read before one is looked for.      *)
(***************************************************************************)
Url(got, s) == IF got[<<s, "url">>] = Unset THEN Public ELSE got[<<s, "url">>]
Token(got, s) == got[<<s, "token">>]
Matches(got, u) ==
  {s \in Slots : Url(got, s) = u /\ (u # Public \/ Token(got, s) # Unset)}

(* The first account of the host; none: public access. *)
Resolved(got, u) ==
  LET match == Matches(got, u)
  IN IF match = {} THEN Unset ELSE Token(got, CHOOSE s \in match : \A t \in match : s <= t)

ResolveStart(r) ==
  /\ thread[r] = Resting /\ resolves < MaxResolves /\ resolves' = resolves + 1
  /\ thread' = [thread EXCEPT ![r] = [Start EXCEPT !.clean = ~Saving]]
  /\ UNCHANGED <<stored, cache, meant, tainted, saves, faults>>

ReadAll(t) == thread[t].at = "read" /\ thread[t].todo = {}

ResolveEnd(r) ==
  /\ ReadAll(r)
  /\ thread' = [thread EXCEPT ![r] = Resting]
  /\ UNCHANGED <<stored, cache, meant, tainted, saves, resolves, faults>>

(***************************************************************************)
(* _save_git_accounts: read the accounts, delete all rows, write the new.  *)
(***************************************************************************)
(* Lists of accounts with different URLs. *)
AccountLists ==
  {es \in UNION {[0 .. n - 1 -> [url : Urls, token : {Blank, saves + 1}]] : n \in 0 .. NSlots} :
     \A s, t \in DOMAIN es : es[s].url = es[t].url => s = t}

SaveStart(es) ==
  /\ ~Saving /\ saves < MaxSaves /\ saves' = saves + 1
  /\ thread' = [t \in Threads |->
       IF t = Saver THEN [Start EXCEPT !.entries = es]
       ELSE IF thread[t] = Resting THEN Resting ELSE [thread[t] EXCEPT !.clean = FALSE]]
  /\ UNCHANGED <<stored, cache, meant, tainted, resolves, faults>>

PreviousBySlot(got, es, s) == Token(got, s)
(* previous maps a URL that is not blank to its token. *)
PreviousByUrl(got, es, s) ==
  LET same == {t \in Slots : Url(got, t) = es[s].url}
  IN IF es[s].url = Public \/ same = {} THEN Unset
     ELSE Token(got, CHOOSE t \in same : \A other \in same : other <= t)
Previous(got, es, s) == PreviousByUrl(got, es, s)

(* The rows the accounts are to have. *)
NewRows(got, es) ==
  [k \in Keys |->
    IF k[1] \notin DOMAIN es THEN Unset
    ELSE IF k[2] = "url" THEN es[k[1]].url
    ELSE IF es[k[1]].token = Blank THEN Previous(got, es, k[1]) ELSE es[k[1]].token]

SavePlan(fails) ==
  LET w == thread[Saver]
      rows == NewRows(w.got, w.entries)
  IN
  /\ ReadAll(Saver) /\ Fault(fails)
  /\ thread' = [thread EXCEPT ![Saver] =
       [w EXCEPT !.at = "write", !.todo = IF fails THEN {} ELSE RowKeys, !.rows = rows,
                 !.left = {k \in Keys : rows[k] # Unset}, !.clean = @ /\ ~fails]]
  /\ UNCHANGED <<stored, cache, meant, tainted, saves, resolves>>

(* A row is written or not, and then its cached value goes. *)
WriteRow(k, v, fails) ==
  /\ Fault(fails)
  /\ stored' = IF fails THEN stored ELSE [stored EXCEPT ![k] = v]
  /\ thread' = [thread EXCEPT ![Saver].at = "drop", ![Saver].key = k,
                              ![Saver].todo = @ \ {k},
                              ![Saver].left = IF v = Unset THEN @ ELSE @ \ {k},
                              ![Saver].clean = @ /\ ~fails]
  /\ UNCHANGED <<cache, meant, tainted, saves, resolves>>

(* delete_setting, in the order the rows were listed in: any. *)
DeleteRow(fails) ==
  /\ thread[Saver].at = "write"
  /\ \E k \in thread[Saver].todo : WriteRow(k, Unset, fails)

(* set_setting, when the rows listed are gone. *)
SetRow(fails) ==
  LET w == thread[Saver] IN
  /\ w.at = "write" /\ w.todo = {}
  /\ \E k \in Keys : First(k, w.left) /\ WriteRow(k, w.rows[k], fails)

CacheDrop ==
  LET w == thread[Saver] IN
  /\ w.at = "drop"
  /\ cache' = [cache EXCEPT ![w.key] = Absent]
  /\ thread' = [thread EXCEPT ![Saver].at = "write", ![Saver].key = Unset]
  /\ UNCHANGED <<stored, meant, tainted, saves, resolves, faults>>

(* What the administrator asked for, whatever the rows say. *)
Asked(es, old) ==
  [u \in Urls |->
    LET given == {s \in DOMAIN es : es[s].url = u} IN
    IF given = {} THEN Unset
    ELSE LET t == es[CHOOSE s \in given : TRUE].token IN IF t = Blank THEN old[u] ELSE t]

SaveEnd ==
  LET w == thread[Saver] IN
  /\ w.at = "write" /\ w.todo = {} /\ w.left = {}
  /\ meant' = Asked(w.entries, meant)
  /\ tainted' = (tainted \/ ~w.clean)
  /\ thread' = [thread EXCEPT ![Saver] = Resting]
  /\ UNCHANGED <<stored, cache, saves, resolves, faults>>

Reads(t) ==
  \/ \E fails \in BOOLEAN : List(t, fails)
  \/ \E k \in Keys : GetHit(t, k) \/ GetMiss(t, k) \/ GetFails(t, k)
  \/ CachePut(t)

SaveStep ==
  \/ \E fails \in BOOLEAN : SavePlan(fails) \/ DeleteRow(fails) \/ SetRow(fails)
  \/ CacheDrop \/ SaveEnd

SettingNext ==
  \/ \E t \in Threads : Reads(t)
  \/ SaveStep
  \/ \E r \in Resolvers : ResolveStart(r) \/ ResolveEnd(r)
  \/ \E es \in AccountLists : SaveStart(es)

SettingSpec == SettingInit /\ [][SettingNext]_settingVars

(***************************************************************************)
(* Properties.                                                             *)
(***************************************************************************)

(* A thread that resolves a token, with no save under way and no stale     *)
(* entry read, gets the token the URL was last given, also when the        *)
(* accounts were reordered with their token fields left blank; accounts of *)
(* the public host, without a URL, are excepted (_save_git_accounts).      *)
TokenOfItsHost ==
  [][\A r \in Resolvers, u \in Urls \ {Public} :
       thread[r] # Resting /\ thread'[r] = Resting /\ thread[r].clean /\ ~tainted
       => Resolved(thread[r].got, u) = meant[u]]_settingVars

(* The same of the public host: "an entry with an empty token reuses a     *)
(* previously stored token for the same URL" (admin.py:196-198).           *)
PublicTokenKept ==
  [][\A r \in Resolvers :
       thread[r] # Resting /\ thread'[r] = Resting /\ thread[r].clean /\ ~tainted
       => Resolved(thread[r].got, Public) = meant[Public]]_settingVars
=============================================================================
