------------------------------ MODULE McpTools ------------------------------
(***************************************************************************)
(* Outbound MCP servers and the tools an answer gets from them: the        *)
(* registered servers (routers/mcp_admin.py), a product's bindings to them *)
(* (routers/product_mcp.py) and the process-wide caches of                 *)
(* mcp/manager.py.  Requests run on one event loop; a discovery waits for  *)
(* the network while servers and bindings change under it.  A server's     *)
(* connection settings are one number, its configuration; `stamp` is its   *)
(* updated_at, which every write of the row moves, so <<conf, stamp>> is   *)
(* server_fingerprint.  cached_tools_meta is written and dropped with the  *)
(* tool cache and is not kept apart.                                       *)
(***************************************************************************)
EXTENDS Integers, Sequences, FiniteSets, SequencesExt

CONSTANTS Servers,     \* registered MCP servers
          Confs,       \* configurations of a server, 1 the first
          Names,       \* tool names
          Builtin,     \* names of build_expert_tools
          Http,        \* tools of the enabled HTTP integrations, in order
          Offer,       \* what a server offers under a configuration, in order
          Refused,     \* <<server, conf>> that build_connection refuses
          Allows,      \* allow lists in use; Names stands for "all tools"
          FirstBindings,  \* bindings of the product at the start
          Requests,       \* requests that gather tools
          Checks,      \* admin health checks, made once each
          MaxChanges,  \* bound on what administrators and users change
          None, Over

ASSUME ToolNames ==
  /\ Builtin \subseteq Names /\ None \notin Servers
  /\ Http \in Seq(Names)
  /\ 1 \in Confs /\ Confs \subseteq Nat \ {0}
  /\ \A s \in Servers, c \in Confs : Offer[s][c] \in Seq(Names)
  /\ Allows \subseteq SUBSET Names
  /\ FirstBindings \subseteq Seq([server : Servers, on : BOOLEAN, allow : SUBSET Names])
  /\ MaxChanges \in Nat

VARIABLES
  row,      \* mcp_servers
  binding,  \* product_mcp_servers of the product, in order of creation
  client,   \* McpToolManager._clients
  cache,    \* McpToolManager._tools
  failed,   \* McpToolManager._tools_failed
  check,    \* health checks waiting for the network
  find,     \* get_tools_for_product in each request
  changes

adminVars == <<row, binding>>
mgrVars == <<client, cache, failed>>
mcpVars == <<row, binding, client, cache, failed, check, find, changes>>

(* The elements of seq that are in S, in their order. *)
Among(seq, S) ==
  FoldLeft(LAMBDA acc, x : IF x \in S THEN Append(acc, x) ELSE acc, <<>>, seq)

NoFind == [at |-> "idle"]
\* outcomes of a discovery besides the configuration that answered
Todo == -2
Waiting == -1
Unreachable == 0
NewRow(c) == [life |-> "alive", conf |-> c, stamp |-> 0, on |-> TRUE,
              status |-> "unknown", judged |-> 0, late |-> FALSE]
Alive(s) == row[s].life = "alive"
Key(s) == [conf |-> row[s].conf, stamp |-> row[s].stamp]

McpInit ==
  /\ binding \in FirstBindings
  /\ \E other \in {"unborn", "gone"} :
       row = [s \in Servers |->
         IF \E i \in DOMAIN binding : binding[i].server = s
         THEN NewRow(1) ELSE [NewRow(1) EXCEPT !.life = other]]
  /\ client = [s \in Servers |-> None]
  /\ cache = [s \in Servers |-> None]
  /\ failed = [s \in Servers |-> None]
  /\ check = [p \in Checks |-> None]
  /\ find = [t \in Requests |-> NoFind]
  /\ changes \in 0 .. MaxChanges

Changing == changes < MaxChanges /\ changes' = changes + 1

(***************************************************************************)
(* Administrators and owners.                                              *)
(***************************************************************************)

Invalidate(s) ==
  /\ client' = [client EXCEPT ![s] = None]
  /\ cache' = [cache EXCEPT ![s] = None]
  /\ failed' = [failed EXCEPT ![s] = None]

(* The verdict belonged to the old configuration. *)
Reconfigured(r, c, on) ==
  [r EXCEPT !.conf = c, !.on = on, !.stamp = @ + 1,
            !.status = IF c # r.conf THEN "unknown" ELSE @,
            !.late = IF c # r.conf THEN FALSE ELSE @]
ReconfiguredKeeping(r, c, on) ==
  [r EXCEPT !.conf = c, !.on = on, !.stamp = @ + 1]
UpdatedRow(r, c, on) == Reconfigured(r, c, on)

CreateServer(s) ==
  /\ row[s].life = "unborn"
  /\ Changing
  /\ \E c \in Confs : row' = [row EXCEPT ![s] = NewRow(c)]
  /\ UNCHANGED <<binding, client, cache, failed, check, find>>

UpdateServer(s) ==
  /\ Alive(s)
  /\ Changing
  /\ \E c \in Confs, on \in BOOLEAN :
       /\ <<c, on>> # <<row[s].conf, row[s].on>>
       /\ row' = [row EXCEPT ![s] = UpdatedRow(@, c, on)]
  /\ Invalidate(s)
  /\ UNCHANGED <<binding, check, find>>

(* Bindings go with the server: FK ON DELETE CASCADE. *)
DeleteServer(s) ==
  /\ Alive(s)
  /\ Changing
  /\ row' = [row EXCEPT ![s].life = "gone"]
  /\ binding' = Among(binding, {b \in ToSet(binding) : b.server # s})
  /\ Invalidate(s)
  /\ UNCHANGED <<check, find>>

(* One binding per server and product. *)
Bind(s) ==
  /\ Alive(s)
  /\ \A i \in DOMAIN binding : binding[i].server # s
  /\ Changing
  /\ \E allow \in Allows :
       binding' = Append(binding, [server |-> s, on |-> TRUE, allow |-> allow])
  /\ UNCHANGED <<row, client, cache, failed, check, find>>

Rebind(i) ==
  /\ Changing
  /\ \E on \in BOOLEAN, allow \in Allows :
       /\ <<on, allow>> # <<binding[i].on, binding[i].allow>>
       /\ binding' = [binding EXCEPT ![i] = [@ EXCEPT !.on = on, !.allow = allow]]
  /\ UNCHANGED <<row, client, cache, failed, check, find>>

Unbind(i) ==
  /\ Changing
  /\ binding' = RemoveAt(binding, i)
  /\ UNCHANGED <<row, client, cache, failed, check, find>>

(***************************************************************************)
(* discover_tools, for a request and for a health check.                   *)
(***************************************************************************)

(* get_client keeps a client as long as the fingerprint is the row's. *)
GetClient(s, key) ==
  client' = [client EXCEPT ![s] = key]

(* What the server behind configuration c answers. *)
Stored(s, key, answered) ==
  IF answered
  THEN /\ failed' = [failed EXCEPT ![s] = None]
       /\ cache' = [cache EXCEPT ![s] = key]
  ELSE /\ failed' = [failed EXCEPT ![s] = key]
       /\ UNCHANGED cache

(* A verdict is written on whatever the row has become; a deleted row      *)
(* fails the request.                                                      *)
Judged(r, c, ok) ==
  [r EXCEPT !.status = IF ok THEN "ok" ELSE "error",
            !.judged = c, !.late = @ \/ c # r.conf, !.stamp = @ + 1]
Verdict(s, c, ok) ==
  row' = [row EXCEPT ![s] = IF Alive(s) THEN Judged(@, c, ok) ELSE @]

(* A health check skips both caches.  Its row was read before the network. *)
TestStart(p, s) ==
  /\ check[p] = None
  /\ Alive(s)
  /\ IF <<s, row[s].conf>> \in Refused
     THEN /\ Verdict(s, row[s].conf, FALSE)
          /\ check' = [check EXCEPT ![p] = Over]
          /\ UNCHANGED client
     ELSE /\ GetClient(s, Key(s))
          /\ check' = [check EXCEPT ![p] = [server |-> s, key |-> Key(s)]]
          /\ UNCHANGED row
  /\ UNCHANGED <<binding, cache, failed, find, changes>>

TestEnd(p) ==
  /\ check[p] \notin {None, Over}
  /\ \E ok \in BOOLEAN :
       /\ Stored(check[p].server, check[p].key, ok)
       /\ Verdict(check[p].server, check[p].key.conf, ok)
  /\ check' = [check EXCEPT ![p] = Over]
  /\ UNCHANGED <<binding, client, find, changes>>

(* _load_bindings: enabled bindings of enabled servers of the scope, in    *)
(* order of creation; a database failure means no tools.                   *)
Loaded ==
  LET wanted == Among(binding, {b \in ToSet(binding) : b.on /\ row[b.server].on})
  IN [i \in DOMAIN wanted |->
        [server |-> wanted[i].server, key |-> Key(wanted[i].server),
         allow |-> wanted[i].allow]]

Load(t) ==
  /\ find[t].at = "load"
  /\ \E seen \in {Loaded, <<>>} :
       find' = [find EXCEPT ![t] =
         [at |-> "ask", seen |-> seen,
          got |-> [i \in DOMAIN seen |-> Todo]]]
  /\ UNCHANGED <<row, binding, client, cache, failed, check, changes>>

Settle(t, i, outcome) == find' = [find EXCEPT ![t].got[i] = outcome]

(* The cached list is used only under the fingerprint it was stored with.  *)
Cached(s, key) == cache[s] = key
CachedAny(s, key) == cache[s] # None
CacheHit(s, key) == Cached(s, key)

(* An outcome is the configuration whose tools were obtained. *)
DiscoverCached(t, i) ==
  LET want == find[t].seen[i] IN
  /\ find[t].at = "ask" /\ find[t].got[i] = Todo
  /\ CacheHit(want.server, want.key)
  /\ Settle(t, i, cache[want.server].conf)
  /\ UNCHANGED <<row, binding, client, cache, failed, check, changes>>

(* Known to be unreachable, or refused by build_connection. *)
DiscoverRefused(t, i) ==
  LET want == find[t].seen[i] IN
  /\ find[t].at = "ask" /\ find[t].got[i] = Todo
  /\ ~CacheHit(want.server, want.key)
  /\ failed[want.server] = want.key \/ <<want.server, want.key.conf>> \in Refused
  /\ Settle(t, i, Unreachable)
  /\ UNCHANGED <<row, binding, client, cache, failed, check, changes>>

Dial(t, i) ==
  LET want == find[t].seen[i] IN
  /\ find[t].at = "ask" /\ find[t].got[i] = Todo
  /\ ~CacheHit(want.server, want.key)
  /\ failed[want.server] # want.key
  /\ <<want.server, want.key.conf>> \notin Refused
  /\ GetClient(want.server, want.key)
  /\ Settle(t, i, Waiting)
  /\ UNCHANGED <<row, binding, cache, failed, check, changes>>

(* The network answers, fails, or exceeds the discovery timeout. *)
ServerAnswers(t, i) ==
  LET want == find[t].seen[i] IN
  /\ find[t].at = "ask" /\ find[t].got[i] = Waiting
  /\ \E ok \in BOOLEAN :
       /\ Stored(want.server, want.key, ok)
       /\ Settle(t, i, IF ok THEN want.key.conf ELSE Unreachable)
  /\ UNCHANGED <<row, binding, client, check, changes>>

(* MCP_NEGATIVE_CACHE_SECONDS have passed. *)
NegativeExpires(s) ==
  /\ failed[s] # None
  /\ failed' = [failed EXCEPT ![s] = None]
  /\ UNCHANGED <<row, binding, client, cache, check, find, changes>>

(***************************************************************************)
(* The tools of an answer, in the order the model is given them.           *)
(***************************************************************************)

Tool(name, server, conf) == [name |-> name, server |-> server, conf |-> conf]
NamesOf(tools) == {tools[i].name : i \in DOMAIN tools}

(* A binding contributes what its list allows and no earlier one offers. *)
Offered(name, allow, taken) == name \in allow /\ name \notin taken
OfferedAny(name, allow, taken) == name \notin taken
Keeps(name, allow, taken) == Offered(name, allow, taken)

Contribution(tools, want, got) ==
  IF got = Unreachable THEN tools
  ELSE FoldLeft(LAMBDA acc, name :
                  IF Keeps(name, want.allow, NamesOf(acc))
                  THEN Append(acc, Tool(name, want.server, got)) ELSE acc,
                tools, Offer[want.server][got])

ProductTools(seen, got) ==
  FoldLeft(LAMBDA acc, i : Contribution(acc, seen[i], got[i]),
           <<>>, [i \in DOMAIN seen |-> i])

(* HTTP integrations come after the MCP tools; built-in names win. *)
ExtraTools(bound) ==
  LET all == bound \o [i \in DOMAIN Http |-> Tool(Http[i], None, 0)]
  IN Among(all, {tool \in ToSet(all) : tool.name \notin Builtin})

Gather(t) ==
  /\ find[t].at = "ask"
  /\ \A i \in DOMAIN find[t].got : find[t].got[i] \notin {Todo, Waiting}
  /\ \E bound \in {ProductTools(find[t].seen, find[t].got)} :
       find' = [find EXCEPT ![t] =
         [at |-> "ready", seen |-> find[t].seen, got |-> find[t].got,
          tools |-> ExtraTools(bound)]]
  /\ UNCHANGED <<row, binding, client, cache, failed, check, changes>>

Admin ==
  \/ \E s \in Servers : CreateServer(s)
  \/ \E s \in Servers : UpdateServer(s)
  \/ \E s \in Servers : DeleteServer(s)
  \/ \E s \in Servers : Bind(s)
  \/ \E i \in DOMAIN binding : Rebind(i)
  \/ \E i \in DOMAIN binding : Unbind(i)
  \/ \E p \in Checks, s \in Servers : TestStart(p, s)

ToolStep(t) ==
  \/ Load(t)
  \/ /\ find[t].at = "ask"
     /\ \E i \in DOMAIN find[t].seen :
          DiscoverCached(t, i) \/ DiscoverRefused(t, i) \/ Dial(t, i) \/ ServerAnswers(t, i)
  \/ Gather(t)

(***************************************************************************)
(* Properties.                                                             *)
(***************************************************************************)

(* Whatever changes while it gathers them, an answer works with the tools  *)
(* of one reading of the bindings: every MCP tool is offered by a bound    *)
(* server under the configuration that was read, is on the binding's allow *)
(* list and bears no built-in's name; no two bear the same name; and every *)
(* allowed tool of a server that answered is there, from some server       *)
(* (get_tools_for_product, build_expert_agent, _gather_research_tools).    *)
ToolsAsBound ==
  \A t \in Requests : find[t].at = "ready" =>
    LET seen == find[t].seen
        got == find[t].got
        tools == find[t].tools
        mcp == {k \in DOMAIN tools : tools[k].server # None}
    IN /\ \A k \in mcp :
            /\ tools[k].name \notin Builtin
            /\ \E i \in DOMAIN seen :
                 /\ tools[k].server = seen[i].server
                 /\ tools[k].conf = seen[i].key.conf
                 /\ tools[k].name \in seen[i].allow
                 /\ tools[k].name \in ToSet(Offer[seen[i].server][seen[i].key.conf])
       /\ \A k, l \in mcp : tools[k].name = tools[l].name => k = l
       /\ \A i \in DOMAIN seen : got[i] # Unreachable =>
            (ToSet(Offer[seen[i].server][seen[i].key.conf]) \cap seen[i].allow)
              \ Builtin \subseteq {tools[k].name : k \in mcp}

(* A persisted health verdict is about the row's present configuration,    *)
(* except when a check that began before a change of the configuration     *)
(* ends after it (update_mcp_server resets the verdict; test_mcp_server    *)
(* writes it on the row it loaded before it waited).                       *)
StatusJudged ==
  \A s \in Servers :
    Alive(s) /\ row[s].status # "unknown" /\ row[s].judged # row[s].conf
      => row[s].late
=============================================================================
