----------------------------- MODULE ProductParts -----------------------------
(***************************************************************************)
(* The decisions that product, settings and account requests take, as      *)
(* functions of what they read: who may do what (auth/deps.py), which      *)
(* connection a preset accepts (mcp/presets.py), which setting counts      *)
(* (config/settings.py, config/abstraction.py, routers/admin.py).          *)
(***************************************************************************)
EXTENDS Integers, Sequences, FiniteSets

(***************************************************************************)
(* Access.                                                                 *)
(***************************************************************************)
Roles == {"admin", "manager", "user", "viewer_global", "legacy"}
Grants == {"none", "ro", "rw"}

(* resolve_product_access; any other role is treated as a plain user. *)
Level(role, owner, grant) ==
  CASE role = "admin" -> "rw"
    [] role = "viewer_global" -> "ro"
    [] role = "manager" -> IF owner \/ grant = "rw" THEN "rw" ELSE "ro"
    [] OTHER -> IF owner THEN "rw" ELSE grant

(* The rights on top of the level (product_access). *)
Rights(role, owner, grant) ==
  LET level == Level(role, owner, grant) IN
  {r \in {"docs", "manage", "edit", "configure"} :
     CASE r = "docs" -> level # "none" /\ role # "viewer_global"
       [] r = "manage" -> level = "rw"
       [] r = "edit" -> owner \/ role = "admin"
       [] OTHER -> owner \/ role \in {"manager", "admin"}}

(* A product that cannot be seen answers as one that does not exist. *)
Permission(exists, role, owner, grant, right) ==
  IF ~exists \/ Level(role, owner, grant) = "none" THEN 404
  ELSE IF right \in Rights(role, owner, grant) THEN 200 ELSE 403

Access(exists, role, owner, grant, level) ==
  IF level = "ro" THEN IF exists /\ Level(role, owner, grant) # "none" THEN 200 ELSE 404
  ELSE Permission(exists, role, owner, grant, "manage")

(* The listing filters in SQL (_visible_product_ids). *)
Listed(role, owner, grant) ==
  role \in {"admin", "manager", "viewer_global"} \/ owner \/ grant # "none"

(* The two filters agree: a product is listed to whom it can be opened.    *)
ASSUME ListedIffOpened ==
  \A role \in Roles, owner \in BOOLEAN, grant \in Grants :
    Listed(role, owner, grant) <=> Access(TRUE, role, owner, grant, "ro") = 200

(* More of a grant never takes a right away, and no grant gives the right  *)
(* to edit or to configure (SPEC-023).                                     *)
ASSUME GrantsGrow ==
  \A role \in Roles, owner \in BOOLEAN :
    LET of(g) == Rights(role, owner, g) IN
    /\ of("none") \subseteq of("ro") /\ of("ro") \subseteq of("rw")
    /\ \A r \in {"edit", "configure"} : r \in of("rw") <=> r \in of("none")

(* The session's user (get_current_user): a token for an account that is   *)
(* gone is not an account.                                                 *)
CurrentUser(provider, token, known) ==
  IF provider = "none" THEN "system"
  ELSE IF token = "valid" /\ known THEN "user" ELSE "401"

(* PUT of a grant by the product's settings or by the administrator. *)
GrantAnswer(by, level, exists, target, targetOwns) ==
  IF level \notin {"ro", "rw"} THEN 400
  ELSE IF ~exists \/ target = "missing" THEN 404
  ELSE IF target = "admin" THEN 400
  ELSE IF by = "product" /\ targetOwns THEN 400 ELSE 200

(* Settings of a product (PATCH): absent fields stay. *)
PatchAnswer(name, owner, known) ==
  IF name = "blank" \/ (owner # "absent" /\ owner \notin known) THEN 400 ELSE 200
Patched(row, body) == [f \in DOMAIN row |-> IF body[f] = "absent" THEN row[f] ELSE body[f]]

(***************************************************************************)
(* The account behind a session.                                           *)
(***************************************************************************)
(* The first group of the mapping that the user is in and whose role       *)
(* exists decides (_map_keycloak_role); mapping is a sequence of pairs.    *)
MappedRole(mapping, groups) ==
  LET hits == {i \in DOMAIN mapping :
                 mapping[i].group \in groups /\ mapping[i].role \in Roles \ {"legacy"}}
  IN IF hits = {} THEN "none"
     ELSE mapping[CHOOSE i \in hits : \A j \in hits : i <= j].role

(* keycloak_callback: no match leaves the role of a known user alone. *)
RoleAfterLogin(known, role, mapped) ==
  IF ~known THEN IF mapped = "none" THEN "user" ELSE mapped
  ELSE IF mapped = "none" THEN role ELSE mapped

(* A password that changes takes an outstanding reset token with it. *)
NoReset == [hash |-> 0, expires |-> 0]
Reset(user, token, now, password) ==
  IF user.reset.hash = 0 \/ user.reset.hash # token THEN [answer |-> 401, user |-> user]
  ELSE IF user.reset.expires # 0 /\ user.reset.expires < now THEN [answer |-> 401, user |-> user]
  ELSE [answer |-> 200, user |-> [password |-> password, mustChange |-> FALSE, reset |-> NoReset]]
Change(user, old, password) ==
  IF old # user.password THEN [answer |-> 401, user |-> user]
  ELSE IF password = 0 THEN [answer |-> 400, user |-> user]
  ELSE [answer |-> 200, user |-> [password |-> password, mustChange |-> FALSE, reset |-> NoReset]]
Issue(user, temporary, token, expires) ==
  [password |-> temporary, mustChange |-> TRUE, reset |-> [hash |-> token, expires |-> expires]]

(* A reset token works once, and not after a later password change or a    *)
(* later token.                                                            *)
ASSUME ResetOnce ==
  \A now \in 0 .. 2, later \in {"reset", "change", "issue"} :
    LET issued == Issue([password |-> 1, mustChange |-> FALSE, reset |-> NoReset], 2, 7, 1)
        then == CASE later = "reset" -> Reset(issued, 7, 0, 3).user
                  [] later = "change" -> Change(issued, 2, 3).user
                  [] OTHER -> Issue(issued, 3, 8, 1)
    IN Reset(then, 7, now, 4).answer = 401

(* The first administrator; the count and the insertion are two steps. *)
SetupAnswer(provider, localUsers, filled, taken) ==
  IF provider \notin {"local", "both"} THEN 400
  ELSE IF localUsers > 0 THEN 409
  ELSE IF ~filled THEN 400 ELSE IF taken THEN 409 ELSE 200

(***************************************************************************)
(* Preset databases: the connection string names a host; an MCP server     *)
(* that runs in a container reaches the machine under another name.        *)
(***************************************************************************)
Schemes == {"postgres", "mysql", "sqlite", "oracle"}
Hosts == {"local", "local6", "dockerhost", "remote"}
Launchers == {"baked", "docker"}

Rewritten(host) == IF host = "local" THEN "dockerhost" ELSE host   \* rewrite_local_hosts

(* build_env: the oracle server's cache directory is named by the string.  *)
PresetEnv(preset, host, launcher, contained) ==
  LET at == IF launcher = "docker" \/ contained THEN Rewritten(host) ELSE host
  IN [dsn |-> at, cache |-> IF preset = "oracle" THEN at ELSE "none"]
PresetRow(preset, host, launcher, contained) ==
  [command |-> launcher, env |-> PresetEnv(preset, host, launcher, contained)]

(* preset_row_mismatch rebuilds the row from the string it holds. *)
RowMatches(preset, row, contained) ==
  \E l \in Launchers : row = PresetRow(preset, row.env.dsn, l, contained)

(* A row the flow has built is accepted where it was built, and outside a  *)
(* container if it was built in one; a baked row for a local host, built   *)
(* outside, is refused once the API runs in a container.                   *)
ASSUME PresetAccepted ==
  \A preset \in Schemes, host \in Hosts, l \in Launchers, built, now \in BOOLEAN :
    RowMatches(preset, PresetRow(preset, host, l, built), now)
      <=> ~(l = "baked" /\ host = "local" /\ ~built /\ now)

(* validate_dsn, of the scheme and what follows it. *)
DsnAccepted(preset, scheme, rest) ==
  IF preset = "oracle" THEN scheme = "none" /\ rest = "ezconnect"
  ELSE scheme = preset /\ rest = IF preset = "sqlite" THEN "file" ELSE "host"

(* launcher_variants are tried in order (choose_launcher). *)
Chosen(available) ==
  IF "baked" \in available THEN "baked"
  ELSE IF "docker" \in available THEN "docker" ELSE "none"

(* check_preset_connection: a handshake, the tools, one probe, in a budget. *)
PresetCheck(available, starts, exposes, probe, late) ==
  IF Chosen(available) = "none" THEN "PresetError"
  ELSE IF late \/ ~starts \/ ~exposes \/ probe = "error" THEN "PresetConnectionError"
  ELSE "ok"

(* _add_preset_database. *)
AddPresetAnswer(preset, accepted, check, locked, product, taken) ==
  IF preset = "unknown" \/ ~accepted \/ check = "PresetConnectionError" THEN 400
  ELSE IF check = "PresetError" THEN 500     \* no handler catches it there
  ELSE IF locked THEN 409
  ELSE IF ~product THEN 404 ELSE IF taken THEN 409 ELSE 200

(***************************************************************************)
(* Databases by hand (routers/databases.py).                               *)
(***************************************************************************)
PinAnswer(known, scoped, bound, enabled) ==
  IF ~known THEN 404 ELSE IF ~scoped \/ ~bound \/ ~enabled THEN 400 ELSE 200

(* _reject_preset_connection_changes, then the shape, then the pin. *)
UpdateDatabaseAnswer(preset, docs, body, may, pin) ==
  IF preset /\ body \cap {"dsn", "mcp_server_id"} # {} THEN 400
  ELSE IF docs THEN 200
  ELSE IF "manage" \notin may THEN 403
  ELSE IF "mcp_server_id" \in body THEN pin ELSE 200

(* A preset database never changes its connection, whoever asks. *)
ASSUME PresetImmutable ==
  \A docs \in BOOLEAN, may \in SUBSET {"docs", "manage"}, pin \in {200, 400, 404},
     body \in SUBSET {"name", "dsn", "mcp_server_id"} :
    UpdateDatabaseAnswer(TRUE, docs, body, may, pin) = 200
      => body \cap {"dsn", "mcp_server_id"} = {}

(* What is stored of a connection string, and the check of the response:   *)
(* a string without a secret is its own mask.                              *)
Mask(dsn) == IF dsn = "secret" THEN "masked" ELSE dsn
StoredDsn(dsn, echoed) ==
  LET given == IF echoed # "absent" THEN echoed ELSE dsn
  IN IF given \in {"absent", "blank"} THEN "absent" ELSE Mask(given)
ResponseAnswer(dsn, stored) ==
  IF dsn \in {"absent", "blank"} \/ Mask(dsn) = dsn \/ stored # dsn THEN 200 ELSE 500
ASSUME DsnAlwaysMasked ==
  \A dsn, echoed \in {"absent", "blank", "plain", "secret", "masked"} :
    StoredDsn(dsn, echoed) # "secret" /\ ResponseAnswer(dsn, StoredDsn(dsn, echoed)) = 200

(* The token of a codebase (_resolved_stored_token): blank keeps it. *)
TokenStored(sent, stored) == IF sent \in {"absent", "blank"} THEN stored ELSE sent

(***************************************************************************)
(* Edits of an artifact's documents: a page is [text, verified].           *)
(***************************************************************************)
EditedPage(pages, p, text) ==
  LET page == IF p \in DOMAIN pages /\ pages[p].text = text
              THEN pages[p] ELSE [text |-> text, verified |-> FALSE]
  IN [q \in DOMAIN pages \cup {p} |-> IF q = p THEN page ELSE pages[q]]
ReplacedPages(sent) == [p \in DOMAIN sent |-> [sent[p] EXCEPT !.verified = FALSE]]

(* update_database_content, update_codebase_content: the first shape given *)
(* counts, the others are ignored.                                         *)
Edited(row, edit) ==
  CASE "pages" \in DOMAIN edit -> [row EXCEPT !.pages = ReplacedPages(edit.pages)]
    [] "pages" \notin DOMAIN edit /\ {"page_id", "content"} \subseteq DOMAIN edit ->
         [row EXCEPT !.pages = EditedPage(row.pages, edit.page_id, edit.content)]
    [] OTHER -> IF "generated_docs" \in DOMAIN edit
                THEN [row EXCEPT !.docs = edit.generated_docs] ELSE row
EditAnswer(edit) ==
  IF "pages" \in DOMAIN edit \/ {"page_id", "content"} \subseteq DOMAIN edit
     \/ "generated_docs" \in DOMAIN edit THEN 200 ELSE 400

(* No edit leaves a page verified whose text it changed. *)
ASSUME EditUnverifies ==
  LET page == [text : 1 .. 2, verified : BOOLEAN]
      some == UNION {[P -> page] : P \in SUBSET {"p", "q"}}
  IN \A pages \in some :
       /\ \A p \in {"p", "q"}, text \in 1 .. 2 :
            LET after == Edited([pages |-> pages, docs |-> 0],
                                [page_id |-> p, content |-> text]).pages
            IN \A q \in DOMAIN after : after[q].verified =>
                 q \in DOMAIN pages /\ pages[q] = after[q]
       /\ \A sent \in some : LET after == Edited([pages |-> pages, docs |-> 0], [pages |-> sent])
                             IN \A q \in DOMAIN after.pages : ~after.pages[q].verified

(* upload_node_content: the length is announced, then measured. *)
UploadAnswer(announced, size, limit, converts, utf8) ==
  IF announced > limit \/ size > limit THEN 413
  ELSE IF size = 0 THEN 400
  ELSE IF converts \/ utf8 THEN 200 ELSE 501

(* light_pages, strip_page_content: a blob stays when there are no pages. *)
LightRow(row) ==
  IF DOMAIN row.pages = {} THEN row
  ELSE [row EXCEPT !.pages = [p \in DOMAIN row.pages |-> [row.pages[p] EXCEPT !.text = 0]], !.docs = 0]

(***************************************************************************)
(* Settings.  A value is the kind of text that was sent or stored.         *)
(***************************************************************************)
Values == {"unset", "blank", "junk", "negative", "zero", "whole", "fraction", "nan", "inf"}

(* put_group: what is stored of a value, "ignored" when it is refused. *)
SavedValue(setting, value) ==
  CASE setting = "max_prompt_tokens" ->
         IF value \in {"blank", "zero", "whole"} THEN value ELSE "ignored"
    [] setting = "timeouts" ->
         IF value \in {"blank", "whole", "fraction", "nan", "inf"} THEN value ELSE "ignored"
    [] setting \in {"memory.backend", "generation.language"} ->
         IF value = "known" THEN value ELSE "ignored"
    [] OTHER -> value
ParsedInt(value) == IF value \in {"zero", "whole"} THEN value ELSE "none"  \* _parse_int_setting

(* What put_group stores, the reader understands; a value that clears a    *)
(* setting reads as none.                                                  *)
ASSUME SavedIsRead ==
  \A value \in Values : LET saved == SavedValue("max_prompt_tokens", value) IN
    saved # "ignored" => (ParsedInt(saved) = "none" <=> saved = "blank")

(* _sanitize_api_key: quotes, then one "Bearer " in front. *)
SanitizedKey(marks) ==
  LET bare == IF marks # <<>> /\ Head(marks) = "quotes" THEN Tail(marks) ELSE marks
  IN IF bare # <<>> /\ Head(bare) = "bearer" THEN Tail(bare) ELSE bare

(* get_model_for_task: the setting, the process's environment, a default. *)
ModelTasks == <<"docgen", "expert", "summary">>
TaskUrl(settings, env, task) ==
  IF settings[task] # "unset" THEN settings[task]
  ELSE IF env # "unset" THEN env ELSE "default"

(* sync_runtime_settings exports what each task resolves to, in turn: the  *)
(* last one stays.                                                         *)
SyncedUrl(settings, env) ==
  LET after[i \in 0 .. Len(ModelTasks)] ==
        IF i = 0 THEN env ELSE TaskUrl(settings, after[i - 1], ModelTasks[i])
  IN after[Len(ModelTasks)]

(* Saving settings never changes what a configured task uses.  A task      *)
(* without a setting follows the last task that has one, and a cleared     *)
(* setting leaves what it had exported behind.                             *)
ASSUME ConfiguredTasksKept ==
  \A settings \in [{"docgen", "expert", "summary"} -> {"unset", "u1", "u2"}],
     env \in {"unset", "u0"} :
    LET synced == SyncedUrl(settings, env) IN
    /\ \A t \in DOMAIN settings :
         settings[t] # "unset" => TaskUrl(settings, synced, t) = settings[t]
    /\ SyncedUrl(settings, synced) = synced

(* _normalize_git_host: scheme and authority (user, host and port); a text *)
(* without a scheme is taken as https, the path is dropped.                *)
GitHost(url) ==
  IF url.authority = "none" THEN <<>>
  ELSE <<IF url.scheme = "none" THEN "https" ELSE url.scheme, url.authority>>
AccountHost(url, public) == GitHost(IF url.blank THEN public ELSE url)

(* put_group for users, create_user, issue_reset_token, require_api_token. *)
PromoteAnswer(role, known) ==
  IF role \notin Roles \ {"legacy"} THEN 400 ELSE IF known THEN 200 ELSE 404
CreateUserAnswer(username, role, taken) ==
  IF username = "blank" \/ role \notin Roles \ {"legacy"} THEN 400
  ELSE IF taken THEN 409 ELSE 200
IssueAnswer(known, provider) == IF ~known THEN 404 ELSE IF provider # "local" THEN 400 ELSE 200
ApiTokenAnswer(header, known) == IF header = "bearer" /\ known THEN 200 ELSE 401
DeleteTokenAnswer(known, role, owns) ==
  IF ~known THEN 404 ELSE IF role # "admin" /\ ~owns THEN 403 ELSE 200
=============================================================================
