------------------------------ MODULE CatalogWalk ------------------------------
(***************************************************************************)
(* One walk of a database's catalogue over MCP tools: _walk_catalog_fresh  *)
(* and _introspect of api/docgen/database.py.  The surface has a sql tool  *)
(* or it does not; its engine decides how that is used.  Oracle's          *)
(* catalogue is read in pages whose size shrinks when a reply is chopped;  *)
(* PostgreSQL's pack is one reply a query, and has no query for some       *)
(* categories; other engines have their tools only.  A category may have   *)
(* no tool, a tool whose reply is the listing, or an adapted one that puts *)
(* its listing together from the names in several replies; dbhub answers   *)
(* with so many rows at most.  What the documents tell the reader about    *)
(* the walk is _coverage_section's: the statistics of paged queries and    *)
(* what was unavailable.                                                   *)
(*                                                                         *)
(* A listing is as many rows as the catalogue has for a schema (its        *)
(* tables) or a category (views, routines, ...), all schemas together.     *)
(* Not modelled: comments, sources and what the rows say, among them the   *)
(* names that are none, scraped from a chopped reply; the materialized     *)
(* views that the packs add to the views; the catalogue does not change    *)
(* during the walk.                                                        *)
(***************************************************************************)
EXTENDS Integers, Sequences, FiniteSets, FiniteSetsExt, SequencesExt

CONSTANTS
    NSchemas,    \* how many schemas there are, 1..NSchemas in listing order
    Categories,
    Owners,      \* the listing of the schemas
    Columns,     \* the label under which the schemas' statistics are summed
    NoAnswer,        \* no count, no answer
    MaxRows,     \* bound on a listing
    PageRows,    \* rows asked for at first
    MaxPages,    \* _ORA_MAX_PAGES
    Fit,         \* rows a reply holds before it is chopped
    Limit,       \* _SEARCH_OBJECTS_LIMIT: rows that dbhub lists at most
    Budget,      \* max_tool_calls
    MaxFaults    \* bound on the calls that fail

ASSUME WalkAssumption ==
    /\ {NSchemas, PageRows, MaxPages, Fit, Limit, MaxRows} \subseteq Nat \ {0}
    /\ {Budget, MaxFaults} \subseteq Nat
    /\ IsFiniteSet(Categories)

Schemas == 1..NSchemas
Listings == Schemas \cup Categories \cup {Owners}
Labels == Categories \cup {Owners, Columns}
Label(l) == IF l \in Schemas THEN Columns ELSE l

VARIABLES
    surface,      \* engine, the sql tool, the tool of each category, the
                  \* categories that the pack has a query for, dbhub's limit,
                  \* how long the listings are and the row, if any, that no
                  \* reply holds
    pc,           \* "walk", "done", "failed"
    todo,         \* what is left to ask
    walk,         \* _paged_rows' locals, NoAnswer between queries
    calls, faults,
    found,        \* rows in the payload
    stats,        \* walk_stats
    unavailable,  \* categories without listing, and with "sql" their queries
    uncounted,    \* history: labels with a query whose count was not answered
    cut,          \* history: categories whose reply, by tool or by "sql", was
                  \* chopped, limited, or put together without all its parts
    missed        \* history: a call has failed or been skipped

walkVars == <<surface, pc, todo, walk, calls, faults, found, stats, unavailable,
          uncounted, cut, missed>>

Engines == {"oracle", "postgresql", "other"}
Task(op, on) == [op |-> op, on |-> on]
Tasks == [op : {"paged", "bulk", "schemas", "list", "describe", "evidence", "adapter",
                "pack", "end"},
          on : Listings \cup {NoAnswer}]

Stat == [expected : Nat \cup {NoAnswer}, fetched : Nat, chopped : Nat]

\* Names are told apart, and what was answered from what was not.
ASSUME NamesApart ==
    /\ Schemas \cap Categories = {} /\ Owners \notin Schemas \cup Categories
    /\ Columns \notin Categories \cup {Owners}
    /\ NoAnswer \notin Nat /\ NoAnswer \notin Stat

WalkTypeOK ==
    /\ surface.engine \in Engines /\ surface.sql \in BOOLEAN /\ surface.limited \in BOOLEAN
    /\ surface.tool \in [Categories -> {"none", "direct", "composed"}]
    /\ surface.packed \subseteq Categories
    /\ surface.size \in [Listings -> 0..MaxRows] /\ surface.wide \in [Listings -> 0..MaxRows]
    /\ pc \in {"walk", "done", "failed"} /\ todo \in Seq(Tasks)
    /\ walk = NoAnswer
       \/ walk \in [expected : Nat \cup {NoAnswer}, rows : 1..PageRows, page : 0..MaxPages,
                    got : 0..MaxRows, chopped : Nat]
    /\ calls \in 0..Budget /\ faults \in 0..MaxFaults
    /\ found \in [Listings -> 0..MaxRows]
    /\ stats \in [Labels -> Stat \cup {NoAnswer}]
    /\ unavailable \subseteq Categories \X {"tool", "sql"}
    /\ uncounted \subseteq Labels /\ cut \subseteq Categories \X {"tool", "sql"} /\ missed \in BOOLEAN

Nothing == [l \in Listings |-> 0]
Widths == {Nothing} \cup {[Nothing EXCEPT ![l] = r] : l \in Categories \cup {1}, r \in {1, 2}}
Each(op, ls) == [i \in 1..Len(ls) |-> Task(op, ls[i])]
Ordered(n) == [i \in 1..n |-> i]

\* The generic path, for surfaces without a catalogue query for tables.
Generic == <<Task("schemas", NoAnswer)>>

\* What is asked for once there are tables: each category of its tool, then of
\* the engine's pack.  Oracle's has a query for each category.
Queried(c) ==
    /\ surface.sql
    /\ surface.engine = "oracle" \/ (surface.engine = "postgresql" /\ c \in surface.packed)
Rest ==
    Each("adapter", SetToSeq(Categories))
      \o Each(IF surface.engine = "oracle" THEN "paged" ELSE "pack",
              SetToSeq({c \in Categories : Queried(c)}))
      \o <<Task("end", NoAnswer)>>

\* Adapted tools are dbhub's or those of Oracle's own server.
WalkInit ==
    /\ \E e \in Engines, q \in BOOLEAN, d \in BOOLEAN,
          t \in [Categories -> {"none", "direct", "composed"}], p \in SUBSET Categories,
          s \in [Schemas \cup Categories -> 0..MaxRows], w \in Widths :
          /\ \A c \in Categories : t[c] = "composed" => d \/ e = "oracle"
          /\ surface = [engine |-> e, sql |-> q, limited |-> d, tool |-> t, packed |-> p, wide |-> w,
                        size |-> [l \in Listings |-> IF l = Owners THEN NSchemas ELSE s[l]]]
    /\ pc = "walk" /\ walk = NoAnswer
    /\ todo = IF surface.engine = "oracle" /\ surface.sql
              THEN <<Task("paged", Owners)>> ELSE Generic
    /\ calls = 0 /\ faults = 0
    /\ found = Nothing
    /\ stats = [q \in Labels |-> NoAnswer] /\ unavailable = {}
    /\ uncounted = {} /\ cut = {} /\ missed = FALSE

-----------------------------------------------------------------------------
(* Calls *)

\* What a call brings: its answer, or an error, with the budget spent always.
Replies(answers) ==
    (IF calls < Budget THEN answers ELSE {})
      \cup (IF calls = Budget \/ faults < MaxFaults THEN {NoAnswer} ELSE {})

Called(reply) ==
    /\ calls' = Min({Budget, calls + 1})
    /\ faults' = IF reply = NoAnswer /\ calls < Budget THEN faults + 1 ELSE faults
    /\ missed' = (missed \/ reply = NoAnswer)

\* A batch of calls whose errors only thin out the detail.
CalledTimes(n) ==
    /\ calls' = Min({Budget, calls + n})
    /\ missed' = (missed \/ calls + n > Budget)
    /\ UNCHANGED faults

On == Head(todo).on
At(op) == pc = "walk" /\ todo # <<>> /\ Head(todo).op = op
Size(l) == surface.size[l]
\* What the server lists of it.
Served(l) == IF surface.limited THEN Min({Limit, Size(l)}) ELSE Size(l)

-----------------------------------------------------------------------------
(* A query in pages: _paged_rows *)

\* The COUNT preflight.
Count ==
    /\ At("paged") /\ walk = NoAnswer
    /\ \E n \in Replies({Size(On)}) :
          /\ walk' = [expected |-> n, rows |-> PageRows, page |-> 0, got |-> 0, chopped |-> 0]
          /\ uncounted' = IF n = NoAnswer THEN uncounted \cup {Label(On)} ELSE uncounted
          /\ Called(n)
    /\ UNCHANGED <<surface, pc, todo, found, stats, unavailable, cut>>

\* A window of the catalogue, and the reply's text: how many of its rows can be
\* read, and whether it was chopped.
Window == Min({walk.rows, Size(On) - walk.got})
Oversized == LET w == surface.wide[On] IN w > walk.got /\ w <= walk.got + Window
Readable ==
    IF Oversized THEN surface.wide[On] - 1 - walk.got ELSE Min({Fit, Window})
Pages ==
    LET chop == Oversized \/ Window > Fit IN
    {[rows |-> n, chop |-> chop] :
        n \in {Readable} \cup (IF Oversized /\ walk.rows = 1 THEN {1} ELSE {})}

\* walk_stats are summed over the queries of a label.
Summed(stat, w) ==
    IF stat = NoAnswer THEN [expected |-> w.expected, fetched |-> w.got, chopped |-> w.chopped]
    ELSE [expected |-> IF w.expected = NoAnswer THEN stat.expected
                       ELSE w.expected + (IF stat.expected = NoAnswer THEN 0 ELSE stat.expected),
          fetched |-> stat.fetched + w.got, chopped |-> stat.chopped + w.chopped]

\* What becomes of the rows of a query: owners give the queries of the schemas,
\* a category's rows replace its tool's listing, and so does an empty answer
\* that is no error.
Settled(w, answered) ==
    LET rest == Tail(todo) IN
    /\ walk' = NoAnswer
    /\ stats' = [stats EXCEPT ![Label(On)] = Summed(@, w)]
    /\ IF On = Owners
       THEN /\ todo' = IF w.got = 0 THEN Generic
                       ELSE Each("paged", Ordered(w.got)) \o <<Task("bulk", NoAnswer)>>
            /\ found' = [found EXCEPT ![Owners] = w.got]
            /\ UNCHANGED unavailable
       ELSE /\ todo' = rest
            /\ IF On \in Categories /\ w.got = 0 /\ ~answered
               THEN unavailable' = unavailable \cup {<<On, "sql">>} /\ UNCHANGED found
               ELSE /\ found' = [found EXCEPT ![On] = w.got]
                    /\ unavailable' = unavailable \ {<<On, "tool">>}

FetchedUnchopped(p) == FALSE       \* bug: the marker is not looked for

\* The reply is to be fetched again in a smaller window.
Refetched(p) == p # NoAnswer /\ p.chop /\ walk.rows > 1

\* The walk is over: enough rows, a short page, or no page left.
Over(w, n) ==
    \/ w.expected # NoAnswer /\ w.got >= w.expected
    \/ n < w.rows
    \/ w.page = MaxPages

Fetch ==
    /\ At("paged") /\ walk # NoAnswer
    /\ \E p \in Replies(Pages) :
          /\ Called(p)
          /\ IF Refetched(p)
             THEN /\ walk' = [walk EXCEPT !.rows = @ \div 2, !.chopped = @ + 1]
                  /\ UNCHANGED <<todo, found, stats, unavailable>>
             ELSE LET n == IF p = NoAnswer THEN 0 ELSE p.rows
                      w == [walk EXCEPT !.got = @ + n, !.page = @ + 1] IN
                  IF Over(w, n) THEN Settled(w, p # NoAnswer)
                  ELSE walk' = w /\ UNCHANGED <<todo, found, stats, unavailable>>
    /\ UNCHANGED <<surface, pc, uncounted, cut>>

\* _oracle_bulk_tables: NoAnswer without a single table, and the tools are tried.
Bulk ==
    /\ At("bulk")
    /\ todo' = IF \A s \in Schemas : found[s] = 0 THEN Generic
               ELSE Rest
    /\ UNCHANGED <<surface, pc, walk, calls, faults, found, stats, unavailable, uncounted, cut, missed>>

-----------------------------------------------------------------------------
(* Tool by tool *)

\* A chopped list is no JSON any more: some names are scraped from it.  Oracle's
\* own server lists one schema, in prose and not to the end.
Listed(l) ==
    IF surface.engine = "oracle" THEN 0..Size(l)
    ELSE IF Served(l) > Fit THEN 1..Fit ELSE {Served(l)}

\* Without a tool for schemas, without schemas or without an answer there is one
\* unnamed scope, that of the server.
ListSchemas ==
    /\ At("schemas")
    /\ \E n \in Replies({0} \cup Listed(Owners)) :
          /\ LET scopes == IF n \in {0, NoAnswer} THEN <<1>> ELSE Ordered(n) IN
                todo' = Each("list", scopes) \o <<Task("evidence", NoAnswer)>>
          /\ Called(n) \/ (n = 0 /\ UNCHANGED <<calls, faults, missed>>)
    /\ UNCHANGED <<surface, pc, walk, found, stats, unavailable, uncounted, cut>>

\* An error or an empty list is only noted in errors, which nobody reads unless
\* there is no table at all.
ListTables ==
    /\ At("list")
    /\ \E n \in Replies(Listed(On)) :
          /\ found' = [found EXCEPT ![On] = IF n = NoAnswer THEN 0 ELSE n]
          /\ Called(n)
    /\ todo' = <<Task("describe", On)>> \o Tail(todo)
    /\ UNCHANGED <<surface, pc, walk, stats, unavailable, uncounted, cut>>

\* describe or get_ddl for each table.
Describe ==
    /\ At("describe")
    /\ todo' = Tail(todo)
    /\ CalledTimes(found[On])
    /\ UNCHANGED <<surface, pc, walk, found, stats, unavailable, uncounted, cut>>

\* No table: ValueError.  Otherwise constraints, indexes and related tables of
\* the tables with most columns.
CatalogEvidence ==
    /\ At("evidence")
    /\ IF \A s \in Schemas : found[s] = 0
       THEN pc' = "failed" /\ UNCHANGED <<todo, calls, faults, missed>>
       ELSE /\ todo' = Rest
            /\ CalledTimes(MapThenSumSet(LAMBDA s : found[s], Schemas))
            /\ UNCHANGED pc
    /\ UNCHANGED <<surface, walk, found, stats, unavailable, uncounted, cut>>

\* _collect_category.  A category without a tool is empty, and nobody says so.
NoTool ==
    /\ At("adapter") /\ surface.tool[On] = "none"
    /\ todo' = Tail(todo)
    /\ UNCHANGED <<surface, pc, walk, calls, faults, found, stats, unavailable, uncounted, cut, missed>>

\* What a category's tool listed is its listing; that it listed nothing is told.
Collected(rows) ==
    /\ found' = [found EXCEPT ![On] = rows]
    /\ unavailable' = IF rows = 0 THEN unavailable \cup {<<On, "tool">>} ELSE unavailable
    /\ todo' = Tail(todo)
    /\ UNCHANGED <<surface, pc, walk, stats, uncounted>>

\* The tool's reply is the listing: a chopped one parses to no rows.
DirectList ==
    /\ At("adapter") /\ surface.tool[On] = "direct"
    /\ \E n \in Replies({IF Served(On) > Fit THEN 0 ELSE Served(On)}) :
          /\ Collected(IF n = NoAnswer THEN 0 ELSE n)
          /\ cut' = IF Served(On) < Size(On) THEN cut \cup {<<On, "tool">>} ELSE cut
          /\ Called(n)

\* Whether every part of an adapted listing is there if every call is answered:
\* none is chopped, none at dbhub's limit, and Oracle's server knows one schema.
InFull == surface.engine # "oracle" /\ Served(On) = Size(On) /\ Size(On) <= Fit

\* The adapter puts names together: those scraped from a chopped reply are as
\* good as others, and a part whose call fails is left out.
ComposedList ==
    /\ At("adapter") /\ surface.tool[On] = "composed"
    /\ \/ /\ calls = Budget
          /\ Collected(0) /\ Called(NoAnswer) /\ UNCHANGED cut
       \/ /\ calls < Budget
          /\ \E failing \in BOOLEAN, n \in 0..Size(On) :
                /\ failing => faults < MaxFaults
                /\ InFull /\ ~failing => n = Size(On)
                /\ Collected(n)
                /\ cut' = IF InFull /\ ~failing THEN cut ELSE cut \cup {<<On, "tool">>}
                /\ Called(IF failing THEN NoAnswer ELSE n)

PackTrusting(c, n) == TRUE         \* bug: an error counts as an empty answer

\* Whether the reply is the catalogue's word on the category.
PackAnswers(c, n) == n # NoAnswer

\* PostgreSQL's pack.  A chopped reply parses to some rows or none, and is no error.
Pack ==
    /\ At("pack")
    /\ \E n \in Replies(IF Size(On) > Fit THEN 0..Fit ELSE {Size(On)}) :
          /\ IF PackAnswers(On, n)
             THEN /\ found' = [found EXCEPT ![On] = IF n = NoAnswer THEN 0 ELSE n]
                  /\ unavailable' = unavailable \ {<<On, "tool">>}
             ELSE unavailable' = unavailable \cup {<<On, "sql">>} /\ UNCHANGED found
          /\ cut' = IF n # NoAnswer /\ Size(On) > Fit THEN cut \cup {<<On, "sql">>} ELSE cut
          /\ Called(n)
    /\ todo' = Tail(todo)
    /\ UNCHANGED <<surface, pc, walk, stats, uncounted>>

\* The payload is returned, and stored in the cache.
End ==
    /\ At("end")
    /\ pc' = "done" /\ todo' = <<>>
    /\ UNCHANGED <<surface, walk, calls, faults, found, stats, unavailable, uncounted, cut, missed>>

\* The walk's own wall-clock budget.
Timeout ==
    /\ pc = "walk"
    /\ pc' = "failed"
    /\ UNCHANGED <<surface, todo, walk, calls, faults, found, stats, unavailable, uncounted, cut, missed>>

WalkNext ==
    \/ Count \/ Fetch \/ Bulk
    \/ ListSchemas \/ ListTables \/ Describe \/ CatalogEvidence
    \/ NoTool \/ DirectList \/ ComposedList \/ Pack \/ End \/ Timeout

WalkSpec == WalkInit /\ [][WalkNext]_walkVars

-----------------------------------------------------------------------------
\* What _coverage_section tells the reader.
Shown(q) ==
    stats[q] # NoAnswer
      /\ \/ stats[q].chopped > 0
         \/ stats[q].expected # NoAnswer /\ stats[q].fetched < stats[q].expected
\* A schema nobody asked for is missing from the owners' own line.
Told(l) ==
    \/ Shown(Label(l))
    \/ l \in Schemas /\ Shown(Owners)
    \/ {<<l, "tool">>, <<l, "sql">>} \cap unavailable # {}

\* Whether the schemas' tables come from the catalogue queries.
ByCatalogue == stats[Columns] # NoAnswer /\ stats[Columns].fetched > 0

\* The blind spots: a count that was not answered; one reply of a query that was
\* chopped; where there is no query for a category, no tool for it either, or
\* one whose listing was limited or put together in part; tables listed by
\* tools, and the schemas then.
Blind(l) ==
    \/ Label(l) \in uncounted \/ <<l, "sql">> \in cut
    \/ l \in Categories /\ ~Queried(l) /\ (surface.tool[l] = "none" \/ <<l, "tool">> \in cut)
    \/ l \in Schemas /\ (Owners \in uncounted \/ ~ByCatalogue)
    \/ l = Owners /\ stats[Owners] = NoAnswer

\* "Visible gaps, never silent incompleteness" (SPEC-016): a listing that is not
\* complete in the payload is told, whatever failed or was skipped and however
\* statistics were summed, but for the blind spots.
LossIsTold ==
    pc = "done" =>
        \A l \in Listings : found[l] = Size(l) \/ Told(l) \/ Blind(l)

\* Paging loses nothing of its own accord: where every call was answered and no
\* row is too large for a reply, a listing is complete however replies were
\* chopped and windows shrunk, until the limit on pages.
PagesComplete ==
    pc = "done" /\ ~missed =>
        \A l \in Listings :
            stats[Label(l)] # NoAnswer /\ surface.wide[l] = 0 /\ Size(l) <= MaxPages
              /\ (l \in Schemas => l <= found[Owners])
                => found[l] = Size(l)
=============================================================================
