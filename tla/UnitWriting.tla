---------------------------- MODULE UnitWriting ----------------------------
(***************************************************************************)
(* How one docgen run writes its pages (src/api/docgen/codebase.py from    *)
(* the orchestrated run to the final persist, _run_deep_units and the end  *)
(* of generate_database_docs in database.py, generate_hld_docs in hld.py,  *)
(* the LangGraph flow of spec.py).  A unit's text is first asked of        *)
(* agents, each under the page gate and a wall clock; what is missing is   *)
(* asked of the standard model; the page's diagrams go through the repair  *)
(* loop; a finished page is checkpointed.  Stop may be pressed at any time.*)
(*                                                                         *)
(* A text is "good", or "kept" when the gate gave up on it and it was      *)
(* saved all the same, or "placeholder", or "none".                        *)
(***************************************************************************)
EXTENDS MermaidRepair, Functions

CONSTANTS Order,        \* the units, children before their parent
          Parent,       \* [unit -> its parent, itself for a parent]
          Plans,        \* the sets of units a run may have to write
          Slots,        \* agents at work at once
          MaxTries,     \* 1 + PAGE_GATE_MAX_RETRIES
          Chunks,       \* chunks of the code base
          Drawings,     \* [unit -> the diagrams its text may hold]
          Openers       \* opening sentences that differ

VARIABLES flow,      \* "codebase", "database", "hld" or "spec"
          plan,      \* the units to write; the others are reused
          model,     \* the standard model can be built
          stop,      \* Stop was pressed
          phase, outcome, at, draft,
          agent, tries, text, gaveUp,
          page,      \* unit_contents and the degraded flag of provenance
          row,       \* what the artifact's row holds
          guard      \* the opener guard

uvars == <<flow, plan, model, stop, phase, outcome, at, draft, agent, tries,
           text, gaveUp, page, row, guard, loop>>

Units == {Order[i] : i \in DOMAIN Order}

ASSUME WritingAssumption ==
  /\ Order \in Seq(Units)
  /\ \A u \in Units : Drawings[u] \subseteq Seq(Broken \cup {Fine})

Parents == {u \in Units : Parent[u] = u}
Page(t, flag) == [text |-> t, degraded |-> flag]
NoPage == Page("none", FALSE)
Old == Page("old", FALSE)
Unwritten(t) == t \in {"none", "placeholder"}
NoGuard == [pass |-> 0, i |-> 1, prior |-> {},
            opener |-> [u \in Units |-> 0], report |-> [u \in Units |-> "none"]]
Cleared == /\ agent' = [u \in Units |-> "off"]
           /\ tries' = [u \in Units |-> 0]

WritingInit ==
  /\ flow \in {"codebase", "database", "hld", "spec"}
  /\ plan \in (CASE flow = "hld" -> {Parents}
                 [] flow = "spec" -> {{Order[Len(Order)]}}
                 [] OTHER -> Plans)
  /\ model \in (IF flow = "hld" THEN {TRUE} ELSE BOOLEAN)
  /\ stop = FALSE /\ outcome = "none" /\ at = 1 /\ draft = "none"
  /\ phase = IF flow \in {"hld", "spec"} THEN "units" ELSE "agents"
  /\ agent = [u \in Units |-> IF flow = "database" /\ u \in plan THEN "wait" ELSE "off"]
  /\ tries = [u \in Units |-> 0]
  /\ text = [u \in Units |-> "none"] /\ gaveUp = {}
  /\ page = [u \in Units |-> IF u \in plan THEN NoPage ELSE Old]
  /\ row = [u \in Units |-> Old]
  /\ guard = NoGuard /\ loop = NoLoop
  /\ flow = "database" => model

Stop ==
  /\ ~stop /\ outcome = "none" /\ stop' = TRUE
  /\ UNCHANGED <<flow, plan, model, phase, outcome, at, draft, agent, tries,
                 text, gaveUp, page, row, guard, loop>>

Ended(how) == phase' = "closing" /\ outcome' = how
-----------------------------------------------------------------------------
(* The agents. *)

(* The orchestrator's transcript holds a valid text of any units; it may   *)
(* have failed, or no chat model could be built.  Without a chat model the *)
(* parallel agents are left out as well.                                   *)
Orchestrate ==
  /\ flow = "codebase" /\ phase = "agents" /\ agent = [u \in Units |-> "off"]
  /\ \E chat \in BOOLEAN, S \in SUBSET plan :
       LET missing == IF chat THEN plan \ S ELSE {} IN
       /\ chat \/ S = {}
       /\ text' = [u \in Units |-> IF u \in S THEN "good" ELSE "none"]
       /\ agent' = [u \in Units |-> IF u \in missing THEN "wait" ELSE "off"]
       /\ phase' = IF missing = {} THEN "units" ELSE "agents"
  /\ UNCHANGED <<flow, plan, model, stop, outcome, at, draft, tries, gaveUp,
                 page, row, guard, loop>>

agentRest == <<flow, plan, model, stop, phase, outcome, at, draft, page, row,
               guard, loop>>

(* Only the deep units of a database poll for Stop before they begin. *)
AgentStart(u) ==
  /\ phase = "agents" /\ agent[u] = "wait"
  /\ Cardinality({v \in Units : agent[v] = "run"}) < Slots
  /\ IF flow = "database" /\ stop
     THEN agent' = [agent EXCEPT ![u] = "stopped"] /\ tries' = tries
     ELSE agent' = [agent EXCEPT ![u] = "run"] /\ tries' = [tries EXCEPT ![u] = 1]
  /\ UNCHANGED <<agentRest, text, gaveUp>>

(* An empty page is not degraded, it is missing. *)
Degraded(t, exhausted) == exhausted /\ t # "none"

Settles(u, t, exhausted) ==
  /\ agent' = [agent EXCEPT ![u] = "done"]
  /\ text' = [text EXCEPT ![u] = t]
  /\ gaveUp' = IF Degraded(t, exhausted) THEN gaveUp \cup {u} ELSE gaveUp
  /\ UNCHANGED <<agentRest, tries>>

(* A page that passes the gate, an error of the agent, or a page that does *)
(* not pass: it is written again, or after the last attempt kept with the  *)
(* agent's markup stripped, which may leave nothing of it.                 *)
AgentAnswers(u) ==
  /\ phase = "agents" /\ agent[u] = "run"
  /\ \/ Settles(u, "good", FALSE)
     \/ Settles(u, "none", FALSE)
     \/ /\ tries[u] < MaxTries /\ tries' = [tries EXCEPT ![u] = @ + 1]
        /\ UNCHANGED <<agentRest, agent, text, gaveUp>>
     \/ tries[u] = MaxTries /\ \E t \in {"kept", "none"} : Settles(u, t, TRUE)

(* The agent runs without a wall clock. *)
OverrunNever(u) == FALSE

(* The wall clock of run_with_unit_budget. *)
Overrun(u) == agent[u] = "run"

AgentTimeout(u) == phase = "agents" /\ Overrun(u) /\ Settles(u, "none", FALSE)

(* More than half of the deep units failed: the batches describe them all. *)
Fallback ==
  Cardinality({u \in plan : text[u] = "none"}) > Cardinality(Units) \div 2

Described(u) == IF Fallback \/ text[u] = "none" THEN "good" ELSE text[u]

(* asyncio.gather returns when every agent has ended; Stop is not polled   *)
(* here for a code base.                                                   *)
Gather ==
  /\ phase = "agents" /\ \E u \in Units : agent[u] # "off"
  /\ \A u \in Units : agent[u] \in {"off", "done", "stopped"}
  /\ Cleared
  /\ IF flow = "codebase"
     THEN phase' = "units" /\ UNCHANGED <<outcome, page>>
     ELSE IF stop THEN Ended("cancelled") /\ page' = page
     ELSE /\ phase' = "units" /\ outcome' = outcome
          /\ page' = [u \in Units |->
               IF u \in plan THEN Page(Described(u), u \in gaveUp) ELSE page[u]]
  /\ UNCHANGED <<flow, plan, model, stop, at, draft, text, gaveUp, row,
                 guard, loop>>
-----------------------------------------------------------------------------
(* One unit at a time. *)

(* The standard model: nothing without chunks or without a model, one call *)
(* for one chunk; otherwise each chunk is summarised, and what there is of *)
(* the summaries makes a page even when the reduce call fails.             *)
Synthesised(summaries) == IF summaries = {} THEN {"none", "good"} ELSE {"good"}

LegacyText ==
  IF ~model \/ Chunks = {} THEN {"none"}
  ELSE IF Cardinality(Chunks) = 1 THEN {"none", "good"}
  ELSE UNION {Synthesised(S) : S \in SUBSET Chunks}

OrPlaceholder(t) == IF t = "none" THEN "placeholder" ELSE t

(* The text a unit of each flow enters the repair loop with; the section   *)
(* of an HLD may also raise.                                               *)
UnitTexts(u) ==
  CASE flow = "codebase" ->
         IF u \notin plan THEN {"old"}
         ELSE IF text[u] # "none" THEN {text[u]}
         ELSE {OrPlaceholder(t) : t \in LegacyText}
    [] flow = "database" -> {page[u].text}
    [] flow = "hld" -> {"good", "raised"}
    [] flow = "spec" -> {"good", "skeleton"}

Polls(u) == flow \in {"codebase", "hld", "spec"} /\ stop

(* A diagram cut in mid-stream is healed or dropped before the loop in the *)
(* code base's flow.                                                       *)
DrawingsOf(u, t) ==
  IF t \in {"placeholder", "skeleton"} THEN {<<>>}
  ELSE {d \in Drawings[u] : flow # "codebase" \/ Cut \notin Range(d)}

Work(u) == CASE flow \in {"hld", "spec"} -> u \in plan
             [] OTHER -> TRUE

Skip ==
  /\ phase = "units" /\ at <= Len(Order) /\ ~Work(Order[at])
  /\ at' = at + 1
  /\ UNCHANGED <<flow, plan, model, stop, phase, outcome, draft, agent, tries,
                 text, gaveUp, page, row, guard, loop>>

unitRest == <<flow, plan, model, stop, agent, tries, text, gaveUp, guard>>

UnitText ==
  LET u == Order[at] IN
  /\ phase = "units" /\ at <= Len(Order) /\ Work(u)
  /\ IF Polls(u)
     THEN Ended("cancelled") /\ UNCHANGED <<draft, loop>>
     ELSE \E t \in UnitTexts(u) :
            /\ draft' = t
            /\ IF t = "raised" THEN Ended("failed") /\ loop' = loop
               ELSE IF flow = "spec" /\ t = "good"
               THEN phase' = "guard" /\ UNCHANGED <<outcome, loop>>
               ELSE /\ phase' = "repair" /\ outcome' = outcome
                    /\ \E d \in DrawingsOf(u, t) : OpenLoop(d, model)
  /\ UNCHANGED <<unitRest, at, page, row>>

(* The guard node of a specification polls once more. *)
SpecGuard ==
  /\ phase = "guard"
  /\ IF stop THEN Ended("cancelled") /\ loop' = loop
     ELSE /\ phase' = "repair" /\ outcome' = outcome
          /\ \E d \in DrawingsOf(Order[at], draft) : OpenLoop(d, model)
  /\ UNCHANGED <<unitRest, at, draft, page, row>>

Repair ==
  /\ phase = "repair"
  /\ RepairStep(model) \/ Deadline
  /\ UNCHANGED <<unitRest, phase, outcome, at, draft, page, row>>

(* Verification, provenance, and the checkpoint of what was written: the   *)
(* pages of units not reached yet are checkpointed empty.  A checkpoint    *)
(* that fails is logged.                                                   *)
Written(u) ==
  [page EXCEPT ![u] = CASE flow = "database" -> page[u]
                        [] OTHER -> Page(draft, u \in gaveUp)]

Checkpoints(u) ==
  \/ flow = "codebase" /\ u \in plan /\ draft # "placeholder"
  \/ flow = "hld"

Finish ==
  LET u == Order[at] IN
  /\ phase = "repair" /\ LoopOver
  /\ page' = Written(u)
  /\ \/ Checkpoints(u) /\ row' = Written(u)
     \/ row' = row
  /\ at' = at + 1 /\ phase' = "units" /\ draft' = "none" /\ loop' = NoLoop
  /\ UNCHANGED <<unitRest, outcome>>
-----------------------------------------------------------------------------
(* The opener guard: the parents, then each parent with its children. *)

InOrder(S) == SelectSeq(Order, LAMBDA u : u \in S)
HasChildren(p) == \E u \in Units \ {p} : Parent[u] = p
Family(p) == <<p>> \o InOrder({u \in Units \ {p} : Parent[u] = p})
Families == SelectSeq(InOrder(Parents), HasChildren)
Passes == <<InOrder(Parents)>> \o [k \in DOMAIN Families |-> Family(Families[k])]

LoopsOver == phase = "units" /\ at > Len(Order)

(* No opener is 0. *)
OpenGuard ==
  /\ LoopsOver
  /\ IF flow = "codebase"
     THEN /\ phase' = "openers" /\ text' = [u \in Units |-> "none"]
          /\ \E f \in [Units -> {0} \cup Openers] :
               guard' = [NoGuard EXCEPT !.pass = 1, !.opener = f]
     ELSE phase' = "closing" /\ text' = text /\ guard' = guard
  /\ UNCHANGED <<flow, plan, model, stop, outcome, at, draft, agent, tries,
                 gaveUp, page, row, loop>>

(* A new opener is taken only if it repeats none before it. *)
Replacements(u) ==
  IF model /\ u \in plan THEN {o \in Openers : o \notin guard.prior} ELSE {}

(* What is before the next unit is the opener the page has now. *)
Effective(old, new) == new

Visit(u) ==
  LET o == guard.opener[u]
      next == [guard EXCEPT !.i = @ + 1]
  IN IF Unwritten(page[u].text) THEN guard' = next
     ELSE IF o = 0 \/ o \notin guard.prior
     THEN guard' = [next EXCEPT !.prior = @ \cup {o}]
     ELSE \/ guard' = [next EXCEPT !.report[u] = "left"]
          \/ \E new \in Replacements(u) :
               guard' = [next EXCEPT !.report[u] = "repaired", !.opener[u] = new,
                                     !.prior = @ \cup {Effective(o, new)}]

GuardStep ==
  /\ phase = "openers"
  /\ IF guard.pass > Len(Passes) THEN phase' = "closing" /\ guard' = guard
     ELSE /\ phase' = phase
          /\ IF guard.i > Len(Passes[guard.pass])
             THEN guard' = [guard EXCEPT !.pass = @ + 1, !.i = 1, !.prior = {}]
             ELSE Visit(Passes[guard.pass][guard.i])
  /\ UNCHANGED <<flow, plan, model, stop, outcome, at, draft, agent, tries,
                 text, gaveUp, page, row, loop>>
-----------------------------------------------------------------------------
endRest == <<flow, plan, model, stop, at, draft, agent, tries, text, gaveUp,
             page, guard, loop>>

(* The clients are closed, whatever happened; a code base of placeholders  *)
(* only has failed.                                                        *)
Close ==
  /\ phase = "closing"
  /\ CASE outcome # "none" -> phase' = "over" /\ outcome' = outcome
       [] outcome = "none" /\ flow = "codebase"
            /\ (\A p \in Parents : page[p].text = "placeholder") ->
            phase' = "over" /\ outcome' = "failed"
       [] OTHER -> phase' = "last" /\ outcome' = outcome
  /\ UNCHANGED <<endRest, row>>

LastPoll == stop

Last ==
  /\ phase = "last"
  /\ IF flow # "spec" /\ LastPoll THEN phase' = "over" /\ outcome' = "cancelled"
     ELSE phase' = "persist" /\ outcome' = outcome
  /\ UNCHANGED <<endRest, row>>

Persist ==
  /\ phase = "persist" /\ row' = page
  /\ phase' = "over" /\ outcome' = "done"
  /\ UNCHANGED endRest

Over == phase = "over" /\ UNCHANGED uvars

AgentStep(u) == AgentStart(u) \/ AgentTimeout(u)
UnitStep == Skip \/ UnitText \/ SpecGuard \/ Repair \/ Finish
EndStep == OpenGuard \/ GuardStep \/ Close \/ Last \/ Persist

WritingNext ==
  \/ Stop \/ Orchestrate \/ Gather \/ UnitStep \/ EndStep \/ Over
  \/ \E u \in Units : AgentStep(u) \/ AgentAnswers(u)

(* An agent need not answer; the orchestrator's turns are bounded by its   *)
(* recursion limit and each request by its timeout.                        *)
Fairness ==
  /\ WF_uvars(Orchestrate) /\ WF_uvars(Gather)
  /\ WF_uvars(UnitStep) /\ WF_uvars(EndStep)
  /\ \A u \in Units : WF_uvars(AgentStep(u))

WritingSpec == WritingInit /\ [][WritingNext]_uvars /\ Fairness
-----------------------------------------------------------------------------

(* Whatever the agents do, the run ends: an agent that hangs costs its     *)
(* wall clock and a diagram no more than its budgets.                      *)
RunEnds == <>(phase = "over")

=============================================================================
