---------------------------- MODULE ExpertAnswer ----------------------------
(***************************************************************************)
(* One answer of the expert, three ways: the tool-using agent              *)
(* (agents/expert.py), deep research (expert/deep_research.py) and the     *)
(* single-prompt chat of the public API (expert/chat.py).  The first two   *)
(* gather the product's tools (McpTools); all recall indexed knowledge     *)
(* through the process-wide embedder limiter (tools/rate_limiter.py),      *)
(* whose semaphore is replaced when its size setting changes.              *)
(***************************************************************************)
EXTENDS McpTools

CONSTANTS Ways,       \* how the requests come: a way for each, "none" for none
          MaxRounds,  \* MAX_ITERATIONS of deep research
          StepLimit,  \* per request, what resolve_expert_recursion_limit gives
          Sizes       \* values of the setting embedder.max_concurrency

ASSUME Bounds ==
  /\ IsFiniteSet(Requests) /\ Ways \subseteq [Requests -> {"none", "agent", "deep", "chat"}]
  /\ MaxRounds \in Nat \ {0} /\ Sizes \subseteq Nat \ {0}

VARIABLES
  req,   \* the requests
  size,   \* the setting in force
  sem     \* semaphore objects, the current one last: [size, taken, leaked, orphans]

answerVars == <<row, binding, client, cache, failed, check, find, changes,
          req, size, sem>>

Ended == {"done", "failed", "cancelled"}
NewRequest(way) == [way |-> way, at |-> "idle", steps |-> 0, round |-> 0,
            found |-> 0, over |-> FALSE, late |-> 0, gen |-> 0, back |-> "none"]
NewSem(n) == [size |-> n, taken |-> 0, orphans |-> 0, leaked |-> 0]

AnswerInit ==
  /\ McpInit
  /\ \E ways \in Ways : req = [t \in Requests |-> NewRequest(ways[t])]
  /\ size \in Sizes
  /\ sem = <<>>

At(t, place) == req[t].at = place
Goto(t, place) == req' = [req EXCEPT ![t].at = place]

(* The request is over: its agent, its tools and its model client go. *)
EndWith(t, how) ==
  /\ req' = [req EXCEPT ![t].at = how, ![t].back = "none"]
  /\ find' = [find EXCEPT ![t] = NoFind]

Submit(t) ==
  /\ At(t, "idle") /\ req[t].way # "none"
  /\ IF req[t].way = "chat"
     THEN /\ req' = [req EXCEPT ![t].at = "recall", ![t].back = "stream"]
          /\ UNCHANGED find
     ELSE /\ Goto(t, "tools")
          /\ find' = [find EXCEPT ![t] = [at |-> "load"]]
  /\ UNCHANGED <<row, binding, client, cache, failed, check, changes, size, sem>>

Tools(t) ==
  /\ At(t, "tools")
  /\ IF find[t].at = "ready"
     THEN /\ Goto(t, IF req[t].way = "agent" THEN "model" ELSE "plan")
          /\ UNCHANGED <<mcpVars, size, sem>>
     ELSE ToolStep(t) /\ UNCHANGED <<req, size, sem>>

mcpSame == UNCHANGED <<row, binding, client, cache, failed, check, changes>>

(***************************************************************************)
(* The embedder limiter.  A call waits for a permit in a worker thread, on *)
(* the semaphore it was given, and returns the permit to that semaphore.   *)
(***************************************************************************)

Current ==
  IF sem = <<>> \/ sem[Len(sem)].size # size THEN Append(sem, NewSem(size)) ELSE sem

(* Recall first embeds the query; knowledge that is not indexed, or an     *)
(* embedder that is not there, skips the embedding.                        *)
Recall(t) ==
  /\ At(t, "recall")
  /\ \/ /\ sem' = Current
        /\ req' = [req EXCEPT ![t].at = "parked", ![t].gen = Len(Current)]
     \/ /\ Goto(t, req[t].back)
        /\ UNCHANGED sem
  /\ mcpSame /\ UNCHANGED <<find, size>>

Acquire(t) ==
  /\ At(t, "parked")
  /\ sem[req[t].gen].taken < sem[req[t].gen].size
  /\ sem' = [sem EXCEPT ![req[t].gen].taken = @ + 1]
  /\ Goto(t, "embed")
  /\ mcpSame /\ UNCHANGED <<find, size>>

ReleasedTo(t) == req[t].gen
ReleasedToCurrent(t) == Len(sem)
ReleaseTo(t) == ReleasedTo(t)

(* A BoundedSemaphore refuses a release above its size: ValueError. *)
Released(t) ==
  [sem EXCEPT ![ReleaseTo(t)].taken = IF @ > 0 THEN @ - 1 ELSE @]

(* The call answers, or fails after at most five attempts. *)
Embedded(t) ==
  /\ At(t, "embed")
  /\ sem' = Released(t)
  /\ Goto(t, req[t].back)
  /\ mcpSame /\ UNCHANGED <<find, size>>

(* What is left behind by a request that is stopped where it is: a thread  *)
(* that still waits for a permit nobody will return.                       *)
Dropped(t) ==
  CASE At(t, "parked") -> [sem EXCEPT ![req[t].gen].orphans = @ + 1]
    [] At(t, "embed") -> Released(t)
    [] OTHER -> sem

OrphanAcquires(g) ==
  /\ sem[g].orphans > 0 /\ sem[g].taken < sem[g].size
  /\ sem' = [sem EXCEPT ![g].orphans = @ - 1, ![g].taken = @ + 1,
                        ![g].leaked = @ + 1]
  /\ mcpSame /\ UNCHANGED <<find, req, size>>

Resize ==
  /\ Changing
  /\ \E n \in Sizes \ {size} : size' = n
  /\ UNCHANGED <<row, binding, client, cache, failed, check, find, req, sem>>

(***************************************************************************)
(* The tool-using agent: model, tool, model, ... up to the recursion       *)
(* limit, which ends the request with an error.                            *)
(***************************************************************************)

AgentModel(t) ==
  /\ At(t, "model")
  /\ \/ /\ req[t].steps < StepLimit[t]
        /\ \E place \in {"call", "recall"} :
             req' = [req EXCEPT ![t].at = place, ![t].steps = @ + 1,
                        ![t].back = "model"]
        /\ UNCHANGED find
     \/ req[t].steps < StepLimit[t] /\ EndWith(t, "done")
     \/ EndWith(t, "failed")
  /\ mcpSame /\ UNCHANGED <<size, sem>>

(* A tool answers, or its failure or timeout is the text the model sees.   *)
AgentTool(t) ==
  /\ At(t, "call")
  /\ req' = [req EXCEPT ![t].at = "model", ![t].steps = @ + 1]
  /\ mcpSame /\ UNCHANGED <<find, size, sem>>

(***************************************************************************)
(* Deep research: plan, research, plan, ..., synthesise.                   *)
(***************************************************************************)

(* The wall-clock budget of the request runs out. *)
Overrun(t) ==
  /\ req[t].way = "deep" /\ req[t].at \notin Ended \cup {"idle", "tools"}
  /\ ~req[t].over
  /\ req' = [req EXCEPT ![t].over = TRUE]
  /\ mcpSame /\ UNCHANGED <<find, size, sem>>

(* A model call that begins after the budget is counted. *)
Calling(t, place) ==
  [req[t] EXCEPT !.at = place, !.late = IF req[t].over THEN @ + 1 ELSE @]

OutOfTime(t) == req[t].over
OutOfTimeNever(t) == FALSE
BudgetSpent(t) == OutOfTime(t)

PlanNode(t) ==
  /\ At(t, "plan")
  /\ req' = [req EXCEPT ![t] =
       [(IF BudgetSpent(t) THEN [req[t] EXCEPT !.at = "synth"]
         ELSE Calling(t, "planning")) EXCEPT !.round = @ + 1]]
  /\ mcpSame /\ UNCHANGED <<find, size, sem>>

(* The planner's DECISION, unless the rounds are used up; a failing call   *)
(* ends the request with an error.                                         *)
Decisions(t) == IF req[t].round >= MaxRounds THEN {"synth"} ELSE {"synth", "research"}

Planned(t) ==
  /\ At(t, "planning")
  /\ \/ \E next \in Decisions(t) : Goto(t, next) /\ UNCHANGED find
     \/ EndWith(t, "failed")
  /\ mcpSame /\ UNCHANGED <<size, sem>>

Finding(t) == [req[t] EXCEPT !.at = "plan", !.back = "none", !.found = @ + 1]

(* The researcher is an agent under wait_for: it recalls, it answers, or   *)
(* it fails.  Its own step limit is in `Research` as one of its failures.  *)
Research(t) ==
  /\ At(t, "research")
  /\ \/ /\ req[t].steps < StepLimit[t] /\ ~req[t].over
        /\ req' = [req EXCEPT ![t].at = "recall", ![t].back = "research",
                                ![t].steps = @ + 1]
        /\ UNCHANGED find
     \/ req' = [req EXCEPT ![t] = Finding(t)] /\ UNCHANGED find
     \/ EndWith(t, "failed")
  /\ mcpSame /\ UNCHANGED <<size, sem>>

(* Out of time: the researcher is cancelled where it is and its findings   *)
(* are replaced by a note.                                                 *)
Aborted(t) ==
  /\ req[t].over /\ req[t].at \in {"research", "recall", "parked", "embed"}
  /\ req[t].way = "deep"
  /\ sem' = Dropped(t)
  /\ req' = [req EXCEPT ![t] = Finding(t)]
  /\ mcpSame /\ UNCHANGED <<find, size>>

SynthNode(t) ==
  /\ At(t, "synth")
  /\ req' = [req EXCEPT ![t] = Calling(t, "writing")]
  /\ mcpSame /\ UNCHANGED <<find, size, sem>>

SynthEnd(t) ==
  /\ At(t, "writing")
  /\ \E how \in {"done", "failed"} : EndWith(t, how)
  /\ mcpSame /\ UNCHANGED <<size, sem>>

(***************************************************************************)
(* The single-prompt chat: stream the answer; when the stream fails or     *)
(* brings nothing, generate it whole.                                      *)
(***************************************************************************)

ChatStream(t) ==
  /\ At(t, "stream")
  /\ \/ Goto(t, "generate") /\ UNCHANGED find
     \/ EndWith(t, "done")
  /\ mcpSame /\ UNCHANGED <<size, sem>>

ChatGenerate(t) ==
  /\ At(t, "generate")
  /\ EndWith(t, "done")
  /\ mcpSame /\ UNCHANGED <<size, sem>>

(* The task is cancelled, or the client of a public request has gone. *)
Cancel(t) ==
  /\ req[t].at \notin Ended \cup {"idle"}
  /\ Changing
  /\ sem' = Dropped(t)
  /\ EndWith(t, "cancelled")
  /\ UNCHANGED <<row, binding, client, cache, failed, check, size>>

(***************************************************************************)
(* The requests on their own, the threads they left and the administrator. *)
(***************************************************************************)

Step(t) ==
  \/ Tools(t) \/ Recall(t) \/ Acquire(t) \/ Embedded(t)
  \/ AgentModel(t) \/ AgentTool(t)
  \/ PlanNode(t) \/ Planned(t) \/ Research(t) \/ Aborted(t)
  \/ SynthNode(t) \/ SynthEnd(t)
  \/ ChatStream(t) \/ ChatGenerate(t)

(* Bound: servers change only while a request has yet to gather its tools. *)
Gathering ==
  \E t \in Requests : At(t, "tools") \/ (At(t, "idle") /\ req[t].way \in {"agent", "deep"})

Environment ==
  /\ Gathering
  /\ \/ Admin
     \/ \E p \in Checks : TestEnd(p)
     \/ \E s \in Servers : NegativeExpires(s)
  /\ UNCHANGED <<req, size, sem>>

AnswerNext ==
  \/ \E t \in Requests : Submit(t) \/ Step(t) \/ Overrun(t) \/ Cancel(t)
  \/ \E g \in DOMAIN sem : OrphanAcquires(g)
  \/ Resize
  \/ Environment

(* Model calls and tool calls have timeouts, threads run. *)
Fairness == \A t \in Requests : WF_answerVars(Step(t))

AnswerSpec == AnswerInit /\ [][AnswerNext]_answerVars /\ Fairness

(***************************************************************************)
(* Properties.                                                             *)
(***************************************************************************)

(* Deep research is bounded whatever the planner decides and however slow  *)
(* the model is: no more rounds than MAX_ITERATIONS, so no more graph      *)
(* steps than the recursion limit 2 * MAX_ITERATIONS + 6 allows; at most   *)
(* one model call begins after the time budget; every finished round left  *)
(* a finding, an aborted one too.                                          *)
ResearchBounded ==
  \A t \in Requests : req[t].way = "deep" =>
    /\ req[t].round <= MaxRounds
    /\ req[t].late <= 1
    /\ req[t].at \in {"synth", "writing", "done"} => req[t].found = req[t].round - 1

(* A request that was asked ends, whatever its tools, the embedder and the *)
(* settings do, unless a request stopped while it waited for a permit has  *)
(* taken that permit away for good (EmbedderRateLimiter.execute).          *)
Leak == \E g \in DOMAIN sem : sem[g].leaked + sem[g].orphans > 0
Quiet == \A t \in Requests : req[t].at \in Ended \cup {"idle"}
AnswersEnd == []<>(Quiet \/ Leak)
=============================================================================
