--------------------------- MODULE MermaidRepair ---------------------------
(***************************************************************************)
(* run_repair_loop of src/api/formats/mermaid.py: the broken diagrams of a *)
(* page are queued, each is put to a model that answers with a working     *)
(* body, with another broken one or with nothing, and a diagram that uses  *)
(* up its budgets is marked.  A budget counts the attempts on one body, a  *)
(* second the calls for one diagram, a third is a deadline for them all.   *)
(* Diagrams with the same body share the first one.                        *)
(***************************************************************************)
EXTENDS Integers, Sequences, FiniteSets

CONSTANTS Bodies,      \* broken bodies the model may see or answer with
          Cut,         \* the body of a diagram cut off in mid-stream
          MaxRepairs   \* attempts on one body

ASSUME RepairAssumption == MaxRepairs \in Nat \ {0} /\ Cut \notin Bodies

VARIABLE loop

Fine == 0  \* a body that renders, or cannot be judged without a browser
TotalCap == 3 * MaxRepairs
Broken == Bodies \cup {Cut}
Answers == {"nothing", "works"} \cup Bodies

NoLoop == [blocks |-> <<>>, queue |-> <<>>, tried |-> [x \in Broken |-> 0],
           calls |-> <<>>, fixed |-> {}, marked |-> {}, unqueued |-> {},
           known |-> {}, late |-> FALSE]

BudgetLeft(l, b) == ~l.late /\ l.calls[b] < TotalCap
Job(b, body) == [block |-> b, body |-> body]

(* The members of S, ascending. *)
Ascending(S) ==
  LET n == Cardinality(S) IN
  CHOOSE q \in [1..n -> S] :
    /\ \A i, j \in 1..n : i < j => q[i] < q[j]
    /\ \A x \in S : \E i \in 1..n : q[i] = x

JobsFor(blocks, S) ==
  [i \in 1..Cardinality(S) |-> Job(Ascending(S)[i], blocks[Ascending(S)[i]])]

(* The cut diagram is queued first, or removed; a closed one that finds    *)
(* the deadline already passed is not queued.                              *)
Queued(blocks, late, llm) ==
  LET severed == {b \in DOMAIN blocks : blocks[b] = Cut}
      closed == {b \in DOMAIN blocks : blocks[b] \in Bodies}
      open == llm /\ ~late
  IN [NoLoop EXCEPT
        !.blocks = blocks, !.late = late,
        !.calls = [b \in DOMAIN blocks |-> 0],
        !.queue = (IF open THEN JobsFor(blocks, severed) ELSE <<>>)
                  \o (IF late THEN <<>> ELSE JobsFor(blocks, closed)),
        !.marked = IF open THEN {} ELSE severed,
        !.unqueued = IF late THEN closed ELSE {}]

OpenLoop(blocks, llm) ==
  \E late \in (IF blocks = <<>> THEN {FALSE} ELSE BOOLEAN) :
    loop' = Queued(blocks, late, llm)

Deadline == /\ loop.queue # <<>> /\ ~loop.late
            /\ loop' = [loop EXCEPT !.late = TRUE]

Marked(l, b) == [l EXCEPT !.marked = @ \cup {b}]
Retried(l, b, body) == [l EXCEPT !.queue = Append(@, Job(b, body))]
(* The diagram is dropped from the queue once its budget is gone. *)
AgainSilently(l, b, body) ==
  IF l.tried[body] < MaxRepairs /\ BudgetLeft(l, b) THEN Retried(l, b, body)
  ELSE l

Again(l, b, body) ==
  IF l.tried[body] < MaxRepairs /\ BudgetLeft(l, b) THEN Retried(l, b, body)
  ELSE Marked(l, b)

Repaired(l, b, body) ==
  [l EXCEPT !.fixed = @ \cup {b}, !.known = @ \cup {body}]

Asked(l, b, body) ==
  [l EXCEPT !.tried[body] = @ + 1, !.calls[b] = @ + 1]

RepairStep(llm) ==
  LET b == Head(loop.queue).block
      body == Head(loop.queue).body
      l == [loop EXCEPT !.queue = Tail(@)]
  IN
  /\ loop.queue # <<>>
  /\ IF body \in l.known THEN loop' = [l EXCEPT !.fixed = @ \cup {b}]
     ELSE IF l.tried[body] >= MaxRepairs \/ ~llm \/ ~BudgetLeft(l, b)
     THEN loop' = Marked(l, b)
     ELSE \E answer \in Answers :
            LET asked == Asked(l, b, body) IN
            loop' = CASE answer = "nothing" -> Again(asked, b, body)
                      [] answer = "works" -> Repaired(asked, b, body)
                      [] OTHER -> Again(asked, b, answer)

LoopOver == loop.queue = <<>>

-----------------------------------------------------------------------------

(* What the reader sees of a page: a diagram that does not render is       *)
(* replaced or carries a marker, unless the deadline had passed before the *)
(* drain began; and no diagram costs more than its share of calls.         *)
BrokenTold ==
  /\ LoopOver => \A b \in DOMAIN loop.blocks :
       loop.blocks[b] = Fine \/ b \in loop.fixed \cup loop.marked \cup loop.unqueued
  /\ loop.fixed \cap loop.marked = {}
  /\ \A b \in DOMAIN loop.calls : loop.calls[b] <= TotalCap
=============================================================================
