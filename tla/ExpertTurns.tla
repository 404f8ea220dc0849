----------------------------- MODULE ExpertTurns -----------------------------
(***************************************************************************)
(* Detached expert turns, api/expert/turns.py with the ask, stop, delete   *)
(* and active-turn handlers of routers/expert.py.                          *)
(*                                                                         *)
(* The event loop runs one handler, turn task or subscriber at a time and  *)
(* switches at an await; a step of the loop is the code between two of     *)
(* them.  Beside it, on threads, run the active-turn probe (a sync         *)
(* handler) and the deletion of a product.  The end of a turn is two       *)
(* steps, between which only those threads may run (`closing`).            *)
(* Events carry no content: a transcript is who asked and who answered.    *)
(***************************************************************************)
EXTENDS Integers, Sequences, FiniteSets

CONSTANTS
    Sessions,     \* chat sessions of a product
    Clients,      \* SSE subscribers
    Probes,       \* threads that serve the active-turn endpoint
    Nobody,       \* no turn, no session
    MaxTurns,     \* bound on the turns; a turn's id is its rank
    MaxEvents,    \* bound on the events of a turn's runner
    MaxFailures   \* bound on failing writes and restarts

ASSUME TurnsAssumption ==
    /\ Nobody \notin Sessions \cup Nat
    /\ MaxTurns \in Nat /\ MaxEvents \in Nat /\ MaxFailures \in Nat

Turns == 1..MaxTurns

VARIABLES
    turn,      \* the ActiveTurn objects and their tasks
    table,     \* _TURNS: the turns that can be found by id
    running,   \* _RUNNING_BY_SESSION
    alive,     \* the chat_sessions rows
    rows,      \* chat_messages, by session
    closing,   \* the turn in the finally block of its task
    sub,       \* locals of subscribe(), by client
    probe,     \* locals of active_for_session() on a thread
    failures,  \* failing writes and restarts so far
    unsaved,   \* history: turns whose answer could not be written
    dropped    \* history: turns unregistered before their end

vars == <<turn, table, running, alive, rows, closing, sub, probe,
          failures, unsaved, dropped>>
Loop == <<table, running, alive, rows, closing, failures, unsaved, dropped>>

Final == {"completed", "failed", "cancelled"}
Live == {"created", "streaming", "stopping"}

\* "lost": the task was cancelled before its first step; "gone": a restart.
TurnRecord == [phase : {"new", "lost", "gone"} \cup Live \cup Final,
               final : Final \cup {"none"},          \* final_status
               session : Sessions \cup {Nobody},
               persist : BOOLEAN,
               events : 0..MaxEvents + 1]

Rows == [turn : Turns, role : {"user", "assistant"}]

TypeOK ==
    /\ turn \in [Turns -> TurnRecord]
    /\ table \in SUBSET Turns
    /\ running \in [Sessions -> Turns \cup {Nobody}]
    /\ alive \in [Sessions -> BOOLEAN]
    /\ rows \in [Sessions -> Seq(Rows)]
    /\ closing \in Turns \cup {Nobody}
    /\ sub \in [Clients -> [turn : Turns \cup {Nobody}, cursor : 0..MaxEvents + 1,
                            done : BOOLEAN]]
    /\ probe \in [Probes -> [step : {"idle", "check", "pop"},
                             session : Sessions \cup {Nobody}, turn : Turns \cup {Nobody}]]
    /\ failures \in 0..MaxFailures
    /\ unsaved \subseteq Turns /\ dropped \subseteq Turns

NewTurn == [phase |-> "new", final |-> "none", session |-> Nobody,
            persist |-> FALSE, events |-> 0]
Detached == [turn |-> Nobody, cursor |-> 0, done |-> FALSE]
NoProbe == [step |-> "idle", session |-> Nobody, turn |-> Nobody]

Init ==
    /\ turn = [t \in Turns |-> NewTurn]
    /\ table = {}
    /\ running = [s \in Sessions |-> Nobody]
    /\ alive = [s \in Sessions |-> TRUE]
    /\ rows = [s \in Sessions |-> <<>>]
    /\ closing = Nobody
    /\ sub = [c \in Clients |-> Detached]
    /\ probe = [p \in Probes |-> NoProbe]
    /\ failures = 0
    /\ unsaved = {} /\ dropped = {}

-----------------------------------------------------------------------------
Finished(t) == turn[t].phase \in Final

\* active_for_session finds a turn.
Busy(s) == running[s] \in table /\ ~Finished(running[s])

Fails == failures < MaxFailures /\ failures' = failures + 1

\* _append_message_rows: the session's row must exist, and the commit succeed.
Written(s, t, role) ==
    /\ alive[s]
    /\ rows' = [rows EXCEPT ![s] = Append(@, [turn |-> t, role |-> role])]
    /\ UNCHANGED <<failures, unsaved>>

NotWritten(s, t, role) ==
    /\ IF alive[s] THEN Fails ELSE UNCHANGED failures
    /\ unsaved' = IF role = "assistant" THEN unsaved \cup {t} ELSE unsaved
    /\ UNCHANGED rows

\* _persist_rows never raises.
PersistRow(s, t, role) == Written(s, t, role) \/ NotWritten(s, t, role)

\* The id of a new turn.
Fresh(t) == turn[t].phase = "new" /\ \A u \in 1..t - 1 : turn[u].phase # "new"

\* _prune: finished turns that are too old or too many are forgotten.
Prune(T, keep) == \E old \in SUBSET {t \in T : Finished(t)} : table' = (T \ old) \cup keep

-----------------------------------------------------------------------------
(* Handlers *)

AskRegardless(s, t) ==        \* bug: no busy check
    /\ closing = Nobody /\ Fresh(t) /\ alive[s]
    /\ Prune(table, {t})
    /\ turn' = [turn EXCEPT ![t] = [NewTurn EXCEPT !.phase = "created", !.session = s,
                                                   !.persist = TRUE]]
    /\ running' = [running EXCEPT ![s] = t]
    /\ PersistRow(s, t, "user")
    /\ UNCHANGED <<alive, closing, sub, probe, dropped>>

\* expert_ask and start_turn in an existing session.
Ask(s, t) ==
    /\ closing = Nobody /\ Fresh(t) /\ alive[s]
    /\ ~Busy(s)
    /\ Prune(table, {t})
    /\ turn' = [turn EXCEPT ![t] = [NewTurn EXCEPT !.phase = "created", !.session = s,
                                                   !.persist = TRUE]]
    /\ running' = [running EXCEPT ![s] = t]
    /\ PersistRow(s, t, "user")
    /\ UNCHANGED <<alive, closing, sub, probe, dropped>>

\* ... without one, when no session row could be created.
AskEphemeral(t) ==
    /\ closing = Nobody /\ Fresh(t)
    /\ Prune(table, {t})
    /\ turn' = [turn EXCEPT ![t].phase = "created"]
    /\ UNCHANGED <<running, alive, rows, closing, sub, probe, failures, unsaved, dropped>>

\* ... in a session that has a running turn: TurnBusyError, 409.
AskBusy(s) ==
    /\ closing = Nobody /\ alive[s] /\ Busy(s)
    /\ Prune(table, {})
    /\ UNCHANGED <<turn, running, alive, rows, closing, sub, probe, failures, unsaved, dropped>>

\* cancel_turn.  Whoever knows the id came after the task's first step.
Stop(t) ==
    /\ closing = Nobody /\ t \in table /\ turn[t].phase = "streaming"
    /\ turn' = [turn EXCEPT ![t].phase = "stopping"]
    /\ UNCHANGED <<Loop, sub, probe>>

CancelledAtOnce(r) ==         \* bug: the status says what was asked
    [r EXCEPT !.persist = FALSE, !.phase = "cancelling"]

Cancelled(r) ==
    [r EXCEPT !.persist = FALSE,
              !.phase = IF r.phase = "created" THEN "lost" ELSE "stopping"]

\* delete_chat_session: cancel_turns_for_session, then the rows.
DeleteSession(s) ==
    /\ closing = Nobody /\ alive[s]
    /\ LET r == running[s] IN
         IF Busy(s)
         THEN /\ turn' = [turn EXCEPT ![r] = Cancelled(@)]
              /\ table' = table \ {r}
              /\ dropped' = dropped \cup {r}
         ELSE UNCHANGED <<turn, table, dropped>>
    /\ running' = [running EXCEPT ![s] = Nobody]
    /\ \/ /\ alive' = [alive EXCEPT ![s] = FALSE]
          /\ rows' = [rows EXCEPT ![s] = <<>>]
          /\ UNCHANGED failures
       \/ Fails /\ UNCHANGED <<alive, rows>>
    /\ UNCHANGED <<closing, sub, probe, unsaved>>

\* delete_product on a thread: sessions and messages cascade, no turn is told.
DeleteProduct ==
    /\ \E s \in Sessions : alive[s]
    /\ alive' = [s \in Sessions |-> FALSE]
    /\ rows' = [s \in Sessions |-> <<>>]
    /\ UNCHANGED <<turn, table, running, closing, sub, probe, failures, unsaved, dropped>>

\* The process restarts: only the rows are left.
Restart ==
    /\ Fails
    /\ turn' = [t \in Turns |-> IF turn[t].phase \in Live \cup {"lost"}
                                THEN [turn[t] EXCEPT !.phase = "gone"] ELSE turn[t]]
    /\ table' = {}
    /\ running' = [s \in Sessions |-> Nobody]
    /\ closing' = Nobody
    /\ sub' = [c \in Clients |-> Detached]
    /\ probe' = [p \in Probes |-> NoProbe]
    /\ UNCHANGED <<alive, rows, unsaved, dropped>>

-----------------------------------------------------------------------------
(* The task of a turn: _run_turn_bounded *)

Begin(t) ==
    /\ closing = Nobody /\ turn[t].phase = "created"
    /\ turn' = [turn EXCEPT ![t].phase = "streaming"]
    /\ UNCHANGED <<Loop, sub, probe>>

\* _consume buffers an event of the runner.
Emit(t) ==
    /\ closing = Nobody /\ turn[t].phase = "streaming"
    /\ turn[t].events < MaxEvents
    /\ turn' = [turn EXCEPT ![t].events = @ + 1]
    /\ UNCHANGED <<Loop, sub, probe>>

OutcomesSwallowed(t) ==       \* bug: the task goes on waiting after a cancellation
    IF turn[t].phase = "streaming" THEN {"completed", "failed"} ELSE {}

\* The runner is done, raises or exceeds the budget; or its cancellation takes
\* effect, unless it was done by then.
Outcomes(t) == CASE turn[t].phase = "streaming" -> {"completed", "failed"}
                 [] turn[t].phase = "stopping" -> {"completed", "cancelled"}
                 [] OTHER -> {}

FinishSavesCompleted(t) ==    \* bug: a partial answer is not persisted
    /\ closing = Nobody
    /\ \E outcome \in Outcomes(t) :
          /\ turn' = [turn EXCEPT ![t].final = outcome,
                                  ![t].events = IF outcome = "failed" THEN @ + 1 ELSE @]
          /\ IF turn[t].persist /\ turn[t].events > 0 /\ outcome = "completed"
             THEN PersistRow(turn[t].session, t, "assistant")
             ELSE UNCHANGED <<rows, failures, unsaved>>
    /\ closing' = t
    /\ UNCHANGED <<table, running, alive, sub, probe, dropped>>

\* final_status is decided, an error event appended, the transcript persisted.
Finish(t) ==
    /\ closing = Nobody
    /\ \E outcome \in Outcomes(t) :
          turn' = [turn EXCEPT ![t].final = outcome,
                               ![t].events = IF outcome = "failed" THEN @ + 1 ELSE @]
    /\ IF turn[t].persist /\ turn[t].events > 0
       THEN PersistRow(turn[t].session, t, "assistant")
       ELSE UNCHANGED <<rows, failures, unsaved>>
    /\ closing' = t
    /\ UNCHANGED <<table, running, alive, sub, probe, dropped>>

Unregistered(t) ==
    [s \in Sessions |-> IF running[s] = t THEN Nobody ELSE running[s]]

\* The status flips, the session is free, finished turns are pruned.
Close(t) ==
    /\ closing = t
    /\ turn' = [turn EXCEPT ![t].phase = turn[t].final]
    /\ running' = Unregistered(t)
    /\ Prune(table, {})
    /\ closing' = Nobody
    /\ UNCHANGED <<alive, rows, sub, probe, failures, unsaved, dropped>>

-----------------------------------------------------------------------------
(* subscribe *)

Attach(c, t) ==
    /\ closing = Nobody /\ t \in table /\ sub[c].turn = Nobody
    /\ sub' = [sub EXCEPT ![c] = [Detached EXCEPT !.turn = t]]
    /\ UNCHANGED <<turn, Loop, probe>>

\* The client goes away, at any time.
Leave(c) ==
    /\ sub[c].turn # Nobody
    /\ sub' = [sub EXCEPT ![c] = Detached]
    /\ UNCHANGED <<turn, Loop, probe>>

\* One frame; after a wake or a heartbeat the buffer is read again.
Read(c) ==
    /\ closing = Nobody /\ sub[c].turn # Nobody
    /\ sub[c].cursor < turn[sub[c].turn].events
    /\ sub' = [sub EXCEPT ![c].cursor = @ + 1]
    /\ UNCHANGED <<turn, Loop, probe>>

DoneUndrained(c) ==           \* bug: finished is checked before the buffer
    /\ closing = Nobody /\ sub[c].turn # Nobody /\ ~sub[c].done
    /\ Finished(sub[c].turn)
    /\ sub' = [sub EXCEPT ![c].done = TRUE]
    /\ UNCHANGED <<turn, Loop, probe>>

\* The buffer is drained and the turn finished: [DONE].
Done(c) ==
    /\ closing = Nobody /\ sub[c].turn # Nobody /\ ~sub[c].done
    /\ sub[c].cursor = turn[sub[c].turn].events
    /\ Finished(sub[c].turn)
    /\ sub' = [sub EXCEPT ![c].done = TRUE]
    /\ UNCHANGED <<turn, Loop, probe>>

-----------------------------------------------------------------------------
(* active_for_session on a thread *)

ProbeRead(p, s) ==
    /\ probe[p].step = "idle" /\ running[s] # Nobody
    /\ probe' = [probe EXCEPT ![p] = [step |-> "check", session |-> s, turn |-> running[s]]]
    /\ UNCHANGED <<turn, Loop, sub>>

ProbeCheck(p) ==
    /\ probe[p].step = "check"
    /\ probe' = [probe EXCEPT ![p] =
                    IF probe[p].turn \in table /\ ~Finished(probe[p].turn)
                    THEN NoProbe ELSE [@ EXCEPT !.step = "pop"]]
    /\ UNCHANGED <<turn, Loop, sub>>

\* The "defensive" pop: of whatever is registered by now.
ProbePop(p) ==
    /\ probe[p].step = "pop"
    /\ LET s == probe[p].session IN
         /\ running' = [running EXCEPT ![s] = Nobody]
         /\ dropped' = dropped \cup ({running[s]} \ {Nobody})
    /\ probe' = [probe EXCEPT ![p] = NoProbe]
    /\ UNCHANGED <<turn, table, alive, rows, closing, sub, failures, unsaved>>

Next ==
    \/ \E t \in Turns : \/ AskEphemeral(t) \/ Stop(t) \/ Begin(t) \/ Emit(t)
                        \/ Finish(t) \/ Close(t)
                        \/ \E s \in Sessions : Ask(s, t)
                        \/ \E c \in Clients : Attach(c, t)
    \/ \E s \in Sessions : AskBusy(s) \/ DeleteSession(s)
    \/ DeleteProduct \/ Restart
    \/ \E c \in Clients : Leave(c) \/ Read(c) \/ Done(c)
    \/ \E p \in Probes : ProbeCheck(p) \/ ProbePop(p) \/ \E s \in Sessions : ProbeRead(p, s)

Spec == Init /\ [][Next]_vars

\* The loop schedules every ready task; a runner is cut off by its budget; a
\* subscriber wakes at the latest with its heartbeat.
FairSpec ==
    /\ Spec
    /\ \A t \in Turns : WF_vars(Begin(t)) /\ SF_vars(Finish(t)) /\ WF_vars(Close(t))
    /\ \A c \in Clients : SF_vars(Read(c)) /\ SF_vars(Done(c))

-----------------------------------------------------------------------------

\* The session has had no turn that was unregistered before its end.
Kept(s) == \A t \in dropped : turn[t].session # s

\* A turn stores its question and right behind it its answer.
AnswersFollow ==
    \A s \in Sessions : Kept(s) =>
        \A i, j \in DOMAIN rows[s] :
            i < j /\ rows[s][i].turn = rows[s][j].turn
                => /\ j = i + 1
                   /\ rows[s][i].role = "user" /\ rows[s][j].role = "assistant"

\* What a turn under way has stored is the end of the transcript.
NothingAfter ==
    \A s \in Sessions : Kept(s) =>
        \A i \in DOMAIN rows[s] :
            i < Len(rows[s]) /\ turn[rows[s][i].turn].phase \in Live
                => i + 1 = Len(rows[s]) /\ rows[s][i + 1].turn = rows[s][i].turn

\* An answer follows its question directly, and a question that is followed by
\* another one has been given up: no other turn wrote in between, unless one was
\* running that had been unregistered.
TranscriptPaired == AnswersFollow /\ NothingAfter

Answered(t) == turn[t].events > IF turn[t].phase = "failed" THEN 1 ELSE 0

\* "Status flips only after the transcript is durable, so a subscriber that
\* sees completed can safely read the answer from history": once a turn is seen
\* finished its answer is there, if it has one, its write did not fail and the
\* session exists and was not asked to be deleted.
SavedBeforeSeen ==
    \A t \in Turns : LET s == turn[t].session IN
        Finished(t) /\ turn[t].persist /\ Answered(t) /\ alive[s] /\ t \notin unsaved
            => \E i \in DOMAIN rows[s] : rows[s][i] = [turn |-> t, role |-> "assistant"]

\* A stream that has said [DONE] has delivered the whole buffer, also what is
\* appended at the very end.
ReplayComplete ==
    \A c \in Clients : sub[c].done =>
        Finished(sub[c].turn) /\ sub[c].cursor = turn[sub[c].turn].events

\* Every stream comes to its [DONE], or its client leaves; not so the stream of
\* a turn deleted before the first step of its task, which has no finally.
StreamsEnd ==
    \A c \in Clients, t \in Turns :
        (sub[c].turn = t /\ ~sub[c].done)
            ~> (sub[c].turn # t \/ sub[c].done \/ turn[t].phase = "lost")

\* The module docstring: "At most ONE running turn per chat session."
OneTurnPerSession ==
    \A t, u \in Turns :
        turn[t].phase \in Live /\ turn[u].phase \in Live
        /\ turn[t].session = turn[u].session /\ turn[t].session # Nobody => t = u
==============================================================================
