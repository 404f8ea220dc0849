---------------------------- MODULE ExpertProofs ----------------------------
(***************************************************************************)
(* Machine-checked proofs about the expert: ExpertTurns, for any sessions, *)
(* clients and probes and any number of turns, events and failures; and    *)
(* ExpertAnswer with McpTools, for any servers, bindings, requests and     *)
(* settings.                                                               *)
(***************************************************************************)
EXTENDS ExpertTurns, ExpertAnswer, WellFoundedInduction, FiniteSetTheorems, TLAPS

\* The life of a turn: nothing is decided before its last event, and a turn of
\* the table that is to be persisted has a session.
Lives ==
    /\ \A t \in Turns :
          /\ turn[t].phase \in {"new"} \cup Live /\ closing # t
                => turn[t].events <= MaxEvents
          /\ turn[t].persist => turn[t].session \in Sessions
          /\ turn[t].phase = "new" => turn[t] = NewTurn
    /\ \A t \in table : turn[t].phase \notin {"lost", "gone"}
    /\ closing # Nobody => turn[closing].phase \in {"streaming", "stopping"}
                           /\ turn[closing].final \in Final

\* Between the write of the answer and the flip of the status.
SavedBeforeClose ==
    closing # Nobody =>
        LET s == turn[closing].session IN
        (/\ turn[closing].persist
         /\ turn[closing].events > IF turn[closing].final = "failed" THEN 1 ELSE 0
         /\ alive[s] /\ closing \notin unsaved)
            => \E i \in DOMAIN rows[s] : rows[s][i] = [turn |-> closing, role |-> "assistant"]

\* What is registered for a session is a turn of it, and every live turn is
\* registered that was not dropped.
Registered ==
    /\ \A s \in Sessions : running[s] # Nobody =>
          turn[running[s]].phase # "new" /\ turn[running[s]].session = s
    /\ \A t \in dropped : turn[t].phase # "new"
    /\ \A t \in Turns : turn[t].phase = "lost" => t \in dropped
    /\ \A t \in Turns : LET s == turn[t].session IN
          turn[t].phase \in Live /\ s # Nobody /\ t \notin dropped
              => running[s] = t /\ t \in table

\* The rows of a session are of its turns; those of a turn that is still to
\* answer are its question, and the last.
Open ==
    \A s \in Sessions : \A i \in DOMAIN rows[s] :
        LET t == rows[s][i].turn IN
        /\ turn[t].phase # "new" /\ turn[t].session = s
        /\ Kept(s) /\ turn[t].phase \in Live /\ closing # t
              => i = Len(rows[s]) /\ rows[s][i].role = "user"

\* A probe that is under way is for a session, a stream at its end for a turn.
Locals ==
    /\ \A p \in Probes : probe[p].step # "idle" => probe[p].session \in Sessions
    /\ \A c \in Clients : sub[c].done => sub[c].turn # Nobody

\* The inductive invariant.
IInv == /\ TypeOK /\ Lives /\ Locals
        /\ SavedBeforeSeen /\ SavedBeforeClose
        /\ ReplayComplete
        /\ Registered /\ Open /\ AnswersFollow /\ NothingAfter

-----------------------------------------------------------------------------
\* A turn's id is a number, and no turn is Nobody.
LEMMA Ranks == \A t \in Turns : t # Nobody
BY TurnsAssumption DEF Turns

\* No turn at first.
LEMMA InitIInv == Init => IInv
<1> SUFFICES ASSUME Init PROVE IInv
  OBVIOUS
<1> USE TurnsAssumption
<1>1. TypeOK
  BY DEF Init, TypeOK, NewTurn, Detached, NoProbe, TurnRecord
<1>2. \A t \in Turns : /\ turn[t].phase = "new" /\ ~turn[t].persist /\ turn[t].events = 0
                       /\ turn[t].session = Nobody
  BY DEF Init, NewTurn
<1>3. closing = Nobody /\ running = [s \in Sessions |-> Nobody] /\ dropped = {}
      /\ \A s \in Sessions : rows[s] = <<>> /\ running[s] = Nobody
  BY DEF Init
<1>4. Lives
  BY <1>2, <1>3 DEF Lives, Init
<1>5. SavedBeforeSeen /\ SavedBeforeClose
  BY <1>2, <1>3 DEF SavedBeforeSeen, SavedBeforeClose, Finished, Final
<1>6. ReplayComplete
  BY DEF Init, ReplayComplete, Detached
<1>7. Registered /\ Open /\ AnswersFollow /\ NothingAfter
  BY <1>2, <1>3 DEF Registered, Open, AnswersFollow, NothingAfter, Live
<1>8. Locals
  BY DEF Init, NoProbe, Detached, Locals
<1> QED BY <1>8, <1>1, <1>4, <1>5, <1>6, <1>7 DEF IInv

\* What _append_message_rows leaves of the rows.
LEMMA PersistRowRows ==
    ASSUME TypeOK, NEW s \in Sessions, NEW t \in Turns, NEW role \in {"user", "assistant"},
           PersistRow(s, t, role)
    PROVE  /\ rows' \in [Sessions -> Seq(Rows)]
           /\ failures' \in 0..MaxFailures
           /\ unsaved' \subseteq unsaved \cup {t}
           /\ unsaved \subseteq unsaved'
           /\ role = "user" => unsaved' = unsaved
           /\ \/ rows' = rows /\ (role = "assistant" /\ alive[s] => t \in unsaved')
              \/ rows' = [rows EXCEPT ![s] = Append(rows[s], [turn |-> t, role |-> role])]
<1>0. [turn |-> t, role |-> role] \in Rows
  BY DEF Rows
<1>1. CASE Written(s, t, role)
  <2>1. /\ rows' = [rows EXCEPT ![s] = Append(@, [turn |-> t, role |-> role])]
        /\ failures' = failures /\ unsaved' = unsaved
    BY <1>1 DEF Written
  <2>2. rows[s] \in Seq(Rows) /\ rows \in [Sessions -> Seq(Rows)]
    BY DEF TypeOK
  <2>3. Append(rows[s], [turn |-> t, role |-> role]) \in Seq(Rows)
    BY <1>0, <2>2
  <2>4. rows' \in [Sessions -> Seq(Rows)]
    BY <2>1, <2>2, <2>3
  <2> QED BY <2>1, <2>4 DEF TypeOK
<1>2. CASE NotWritten(s, t, role)
  <2>1. /\ rows' = rows
        /\ unsaved' = IF role = "assistant" THEN unsaved \cup {t} ELSE unsaved
        /\ failures' \in 0..MaxFailures
    BY <1>2, TurnsAssumption DEF NotWritten, Fails, TypeOK
  <2> QED BY <2>1 DEF TypeOK
<1> QED BY <1>1, <1>2 DEF PersistRow

\* A row more at the end of a transcript.
LEMMA RowAppended ==
    ASSUME NEW q \in Seq(Rows), NEW r \in Rows
    PROVE  /\ DOMAIN Append(q, r) = 1..Len(q) + 1
           /\ Len(Append(q, r)) = Len(q) + 1 /\ Len(q) \in Nat
           /\ DOMAIN q = 1..Len(q)
           /\ \A i \in DOMAIN q : Append(q, r)[i] = q[i]
           /\ Append(q, r)[Len(q) + 1] = r
OBVIOUS

-----------------------------------------------------------------------------
\* A turn that has not decided its outcome has nothing behind its row; one that
\* has, at most its answer.
LEMMA LastWord ==
    ASSUME \A s \in Sessions : rows'[s] \in Seq(Rows), Open',
           \A s \in Sessions : \A i \in DOMAIN rows'[s] :
              Kept(s)' /\ closing' # Nobody /\ rows'[s][i].turn = closing' /\ i < Len(rows'[s])
              /\ turn'[closing'].phase \in Live
                => i + 1 = Len(rows'[s]) /\ rows'[s][i + 1].turn = closing'
    PROVE  NothingAfter'
<1> SUFFICES ASSUME NEW s \in Sessions, Kept(s)', NEW i \in DOMAIN rows'[s],
                    i < Len(rows'[s]), turn'[rows'[s][i].turn].phase \in Live
             PROVE  i + 1 = Len(rows'[s]) /\ rows'[s][i + 1].turn = rows'[s][i].turn
  BY DEF NothingAfter
<1>1. rows'[s] \in Seq(Rows) /\ Len(rows'[s]) \in Nat /\ i \in Nat
  OBVIOUS
<1>2. rows'[s][i] \in Rows
  BY <1>1
<1>3. rows'[s][i].turn \in Turns
  BY <1>2 DEF Rows
<1>4. rows'[s][i].turn = closing'
  BY <1>1 DEF Open
<1> QED BY <1>3, <1>4, Ranks

\* A step that writes no row, ends no turn and opens none to be answered leaves
\* what is said of transcripts as it is; rows may be deleted, turns dropped.
LEMMA Aside ==
    ASSUME IInv,
           dropped \subseteq dropped', unsaved' = unsaved,
           \A t \in Turns :
              /\ turn[t].phase # "new" =>
                    turn'[t].phase # "new" /\ turn'[t].session = turn[t].session
              /\ turn'[t].phase \in Live /\ closing' # t =>
                    turn[t].phase \in Live \cup {"new"} /\ closing # t
              /\ turn[t].phase \in Final \/ turn'[t].phase \in Final => turn'[t] = turn[t],
           \A s \in Sessions :
              /\ rows'[s] = rows[s] \/ rows'[s] = <<>>
              /\ alive'[s] => alive[s] /\ rows'[s] = rows[s],
           closing' = Nobody \/ (closing' = closing /\ turn'[closing] = turn[closing])
    PROVE  Open' /\ AnswersFollow' /\ NothingAfter' /\ SavedBeforeSeen' /\ SavedBeforeClose'
<1> USE TurnsAssumption DEF IInv
<1>1. \A t \in dropped : t \in Turns /\ turn'[t].session = turn[t].session
  BY DEF TypeOK, Registered
<1>2. \A s \in Sessions : Kept(s)' => Kept(s)
  BY <1>1 DEF Kept
<1>3. ASSUME NEW s \in Sessions, NEW i \in DOMAIN rows[s] PROVE rows[s][i].turn \in Turns
  <2>1. rows[s] \in Seq(Rows)
    BY DEF TypeOK
  <2>2. rows[s][i] \in Rows
    BY <2>1
  <2> QED BY <2>2 DEF Rows
<1>4. Open'
  <2> SUFFICES ASSUME NEW s \in Sessions, NEW i \in DOMAIN rows'[s], rows'[s] = rows[s],
                      NEW t, t = rows[s][i].turn
               PROVE  /\ turn'[t].phase # "new" /\ turn'[t].session = s
                      /\ Kept(s)' /\ turn'[t].phase \in Live /\ closing' # t
                            => i = Len(rows'[s]) /\ rows'[s][i].role = "user"
    BY DEF Open
  <2>1. t \in Turns /\ turn[t].phase # "new" /\ turn[t].session = s
    BY <1>3 DEF Open
  <2>2. Kept(s)' /\ turn'[t].phase \in Live /\ closing' # t
          => Kept(s) /\ turn[t].phase \in Live /\ closing # t
    BY <2>1, <1>2
  <2> QED BY <2>1, <2>2 DEF Open
<1>5. AnswersFollow'
  BY <1>1 DEF AnswersFollow, Kept
<1>6. SavedBeforeSeen'
  <2> SUFFICES ASSUME NEW t \in Turns, Finished(t)', turn'[t].persist, Answered(t)',
                      alive'[turn'[t].session], t \notin unsaved'
               PROVE  \E i \in DOMAIN rows'[turn'[t].session] :
                         rows'[turn'[t].session][i] = [turn |-> t, role |-> "assistant"]
    BY DEF SavedBeforeSeen
  <2>1. turn'[t] = turn[t] /\ turn[t].phase \in Final
    BY DEF Finished
  <2>2. turn[t].session \in Sessions
    BY <2>1 DEF Lives
  <2>3. Finished(t) /\ turn[t].persist /\ Answered(t) /\ alive[turn[t].session] /\ t \notin unsaved
        /\ rows'[turn[t].session] = rows[turn[t].session]
    BY <2>1, <2>2 DEF Finished, Answered
  <2> QED BY <2>1, <2>3 DEF SavedBeforeSeen
<1>8. NothingAfter'
  <2>0. <<>> \in Seq(Rows) /\ \A s \in Sessions : rows[s] \in Seq(Rows)
    BY DEF TypeOK
  <2>1. \A s \in Sessions : rows'[s] \in Seq(Rows)
    BY <2>0
  <2>2. ASSUME NEW s \in Sessions, NEW i \in DOMAIN rows'[s], Kept(s)', closing' # Nobody,
               rows'[s][i].turn = closing', i < Len(rows'[s]), turn'[closing'].phase \in Live
        PROVE  i + 1 = Len(rows'[s]) /\ rows'[s][i + 1].turn = closing'
    <3>1. rows'[s] = rows[s]
      <4>1. rows'[s] # <<>>
        BY <2>2
      <4> QED BY <4>1
    <3>2. closing' = closing /\ turn'[closing] = turn[closing]
      BY <2>2
    <3> QED BY <1>2, <2>2, <3>1, <3>2 DEF NothingAfter
  <2> QED BY <1>4, <2>1, <2>2, LastWord
<1>7. SavedBeforeClose'
  <2> SUFFICES ASSUME closing' # Nobody, turn'[closing].persist, alive'[turn[closing].session],
                      turn[closing].events > IF turn[closing].final = "failed" THEN 1 ELSE 0,
                      closing \notin unsaved
               PROVE  \E i \in DOMAIN rows'[turn[closing].session] :
                         rows'[turn[closing].session][i] = [turn |-> closing, role |-> "assistant"]
    BY DEF SavedBeforeClose
  <2>1. closing \in Turns /\ turn'[closing] = turn[closing] /\ closing # Nobody
    BY DEF TypeOK
  <2>2. turn[closing].session \in Sessions
    BY <2>1 DEF Lives
  <2> QED BY <2>1, <2>2 DEF SavedBeforeClose
<1> QED BY <1>4, <1>5, <1>6, <1>7, <1>8

\* Steps of a task, or upon it, that leave rows and outcomes alone.
LEMMA AdvanceIInv ==
    ASSUME IInv, NEW t \in Turns, UNCHANGED <<Loop, sub, probe>>,
           closing = Nobody, turn[t].phase \in Live,
           NEW r \in TurnRecord, turn' = [turn EXCEPT ![t] = r],
           r.phase \in Live, r.events <= MaxEvents, r.session = turn[t].session,
           r.persist => turn[t].persist
    PROVE  IInv'
<1> USE TurnsAssumption DEF IInv, Loop
<1>1. \A u \in Turns : turn'[u] = IF u = t THEN r ELSE turn[u]
  BY DEF TypeOK
<1>2. TypeOK'
  BY DEF TypeOK
<1>3. Lives'
  BY <1>1, Ranks DEF Lives, Live, TypeOK
<1>4. ReplayComplete'
  BY <1>1 DEF ReplayComplete, Finished, TypeOK, Live, Final, Locals
<1>5. Registered' /\ Locals'
  BY <1>1 DEF Registered, Locals, TypeOK, Live
<1>6. Open' /\ AnswersFollow' /\ NothingAfter' /\ SavedBeforeSeen' /\ SavedBeforeClose'
  BY <1>1, Aside DEF Live, Final
<1> QED BY <1>2, <1>3, <1>4, <1>5, <1>6

\* cancel_turn, the first step of a task, an event of its runner.
LEMMA AdvancesIInv ==
    ASSUME IInv, NEW t \in Turns, Stop(t) \/ Begin(t) \/ Emit(t)
    PROVE  IInv'
<1>1. turn[t] \in TurnRecord /\ turn \in [Turns -> TurnRecord]
  BY DEF IInv, TypeOK
<1>2. CASE Stop(t)
  <2> DEFINE r == [turn[t] EXCEPT !.phase = "stopping"]
  <2>1. turn[t].events <= MaxEvents
    BY <1>2, Ranks DEF IInv, Lives, Stop, Live
  <2>2. r \in TurnRecord /\ r.phase \in Live /\ r.events <= MaxEvents /\ r.session = turn[t].session
        /\ r.persist = turn[t].persist
    BY <1>1, <2>1 DEF TurnRecord, Live
  <2>3. turn' = [turn EXCEPT ![t] = r] /\ turn[t].phase \in Live /\ closing = Nobody
        /\ UNCHANGED <<Loop, sub, probe>>
    BY <1>2 DEF Stop, Live
  <2> QED BY <2>2, <2>3, AdvanceIInv
<1>3. CASE Begin(t)
  <2> DEFINE r == [turn[t] EXCEPT !.phase = "streaming"]
  <2>1. turn[t].events <= MaxEvents
    BY <1>3, Ranks DEF IInv, Lives, Begin, Live
  <2>2. r \in TurnRecord /\ r.phase \in Live /\ r.events <= MaxEvents /\ r.session = turn[t].session
        /\ r.persist = turn[t].persist
    BY <1>1, <2>1 DEF TurnRecord, Live
  <2>3. turn' = [turn EXCEPT ![t] = r] /\ turn[t].phase \in Live /\ closing = Nobody
        /\ UNCHANGED <<Loop, sub, probe>>
    BY <1>3 DEF Begin, Live
  <2> QED BY <2>2, <2>3, AdvanceIInv
<1>4. CASE Emit(t)
  <2> DEFINE r == [turn[t] EXCEPT !.events = @ + 1]
  <2>1. r \in TurnRecord /\ r.phase \in Live /\ r.events <= MaxEvents /\ r.session = turn[t].session
        /\ r.persist = turn[t].persist
    BY <1>1, <1>4, TurnsAssumption DEF TurnRecord, Live, Emit
  <2>2. turn' = [turn EXCEPT ![t] = r] /\ turn[t].phase \in Live /\ closing = Nobody
        /\ UNCHANGED <<Loop, sub, probe>>
    BY <1>4 DEF Emit, Live
  <2> QED BY <2>1, <2>2, AdvanceIInv
<1> QED BY <1>2, <1>3, <1>4

\* subscribe() and the reads of the probe change nothing but their locals.
LEMMA OnlookersIInv ==
    ASSUME IInv, UNCHANGED <<turn, Loop>>, ReplayComplete',
           sub' \in [Clients -> [turn : Turns \cup {Nobody}, cursor : 0..MaxEvents + 1,
                                 done : BOOLEAN]],
           probe' \in [Probes -> [step : {"idle", "check", "pop"},
                                  session : Sessions \cup {Nobody}, turn : Turns \cup {Nobody}]],
           Locals'
    PROVE  IInv'
<1> USE TurnsAssumption DEF IInv, Loop
<1>1. TypeOK'
  BY DEF TypeOK
<1>2. Lives' /\ Registered'
  BY DEF Lives, Registered
<1>3. Open' /\ AnswersFollow' /\ NothingAfter' /\ SavedBeforeSeen' /\ SavedBeforeClose'
  BY DEF Open, Kept, AnswersFollow, NothingAfter, SavedBeforeSeen, SavedBeforeClose, Finished, Answered
<1> QED BY <1>1, <1>2, <1>3

\* The frames of subscribe().
LEMMA SubscribeIInv ==
    ASSUME IInv, NEW c \in Clients,
           \/ \E t \in Turns : Attach(c, t)
           \/ Leave(c) \/ Read(c) \/ Done(c)
    PROVE  IInv'
<1> USE TurnsAssumption
<1>0. /\ sub \in [Clients -> [turn : Turns \cup {Nobody}, cursor : 0..MaxEvents + 1,
                             done : BOOLEAN]]
      /\ turn \in [Turns -> TurnRecord]
      /\ ReplayComplete /\ Locals
  BY DEF IInv, TypeOK
<1> DEFINE r == sub'[c]
           One == /\ UNCHANGED <<turn, Loop, probe>>
                  /\ r \in [turn : Turns \cup {Nobody}, cursor : 0..MaxEvents + 1, done : BOOLEAN]
                  /\ sub' = [sub EXCEPT ![c] = r]
                  /\ r.done => /\ Finished(r.turn) /\ r.cursor = turn[r.turn].events
                               /\ r.turn # Nobody
<1>1. One
  <2>0. 0 \in 0..MaxEvents + 1
    OBVIOUS
  <2>1. ASSUME NEW t \in Turns, Attach(c, t) PROVE One
    <3> DEFINE a == [Detached EXCEPT !.turn = t]
    <3>1. /\ a \in [turn : Turns \cup {Nobody}, cursor : 0..MaxEvents + 1, done : BOOLEAN]
          /\ ~a.done
      BY <2>0 DEF Detached
    <3>2. sub' = [sub EXCEPT ![c] = a] /\ UNCHANGED <<turn, Loop, probe>>
      BY <2>1 DEF Attach
    <3> HIDE DEF a
    <3> QED BY <1>0, <3>1, <3>2
  <2>2. CASE Leave(c)
    BY <1>0, <2>0, <2>2 DEF Leave, Detached
  <2>3. CASE Read(c)
    <3>1. sub[c].turn \in Turns /\ turn[sub[c].turn].events \in 0..MaxEvents + 1
      BY <1>0, <2>3 DEF Read, TurnRecord
    <3>2. ~sub[c].done
      BY <1>0, <2>3, <3>1 DEF Read, ReplayComplete
    <3> QED BY <1>0, <2>3, <3>1, <3>2 DEF Read
  <2>4. CASE Done(c)
    BY <1>0, <2>4 DEF Done
  <2> QED BY <2>1, <2>2, <2>3, <2>4
<1>2. ReplayComplete'
  BY <1>0, <1>1 DEF ReplayComplete, Finished
<1>3. /\ probe' \in [Probes -> [step : {"idle", "check", "pop"},
                                session : Sessions \cup {Nobody}, turn : Turns \cup {Nobody}]]
      /\ Locals'
  BY <1>0, <1>1 DEF IInv, TypeOK, Locals
<1> QED BY <1>0, <1>1, <1>2, <1>3, OnlookersIInv

\* The two reads of active_for_session.
LEMMA ProbeReadsIInv ==
    ASSUME IInv, NEW p \in Probes, ProbeCheck(p) \/ \E s \in Sessions : ProbeRead(p, s)
    PROVE  IInv'
<1> USE TurnsAssumption DEF IInv
<1>1. UNCHANGED <<turn, Loop, sub>>
  BY DEF ProbeCheck, ProbeRead
<1>2. ReplayComplete'
  BY <1>1 DEF ReplayComplete, Finished
<1>3. sub' \in [Clients -> [turn : Turns \cup {Nobody}, cursor : 0..MaxEvents + 1,
                            done : BOOLEAN]]
  BY <1>1 DEF TypeOK
<1>4. /\ probe' \in [Probes -> [step : {"idle", "check", "pop"},
                                session : Sessions \cup {Nobody}, turn : Turns \cup {Nobody}]]
      /\ Locals'
  <2>1. CASE ProbeCheck(p)
    BY <2>1 DEF TypeOK, ProbeCheck, NoProbe, Locals
  <2>2. ASSUME NEW s \in Sessions, ProbeRead(p, s)
        PROVE  <1>4!1 /\ <1>4!2
    BY <2>2 DEF TypeOK, ProbeRead, Locals
  <2> QED BY <2>1, <2>2
<1> QED BY <1>1, <1>2, <1>3, <1>4, OnlookersIInv

\* The pop drops the turn that is registered by then.
LEMMA ProbePopIInv ==
    ASSUME IInv, NEW p \in Probes, ProbePop(p)
    PROVE  IInv'
<1> USE TurnsAssumption DEF IInv
<1> DEFINE s == probe[p].session
<1>1. /\ running' = [running EXCEPT ![s] = Nobody]
      /\ dropped' = dropped \cup ({running[s]} \ {Nobody})
      /\ probe' = [probe EXCEPT ![p] = NoProbe]
      /\ UNCHANGED <<turn, table, alive, rows, closing, sub, failures, unsaved>>
      /\ s \in Sessions
  BY DEF ProbePop, Locals
<1>2. running[s] \in Turns \cup {Nobody}
  BY <1>1 DEF TypeOK
<1>3. TypeOK' /\ Locals'
  BY <1>1, <1>2 DEF TypeOK, NoProbe, Locals
<1>4. Lives' /\ ReplayComplete'
  BY <1>1 DEF Lives, ReplayComplete, Finished
<1>5. Registered'
  <2>1. \A q \in Sessions : running'[q] = IF q = s THEN Nobody ELSE running[q]
    BY <1>1 DEF TypeOK
  <2>2. \A t \in dropped' : turn[t].phase # "new"
    BY <1>1, <1>2 DEF Registered
  <2>3. \A t \in Turns : turn[t].session = s /\ turn[t].phase \in Live => t \in dropped'
    BY <1>1, Ranks DEF Registered
  <2> QED BY <1>1, <2>1, <2>2, <2>3 DEF Registered
<1>6. Open' /\ AnswersFollow' /\ NothingAfter' /\ SavedBeforeSeen' /\ SavedBeforeClose'
  BY <1>1, Aside DEF Live, Final, Lives
<1> QED BY <1>3, <1>4, <1>5, <1>6

-----------------------------------------------------------------------------
\* A question without a session, and one that is refused: 409.
LEMMA AskEphemeralIInv ==
    ASSUME IInv, NEW t \in Turns, AskEphemeral(t)
    PROVE  IInv'
<1> USE TurnsAssumption DEF IInv
<1>1. /\ turn' = [turn EXCEPT ![t].phase = "created"]
      /\ turn[t].phase = "new" /\ closing = Nobody
      /\ UNCHANGED <<running, alive, rows, closing, sub, probe, failures, unsaved, dropped>>
  BY DEF AskEphemeral, Fresh
<1>2. /\ table' \in SUBSET Turns /\ t \in table' /\ table' \subseteq table \cup {t}
      /\ \A u \in table : turn[u].phase \notin Final => u \in table'
  BY DEF AskEphemeral, Prune, Finished, TypeOK
<1> DEFINE r == [NewTurn EXCEPT !.phase = "created"]
<1>3. /\ r \in TurnRecord /\ r.phase = "created" /\ r.session = Nobody /\ ~r.persist
      /\ r.events = 0
  <2>1. 0 \in 0..MaxEvents + 1
    OBVIOUS
  <2>2. /\ NewTurn \in TurnRecord /\ NewTurn.session = Nobody /\ ~NewTurn.persist
        /\ NewTurn.events = 0
    BY <2>1 DEF NewTurn, TurnRecord
  <2> QED BY <2>2 DEF TurnRecord, Live
<1>4. turn' = [turn EXCEPT ![t] = r]
  BY <1>1 DEF Lives, TypeOK
<1> HIDE DEF r
<1>5. TypeOK' /\ Locals'
  <2>1. turn' \in [Turns -> TurnRecord]
    BY <1>3, <1>4 DEF TypeOK
  <2> QED BY <1>1, <1>2, <2>1 DEF TypeOK, Locals
<1>6. \A u \in Turns : turn'[u] = IF u = t THEN r ELSE turn[u]
  BY <1>4 DEF TypeOK
<1>7. Lives'
  BY <1>1, <1>2, <1>3, <1>6, Ranks DEF Lives, TypeOK
<1>8. ReplayComplete'
  BY <1>1, <1>6 DEF ReplayComplete, Finished, TypeOK, Final, Locals
<1>9. Registered'
  <2>1. \A s \in Sessions : running'[s] # Nobody => running[s] # t /\ running[s] \in Turns
    BY <1>1 DEF Registered, TypeOK
  <2>2. \A u \in dropped' : u # t /\ u \in Turns
    BY <1>1 DEF Registered, TypeOK
  <2>3. \A u \in Turns : turn'[u].phase \in Live /\ turn'[u].session # Nobody
                            => u # t /\ turn[u].phase \notin Final
    BY <1>3, <1>6 DEF Live, Final
  <2> QED BY <1>1, <1>2, <1>3, <1>6, <2>1, <2>2, <2>3 DEF Registered
<1>10. Open' /\ AnswersFollow' /\ NothingAfter' /\ SavedBeforeSeen' /\ SavedBeforeClose'
  BY <1>1, <1>3, <1>6, Aside DEF Live, Final
<1> QED BY <1>5, <1>7, <1>8, <1>9, <1>10

\* TurnBusyError: only the pruning at its head happened.
LEMMA AskBusyIInv ==
    ASSUME IInv, NEW s \in Sessions, AskBusy(s)
    PROVE  IInv'
<1> USE TurnsAssumption DEF IInv
<1>1. UNCHANGED <<turn, running, alive, rows, closing, sub, probe, failures, unsaved, dropped>>
  BY DEF AskBusy
<1>2. /\ table' \in SUBSET Turns /\ table' \subseteq table
      /\ \A u \in table : turn[u].phase \notin Final => u \in table'
  BY DEF AskBusy, Prune, Finished, TypeOK
<1>3. TypeOK' /\ Locals'
  BY <1>1, <1>2 DEF TypeOK, Locals
<1>4. Lives' /\ ReplayComplete'
  BY <1>1, <1>2 DEF Lives, ReplayComplete, Finished
<1>5. Registered'
  BY <1>1, <1>2 DEF Registered, Live, Final
<1>6. Open' /\ AnswersFollow' /\ NothingAfter' /\ SavedBeforeSeen' /\ SavedBeforeClose'
  BY <1>1, Aside DEF Live, Final, Lives
<1> QED BY <1>3, <1>4, <1>5, <1>6

\* The session goes; its turn is told to stop and forgotten.
LEMMA DeleteSessionIInv ==
    ASSUME IInv, NEW s \in Sessions, DeleteSession(s)
    PROVE  IInv'
<1> USE TurnsAssumption DEF IInv
<1> DEFINE r == running[s]
<1>1. /\ closing = Nobody
      /\ running' = [running EXCEPT ![s] = Nobody]
      /\ UNCHANGED <<closing, sub, probe, unsaved>>
  BY DEF DeleteSession
<1>2. \/ /\ alive' = [alive EXCEPT ![s] = FALSE]
         /\ rows' = [rows EXCEPT ![s] = <<>>]
         /\ failures' = failures
      \/ /\ failures' \in 0..MaxFailures /\ UNCHANGED <<alive, rows>>
  BY DEF DeleteSession, Fails, TypeOK
<1>3. /\ alive' \in [Sessions -> BOOLEAN] /\ rows' \in [Sessions -> Seq(Rows)]
      /\ failures' \in 0..MaxFailures
      /\ \A q \in Sessions : /\ rows'[q] = rows[q] \/ rows'[q] = <<>>
                             /\ alive'[q] => alive[q] /\ rows'[q] = rows[q]
  <2>1. CASE rows' = rows /\ alive' = alive
    BY <1>2, <2>1 DEF TypeOK
  <2>2. CASE rows' = [rows EXCEPT ![s] = <<>>] /\ alive' = [alive EXCEPT ![s] = FALSE]
    <3>1. <<>> \in Seq(Rows)
      OBVIOUS
    <3> QED BY <1>2, <2>2, <3>1 DEF TypeOK
  <2> QED BY <1>2, <2>1, <2>2
<1>4. \A q \in Sessions : running'[q] = IF q = s THEN Nobody ELSE running[q]
  BY <1>1 DEF TypeOK
<1>5. CASE ~Busy(s)
  <2>1. UNCHANGED <<turn, table, dropped>>
    BY <1>5 DEF DeleteSession
  <2>2. TypeOK' /\ Locals'
    BY <1>1, <1>3, <2>1 DEF TypeOK, Locals
  <2>3. Lives' /\ ReplayComplete'
    BY <1>1, <2>1 DEF Lives, ReplayComplete, Finished
  <2>4. \A t \in Turns : turn[t].session = s /\ turn[t].phase \in Live => t \in dropped
    BY <1>5 DEF Registered, Busy, Finished, Live, Final
  <2>5. \A t \in Turns : turn[t].session \in Sessions \cup {Nobody}
    BY DEF TypeOK, TurnRecord
  <2>7. Registered'
    BY <1>4, <2>1, <2>4, <2>5 DEF Registered
  <2>6. Open' /\ AnswersFollow' /\ NothingAfter' /\ SavedBeforeSeen' /\ SavedBeforeClose'
    BY <1>1, <1>3, <2>1, Aside
  <2> QED BY <2>2, <2>3, <2>6, <2>7
<1>6. CASE Busy(s)
  <2>1. /\ turn' = [turn EXCEPT ![r] = Cancelled(@)]
        /\ table' = table \ {r}
        /\ dropped' = dropped \cup {r}
    BY <1>6 DEF DeleteSession
  <2>2. r \in Turns /\ turn[r] \in TurnRecord /\ turn[r].phase \notin Final
        /\ turn[r].session = s /\ turn[r].phase \notin {"new", "lost", "gone"}
        /\ turn[r].phase \in Live
    BY <1>6, Ranks DEF Busy, Finished, TypeOK, Registered, Lives, TurnRecord, Live
  <2> DEFINE n == Cancelled(turn[r])
  <2>3. /\ n \in TurnRecord /\ n.phase \in {"lost", "stopping"} /\ ~n.persist
        /\ n.session = turn[r].session /\ n.events = turn[r].events /\ n.final = turn[r].final
    BY <2>2 DEF Cancelled, TurnRecord, Live
  <2> HIDE DEF n
  <2>4. turn' = [turn EXCEPT ![r] = n]
    BY <2>1 DEF n
  <2>5. \A t \in Turns : turn'[t] = IF t = r THEN n ELSE turn[t]
    BY <2>4 DEF TypeOK
  <2>6. TypeOK' /\ Locals'
    <3>1. turn' \in [Turns -> TurnRecord]
      BY <2>3, <2>4 DEF TypeOK
    <3> QED BY <1>1, <1>3, <2>1, <2>2, <3>1 DEF TypeOK, Locals
  <2>7. ReplayComplete'
    <3> SUFFICES ASSUME NEW c \in Clients, sub[c].done
                 PROVE  turn'[sub[c].turn] = turn[sub[c].turn] /\ Finished(sub[c].turn)
                        /\ sub[c].cursor = turn[sub[c].turn].events
      BY <1>1 DEF ReplayComplete, Finished
    <3>1. sub[c].turn \in Turns /\ Finished(sub[c].turn)
          /\ sub[c].cursor = turn[sub[c].turn].events
      BY DEF Locals, TypeOK, ReplayComplete
    <3> QED BY <2>2, <2>5, <3>1 DEF Finished
  <2>8. Lives'
    BY <1>1, <2>1, <2>2, <2>3, <2>5, Ranks DEF Lives, Live, TypeOK
  <2>9. Registered'
    <3>1. \A t \in Turns : turn[t].session \in Sessions \cup {Nobody}
      BY DEF TypeOK, TurnRecord
    <3>2. \A t \in Turns : turn'[t].session = turn[t].session
                           /\ (turn'[t].phase = "new" <=> turn[t].phase = "new")
                           /\ (t # r => turn'[t] = turn[t])
      BY <2>2, <2>3, <2>5
    <3>3. \A t \in dropped' : turn'[t].phase # "new"
      BY <2>1, <2>2, <3>2 DEF Registered, TypeOK
    <3>4. \A q \in Sessions : running'[q] # Nobody => running'[q] = running[q] /\ running[q] \in Turns
      BY <1>4 DEF TypeOK
    <3>5. \A t \in Turns : t # r /\ turn[t].phase \in Live /\ turn[t].session = s => t \in dropped
      BY Ranks DEF Registered
    <3> QED BY <1>4, <2>1, <2>2, <3>1, <3>2, <3>3, <3>4, <3>5 DEF Registered
  <2>10. Open' /\ AnswersFollow' /\ NothingAfter' /\ SavedBeforeSeen' /\ SavedBeforeClose'
    BY <1>1, <1>3, <2>1, <2>2, <2>3, <2>5, Aside DEF Live, Final
  <2> QED BY <2>6, <2>7, <2>8, <2>9, <2>10
<1> QED BY <1>5, <1>6

\* The process restarts.
LEMMA RestartIInv ==
    ASSUME IInv, Restart
    PROVE  IInv'
<1> USE TurnsAssumption DEF IInv
<1>1. /\ turn' = [t \in Turns |-> IF turn[t].phase \in Live \cup {"lost"}
                                  THEN [turn[t] EXCEPT !.phase = "gone"] ELSE turn[t]]
      /\ table' = {} /\ closing' = Nobody
      /\ running' = [s \in Sessions |-> Nobody]
      /\ sub' = [c \in Clients |-> Detached]
      /\ probe' = [p \in Probes |-> NoProbe]
      /\ UNCHANGED <<alive, rows, unsaved, dropped>>
      /\ failures' \in 0..MaxFailures
  BY DEF Restart, Fails, TypeOK
<1>2. TypeOK' /\ Locals'
  <2>1. turn' \in [Turns -> TurnRecord]
    <3>1. ASSUME NEW t \in Turns
          PROVE  [turn[t] EXCEPT !.phase = "gone"] \in TurnRecord /\ turn[t] \in TurnRecord
      <4>1. turn[t] \in TurnRecord
        BY DEF TypeOK
      <4> QED BY <4>1 DEF TurnRecord
    <3> QED BY <1>1, <3>1
  <2>2. sub' \in [Clients -> [turn : Turns \cup {Nobody}, cursor : 0..MaxEvents + 1,
                              done : BOOLEAN]]
    BY <1>1 DEF Detached
  <2>3. probe' \in [Probes -> [step : {"idle", "check", "pop"},
                               session : Sessions \cup {Nobody}, turn : Turns \cup {Nobody}]]
    BY <1>1 DEF NoProbe
  <2>4. Locals'
    BY <1>1 DEF Locals, Detached, NoProbe
  <2> QED BY <1>1, <2>1, <2>2, <2>3, <2>4 DEF TypeOK
<1>3. \A t \in Turns : /\ turn'[t] = turn[t] \/ turn'[t] = [turn[t] EXCEPT !.phase = "gone"]
                       /\ turn'[t].phase \notin Live \cup {"lost"}
                       /\ turn[t].phase \in Final => turn'[t] = turn[t]
                       /\ turn'[t].phase \in Final => turn'[t] = turn[t]
                       /\ turn'[t].session = turn[t].session /\ turn'[t].persist = turn[t].persist
                       /\ turn'[t].events = turn[t].events
                       /\ turn'[t].phase = "new" <=> turn[t].phase = "new"
  <2> SUFFICES ASSUME NEW t \in Turns PROVE <1>3!(t)
    OBVIOUS
  <2>1. turn[t] \in TurnRecord
    BY DEF TypeOK
  <2>2. CASE turn[t].phase \in Live \cup {"lost"}
    <3>1. turn'[t] = [turn[t] EXCEPT !.phase = "gone"]
      BY <1>1, <2>2
    <3> QED BY <2>1, <2>2, <3>1 DEF TurnRecord, Live, Final
  <2>3. CASE turn[t].phase \notin Live \cup {"lost"}
    BY <1>1, <2>3
  <2> QED BY <2>2, <2>3
<1>4. Lives'
  BY <1>1, <1>3, Ranks DEF Lives
<1>5. ReplayComplete'
  BY <1>1 DEF ReplayComplete, Detached
<1>6. Registered'
  BY <1>1, <1>3 DEF Registered, TypeOK
<1>7. Open' /\ AnswersFollow' /\ NothingAfter' /\ SavedBeforeSeen' /\ SavedBeforeClose'
  BY <1>1, <1>3, Aside
<1> QED BY <1>2, <1>4, <1>5, <1>6, <1>7

\* The rows of every session cascade away.
LEMMA DeleteProductIInv ==
    ASSUME IInv, DeleteProduct
    PROVE  IInv'
<1> USE TurnsAssumption DEF IInv
<1>1. /\ alive' = [s \in Sessions |-> FALSE] /\ rows' = [s \in Sessions |-> <<>>]
      /\ UNCHANGED <<turn, table, running, closing, sub, probe, failures, unsaved, dropped>>
  BY DEF DeleteProduct
<1>2. TypeOK' /\ Locals'
  BY <1>1 DEF TypeOK, Locals
<1>3. Lives' /\ ReplayComplete' /\ Registered'
  BY <1>1 DEF Lives, ReplayComplete, Registered, Finished
<1>4. Open' /\ AnswersFollow' /\ NothingAfter' /\ SavedBeforeSeen' /\ SavedBeforeClose'
  BY <1>1, Aside
<1> QED BY <1>2, <1>3, <1>4

-----------------------------------------------------------------------------
\* What a row more does to the transcripts: it is a question, or an answer that
\* follows its question or stands alone.
LEMMA Pairs ==
    ASSUME IInv, NEW s \in Sessions, NEW r \in Rows,
           rows' = [rows EXCEPT ![s] = Append(rows[s], r)],
           Kept(s) => \A i \in DOMAIN rows[s] : rows[s][i].turn = r.turn =>
                         i = Len(rows[s]) /\ rows[s][i].role = "user" /\ r.role = "assistant",
           dropped' = dropped, \A u \in dropped : turn'[u].session = turn[u].session
    PROVE  AnswersFollow'
<1> USE DEF IInv
<1> DEFINE n == Len(rows[s]) + 1
<1>1. rows[s] \in Seq(Rows)
  BY DEF TypeOK
<1>2. /\ \A q \in Sessions : rows'[q] = IF q = s THEN Append(rows[s], r) ELSE rows[q]
      /\ DOMAIN rows'[s] = 1..n /\ DOMAIN rows[s] = 1..n - 1 /\ n \in Nat
      /\ \A i \in 1..n - 1 : rows'[s][i] = rows[s][i]
      /\ rows'[s][n] = r
  BY <1>1, RowAppended DEF TypeOK
<1> HIDE DEF n
<1>3. \A q \in Sessions : Kept(q)' => Kept(q)
  BY DEF Kept
<1> SUFFICES ASSUME NEW q \in Sessions, Kept(q)', NEW i \in DOMAIN rows'[q],
                    NEW j \in DOMAIN rows'[q], i < j, rows'[q][i].turn = rows'[q][j].turn
             PROVE  j = i + 1 /\ rows'[q][i].role = "user" /\ rows'[q][j].role = "assistant"
  BY DEF AnswersFollow, Kept
<1>4. Kept(q)
  BY <1>3
<1>5. CASE q # s
  BY <1>2, <1>4, <1>5 DEF AnswersFollow, Kept
<1>6. CASE q = s /\ j # n
  <2>1. i \in DOMAIN rows[s] /\ j \in DOMAIN rows[s]
        /\ rows'[s][i] = rows[s][i] /\ rows'[s][j] = rows[s][j]
    BY <1>2, <1>6
  <2> QED BY <1>4, <1>6, <2>1 DEF AnswersFollow, Kept
<1>7. CASE q = s /\ j = n
  <2>1. i \in 1..n - 1 /\ rows'[s][i] = rows[s][i]
    BY <1>2, <1>7
  <2>2. rows[s][i].turn = r.turn
    BY <1>2, <1>7, <2>1
  <2>3. i = n - 1 /\ rows[s][i].role = "user" /\ r.role = "assistant"
    BY <1>1, <1>2, <1>4, <1>7, <2>1, <2>2 DEF n
  <2> QED BY <1>2, <1>7, <2>1, <2>3
<1> QED BY <1>5, <1>6, <1>7

\* ... and to the rows that are there: none goes.
LEMMA RowsStay ==
    ASSUME IInv, NEW s \in Sessions, NEW r \in Rows,
           rows' = rows \/ rows' = [rows EXCEPT ![s] = Append(rows[s], r)],
           NEW q \in Sessions, NEW i \in DOMAIN rows[q]
    PROVE  i \in DOMAIN rows'[q] /\ rows'[q][i] = rows[q][i]
<1>1. CASE rows' = rows
  BY <1>1
<1>2. CASE rows' = [rows EXCEPT ![s] = Append(rows[s], r)]
  <2>1. rows[q] \in Seq(Rows) /\ rows'[q] = IF q = s THEN Append(rows[q], r) ELSE rows[q]
    BY <1>2 DEF IInv, TypeOK
  <2>2. CASE q # s
    BY <2>1, <2>2
  <2>3. CASE q = s
    BY <2>1, <2>3, RowAppended
  <2> QED BY <2>2, <2>3
<1> QED BY <1>1, <1>2

\* A question in a session: expert_ask and start_turn.
LEMMA AskIInv ==
    ASSUME IInv, NEW s \in Sessions, NEW t \in Turns, Ask(s, t)
    PROVE  IInv'
<1> USE TurnsAssumption DEF IInv
<1> DEFINE r == [NewTurn EXCEPT !.phase = "created", !.session = s, !.persist = TRUE]
           line == [turn |-> t, role |-> "user"]
<1>1. /\ closing = Nobody /\ turn[t].phase = "new" /\ ~Busy(s)
      /\ turn' = [turn EXCEPT ![t] = r]
      /\ running' = [running EXCEPT ![s] = t]
      /\ PersistRow(s, t, "user")
      /\ UNCHANGED <<alive, closing, sub, probe, dropped>>
  BY DEF Ask, Fresh
<1>2. /\ table' \in SUBSET Turns /\ t \in table' /\ table' \subseteq table \cup {t}
      /\ \A u \in table : turn[u].phase \notin Final => u \in table'
  BY DEF Ask, Prune, Finished, TypeOK
<1>3. /\ r \in TurnRecord /\ r.phase = "created" /\ r.session = s /\ r.persist /\ r.events = 0
  <2>1. 0 \in 0..MaxEvents + 1
    OBVIOUS
  <2>2. NewTurn \in TurnRecord /\ NewTurn.events = 0
    BY <2>1 DEF NewTurn, TurnRecord
  <2> QED BY <2>2 DEF TurnRecord, Live
<1> HIDE DEF r
<1>4. /\ rows' \in [Sessions -> Seq(Rows)] /\ failures' \in 0..MaxFailures /\ unsaved' = unsaved
      /\ rows' = rows \/ rows' = [rows EXCEPT ![s] = Append(rows[s], line)]
  BY <1>1, PersistRowRows
<1>5. \A u \in Turns : turn'[u] = IF u = t THEN r ELSE turn[u]
  BY <1>1 DEF TypeOK
<1>6. TypeOK' /\ Locals'
  <2>1. turn' \in [Turns -> TurnRecord]
    BY <1>1, <1>3 DEF TypeOK
  <2> QED BY <1>1, <1>2, <1>4, <2>1 DEF TypeOK, Locals
<1>7. Lives'
  BY <1>1, <1>2, <1>3, <1>5, Ranks DEF Lives, TypeOK
<1>8. ReplayComplete'
  BY <1>1, <1>5 DEF ReplayComplete, Finished, TypeOK, Final, Locals
<1>9. \A u \in dropped : u # t /\ u \in Turns
  BY <1>1 DEF Registered, TypeOK
<1>10. \A u \in Turns : turn[u].phase \in Live /\ turn[u].session = s => u \in dropped
  BY <1>1 DEF Registered, Busy, Finished, Live, Final
<1>11. Registered'
  <2>1. \A q \in Sessions : /\ running'[q] = IF q = s THEN t ELSE running[q]
                            /\ running[q] # Nobody => running[q] # t /\ running[q] \in Turns
    BY <1>1 DEF Registered, TypeOK
  <2>2. \A u \in Turns : turn[u].session \in Sessions \cup {Nobody}
    BY DEF TypeOK, TurnRecord
  <2>3. \A u \in Turns : u # t /\ turn[u].phase \in Live => turn[u].phase \notin Final
    BY DEF Live, Final
  <2>4. \A u \in Turns : LET q == turn'[u].session IN
           turn'[u].phase \in Live /\ q # Nobody /\ u \notin dropped
              => running'[q] = u /\ u \in table'
    BY <1>2, <1>3, <1>5, <1>10, <2>1, <2>2, <2>3 DEF Registered
  <2>5. \A q \in Sessions : running'[q] # Nobody =>
           turn'[running'[q]].phase # "new" /\ turn'[running'[q]].session = q
    BY <1>3, <1>5, <2>1 DEF Registered
  <2> QED BY <1>1, <1>3, <1>5, <1>9, <2>4, <2>5 DEF Registered
<1>12. Open'
  <2> SUFFICES ASSUME NEW q \in Sessions, NEW i \in DOMAIN rows'[q], NEW u, u = rows'[q][i].turn
               PROVE  /\ turn'[u].phase # "new" /\ turn'[u].session = q
                      /\ Kept(q)' /\ turn'[u].phase \in Live
                            => i = Len(rows'[q]) /\ rows'[q][i].role = "user"
    BY DEF Open
  <2>1. Kept(q)' => Kept(q)
    BY <1>1, <1>5, <1>9 DEF Kept
  <2>2. rows[q] \in Seq(Rows) /\ line \in Rows
    BY DEF TypeOK, Rows
  <2>3. CASE q = s /\ rows' # rows /\ i = Len(rows[s]) + 1
    <3>1. rows'[q][i] = line /\ i = Len(rows'[q])
      BY <1>4, <2>2, <2>3, RowAppended DEF TypeOK
    <3> QED BY <1>3, <1>5, <2>3, <3>1
  <2>4. CASE ~(q = s /\ rows' # rows /\ i = Len(rows[s]) + 1)
    <3>0. q # s \/ rows' = rows => rows'[q] = rows[q]
      BY <1>4 DEF TypeOK
    <3>1. i \in DOMAIN rows[q] /\ rows'[q][i] = rows[q][i]
          /\ (q # s \/ rows' = rows => rows'[q] = rows[q])
      <4>1. CASE q # s \/ rows' = rows
        BY <3>0, <4>1
      <4>2. CASE q = s /\ rows' # rows
        <5>1. rows'[q] = Append(rows[s], line)
          BY <1>4, <4>2 DEF TypeOK
        <5> QED BY <2>2, <2>4, <4>2, <5>1, RowAppended
      <4> QED BY <4>1, <4>2
    <3>2. turn[u].phase # "new" /\ turn[u].session = q /\ u \in Turns
      <4>1. rows[q][i] \in Rows
        BY <2>2, <3>1
      <4> QED BY <3>1, <4>1 DEF Open, Rows
    <3>3. turn'[u] = turn[u]
      BY <1>1, <1>5, <3>2
    <3>4. q = s => ~(Kept(q) /\ turn[u].phase \in Live)
      BY <1>10, <3>2 DEF Kept
    <3> QED BY <1>1, <2>1, <3>1, <3>2, <3>3, <3>4, Ranks DEF Open
  <2> QED BY <2>3, <2>4
<1>13. AnswersFollow'
  <2>1. CASE rows' = rows
    BY <1>1, <1>5, <1>9, <2>1 DEF AnswersFollow, Kept
  <2>2. CASE rows' = [rows EXCEPT ![s] = Append(rows[s], line)]
    <3>1. \A i \in DOMAIN rows[s] : rows[s][i].turn # t
      BY <1>1 DEF Open
    <3>2. \A u \in dropped : turn'[u].session = turn[u].session
      BY <1>5, <1>9
    <3>3. line \in Rows /\ line.turn = t
      BY DEF Rows
    <3> HIDE DEF line
    <3> QED BY <1>1, <2>2, <3>1, <3>2, <3>3, Pairs
  <2> QED BY <1>4, <2>1, <2>2
<1>14. SavedBeforeSeen' /\ SavedBeforeClose'
  <2> SUFFICES ASSUME NEW u \in Turns, Finished(u)', turn'[u].persist, Answered(u)',
                      alive'[turn'[u].session], u \notin unsaved'
               PROVE  \E i \in DOMAIN rows'[turn'[u].session] :
                         rows'[turn'[u].session][i] = [turn |-> u, role |-> "assistant"]
    BY <1>1 DEF SavedBeforeSeen, SavedBeforeClose
  <2>1. turn'[u] = turn[u] /\ turn[u].session \in Sessions
    BY <1>3, <1>5 DEF Finished, Final, Lives
  <2>2. \E i \in DOMAIN rows[turn[u].session] :
           rows[turn[u].session][i] = [turn |-> u, role |-> "assistant"]
    BY <1>1, <1>4, <2>1 DEF SavedBeforeSeen, Finished, Answered
  <2>3. line \in Rows
    BY DEF Rows
  <2> QED BY <1>4, <2>1, <2>2, <2>3, RowsStay
<1>15. NothingAfter'
  BY <1>1, <1>4, <1>12, LastWord
<1> QED BY <1>6, <1>7, <1>8, <1>11, <1>12, <1>13, <1>14, <1>15

\* The outcome is decided and the answer written.
LEMMA FinishIInv ==
    ASSUME IInv, NEW t \in Turns, Finish(t)
    PROVE  IInv'
<1> USE TurnsAssumption DEF IInv
<1> DEFINE s == turn[t].session
           line == [turn |-> t, role |-> "assistant"]
<1>1. PICK outcome \in Outcomes(t) :
         turn' = [turn EXCEPT ![t].final = outcome,
                              ![t].events = IF outcome = "failed" THEN @ + 1 ELSE @]
  BY DEF Finish
<1> DEFINE r == [turn[t] EXCEPT !.final = outcome,
                                !.events = IF outcome = "failed" THEN @ + 1 ELSE @]
<1>2. /\ closing = Nobody /\ closing' = t
      /\ turn[t].phase \in {"streaming", "stopping"} /\ outcome \in Final
      /\ UNCHANGED <<table, running, alive, sub, probe, dropped>>
  BY <1>1 DEF Finish, Outcomes, Final
<1>3. turn[t] \in TurnRecord /\ turn[t].events <= MaxEvents
  BY <1>2, Ranks DEF Lives, Live, TypeOK
<1>4. /\ r \in TurnRecord /\ r.phase = turn[t].phase /\ r.session = s /\ r.persist = turn[t].persist
      /\ r.final = outcome
      /\ r.events = IF outcome = "failed" THEN turn[t].events + 1 ELSE turn[t].events
  <2>0. turn[t].events \in Int /\ turn[t].events + 1 \in 0..MaxEvents + 1
    BY <1>3 DEF TurnRecord
  <2>1. CASE outcome = "failed"
    BY <1>2, <1>3, <2>0, <2>1 DEF TurnRecord
  <2>2. CASE outcome # "failed"
    BY <1>2, <1>3, <2>2 DEF TurnRecord
  <2> QED BY <2>1, <2>2
<1>5. turn' = [turn EXCEPT ![t] = r]
  <2>1. turn \in [Turns -> TurnRecord]
    BY DEF TypeOK
  <2>2. [turn[t] EXCEPT !.final = outcome].events = turn[t].events
    BY <1>3 DEF TurnRecord
  <2> QED BY <1>1, <1>3, <2>1, <2>2
<1> HIDE DEF r
<1>6. \A u \in Turns : turn'[u] = IF u = t THEN r ELSE turn[u]
  BY <1>5 DEF TypeOK
<1> DEFINE Rest == /\ rows' \in [Sessions -> Seq(Rows)] /\ failures' \in 0..MaxFailures
                   /\ unsaved' \subseteq unsaved \cup {t} /\ unsaved \subseteq unsaved'
                   /\ \A q \in Sessions : \A i \in DOMAIN rows[q] :
                         i \in DOMAIN rows'[q] /\ rows'[q][i] = rows[q][i]
                   /\ Open' /\ AnswersFollow' /\ NothingAfter' /\ SavedBeforeClose'
<1>7. ASSUME turn[t].persist /\ turn[t].events > 0 PROVE Rest
  <2>1. s \in Sessions /\ PersistRow(s, t, "assistant")
    BY <1>7 DEF Finish, Lives
  <2>2. /\ rows' \in [Sessions -> Seq(Rows)] /\ failures' \in 0..MaxFailures
        /\ unsaved' \subseteq unsaved \cup {t} /\ unsaved \subseteq unsaved'
        /\ \/ rows' = rows /\ (alive[s] => t \in unsaved')
           \/ rows' = [rows EXCEPT ![s] = Append(rows[s], line)]
    BY <2>1, PersistRowRows
  <2>3. line \in Rows /\ rows[s] \in Seq(Rows)
    BY <2>1 DEF Rows, TypeOK
  <2>4. rows' = rows \/ rows' = [rows EXCEPT ![s] = Append(rows[s], line)]
    BY <2>2
  <2>5. \A q \in Sessions : \A i \in DOMAIN rows[q] :
           i \in DOMAIN rows'[q] /\ rows'[q][i] = rows[q][i]
    BY <2>1, <2>3, <2>4, RowsStay
  <2>6. Open'
    <3> SUFFICES ASSUME NEW q \in Sessions, NEW i \in DOMAIN rows'[q], NEW u, u = rows'[q][i].turn
                 PROVE  /\ turn'[u].phase # "new" /\ turn'[u].session = q
                        /\ Kept(q)' /\ turn'[u].phase \in Live /\ u # t
                              => i = Len(rows'[q]) /\ rows'[q][i].role = "user"
      BY <1>2 DEF Open
    <3>1. CASE q = s /\ rows' # rows /\ i = Len(rows[s]) + 1
      <4>1. rows'[s] = Append(rows[s], line)
        BY <2>1, <2>4, <3>1 DEF TypeOK
      <4>2. u = t
        BY <2>3, <3>1, <4>1, RowAppended
      <4> QED BY <1>2, <1>4, <1>6, <3>1, <4>2
    <3>2. CASE ~(q = s /\ rows' # rows /\ i = Len(rows[s]) + 1)
      <4>1. i \in DOMAIN rows[q] /\ rows'[q][i] = rows[q][i]
            /\ (q # s => rows'[q] = rows[q])
        <5>1. CASE rows' = rows
          BY <5>1
        <5>2. CASE rows' # rows
          <6>1. rows'[q] = IF q = s THEN Append(rows[s], line) ELSE rows[q]
            BY <2>4, <5>2 DEF TypeOK
          <6> QED BY <2>3, <3>2, <5>2, <6>1, RowAppended
        <5> QED BY <5>1, <5>2
      <4>2. turn[u].phase # "new" /\ turn[u].session = q /\ u \in Turns
        <5>1. rows[q] \in Seq(Rows)
          BY DEF TypeOK
        <5>2. rows[q][i] \in Rows
          BY <4>1, <5>1
        <5> QED BY <4>1, <5>2 DEF Open, Rows
      <4>3. turn'[u].phase = turn[u].phase /\ turn'[u].session = q
        BY <1>4, <1>6, <4>2
      <4>4. Kept(q)' => Kept(q)
        BY <1>2, <1>4, <1>6 DEF Kept, TypeOK
      <4>5. CASE q = s
        <5>1. Kept(s) /\ turn[u].phase \in Live => u = t
          BY <1>2, <2>1, <4>2, <4>5, Ranks DEF Registered, Kept, Live
        <5> QED BY <4>2, <4>3, <4>4, <4>5, <5>1
      <4>6. CASE q # s
        BY <1>2, <4>1, <4>2, <4>3, <4>4, <4>6, Ranks DEF Open
      <4> QED BY <4>5, <4>6
    <3> QED BY <3>1, <3>2
  <2>7. AnswersFollow'
    <3>1. \A u \in dropped : turn'[u].session = turn[u].session
      BY <1>4, <1>6 DEF TypeOK
    <3>2. CASE rows' = rows
      BY <1>2, <3>1, <3>2 DEF AnswersFollow, Kept
    <3>3. CASE rows' = [rows EXCEPT ![s] = Append(rows[s], line)]
      <4>1. Kept(s) => \A i \in DOMAIN rows[s] : rows[s][i].turn = t =>
               i = Len(rows[s]) /\ rows[s][i].role = "user"
        BY <1>2, <2>1, Ranks DEF Open, Live
      <4>2. line.turn = t /\ line.role = "assistant" /\ dropped' = dropped
        BY <1>2
      <4> HIDE DEF line, s
      <4> QED BY <2>1, <2>3, <3>1, <3>3, <4>1, <4>2, Pairs
    <3> QED BY <2>4, <3>2, <3>3
  <2>9. NothingAfter'
    <3> SUFFICES ASSUME NEW q \in Sessions, NEW i \in DOMAIN rows'[q], Kept(q)',
                        rows'[q][i].turn = t, i < Len(rows'[q])
                 PROVE  i + 1 = Len(rows'[q]) /\ rows'[q][i + 1].turn = t
      BY <1>2, <2>2, <2>6, LastWord
    <3>1. Kept(q)
      BY <1>2, <1>4, <1>6 DEF Kept, TypeOK
    <3>2. rows[q] \in Seq(Rows)
      BY DEF TypeOK
    <3>3. CASE rows'[q] = rows[q]
      BY <1>2, <3>1, <3>2, <3>3, Ranks DEF Open, Live
    <3>4. CASE rows'[q] # rows[q]
      <4>1. q = s /\ rows'[q] = Append(rows[q], line)
        BY <2>4, <3>4 DEF TypeOK
      <4>2. i \in DOMAIN rows[q] /\ rows[q][i].turn = t
        BY <2>3, <3>2, <4>1, RowAppended
      <4>3. i = Len(rows[q])
        BY <1>2, <3>1, <4>2, Ranks DEF Open, Live
      <4>4. rows'[q][Len(rows[q]) + 1] = line /\ Len(rows'[q]) = Len(rows[q]) + 1
        BY <2>3, <3>2, <4>1, RowAppended
      <4> QED BY <4>3, <4>4
    <3> QED BY <3>3, <3>4
  <2>8. SavedBeforeClose'
    <3> SUFFICES ASSUME alive[s], t \notin unsaved'
                 PROVE  \E i \in DOMAIN rows'[s] : rows'[s][i] = line
      BY <1>2, <1>4, <1>6 DEF SavedBeforeClose
    <3>1. rows' = [rows EXCEPT ![s] = Append(rows[s], line)]
      BY <2>2
    <3>2. rows'[s] = Append(rows[s], line)
      BY <2>1, <3>1 DEF TypeOK
    <3> HIDE DEF line, s
    <3>3. Len(rows[s]) + 1 \in DOMAIN rows'[s] /\ rows'[s][Len(rows[s]) + 1] = line
      BY <2>3, <3>2, RowAppended
    <3> QED BY <3>3
  <2> QED BY <2>2, <2>5, <2>6, <2>7, <2>8, <2>9
<1>8. ASSUME ~(turn[t].persist /\ turn[t].events > 0) PROVE Rest
  <2>1. UNCHANGED <<rows, failures, unsaved>>
    BY <1>8 DEF Finish
  <2>2. \A u \in dropped : turn'[u].session = turn[u].session
    BY <1>4, <1>6 DEF TypeOK
  <2>3. AnswersFollow'
    BY <1>2, <2>1, <2>2 DEF AnswersFollow, Kept
  <2>4. SavedBeforeClose'
    BY <1>2, <1>3, <1>4, <1>6, <1>8, <2>1 DEF SavedBeforeClose, TurnRecord
  <2>5. Open'
    <3> SUFFICES ASSUME NEW q \in Sessions, NEW i \in DOMAIN rows[q], NEW u, u = rows[q][i].turn
                 PROVE  /\ turn'[u].phase # "new" /\ turn'[u].session = q
                        /\ Kept(q)' /\ turn'[u].phase \in Live
                              => i = Len(rows[q]) /\ rows[q][i].role = "user"
      BY <2>1 DEF Open
    <3>1. rows[q] \in Seq(Rows)
      BY DEF TypeOK
    <3>2. rows[q][i] \in Rows
      BY <3>1
    <3>3. u \in Turns /\ turn[u].session = q /\ turn[u].phase # "new"
      BY <3>2 DEF Open, Rows
    <3>4. turn'[u].phase = turn[u].phase /\ turn'[u].session = q
      BY <1>4, <1>6, <3>3
    <3>5. Kept(q)' => Kept(q)
      BY <1>2, <2>2 DEF Kept
    <3> QED BY <1>2, <3>3, <3>4, <3>5, Ranks DEF Open
  <2>6. NothingAfter'
    <3> SUFFICES ASSUME NEW q \in Sessions, NEW i \in DOMAIN rows[q], Kept(q)',
                        rows[q][i].turn = t, i < Len(rows[q])
                 PROVE  FALSE
      <4>1. \A q \in Sessions : rows'[q] \in Seq(Rows)
        BY <2>1 DEF TypeOK
      <4> QED BY <1>2, <2>1, <2>5, <4>1, LastWord
    <3>1. Kept(q)
      BY <1>2, <2>2 DEF Kept
    <3>2. rows[q] \in Seq(Rows)
      BY DEF TypeOK
    <3> QED BY <1>2, <3>1, <3>2, Ranks DEF Open, Live
  <2> QED BY <2>1, <2>3, <2>4, <2>5, <2>6 DEF TypeOK
<1>9. Rest
  BY <1>7, <1>8
<1>10. TypeOK' /\ Locals'
  <2>1. turn' \in [Turns -> TurnRecord]
    BY <1>4, <1>5 DEF TypeOK
  <2> QED BY <1>2, <1>9, <2>1 DEF TypeOK, Locals
<1>11. Lives'
  BY <1>2, <1>3, <1>4, <1>6, Ranks DEF Lives, TypeOK
<1>12. ReplayComplete'
  <2> SUFFICES ASSUME NEW c \in Clients, sub[c].done
               PROVE  turn'[sub[c].turn].phase \in Final /\ sub[c].cursor = turn'[sub[c].turn].events
    BY <1>2 DEF ReplayComplete, Finished
  <2>1. sub[c].turn \in Turns /\ Finished(sub[c].turn) /\ sub[c].cursor = turn[sub[c].turn].events
    BY DEF Locals, TypeOK, ReplayComplete
  <2>2. sub[c].turn # t
    BY <1>2, <2>1 DEF Finished, Final
  <2> QED BY <1>6, <2>1, <2>2 DEF Finished
<1>13. Registered'
  <2>1. \A u \in Turns : turn'[u].session = turn[u].session /\ turn'[u].phase = turn[u].phase
    BY <1>4, <1>6
  <2>2. \A q \in Sessions : running[q] # Nobody => running[q] \in Turns
    BY DEF TypeOK
  <2>3. dropped \subseteq Turns
    BY DEF TypeOK
  <2> QED BY <1>2, <2>1, <2>2, <2>3 DEF Registered
<1>14. SavedBeforeSeen'
  <2> SUFFICES ASSUME NEW u \in Turns, Finished(u)', turn'[u].persist, Answered(u)',
                      alive'[turn'[u].session], u \notin unsaved'
               PROVE  \E i \in DOMAIN rows'[turn'[u].session] :
                         rows'[turn'[u].session][i] = [turn |-> u, role |-> "assistant"]
    BY DEF SavedBeforeSeen
  <2>1. turn'[u] = turn[u] /\ turn[u].session \in Sessions
    BY <1>2, <1>4, <1>6 DEF Finished, Final, Lives
  <2>2. \E i \in DOMAIN rows[turn[u].session] :
           rows[turn[u].session][i] = [turn |-> u, role |-> "assistant"]
    BY <1>2, <1>9, <2>1 DEF SavedBeforeSeen, Finished, Answered
  <2> QED BY <1>9, <2>1, <2>2
<1> QED BY <1>9, <1>10, <1>11, <1>12, <1>13, <1>14

\* The status flips.
LEMMA CloseIInv ==
    ASSUME IInv, NEW t \in Turns, Close(t)
    PROVE  IInv'
<1> USE TurnsAssumption DEF IInv
<1> DEFINE r == [turn[t] EXCEPT !.phase = turn[t].final]
<1>1. /\ closing = t /\ closing' = Nobody /\ t # Nobody
      /\ turn' = [turn EXCEPT ![t] = r]
      /\ running' = [s \in Sessions |-> IF running[s] = t THEN Nobody ELSE running[s]]
      /\ UNCHANGED <<alive, rows, sub, probe, failures, unsaved, dropped>>
  BY Ranks DEF Close, Unregistered
<1>2. /\ table' \in SUBSET Turns /\ table' \subseteq table
      /\ \A u \in table : turn[u].phase \notin Final => u \in table'
  BY DEF Close, Prune, Finished, TypeOK
<1>3. /\ turn[t] \in TurnRecord /\ turn[t].final \in Final
      /\ turn[t].phase \in {"streaming", "stopping"}
  BY <1>1 DEF Lives, TypeOK
<1>4. /\ r \in TurnRecord /\ r.phase = turn[t].final /\ r.session = turn[t].session
      /\ r.persist = turn[t].persist /\ r.events = turn[t].events
  BY <1>3 DEF TurnRecord
<1> HIDE DEF r
<1>5. \A u \in Turns : turn'[u] = IF u = t THEN r ELSE turn[u]
  BY <1>1 DEF TypeOK
<1>6. TypeOK' /\ Locals'
  <2>1. turn' \in [Turns -> TurnRecord]
    BY <1>1, <1>4 DEF TypeOK
  <2> QED BY <1>1, <1>2, <2>1 DEF TypeOK, Locals
<1>7. Lives'
  BY <1>1, <1>2, <1>3, <1>4, <1>5 DEF Lives, TypeOK, Live, Final
<1>8. ReplayComplete'
  <2> SUFFICES ASSUME NEW c \in Clients, sub[c].done
               PROVE  turn'[sub[c].turn].phase \in Final /\ sub[c].cursor = turn'[sub[c].turn].events
    BY <1>1 DEF ReplayComplete, Finished
  <2>1. sub[c].turn \in Turns /\ Finished(sub[c].turn) /\ sub[c].cursor = turn[sub[c].turn].events
    BY DEF Locals, TypeOK, ReplayComplete
  <2>2. sub[c].turn # t
    BY <1>3, <2>1 DEF Finished, Final
  <2> QED BY <1>5, <2>1, <2>2 DEF Finished
<1>9. \A u \in Turns : /\ turn'[u].session = turn[u].session /\ turn'[u].persist = turn[u].persist
                       /\ u # t => turn'[u] = turn[u]
  BY <1>4, <1>5
<1>10. Registered'
  <2>1. turn'[t].phase \in Final
    BY <1>3, <1>4, <1>5
  <2>2. \A q \in Sessions : running'[q] # Nobody =>
           running'[q] = running[q] /\ running[q] # t /\ running[q] \in Turns
    BY <1>1 DEF TypeOK
  <2>3. \A u \in dropped : turn'[u].phase # "new"
    BY <1>9, <2>1 DEF Registered, TypeOK, Final
  <2>4. \A u \in Turns : turn[u].session \in Sessions \cup {Nobody}
    BY DEF TypeOK, TurnRecord
  <2>5. \A u \in Turns : turn'[u].phase \in Live \cup {"lost"} => u # t /\ turn[u].phase \notin Final
    BY <1>9, <2>1 DEF Live, Final
  <2> QED BY <1>1, <1>2, <1>9, <2>2, <2>3, <2>4, <2>5 DEF Registered
<1>11. Open'
  <2> SUFFICES ASSUME NEW q \in Sessions, NEW i \in DOMAIN rows[q], NEW u, u = rows[q][i].turn
               PROVE  /\ turn'[u].phase # "new" /\ turn'[u].session = q
                      /\ Kept(q)' /\ turn'[u].phase \in Live
                            => i = Len(rows[q]) /\ rows[q][i].role = "user"
    BY <1>1 DEF Open
  <2>1. u \in Turns /\ turn[u].session = q /\ turn[u].phase # "new"
    <3>1. rows[q] \in Seq(Rows)
      BY DEF TypeOK
    <3>2. rows[q][i] \in Rows
      BY <3>1
    <3> QED BY <3>2 DEF Open, Rows
  <2>2. Kept(q)' => Kept(q)
    BY <1>1, <1>9 DEF Kept, TypeOK
  <2>3. CASE u = t
    BY <1>3, <1>4, <1>5, <2>1, <2>3 DEF Live, Final
  <2>4. CASE u # t
    BY <1>1, <1>9, <2>1, <2>2, <2>4 DEF Open
  <2> QED BY <2>3, <2>4
<1>12. AnswersFollow'
  <2>1. \A u \in dropped : turn'[u].session = turn[u].session
    BY <1>9 DEF TypeOK
  <2> QED BY <1>1, <2>1 DEF AnswersFollow, Kept
<1>13. SavedBeforeSeen' /\ SavedBeforeClose'
  <2> SUFFICES ASSUME NEW u \in Turns, Finished(u)', turn'[u].persist, Answered(u)',
                      alive[turn[u].session], u \notin unsaved
               PROVE  \E i \in DOMAIN rows[turn[u].session] :
                         rows[turn[u].session][i] = [turn |-> u, role |-> "assistant"]
    BY <1>1, <1>9 DEF SavedBeforeSeen, SavedBeforeClose
  <2>1. CASE u = t
    BY <1>1, <1>4, <1>5, <2>1 DEF SavedBeforeClose, Answered
  <2>2. CASE u # t
    BY <1>9, <2>2 DEF SavedBeforeSeen, Finished, Answered
  <2> QED BY <2>1, <2>2
<1>14. NothingAfter'
  <2>1. \A q \in Sessions : rows'[q] \in Seq(Rows)
    BY <1>1 DEF TypeOK
  <2> QED BY <1>1, <1>11, <2>1, LastWord
<1> QED BY <1>6, <1>7, <1>8, <1>10, <1>11, <1>12, <1>13, <1>14

-----------------------------------------------------------------------------
\* Every step keeps the invariant.
LEMMA NextIInv == IInv /\ [Next]_vars => IInv'
<1> SUFFICES ASSUME IInv, [Next]_vars PROVE IInv'
  OBVIOUS
<1>1. ASSUME NEW t \in Turns,
             \/ AskEphemeral(t) \/ Stop(t) \/ Begin(t) \/ Emit(t) \/ Finish(t) \/ Close(t)
             \/ \E s \in Sessions : Ask(s, t)
      PROVE  IInv'
  BY <1>1, AskEphemeralIInv, AdvancesIInv, FinishIInv, CloseIInv, AskIInv
<1>2. ASSUME NEW s \in Sessions, AskBusy(s) \/ DeleteSession(s) PROVE IInv'
  BY <1>2, AskBusyIInv, DeleteSessionIInv
<1>3. CASE DeleteProduct \/ Restart
  BY <1>3, DeleteProductIInv, RestartIInv
<1>4. ASSUME NEW c \in Clients,
             (\E t \in Turns : Attach(c, t)) \/ Leave(c) \/ Read(c) \/ Done(c)
      PROVE  IInv'
  BY <1>4, SubscribeIInv
<1>5. ASSUME NEW p \in Probes, ProbeCheck(p) \/ ProbePop(p) \/ \E s \in Sessions : ProbeRead(p, s)
      PROVE  IInv'
  BY <1>5, ProbeReadsIInv, ProbePopIInv
<1>6. CASE UNCHANGED vars
  <2>1. UNCHANGED <<turn, Loop>> /\ UNCHANGED <<sub, probe>>
    BY <1>6 DEF vars, Loop
  <2>2. ReplayComplete' /\ Locals'
    BY <2>1 DEF IInv, ReplayComplete, Finished, Locals
  <2> QED BY <2>1, <2>2, OnlookersIInv DEF IInv, TypeOK
<1> QED
  BY <1>1, <1>2, <1>3, <1>4, <1>5, <1>6 DEF Next

\* IInv: registry, tasks, transcripts and streams fit together at any time
\* (_TURNS, _RUNNING_BY_SESSION and the chat_messages rows of expert/turns.py).
THEOREM Invariance == Spec => []IInv
<1>1. Init => IInv
  BY InitIInv
<1>2. IInv /\ [Next]_vars => IInv'
  BY NextIInv
<1> QED
  BY <1>1, <1>2, PTL DEF Spec

\* TranscriptPaired: an answer follows its question directly, and a question
\* that another one follows is of a turn that has ended and never answers it,
\* because a session has one turn at a time; so wherever no turn was
\* unregistered before its end (start_turn).
THEOREM TranscriptsPair == Spec => []TranscriptPaired
<1>1. IInv => TranscriptPaired
  BY DEF IInv, TranscriptPaired
<1> QED
  BY <1>1, Invariance, PTL

\* SavedBeforeSeen: a turn seen finished has its answer in the transcript
\* (the finally block of _run_turn).
THEOREM SavedBeforeItIsSeen == Spec => []SavedBeforeSeen
<1>1. IInv => SavedBeforeSeen
  BY DEF IInv
<1> QED
  BY <1>1, Invariance, PTL

\* ReplayComplete: a stream that has said [DONE] has sent every event of its
\* turn, which gets no more of them, not even the error event of a timeout
\* (subscribe).  Of a stream that is still open nothing is claimed.
THEOREM ReplaysAreComplete == Spec => []ReplayComplete
<1>1. IInv => ReplayComplete
  BY DEF IInv
<1> QED
  BY <1>1, Invariance, PTL

-----------------------------------------------------------------------------
(* The tools of an answer: folds over sequences, unfolded by induction.    *)

(* Induction up to a bound, for a set instead of a predicate.              *)
LEMMA UpTo ==
  ASSUME NEW n \in Nat, NEW T, 0 \in T,
         \A k \in Nat : k < n /\ k \in T => k + 1 \in T
  PROVE  0..n \subseteq T
<1> DEFINE R == {ss \in Nat \X Nat : ss[1] < ss[2]}
           Rest == (0..n) \ T
<1>1. SUFFICES ASSUME Rest # {} PROVE FALSE
  OBVIOUS
<1>2. IsWellFoundedOn(R, Nat)
  BY NatLessThanWellFounded DEF OpToRel
<1>3. PICK x \in Rest : \A y \in Rest : <<y, x>> \notin R
  <2>1. Rest \subseteq Nat
    OBVIOUS
  <2> HIDE DEF R, Rest
  <2> QED BY <1>1, <1>2, <2>1, WFMin
<1>4. x \in Nat \ {0} /\ x <= n /\ x \notin T
  OBVIOUS
<1>5. x - 1 \in Rest
  <2>1. x - 1 \in Nat /\ x - 1 < n /\ (x - 1) + 1 = x
    BY <1>4
  <2>2. x - 1 \notin T
    BY <1>4, <2>1, Zenon
  <2> QED BY <2>1, <2>2, <1>4
<1>6. <<x - 1, x>> \in R
  BY <1>4
<1> QED BY <1>3, <1>5, <1>6

(* The fold of MapThenFoldSet over the first n indices, read with Max.     *)
Folds(g, n, base, step) ==
  g = [s \in SUBSET (1..n) |->
         IF s = {} THEN base ELSE step[<<g[s \ {Max(s)}], Max(s)>>]]

(* It exists.                                                              *)
LEMMA FoldExists ==
  ASSUME NEW n \in Nat, NEW V, NEW base \in V, NEW step \in [V \X (1..n) -> V]
  PROVE  \E g \in [SUBSET (1..n) -> V] : Folds(g, n, base, step)
<1> DEFINE T == {m \in 0..n : \E g \in [SUBSET (1..m) -> V] : Folds(g, m, base, step)}
<1>1. 0 \in T
  <2> DEFINE g == [s \in SUBSET (1..0) |-> base]
  <2>1. SUBSET (1..0) = {{}}
    OBVIOUS
  <2>2. g \in [SUBSET (1..0) -> V]
    OBVIOUS
  <2>3. Folds(g, 0, base, step)
    BY <2>1 DEF Folds
  <2> QED BY <2>2, <2>3
<1>2. ASSUME NEW k \in Nat, k < n, k \in T PROVE k + 1 \in T
  <2>1. PICK g \in [SUBSET (1..k) -> V] : Folds(g, k, base, step)
    BY <1>2
  <2> DEFINE h == [s \in SUBSET (1..(k + 1)) |->
                     IF k + 1 \in s THEN step[<<g[s \ {k + 1}], k + 1>>] ELSE g[s]]
  <2>2. \A s \in SUBSET (1..(k + 1)) : s \ {k + 1} \in SUBSET (1..k)
    OBVIOUS
  <2>3. k + 1 \in 1..n
    BY <1>2
  <2>4. h \in [SUBSET (1..(k + 1)) -> V]
    <3> SUFFICES ASSUME NEW s \in SUBSET (1..(k + 1)) PROVE h[s] \in V
      OBVIOUS
    <3>1. CASE k + 1 \in s
      <4>1. g[s \ {k + 1}] \in V
        BY <2>2
      <4>2. <<g[s \ {k + 1}], k + 1>> \in V \X (1..n)
        BY <4>1, <2>3
      <4> QED BY <3>1, <4>2
    <3>2. CASE k + 1 \notin s
      <4>1. s \in SUBSET (1..k)
        BY <2>2, <3>2
      <4> QED BY <3>2, <4>1
    <3> QED BY <3>1, <3>2
  <2>5. ASSUME NEW s \in SUBSET (1..k), s # {}
        PROVE  g[s] = step[<<g[s \ {Max(s)}], Max(s)>>]
    BY <2>1, <2>5 DEF Folds
  <2>6. g[{}] = base
    BY <2>1 DEF Folds
  <2>7. ASSUME NEW s \in SUBSET (1..(k + 1))
        PROVE  h[s] = IF s = {} THEN base ELSE step[<<h[s \ {Max(s)}], Max(s)>>]
    <3>1. CASE k + 1 \in s
      <4>1. Max(s) = k + 1
        <5>1. \A y \in s : k + 1 >= y
          OBVIOUS
        <5>2. \A x \in s : (\A y \in s : x >= y) => x = k + 1
          BY <3>1
        <5> QED BY <3>1, <5>1, <5>2 DEF Max
      <4>2. h[s \ {k + 1}] = g[s \ {k + 1}]
        BY <2>2
      <4> QED BY <3>1, <4>1, <4>2
    <3>2. CASE k + 1 \notin s
      <4>1. s \in SUBSET (1..k) /\ h[s] = g[s]
        BY <2>2, <3>2
      <4>2. CASE s = {}
        BY <2>6, <4>1, <4>2
      <4>3. CASE s # {}
        <5>1. s \ {Max(s)} \in SUBSET (1..(k + 1)) /\ k + 1 \notin s \ {Max(s)}
          BY <3>2
        <5>2. h[s \ {Max(s)}] = g[s \ {Max(s)}]
          BY <5>1
        <5> QED BY <2>5, <4>1, <4>3, <5>2
      <4> QED BY <4>2, <4>3
    <3> QED BY <3>1, <3>2
  <2>8. Folds(h, k + 1, base, step)
    BY <2>7 DEF Folds
  <2>9. k + 1 \in 0..n
    BY <1>2
  <2> HIDE DEF h
  <2> QED BY <2>4, <2>8, <2>9
<1>3. 0..n \subseteq T
  <2> HIDE DEF T
  <2> QED BY <1>1, <1>2, UpTo
<1>4. n \in T
  <2> HIDE DEF T
  <2> QED BY <1>3
<1>5. n \in {m \in 0..n : \E g \in [SUBSET (1..m) -> V] : Folds(g, m, base, step)}
  BY ONLY <1>4 DEF T
<1> QED BY ONLY <1>5

(* A prefix of the indices without the last one is the one before it.      *)
LEMMA FirstIndices ==
  ASSUME NEW n \in Nat, NEW k \in 1..n
  PROVE  /\ k \in Nat \ {0} /\ k - 1 \in 0..n
         /\ 1..k \in SUBSET (1..n) /\ 1..k # {} /\ Max(1..k) = k
         /\ (1..k) \ {k} = 1..(k - 1)
<1>1. k \in 1..k /\ \A y \in 1..k : k >= y
  OBVIOUS
<1>2. \A x \in 1..k : (\A y \in 1..k : x >= y) => x = k
  BY <1>1
<1>3. Max(1..k) = k
  BY <1>1, <1>2 DEF Max
<1>4. k \in Nat \ {0} /\ k - 1 \in 0..n /\ \A y \in 1..k : y \in 1..n
  OBVIOUS
<1>5. \A y : y \in (1..k) \ {k} <=> y \in 1..(k - 1)
  OBVIOUS
<1> QED BY <1>1, <1>3, <1>4, <1>5

(* A set of indices has a greatest.                                        *)
LEMMA MaxThere ==
  ASSUME NEW n \in Nat, NEW s \in SUBSET (1..n), s # {}
  PROVE  Max(s) \in s
<1> DEFINE Top(r) == \E x \in r : \A y \in r : x >= y
           T == {m \in 0..n : \A r \in SUBSET (1..m) : r # {} => Top(r)}
<1>1. 0 \in T
  <2>1. \A r \in SUBSET (1..0) : r = {}
    OBVIOUS
  <2>2. 0 \in 0..n
    OBVIOUS
  <2> HIDE DEF Top
  <2> QED BY <2>1, <2>2
<1>2. ASSUME NEW k \in Nat, k < n, k \in T PROVE k + 1 \in T
  <2>1. ASSUME NEW r \in SUBSET (1..(k + 1)), r # {} PROVE Top(r)
    <3>1. CASE k + 1 \in r
      BY <3>1
    <3>2. CASE k + 1 \notin r
      <4>1. r \in SUBSET (1..k)
        BY <3>2
      <4> QED BY <1>2, <2>1, <4>1
    <3> QED BY <3>1, <3>2
  <2>2. k + 1 \in 0..n
    BY <1>2
  <2> HIDE DEF Top
  <2> QED BY <2>1, <2>2
<1>3. 0..n \subseteq T
  <2> HIDE DEF T
  <2> QED BY <1>1, <1>2, UpTo
<1>4. Top(s)
  <2> HIDE DEF Top
  <2> QED BY <1>3
<1> QED BY <1>4 DEF Max

(* A fold takes the steps of a function wherever the function is defined.  *)
Steps(f, n, V, step) ==
  \A s \in SUBSET (1..n) : s # {} /\ f[s \ {Max(s)}] \in V
    => f[s] = step[<<f[s \ {Max(s)}], Max(s)>>]

(* The values a fold passes through, from its base to its result.          *)
Passes(acc, f, n, step) ==
  /\ acc[0] = f[{}] /\ acc[n] = f[1..n]
  /\ \A k \in 1..n : acc[k] = step[<<acc[k - 1], k>>]

(* They are values of the fold: f is what MapThenFoldSet chooses.          *)
LEMMA FoldPasses ==
  ASSUME NEW n \in Nat, NEW V, NEW step \in [V \X (1..n) -> V],
         NEW f, f[{}] \in V, Steps(f, n, V, step)
  PROVE  \E acc \in [0..n -> V] : Passes(acc, f, n, step)
<1> DEFINE acc == [k \in 0..n |-> f[1..k]]
           T == {k \in 0..n : acc[k] \in V}
<1>1. acc[0] = f[{}] /\ acc[n] = f[1..n]
  <2>1. 1..0 = {} /\ 0 \in 0..n /\ n \in 0..n
    OBVIOUS
  <2> QED BY <2>1
<1>2. ASSUME NEW k \in 1..n, acc[k - 1] \in V PROVE acc[k] = step[<<acc[k - 1], k>>]
  <2>1. /\ 1..k \in SUBSET (1..n) /\ 1..k # {} /\ Max(1..k) = k
        /\ (1..k) \ {k} = 1..(k - 1) /\ k - 1 \in 0..n /\ k \in 0..n
    BY FirstIndices
  <2>2. f[1..(k - 1)] \in V
    BY <1>2, <2>1
  <2>3. f[1..k] = step[<<f[1..(k - 1)], k>>]
    BY <2>1, <2>2 DEF Steps
  <2> QED BY <2>1, <2>3
<1> HIDE DEF acc
<1>3. 0 \in T
  <2>1. 0 \in 0..n
    OBVIOUS
  <2> QED BY <1>1, <2>1
<1>4. ASSUME NEW k \in Nat, k < n, k \in T PROVE k + 1 \in T
  <2>1. k + 1 \in 1..n /\ k + 1 \in 0..n /\ (k + 1) - 1 = k /\ acc[k] \in V
    BY <1>4
  <2>2. acc[k + 1] = step[<<acc[k], k + 1>>]
    BY <1>2, <2>1
  <2>3. acc[k + 1] \in V
    BY <2>1, <2>2
  <2> QED BY <2>1, <2>3
<1>5. 0..n \subseteq T
  <2> HIDE DEF T
  <2> QED BY <1>3, <1>4, UpTo
<1>6. acc \in [0..n -> V]
  BY <1>5 DEF acc
<1>7. \A k \in 1..n : acc[k] = step[<<acc[k - 1], k>>]
  <2> SUFFICES ASSUME NEW k \in 1..n PROVE acc[k] = step[<<acc[k - 1], k>>]
    OBVIOUS
  <2>1. k - 1 \in 0..n
    OBVIOUS
  <2> QED BY <1>2, <1>6, <2>1
<1>8. Passes(acc, f, n, step)
  BY <1>1, <1>7 DEF Passes
<1> QED BY <1>6, <1>8

(* Among, element by element.                                              *)
LEMMA AmongPasses ==
  ASSUME NEW D, NEW q \in Seq(D), NEW S
  PROVE  \E acc \in [0..Len(q) -> Seq(D)] :
           /\ acc[0] = <<>> /\ Among(q, S) = acc[Len(q)]
           /\ \A k \in 1..Len(q) : acc[k] =
                IF q[k] \in S THEN Append(acc[k - 1], q[k]) ELSE acc[k - 1]
<1> DEFINE n == Len(q)
           V == Seq(D)
           Op(a, x) == IF x \in S THEN Append(a, x) ELSE a
           Is(g) == g = [s \in SUBSET DOMAIN q |->
                      IF s = {} THEN <<>> ELSE Op(g[s \ {Max(s)}], q[Max(s)])]
           f == CHOOSE g : Is(g)
           step == [p \in V \X (1..n) |-> Op(p[1], q[p[2]])]
<1>1. n \in Nat /\ DOMAIN q = 1..n /\ <<>> \in V
  OBVIOUS
<1>2. Among(q, S) = f[DOMAIN q]
  BY DEF Among, FoldLeft, MapThenFoldSet
<1>3. step \in [V \X (1..n) -> V] /\ \A a \in V, k \in 1..n : step[<<a, k>>] = Op(a, q[k])
  <2>1. ASSUME NEW a \in V, NEW k \in 1..n PROVE Op(a, q[k]) \in V
    OBVIOUS
  <2> HIDE DEF V, Op
  <2> QED BY <2>1
<1> HIDE DEF Op, V, step
<1>4. Is(f)
  <2>1. PICK g \in [SUBSET (1..n) -> V] : Folds(g, n, <<>>, step)
    BY <1>1, <1>3, FoldExists
  <2>2. ASSUME NEW s \in SUBSET (1..n), s # {} PROVE g[s] = Op(g[s \ {Max(s)}], q[Max(s)])
    <3>1. Max(s) \in 1..n /\ s \ {Max(s)} \in SUBSET (1..n)
      BY <1>1, <2>2, MaxThere
    <3>2. g[s] = step[<<g[s \ {Max(s)}], Max(s)>>]
      BY <2>1, <2>2 DEF Folds
    <3> QED BY <1>3, <3>1, <3>2
  <2>3. g[{}] = <<>>
    BY <2>1 DEF Folds
  <2>4. Is(g)
    BY <1>1, <2>1, <2>2, <2>3
  <2> HIDE DEF Is
  <2> QED BY <2>4
<1> HIDE DEF f
<1>5. f[{}] = <<>>
  BY <1>1, <1>4
<1>6. ASSUME NEW s \in SUBSET (1..n), s # {}, f[s \ {Max(s)}] \in V
      PROVE  f[s] = step[<<f[s \ {Max(s)}], Max(s)>>]
  <2>1. Max(s) \in 1..n
    BY <1>1, <1>6, MaxThere
  <2>2. f[s] = Op(f[s \ {Max(s)}], q[Max(s)])
    BY <1>1, <1>4, <1>6
  <2> QED BY <1>3, <1>6, <2>1, <2>2
<1>7. PICK acc \in [0..n -> V] : Passes(acc, f, n, step)
  <2>1. Steps(f, n, V, step)
    BY <1>6 DEF Steps
  <2> HIDE DEF n
  <2>2. n \in Nat /\ <<>> \in V /\ step \in [V \X (1..n) -> V] /\ f[{}] = <<>> /\ f[{}] \in V
    BY <1>1, <1>3, <1>5
  <2> QED BY ONLY <2>1, <2>2, FoldPasses
<1>8. ASSUME NEW k \in 1..n PROVE acc[k] = Op(acc[k - 1], q[k])
  <2>1. k - 1 \in 0..n
    BY <1>1
  <2> QED BY <1>3, <1>7, <2>1 DEF Passes
<1> QED BY <1>1, <1>2, <1>5, <1>7, <1>8 DEF Op, V, Passes

(* idx tells where in the first n elements of q those of a come from: each *)
(* from one place, and all that are in S are there.                        *)
Picks(idx, a, q, S, n) ==
  /\ idx \in [1..Len(a) -> 1..n]
  /\ \A k \in 1..Len(a) : a[k] = q[idx[k]] /\ a[k] \in S
  /\ \A k, l \in 1..Len(a) : idx[k] = idx[l] => k = l
  /\ \A i \in 1..n : q[i] \in S => \E k \in 1..Len(a) : idx[k] = i

(* One element more of the sequence: it is picked or it is not.             *)
LEMMA PicksGrow ==
  ASSUME NEW D, NEW q \in Seq(D), NEW S, NEW n \in Nat, n < Len(q), NEW a \in Seq(D),
         NEW idx, Picks(idx, a, q, S, n)
  PROVE  \E more : Picks(more, IF q[n + 1] \in S THEN Append(a, q[n + 1]) ELSE a, q, S, n + 1)
<1>1. n + 1 \in 1..Len(q) /\ q[n + 1] \in D /\ Len(a) \in Nat
  OBVIOUS
<1>2. idx \in [1..Len(a) -> 1..n]
  BY DEF Picks
<1>3. CASE q[n + 1] \notin S
  <2>1. idx \in [1..Len(a) -> 1..(n + 1)]
    BY <1>2
  <2>2. ASSUME NEW i \in 1..(n + 1), q[i] \in S PROVE \E k \in 1..Len(a) : idx[k] = i
    <3>1. i \in 1..n
      BY <1>3, <2>2
    <3> QED BY <2>2, <3>1 DEF Picks
  <2>3. Picks(idx, a, q, S, n + 1)
    BY <2>1, <2>2 DEF Picks
  <2> QED BY <1>3, <2>3
<1>4. CASE q[n + 1] \in S
  <2> DEFINE b == Append(a, q[n + 1])
             m == Len(a) + 1
             more == [k \in 1..m |-> IF k = m THEN n + 1 ELSE idx[k]]
  <2>1. Len(b) = m /\ b[m] = q[n + 1] /\ \A k \in 1..Len(a) : b[k] = a[k]
    BY <1>1
  <2>2. m \in 1..m /\ \A k \in 1..m : k = m \/ k \in 1..Len(a)
    BY <1>1
  <2>3. more[m] = n + 1 /\ \A k \in 1..Len(a) : more[k] = idx[k] /\ k # m /\ k \in 1..m
    BY <1>1
  <2>4. \A k \in 1..Len(a) : idx[k] \in 1..n /\ idx[k] \in 1..(n + 1) /\ idx[k] # n + 1
    BY <1>2
  <2> HIDE DEF b
  <2>5. more \in [1..m -> 1..(n + 1)]
    BY <1>1, <2>2, <2>4
  <2> HIDE DEF m, more
  <2>6. ASSUME NEW k \in 1..m PROVE b[k] = q[more[k]] /\ b[k] \in S
    <3>1. CASE k = m
      BY <1>4, <2>1, <2>3, <3>1
    <3>2. CASE k \in 1..Len(a)
      BY <2>1, <2>3, <3>2 DEF Picks
    <3> QED BY <2>2, <3>1, <3>2
  <2>7. ASSUME NEW k \in 1..m, NEW l \in 1..m, more[k] = more[l] PROVE k = l
    <3>1. CASE k \in 1..Len(a) /\ l \in 1..Len(a)
      BY <2>3, <2>7, <3>1 DEF Picks
    <3>2. CASE k = m \/ l = m
      BY <2>2, <2>3, <2>4, <2>7, <3>2
    <3> QED BY <2>2, <3>1, <3>2
  <2>8. ASSUME NEW i \in 1..(n + 1), q[i] \in S PROVE \E k \in 1..m : more[k] = i
    <3>1. CASE i = n + 1
      BY <2>2, <2>3, <3>1
    <3>2. CASE i # n + 1
      <4>1. i \in 1..n
        BY <3>2
      <4>2. PICK k \in 1..Len(a) : idx[k] = i
        BY <2>8, <4>1 DEF Picks
      <4> QED BY <2>3, <4>2
    <3> QED BY <3>1, <3>2
  <2>9. Picks(more, b, q, S, n + 1)
    BY <2>1, <2>5, <2>6, <2>7, <2>8 DEF Picks
  <2> QED BY <1>4, <2>9 DEF b
<1> QED BY <1>3, <1>4

(* Among keeps the elements of S, each once, and no others.                *)
LEMMA AmongFacts ==
  ASSUME NEW D, NEW q \in Seq(D), NEW S
  PROVE  Among(q, S) \in Seq(D) /\ \E idx : Picks(idx, Among(q, S), q, S, Len(q))
<1> DEFINE n == Len(q)
<1>1. PICK acc \in [0..n -> Seq(D)] :
        /\ acc[0] = <<>> /\ Among(q, S) = acc[n]
        /\ \A k \in 1..n : acc[k] = IF q[k] \in S THEN Append(acc[k - 1], q[k]) ELSE acc[k - 1]
  BY AmongPasses
<1> DEFINE T == {k \in 0..n : \E idx : Picks(idx, acc[k], q, S, k)}
<1>2. n \in Nat /\ 0 \in 0..n /\ n \in 0..n
  OBVIOUS
<1>3. 0 \in T
  <2> DEFINE none == [k \in 1..0 |-> 0]
  <2>1. none \in [1..Len(acc[0]) -> 1..0] /\ Len(acc[0]) = 0
    BY <1>1
  <2>2. Picks(none, acc[0], q, S, 0)
    <3> HIDE DEF none
    <3> QED BY <2>1 DEF Picks
  <2> QED BY <1>2, <2>2
<1>4. ASSUME NEW k \in Nat, k < n, k \in T PROVE k + 1 \in T
  <2>1. PICK idx : Picks(idx, acc[k], q, S, k)
    BY <1>4
  <2>2. k + 1 \in 1..n /\ k + 1 \in 0..n /\ (k + 1) - 1 = k /\ acc[k] \in Seq(D)
    BY <1>1, <1>4
  <2>3. acc[k + 1] = IF q[k + 1] \in S THEN Append(acc[k], q[k + 1]) ELSE acc[k]
    BY <1>1, <2>2
  <2>4. \E more : Picks(more, acc[k + 1], q, S, k + 1)
    BY <1>4, <2>1, <2>2, <2>3, PicksGrow
  <2> QED BY <2>2, <2>4
<1>5. 0..n \subseteq T
  <2> HIDE DEF T, n
  <2> QED BY <1>2, <1>3, <1>4, UpTo
<1>6. n \in T
  <2> HIDE DEF T
  <2> QED BY <1>2, <1>5
<1> QED BY <1>1, <1>2, <1>6

(* What a server, a binding, a reading and a tool are made of.              *)
Keys == [conf : Confs, stamp : Nat]
Bindings == [server : Servers, on : BOOLEAN, allow : SUBSET Names]
SeenRecords == [server : Servers, key : Keys, allow : SUBSET Names]
ToolRecords == [name : Names, server : Servers \cup {None}, conf : Nat]

(* What one server contributes, name by name.                              *)
ByName(acc, tools, want, got, q) ==
  /\ acc[0] = tools /\ Contribution(tools, want, got) = acc[Len(q)]
  /\ \A k \in 1..Len(q) : acc[k] =
       IF Keeps(q[k], want.allow, NamesOf(acc[k - 1]))
       THEN Append(acc[k - 1], Tool(q[k], want.server, got)) ELSE acc[k - 1]

(* A binding's names one by one: each is appended or passed over.           *)
LEMMA ContributionPasses ==
  ASSUME NEW tools \in Seq(ToolRecords), NEW want \in SeenRecords, NEW got \in Confs,
         NEW q, q = Offer[want.server][got]
  PROVE  /\ q \in Seq(Names)
         /\ \E acc \in [0..Len(q) -> Seq(ToolRecords)] : ByName(acc, tools, want, got, q)
<1> DEFINE n == Len(q)
           V == Seq(ToolRecords)
           Op(a, x) == IF Keeps(x, want.allow, NamesOf(a))
                       THEN Append(a, Tool(x, want.server, got)) ELSE a
           Is(g) == g = [s \in SUBSET DOMAIN q |->
                      IF s = {} THEN tools ELSE Op(g[s \ {Max(s)}], q[Max(s)])]
           f == CHOOSE g : Is(g)
           step == [p \in V \X (1..n) |-> Op(p[1], q[p[2]])]
<1>1. /\ q \in Seq(Names) /\ n \in Nat /\ DOMAIN q = 1..n /\ tools \in V
      /\ \A k \in 1..n : Tool(q[k], want.server, got) \in ToolRecords
  <2>1. want.server \in Servers /\ got \in Nat
    BY ToolNames DEF SeenRecords
  <2>2. q \in Seq(Names)
    BY <2>1, ToolNames
  <2>3. n \in Nat /\ DOMAIN q = 1..n /\ \A k \in 1..n : q[k] \in Names
    BY <2>2
  <2> QED BY <2>1, <2>2, <2>3 DEF Tool, ToolRecords
<1>2. Contribution(tools, want, got) = f[DOMAIN q]
  <2>1. got # Unreachable
    BY ToolNames DEF Unreachable
  <2> QED BY <2>1 DEF Contribution, FoldLeft, MapThenFoldSet
<1>3. step \in [V \X (1..n) -> V] /\ \A a \in V, k \in 1..n : step[<<a, k>>] = Op(a, q[k])
  <2>1. ASSUME NEW a \in V, NEW k \in 1..n PROVE Op(a, q[k]) \in V
    BY <1>1
  <2> HIDE DEF V, Op
  <2> QED BY <2>1
<1> HIDE DEF Op, V, step
<1>4. Is(f)
  <2>1. PICK g \in [SUBSET (1..n) -> V] : Folds(g, n, tools, step)
    BY <1>1, <1>3, FoldExists
  <2>2. ASSUME NEW s \in SUBSET (1..n), s # {} PROVE g[s] = Op(g[s \ {Max(s)}], q[Max(s)])
    <3>1. Max(s) \in 1..n /\ s \ {Max(s)} \in SUBSET (1..n)
      BY <1>1, <2>2, MaxThere
    <3>2. g[s] = step[<<g[s \ {Max(s)}], Max(s)>>]
      BY <2>1, <2>2 DEF Folds
    <3> QED BY <1>3, <2>1, <3>1, <3>2
  <2>3. g[{}] = tools
    BY <2>1 DEF Folds
  <2>4. Is(g)
    BY <1>1, <2>1, <2>2, <2>3
  <2> HIDE DEF Is
  <2> QED BY <2>4
<1> HIDE DEF f
<1>5. f[{}] = tools
  BY <1>1, <1>4
<1>6. ASSUME NEW s \in SUBSET (1..n), s # {}, f[s \ {Max(s)}] \in V
      PROVE  f[s] = step[<<f[s \ {Max(s)}], Max(s)>>]
  <2>1. Max(s) \in 1..n
    BY <1>1, <1>6, MaxThere
  <2>2. f[s] = Op(f[s \ {Max(s)}], q[Max(s)])
    BY <1>1, <1>4, <1>6
  <2> QED BY <1>3, <1>6, <2>1, <2>2
<1>7. PICK acc \in [0..n -> V] : Passes(acc, f, n, step)
  <2>1. Steps(f, n, V, step)
    BY <1>6 DEF Steps
  <2> HIDE DEF n
  <2>2. n \in Nat /\ step \in [V \X (1..n) -> V] /\ f[{}] \in V
    BY <1>1, <1>3, <1>5
  <2> QED BY ONLY <2>1, <2>2, FoldPasses
<1>8. ASSUME NEW k \in 1..n PROVE acc[k] = Op(acc[k - 1], q[k])
  <2>1. k - 1 \in 0..n
    BY <1>1
  <2> QED BY <1>3, <1>7, <2>1 DEF Passes
<1>9. ByName(acc, tools, want, got, q)
  BY <1>1, <1>2, <1>5, <1>7, <1>8 DEF Op, Passes, ByName
<1> QED BY <1>1, <1>7, <1>9 DEF V

(* No two tools of a list bear the same name.                              *)
Distinct(a) == \A k, l \in 1..Len(a) : a[k].name = a[l].name => k = l
(* A tool is one that the server of a binding offers and the binding       *)
(* allows.                                                                 *)
From(tool, want) ==
  /\ tool.server = want.server /\ tool.conf = want.key.conf /\ tool.name \in want.allow
  /\ tool.name \in ToSet(Offer[want.server][want.key.conf])

(* A list grows by tools of one binding, of which it then has the first n. *)
Grown(a, b, want, q, n) ==
  /\ Distinct(b) /\ NamesOf(a) \subseteq NamesOf(b)
  /\ \A k \in 1..Len(b) : From(b[k], want) \/ \E l \in 1..Len(a) : b[k] = a[l]
  /\ \A i \in 1..n : q[i] \in want.allow => q[i] \in NamesOf(b)

(* A binding adds what its list allows, and no name twice.                  *)
LEMMA ContributionFacts ==
  ASSUME NEW tools \in Seq(ToolRecords), NEW want \in SeenRecords, Distinct(tools),
         NEW q, q = Offer[want.server][want.key.conf]
  PROVE  /\ q \in Seq(Names)
         /\ Contribution(tools, want, want.key.conf) \in Seq(ToolRecords)
         /\ Grown(tools, Contribution(tools, want, want.key.conf), want, q, Len(q))
<1> DEFINE n == Len(q)
           got == want.key.conf
           Op(a, x) == IF Keeps(x, want.allow, NamesOf(a))
                       THEN Append(a, Tool(x, want.server, got)) ELSE a
<1>1. got \in Confs
  BY DEF SeenRecords, Keys
<1>2. /\ q \in Seq(Names)
      /\ \E acc \in [0..n -> Seq(ToolRecords)] : ByName(acc, tools, want, got, q)
  BY <1>1, ContributionPasses
<1>3. PICK acc \in [0..n -> Seq(ToolRecords)] :
           /\ acc[0] = tools /\ Contribution(tools, want, got) = acc[n]
           /\ \A k \in 1..n : acc[k] = Op(acc[k - 1], q[k])
  BY <1>2 DEF ByName
<1> DEFINE T == {k \in 0..n : Grown(tools, acc[k], want, q, k)}
<1>4. n \in Nat /\ 0 \in 0..n /\ n \in 0..n /\ DOMAIN q = 1..n
  BY <1>2
<1>5. 0 \in T
  BY <1>3, <1>4 DEF Grown
<1>6. ASSUME NEW k \in Nat, k < n, k \in T PROVE k + 1 \in T
  <2>1. Grown(tools, acc[k], want, q, k)
    BY <1>6
  <2>2. k + 1 \in 1..n /\ k + 1 \in 0..n /\ (k + 1) - 1 = k /\ k \in 0..n
    BY <1>4, <1>6
  <2> DEFINE a == acc[k]
             x == q[k + 1]
             t == Tool(x, want.server, got)
             b == acc[k + 1]
  <2>3. a \in Seq(ToolRecords) /\ b = Op(a, x)
    BY <1>3, <2>2
  <2>4. (From(t, want) /\ t.name = x) \/ x \notin want.allow
    <3>1. x \in ToSet(q)
      BY <1>4, <2>2 DEF ToSet
    <3> QED BY <3>1 DEF From, Tool
  <2>5. Grown(tools, b, want, q, k + 1)
    <3>1. q[k + 1] = x /\ \A i \in 1..(k + 1) : i \in 1..k \/ i = k + 1
      OBVIOUS
    <3>2. Len(a) \in Nat /\ DOMAIN a = 1..Len(a)
      BY <2>3
    <3> HIDE DEF a, x, t, b
    <3>3. CASE ~Keeps(x, want.allow, NamesOf(a))
      <4>1. b = a /\ (x \in want.allow => x \in NamesOf(a))
        BY <2>3, <3>3 DEF Keeps, Offered
      <4> QED BY <2>1, <3>1, <4>1 DEF Grown, a
    <3>4. CASE Keeps(x, want.allow, NamesOf(a))
      <4> DEFINE m == Len(a) + 1
      <4>1. b = Append(a, t) /\ x \in want.allow /\ x \notin NamesOf(a) /\ From(t, want) /\ t.name = x
        BY <2>3, <2>4, <3>4 DEF Keeps, Offered, t
      <4>2. Len(b) = m /\ b[m] = t /\ \A l \in 1..Len(a) : b[l] = a[l]
        BY <2>3, <4>1
      <4>3. m \in 1..m /\ (\A l \in 1..m : l = m \/ l \in 1..Len(a)) /\ DOMAIN b = 1..m
            /\ \A l \in 1..Len(a) : l \in 1..m
        BY <2>3, <3>2, <4>1
      <4>4. \A l \in 1..Len(a) : a[l].name \in NamesOf(a) /\ a[l].name # x
        BY <3>2, <4>1 DEF NamesOf
      <4> HIDE DEF m
      <4>5. Distinct(b)
        <5>1. ASSUME NEW i \in 1..m, NEW l \in 1..m, b[i].name = b[l].name PROVE i = l
          <6>1. CASE i \in 1..Len(a) /\ l \in 1..Len(a)
            BY <2>1, <4>2, <5>1, <6>1 DEF Grown, Distinct, a
          <6>2. CASE i = m \/ l = m
            BY <4>1, <4>2, <4>3, <4>4, <5>1, <6>2
          <6> QED BY <4>3, <6>1, <6>2
        <5> QED BY <4>2, <5>1 DEF Distinct
      <4>6. NamesOf(a) \subseteq NamesOf(b) /\ x \in NamesOf(b)
        BY <3>2, <4>1, <4>2, <4>3 DEF NamesOf
      <4>7. \A l \in 1..m : From(b[l], want) \/ \E i \in 1..Len(tools) : b[l] = tools[i]
        BY <2>1, <4>1, <4>2, <4>3 DEF Grown, a
      <4>8. NamesOf(tools) \subseteq NamesOf(b)
        BY <2>1, <4>6 DEF Grown, a
      <4>9. \A i \in 1..(k + 1) : q[i] \in want.allow => q[i] \in NamesOf(b)
        BY <2>1, <3>1, <4>6 DEF Grown, a
      <4> QED BY <4>2, <4>5, <4>7, <4>8, <4>9 DEF Grown
    <3> QED BY <3>3, <3>4
  <2> QED BY <2>2, <2>5
<1>7. n \in T
  <2> HIDE DEF T, n
  <2>1. 0..n \subseteq T
    BY <1>4, <1>5, <1>6, UpTo
  <2> QED BY <1>4, <2>1
<1>8. Grown(tools, acc[n], want, q, n) /\ acc[n] \in Seq(ToolRecords)
  <2> HIDE DEF n
  <2> QED BY <1>3, <1>4, <1>7
<1> QED BY <1>2, <1>3, <1>8

(* A reading of the bindings, and the outcome of each discovery: nothing,  *)
(* or the configuration that was read.                                     *)
Reading(seen, got) ==
  /\ seen \in Seq(SeenRecords) /\ DOMAIN got = 1..Len(seen)
  /\ \A i \in 1..Len(seen) : got[i] \in {Unreachable, seen[i].key.conf}

(* Lists of tools without a name twice; the names a server offers.          *)
Lists == {a \in Seq(ToolRecords) : Distinct(a)}
OfferOf(want) == ToSet(Offer[want.server][want.key.conf])

(* A list with the tools of the first n bindings.                          *)
Collected(a, seen, got, n) ==
  /\ a \in Lists
  /\ \A k \in 1..Len(a) : \E i \in 1..n : From(a[k], seen[i])
  /\ \A i \in 1..n : got[i] # Unreachable =>
       OfferOf(seen[i]) \cap seen[i].allow \subseteq NamesOf(a)

(* One binding more: what it allows is there, under the configuration that *)
(* was read.                                                               *)
LEMMA Collects ==
  ASSUME NEW seen, NEW got, Reading(seen, got), NEW i \in 1..Len(seen), NEW a \in Lists
  PROVE  /\ Contribution(a, seen[i], got[i]) \in Lists
         /\ Collected(a, seen, got, i - 1) => Collected(Contribution(a, seen[i], got[i]), seen, got, i)
<1> DEFINE want == seen[i]
           b == Contribution(a, want, got[i])
<1>1. want \in SeenRecords /\ Len(seen) \in Nat /\ a \in Seq(ToolRecords) /\ Distinct(a)
  BY DEF Reading, Lists
<1>2. CASE got[i] = Unreachable
  <2>1. b = a
    BY <1>2 DEF Contribution
  <2>2. \A j \in 1..i : j \in 1..(i - 1) \/ j = i
    BY <1>1
  <2>3. \A j \in 1..(i - 1) : j \in 1..i
    BY <1>1
  <2> QED BY <1>2, <2>1, <2>2, <2>3 DEF Collected
<1>3. CASE got[i] # Unreachable
  <2> DEFINE q == Offer[want.server][want.key.conf]
  <2>1. got[i] = want.key.conf
    BY <1>3 DEF Reading
  <2>2. q \in Seq(Names) /\ b \in Seq(ToolRecords) /\ Grown(a, b, want, q, Len(q))
    <3> HIDE DEF want
    <3> QED BY <1>1, <2>1, ContributionFacts
  <2>3. b \in Lists
    BY <2>2 DEF Lists, Grown
  <2>4. ASSUME Collected(a, seen, got, i - 1) PROVE Collected(b, seen, got, i)
    <3> HIDE DEF b, q
    <3>1. \A j \in 1..i : j \in 1..(i - 1) \/ j = i
      BY <1>1
    <3>2. i \in 1..i /\ \A j \in 1..(i - 1) : j \in 1..i
      BY <1>1
    <3>3. ASSUME NEW k \in 1..Len(b) PROVE \E j \in 1..i : From(b[k], seen[j])
      <4>1. CASE From(b[k], want)
        BY <3>2, <4>1
      <4>2. CASE \E l \in 1..Len(a) : b[k] = a[l]
        BY <2>4, <3>2, <4>2 DEF Collected
      <4> QED BY <2>2, <4>1, <4>2 DEF Grown
    <3>4. OfferOf(want) \cap want.allow \subseteq NamesOf(b)
      <4>1. DOMAIN q = 1..Len(q) /\ OfferOf(want) = {q[j] : j \in DOMAIN q}
        BY <2>2 DEF OfferOf, ToSet, q
      <4> QED BY <2>2, <4>1 DEF Grown
    <3>5. NamesOf(a) \subseteq NamesOf(b)
      BY <2>2 DEF Grown
    <3>6. \A j \in 1..i : got[j] # Unreachable =>
            OfferOf(seen[j]) \cap seen[j].allow \subseteq NamesOf(b)
      BY <2>4, <3>1, <3>4, <3>5 DEF Collected
    <3> QED BY <2>3, <3>3, <3>6 DEF Collected
  <2> QED BY <2>3, <2>4
<1> QED BY <1>2, <1>3

(* All bindings together, in their order.                                  *)
LEMMA ProductFacts ==
  ASSUME NEW seen, NEW got, Reading(seen, got)
  PROVE  Collected(ProductTools(seen, got), seen, got, Len(seen))
<1> DEFINE n == Len(seen)
           V == Lists
           q == [i \in DOMAIN seen |-> i]
           Op(a, i) == Contribution(a, seen[i], got[i])
           Is(g) == g = [s \in SUBSET DOMAIN q |->
                      IF s = {} THEN <<>> ELSE Op(g[s \ {Max(s)}], q[Max(s)])]
           f == CHOOSE g : Is(g)
           step == [p \in V \X (1..n) |-> Op(p[1], q[p[2]])]
<1>1. n \in Nat /\ DOMAIN q = 1..n /\ <<>> \in V /\ \A i \in 1..n : q[i] = i
  <2>1. seen \in Seq(SeenRecords)
    BY DEF Reading
  <2>2. <<>> \in V
    BY DEF Lists, Distinct
  <2> QED BY <2>1, <2>2
<1>2. ProductTools(seen, got) = f[DOMAIN q]
  BY DEF ProductTools, FoldLeft, MapThenFoldSet
<1>3. step \in [V \X (1..n) -> V] /\ \A a \in V, k \in 1..n : step[<<a, k>>] = Op(a, q[k])
  <2>1. ASSUME NEW a \in V, NEW k \in 1..n PROVE Op(a, q[k]) \in V
    BY <1>1, Collects
  <2> HIDE DEF V, Op, q
  <2> QED BY <2>1
<1> HIDE DEF V, Op, q, step
<1>4. Is(f)
  <2>1. PICK g \in [SUBSET (1..n) -> V] : Folds(g, n, <<>>, step)
    BY <1>1, <1>3, FoldExists
  <2>2. ASSUME NEW s \in SUBSET (1..n), s # {} PROVE g[s] = Op(g[s \ {Max(s)}], q[Max(s)])
    <3>1. Max(s) \in 1..n /\ s \ {Max(s)} \in SUBSET (1..n)
      BY <1>1, <2>2, MaxThere
    <3>2. g[s] = step[<<g[s \ {Max(s)}], Max(s)>>]
      BY <2>1, <2>2 DEF Folds
    <3> QED BY <1>3, <2>1, <3>1, <3>2
  <2>3. g[{}] = <<>>
    BY <2>1 DEF Folds
  <2>4. Is(g)
    BY <1>1, <2>1, <2>2, <2>3
  <2> HIDE DEF Is
  <2> QED BY <2>4
<1> HIDE DEF f
<1>5. f[{}] = <<>>
  BY <1>1, <1>4
<1>6. ASSUME NEW s \in SUBSET (1..n), s # {}, f[s \ {Max(s)}] \in V
      PROVE  f[s] = step[<<f[s \ {Max(s)}], Max(s)>>]
  <2>1. Max(s) \in 1..n
    BY <1>1, <1>6, MaxThere
  <2>2. f[s] = Op(f[s \ {Max(s)}], q[Max(s)])
    BY <1>1, <1>4, <1>6
  <2> QED BY <1>3, <1>6, <2>1, <2>2
<1>7. PICK acc \in [0..n -> V] : Passes(acc, f, n, step)
  <2>1. Steps(f, n, V, step)
    BY <1>6 DEF Steps
  <2> HIDE DEF n
  <2>2. n \in Nat /\ step \in [V \X (1..n) -> V] /\ f[{}] \in V
    BY <1>1, <1>3, <1>5
  <2> QED BY ONLY <2>1, <2>2, FoldPasses
<1>8. ASSUME NEW k \in 1..n PROVE acc[k] = Contribution(acc[k - 1], seen[k], got[k])
  <2>1. k - 1 \in 0..n
    BY <1>1
  <2>2. acc[k] = Op(acc[k - 1], q[k])
    BY <1>3, <1>7, <2>1 DEF Passes
  <2> QED BY <1>1, <2>2 DEF Op
<1>9. acc[0] = <<>> /\ ProductTools(seen, got) = acc[n]
  BY <1>1, <1>2, <1>5, <1>7 DEF Passes
<1> DEFINE T == {k \in 0..n : Collected(acc[k], seen, got, k)}
<1>10. 0 \in T
  <2>1. 0 \in 0..n /\ acc[0] \in Lists /\ Len(acc[0]) = 0
    BY <1>1, <1>9 DEF V
  <2> QED BY <2>1 DEF Collected
<1>11. ASSUME NEW k \in Nat, k < n, k \in T PROVE k + 1 \in T
  <2>1. k + 1 \in 1..n /\ k + 1 \in 0..n /\ (k + 1) - 1 = k /\ k \in 0..n
    BY <1>1, <1>11
  <2>2. acc[k] \in Lists /\ Collected(acc[k], seen, got, k)
    BY <1>7, <1>11, <2>1 DEF V
  <2>3. Collected(Contribution(acc[k], seen[k + 1], got[k + 1]), seen, got, k + 1)
    BY <2>1, <2>2, Collects
  <2>4. acc[k + 1] = Contribution(acc[k], seen[k + 1], got[k + 1])
    BY <1>8, <2>1
  <2> QED BY <2>1, <2>3, <2>4
<1>12. n \in T
  <2> HIDE DEF T, n
  <2>1. 0..n \subseteq T
    BY <1>1, <1>10, <1>11, UpTo
  <2>2. n \in 0..n
    BY <1>1
  <2> QED BY <2>1, <2>2
<1> QED BY <1>9, <1>12

(* ToolsAsBound of one answer.                                             *)
AsBound(tools, seen, got) ==
  LET mcp == {k \in DOMAIN tools : tools[k].server # None}
  IN /\ \A k \in mcp :
          /\ tools[k].name \notin Builtin
          /\ \E i \in DOMAIN seen : From(tools[k], seen[i])
     /\ \A k, l \in mcp : tools[k].name = tools[l].name => k = l
     /\ \A i \in DOMAIN seen : got[i] # Unreachable =>
          (OfferOf(seen[i]) \cap seen[i].allow) \ Builtin \subseteq {tools[k].name : k \in mcp}

(* The HTTP tools follow and the built-ins' names are dropped: what is left*)
(* is as bound (get_tools_for_product, build_expert_agent).                *)
LEMMA ExtraToolsFacts ==
  ASSUME NEW seen, NEW got, Reading(seen, got)
  PROVE  /\ ExtraTools(ProductTools(seen, got)) \in Seq(ToolRecords)
         /\ AsBound(ExtraTools(ProductTools(seen, got)), seen, got)
<1> DEFINE P == ProductTools(seen, got)
           H == [i \in DOMAIN Http |-> Tool(Http[i], None, 0)]
           all == P \o H
           S == {tool \in ToSet(all) : tool.name \notin Builtin}
           tools == Among(all, S)
           mcp == {k \in DOMAIN tools : tools[k].server # None}
<1>1. Collected(P, seen, got, Len(seen)) /\ P \in Seq(ToolRecords) /\ Distinct(P)
  BY ProductFacts DEF Collected, Lists
<1>2. H \in Seq(ToolRecords) /\ \A i \in DOMAIN H : H[i].server = None
  <2>1. Http \in Seq(Names)
    BY ToolNames
  <2>2. \A i \in DOMAIN Http : Tool(Http[i], None, 0) \in ToolRecords
    BY <2>1 DEF Tool, ToolRecords
  <2>3. DOMAIN Http = 1..Len(Http) /\ Len(Http) \in Nat
    BY <2>1
  <2>4. H \in Seq(ToolRecords)
    BY <2>2, <2>3
  <2> QED BY <2>4 DEF Tool
<1> HIDE DEF P, H
<1>3. /\ all \in Seq(ToolRecords) /\ Len(all) = Len(P) + Len(H)
      /\ \A j \in 1..Len(P) : all[j] = P[j] /\ j \in 1..Len(all)
      /\ \A j \in 1..Len(all) : j \in 1..Len(P) \/ all[j].server = None
  <2>1. Len(P) \in Nat /\ Len(H) \in Nat /\ DOMAIN H = 1..Len(H)
    BY <1>1, <1>2
  <2>2. all \in Seq(ToolRecords) /\ Len(all) = Len(P) + Len(H)
    BY <1>1, <1>2
  <2>3. \A j \in 1..Len(P) : all[j] = P[j] /\ j \in 1..Len(all)
    BY <1>1, <1>2, <2>1
  <2>4. ASSUME NEW j \in 1..Len(all), j \notin 1..Len(P) PROVE all[j].server = None
    <3>1. j - Len(P) \in 1..Len(H)
      BY <2>1, <2>2, <2>4
    <3>2. all[j] = H[j - Len(P)]
      BY <1>1, <1>2, <2>1, <2>2, <2>4
    <3> QED BY <1>2, <2>1, <3>1, <3>2
  <2> QED BY <2>2, <2>3, <2>4
<1>4. DOMAIN seen = 1..Len(seen) /\ DOMAIN all = 1..Len(all)
  BY <1>3 DEF Reading
<1>5. ASSUME NEW j \in 1..Len(P)
      PROVE  P[j].server # None /\ \E i \in DOMAIN seen : From(P[j], seen[i])
  <2>1. PICK i \in 1..Len(seen) : From(P[j], seen[i])
    BY <1>1 DEF Collected
  <2>2. seen[i].server \in Servers
    <3>1. seen[i] \in SeenRecords
      BY DEF Reading
    <3> QED BY <3>1 DEF SeenRecords
  <2> QED BY <1>4, <2>1, <2>2, ToolNames DEF From
<1>6. tools \in Seq(ToolRecords) /\ \E idx : Picks(idx, tools, all, S, Len(all))
  <2> HIDE DEF all, S
  <2> QED BY <1>3, AmongFacts
<1>7. PICK idx : Picks(idx, tools, all, S, Len(all))
  BY <1>6
<1> HIDE DEF tools
<1>8. DOMAIN tools = 1..Len(tools)
  BY <1>6
<1>9. ASSUME NEW k \in mcp
      PROVE  idx[k] \in 1..Len(P) /\ tools[k] = P[idx[k]] /\ tools[k].name \notin Builtin
  <2> HIDE DEF all
  <2>1. k \in 1..Len(tools) /\ tools[k].server # None
    BY <1>8
  <2>2. idx[k] \in 1..Len(all) /\ tools[k] = all[idx[k]] /\ tools[k] \in S
    BY <1>7, <2>1 DEF Picks
  <2>3. idx[k] \in 1..Len(P)
    BY <1>3, <2>1, <2>2
  <2>4. all[idx[k]] = P[idx[k]]
    BY <1>3, <2>3
  <2> QED BY <2>2, <2>3, <2>4
<1>10. \A k, l \in mcp : tools[k].name = tools[l].name => k = l
  <2> SUFFICES ASSUME NEW k \in mcp, NEW l \in mcp, tools[k].name = tools[l].name PROVE k = l
    OBVIOUS
  <2>1. idx[k] = idx[l]
    BY <1>1, <1>9 DEF Distinct
  <2>2. k \in 1..Len(tools) /\ l \in 1..Len(tools)
    BY <1>8
  <2> QED BY <1>7, <2>1, <2>2 DEF Picks
<1>11. ASSUME NEW i \in DOMAIN seen, got[i] # Unreachable,
              NEW x \in (OfferOf(seen[i]) \cap seen[i].allow) \ Builtin
       PROVE  \E k \in mcp : tools[k].name = x
  <2>1. x \in NamesOf(P)
    BY <1>1, <1>4, <1>11 DEF Collected
  <2>2. PICK j \in 1..Len(P) : P[j].name = x
    BY <1>1, <2>1 DEF NamesOf
  <2>3. j \in 1..Len(all) /\ all[j] = P[j]
    BY <1>3
  <2>4. all[j] \in S
    BY <1>4, <1>11, <2>2, <2>3 DEF ToSet
  <2>5. PICK k \in 1..Len(tools) : idx[k] = j
    BY <1>7, <2>3, <2>4 DEF Picks
  <2>6. tools[k] = all[j]
    BY <1>7, <2>5 DEF Picks
  <2> QED BY <1>5, <1>8, <2>2, <2>3, <2>5, <2>6
<1>12. AsBound(tools, seen, got)
  <2> HIDE DEF mcp
  <2>1. \A k \in mcp : tools[k].name \notin Builtin /\ \E i \in DOMAIN seen : From(tools[k], seen[i])
    BY <1>5, <1>9
  <2>2. \A i \in DOMAIN seen : got[i] # Unreachable =>
          (OfferOf(seen[i]) \cap seen[i].allow) \ Builtin \subseteq {tools[k].name : k \in mcp}
    BY <1>11
  <2> QED BY <1>10, <2>1, <2>2 DEF AsBound, mcp
<1>13. ExtraTools(ProductTools(seen, got)) = tools
  BY DEF ExtraTools, tools, P, H
<1> QED BY <1>6, <1>12, <1>13

-----------------------------------------------------------------------------

(* The registered servers, the bindings and the three caches of the        *)
(* manager.                                                                *)
RowRecords ==
  [life : {"alive", "unborn", "gone"}, conf : Confs, stamp : Nat, on : BOOLEAN,
   status : {"unknown", "ok", "error"}, judged : Nat, late : BOOLEAN]
CheckRecords == [server : Servers, key : Keys]

ServerTypes ==
  /\ row \in [Servers -> RowRecords]
  /\ binding \in Seq(Bindings)
  /\ client \in [Servers -> Keys \cup {None}]
  /\ cache \in [Servers -> Keys \cup {None}]
  /\ failed \in [Servers -> Keys \cup {None}]
  /\ check \in [Checks -> CheckRecords \cup {None, Over}]
  /\ changes \in Nat

(* A request reads the bindings, asks the servers, and has its tools.       *)
FindRecords ==
  [at : {"idle", "load"}]
    \cup [at : {"ask"}, seen : Seq(SeenRecords), got : Seq(Int)]
    \cup [at : {"ready"}, seen : Seq(SeenRecords), got : Seq(Int), tools : Seq(ToolRecords)]

(* What a request has learnt of a server is the configuration it read, or  *)
(* that there is none; and its tools are made of that.                     *)
Learnt(f) ==
  /\ f.at \in {"ask", "ready"} =>
       /\ Len(f.got) = Len(f.seen)
       /\ \A i \in 1..Len(f.seen) : f.got[i] \in {Todo, Waiting, Unreachable, f.seen[i].key.conf}
  /\ f.at = "ready" =>
       /\ \A i \in 1..Len(f.seen) : f.got[i] \notin {Todo, Waiting}
       /\ f.tools = ExtraTools(ProductTools(f.seen, f.got))

FindsLearnt == find \in [Requests -> FindRecords] /\ \A t \in Requests : Learnt(find[t])

(* The inductive invariant of servers, bindings, caches and gathered tools. *)
McpIInv == ServerTypes /\ StatusJudged /\ FindsLearnt

(* A row has a fingerprint (server_fingerprint).                            *)
LEMMA KeyType ==
  ASSUME ServerTypes, NEW s \in Servers
  PROVE  Key(s) \in Keys
<1>1. row[s] \in RowRecords
  BY DEF ServerTypes
<1> QED BY <1>1 DEF RowRecords, Keys, Key

(* At the start no verdict has been given and no request has begun.         *)
LEMMA McpInitIInv == McpInit => McpIInv
<1> SUFFICES ASSUME McpInit PROVE McpIInv
  OBVIOUS
<1>1. \A l \in {"alive", "unborn", "gone"} : [NewRow(1) EXCEPT !.life = l] \in RowRecords
      /\ [NewRow(1) EXCEPT !.life = l].status = "unknown"
  BY ToolNames DEF NewRow, RowRecords
<1>2. NewRow(1) \in RowRecords /\ NewRow(1).status = "unknown"
  BY ToolNames DEF NewRow, RowRecords
<1>3. row \in [Servers -> RowRecords] /\ \A s \in Servers : row[s].status = "unknown"
  <2>1. PICK other \in {"unborn", "gone"} :
          row = [s \in Servers |->
            IF \E i \in DOMAIN binding : binding[i].server = s
            THEN NewRow(1) ELSE [NewRow(1) EXCEPT !.life = other]]
    BY DEF McpInit
  <2>2. [NewRow(1) EXCEPT !.life = other] \in RowRecords
        /\ [NewRow(1) EXCEPT !.life = other].status = "unknown"
    BY <1>1
  <2> DEFINE q == [NewRow(1) EXCEPT !.life = other]
  <2> HIDE DEF q
  <2> QED BY <1>2, <2>1, <2>2 DEF q
<1>4. binding \in Seq(Bindings)
  BY ToolNames DEF McpInit, Bindings
<1>5. ServerTypes
  BY <1>3, <1>4, ToolNames DEF McpInit, ServerTypes
<1>6. StatusJudged
  BY <1>3 DEF StatusJudged
<1>7. FindsLearnt
  BY DEF McpInit, FindsLearnt, FindRecords, NoFind, Learnt
<1> QED BY <1>5, <1>6, <1>7 DEF McpIInv

(* Rewriting the row of one server.                                        *)
LEMMA RowWritten ==
  ASSUME ServerTypes, StatusJudged, NEW s \in Servers, NEW r \in RowRecords,
         r.life = "alive" /\ r.status # "unknown" /\ r.judged # r.conf => r.late,
         row' = [row EXCEPT ![s] = r]
  PROVE  row' \in [Servers -> RowRecords] /\ StatusJudged'
<1>1. row \in [Servers -> RowRecords]
  BY DEF ServerTypes
<1>2. row'[s] = r /\ \A x \in Servers \ {s} : row'[x] = row[x]
  BY <1>1
<1> QED BY <1>1, <1>2 DEF StatusJudged, Alive

(* The columns of a row.                                                    *)
LEMMA RowFacts ==
  ASSUME ServerTypes, NEW s \in Servers
  PROVE  /\ row[s] \in RowRecords
         /\ row[s].life \in {"alive", "unborn", "gone"} /\ row[s].conf \in Confs
         /\ row[s].stamp \in Nat /\ row[s].on \in BOOLEAN
         /\ row[s].status \in {"unknown", "ok", "error"} /\ row[s].judged \in Nat
         /\ row[s].late \in BOOLEAN
         /\ row[s] = [life |-> row[s].life, conf |-> row[s].conf, stamp |-> row[s].stamp,
                      on |-> row[s].on, status |-> row[s].status, judged |-> row[s].judged,
                      late |-> row[s].late]
<1>1. row[s] \in RowRecords
  BY DEF ServerTypes
<1> QED BY <1>1 DEF RowRecords

(* A verdict of a check marks itself late when the configuration has       *)
(* changed.                                                                *)
LEMMA JudgedRow ==
  ASSUME NEW m \in RowRecords, NEW c \in Confs, NEW ok \in BOOLEAN
  PROVE  /\ Judged(m, c, ok) \in RowRecords
         /\ Judged(m, c, ok).judged # Judged(m, c, ok).conf => Judged(m, c, ok).late
<1> DEFINE verdict == IF ok THEN "ok" ELSE "error"
           late == m.late \/ c # m.conf
           moved == m.stamp + 1
           r == [m EXCEPT !.status = verdict, !.judged = c, !.late = late, !.stamp = moved]
<1>1. Judged(m, c, ok) = r
  BY DEF Judged
<1>2. verdict \in {"unknown", "ok", "error"} /\ c \in Nat /\ m.late \in BOOLEAN /\ m.stamp \in Nat
  BY ToolNames DEF RowRecords
<1>3. late \in BOOLEAN /\ moved \in Nat
  BY <1>2
<1>4. c # m.conf => late
  OBVIOUS
<1> HIDE DEF verdict, late, moved
<1>5. r \in RowRecords /\ r.judged = c /\ r.conf = m.conf /\ r.late = late
  BY <1>2, <1>3 DEF RowRecords
<1> QED BY <1>1, <1>4, <1>5

(* A verdict is about the configuration it was made with, or is late.      *)
LEMMA VerdictWritten ==
  ASSUME ServerTypes, StatusJudged, NEW s \in Servers, NEW c \in Confs, NEW ok \in BOOLEAN,
         Verdict(s, c, ok)
  PROVE  row' \in [Servers -> RowRecords] /\ StatusJudged'
<1>1. CASE ~Alive(s)
  <2>1. row' = [row EXCEPT ![s] = row[s]]
    BY <1>1 DEF Verdict
  <2> QED BY <1>1, <2>1, RowWritten, RowFacts DEF Alive
<1>2. CASE Alive(s)
  <2>1. row' = [row EXCEPT ![s] = Judged(row[s], c, ok)]
    BY <1>2 DEF Verdict
  <2>2. row[s] \in RowRecords
    BY RowFacts
  <2> QED BY <2>1, <2>2, JudgedRow, RowWritten
<1> QED BY <1>1, <1>2

(* What one request has learnt is written.                                  *)
LEMMA FindWritten ==
  ASSUME FindsLearnt, NEW t \in Requests, NEW f \in FindRecords, Learnt(f),
         find' = [find EXCEPT ![t] = f]
  PROVE  FindsLearnt'
<1>1. find \in [Requests -> FindRecords]
  BY DEF FindsLearnt
<1>2. find' \in [Requests -> FindRecords]
  BY <1>1
<1>3. \A x \in Requests : Learnt(find'[x])
  BY <1>1 DEF FindsLearnt
<1> QED BY <1>2, <1>3 DEF FindsLearnt

(* What one request has learnt.                                             *)
LEMMA FindFacts ==
  ASSUME FindsLearnt, NEW t \in Requests
  PROVE  /\ find[t] \in FindRecords /\ Learnt(find[t])
         /\ find[t].at \in {"ask", "ready"} =>
              /\ find[t].seen \in Seq(SeenRecords) /\ find[t].got \in Seq(Int)
              /\ DOMAIN find[t].seen = 1..Len(find[t].seen)
              /\ Len(find[t].got) = Len(find[t].seen)
         /\ find[t].at = "ask" =>
              find[t] \in [at : {"ask"}, seen : Seq(SeenRecords), got : Seq(Int)]
<1>1. find[t] \in FindRecords /\ Learnt(find[t])
  BY DEF FindsLearnt
<1>2. find[t].at = "ask" =>
        /\ find[t] \in [at : {"ask"}, seen : Seq(SeenRecords), got : Seq(Int)]
        /\ find[t].seen \in Seq(SeenRecords) /\ find[t].got \in Seq(Int)
  BY <1>1 DEF FindRecords
<1>3. find[t].at = "ready" => find[t].seen \in Seq(SeenRecords) /\ find[t].got \in Seq(Int)
  <2>1. find[t].at = "ready" =>
          find[t] \in [at : {"ready"}, seen : Seq(SeenRecords), got : Seq(Int),
                       tools : Seq(ToolRecords)]
    BY <1>1 DEF FindRecords
  <2> QED BY <2>1
<1>4. find[t].at \in {"ask", "ready"} => Len(find[t].got) = Len(find[t].seen)
  BY <1>1 DEF Learnt
<1>5. find[t].at \in {"ask", "ready"} => find[t].seen \in Seq(SeenRecords) /\ find[t].got \in Seq(Int)
  BY <1>2, <1>3
<1>6. find[t].at \in {"ask", "ready"} => DOMAIN find[t].seen = 1..Len(find[t].seen)
  BY <1>5
<1> QED BY <1>1, <1>2, <1>4, <1>5, <1>6

(* The outcome of one discovery.                                           *)
LEMMA Settled ==
  ASSUME FindsLearnt, NEW t \in Requests, find[t].at = "ask", NEW i \in DOMAIN find[t].seen,
         NEW outcome \in {Waiting, Unreachable, find[t].seen[i].key.conf},
         Settle(t, i, outcome)
  PROVE  FindsLearnt'
<1> DEFINE m == find[t]
           f == [m EXCEPT !.got = [m.got EXCEPT ![i] = outcome]]
<1>1. /\ m \in [at : {"ask"}, seen : Seq(SeenRecords), got : Seq(Int)]
      /\ Learnt(m) /\ i \in 1..Len(m.seen) /\ Len(m.got) = Len(m.seen)
      /\ m.seen \in Seq(SeenRecords) /\ m.got \in Seq(Int)
  BY FindFacts
<1>2. find' = [find EXCEPT ![t] = f]
  BY DEF Settle
<1>3. outcome \in Int
  <2>1. m.seen[i] \in SeenRecords
    BY <1>1
  <2>2. m.seen[i].key \in Keys
    BY <2>1 DEF SeenRecords
  <2>3. m.seen[i].key.conf \in Confs
    BY <2>2 DEF Keys
  <2>4. Confs \subseteq Nat
    BY ToolNames
  <2> QED BY <2>3, <2>4 DEF Waiting, Unreachable
<1> HIDE DEF m
<1> DEFINE g == [m.got EXCEPT ![i] = outcome]
<1>4. g \in Seq(Int) /\ Len(g) = Len(m.seen)
  BY <1>1, <1>3
<1>5. \A j \in 1..Len(m.seen) : g[j] = IF j = i THEN outcome ELSE m.got[j]
  BY <1>1
<1> HIDE DEF g
<1>6. f \in FindRecords /\ f.at = "ask" /\ f.seen = m.seen /\ f.got = g
  BY <1>1, <1>4 DEF FindRecords, g
<1>7. \A j \in 1..Len(m.seen) : g[j] \in {Todo, Waiting, Unreachable, m.seen[j].key.conf}
  BY <1>1, <1>5 DEF Learnt, m
<1> HIDE DEF f
<1>8. Learnt(f)
  BY <1>4, <1>6, <1>7 DEF Learnt
<1> QED BY <1>2, <1>6, <1>8, FindWritten

(* What a request knows of a server it found in the cache.                 *)
LEMMA SeenType ==
  ASSUME FindsLearnt, NEW t \in Requests, find[t].at \in {"ask", "ready"}, NEW i \in DOMAIN find[t].seen
  PROVE  /\ find[t].seen[i] \in SeenRecords
         /\ find[t].seen[i].server \in Servers /\ find[t].seen[i].key \in Keys
<1>1. find[t].seen \in Seq(SeenRecords) /\ i \in 1..Len(find[t].seen)
  BY FindFacts
<1>2. find[t].seen[i] \in SeenRecords
  BY <1>1
<1> QED BY <1>2 DEF SeenRecords

(* The outcome of a discovery is stored under the fingerprint it was asked *)
(* with.                                                                   *)
LEMMA StoredTypes ==
  ASSUME ServerTypes, NEW s \in Servers, NEW key \in Keys, NEW ok \in BOOLEAN, Stored(s, key, ok)
  PROVE  cache' \in [Servers -> Keys \cup {None}] /\ failed' \in [Servers -> Keys \cup {None}]
<1>1. cache \in [Servers -> Keys \cup {None}] /\ failed \in [Servers -> Keys \cup {None}]
  BY DEF ServerTypes
<1>2. CASE ok
  BY <1>1, <1>2 DEF Stored
<1>3. CASE ~ok
  BY <1>1, <1>3 DEF Stored
<1> QED BY <1>2, <1>3

(* The bindings in force when they are read.                               *)
LEMMA LoadedType ==
  ASSUME ServerTypes
  PROVE  Loaded \in Seq(SeenRecords)
<1> DEFINE S == {b \in ToSet(binding) : b.on /\ row[b.server].on}
           w == Among(binding, S)
           See(b) == [server |-> b.server, key |-> Key(b.server), allow |-> b.allow]
<1>1. w \in Seq(Bindings)
  <2> HIDE DEF S
  <2>1. binding \in Seq(Bindings)
    BY DEF ServerTypes
  <2> QED BY <2>1, AmongFacts
<1>2. ASSUME NEW b \in Bindings PROVE See(b) \in SeenRecords
  <2>1. b.server \in Servers /\ b.allow \in SUBSET Names
    BY DEF Bindings
  <2>2. Key(b.server) \in Keys
    BY <2>1, KeyType
  <2> QED BY <2>1, <2>2 DEF SeenRecords
<1>3. Loaded = [i \in DOMAIN w |-> See(w[i])]
  BY DEF Loaded
<1> HIDE DEF w, See
<1>4. DOMAIN w = 1..Len(w) /\ Len(w) \in Nat /\ \A i \in 1..Len(w) : See(w[i]) \in SeenRecords
  BY <1>1, <1>2
<1> QED BY <1>3, <1>4

(* Steps that no request takes.                                             *)
LEMMA FindsKept ==
  ASSUME FindsLearnt, UNCHANGED find
  PROVE  FindsLearnt'
BY DEF FindsLearnt

(* Steps that write no row.                                                 *)
LEMMA RowsKept ==
  ASSUME StatusJudged, UNCHANGED row
  PROVE  StatusJudged'
BY DEF StatusJudged, Alive

(* A change is counted.                                                     *)
LEMMA Counts ==
  ASSUME ServerTypes, Changing
  PROVE  changes' \in Nat
BY DEF ServerTypes, Changing

(* A server is registered (create_mcp_server): it has no verdict.           *)
LEMMA CreateServerIInv ==
  ASSUME McpIInv, NEW s \in Servers, CreateServer(s)
  PROVE  McpIInv'
<1>1. ServerTypes /\ StatusJudged /\ FindsLearnt
  BY DEF McpIInv
<1>2. PICK c \in Confs : row' = [row EXCEPT ![s] = NewRow(c)]
  BY DEF CreateServer
<1>3. NewRow(c) \in RowRecords /\ NewRow(c).status = "unknown"
  BY DEF NewRow, RowRecords
<1>4. row' \in [Servers -> RowRecords] /\ StatusJudged'
  BY <1>1, <1>2, <1>3, RowWritten
<1>5. UNCHANGED <<binding, client, cache, failed, check, find>> /\ changes' \in Nat
  BY <1>1, Counts DEF CreateServer
<1>6. ServerTypes'
  BY <1>1, <1>4, <1>5 DEF ServerTypes
<1> QED BY <1>1, <1>4, <1>5, <1>6, FindsKept DEF McpIInv

(* A change of the configuration takes the verdict back.                    *)
LEMMA ReconfiguredRow ==
  ASSUME NEW m \in RowRecords, NEW c \in Confs, NEW on \in BOOLEAN,
         m.status # "unknown" /\ m.judged # m.conf => m.late
  PROVE  /\ UpdatedRow(m, c, on) \in RowRecords
         /\ LET r == UpdatedRow(m, c, on) IN
            r.status # "unknown" /\ r.judged # r.conf => r.late
<1> DEFINE moved == m.stamp + 1
           status == IF c # m.conf THEN "unknown" ELSE m.status
           late == IF c # m.conf THEN FALSE ELSE m.late
           r == [m EXCEPT !.conf = c, !.on = on, !.stamp = moved, !.status = status, !.late = late]
<1>1. UpdatedRow(m, c, on) = r
  BY DEF UpdatedRow, Reconfigured
<1>2. m.stamp \in Nat /\ m.status \in {"unknown", "ok", "error"} /\ m.late \in BOOLEAN
  BY DEF RowRecords
<1>3. status # "unknown" /\ m.judged # c => late
  OBVIOUS
<1>5. moved \in Nat
  BY <1>2
<1>6. status \in {"unknown", "ok", "error"}
  BY <1>2
<1>7. late \in BOOLEAN
  BY <1>2, Zenon
<1> HIDE DEF moved, status, late
<1>4. r \in RowRecords /\ r.judged = m.judged /\ r.conf = c /\ r.late = late /\ r.status = status
  BY <1>5, <1>6, <1>7 DEF RowRecords
<1> HIDE DEF r
<1> QED BY <1>1, <1>3, <1>4

(* A server is changed (update_mcp_server).                                 *)
LEMMA UpdateServerIInv ==
  ASSUME McpIInv, NEW s \in Servers, UpdateServer(s)
  PROVE  McpIInv'
<1>1. ServerTypes /\ StatusJudged /\ FindsLearnt
  BY DEF McpIInv
<1>2. PICK c \in Confs, on \in BOOLEAN : row' = [row EXCEPT ![s] = UpdatedRow(row[s], c, on)]
  BY DEF UpdateServer
<1>3. row[s] \in RowRecords /\ (row[s].status # "unknown" /\ row[s].judged # row[s].conf => row[s].late)
  BY <1>1, RowFacts DEF StatusJudged, UpdateServer
<1>4. row' \in [Servers -> RowRecords] /\ StatusJudged'
  BY <1>1, <1>2, <1>3, ReconfiguredRow, RowWritten
<1>5. UNCHANGED <<binding, check, find>> /\ changes' \in Nat
  BY <1>1, Counts DEF UpdateServer
<1>6. Invalidate(s)
  BY DEF UpdateServer
<1>7. ServerTypes'
  BY <1>1, <1>4, <1>5, <1>6 DEF ServerTypes, Invalidate
<1> QED BY <1>1, <1>4, <1>5, <1>7, FindsKept DEF McpIInv

(* A server goes, and its bindings with it (delete_mcp_server).             *)
LEMMA DeleteServerIInv ==
  ASSUME McpIInv, NEW s \in Servers, DeleteServer(s)
  PROVE  McpIInv'
<1>1. ServerTypes /\ StatusJudged /\ FindsLearnt
  BY DEF McpIInv
<1> DEFINE r == [row[s] EXCEPT !.life = "gone"]
<1>2. row' = [row EXCEPT ![s] = r]
  BY DEF DeleteServer
<1>3. r \in RowRecords /\ r.life # "alive"
  BY <1>1, RowFacts DEF RowRecords
<1> HIDE DEF r
<1>4. row' \in [Servers -> RowRecords] /\ StatusJudged'
  BY <1>1, <1>2, <1>3, RowWritten
<1>5. UNCHANGED <<check, find>> /\ changes' \in Nat /\ Invalidate(s)
  BY <1>1, Counts DEF DeleteServer
<1>6. binding' \in Seq(Bindings)
  <2> DEFINE S == {b \in ToSet(binding) : b.server # s}
  <2>1. binding' = Among(binding, S) /\ binding \in Seq(Bindings)
    BY <1>1 DEF DeleteServer, ServerTypes
  <2> HIDE DEF S
  <2> QED BY <2>1, AmongFacts
<1>7. ServerTypes'
  BY <1>1, <1>4, <1>5, <1>6 DEF ServerTypes, Invalidate
<1> QED BY <1>1, <1>4, <1>5, <1>7, FindsKept DEF McpIInv

(* The bindings of the product, and nothing else.                          *)
LEMMA BindingsIInv ==
  ASSUME McpIInv,
         \/ \E s \in Servers : Bind(s)
         \/ \E i \in DOMAIN binding : Rebind(i) \/ Unbind(i)
  PROVE  McpIInv'
<1>1. ServerTypes /\ StatusJudged /\ FindsLearnt /\ binding \in Seq(Bindings)
  BY DEF McpIInv, ServerTypes
<1>2. UNCHANGED <<row, client, cache, failed, check, find>> /\ changes' \in Nat
  BY <1>1, Counts DEF Bind, Rebind, Unbind
<1>3. binding' \in Seq(Bindings)
  <2>1. ASSUME NEW s \in Servers, Bind(s) PROVE binding' \in Seq(Bindings)
    <3>1. PICK allow \in Allows :
            binding' = Append(binding, [server |-> s, on |-> TRUE, allow |-> allow])
      BY <2>1 DEF Bind
    <3>2. [server |-> s, on |-> TRUE, allow |-> allow] \in Bindings
      BY ToolNames DEF Bindings
    <3> QED BY <1>1, <3>1, <3>2
  <2>2. ASSUME NEW i \in DOMAIN binding, Rebind(i) PROVE binding' \in Seq(Bindings)
    <3>1. PICK on \in BOOLEAN, allow \in Allows :
            binding' = [binding EXCEPT ![i] = [binding[i] EXCEPT !.on = on, !.allow = allow]]
      BY <2>2 DEF Rebind
    <3> DEFINE b == [binding[i] EXCEPT !.on = on, !.allow = allow]
    <3>2. binding[i] \in Bindings /\ allow \in SUBSET Names
      BY <1>1, ToolNames
    <3>3. binding' = [binding EXCEPT ![i] = b]
      BY <3>1
    <3>4. b \in Bindings
      BY <3>2 DEF Bindings
    <3> HIDE DEF b
    <3> QED BY <1>1, <3>3, <3>4
  <2>3. ASSUME NEW i \in DOMAIN binding, Unbind(i) PROVE binding' \in Seq(Bindings)
    <3>1. binding' = SubSeq(binding, 1, i - 1) \o SubSeq(binding, i + 1, Len(binding))
      BY <2>3 DEF Unbind, RemoveAt
    <3>2. i \in 1..Len(binding)
      BY <1>1
    <3>3. SubSeq(binding, 1, i - 1) \in Seq(Bindings)
      BY <1>1, <3>2
    <3>4. SubSeq(binding, i + 1, Len(binding)) \in Seq(Bindings)
      BY <1>1, <3>2
    <3> QED BY <3>1, <3>3, <3>4
  <2> QED BY <2>1, <2>2, <2>3
<1>4. ServerTypes'
  BY <1>1, <1>2, <1>3 DEF ServerTypes
<1> QED BY <1>1, <1>2, <1>4, FindsKept, RowsKept DEF McpIInv

(* A health check begins, or is refused at once (test_mcp_server).          *)
LEMMA TestStartIInv ==
  ASSUME McpIInv, NEW p \in Checks, NEW s \in Servers, TestStart(p, s)
  PROVE  McpIInv'
<1>1. ServerTypes /\ StatusJudged /\ FindsLearnt /\ Key(s) \in Keys
  BY KeyType DEF McpIInv
<1>2. UNCHANGED <<binding, cache, failed, find, changes>>
  BY DEF TestStart
<1>3. row' \in [Servers -> RowRecords] /\ StatusJudged'
  <2>1. CASE Verdict(s, row[s].conf, FALSE)
    <3>1. row[s].conf \in Confs
      BY <1>1, RowFacts
    <3> QED BY <1>1, <2>1, <3>1, VerdictWritten
  <2>2. CASE UNCHANGED row
    BY <1>1, <2>2, RowsKept DEF ServerTypes
  <2> QED BY <2>1, <2>2 DEF TestStart
<1>4. /\ client' \in [Servers -> Keys \cup {None}]
      /\ check' \in [Checks -> CheckRecords \cup {None, Over}]
  <2>1. [server |-> s, key |-> Key(s)] \in CheckRecords
    BY <1>1 DEF CheckRecords
  <2> QED BY <1>1, <2>1 DEF TestStart, ServerTypes, GetClient
<1>5. ServerTypes'
  BY <1>1, <1>2, <1>3, <1>4 DEF ServerTypes
<1> QED BY <1>1, <1>2, <1>3, <1>5, FindsKept DEF McpIInv

(* A health check ends on the row as it now is (test_mcp_server).           *)
LEMMA TestEndIInv ==
  ASSUME McpIInv, NEW p \in Checks, TestEnd(p)
  PROVE  McpIInv'
<1>1. ServerTypes /\ StatusJudged /\ FindsLearnt
  BY DEF McpIInv
<1>2. UNCHANGED <<binding, client, find, changes>> /\ check' = [check EXCEPT ![p] = Over]
  BY DEF TestEnd
<1>3. check[p] \in CheckRecords
  BY <1>1 DEF ServerTypes, TestEnd
<1>4. check[p].server \in Servers /\ check[p].key \in Keys /\ check[p].key.conf \in Confs
  BY <1>3 DEF CheckRecords, Keys
<1>5. PICK ok \in BOOLEAN : /\ Stored(check[p].server, check[p].key, ok)
                            /\ Verdict(check[p].server, check[p].key.conf, ok)
  BY DEF TestEnd
<1>6. row' \in [Servers -> RowRecords] /\ StatusJudged'
  BY <1>1, <1>4, <1>5, VerdictWritten
<1>7. cache' \in [Servers -> Keys \cup {None}] /\ failed' \in [Servers -> Keys \cup {None}]
  BY <1>1, <1>4, <1>5, StoredTypes
<1>8. ServerTypes'
  BY <1>1, <1>2, <1>6, <1>7 DEF ServerTypes
<1> QED BY <1>1, <1>2, <1>6, <1>8, FindsKept DEF McpIInv

(* A failure is forgotten after a while (_fresh_failure).                   *)
LEMMA NegativeExpiresIInv ==
  ASSUME McpIInv, NEW s \in Servers, NegativeExpires(s)
  PROVE  McpIInv'
<1>1. ServerTypes /\ StatusJudged /\ FindsLearnt
  BY DEF McpIInv
<1>2. UNCHANGED <<row, binding, client, cache, check, find, changes>>
      /\ failed' = [failed EXCEPT ![s] = None]
  BY DEF NegativeExpires
<1>3. ServerTypes'
  BY <1>1, <1>2 DEF ServerTypes
<1> QED BY <1>1, <1>2, <1>3, FindsKept, RowsKept DEF McpIInv

(* The bindings are read: each server is yet to be asked.                  *)
LEMMA LoadIInv ==
  ASSUME McpIInv, NEW t \in Requests, Load(t)
  PROVE  McpIInv'
<1>1. ServerTypes /\ StatusJudged /\ FindsLearnt
  BY DEF McpIInv
<1>2. UNCHANGED <<row, binding, client, cache, failed, check, changes>>
  BY DEF Load
<1>3. PICK seen \in {Loaded, <<>>} :
        find' = [find EXCEPT ![t] = [at |-> "ask", seen |-> seen, got |-> [i \in DOMAIN seen |-> Todo]]]
  BY DEF Load
<1>4. seen \in Seq(SeenRecords) /\ DOMAIN seen = 1..Len(seen) /\ Len(seen) \in Nat
  <2>1. Loaded \in Seq(SeenRecords) /\ <<>> \in Seq(SeenRecords)
    BY <1>1, LoadedType
  <2>2. seen \in Seq(SeenRecords)
    BY <2>1
  <2> QED BY <2>2
<1> DEFINE got == [i \in DOMAIN seen |-> Todo]
           f == [at |-> "ask", seen |-> seen, got |-> got]
<1>5. got \in Seq(Int) /\ Len(got) = Len(seen) /\ \A i \in 1..Len(seen) : got[i] = Todo
  BY <1>4 DEF Todo
<1>6. find' = [find EXCEPT ![t] = f]
  BY <1>3
<1> HIDE DEF got
<1>7. f \in FindRecords /\ f.at = "ask" /\ f.seen = seen /\ f.got = got
  BY <1>4, <1>5 DEF FindRecords
<1> HIDE DEF f
<1>8. Learnt(f)
  BY <1>5, <1>7 DEF Learnt
<1>9. FindsLearnt'
  BY <1>1, <1>6, <1>7, <1>8, FindWritten
<1>10. ServerTypes'
  BY <1>1, <1>2 DEF ServerTypes
<1> QED BY <1>1, <1>2, <1>9, <1>10, RowsKept DEF McpIInv

(* One server: a cached list, a known failure, a connection, an answer.    *)
LEMMA DiscoverIInv ==
  ASSUME McpIInv, NEW t \in Requests, find[t].at = "ask", NEW i \in DOMAIN find[t].seen,
         DiscoverCached(t, i) \/ DiscoverRefused(t, i) \/ Dial(t, i) \/ ServerAnswers(t, i)
  PROVE  McpIInv'
<1> DEFINE want == find[t].seen[i]
<1>1. ServerTypes /\ StatusJudged /\ FindsLearnt
  BY DEF McpIInv
<1>2. want.server \in Servers /\ want.key \in Keys
  BY <1>1, SeenType
<1>3. UNCHANGED <<row, binding, check, changes>>
  BY DEF DiscoverCached, DiscoverRefused, Dial, ServerAnswers
<1>4. FindsLearnt'
  <2>1. CASE DiscoverCached(t, i)
    <3>1. cache[want.server] = want.key /\ Settle(t, i, cache[want.server].conf)
      BY <2>1 DEF DiscoverCached, CacheHit, Cached
    <3>2. Settle(t, i, want.key.conf)
      BY <3>1
    <3> QED BY <1>1, <3>2, Settled
  <2>2. CASE DiscoverRefused(t, i)
    <3>1. Settle(t, i, Unreachable)
      BY <2>2 DEF DiscoverRefused
    <3> QED BY <1>1, <3>1, Settled
  <2>3. CASE Dial(t, i)
    <3>1. Settle(t, i, Waiting)
      BY <2>3 DEF Dial
    <3> QED BY <1>1, <3>1, Settled
  <2>4. CASE ServerAnswers(t, i)
    <3>1. PICK ok \in BOOLEAN : Settle(t, i, IF ok THEN want.key.conf ELSE Unreachable)
      BY <2>4 DEF ServerAnswers
    <3>2. Settle(t, i, want.key.conf) \/ Settle(t, i, Unreachable)
      BY <3>1
    <3> QED BY <1>1, <3>2, Settled
  <2> QED BY <2>1, <2>2, <2>3, <2>4
<1>5. /\ client' \in [Servers -> Keys \cup {None}]
      /\ cache' \in [Servers -> Keys \cup {None}]
      /\ failed' \in [Servers -> Keys \cup {None}]
  <2>1. CASE DiscoverCached(t, i) \/ DiscoverRefused(t, i)
    BY <1>1, <2>1 DEF DiscoverCached, DiscoverRefused, ServerTypes
  <2>2. CASE Dial(t, i)
    <3>1. client' = [client EXCEPT ![want.server] = want.key] /\ UNCHANGED <<cache, failed>>
      BY <2>2 DEF Dial, GetClient
    <3> HIDE DEF want
    <3> QED BY <1>1, <1>2, <3>1 DEF ServerTypes
  <2>3. CASE ServerAnswers(t, i)
    <3>1. PICK ok \in BOOLEAN : Stored(want.server, want.key, ok)
      BY <2>3 DEF ServerAnswers
    <3>2. UNCHANGED client
      BY <2>3 DEF ServerAnswers
    <3> QED BY <1>1, <1>2, <3>1, <3>2, StoredTypes DEF ServerTypes
  <2> QED BY <2>1, <2>2, <2>3
<1>6. ServerTypes'
  BY <1>1, <1>3, <1>5 DEF ServerTypes
<1> QED BY <1>1, <1>3, <1>4, <1>6, RowsKept DEF McpIInv

(* Every server is settled: the tools are put together.                    *)
LEMMA GatherIInv ==
  ASSUME McpIInv, NEW t \in Requests, Gather(t)
  PROVE  McpIInv'
<1> DEFINE m == find[t]
           tools == ExtraTools(ProductTools(m.seen, m.got))
           f == [at |-> "ready", seen |-> m.seen, got |-> m.got, tools |-> tools]
<1>1. ServerTypes /\ StatusJudged /\ FindsLearnt
  BY DEF McpIInv
<1>2. UNCHANGED <<row, binding, client, cache, failed, check, changes>> /\ m.at = "ask"
  BY DEF Gather
<1>3. /\ m.seen \in Seq(SeenRecords) /\ m.got \in Seq(Int) /\ Len(m.got) = Len(m.seen) /\ Learnt(m)
      /\ DOMAIN m.got = 1..Len(m.seen)
  BY <1>1, <1>2, FindFacts
<1>4. find' = [find EXCEPT ![t] = f]
  BY DEF Gather
<1>5. \A i \in 1..Len(m.seen) : m.got[i] \notin {Todo, Waiting}
  BY <1>3 DEF Gather
<1> HIDE DEF m
<1>6. Reading(m.seen, m.got)
  BY <1>2, <1>3, <1>5 DEF Learnt, Reading
<1>7. tools \in Seq(ToolRecords)
  BY <1>6, ExtraToolsFacts
<1>8. f.at = "ready" /\ f.seen = m.seen /\ f.got = m.got /\ f.tools = tools
  OBVIOUS
<1> HIDE DEF tools
<1>9. f \in FindRecords
  BY <1>3, <1>7 DEF FindRecords
<1> HIDE DEF f
<1>10. Learnt(f)
  BY <1>2, <1>3, <1>5, <1>8 DEF Learnt, tools
<1>11. FindsLearnt'
  BY <1>1, <1>4, <1>9, <1>10, FindWritten
<1>12. ServerTypes'
  BY <1>1, <1>2 DEF ServerTypes
<1> QED BY <1>1, <1>2, <1>11, <1>12, RowsKept DEF McpIInv

(* Everything a request does about its tools.                              *)
LEMMA ToolStepIInv ==
  ASSUME McpIInv, NEW t \in Requests, ToolStep(t)
  PROVE  McpIInv'
BY LoadIInv, DiscoverIInv, GatherIInv DEF ToolStep

(* Everything administrators, owners and health checks do.                 *)
LEMMA EnvironmentIInv ==
  ASSUME McpIInv, Environment
  PROVE  McpIInv'
<1>1. CASE Admin
  BY <1>1, CreateServerIInv, UpdateServerIInv, DeleteServerIInv, BindingsIInv, TestStartIInv DEF Admin
<1>2. CASE \E p \in Checks : TestEnd(p)
  BY <1>2, TestEndIInv
<1>3. CASE \E s \in Servers : NegativeExpires(s)
  BY <1>3, NegativeExpiresIInv
<1> QED BY <1>1, <1>2, <1>3 DEF Environment

(* The tools of every answer that has gathered them.                       *)
LEMMA BoundByFinds ==
  ASSUME FindsLearnt
  PROVE  ToolsAsBound
<1> SUFFICES ASSUME NEW t \in Requests, find[t].at = "ready"
             PROVE  AsBound(find[t].tools, find[t].seen, find[t].got)
  BY DEF ToolsAsBound, AsBound, From, OfferOf
<1>1. /\ find[t].seen \in Seq(SeenRecords) /\ find[t].got \in Seq(Int)
      /\ Len(find[t].got) = Len(find[t].seen) /\ Learnt(find[t])
      /\ DOMAIN find[t].got = 1..Len(find[t].seen)
  BY FindFacts
<1>2. Reading(find[t].seen, find[t].got) /\ find[t].tools = ExtraTools(ProductTools(find[t].seen, find[t].got))
  BY <1>1 DEF Learnt, Reading
<1> QED BY <1>2, ExtraToolsFacts

-----------------------------------------------------------------------------
(* The requests and the semaphores of the embedder limiter.                *)

(* Where a request can be.                                                  *)
Places == {"idle", "tools", "recall", "parked", "embed", "model", "call", "plan", "planning",
           "research", "synth", "writing", "stream", "generate"} \cup Ended

(* What is kept of a request and of a semaphore.                            *)
RequestRecords ==
  [way : {"none", "agent", "deep", "chat"}, at : Places, steps : Nat, round : Nat, found : Nat,
   over : BOOLEAN, late : Nat, gen : Nat, back : {"none", "stream", "model", "research"}]
SemRecords == [size : Nat, taken : Nat, orphans : Nat, leaked : Nat]

(* Where a request is when it embeds the query, on a semaphore that is.    *)
Embedding == {"parked", "embed"}
Recalling == {"recall"} \cup Embedding

(* A call that waits for a permit or has one knows its semaphore, and a    *)
(* request that recalls knows where it goes on.                            *)
RequestTypes ==
  /\ req \in [Requests -> RequestRecords]
  /\ size \in Sizes
  /\ sem \in Seq(SemRecords)
  /\ \A t \in Requests : req[t].at \in Embedding => req[t].gen \in 1..Len(sem)
  /\ \A t \in Requests : req[t].at \in Recalling => req[t].back # "none"

(* The rounds of a deep research at every place of its graph: a finding    *)
(* for each round that is over, and one round under way.                   *)
Researching == {"research"} \cup Recalling
ResearchAt(m) ==
  /\ m.at \in {"idle", "tools"} => m.round = 0 /\ m.found = 0 /\ ~m.over
  /\ m.at = "plan" => m.found = m.round /\ m.round < MaxRounds
  /\ m.at \in {"planning", "synth", "writing", "done"} \cup Researching => m.round = m.found + 1
  /\ m.at \in Researching => m.round < MaxRounds
  /\ m.at \notin {"writing"} \cup Ended => m.late = 0
  /\ m.late <= 1 /\ m.round <= MaxRounds
  /\ m.at \in Recalling => m.back = "research"
  /\ m.at \notin {"model", "call", "stream", "generate"}

(* The rounds of every deep research.                                       *)
RoundsKept == \A t \in Requests : req[t].way = "deep" => ResearchAt(req[t])

(* A semaphore has as many permits taken as calls hold one of it, and      *)
(* those that threads without a request have taken for good; so never more *)
(* than it has: no release is refused (EmbedderRateLimiter.execute).       *)
Holders(g) == {t \in Requests : req[t].at = "embed" /\ req[t].gen = g}
Permits ==
  \A g \in 1..Len(sem) :
    /\ sem[g].taken = Cardinality(Holders(g)) + sem[g].leaked
    /\ sem[g].taken <= sem[g].size

(* The inductive invariant of requests and permits.                         *)
RequestIInv == RequestTypes /\ RoundsKept /\ Permits

(* What a request may become, wherever its permit is.                      *)
Allowed(m) ==
  /\ m \in RequestRecords
  /\ m.at \in Recalling => m.back # "none"
  /\ m.way = "deep" => ResearchAt(m)

(* One request.                                                             *)
LEMMA RequestFacts ==
  ASSUME RequestTypes, RoundsKept, NEW t \in Requests
  PROVE  /\ Allowed(req[t])
         /\ req[t].at \in Embedding => req[t].gen \in 1..Len(sem)
         /\ req[t].steps \in Nat /\ req[t].round \in Nat /\ req[t].found \in Nat
         /\ req[t].late \in Nat /\ req[t].gen \in Nat
         /\ req[t].at \in Places /\ req[t].way \in {"none", "agent", "deep", "chat"}
         /\ req[t].over \in BOOLEAN
<1>1. req[t] \in RequestRecords
  BY DEF RequestTypes
<1>2. Allowed(req[t]) /\ (req[t].at \in Embedding => req[t].gen \in 1..Len(sem))
  BY <1>1 DEF RequestTypes, RoundsKept, Allowed
<1>3. /\ req[t].steps \in Nat /\ req[t].round \in Nat /\ req[t].found \in Nat
      /\ req[t].late \in Nat /\ req[t].gen \in Nat
      /\ req[t].at \in Places /\ req[t].way \in {"none", "agent", "deep", "chat"}
  BY <1>1 DEF RequestRecords
<1>4. req[t].over \in BOOLEAN
  BY <1>1 DEF RequestRecords
<1> QED BY <1>2, <1>3, <1>4

(* One request is written, and semaphores are only ever added.              *)
LEMMA RequestWritten ==
  ASSUME RequestTypes, RoundsKept, NEW t \in Requests, NEW m, Allowed(m),
         m.at \in Embedding => m.gen \in 1..Len(sem'),
         req' = [req EXCEPT ![t] = m],
         sem' \in Seq(SemRecords), Len(sem) <= Len(sem'), size' \in Sizes
  PROVE  RequestTypes' /\ RoundsKept'
<1>1. req \in [Requests -> RequestRecords] /\ m \in RequestRecords
  BY DEF RequestTypes, Allowed
<1>2. req' \in [Requests -> RequestRecords] /\ req'[t] = m
      /\ \A u \in Requests : u # t => req'[u] = req[u]
  BY <1>1
<1>3. Len(sem) \in Nat /\ Len(sem') \in Nat
  BY DEF RequestTypes
<1>4. \A u \in Requests : req'[u].at \in Embedding => req'[u].gen \in 1..Len(sem')
  <2> SUFFICES ASSUME NEW u \in Requests, req'[u].at \in Embedding
               PROVE  req'[u].gen \in 1..Len(sem')
    OBVIOUS
  <2>1. CASE u = t
    BY <1>2, <2>1
  <2>2. CASE u # t
    <3>1. req[u].gen \in 1..Len(sem)
      BY <1>2, <2>2 DEF RequestTypes
    <3> QED BY <1>2, <1>3, <2>2, <3>1
  <2> QED BY <2>1, <2>2
<1>5. \A u \in Requests : req'[u].at \in Recalling => req'[u].back # "none"
  BY <1>2 DEF RequestTypes, Allowed
<1>6. RequestTypes'
  BY <1>2, <1>4, <1>5 DEF RequestTypes, Embedding, Recalling
<1>7. RoundsKept'
  BY <1>2 DEF RoundsKept, Allowed
<1> QED BY <1>6, <1>7

(* The calls that hold a permit can be counted.                             *)
LEMMA HoldersFinite ==
  ASSUME NEW g
  PROVE  IsFiniteSet(Holders(g)) /\ Cardinality(Holders(g)) \in Nat
<1>1. IsFiniteSet(Holders(g))
  BY Bounds, FS_Subset DEF Holders
<1> QED BY <1>1, FS_CardinalityType

(* Who holds a permit after a step of one request.                          *)
LEMMA HoldersAfter ==
  ASSUME RequestTypes, NEW t \in Requests, NEW m, req' = [req EXCEPT ![t] = m], NEW g
  PROVE  /\ m.at = "embed" /\ m.gen = g => Holders(g)' = Holders(g) \cup {t}
         /\ ~(m.at = "embed" /\ m.gen = g) => Holders(g)' = Holders(g) \ {t}
         /\ (t \in Holders(g) <=> m.at = "embed" /\ m.gen = g) => Holders(g)' = Holders(g)
<1>1. req'[t] = m /\ \A u \in Requests : u # t => req'[u] = req[u]
  BY DEF RequestTypes
<1>2. /\ m.at = "embed" /\ m.gen = g => Holders(g)' = Holders(g) \cup {t}
      /\ ~(m.at = "embed" /\ m.gen = g) => Holders(g)' = Holders(g) \ {t}
  BY <1>1 DEF Holders
<1>3. ASSUME t \in Holders(g) <=> m.at = "embed" /\ m.gen = g PROVE Holders(g)' = Holders(g)
  BY <1>1, <1>3 DEF Holders
<1> QED BY <1>2, <1>3

(* One semaphore is written.                                                *)
LEMMA SemWritten ==
  ASSUME RequestTypes, NEW g \in 1..Len(sem), NEW s \in SemRecords, sem' = [sem EXCEPT ![g] = s]
  PROVE  /\ sem' \in Seq(SemRecords) /\ Len(sem') = Len(sem)
         /\ \A h \in 1..Len(sem) : sem'[h] = IF h = g THEN s ELSE sem[h]
BY DEF RequestTypes

(* One semaphore.                                                           *)
LEMMA SemFacts ==
  ASSUME RequestTypes, NEW g \in 1..Len(sem)
  PROVE  /\ sem[g] \in SemRecords
         /\ sem[g].size \in Nat /\ sem[g].taken \in Nat
         /\ sem[g].orphans \in Nat /\ sem[g].leaked \in Nat
<1>1. sem[g] \in SemRecords
  BY DEF RequestTypes
<1> QED BY <1>1 DEF SemRecords

(* A request that moves on without taking or returning a permit.           *)
LEMMA PlainStep ==
  ASSUME RequestIInv, NEW t \in Requests, NEW m, Allowed(m),
         m.at \in Embedding => m.at = req[t].at /\ m.gen = req[t].gen,
         req[t].at = "embed" => m.at = "embed",
         req' = [req EXCEPT ![t] = m], UNCHANGED <<size, sem>>
  PROVE  RequestIInv'
<1>1. RequestTypes /\ RoundsKept /\ Permits
  BY DEF RequestIInv
<1>2. m.at \in Embedding => m.gen \in 1..Len(sem')
  BY <1>1, RequestFacts
<1>3. sem' \in Seq(SemRecords) /\ Len(sem) <= Len(sem') /\ size' \in Sizes
  BY <1>1 DEF RequestTypes
<1>4. RequestTypes' /\ RoundsKept'
  BY <1>1, <1>2, <1>3, RequestWritten
<1>5. \A g : Holders(g)' = Holders(g)
  <2> SUFFICES ASSUME NEW g PROVE Holders(g)' = Holders(g)
    OBVIOUS
  <2>1. CASE m.at = "embed" /\ m.gen = g
    <3>1. t \in Holders(g)
      BY <2>1 DEF Holders, Embedding
    <3> QED BY <1>1, <2>1, <3>1, HoldersAfter
  <2>2. CASE ~(m.at = "embed" /\ m.gen = g)
    <3>1. t \notin Holders(g)
      BY <2>2 DEF Holders, Embedding
    <3> QED BY <1>1, <2>2, <3>1, HoldersAfter
  <2> QED BY <2>1, <2>2
<1>6. Permits'
  BY <1>1, <1>5 DEF Permits
<1> QED BY <1>4, <1>6 DEF RequestIInv

(* A call gets a permit of the semaphore it was given.                     *)
LEMMA PermitTaken ==
  ASSUME RequestIInv, NEW t \in Requests, NEW g \in 1..Len(sem), NEW m, Allowed(m),
         m.at = "embed" /\ m.gen = g, req[t].at # "embed", sem[g].taken < sem[g].size,
         sem' = [sem EXCEPT ![g].taken = @ + 1],
         req' = [req EXCEPT ![t] = m], UNCHANGED size
  PROVE  RequestIInv'
<1> DEFINE s == [sem[g] EXCEPT !.taken = sem[g].taken + 1]
<1>1. RequestTypes /\ RoundsKept /\ Permits
  BY DEF RequestIInv
<1>2. sem' = [sem EXCEPT ![g] = s]
  OBVIOUS
<1>3. s \in SemRecords /\ s.taken = sem[g].taken + 1 /\ s.size = sem[g].size
      /\ s.leaked = sem[g].leaked
  BY <1>1, SemFacts DEF SemRecords
<1> HIDE DEF s
<1>4. sem' \in Seq(SemRecords) /\ Len(sem') = Len(sem)
      /\ \A h \in 1..Len(sem) : sem'[h] = IF h = g THEN s ELSE sem[h]
  BY <1>1, <1>2, <1>3, SemWritten
<1>5. RequestTypes' /\ RoundsKept'
  <2>1. Len(sem) \in Nat /\ size' \in Sizes
    BY <1>1 DEF RequestTypes
  <2>2. Len(sem) <= Len(sem') /\ (m.at \in Embedding => m.gen \in 1..Len(sem'))
    BY <1>4, <2>1
  <2> QED BY <1>1, <1>4, <2>1, <2>2, RequestWritten
<1>6. ASSUME NEW h \in 1..Len(sem)
      PROVE  sem'[h].taken = Cardinality(Holders(h)') + sem'[h].leaked /\ sem'[h].taken <= sem'[h].size
  <2>1. sem[h].taken = Cardinality(Holders(h)) + sem[h].leaked /\ sem[h].taken <= sem[h].size
    BY <1>1 DEF Permits
  <2>2. t \notin Holders(h) /\ IsFiniteSet(Holders(h)) /\ Cardinality(Holders(h)) \in Nat
    BY HoldersFinite DEF Holders
  <2>3. CASE h = g
    <3>1. Holders(h)' = Holders(h) \cup {t}
      BY <1>1, <2>3, HoldersAfter
    <3>2. Cardinality(Holders(h)') = Cardinality(Holders(h)) + 1
      BY <2>2, <3>1, FS_AddElement
    <3>3. sem'[h] = s
      BY <1>4, <2>3
    <3>4. sem[h].taken \in Nat /\ sem[h].leaked \in Nat /\ sem[h].size \in Nat
      BY <1>1, SemFacts
    <3> QED BY <1>3, <2>1, <2>2, <2>3, <3>2, <3>3, <3>4
  <2>4. CASE h # g
    <3>1. Holders(h)' = Holders(h)
      BY <1>1, <2>2, <2>4, HoldersAfter
    <3> QED BY <1>4, <2>1, <2>4, <3>1
  <2> QED BY <2>3, <2>4
<1>7. Permits'
  BY <1>4, <1>6 DEF Permits
<1> QED BY <1>5, <1>7 DEF RequestIInv

(* A call returns its permit to the semaphore it got it from: it is there  *)
(* to be returned.                                                         *)
LEMMA PermitReturned ==
  ASSUME RequestIInv, NEW t \in Requests, NEW m, Allowed(m),
         m.at \notin Embedding, req[t].at = "embed", sem' = Released(t),
         req' = [req EXCEPT ![t] = m], UNCHANGED size
  PROVE  RequestIInv'
<1> DEFINE g == req[t].gen
           left == sem[g].taken - 1
           s == [sem[g] EXCEPT !.taken = left]
<1>1. RequestTypes /\ RoundsKept /\ Permits
  BY DEF RequestIInv
<1>2. g \in 1..Len(sem)
  BY <1>1, RequestFacts DEF Embedding
<1>3. t \in Holders(g)
  BY DEF Holders
<1>4. IsFiniteSet(Holders(g)) /\ Cardinality(Holders(g)) \in Nat
      /\ Cardinality(Holders(g) \ {t}) = Cardinality(Holders(g)) - 1
      /\ Cardinality(Holders(g) \ {t}) \in Nat
  <2>1. IsFiniteSet(Holders(g)) /\ Cardinality(Holders(g)) \in Nat
    BY HoldersFinite
  <2>2. Cardinality(Holders(g) \ {t}) = Cardinality(Holders(g)) - 1 /\ IsFiniteSet(Holders(g) \ {t})
    BY <1>3, <2>1, FS_RemoveElement
  <2>3. Cardinality(Holders(g) \ {t}) \in Nat
    BY <2>2, FS_CardinalityType
  <2> QED BY <2>1, <2>2, <2>3
<1> HIDE DEF g
<1>5. sem[g].taken = Cardinality(Holders(g)) + sem[g].leaked /\ sem[g].taken <= sem[g].size
      /\ sem[g] \in SemRecords
      /\ sem[g].taken \in Nat /\ sem[g].leaked \in Nat /\ sem[g].size \in Nat
  BY <1>1, <1>2, SemFacts DEF Permits
<1>6. sem[g].taken > 0 /\ left \in Nat
  BY <1>4, <1>5
<1>7. sem' = [sem EXCEPT ![g] = s]
  BY <1>5, <1>6 DEF Released, ReleaseTo, ReleasedTo, g
<1> HIDE DEF left
<1>8. s \in SemRecords /\ s.taken = left /\ s.size = sem[g].size /\ s.leaked = sem[g].leaked
  BY <1>5, <1>6 DEF SemRecords
<1> HIDE DEF s
<1>9. sem' \in Seq(SemRecords) /\ Len(sem') = Len(sem)
      /\ \A h \in 1..Len(sem) : sem'[h] = IF h = g THEN s ELSE sem[h]
  BY <1>1, <1>2, <1>7, <1>8, SemWritten
<1>10. RequestTypes' /\ RoundsKept'
  <2>1. Len(sem) \in Nat /\ size' \in Sizes
    BY <1>1 DEF RequestTypes
  <2>2. Len(sem) <= Len(sem')
    BY <1>9, <2>1
  <2> QED BY <1>1, <1>9, <2>1, <2>2, RequestWritten
<1>11. ASSUME NEW h \in 1..Len(sem)
       PROVE  sem'[h].taken = Cardinality(Holders(h)') + sem'[h].leaked /\ sem'[h].taken <= sem'[h].size
  <2>1. Holders(h)' = Holders(h) \ {t}
    BY <1>1, HoldersAfter DEF Embedding
  <2>2. CASE h = g
    <3>1. sem'[h] = s
      BY <1>9, <2>2
    <3>2. Cardinality(Holders(h)') = Cardinality(Holders(g)) - 1
      BY <1>4, <2>1, <2>2
    <3>3. left = sem[g].taken - 1
      BY DEF left
    <3> QED BY <1>4, <1>5, <1>8, <3>1, <3>2, <3>3
  <2>3. CASE h # g
    <3>1. t \notin Holders(h)
      BY <2>3 DEF Holders, g
    <3>2. Holders(h)' = Holders(h)
      BY <2>1, <3>1
    <3>3. sem[h].taken = Cardinality(Holders(h)) + sem[h].leaked /\ sem[h].taken <= sem[h].size
      BY <1>1 DEF Permits
    <3> QED BY <1>9, <2>3, <3>2, <3>3
  <2> QED BY <2>2, <2>3
<1>12. Permits'
  BY <1>9, <1>11 DEF Permits
<1> QED BY <1>10, <1>12 DEF RequestIInv

(* A request is stopped where it is: its permit is returned, or the thread *)
(* that waits for one is left behind.                                      *)
LEMMA RequestDropped ==
  ASSUME RequestIInv, NEW t \in Requests, NEW m, Allowed(m),
         m.at \notin Embedding, sem' = Dropped(t),
         req' = [req EXCEPT ![t] = m], UNCHANGED size
  PROVE  RequestIInv'
<1>1. RequestTypes /\ RoundsKept /\ Permits
  BY DEF RequestIInv
<1>2. CASE req[t].at = "embed"
  <2>1. sem' = Released(t)
    BY <1>2 DEF Dropped, At
  <2> QED BY <1>2, <2>1, PermitReturned
<1>3. CASE req[t].at = "parked"
  <2> DEFINE g == req[t].gen
             more == sem[g].orphans + 1
             s == [sem[g] EXCEPT !.orphans = more]
  <2>1. g \in 1..Len(sem)
    BY <1>1, <1>3, RequestFacts DEF Embedding
  <2>2. sem' = [sem EXCEPT ![g] = s]
    BY <1>3 DEF Dropped, At
  <2> HIDE DEF g
  <2>3. s \in SemRecords /\ s.taken = sem[g].taken /\ s.size = sem[g].size /\ s.leaked = sem[g].leaked
    BY <1>1, <2>1, SemFacts DEF SemRecords
  <2> HIDE DEF s
  <2>4. sem' \in Seq(SemRecords) /\ Len(sem') = Len(sem)
        /\ \A h \in 1..Len(sem) : sem'[h] = IF h = g THEN s ELSE sem[h]
    BY <1>1, <2>1, <2>2, <2>3, SemWritten
  <2>5. RequestTypes' /\ RoundsKept'
    <3>1. Len(sem) \in Nat /\ size' \in Sizes
      BY <1>1 DEF RequestTypes
    <3>2. Len(sem) <= Len(sem')
      BY <2>4, <3>1
    <3> QED BY <1>1, <2>4, <3>1, <3>2, RequestWritten
  <2>6. \A h : Holders(h)' = Holders(h)
    <3> SUFFICES ASSUME NEW h PROVE Holders(h)' = Holders(h)
      OBVIOUS
    <3>1. t \notin Holders(h)
      BY <1>3 DEF Holders
    <3> QED BY <1>1, <3>1, HoldersAfter DEF Embedding
  <2>7. Permits'
    BY <1>1, <2>3, <2>4, <2>6 DEF Permits
  <2> QED BY <2>5, <2>7 DEF RequestIInv
<1>4. CASE req[t].at \notin Embedding
  <2>1. UNCHANGED <<size, sem>>
    BY <1>4 DEF Dropped, At, Embedding
  <2> QED BY <1>4, <2>1, PlainStep DEF Embedding
<1> QED BY <1>2, <1>3, <1>4 DEF Embedding

(* A request that moves to another place and changes nothing else but the  *)
(* place it is to come back to, its steps and its semaphore.               *)
LEMMA Moved ==
  ASSUME RequestIInv, NEW t \in Requests, NEW m \in RequestRecords,
         m.way = req[t].way /\ m.over = req[t].over /\ m.late = req[t].late,
         m.round = req[t].round /\ m.found = req[t].found,
         m.at \in Recalling => m.back # "none",
         req[t].way = "deep" =>
           /\ m.at \in Recalling => m.back = "research"
           /\ \/ req[t].at \in Researching /\ m.at \in Researching
              \/ req[t].at = "idle" /\ m.at = "tools"
              \/ req[t].at = "planning" /\ m.at \in {"synth"} \cup
                   (IF req[t].round < MaxRounds THEN {"research"} ELSE {})
              \/ req[t].at = "writing" /\ m.at = "done"
              \/ m.at \in {"failed", "cancelled"}
  PROVE  Allowed(m)
<1>1. req[t].way = "deep" => ResearchAt(req[t])
  BY DEF RequestIInv, RoundsKept
<1>2. m.way = "deep" => ResearchAt(m)
  BY <1>1 DEF ResearchAt, Researching, Recalling, Embedding, Ended
<1> QED BY <1>2 DEF Allowed

(* The record of a request.                                                *)
LEMMA RequestFields ==
  ASSUME RequestIInv, NEW t \in Requests
  PROVE  /\ req[t] \in RequestRecords
         /\ req[t].back \in {"none", "stream", "model", "research"}
         /\ req[t].steps + 1 \in Nat /\ req[t].round + 1 \in Nat /\ req[t].found + 1 \in Nat
         /\ req[t].late + 1 \in Nat
         /\ req[t].way = "deep" => ResearchAt(req[t])
         /\ req[t].at \in Recalling => req[t].back # "none"
<1>1. req[t] \in RequestRecords
  BY DEF RequestIInv, RequestTypes
<1> QED BY <1>1 DEF RequestRecords, RequestIInv, RequestTypes, RoundsKept

(* A request ends; only synthesis ends a deep research well.                *)
LEMMA Ends ==
  ASSUME RequestIInv, NEW t \in Requests, NEW how \in Ended, EndWith(t, how),
         how = "done" => req[t].way # "deep" \/ req[t].at = "writing"
  PROVE  \E m : /\ Allowed(m) /\ m.at \in Ended /\ req' = [req EXCEPT ![t] = m]
<1> DEFINE m == [req[t] EXCEPT !.at = how, !.back = "none"]
<1>1. req[t] \in RequestRecords
  BY RequestFields
<1>2. /\ m \in RequestRecords /\ m.at = how /\ m.way = req[t].way /\ m.over = req[t].over
      /\ m.late = req[t].late /\ m.round = req[t].round /\ m.found = req[t].found
  BY <1>1 DEF RequestRecords, Places
<1>3. req' = [req EXCEPT ![t] = m]
  BY DEF EndWith
<1> HIDE DEF m
<1>4. how \notin Recalling
  BY DEF Recalling, Embedding, Ended
<1>5. Allowed(m)
  BY <1>2, <1>4, Moved DEF Ended
<1> QED BY <1>2, <1>3, <1>5

(* A request moves to another place and nothing else.                       *)
LEMMA Goes ==
  ASSUME RequestIInv, NEW t \in Requests, NEW place \in Places, Goto(t, place),
         place \in Recalling => req[t].back # "none",
         req[t].way = "deep" =>
           \/ req[t].at \in Researching /\ place \in {"embed", "research"} /\ req[t].back = "research"
           \/ req[t].at = "idle" /\ place = "tools"
           \/ req[t].at = "planning" /\ place \in Decisions(t)
  PROVE  /\ Allowed([req[t] EXCEPT !.at = place])
         /\ [req[t] EXCEPT !.at = place].at = place
         /\ [req[t] EXCEPT !.at = place].gen = req[t].gen
         /\ req' = [req EXCEPT ![t] = [req[t] EXCEPT !.at = place]]
<1> DEFINE m == [req[t] EXCEPT !.at = place]
<1>1. req[t] \in RequestRecords
  BY RequestFields
<1>2. /\ m \in RequestRecords /\ m.at = place /\ m.way = req[t].way /\ m.over = req[t].over
      /\ m.late = req[t].late /\ m.round = req[t].round /\ m.found = req[t].found
      /\ m.back = req[t].back /\ m.gen = req[t].gen
  BY <1>1 DEF RequestRecords
<1>3. req' = [req EXCEPT ![t] = m]
  BY DEF Goto
<1> HIDE DEF m
<1>4. req[t].way = "deep" /\ req[t].at = "planning" /\ place \in Decisions(t) =>
        place \in {"synth"} \cup (IF req[t].round < MaxRounds THEN {"research"} ELSE {})
  BY <1>1, Bounds DEF Decisions, RequestRecords
<1>5. Allowed(m)
  BY <1>2, <1>4, Moved DEF Recalling, Embedding, Researching
<1> QED BY <1>2, <1>3, <1>5 DEF m

(* A request that ends where it holds no permit.                           *)
LEMMA EndStep ==
  ASSUME RequestIInv, NEW t \in Requests, NEW how \in Ended, EndWith(t, how),
         how = "done" => req[t].way # "deep" \/ req[t].at = "writing",
         req[t].at # "embed", UNCHANGED <<size, sem>>
  PROVE  RequestIInv'
<1>1. PICK m : Allowed(m) /\ m.at \in Ended /\ req' = [req EXCEPT ![t] = m]
  BY Ends
<1>2. m.at \notin Embedding
  BY <1>1 DEF Embedding, Ended
<1> QED BY <1>1, <1>2, PlainStep

(* A request that goes where no permit is needed.                          *)
LEMMA GoStep ==
  ASSUME RequestIInv, NEW t \in Requests, NEW place \in Places, Goto(t, place),
         place \notin Recalling, req[t].at # "embed",
         req[t].way = "deep" =>
           \/ req[t].at \in Researching /\ place = "research" /\ req[t].back = "research"
           \/ req[t].at = "idle" /\ place = "tools"
           \/ req[t].at = "planning" /\ place \in Decisions(t),
         UNCHANGED <<size, sem>>
  PROVE  RequestIInv'
<1> DEFINE m == [req[t] EXCEPT !.at = place]
<1>1. Allowed(m) /\ m.at = place /\ req' = [req EXCEPT ![t] = m]
  BY Goes
<1> HIDE DEF m
<1> QED BY <1>1, PlainStep DEF Recalling

(* A request is submitted: the chat recalls at once, the others first      *)
(* gather their tools.                                                     *)
LEMMA SubmitRequest ==
  ASSUME RequestIInv, NEW t \in Requests, Submit(t)
  PROVE  RequestIInv'
<1>1. req[t].at = "idle" /\ UNCHANGED <<size, sem>>
  BY DEF Submit, At
<1>2. CASE req[t].way = "chat"
  <2> DEFINE m == [req[t] EXCEPT !.at = "recall", !.back = "stream"]
  <2>1. req[t] \in RequestRecords
    BY RequestFields
  <2>2. m \in RequestRecords /\ m.at = "recall" /\ m.back = "stream" /\ m.way = "chat"
    BY <1>2, <2>1 DEF RequestRecords, Places
  <2>3. req' = [req EXCEPT ![t] = m]
    BY <1>2 DEF Submit
  <2> HIDE DEF m
  <2>4. Allowed(m) /\ m.at \notin Embedding
    BY <2>2 DEF Allowed, Embedding
  <2> QED BY <1>1, <2>3, <2>4, PlainStep
<1>3. CASE req[t].way # "chat"
  <2>1. Goto(t, "tools")
    BY <1>3 DEF Submit
  <2> QED BY <1>1, <2>1, GoStep DEF Places, Recalling, Embedding
<1> QED BY <1>2, <1>3

(* The tools are there: the agent starts with the model, deep research with*)
(* its plan.                                                               *)
LEMMA ToolsRequest ==
  ASSUME RequestIInv, NEW t \in Requests, Tools(t)
  PROVE  RequestIInv'
<1>1. req[t].at = "tools" /\ UNCHANGED <<size, sem>>
  BY DEF Tools, At
<1>2. req[t] \in RequestRecords /\ (req[t].way = "deep" => ResearchAt(req[t]))
  BY RequestFields
<1>3. CASE find[t].at = "ready"
  <2> DEFINE place == IF req[t].way = "agent" THEN "model" ELSE "plan"
             m == [req[t] EXCEPT !.at = place]
  <2>1. place \in {"model", "plan"} /\ (req[t].way = "deep" => place = "plan")
    OBVIOUS
  <2>2. req' = [req EXCEPT ![t] = m]
    BY <1>3 DEF Tools, Goto
  <2> HIDE DEF place
  <2>3. /\ m \in RequestRecords /\ m.at = place /\ m.way = req[t].way /\ m.over = req[t].over
        /\ m.late = req[t].late /\ m.round = req[t].round /\ m.found = req[t].found
    BY <1>2, <2>1 DEF RequestRecords, Places
  <2> HIDE DEF m
  <2>4. m.way = "deep" => ResearchAt(m)
    BY <1>1, <1>2, <2>1, <2>3, Bounds DEF ResearchAt, Researching, Recalling, Embedding, Ended
  <2>5. m.at \notin Recalling
    BY <2>1, <2>3 DEF Recalling, Embedding
  <2> QED BY <1>1, <2>2, <2>3, <2>4, <2>5, PlainStep DEF Allowed, Recalling
<1>4. CASE find[t].at # "ready"
  <2>1. UNCHANGED <<req, size, sem>>
    BY <1>4 DEF Tools
  <2> QED BY <2>1 DEF RequestIInv, RequestTypes, RoundsKept, Permits, Holders
<1> QED BY <1>3, <1>4

(* A recall asks for a permit of the current semaphore, a new one when the *)
(* size setting has changed; nobody holds a permit of a new one.           *)
LEMMA RecallRequest ==
  ASSUME RequestIInv, NEW t \in Requests, Recall(t)
  PROVE  RequestIInv'
<1>1. req[t].at = "recall" /\ UNCHANGED size
  BY DEF Recall, At
<1>2. /\ req[t] \in RequestRecords /\ req[t].back \in {"stream", "model", "research"}
      /\ req[t].way = "deep" => ResearchAt(req[t]) /\ req[t].back = "research"
  BY <1>1, RequestFields DEF Recalling, ResearchAt
<1>3. RequestTypes /\ RoundsKept /\ Permits /\ sem \in Seq(SemRecords) /\ size \in Nat /\ size \in Sizes
  BY Bounds DEF RequestIInv, RequestTypes
<1>4. CASE Goto(t, req[t].back) /\ UNCHANGED sem
  <2>1. req[t].back \in Places /\ req[t].back \notin Recalling
    BY <1>2 DEF Places, Recalling, Embedding
  <2> QED BY <1>1, <1>2, <1>4, <2>1, GoStep DEF Researching, Recalling
<1>5. CASE sem' = Current /\ req' = [req EXCEPT ![t].at = "parked", ![t].gen = Len(Current)]
  <2> DEFINE last == Len(Current)
             m == [req[t] EXCEPT !.at = "parked", !.gen = last]
  <2>1. /\ Current \in Seq(SemRecords) /\ Len(Current) \in Nat /\ Len(sem) <= Len(Current)
        /\ \A g \in 1..Len(sem) : Current[g] = sem[g]
        /\ \A g \in 1..Len(Current) : g \in 1..Len(sem) \/ (g = Len(sem) + 1 /\ Current[g] = NewSem(size))
        /\ Len(Current) > 0
    <3>1. NewSem(size) \in SemRecords
      BY <1>3 DEF NewSem, SemRecords
    <3>2. CASE Current = sem /\ sem # <<>>
      BY <1>3, <3>2
    <3>3. CASE Current = Append(sem, NewSem(size))
      BY <1>3, <3>1, <3>3
    <3> QED BY <3>2, <3>3 DEF Current
  <2>2. req' = [req EXCEPT ![t] = m]
    BY <1>5
  <2>3. last \in Nat
    BY <2>1
  <2> HIDE DEF last
  <2>4. /\ m \in RequestRecords /\ m.at = "parked" /\ m.way = req[t].way /\ m.over = req[t].over
        /\ m.late = req[t].late /\ m.round = req[t].round /\ m.found = req[t].found
        /\ m.gen = last /\ m.back = req[t].back
    BY <1>2, <2>3 DEF RequestRecords, Places
  <2> HIDE DEF m
  <2>5. Allowed(m)
    BY <1>1, <1>2, <2>4, Moved DEF Researching, Recalling, Embedding
  <2>6. sem' \in Seq(SemRecords) /\ Len(sem) <= Len(sem') /\ m.gen \in 1..Len(sem') /\ size' \in Sizes
    BY <1>1, <1>3, <1>5, <2>1, <2>4 DEF last
  <2>7. RequestTypes' /\ RoundsKept'
    BY <1>3, <2>2, <2>5, <2>6, RequestWritten
  <2>8. \A g : Holders(g)' = Holders(g)
    <3> SUFFICES ASSUME NEW g PROVE Holders(g)' = Holders(g)
      OBVIOUS
    <3>1. t \notin Holders(g)
      BY <1>1 DEF Holders
    <3> QED BY <1>3, <2>2, <2>4, <3>1, HoldersAfter
  <2>9. ASSUME NEW g \in 1..Len(sem')
        PROVE  sem'[g].taken = Cardinality(Holders(g)') + sem'[g].leaked /\ sem'[g].taken <= sem'[g].size
    <3>1. CASE g \in 1..Len(sem)
      BY <1>3, <1>5, <2>1, <2>8, <3>1 DEF Permits
    <3>2. CASE g = Len(sem) + 1 /\ sem'[g] = NewSem(size)
      <4>1. Holders(g) = {}
        BY <1>3, <3>2 DEF Holders, RequestTypes, Embedding
      <4>2. Cardinality(Holders(g)') = 0
        BY <2>8, <4>1, FS_EmptySet
      <4>3. sem'[g].taken = 0 /\ sem'[g].leaked = 0 /\ sem'[g].size = size
        BY <3>2 DEF NewSem
      <4> QED BY <1>3, <4>2, <4>3
    <3> QED BY <1>5, <2>1, <3>1, <3>2
  <2>10. Permits'
    BY <2>9 DEF Permits
  <2> QED BY <2>7, <2>10 DEF RequestIInv
<1> QED BY <1>4, <1>5 DEF Recall

(* A waiting call gets its permit.                                          *)
LEMMA AcquireRequest ==
  ASSUME RequestIInv, NEW t \in Requests, Acquire(t)
  PROVE  RequestIInv'
<1> DEFINE m == [req[t] EXCEPT !.at = "embed"]
           g == req[t].gen
<1>1. req[t].at = "parked" /\ UNCHANGED size /\ Goto(t, "embed")
      /\ sem[g].taken < sem[g].size /\ sem' = [sem EXCEPT ![g].taken = @ + 1]
  BY DEF Acquire, At
<1>2. g \in 1..Len(sem) /\ (req[t].way = "deep" => req[t].back = "research") /\ req[t].back # "none"
  BY <1>1, RequestFacts, RequestFields DEF RequestIInv, Embedding, Recalling, ResearchAt
<1>3. Allowed(m) /\ m.at = "embed" /\ m.gen = g /\ req' = [req EXCEPT ![t] = m]
  BY <1>1, <1>2, Goes DEF Places, Researching, Recalling, Embedding
<1> HIDE DEF m, g
<1> QED BY <1>1, <1>2, <1>3, PermitTaken

(* The embedding is over and the request goes on where it left.             *)
LEMMA EmbeddedRequest ==
  ASSUME RequestIInv, NEW t \in Requests, Embedded(t)
  PROVE  RequestIInv'
<1> DEFINE place == req[t].back
           m == [req[t] EXCEPT !.at = place]
<1>1. req[t].at = "embed" /\ UNCHANGED size /\ Goto(t, place) /\ sem' = Released(t)
  BY DEF Embedded, At
<1>2. /\ place \in {"stream", "model", "research"}
      /\ req[t].way = "deep" => place = "research"
  BY <1>1, RequestFields DEF Recalling, Embedding, ResearchAt
<1>3. place \in Places /\ place \notin Recalling
  BY <1>2 DEF Places, Recalling, Embedding
<1>4. Allowed(m) /\ m.at = place /\ req' = [req EXCEPT ![t] = m]
  BY <1>1, <1>2, <1>3, Goes DEF Researching, Recalling, Embedding
<1> HIDE DEF m, place
<1> QED BY <1>1, <1>3, <1>4, PermitReturned DEF Recalling

(* The steps of the agent and of the chat.                                 *)
LEMMA AgentRequest ==
  ASSUME RequestIInv, NEW t \in Requests,
         AgentModel(t) \/ AgentTool(t) \/ ChatStream(t) \/ ChatGenerate(t)
  PROVE  RequestIInv'
<1>1. req[t].at \in {"model", "call", "stream", "generate"} /\ UNCHANGED <<size, sem>>
  BY DEF AgentModel, AgentTool, ChatStream, ChatGenerate, At
<1>2. /\ req[t] \in RequestRecords /\ req[t].way # "deep" /\ req[t].at # "embed"
      /\ req[t].steps + 1 \in Nat
  BY <1>1, RequestFields DEF ResearchAt
<1>3. CASE \E how \in Ended : EndWith(t, how)
  BY <1>1, <1>2, <1>3, EndStep
<1>4. CASE Goto(t, "generate")
  BY <1>1, <1>2, <1>4, GoStep DEF Places, Recalling, Embedding
<1>5. CASE \E place \in {"call", "recall"} :
             req' = [req EXCEPT ![t].at = place, ![t].steps = @ + 1, ![t].back = "model"]
  <2>1. PICK place \in {"call", "recall"} :
             req' = [req EXCEPT ![t].at = place, ![t].steps = @ + 1, ![t].back = "model"]
    BY <1>5
  <2> DEFINE more == req[t].steps + 1
             m == [req[t] EXCEPT !.at = place, !.steps = more, !.back = "model"]
  <2>2. req' = [req EXCEPT ![t] = m]
    BY <2>1
  <2> HIDE DEF more
  <2>3. more \in Nat
    BY <1>2 DEF more
  <2>4. m \in RequestRecords /\ m.at = place /\ m.back = "model" /\ m.way = req[t].way
    BY <1>2, <2>3 DEF RequestRecords, Places
  <2> HIDE DEF m
  <2>5. Allowed(m) /\ m.at \notin Embedding
    BY <1>2, <2>4 DEF Allowed, Embedding
  <2> QED BY <1>1, <1>2, <2>2, <2>5, PlainStep
<1>6. CASE req' = [req EXCEPT ![t].at = "model", ![t].steps = @ + 1]
  <2> DEFINE more == req[t].steps + 1
             m == [req[t] EXCEPT !.at = "model", !.steps = more]
  <2>1. req' = [req EXCEPT ![t] = m]
    BY <1>6
  <2> HIDE DEF more
  <2>2. more \in Nat
    BY <1>2 DEF more
  <2>3. m \in RequestRecords /\ m.at = "model" /\ m.way = req[t].way
    BY <1>2, <2>2 DEF RequestRecords, Places
  <2> HIDE DEF m
  <2>4. Allowed(m) /\ m.at \notin Embedding
    BY <1>2, <2>3 DEF Allowed, Recalling, Embedding
  <2> QED BY <1>1, <1>2, <2>1, <2>4, PlainStep
<1> QED BY <1>3, <1>4, <1>5, <1>6 DEF AgentModel, AgentTool, ChatStream, ChatGenerate, Ended

(* The budget runs out, wherever the request is.                           *)
LEMMA OverrunRequest ==
  ASSUME RequestIInv, NEW t \in Requests, Overrun(t)
  PROVE  RequestIInv'
<1> DEFINE m == [req[t] EXCEPT !.over = TRUE]
<1>1. req' = [req EXCEPT ![t] = m] /\ UNCHANGED <<size, sem>> /\ req[t].at \notin {"idle", "tools"}
  BY DEF Overrun
<1>2. /\ req[t] \in RequestRecords /\ (req[t].way = "deep" => ResearchAt(req[t]))
      /\ req[t].at \in Recalling => req[t].back # "none"
  BY RequestFields
<1>3. /\ m \in RequestRecords /\ m.at = req[t].at /\ m.way = req[t].way
      /\ m.late = req[t].late /\ m.round = req[t].round /\ m.found = req[t].found
      /\ m.back = req[t].back /\ m.gen = req[t].gen
  BY <1>2 DEF RequestRecords
<1> HIDE DEF m
<1>4. m.way = "deep" => ResearchAt(m)
  BY <1>1, <1>2, <1>3 DEF ResearchAt
<1>5. Allowed(m)
  BY <1>2, <1>3, <1>4 DEF Allowed
<1> QED BY <1>1, <1>3, <1>5, PlainStep

(* A round begins, or the budget is spent.                                 *)
LEMMA PlanRequest ==
  ASSUME RequestIInv, NEW t \in Requests, PlanNode(t)
  PROVE  RequestIInv'
<1> DEFINE next == req[t].round + 1
           late == IF req[t].over THEN req[t].late + 1 ELSE req[t].late
           a == [[req[t] EXCEPT !.at = "synth"] EXCEPT !.round = next]
           b == [[req[t] EXCEPT !.at = "planning", !.late = late] EXCEPT !.round = next]
<1>1. req[t].at = "plan" /\ UNCHANGED <<size, sem>>
  BY DEF PlanNode, At
<1>2. /\ req[t] \in RequestRecords /\ (req[t].way = "deep" => ResearchAt(req[t]))
      /\ next \in Nat /\ req[t].round \in Nat /\ req[t].late \in Nat /\ req[t].found \in Nat
      /\ late \in Nat
  BY RequestFields DEF RequestRecords
<1>3. \/ req[t].over /\ req' = [req EXCEPT ![t] = a]
      \/ ~req[t].over /\ req' = [req EXCEPT ![t] = b]
  BY DEF PlanNode, BudgetSpent, OutOfTime, Calling
<1>4. ~req[t].over => late = req[t].late
  OBVIOUS
<1>5. next = req[t].round + 1
  OBVIOUS
<1> HIDE DEF next, late
<1>6. /\ a \in RequestRecords /\ a.at = "synth" /\ a.way = req[t].way /\ a.late = req[t].late
      /\ a.round = next /\ a.found = req[t].found
  BY <1>2 DEF RequestRecords, Places
<1>7. /\ b \in RequestRecords /\ b.at = "planning" /\ b.way = req[t].way /\ b.late = late
      /\ b.round = next /\ b.found = req[t].found
  BY <1>2 DEF RequestRecords, Places
<1> HIDE DEF a, b
<1>8. CASE req[t].over /\ req' = [req EXCEPT ![t] = a]
  <2>1. a.way = "deep" => ResearchAt(a)
    BY <1>1, <1>2, <1>5, <1>6, Bounds DEF ResearchAt, Researching, Recalling, Embedding, Ended
  <2>2. Allowed(a) /\ a.at \notin Embedding
    BY <1>6, <2>1 DEF Allowed, Recalling, Embedding
  <2> QED BY <1>1, <1>8, <2>2, PlainStep
<1>9. CASE ~req[t].over /\ req' = [req EXCEPT ![t] = b]
  <2>1. b.way = "deep" => ResearchAt(b)
    BY <1>1, <1>2, <1>4, <1>5, <1>7, <1>9, Bounds DEF ResearchAt, Researching, Recalling, Embedding, Ended
  <2>2. Allowed(b) /\ b.at \notin Embedding
    BY <1>7, <2>1 DEF Allowed, Recalling, Embedding
  <2> QED BY <1>1, <1>9, <2>2, PlainStep
<1> QED BY <1>3, <1>8, <1>9

(* The planner decides, or its call fails.                                 *)
LEMMA PlannedRequest ==
  ASSUME RequestIInv, NEW t \in Requests, Planned(t)
  PROVE  RequestIInv'
<1>1. req[t].at = "planning" /\ UNCHANGED <<size, sem>>
  BY DEF Planned, At
<1>2. CASE EndWith(t, "failed")
  BY <1>1, <1>2, EndStep DEF Ended
<1>3. CASE \E next \in Decisions(t) : Goto(t, next)
  <2>1. PICK next \in Decisions(t) : Goto(t, next)
    BY <1>3
  <2>2. next \in {"synth", "research"}
    BY <2>1 DEF Decisions
  <2> QED BY <1>1, <2>1, <2>2, GoStep DEF Places, Recalling, Embedding
<1> QED BY <1>2, <1>3 DEF Planned

(* What a round leaves, however it ended.                                  *)
LEMMA FindingAllowed ==
  ASSUME RequestIInv, NEW t \in Requests, req[t].at \in Researching
  PROVE  Allowed(Finding(t)) /\ Finding(t).at = "plan"
<1> DEFINE more == req[t].found + 1
           m == [req[t] EXCEPT !.at = "plan", !.back = "none", !.found = more]
<1>1. /\ req[t] \in RequestRecords /\ (req[t].way = "deep" => ResearchAt(req[t])) /\ more \in Nat
      /\ req[t].round \in Nat /\ req[t].found \in Nat
  BY RequestFields DEF RequestRecords
<1>2. m = Finding(t)
  BY DEF Finding
<1>3. more = req[t].found + 1
  OBVIOUS
<1> HIDE DEF more
<1>4. /\ m \in RequestRecords /\ m.at = "plan" /\ m.way = req[t].way /\ m.late = req[t].late
      /\ m.round = req[t].round /\ m.found = more /\ m.over = req[t].over
  BY <1>1 DEF RequestRecords, Places
<1> HIDE DEF m
<1>5. m.way = "deep" => ResearchAt(m)
  BY <1>1, <1>3, <1>4 DEF ResearchAt, Researching, Recalling, Embedding, Ended
<1>6. Allowed(m)
  BY <1>4, <1>5 DEF Allowed, Recalling, Embedding
<1> QED BY <1>2, <1>4, <1>6

(* The researcher recalls, answers or fails.                                *)
LEMMA ResearchRequest ==
  ASSUME RequestIInv, NEW t \in Requests, Research(t)
  PROVE  RequestIInv'
<1>1. req[t].at = "research" /\ UNCHANGED <<size, sem>>
  BY DEF Research, At
<1>2. CASE EndWith(t, "failed")
  BY <1>1, <1>2, EndStep DEF Ended
<1>3. CASE req' = [req EXCEPT ![t] = Finding(t)]
  <2> DEFINE m == Finding(t)
  <2>1. Allowed(m) /\ m.at = "plan"
    BY <1>1, FindingAllowed DEF Researching
  <2> HIDE DEF m
  <2>2. req' = [req EXCEPT ![t] = m]
    BY <1>3 DEF m
  <2> QED BY <1>1, <2>1, <2>2, PlainStep DEF Embedding
<1>4. CASE req' = [req EXCEPT ![t].at = "recall", ![t].back = "research", ![t].steps = @ + 1]
  <2> DEFINE more == req[t].steps + 1
             m == [req[t] EXCEPT !.at = "recall", !.back = "research", !.steps = more]
  <2>1. req' = [req EXCEPT ![t] = m]
    BY <1>4
  <2>2. req[t] \in RequestRecords /\ more \in Nat
    BY RequestFields
  <2> HIDE DEF more
  <2>3. /\ m \in RequestRecords /\ m.at = "recall" /\ m.way = req[t].way /\ m.over = req[t].over
        /\ m.late = req[t].late /\ m.round = req[t].round /\ m.found = req[t].found
        /\ m.back = "research"
    BY <2>2 DEF RequestRecords, Places
  <2> HIDE DEF m
  <2>4. Allowed(m)
    BY <1>1, <2>3, Moved DEF Researching, Recalling
  <2> QED BY <1>1, <2>1, <2>3, <2>4, PlainStep DEF Embedding
<1> QED BY <1>2, <1>3, <1>4 DEF Research

(* The researcher is cancelled where it is; its round leaves a note.        *)
LEMMA AbortedRequest ==
  ASSUME RequestIInv, NEW t \in Requests, Aborted(t)
  PROVE  RequestIInv'
<1> DEFINE m == Finding(t)
<1>1. sem' = Dropped(t) /\ req' = [req EXCEPT ![t] = m] /\ UNCHANGED size /\ req[t].at \in Researching
  BY DEF Aborted, Researching, Recalling, Embedding
<1>2. Allowed(m) /\ m.at = "plan"
  BY <1>1, FindingAllowed
<1> HIDE DEF m
<1> QED BY <1>1, <1>2, RequestDropped DEF Embedding

(* The one call that may begin after the budget, and its end.               *)
LEMMA SynthRequest ==
  ASSUME RequestIInv, NEW t \in Requests, SynthNode(t) \/ SynthEnd(t)
  PROVE  RequestIInv'
<1>1. CASE SynthNode(t)
  <2> DEFINE late == IF req[t].over THEN req[t].late + 1 ELSE req[t].late
             m == [req[t] EXCEPT !.at = "writing", !.late = late]
  <2>1. req[t].at = "synth" /\ UNCHANGED <<size, sem>> /\ req' = [req EXCEPT ![t] = m]
    BY <1>1 DEF SynthNode, At, Calling
  <2>2. /\ req[t] \in RequestRecords /\ (req[t].way = "deep" => ResearchAt(req[t]))
        /\ req[t].late \in Nat /\ req[t].late + 1 \in Nat
    BY RequestFields DEF RequestRecords
  <2>3. late \in Nat /\ (req[t].late = 0 => late <= 1)
    BY <2>2
  <2> HIDE DEF late
  <2>4. /\ m \in RequestRecords /\ m.at = "writing" /\ m.way = req[t].way /\ m.late = late
        /\ m.round = req[t].round /\ m.found = req[t].found
    BY <2>2, <2>3 DEF RequestRecords, Places
  <2> HIDE DEF m
  <2>5. m.way = "deep" => ResearchAt(m)
    BY <2>1, <2>2, <2>3, <2>4 DEF ResearchAt, Researching, Recalling, Embedding, Ended
  <2>6. Allowed(m) /\ m.at \notin Embedding
    BY <2>4, <2>5 DEF Allowed, Recalling, Embedding
  <2> QED BY <2>1, <2>6, PlainStep
<1>2. CASE SynthEnd(t)
  <2>1. req[t].at = "writing" /\ UNCHANGED <<size, sem>> /\ \E how \in Ended : EndWith(t, how)
    BY <1>2 DEF SynthEnd, At, Ended
  <2> QED BY <2>1, EndStep
<1> QED BY <1>1, <1>2

(* A request is cancelled wherever it is.                                   *)
LEMMA CancelRequest ==
  ASSUME RequestIInv, NEW t \in Requests, Cancel(t)
  PROVE  RequestIInv'
<1>1. sem' = Dropped(t) /\ EndWith(t, "cancelled") /\ UNCHANGED size
  BY DEF Cancel
<1>2. PICK m : Allowed(m) /\ m.at \in Ended /\ req' = [req EXCEPT ![t] = m]
  BY <1>1, Ends DEF Ended
<1>3. m.at \notin Embedding
  BY <1>2 DEF Embedding, Ended
<1> QED BY <1>1, <1>2, <1>3, RequestDropped

(* A thread that nobody waits for any more gets a permit.                  *)
LEMMA OrphanRequest ==
  ASSUME RequestIInv, NEW g \in DOMAIN sem, OrphanAcquires(g)
  PROVE  RequestIInv'
<1> DEFINE fewer == sem[g].orphans - 1
           more == sem[g].taken + 1
           gone == sem[g].leaked + 1
           s == [sem[g] EXCEPT !.orphans = fewer, !.taken = more, !.leaked = gone]
<1>1. RequestTypes /\ RoundsKept /\ Permits
  BY DEF RequestIInv
<1>2. g \in 1..Len(sem) /\ UNCHANGED <<req, size>> /\ sem[g].orphans > 0 /\ sem[g].taken < sem[g].size
  BY <1>1 DEF RequestTypes, OrphanAcquires
<1>3. sem' = [sem EXCEPT ![g] = s]
  BY DEF OrphanAcquires
<1>4. /\ sem[g] \in SemRecords /\ sem[g].size \in Nat /\ sem[g].taken \in Nat
      /\ sem[g].orphans \in Nat /\ sem[g].leaked \in Nat
  BY <1>1, <1>2, SemFacts
<1>5. fewer \in Nat /\ more \in Nat /\ gone \in Nat /\ more <= sem[g].size
  BY <1>2, <1>4
<1>6. more = sem[g].taken + 1 /\ gone = sem[g].leaked + 1
  OBVIOUS
<1> HIDE DEF fewer, more, gone
<1>7. s \in SemRecords /\ s.taken = more /\ s.leaked = gone /\ s.size = sem[g].size
  BY <1>4, <1>5 DEF SemRecords
<1> HIDE DEF s
<1>8. sem' \in Seq(SemRecords) /\ Len(sem') = Len(sem)
      /\ \A h \in 1..Len(sem) : sem'[h] = IF h = g THEN s ELSE sem[h]
  BY <1>1, <1>2, <1>3, <1>7, SemWritten
<1>9. RequestTypes' /\ RoundsKept'
  BY <1>1, <1>2, <1>8 DEF RequestTypes, RoundsKept
<1>10. \A h : Holders(h)' = Holders(h)
  BY <1>2 DEF Holders
<1>11. ASSUME NEW h \in 1..Len(sem)
       PROVE  sem'[h].taken = Cardinality(Holders(h)) + sem'[h].leaked /\ sem'[h].taken <= sem'[h].size
  <2>1. sem[h].taken = Cardinality(Holders(h)) + sem[h].leaked /\ sem[h].taken <= sem[h].size
        /\ Cardinality(Holders(h)) \in Nat
    BY <1>1, HoldersFinite DEF Permits
  <2>2. CASE h = g
    <3>1. sem'[h] = s
      BY <1>8, <2>2
    <3> QED BY <1>4, <1>5, <1>6, <1>7, <2>1, <2>2, <3>1
  <2>3. CASE h # g
    <3>1. sem'[h] = sem[h]
      BY <1>8, <2>3
    <3> QED BY <2>1, <3>1
  <2> QED BY <2>2, <2>3
<1>12. Permits'
  BY <1>8, <1>10, <1>11 DEF Permits
<1> QED BY <1>9, <1>12 DEF RequestIInv

(* Everything a request does on its own.                                   *)
LEMMA StepRequest ==
  ASSUME RequestIInv, NEW t \in Requests, Step(t)
  PROVE  RequestIInv'
BY ToolsRequest, RecallRequest, AcquireRequest, EmbeddedRequest, AgentRequest, PlanRequest,
   PlannedRequest, ResearchRequest, AbortedRequest, SynthRequest DEF Step

(* Every step keeps the requests and the permits in order.                  *)
LEMMA NextRequest ==
  ASSUME RequestIInv, AnswerNext
  PROVE  RequestIInv'
<1>1. CASE \E t \in Requests : Submit(t) \/ Step(t) \/ Overrun(t) \/ Cancel(t)
  BY <1>1, SubmitRequest, StepRequest, OverrunRequest, CancelRequest
<1>2. CASE \E g \in DOMAIN sem : OrphanAcquires(g)
  BY <1>2, OrphanRequest
<1>3. CASE Resize
  <2>1. size' \in Sizes /\ UNCHANGED <<req, sem>>
    BY <1>3 DEF Resize
  <2> QED BY <2>1 DEF RequestIInv, RequestTypes, RoundsKept, Permits, Holders
<1>4. CASE Environment
  <2>1. UNCHANGED <<req, size, sem>>
    BY <1>4 DEF Environment
  <2> QED BY <2>1 DEF RequestIInv, RequestTypes, RoundsKept, Permits, Holders
<1> QED BY <1>1, <1>2, <1>3, <1>4 DEF AnswerNext

(* A step that leaves the servers alone: the request's tools are as they   *)
(* were, dropped with the request, or about to be read.                    *)
LEMMA McpKept ==
  ASSUME McpIInv, UNCHANGED <<row, binding, client, cache, failed, check>>, changes' \in Nat,
         \/ UNCHANGED find
         \/ \E t \in Requests : find' = [find EXCEPT ![t] = NoFind]
         \/ \E t \in Requests : find' = [find EXCEPT ![t] = [at |-> "load"]]
  PROVE  McpIInv'
<1>1. ServerTypes /\ StatusJudged /\ FindsLearnt
  BY DEF McpIInv
<1>2. NoFind \in FindRecords /\ [at |-> "load"] \in FindRecords
      /\ Learnt(NoFind) /\ Learnt([at |-> "load"])
  BY DEF NoFind, FindRecords, Learnt
<1>3. FindsLearnt'
  BY <1>1, <1>2, FindWritten, FindsKept
<1>4. ServerTypes'
  BY <1>1 DEF ServerTypes
<1> QED BY <1>1, <1>3, <1>4, RowsKept DEF McpIInv

(* Every step keeps what is known of servers and tools.                     *)
LEMMA NextMcp ==
  ASSUME McpIInv, AnswerNext
  PROVE  McpIInv'
<1>1. changes \in Nat /\ ServerTypes
  BY DEF McpIInv, ServerTypes
<1>2. ASSUME NEW t \in Requests, Submit(t) PROVE McpIInv'
  BY <1>1, <1>2, McpKept DEF Submit
<1>3. ASSUME NEW t \in Requests, Step(t) PROVE McpIInv'
  <2>1. CASE Tools(t)
    <3>1. CASE find[t].at = "ready"
      BY <1>1, <2>1, <3>1, McpKept DEF Tools, mcpVars
    <3>2. CASE find[t].at # "ready"
      BY <2>1, <3>2, ToolStepIInv DEF Tools
    <3> QED BY <3>1, <3>2
  <2>2. CASE Recall(t) \/ Acquire(t) \/ Embedded(t) \/ AgentModel(t) \/ AgentTool(t) \/ PlanNode(t)
    BY <1>1, <2>2, McpKept DEF Recall, Acquire, Embedded, AgentModel, AgentTool, PlanNode, mcpSame, EndWith
  <2>3. CASE Planned(t) \/ Research(t) \/ Aborted(t) \/ SynthNode(t)
    BY <1>1, <2>3, McpKept DEF Planned, Research, Aborted, SynthNode, mcpSame, EndWith
  <2>4. CASE SynthEnd(t) \/ ChatStream(t) \/ ChatGenerate(t)
    BY <1>1, <2>4, McpKept DEF SynthEnd, ChatStream, ChatGenerate, mcpSame, EndWith
  <2> QED BY <1>3, <2>1, <2>2, <2>3, <2>4 DEF Step
<1>4. ASSUME NEW t \in Requests, Overrun(t) PROVE McpIInv'
  BY <1>1, <1>4, McpKept DEF Overrun, mcpSame
<1>5. ASSUME NEW t \in Requests, Cancel(t) PROVE McpIInv'
  BY <1>1, <1>5, Counts, McpKept DEF Cancel, EndWith
<1>6. ASSUME NEW g \in DOMAIN sem, OrphanAcquires(g) PROVE McpIInv'
  BY <1>1, <1>6, McpKept DEF OrphanAcquires, mcpSame
<1>7. CASE Resize
  BY <1>1, <1>7, Counts, McpKept DEF Resize
<1>8. CASE Environment
  BY <1>8, EnvironmentIInv
<1> QED BY <1>2, <1>3, <1>4, <1>5, <1>6, <1>7, <1>8 DEF AnswerNext

(* The process has started: no request, no semaphore.                       *)
LEMMA AnswerInitIInv == AnswerInit => McpIInv /\ RequestIInv
<1> SUFFICES ASSUME AnswerInit PROVE McpIInv /\ RequestIInv
  OBVIOUS
<1>1. McpIInv
  BY McpInitIInv DEF AnswerInit
<1>2. PICK ways \in [Requests -> {"none", "agent", "deep", "chat"}] :
        req = [t \in Requests |-> NewRequest(ways[t])]
  BY Bounds DEF AnswerInit
<1>3. ASSUME NEW w \in {"none", "agent", "deep", "chat"}
      PROVE  NewRequest(w) \in RequestRecords /\ NewRequest(w).at = "idle" /\ ResearchAt(NewRequest(w))
  <2>1. NewRequest(w) \in RequestRecords
    BY DEF NewRequest, RequestRecords, Places
  <2>2. /\ NewRequest(w).at = "idle" /\ NewRequest(w).round = 0 /\ NewRequest(w).found = 0
        /\ ~NewRequest(w).over /\ NewRequest(w).late = 0
    BY DEF NewRequest
  <2>3. ResearchAt(NewRequest(w))
    BY <2>2, Bounds DEF ResearchAt, Researching, Recalling, Embedding, Ended
  <2> QED BY <2>1, <2>2, <2>3
<1>4. \A t \in Requests : req[t] \in RequestRecords /\ req[t].at = "idle" /\ ResearchAt(req[t])
  BY <1>2, <1>3
<1>5. req \in [Requests -> RequestRecords]
  BY <1>2, <1>4
<1>6. size \in Sizes /\ sem = <<>>
  BY DEF AnswerInit
<1>7. RequestTypes
  BY <1>4, <1>5, <1>6 DEF RequestTypes, Recalling, Embedding
<1>8. RoundsKept /\ Permits
  BY <1>4, <1>6 DEF RoundsKept, Permits
<1> QED BY <1>1, <1>7, <1>8 DEF RequestIInv

(* Servers, caches, gathered tools, requests and permits fit together at   *)
(* any time, for any servers, requests and settings.                       *)
THEOREM AnswerInvariant == AnswerSpec => [](McpIInv /\ RequestIInv)
<1>1. McpIInv /\ RequestIInv /\ [AnswerNext]_answerVars => (McpIInv /\ RequestIInv)'
  <2> SUFFICES ASSUME McpIInv, RequestIInv, [AnswerNext]_answerVars
               PROVE  McpIInv' /\ RequestIInv'
    OBVIOUS
  <2>1. CASE AnswerNext
    BY <2>1, NextMcp, NextRequest
  <2>2. CASE UNCHANGED answerVars
    <3>1. McpIInv'
      BY <2>2, McpKept DEF answerVars, McpIInv, ServerTypes
    <3>2. RequestIInv'
      BY <2>2 DEF answerVars, RequestIInv, RequestTypes, RoundsKept, Permits, Holders
    <3> QED BY <3>1, <3>2
  <2> QED BY <2>1, <2>2
<1> QED BY <1>1, AnswerInitIInv, PTL DEF AnswerSpec

(* The tools of an answer are those of one reading of the bindings         *)
(* (get_tools_for_product).                                                *)
THEOREM AnswersToolsAsBound == AnswerSpec => []ToolsAsBound
<1>1. McpIInv => ToolsAsBound
  BY BoundByFinds DEF McpIInv
<1> QED BY <1>1, AnswerInvariant, PTL

(* A verdict about another configuration than the present one was late     *)
(* (update_mcp_server, test_mcp_server).                                   *)
THEOREM AnswersStatusJudged == AnswerSpec => []StatusJudged
<1>1. McpIInv => StatusJudged
  BY DEF McpIInv
<1> QED BY <1>1, AnswerInvariant, PTL

(* Deep research ends within its rounds, and no call but one is late.      *)
THEOREM AnswersResearchBounded == AnswerSpec => []ResearchBounded
<1>1. RequestIInv => ResearchBounded
  <2> SUFFICES ASSUME RequestIInv, NEW t \in Requests, req[t].way = "deep"
               PROVE  /\ req[t].round <= MaxRounds /\ req[t].late <= 1
                      /\ req[t].at \in {"synth", "writing", "done"} => req[t].found = req[t].round - 1
    BY DEF ResearchBounded
  <2>1. ResearchAt(req[t]) /\ req[t].round \in Nat /\ req[t].found \in Nat
    BY RequestFields DEF RequestRecords
  <2> QED BY <2>1 DEF ResearchAt
<1> QED BY <1>1, AnswerInvariant, PTL

(* A semaphore never has more permits out than its size, and each is held  *)
(* by a call that embeds or lost to an abandoned thread.                   *)
THEOREM AnswersPermits == AnswerSpec => []Permits
<1>1. RequestIInv => Permits
  BY DEF RequestIInv
<1> QED BY <1>1, AnswerInvariant, PTL
=============================================================================
