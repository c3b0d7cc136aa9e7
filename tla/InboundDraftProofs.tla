------------------------- MODULE InboundDraftProofs -------------------------
(***************************************************************************)
(* Proofs about InboundDraft, for any number of messages, requests, drafts *)
(* and concurrent calls: type correctness and what callers are told holds  *)
(* whatever the faults; one answer per message, without them.              *)
(***************************************************************************)
EXTENDS InboundDraft, TLAPS

USE RequestAssumption, DraftAssumption, KeyAssumption

-----------------------------------------------------------------------------
(* Updates of one call *)

LEMMA GoesUpdate ==
    ASSUME TypeOK, NEW r \in Runs, NEW p, NEW x, Goes(r, p, x)
    PROVE  /\ run'[r].pc = p /\ run'[r].out = x
           /\ run'[r].key = run[r].key /\ run'[r].request = run[r].request
           /\ \A t \in Runs : t # r => run'[t] = run[t]
<1>1. /\ run' = [run EXCEPT ![r] = [run[r] EXCEPT !.pc = p, !.out = x]]
      /\ run[r] \in Run
  BY DEF Goes, TypeOK
<1> QED BY <1>1 DEF Run, TypeOK

LEMMA GoesTypes ==
    ASSUME TypeOK, NEW r \in Runs,
           NEW p \in {"drafted", "traced", "persisted", "failing"},
           NEW x \in Outcome \cup {None}, Goes(r, p, x)
    PROVE  run' \in [Runs -> Run]
<1>1. [run[r] EXCEPT !.pc = p, !.out = x] \in Run
  BY DEF TypeOK, Run
<1> QED BY <1>1 DEF Goes, TypeOK

LEMMA IdleUpdate ==
    ASSUME TypeOK, NEW r \in Runs, run' = [run EXCEPT ![r] = Idle]
    PROVE  /\ run' \in [Runs -> Run] /\ run'[r].pc = "idle"
           /\ \A t \in Runs : t # r => run'[t] = run[t]
<1>1. Idle \in Run /\ Idle.pc = "idle"
  BY DEF Idle, Run
<1> QED BY <1>1 DEF TypeOK

LEMMA CompleteUpdate ==
    ASSUME TypeOK, NEW r \in Runs, run[r].key \in Messages,
           run[r].out \in Outcome, Complete(r)
    PROVE  /\ record' \in [Messages -> Record]
           /\ record'[run[r].key].status = "completed"
           /\ record'[run[r].key].hash = record[run[r].key].hash
           /\ record'[run[r].key].result = run[r].out
           /\ \A k \in Messages : k # run[r].key => record'[k] = record[k]
<1> DEFINE k == run[r].key
           x == run[r].out
<1>1. /\ record' = [record EXCEPT ![k] = [record[k] EXCEPT !.status = "completed", !.result = x]]
      /\ record[k] \in Record
  BY DEF Complete, TypeOK
<1> HIDE DEF k, x
<1>2. k \in Messages /\ x \in Outcome
  BY DEF k, x
<1>3. [record[k] EXCEPT !.status = "completed", !.result = x] \in Record
  BY <1>1, <1>2 DEF Record
<1>4. /\ record' \in [Messages -> Record]
      /\ record'[k].status = "completed" /\ record'[k].hash = record[k].hash
      /\ record'[k].result = x
      /\ \A j \in Messages : j # k => record'[j] = record[j]
  BY <1>1, <1>2, <1>3 DEF Record, TypeOK
<1> QED BY <1>4 DEF k, x

LEMMA FailUpdate ==
    ASSUME TypeOK, NEW k \in Messages,
           record' = [record EXCEPT ![k].status = "failed", ![k].result = None]
    PROVE  /\ record' \in [Messages -> Record]
           /\ record'[k].status = "failed" /\ record'[k].hash = record[k].hash
           /\ \A j \in Messages : j # k => record'[j] = record[j]
<1>1. /\ record' = [record EXCEPT ![k] = [record[k] EXCEPT !.status = "failed", !.result = None]]
      /\ record[k] \in Record
  BY DEF TypeOK
<1>2. [record[k] EXCEPT !.status = "failed", !.result = None] \in Record
  BY <1>1 DEF Record
<1> QED BY <1>1, <1>2 DEF Record, TypeOK

LEMMA BeginUpdate ==
    ASSUME TypeOK, NEW r \in Runs, NEW k \in Messages, NEW q \in Requests, Begin(r, k, q)
    PROVE  /\ record' \in [Messages -> Record] /\ run' \in [Runs -> Run]
           /\ record'[k].status = "in_progress" /\ record'[k].hash = q
           /\ \A j \in Messages : j # k => record'[j] = record[j]
           /\ run'[r].pc = "working" /\ run'[r].key = k /\ run'[r].request = q
           /\ \A t \in Runs : t # r => run'[t] = run[t]
<1>1. [status |-> "in_progress", hash |-> q, result |-> None] \in Record
  BY DEF Record
<1>2. [Idle EXCEPT !.pc = "working", !.key = k, !.request = q] \in Run
  BY DEF Idle, Run
<1> QED BY <1>1, <1>2 DEF Begin, Idle, TypeOK
-----------------------------------------------------------------------------
(* Type correctness, and one payload per key, whatever the faults *)

Base == TypeOK /\ RunShape /\ ResultShape /\ SamePayload

LEMMA GoesBase ==
    ASSUME Base, NEW r \in Runs, run[r].pc # "idle", UNCHANGED record,
           NEW p \in {"drafted", "traced", "persisted", "failing"},
           NEW x \in Outcome \cup {None}, p # "failing" => x \in Outcome, Goes(r, p, x)
    PROVE  run' \in [Runs -> Run] /\ RunShape' /\ ResultShape' /\ SamePayload'
<1> USE DEF Base
<1>1. run' \in [Runs -> Run] /\ ResultShape'
  BY GoesTypes DEF ResultShape
<1>2. RunShape'
  BY GoesUpdate DEF RunShape
<1>3. SamePayload'
  BY GoesUpdate DEF SamePayload, Holds
<1> QED BY <1>1, <1>2, <1>3

LEMMA IdleBase ==
    ASSUME Base, NEW r \in Runs, run' = [run EXCEPT ![r] = Idle],
           \A k \in Messages :
              /\ record'[k].hash = record[k].hash
              /\ record[k].status # "absent" => record'[k].status # "absent"
    PROVE  run' \in [Runs -> Run] /\ RunShape' /\ SamePayload'
<1> USE DEF Base
<1>1. RunShape'
  BY IdleUpdate DEF RunShape
<1>2. SamePayload'
  BY IdleUpdate DEF SamePayload, Holds
<1> QED BY <1>1, <1>2, IdleUpdate

LEMMA BeginBase ==
    ASSUME Base, NEW r \in Runs, NEW k \in Messages, NEW q \in Requests, Begin(r, k, q)
    PROVE  Base'
<1> USE DEF Base
<1>1. TypeOK'
  BY BeginUpdate DEF TypeOK, Begin
<1>2. RunShape'
  BY BeginUpdate DEF RunShape
<1>3. \A t \in Runs : Holds(t, k) => run[t].request = q
  BY DEF Begin, MayClaim, SamePayload
<1>4. SamePayload'
  BY <1>3, BeginUpdate DEF SamePayload, Holds
<1>5. ResultShape'
  BY BeginUpdate DEF ResultShape
<1> QED BY <1>1, <1>2, <1>4, <1>5

LEMMA WorkBase ==
    ASSUME Base, NEW r \in Runs,
           \/ \E d \in Drafts : CreateDraft(r, d)
           \/ DecisionTrace(r) \/ PersistTrace(r) \/ Throw(r)
    PROVE  Base'
<1> USE DEF Base
<1>1. ASSUME NEW d \in Drafts, CreateDraft(r, d) PROVE Base'
  <2>1. run' \in [Runs -> Run] /\ RunShape' /\ ResultShape' /\ SamePayload'
    BY <1>1, GoesBase DEF CreateDraft, Outcome
  <2>2. [draft |-> d, key |-> run[r].key, request |-> run[r].request]
           \in [draft : Drafts, key : Messages, request : Requests]
    BY <1>1 DEF CreateDraft, RunShape
  <2> QED BY <1>1, <2>1, <2>2 DEF CreateDraft, TypeOK
<1>2. CASE DecisionTrace(r)
  <2>1. run[r].out \in Outcome /\ run[r].key \in Messages
    BY <1>2 DEF DecisionTrace, RunShape
  <2>2. run' \in [Runs -> Run] /\ RunShape' /\ ResultShape' /\ SamePayload'
    BY <1>2, <2>1, GoesBase DEF DecisionTrace
  <2> QED BY <1>2, <2>1, <2>2 DEF DecisionTrace, TypeOK
<1>3. CASE PersistTrace(r)
  <2>1. PICK x \in Outcome : Goes(r, "persisted", x)
                             /\ log' = log \cup {<<"trace", x, run[r].key>>}
    BY <1>3 DEF PersistTrace, RunShape, Outcome
  <2>2. run[r].pc # "idle" /\ run[r].key \in Messages
    BY <1>3 DEF PersistTrace, RunShape
  <2>3. run' \in [Runs -> Run] /\ RunShape' /\ ResultShape' /\ SamePayload'
    BY <1>3, <2>1, <2>2, GoesBase DEF PersistTrace
  <2> QED BY <1>3, <2>1, <2>2, <2>3 DEF PersistTrace, TypeOK
<1>4. CASE Throw(r)
  <2>1. run' \in [Runs -> Run] /\ RunShape' /\ ResultShape' /\ SamePayload'
    BY <1>4, GoesBase DEF Throw
  <2> QED BY <1>4, <2>1 DEF Throw, TypeOK
<1> QED BY <1>1, <1>2, <1>3, <1>4

\* What a call that records its outcome is sure of.
LEMMA PersistedShape ==
    ASSUME Base, NEW r \in Runs, run[r].pc # "idle"
    PROVE  /\ run[r].key \in Messages /\ run[r].request \in Requests
           /\ record[run[r].key].hash = run[r].request
           /\ run[r].pc = "persisted" => run[r].out \in Outcome
BY DEF Base, RunShape, SamePayload, Holds

LEMMA RecordBase ==
    ASSUME Base, NEW r \in Runs,
           RecordResult(r) \/ RecordResultLost(r) \/ RecordFailure(r) \/ Die(r)
    PROVE  Base'
<1> USE DEF Base
<1>1. CASE RecordResult(r)
  <2>1. /\ run[r].pc = "persisted" /\ Complete(r) /\ run' = [run EXCEPT ![r] = Idle]
        /\ run[r].key \in Messages /\ run[r].request \in Requests /\ run[r].out \in Outcome
    BY <1>1, PersistedShape DEF RecordResult
  <2>2. run' \in [Runs -> Run] /\ RunShape' /\ SamePayload'
    BY <2>1, CompleteUpdate, IdleBase
  <2>3. [key |-> run[r].key, request |-> run[r].request, result |-> run[r].out]
           \in [key : Messages, request : Requests, result : Outcome]
    BY <2>1
  <2>4. ResultShape'
    BY <2>1, CompleteUpdate DEF ResultShape
  <2> QED BY <1>1, <2>1, <2>2, <2>3, <2>4, CompleteUpdate DEF RecordResult, TypeOK
<1>2. CASE RecordResultLost(r)
  <2>1. /\ run[r].pc = "persisted" /\ Complete(r) /\ Goes(r, "failing", None)
        /\ run[r].key \in Messages /\ run[r].out \in Outcome
    BY <1>2, PersistedShape DEF RecordResultLost
  <2>2. run' \in [Runs -> Run]
    BY <2>1, GoesTypes
  <2>3. RunShape'
    BY <2>1, GoesUpdate DEF RunShape
  <2>4. SamePayload'
    BY <2>1, GoesUpdate, CompleteUpdate DEF SamePayload, Holds
  <2>5. ResultShape'
    BY <2>1, CompleteUpdate DEF ResultShape
  <2> QED BY <1>2, <2>1, <2>2, <2>3, <2>4, <2>5, CompleteUpdate DEF RecordResultLost, TypeOK
<1>3. CASE RecordFailure(r)
  <2> DEFINE k == run[r].key
  <2>1. /\ k \in Messages /\ run' = [run EXCEPT ![r] = Idle]
        /\ record' = [record EXCEPT ![k].status = "failed", ![k].result = None]
    BY <1>3, PersistedShape DEF RecordFailure
  <2> HIDE DEF k
  <2>2. run' \in [Runs -> Run] /\ RunShape' /\ SamePayload'
    BY <2>1, FailUpdate, IdleBase
  <2>3. ResultShape'
    BY <2>1, FailUpdate DEF ResultShape
  <2> QED BY <1>3, <2>1, <2>2, <2>3, FailUpdate DEF RecordFailure, TypeOK
<1>4. CASE Die(r)
  <2>1. run' \in [Runs -> Run] /\ RunShape' /\ SamePayload'
    BY <1>4, IdleBase DEF Die
  <2>2. ResultShape'
    BY <1>4 DEF Die, ResultShape
  <2> QED BY <1>4, <2>1, <2>2 DEF Die, TypeOK
<1> QED BY <1>1, <1>2, <1>3, <1>4

\* GoStale and Replay leave the table and the calls alone.
LEMMA TableBase ==
    ASSUME Base, NEW k \in Messages, GoStale(k) \/ \E q \in Requests : Replay(k, q)
    PROVE  Base'
<1> USE DEF Base
<1>1. CASE GoStale(k)
  BY <1>1 DEF GoStale, TypeOK, RunShape, ResultShape, SamePayload, Holds
<1>2. ASSUME NEW q \in Requests, Replay(k, q) PROVE Base'
  BY <1>2 DEF Replay, TypeOK, RunShape, ResultShape, SamePayload, Holds
<1> QED BY <1>1, <1>2

LEMMA BaseStep == Base /\ [Next]_vars => Base'
<1> SUFFICES ASSUME Base, [Next]_vars PROVE Base'
  OBVIOUS
<1>1. CASE UNCHANGED vars
  BY <1>1 DEF vars, Base, TypeOK, RunShape, ResultShape, SamePayload, Holds
<1>2. ASSUME NEW r \in Runs, RunStep(r) PROVE Base'
  BY <1>2, BeginBase, WorkBase, RecordBase DEF RunStep
<1>3. ASSUME NEW k \in Messages, GoStale(k) \/ \E q \in Requests : Replay(k, q) PROVE Base'
  BY <1>3, TableBase
<1> QED BY <1>1, <1>2, <1>3 DEF Next

LEMMA BaseInit == Init => Base
<1> SUFFICES ASSUME Init PROVE Base
  OBVIOUS
<1>1. Idle \in Run /\ Idle.pc = "idle"
  BY DEF Idle, Run
<1>2. [status |-> "absent", hash |-> None, result |-> None] \in Record
  BY DEF Record
<1>3. TypeOK
  BY <1>1, <1>2 DEF Init, TypeOK
<1>4. RunShape /\ ResultShape /\ SamePayload
  BY <1>1 DEF Init, RunShape, ResultShape, SamePayload, Holds
<1> QED BY <1>3, <1>4 DEF Base

\* Records, calls, drafts and answers keep their types, whatever the faults.
THEOREM TypeCorrect == Spec => []TypeOK
<1>1. Base => TypeOK
  BY DEF Base
<1> QED BY <1>1, BaseInit, BaseStep, PTL DEF Spec

-----------------------------------------------------------------------------
(* Undisturbed: one call per key, one answer per message *)

Exclusive == Claims /\ SoleHolder /\ AnswersStand

\* Nobody holds a key that may be claimed: a stale claim has no holder.
LEMMA ClaimIsFree ==
    ASSUME QuietInv, NEW k \in Messages, NEW q \in Requests, MayClaim(k, q)
    PROVE  (\A t \in Runs : ~ Holds(t, k)) /\ \A a \in answers : a.key # k
<1>1. \A t \in Runs : ~ Holds(t, k)
  BY DEF QuietInv, MayClaim, SamePayload, Claims
<1>2. record[k].status # "completed"
  BY DEF MayClaim
<1> QED BY <1>1, <1>2 DEF QuietInv, AnswersStand

LEMMA BeginExclusive ==
    ASSUME QuietInv, NEW r \in Runs, NEW k \in Messages, NEW q \in Requests, Begin(r, k, q)
    PROVE  Exclusive'
<1>1. /\ \A t \in Runs : ~ Holds(t, k)
      /\ \A a \in answers : a.key # k
  BY ClaimIsFree DEF Begin
<1>2. TypeOK /\ UNCHANGED answers /\ stale' = stale \ {k}
  BY DEF QuietInv, Begin
<1>3. Claims'
  BY <1>2, BeginUpdate DEF QuietInv, Claims, Holds
<1>4. SoleHolder'
  BY <1>1, <1>2, BeginUpdate DEF QuietInv, SoleHolder, Holds
<1>5. \A a \in answers : a.key \in Messages
  BY <1>2 DEF TypeOK
<1>6. AnswersStand'
  BY <1>1, <1>2, <1>5, BeginUpdate DEF QuietInv, AnswersStand
<1> QED BY <1>3, <1>4, <1>6 DEF Exclusive

\* A step of the work: same key, same table.
LEMMA WorkExclusive ==
    ASSUME QuietInv, NEW r \in Runs, run[r].pc # "idle",
           NEW p, NEW x, Goes(r, p, x), UNCHANGED <<record, stale, answers>>
    PROVE  Exclusive'
<1>1. \A t \in Runs, k \in Messages : Holds(t, k)' => Holds(t, k)
  BY GoesUpdate DEF QuietInv, Holds
<1> QED BY <1>1 DEF QuietInv, Exclusive, Claims, SoleHolder, AnswersStand

LEMMA EndExclusive ==
    ASSUME QuietInv, NEW r \in Runs, RecordResult(r) \/ RecordFailure(r) \/ Die(r)
    PROVE  Exclusive'
<1> DEFINE k == run[r].key
<1>1. /\ TypeOK /\ Base /\ run[r].pc # "idle" /\ run' = [run EXCEPT ![r] = Idle]
      /\ UNCHANGED stale
  BY DEF QuietInv, Base, RecordResult, RecordFailure, Die
<1>2. \A t \in Runs, j \in Messages : Holds(t, j)' => t # r /\ Holds(t, j)
  BY <1>1, IdleUpdate DEF Holds
<1>3. /\ k \in Messages /\ Holds(r, k) /\ run[r].request \in Requests
      /\ record[k].hash = run[r].request
      /\ run[r].pc = "persisted" => run[r].out \in Outcome
  BY <1>1, PersistedShape DEF Holds
<1>4. \A j \in Messages : j # k => record'[j] = record[j]
  BY <1>1, <1>3, CompleteUpdate, FailUpdate DEF RecordResult, RecordFailure, Die
<1>5. SoleHolder'
  BY <1>2 DEF QuietInv, SoleHolder
<1>6. \A t \in Runs, j \in Messages : Holds(t, j)' => j # k
  BY <1>2, <1>3 DEF QuietInv, SoleHolder
<1>7. Claims'
  BY <1>1, <1>2, <1>4, <1>6 DEF QuietInv, Claims
<1>8. \A a \in answers : a.key \in Messages /\ a.key # k
  BY <1>1, <1>3 DEF QuietInv, Claims, AnswersStand, TypeOK
<1>9. CASE RecordResult(r)
  <2>1. /\ answers' = answers \cup {[key |-> k, request |-> run[r].request,
                                      result |-> run[r].out]}
        /\ Complete(r) /\ run[r].pc = "persisted"
    BY <1>9 DEF RecordResult
  <2>2. /\ record'[k].status = "completed"
        /\ record'[k].hash = run[r].request /\ record'[k].result = run[r].out
    BY <1>1, <1>3, <2>1, CompleteUpdate
  <2> HIDE DEF k
  <2>3. AnswersStand'
    BY <1>4, <1>8, <2>1, <2>2 DEF QuietInv, AnswersStand
  <2> QED BY <1>5, <1>7, <2>3 DEF Exclusive
<1>10. CASE RecordFailure(r) \/ Die(r)
  <2>1. UNCHANGED answers
    BY <1>10 DEF RecordFailure, Die
  <2>2. AnswersStand'
    BY <1>4, <1>8, <2>1 DEF QuietInv, AnswersStand
  <2> QED BY <1>5, <1>7, <2>2 DEF Exclusive
<1> QED BY <1>9, <1>10

LEMMA TableExclusive ==
    ASSUME QuietInv, ~ disturbed', NEW k \in Messages,
           GoStale(k) \/ \E q \in Requests : Replay(k, q)
    PROVE  Exclusive'
<1>1. CASE GoStale(k)
  <2>1. /\ \A r \in Runs : ~ Holds(r, k)
        /\ UNCHANGED <<record, run, answers>> /\ stale' = stale \cup {k}
    BY <1>1 DEF GoStale
  <2> QED BY <2>1 DEF QuietInv, Exclusive, Claims, SoleHolder, AnswersStand, Holds
<1>2. ASSUME NEW q \in Requests, Replay(k, q) PROVE Exclusive'
  <2>1. /\ UNCHANGED <<record, stale, run>>
        /\ answers' = answers \cup {[key |-> k, request |-> q, result |-> record[k].result]}
        /\ record[k].status = "completed" /\ record[k].hash = q
    BY <1>2 DEF Replay, QuietInv, TypeOK
  <2>2. AnswersStand'
    BY <2>1 DEF QuietInv, AnswersStand
  <2> QED BY <2>1, <2>2 DEF QuietInv, Exclusive, Claims, SoleHolder, Holds
<1> QED BY <1>1, <1>2

\* Nothing undoes a disturbance.
LEMMA DisturbedStays == [Next]_vars /\ ~ disturbed' => ~ disturbed
BY DEF Next, vars, RunStep, GoStale, Replay, Begin, CreateDraft, DecisionTrace, PersistTrace,
       RecordResult, RecordResultLost, Throw, RecordFailure, Die

LEMMA CleanStep == CleanInv /\ [Next]_vars => CleanInv'
<1> SUFFICES ASSUME QuietInv, ~ disturbed', [Next]_vars PROVE QuietInv'
  BY DisturbedStays DEF CleanInv
<1>1. QuietInv <=> Base /\ Exclusive
  BY DEF QuietInv, Base, Exclusive
<1>2. QuietInv' <=> Base' /\ Exclusive'
  BY DEF QuietInv, Base, Exclusive
<1>3. Base'
  BY <1>1, BaseStep
<1>4. CASE UNCHANGED vars
  <2>1. UNCHANGED <<record, stale, run, answers>>
    BY <1>4 DEF vars
  <2>2. Claims'
    BY <2>1 DEF QuietInv, Claims, Holds
  <2>3. SoleHolder'
    BY <2>1 DEF QuietInv, SoleHolder, Holds
  <2>4. AnswersStand'
    BY <2>1 DEF QuietInv, AnswersStand
  <2> QED BY <1>2, <1>3, <2>2, <2>3, <2>4 DEF Exclusive
<1>5. ASSUME NEW r \in Runs, RunStep(r) PROVE Exclusive'
  <2>1. ASSUME NEW k \in Messages, NEW q \in Requests, Begin(r, k, q) PROVE Exclusive'
    BY <2>1, BeginExclusive
  <2>2. CASE \/ \E d \in Drafts : CreateDraft(r, d)
             \/ DecisionTrace(r) \/ PersistTrace(r) \/ Throw(r)
    BY <2>2, WorkExclusive DEF CreateDraft, DecisionTrace, PersistTrace, Throw
  <2>3. ~ RecordResultLost(r)
    BY DEF RecordResultLost
  <2> QED BY <1>5, <2>1, <2>2, <2>3, EndExclusive DEF RunStep
<1>6. ASSUME NEW k \in Messages, GoStale(k) \/ \E q \in Requests : Replay(k, q) PROVE Exclusive'
  BY <1>6, TableExclusive
<1> QED BY <1>2, <1>3, <1>4, <1>5, <1>6 DEF Next

LEMMA CleanInit == Init => CleanInv
<1> SUFFICES ASSUME Init PROVE QuietInv
  BY DEF CleanInv
<1>1. Idle.pc = "idle"
  BY DEF Idle
<1> QED BY <1>1, BaseInit DEF Init, Base, QuietInv, Claims, SoleHolder, AnswersStand, Holds

LEMMA CleanOneAnswer == CleanInv => OneAnswer
BY DEF CleanInv, QuietInv, AnswersStand, OneAnswer

\* While calls end within their five minutes and acknowledgements arrive, every
\* caller of a message is told the same, whatever throws, dies or is retried.
THEOREM AnsweredOnce == Spec => []OneAnswer
BY CleanInit, CleanStep, CleanOneAnswer, PTL DEF Spec

\* ... a key is worked on by one call at a time ...
THEOREM WorkedOnOnce == Spec => []OneRunPerKey
<1>1. CleanInv => OneRunPerKey
  BY DEF CleanInv, QuietInv, OneRunPerKey
<1> QED BY <1>1, CleanInit, CleanStep, PTL DEF Spec

\* ... and what callers were told stays on record.
THEOREM AnswersStay == Spec => []AnswerIsOnRecord
<1>1. CleanInv => AnswerIsOnRecord
  BY DEF CleanInv, QuietInv, AnswerIsOnRecord
<1> QED BY <1>1, CleanInit, CleanStep, PTL DEF Spec

\* A second draft of a message, which the tests rule out and a retry may save, is
\* never of a message that somebody has had an answer for: until disturbed, a draft
\* is saved only while nobody has been told anything.
THEOREM NoDraftAfterAnswer ==
    Spec => [][\A r \in Runs, d \in Drafts : ~ disturbed /\ CreateDraft(r, d)
                 => \A a \in answers : a.key # run[r].key]_vars
<1>1. ASSUME Base, CleanInv, NEW r \in Runs, NEW d \in Drafts, ~ disturbed, CreateDraft(r, d)
      PROVE  \A a \in answers : a.key # run[r].key
  <2>1. run[r].key \in Messages /\ Holds(r, run[r].key)
    BY <1>1, PersistedShape DEF CreateDraft, Holds
  <2>2. record[run[r].key].status = "in_progress"
    BY <1>1, <2>1 DEF CleanInv, QuietInv, Claims
  <2> QED BY <1>1, <2>2 DEF CleanInv, QuietInv, AnswersStand
<1>2. Base /\ CleanInv =>
        [\A r \in Runs, d \in Drafts : ~ disturbed /\ CreateDraft(r, d)
           => \A a \in answers : a.key # run[r].key]_vars
  BY <1>1
<1> QED BY <1>2, BaseInit, BaseStep, CleanInit, CleanStep, PTL DEF Spec

-----------------------------------------------------------------------------
(* Disturbed or not: an answer fits its request and is still traced *)

Honest == WorkFits /\ RecordFits /\ AnswersFitRequests /\ AnsweredIsTraced

\* Gmail forgets no draft and the logs no trace.
Grows == gmail \subseteq gmail' /\ log \subseteq log'

LEMMA FitsGrow ==
    ASSUME Grows, NEW k, NEW q, NEW x
    PROVE  (Fits(k, q, x) => Fits(k, q, x)') /\ (Traced(k, x) => Traced(k, x)')
BY DEF Grows, Fits, Traced

LEMMA OthersFit ==
    ASSUME FaultyInv, Grows, NEW r \in Runs, RunFits(r)',
           \A t \in Runs : t # r => run'[t] = run[t]
    PROVE  WorkFits'
<1> SUFFICES ASSUME NEW t \in Runs, t # r PROVE RunFits(t)'
  BY DEF WorkFits
<1>1. RunFits(t) /\ run'[t] = run[t]
  BY DEF FaultyInv, WorkFits
<1> QED BY <1>1, FitsGrow DEF RunFits, Grows

LEMMA OldRecordsFit ==
    ASSUME FaultyInv, Grows,
           NEW k \in Messages, record'[k] = record[k], record'[k].status = "completed"
    PROVE  Fits(k, record[k].hash, record[k].result)' /\ Traced(k, record[k].result)'
<1>1. /\ Fits(k, record[k].hash, record[k].result)
      /\ Traced(k, record[k].result)
  BY DEF FaultyInv, RecordFits
<1> QED BY <1>1, FitsGrow DEF Fits, Traced, Grows

LEMMA OldAnswersFit ==
    ASSUME FaultyInv, Grows, UNCHANGED answers
    PROVE  AnswersFitRequests' /\ AnsweredIsTraced'
BY FitsGrow DEF FaultyInv, AnswersFitRequests, AnsweredIsTraced

\* A step of the work: only what the call itself is about to record changes.
LEMMA WorkHonest ==
    ASSUME FaultyInv, NEW r \in Runs,
           \/ \E d \in Drafts : CreateDraft(r, d)
           \/ DecisionTrace(r) \/ PersistTrace(r) \/ Throw(r)
    PROVE  Honest'
<1>1. /\ Grows /\ UNCHANGED <<record, answers>>
      /\ TypeOK /\ RunShape
  BY DEF CreateDraft, DecisionTrace, PersistTrace, Throw, Grows, FaultyInv
<1>2. RecordFits'
  BY <1>1, OldRecordsFit DEF RecordFits
<1>3. PICK k, q, y : k = run[r].key /\ q = run[r].request /\ y = run[r].out
  OBVIOUS
<1>4. ASSUME NEW p, NEW x, Goes(r, p, x), p \in {"drafted", "traced", "persisted"} =>
                /\ Fits(k, q, x)'
                /\ p # "persisted" => x \in Drafts
                /\ p = "traced" => <<"decision", x, k>> \in log'
                /\ p = "persisted" => Traced(k, x)'
      PROVE  Honest'
  <2>1. /\ run'[r].pc = p /\ run'[r].out = x /\ run'[r].key = k /\ run'[r].request = q
        /\ \A t \in Runs : t # r => run'[t] = run[t]
    BY <1>1, <1>3, <1>4, GoesUpdate
  <2>2. RunFits(r)'
    BY <1>4, <2>1 DEF RunFits, Fits, Traced
  <2>3. WorkFits'
    BY <1>1, <2>1, <2>2, OthersFit
  <2> QED BY <1>1, <1>2, <2>3, OldAnswersFit DEF Honest
<1>5. ASSUME NEW d \in Drafts, CreateDraft(r, d) PROVE Honest'
  <2>1. Fits(k, q, d)'
    BY <1>3, <1>5 DEF CreateDraft, Fits
  <2> QED BY <1>4, <1>5, <2>1 DEF CreateDraft
<1>6. CASE DecisionTrace(r)
  <2>1. Fits(k, q, y) /\ y \in Drafts
    BY <1>3, <1>6 DEF DecisionTrace, FaultyInv, WorkFits, RunFits
  <2>2. Fits(k, q, y)' /\ <<"decision", y, k>> \in log' /\ Goes(r, "traced", y)
    BY <1>1, <1>3, <1>6, <2>1, FitsGrow DEF DecisionTrace
  <2> QED BY <1>4, <2>1, <2>2
<1>7. CASE PersistTrace(r) /\ run[r].pc = "traced"
  <2>1. Fits(k, q, y) /\ <<"decision", y, k>> \in log
    BY <1>3, <1>7 DEF FaultyInv, WorkFits, RunFits
  <2>2. Fits(k, q, y)' /\ Goes(r, "persisted", y) /\ <<"trace", y, k>> \in log'
    BY <1>1, <1>3, <1>7, <2>1, FitsGrow DEF PersistTrace
  <2>3. Traced(k, y)'
    BY <1>1, <2>1, <2>2 DEF Traced, Grows
  <2> QED BY <1>4, <2>2, <2>3
<1>8. CASE PersistTrace(r) /\ run[r].pc = "working"
  <2>1. /\ q \notin ShouldDraft /\ Goes(r, "persisted", "no_action")
        /\ <<"trace", "no_action", k>> \in log'
    BY <1>3, <1>8 DEF PersistTrace
  <2>2. Fits(k, q, "no_action")' /\ Traced(k, "no_action")'
    BY <2>1 DEF Fits, Traced
  <2> QED BY <1>4, <2>1, <2>2
<1>9. CASE Throw(r)
  BY <1>4, <1>9 DEF Throw
<1> QED BY <1>5, <1>6, <1>7, <1>8, <1>9 DEF PersistTrace

\* A step of the table: what is stored or told comes from a call or a record.
LEMMA TableHonest ==
    ASSUME FaultyInv, NEW r \in Runs,
           \/ \E k \in Messages, q \in Requests : Begin(r, k, q)
           \/ RecordResult(r) \/ RecordResultLost(r) \/ RecordFailure(r) \/ Die(r)
    PROVE  Honest'
<1>1. /\ Base /\ TypeOK /\ UNCHANGED <<gmail, log>> /\ Grows
  BY DEF FaultyInv, Base, Begin, RecordResult, RecordResultLost, RecordFailure, Die, Grows
<1>2. ASSUME NEW k \in Messages, NEW q \in Requests, Begin(r, k, q) PROVE Honest'
  <2>1. WorkFits'
    BY <1>1, <1>2, BeginUpdate, OthersFit DEF RunFits
  <2>2. RecordFits'
    BY <1>1, <1>2, BeginUpdate, OldRecordsFit DEF RecordFits
  <2> QED BY <1>1, <1>2, <2>1, <2>2, OldAnswersFit DEF Honest, Begin
<1>3. CASE RecordFailure(r) \/ Die(r)
  <2>1. run[r].key \in Messages /\ UNCHANGED answers /\ run' = [run EXCEPT ![r] = Idle]
    BY <1>1, <1>3, PersistedShape DEF RecordFailure, Die
  <2>2. WorkFits'
    BY <1>1, <2>1, IdleUpdate, OthersFit DEF RunFits
  <2>3. RecordFits'
    BY <1>1, <1>3, <2>1, FailUpdate, OldRecordsFit DEF RecordFits, RecordFailure, Die
  <2> QED BY <1>1, <2>1, <2>2, <2>3, OldAnswersFit DEF Honest
<1>4. CASE RecordResult(r) \/ RecordResultLost(r)
  <2>1. PICK k \in Messages, q \in Requests, x \in Outcome :
                k = run[r].key /\ q = run[r].request /\ x = run[r].out
    BY <1>1, <1>4, PersistedShape DEF RecordResult, RecordResultLost
  <2>2. /\ run[r].pc = "persisted" /\ Complete(r)
        /\ record[k].hash = q
    BY <1>1, <1>4, <2>1, PersistedShape DEF RecordResult, RecordResultLost
  <2>3. Fits(k, q, x) /\ Traced(k, x)
    BY <2>1, <2>2 DEF FaultyInv, WorkFits, RunFits
  <2>4. Fits(k, q, x)' /\ Traced(k, x)'
    BY <1>1, <2>3, FitsGrow
  <2>5. /\ record'[k].hash = q /\ record'[k].result = x
        /\ \A j \in Messages : j # k => record'[j] = record[j]
    BY <1>1, <2>1, <2>2, CompleteUpdate
  <2>6. RecordFits'
    BY <1>1, <2>4, <2>5, OldRecordsFit DEF RecordFits, Fits, Traced
  <2>7. CASE RecordResult(r)
    <3>1. WorkFits'
      BY <1>1, <2>7, IdleUpdate, OthersFit DEF RunFits, RecordResult
    <3>2. answers' = answers \cup {[key |-> k, request |-> q, result |-> x]}
      BY <2>1, <2>7 DEF RecordResult
    <3>3. AnswersFitRequests' /\ AnsweredIsTraced'
      <4> SUFFICES ASSUME NEW a \in answers'
                   PROVE  Fits(a.key, a.request, a.result)' /\ Traced(a.key, a.result)'
        BY DEF AnswersFitRequests, AnsweredIsTraced
      <4>1. CASE a \in answers
        <5>1. Fits(a.key, a.request, a.result) /\ Traced(a.key, a.result)
          BY <4>1 DEF FaultyInv, AnswersFitRequests, AnsweredIsTraced
        <5> QED BY <1>1, <5>1, FitsGrow
      <4>2. CASE a = [key |-> k, request |-> q, result |-> x]
        <5>1. a.key = k /\ a.request = q /\ a.result = x
          BY <4>2
        <5> QED BY <2>4, <5>1
      <4> QED BY <3>2, <4>1, <4>2
    <3> QED BY <2>6, <3>1, <3>3 DEF Honest
  <2>8. CASE RecordResultLost(r)
    <3>1. /\ run'[r].pc = "failing" /\ UNCHANGED answers
          /\ \A t \in Runs : t # r => run'[t] = run[t]
      BY <1>1, <2>8, GoesUpdate DEF RecordResultLost
    <3>2. WorkFits'
      BY <1>1, <3>1, OthersFit DEF RunFits
    <3> QED BY <1>1, <2>6, <3>1, <3>2, OldAnswersFit DEF Honest
  <2> QED BY <1>4, <2>7, <2>8
<1> QED BY <1>2, <1>3, <1>4

LEMMA ReplayHonest ==
    ASSUME FaultyInv, NEW k \in Messages, GoStale(k) \/ \E q \in Requests : Replay(k, q)
    PROVE  Honest'
<1>1. UNCHANGED <<record, run, gmail, log>>
  BY DEF GoStale, Replay
<1>2. WorkFits' /\ RecordFits'
  BY <1>1 DEF FaultyInv, WorkFits, RunFits, RecordFits, Fits, Traced
<1>3. CASE GoStale(k)
  <2>1. Grows /\ UNCHANGED answers
    BY <1>1, <1>3 DEF GoStale, Grows
  <2> QED BY <1>2, <2>1, OldAnswersFit DEF Honest
<1>4. ASSUME NEW q \in Requests, Replay(k, q) PROVE Honest'
  <2>1. PICK x : x = record[k].result
    OBVIOUS
  <2>2. /\ Fits(k, q, x) /\ Traced(k, x)
        /\ answers' = answers \cup {[key |-> k, request |-> q, result |-> x]}
    BY <1>4, <2>1 DEF Replay, FaultyInv, RecordFits
  <2>3. AnswersFitRequests' /\ AnsweredIsTraced'
    BY <1>1, <2>2 DEF FaultyInv, AnswersFitRequests, AnsweredIsTraced, Fits, Traced
  <2> QED BY <1>2, <2>3 DEF Honest
<1> QED BY <1>3, <1>4

LEMMA FaultyStep == FaultyInv /\ [Next]_vars => FaultyInv'
<1> SUFFICES ASSUME FaultyInv, [Next]_vars PROVE FaultyInv'
  OBVIOUS
<1>1. Base
  BY DEF FaultyInv, Base
<1>2. Base'
  BY <1>1, BaseStep
<1>3. Base' /\ Honest' => FaultyInv'
  BY DEF FaultyInv, Base, Honest
<1>4. CASE UNCHANGED vars
  BY <1>2, <1>4 DEF FaultyInv, Base, vars, WorkFits, RunFits, RecordFits, Fits, Traced,
                    AnswersFitRequests, AnsweredIsTraced
<1>5. ASSUME NEW r \in Runs, RunStep(r) PROVE Honest'
  BY <1>5, WorkHonest, TableHonest DEF RunStep
<1>6. ASSUME NEW k \in Messages, GoStale(k) \/ \E q \in Requests : Replay(k, q) PROVE Honest'
  BY <1>6, ReplayHonest
<1> QED BY <1>2, <1>3, <1>4, <1>5, <1>6 DEF Next

LEMMA FaultyInit == Init => FaultyInv
<1> SUFFICES ASSUME Init PROVE FaultyInv
  OBVIOUS
<1>1. Idle.pc = "idle"
  BY DEF Idle
<1> QED BY <1>1, BaseInit DEF Init, Base, FaultyInv, WorkFits, RunFits, RecordFits,
           AnswersFitRequests, AnsweredIsTraced

\* Whatever the faults: an answer was made for the request that gets it ...
THEOREM AnswersFit == Spec => []AnswersFitRequests
<1>1. FaultyInv => AnswersFitRequests
  BY DEF FaultyInv
<1> QED BY <1>1, FaultyInit, FaultyStep, PTL DEF Spec

\* ... and nobody learns of a draft whose traces are not written.
THEOREM AnswersAreTraced == Spec => []AnsweredIsTraced
<1>1. FaultyInv => AnsweredIsTraced
  BY DEF FaultyInv
<1> QED BY <1>1, FaultyInit, FaultyStep, PTL DEF Spec

-----------------------------------------------------------------------------
(* The refinement of OneReply *)

LEMMA UnboundStep == Base /\ Unbound /\ [Next]_vars => Unbound'
<1> SUFFICES ASSUME Base, Unbound, [Next]_vars PROVE Unbound'
  OBVIOUS
<1>1. TypeOK
  BY DEF Base
<1>2. CASE UNCHANGED record
  BY <1>2 DEF Unbound
<1>3. ASSUME NEW r \in Runs, NEW k \in Messages, NEW q \in Requests, Begin(r, k, q)
      PROVE  Unbound'
  BY <1>1, <1>3, BeginUpdate DEF Unbound
<1>4. ASSUME NEW r \in Runs, RecordResult(r) \/ RecordResultLost(r) PROVE Unbound'
  <2>1. run[r].pc = "persisted" /\ Complete(r)
    BY <1>4 DEF RecordResult, RecordResultLost
  <2> QED BY <1>1, <2>1, PersistedShape, CompleteUpdate DEF Unbound
<1>5. ASSUME NEW r \in Runs, RecordFailure(r) PROVE Unbound'
  BY <1>1, <1>5, PersistedShape, FailUpdate DEF Unbound, RecordFailure
<1>6. ASSUME NEW r \in Runs, RunStep(r) PROVE Unbound'
  BY <1>2, <1>3, <1>4, <1>5, <1>6
     DEF RunStep, CreateDraft, DecisionTrace, PersistTrace, Throw, Die
<1>7. ASSUME NEW k \in Messages, GoStale(k) \/ \E q \in Requests : Replay(k, q)
      PROVE  Unbound'
  BY <1>2, <1>7 DEF GoStale, Replay
<1> QED BY <1>2, <1>6, <1>7 DEF Next, vars

LEMMA PromiseInvariance == Spec => []PromiseInv
<1>1. Init => PromiseInv
  BY FaultyInit, CleanInit DEF PromiseInv, Unbound, Init
<1>2. PromiseInv /\ [Next]_vars => PromiseInv'
  BY FaultyStep, CleanStep, UnboundStep DEF PromiseInv, FaultyInv, Base
<1> QED BY <1>1, <1>2, PTL DEF Spec

\* The payload each key is bound to, as OneReply sees it.
Payload == [k \in Messages |-> record[k].hash]

\* What fits a request was made for it.
LEMMA FitsIsMade ==
    ASSUME NEW k \in Messages, NEW x \in Outcome, record[k].hash \in Requests,
           Fits(k, record[k].hash, x)
    PROVE  Promise!Made(k, x)
BY DEF Fits, Promise!Made, Outcome

\* The step of a call, or a replay, that tells somebody an answer.
LEMMA AnswerRefines ==
    ASSUME TypeOK, NEW k \in Messages, NEW x \in Outcome, record[k].hash \in Requests,
           Fits(k, record[k].hash, x),
           ~ disturbed => \A a \in answers : a.key = k => a.result = x,
           answers' = answers \cup {[key |-> k, request |-> record[k].hash, result |-> x]},
           UNCHANGED <<gmail, disturbed>>,
           \A j \in Messages : record'[j].hash = record[j].hash
    PROVE  Promise!Next
<1>1. Promise!Made(k, x)
  BY FitsIsMade
<1>2. UNCHANGED Payload
  BY DEF Payload
<1>3. Promise!Answer(k, x)
  BY <1>1, <1>2 DEF Promise!Answer, Payload
<1> QED BY <1>3 DEF Promise!Next, Outcome

\* A step that binds, saves and tells nothing is a stutter, or unsettles.
LEMMA HiddenRefines ==
    ASSUME TypeOK, UNCHANGED <<gmail, answers>>, disturbed' \in {disturbed, TRUE},
           \A j \in Messages : record'[j].hash = record[j].hash
    PROVE  [Promise!Next]_(Promise!promise)
<1>1. UNCHANGED Payload
  BY DEF Payload
<1>2. CASE disturbed' = disturbed
  BY <1>1, <1>2 DEF Promise!promise, Payload
<1>3. CASE disturbed' = TRUE
  BY <1>1, <1>3 DEF Promise!Next, Promise!Unsettle, Payload
<1> QED BY <1>2, <1>3

LEMMA BeginRefines ==
    ASSUME PromiseInv, NEW r \in Runs, NEW k \in Messages, NEW q \in Requests, Begin(r, k, q)
    PROVE  [Promise!Next]_(Promise!promise)
<1>0. TypeOK /\ UNCHANGED <<gmail, answers, disturbed>>
  BY DEF PromiseInv, FaultyInv, Begin
<1>1. record'[k].hash = q /\ \A j \in Messages : j # k => record'[j] = record[j]
  BY <1>0, BeginUpdate
<1>2. CASE record[k].hash = q
  <2>1. \A j \in Messages : record'[j].hash = record[j].hash
    BY <1>1, <1>2
  <2> QED BY <1>0, <2>1, HiddenRefines
<1>3. CASE record[k].hash = None
  <2>1. Promise!Bind(k, q)
    BY <1>0, <1>1, <1>3 DEF Promise!Bind
  <2> QED BY <2>1 DEF Promise!Next
<1> QED BY <1>2, <1>3 DEF Begin, MayClaim, PromiseInv, Unbound

LEMMA SaveRefines ==
    ASSUME PromiseInv, NEW r \in Runs, NEW d \in Drafts, CreateDraft(r, d)
    PROVE  Promise!Next
<1> DEFINE k == run[r].key
<1>1. k \in Messages /\ record[k].hash = run[r].request
  BY PersistedShape DEF CreateDraft, PromiseInv, FaultyInv, Base
<1>2. /\ UNCHANGED <<record, answers, disturbed>>
      /\ gmail' = gmail \cup {[draft |-> d, key |-> k, request |-> record[k].hash]}
      /\ record[k].hash \in ShouldDraft /\ \A g \in gmail : g.draft # d
  BY <1>1 DEF CreateDraft
<1> HIDE DEF k
<1>3. Promise!Save(k, d)
  BY <1>1, <1>2 DEF Promise!Save
<1> QED BY <1>1, <1>3 DEF Promise!Next

\* An answer that is recorded is the first of its key, while all is steady.
LEMMA RecordRefines ==
    ASSUME PromiseInv, NEW r \in Runs, RecordResult(r)
    PROVE  Promise!Next
<1>1. PICK k \in Messages, x \in Outcome : k = run[r].key /\ x = run[r].out
  BY PersistedShape DEF RecordResult, PromiseInv, FaultyInv, Base
<1>2. /\ TypeOK /\ run[r].pc = "persisted" /\ Complete(r) /\ Holds(r, k)
      /\ record[k].hash = run[r].request /\ record[k].hash \in Requests
  BY <1>1, PersistedShape DEF RecordResult, PromiseInv, FaultyInv, Base, Holds
<1>3. Fits(k, record[k].hash, x)
  BY <1>1, <1>2 DEF PromiseInv, FaultyInv, WorkFits, RunFits
<1>4. ~ disturbed => \A a \in answers : a.key # k
  BY <1>2 DEF PromiseInv, CleanInv, QuietInv, Claims, AnswersStand
<1>5. \A j \in Messages : record'[j].hash = record[j].hash
  BY <1>1, <1>2, CompleteUpdate
<1>6. /\ answers' = answers \cup {[key |-> k, request |-> record[k].hash, result |-> x]}
      /\ UNCHANGED <<gmail, disturbed>>
  BY <1>1, <1>2 DEF RecordResult
<1> QED BY <1>2, <1>3, <1>4, <1>5, <1>6, AnswerRefines

\* A replay repeats what is on record, and nothing else was told, while steady.
LEMMA ReplayRefines ==
    ASSUME PromiseInv, NEW k \in Messages, NEW q \in Requests, Replay(k, q)
    PROVE  Promise!Next
<1>1. PICK x \in Outcome : x = record[k].result
  BY DEF Replay, PromiseInv, FaultyInv, ResultShape
<1>2. /\ TypeOK /\ record[k].status = "completed" /\ record[k].hash = q
      /\ UNCHANGED <<record, gmail, disturbed>>
      /\ answers' = answers \cup {[key |-> k, request |-> q, result |-> x]}
  BY <1>1 DEF Replay, PromiseInv, FaultyInv
<1>3. Fits(k, record[k].hash, x)
  BY <1>1, <1>2 DEF PromiseInv, FaultyInv, RecordFits
<1>4. ~ disturbed => \A a \in answers : a.key = k => a.result = x
  BY <1>1 DEF PromiseInv, CleanInv, QuietInv, AnswersStand
<1> QED BY <1>2, <1>3, <1>4, AnswerRefines

\* Failures and completions keep the hash of every key.
LEMMA HashStays ==
    ASSUME PromiseInv, NEW r \in Runs, RecordResultLost(r) \/ RecordFailure(r)
    PROVE  \A j \in Messages : record'[j].hash = record[j].hash
<1>1. /\ TypeOK /\ run[r].key \in Messages
      /\ run[r].pc = "persisted" => run[r].out \in Outcome
  BY PersistedShape DEF RecordResultLost, RecordFailure, PromiseInv, FaultyInv, Base
<1>2. CASE RecordResultLost(r)
  BY <1>1, <1>2, CompleteUpdate DEF RecordResultLost
<1>3. CASE RecordFailure(r)
  BY <1>1, <1>3, FailUpdate DEF RecordFailure
<1> QED BY <1>2, <1>3

LEMMA StepRefines == PromiseInv /\ [Next]_vars => [Promise!Next]_(Promise!promise)
<1> SUFFICES ASSUME PromiseInv, [Next]_vars PROVE [Promise!Next]_(Promise!promise)
  OBVIOUS
<1>1. TypeOK
  BY DEF PromiseInv, FaultyInv
<1>2. ASSUME UNCHANGED <<record, gmail, answers>>, disturbed' \in {disturbed, TRUE}
      PROVE  [Promise!Next]_(Promise!promise)
  BY <1>1, <1>2, HiddenRefines
<1>3. CASE UNCHANGED vars
  BY <1>2, <1>3 DEF vars
<1>4. ASSUME NEW r \in Runs, RunStep(r) PROVE [Promise!Next]_(Promise!promise)
  <2>1. CASE DecisionTrace(r) \/ PersistTrace(r) \/ Throw(r) \/ Die(r)
    BY <1>2, <2>1 DEF DecisionTrace, PersistTrace, Throw, Die
  <2>2. CASE RecordResultLost(r) \/ RecordFailure(r)
    <3>1. UNCHANGED <<gmail, answers>> /\ disturbed' \in {disturbed, TRUE}
      BY <2>2 DEF RecordResultLost, RecordFailure
    <3> QED BY <1>1, <2>2, <3>1, HashStays, HiddenRefines
  <2> QED BY <1>4, <2>1, <2>2, BeginRefines, SaveRefines, RecordRefines DEF RunStep
<1>5. ASSUME NEW k \in Messages, GoStale(k) PROVE [Promise!Next]_(Promise!promise)
  <2>1. disturbed \in BOOLEAN
    BY <1>1 DEF TypeOK
  <2>2. disturbed' \in {disturbed, TRUE}
    BY <1>5, <2>1 DEF GoStale
  <2> QED BY <1>2, <1>5, <2>2 DEF GoStale
<1> QED BY <1>3, <1>4, <1>5, ReplayRefines DEF Next

\* runInboundDraft keeps the promise of OneReply, whatever throws, dies, is
\* retried, taken over or lost, for any number of messages, payloads and calls.
THEOREM Refinement == Spec => ImplementsOneReply
<1>1. Init => Promise!Init
  BY DEF Init, Promise!Init
<1> QED BY <1>1, StepRefines, PromiseInvariance, PTL DEF Spec, ImplementsOneReply, Promise!Spec
=============================================================================
