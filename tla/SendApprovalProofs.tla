------------------------- MODULE SendApprovalProofs -------------------------
(***************************************************************************)
(* Proofs about SendApproval for every value of its constants: any number  *)
(* of approvals, calls in progress, operation ids, connections and         *)
(* operators.  The theorems that need it assume SettlesWhatWasChecked: the *)
(* operation an operator settles is the one he looked up.  OneOperator-    *)
(* Suffices proves it of the code while no two operators work on the same  *)
(* approval at once.                                                       *)
(***************************************************************************)
EXTENDS SendApproval, TLAPS

USE NoneAssumption, BindingAssumption DEF db, logs

-----------------------------------------------------------------------------
(* Updates of one status, one call, one reconciliation *)

LEMMA RowUpdate ==
    ASSUME TypeOK, NEW a \in Approvals, NEW x \in Status,
           row' = [row EXCEPT ![a].status = x]
    PROVE  /\ row' \in [Approvals -> Row]
           /\ row'[a].status = x /\ row'[a].op = row[a].op
           /\ \A b \in Approvals : b # a => row'[b] = row[b]
BY DEF TypeOK, Row

LEMMA SendUpdate ==
    ASSUME TypeOK, NEW s \in Senders, NEW x \in SenderState,
           send' = [send EXCEPT ![s] = x]
    PROVE  /\ send' \in [Senders -> SenderState]
           /\ send'[s] = x
           /\ \A t \in Senders : t # s => send'[t] = send[t]
BY DEF TypeOK

LEMMA ClaimedCall ==
    ASSUME NEW x \in SenderState, NEW o \in Operations
    PROVE  [x EXCEPT !.pc = "claimed", !.op = o] \in SenderState
BY DEF SenderState

LEMMA AnsweredCall ==
    ASSUME NEW x \in SenderState, NEW q \in Reply
    PROVE  [x EXCEPT !.pc = "settling", !.reply = q] \in SenderState
BY DEF SenderState

LEMMA CheckedRec ==
    ASSUME NEW x \in RecState, NEW v \in Verdict
    PROVE  [x EXCEPT !.pc = "checked", !.verdict = v] \in RecState
BY DEF RecState

LEMMA ReadRec ==
    ASSUME NEW x \in RecState, NEW o \in Operations
    PROVE  [x EXCEPT !.pc = "read", !.op = o] \in RecState
BY DEF RecState

LEMMA IdleTypes == Idle \in SenderState /\ RecIdle \in RecState
BY DEF Idle, RecIdle, SenderState, RecState, Status

-----------------------------------------------------------------------------
(* Type correctness, for any number of operators *)

LEMMA IssueTypes ==
    ASSUME SendTypes, NEW a \in Approvals, IssueStep(a) \/ Lapse(a) \/ BecomeDue(a)
    PROVE  SendTypes'
<1> USE DEF SendTypes
<1>1. CASE Issue(a)
  <2>1. "issued" \in Status
    BY DEF Status
  <2>2. row' = [row EXCEPT ![a].status = "issued"]
    BY <1>1 DEF Issue
  <2>3. TypeOK' /\ SenderShape' /\ RecShape'
    BY <1>1, <2>1, <2>2, RowUpdate DEF Issue, TypeOK, SenderShape, RecShape
  <2>4. RowShape'
    BY <1>1, <2>1, <2>2, RowUpdate DEF Issue, RowShape, TypeOK
  <2> QED BY <2>3, <2>4
<1>2. CASE AuditIssue(a)
  BY <1>2 DEF AuditIssue, TypeOK, AuditFact, SenderShape, RowShape, RecShape
<1>3. CASE AuditIssueFails(a)
  BY <1>3 DEF AuditIssueFails, TypeOK, SenderShape, RowShape, RecShape
<1>4. CASE UndoIssue(a) /\ UNCHANGED row
  BY <1>4 DEF UndoIssue, TypeOK, SenderShape, RowShape, RecShape
<1>5. CASE UndoIssue(a) /\ row[a].status = "issued"
           /\ row' = [row EXCEPT ![a].status = "expired"]
  <2>1. "expired" \in Status
    BY DEF Status
  <2>2. TypeOK' /\ SenderShape' /\ RecShape'
    BY <1>5, <2>1, RowUpdate DEF UndoIssue, TypeOK, SenderShape, RecShape
  <2>3. RowShape'
    BY <1>5, <2>1, RowUpdate DEF UndoIssue, RowShape, TypeOK
  <2> QED BY <2>2, <2>3
<1>6. CASE Lapse(a)
  BY <1>6 DEF Lapse, TypeOK, SenderShape, RowShape, RecShape
<1>7. CASE BecomeDue(a)
  BY <1>7 DEF BecomeDue, TypeOK, SenderShape, RowShape, RecShape
<1> QED BY <1>1, <1>2, <1>3, <1>4, <1>5, <1>6, <1>7 DEF IssueStep, UndoIssue

\* A call that ends, whatever ended it, and leaves the rest alone.
Quits(s) ==
    /\ send' = [send EXCEPT ![s] = Idle]
    /\ UNCHANGED <<row, due, owner, lapsed, issue, requests, fate, rec, audit, ledger>>

LEMMA QuitSteps ==
    ASSUME NEW s \in Senders,
           RefuseSend(s) \/ LoseClaim(s) \/ SettleRefused(s) \/ Abandon(s)
    PROVE  Quits(s)
BY DEF RefuseSend, LoseClaim, SettleRefused, Abandon, Quits

LEMMA QuitTypes ==
    ASSUME SendTypes, NEW s \in Senders, Quits(s)
    PROVE  SendTypes'
<1> USE DEF SendTypes
<1>1. TypeOK'
  BY IdleTypes DEF Quits, TypeOK
<1>2. SenderShape'
  BY IdleTypes, SendUpdate DEF Quits, SenderShape, Idle
<1>3. RowShape' /\ RecShape'
  BY DEF Quits, RowShape, RecShape
<1> QED BY <1>1, <1>2, <1>3

LEMMA BeginTypes ==
    ASSUME SendTypes, NEW s \in Senders,
           \/ \E a \in Approvals, m \in Messages : StartSend(s, a, m)
           \/ ExpireOnBegin(s) \/ AuditClaim(s)
           \/ \E o \in Operations : Claim(s, o)
    PROVE  SendTypes'
<1> USE DEF SendTypes
<1>1. ASSUME NEW a \in Approvals, NEW m \in Messages, StartSend(s, a, m)
      PROVE  SendTypes'
  BY <1>1 DEF StartSend, TypeOK, SenderState, Idle, Row, SenderShape, RowShape, RecShape
<1>2. CASE ExpireOnBegin(s)
  <2> DEFINE a == send[s].approval
  <2>1. a \in Approvals /\ "expired" \in Status
    BY <1>2 DEF ExpireOnBegin, SenderShape, Status
  <2>2. send' = [send EXCEPT ![s] = Idle] /\ UNCHANGED <<due, lapsed, issue, owner, requests, fate, rec, logs>>
    BY <1>2 DEF ExpireOnBegin
  <2>3. CASE UNCHANGED row
    BY <2>2, <2>3, QuitTypes DEF Quits
  <2>4. CASE row[a].status = "issued" /\ row' = [row EXCEPT ![a].status = "expired"]
    <3>1. TypeOK'
      BY <2>1, <2>2, <2>4, RowUpdate, IdleTypes DEF TypeOK
    <3>2. SenderShape'
      BY <2>2, IdleTypes, SendUpdate DEF SenderShape, Idle
    <3>3. RowShape'
      BY <2>1, <2>2, <2>4, RowUpdate DEF RowShape, TypeOK
    <3>4. RecShape'
      BY <2>2 DEF RecShape
    <3> QED BY <3>1, <3>2, <3>3, <3>4
  <2> QED BY <1>2, <2>3, <2>4 DEF ExpireOnBegin
<1>3. CASE AuditClaim(s)
  <2>1. send[s].op \in Operations
    BY <1>3 DEF AuditClaim, SenderShape
  <2>2. <<"mail.approval.claimed", send[s].op>> \in AuditFact
    BY <2>1 DEF AuditFact
  <2>3. TypeOK'
    BY <1>3, <2>2 DEF AuditClaim, TypeOK, SenderState
  <2>4. SenderShape'
    BY <1>3 DEF AuditClaim, SenderShape, TypeOK, SenderState
  <2>5. RowShape' /\ RecShape'
    BY <1>3 DEF AuditClaim, RowShape, RecShape
  <2> QED BY <2>3, <2>4, <2>5
<1>4. ASSUME NEW o \in Operations, Claim(s, o)
      PROVE  SendTypes'
  <2>1. send[s].approval \in Approvals /\ send[s] \in SenderState
    BY <1>4 DEF Claim, SenderShape, TypeOK
  <2>2. [status |-> "sending", op |-> o] \in Row
    BY DEF Row, Status
  <2>3. row' \in [Approvals -> Row] /\ due' \subseteq Approvals
    BY <1>4, <2>1, <2>2 DEF Claim, TypeOK
  <2>4. owner' \in [Operations -> Approvals \cup {None}]
    BY <1>4, <2>1 DEF Claim, TypeOK
  <2>5. send' = [send EXCEPT ![s] = [send[s] EXCEPT !.pc = "claimed", !.op = o]]
    BY <1>4 DEF Claim
  <2>6. [send[s] EXCEPT !.pc = "claimed", !.op = o] \in SenderState
    BY <2>1, ClaimedCall
  <2>7. /\ send' \in [Senders -> SenderState]
        /\ send'[s] = [send[s] EXCEPT !.pc = "claimed", !.op = o]
        /\ \A t \in Senders : t # s => send'[t] = send[t]
    BY <2>5, <2>6, SendUpdate
  <2>8. TypeOK'
    BY <1>4, <2>3, <2>4, <2>7 DEF Claim, TypeOK
  <2>9. /\ send'[s].pc = "claimed" /\ send'[s].op = o
        /\ send'[s].approval = send[s].approval /\ send'[s].message = send[s].message
    BY <2>1, <2>7 DEF SenderState
  <2>10. SenderShape'
    <3>1. send[s].pc = "read"
      BY <1>4 DEF Claim
    <3> QED BY <2>7, <2>9, <3>1 DEF SenderShape
  <2>11. /\ row'[send[s].approval] = [status |-> "sending", op |-> o]
         /\ \A b \in Approvals : b # send[s].approval => row'[b] = row[b]
         /\ due' = due \ {send[s].approval}
    BY <1>4, <2>1 DEF Claim, TypeOK
  <2>12. RowShape'
    BY <2>1, <2>11 DEF RowShape, TypeOK
  <2>13. RecShape'
    BY <1>4 DEF Claim, RecShape
  <2> QED BY <2>8, <2>10, <2>12, <2>13
<1> QED BY <1>1, <1>2, <1>3, <1>4

LEMMA OutcomeStatus ==
    ASSUME NEW q \in Reply PROVE OutcomeOf(q) \in {"sent", "failed_terminal"}
BY DEF Reply, OutcomeOf, ClassifySendError

LEMMA ProviderTypes ==
    ASSUME SendTypes, NEW s \in Senders, CallProvider(s) \/ GetReply(s)
    PROVE  SendTypes'
<1> USE DEF SendTypes
<1>1. CASE CallProvider(s)
  <2>1. /\ send[s].op \in Operations /\ send[s].approval \in Approvals
        /\ send[s].message \in Messages
    BY <1>1 DEF CallProvider, SenderShape
  <2>2. requests' \subseteq Request /\ fate' \in [Operations -> Fate]
    BY <1>1, <2>1 DEF CallProvider, TypeOK, Request, Fate
  <2>3. send' \in [Senders -> SenderState]
    BY <1>1 DEF CallProvider, TypeOK, SenderState
  <2>4. TypeOK'
    BY <1>1, <2>2, <2>3 DEF CallProvider, TypeOK
  <2>5. SenderShape'
    BY <1>1 DEF CallProvider, SenderShape, TypeOK, SenderState
  <2>6. RowShape' /\ RecShape'
    BY <1>1 DEF CallProvider, RowShape, RecShape
  <2> QED BY <2>4, <2>5, <2>6
<1>2. CASE GetReply(s)
  <2> DEFINE q == AnswerTo(fate[send[s].op])
  <2>1. send[s] \in SenderState /\ q \in Reply
    BY <1>2 DEF GetReply, TypeOK, Answered, AnswerTo, Reply
  <2>2. send' = [send EXCEPT ![s] = [send[s] EXCEPT !.pc = "settling", !.reply = q]]
    BY <1>2 DEF GetReply
  <2>3. [send[s] EXCEPT !.pc = "settling", !.reply = q] \in SenderState
    BY <2>1, AnsweredCall
  <2>4. /\ send' \in [Senders -> SenderState]
        /\ send'[s] = [send[s] EXCEPT !.pc = "settling", !.reply = q]
        /\ \A t \in Senders : t # s => send'[t] = send[t]
    BY <2>2, <2>3, SendUpdate
  <2>5. TypeOK'
    BY <1>2, <2>4 DEF GetReply, TypeOK
  <2>6. /\ send'[s].pc = "settling" /\ send'[s].reply = q /\ send'[s].op = send[s].op
        /\ send'[s].approval = send[s].approval /\ send'[s].message = send[s].message
    BY <2>1, <2>4 DEF SenderState
  <2>7. SenderShape'
    <3>1. send[s].pc = "waiting"
      BY <1>2 DEF GetReply
    <3> HIDE DEF q
    <3> QED BY <2>1, <2>4, <2>6, <3>1 DEF SenderShape
  <2>8. RowShape' /\ RecShape'
    BY <1>2 DEF GetReply, RowShape, RecShape
  <2> QED BY <2>5, <2>7, <2>8
<1> QED BY <1>1, <1>2

LEMMA SettleTypes ==
    ASSUME SendTypes, NEW s \in Senders, Settle(s) \/ AuditSettled(s)
    PROVE  SendTypes'
<1> USE DEF SendTypes
<1> DEFINE a == send[s].approval
           x == OutcomeOf(send[s].reply)
<1>1. a \in Approvals /\ send[s].op \in Operations /\ x \in {"sent", "failed_terminal"}
  BY OutcomeStatus DEF Settle, AuditSettled, SenderShape
<1>2. x \in Status
  BY <1>1 DEF Status
<1>3. CASE Settle(s)
  <2>1. row' = [row EXCEPT ![a].status = x] /\ due' = due \ {a}
    BY <1>3 DEF Settle
  <2>2. send' = [send EXCEPT ![s].pc = "settled"] /\ row[a].op = send[s].op
    BY <1>3 DEF Settle, SettleHolds
  <2> HIDE DEF x
  <2>3. row' \in [Approvals -> Row] /\ due' \subseteq Approvals
    BY <1>1, <1>2, <2>1, RowUpdate DEF TypeOK
  <2>4. send' \in [Senders -> SenderState]
    BY <2>2 DEF TypeOK, SenderState
  <2>5. TypeOK'
    BY <1>3, <2>3, <2>4 DEF Settle, TypeOK
  <2>6. SenderShape'
    BY <1>3, <2>2 DEF Settle, SenderShape, TypeOK, SenderState
  <2>7. RowShape'
    BY <1>1, <1>2, <2>1, <2>2, RowUpdate DEF RowShape, TypeOK
  <2>8. RecShape'
    BY <1>3 DEF Settle, RecShape
  <2> QED BY <2>5, <2>6, <2>7, <2>8
<1>4. CASE AuditSettled(s)
  <2>1. <<"mail.send.settled", send[s].op, x>> \in AuditFact
    BY <1>1, <1>2 DEF AuditFact
  <2>2. TypeOK'
    BY <1>4, <2>1, IdleTypes DEF AuditSettled, TypeOK
  <2>3. SenderShape'
    BY <1>4, IdleTypes, SendUpdate DEF AuditSettled, SenderShape, Idle
  <2>4. RowShape' /\ RecShape'
    BY <1>4 DEF AuditSettled, RowShape, RecShape
  <2> QED BY <2>2, <2>3, <2>4
<1> QED BY <1>3, <1>4

LEMMA OutsideTypes ==
    ASSUME SendTypes,
           \/ \E o \in Operations : ProviderDecides(o)
           \/ \E c \in Connections : InvalidateForConnection(c)
    PROVE  SendTypes'
<1> USE DEF SendTypes
<1>1. ASSUME NEW o \in Operations, ProviderDecides(o)
      PROVE  SendTypes'
  BY <1>1 DEF ProviderDecides, TypeOK, Fate, SenderShape, RowShape, RecShape
<1>2. ASSUME NEW c \in Connections, InvalidateForConnection(c)
      PROVE  SendTypes'
  <2>1. TypeOK'
    BY <1>2 DEF InvalidateForConnection, TypeOK, Row, Status
  <2>2. SenderShape' /\ RecShape'
    BY <1>2 DEF InvalidateForConnection, SenderShape, RecShape
  <2>3. RowShape'
    BY <1>2 DEF InvalidateForConnection, RowShape, TypeOK, Row, Invalidated
  <2> QED BY <2>1, <2>2, <2>3
<1> QED BY <1>1, <1>2

\* A reconciliation that ends, whatever ended it, and leaves the rest alone.
RecQuits(r) ==
    /\ rec' = [rec EXCEPT ![r] = RecIdle]
    /\ UNCHANGED <<row, due, owner, lapsed, issue, send, requests, fate, audit, ledger>>

LEMMA RecQuitTypes ==
    ASSUME SendTypes, NEW r \in Reconcilers, RecQuits(r)
    PROVE  SendTypes'
<1> USE DEF SendTypes
<1>1. TypeOK'
  BY IdleTypes DEF RecQuits, TypeOK
<1>2. RecShape'
  BY <1>1, IdleTypes DEF RecQuits, RecShape, RecIdle, TypeOK
<1>3. RowShape' /\ SenderShape'
  BY DEF RecQuits, RowShape, SenderShape
<1> QED BY <1>1, <1>2, <1>3

LEMMA RecTypes ==
    ASSUME SendTypes, NEW r \in Reconcilers, RecStep(r)
    PROVE  SendTypes'
<1> USE DEF SendTypes
<1>1. ASSUME NEW a \in Approvals, List(r, a)
      PROVE  SendTypes'
  <2>1. row[a].op \in Operations
    BY <1>1 DEF List, RowShape
  <2>2. [RecIdle EXCEPT !.pc = "listed", !.approval = a, !.seen = row[a].op] \in RecState
    BY <2>1 DEF RecIdle, RecState
  <2>3. TypeOK'
    BY <1>1, <2>2 DEF List, TypeOK
  <2>4. RecShape'
    BY <1>1, <2>1 DEF List, RecShape, TypeOK, RecState, RecIdle
  <2>5. RowShape' /\ SenderShape'
    BY <1>1 DEF List, RowShape, SenderShape
  <2> QED BY <2>3, <2>4, <2>5
<1>2. ASSUME NEW v \in Verdict, CheckProvider(r, v)
      PROVE  SendTypes'
  <2>1. /\ rec' = [rec EXCEPT ![r] = [rec[r] EXCEPT !.pc = "checked", !.verdict = v]]
        /\ rec[r] \in RecState /\ rec[r].pc = "listed"
    BY <1>2 DEF CheckProvider, TypeOK
  <2>2. [rec[r] EXCEPT !.pc = "checked", !.verdict = v] \in RecState
    BY <2>1, CheckedRec
  <2>3. TypeOK'
    BY <1>2, <2>1, <2>2 DEF CheckProvider, TypeOK
  <2>4. /\ rec'[r] = [rec[r] EXCEPT !.pc = "checked", !.verdict = v]
        /\ \A t \in Reconcilers : t # r => rec'[t] = rec[t]
    BY <2>1, <2>2 DEF TypeOK
  <2>5. RecShape'
    <3>1. /\ rec'[r].pc = "checked" /\ rec'[r].verdict = v
          /\ rec'[r].approval = rec[r].approval /\ rec'[r].seen = rec[r].seen
      <4>1. rec[r] \in RecState
        BY <2>1
      <4> QED BY <2>4, <4>1 DEF RecState
    <3> QED BY <2>1, <2>4, <3>1 DEF RecShape
  <2>6. RowShape' /\ SenderShape'
    BY <1>2 DEF CheckProvider, RowShape, SenderShape
  <2> QED BY <2>3, <2>5, <2>6
<1>3. CASE RecRead(r)
  <2> DEFINE a == rec[r].approval
             o == row[a].op
  <2>1. a \in Approvals /\ rec[r] \in RecState /\ rec[r].pc = "checked"
    BY <1>3 DEF RecRead, RecShape, TypeOK
  <2>2. CASE row[a].status # "sending"
    BY <1>3, <2>2, RecQuitTypes DEF RecRead, RecQuits
  <2>3. CASE row[a].status = "sending"
    <3>1. /\ rec' = [rec EXCEPT ![r] = [rec[r] EXCEPT !.pc = "read", !.op = o]]
          /\ o \in Operations
      BY <1>3, <2>1, <2>3 DEF RecRead, RowShape
    <3> HIDE DEF o
    <3>2. [rec[r] EXCEPT !.pc = "read", !.op = o] \in RecState
      BY <2>1, <3>1, ReadRec
    <3>3. TypeOK'
      BY <1>3, <3>1, <3>2 DEF RecRead, TypeOK
    <3>4. /\ rec'[r] = [rec[r] EXCEPT !.pc = "read", !.op = o]
          /\ \A t \in Reconcilers : t # r => rec'[t] = rec[t]
      BY <3>1, <3>2 DEF TypeOK
    <3>5. RecShape'
      <4>1. /\ rec'[r].pc = "read" /\ rec'[r].op = o /\ rec'[r].verdict = rec[r].verdict
            /\ rec'[r].approval = rec[r].approval /\ rec'[r].seen = rec[r].seen
        BY <2>1, <3>4 DEF RecState
      <4> QED BY <2>1, <3>1, <3>4, <4>1 DEF RecShape
    <3>6. RowShape' /\ SenderShape'
      BY <1>3 DEF RecRead, RowShape, SenderShape
    <3> QED BY <3>3, <3>5, <3>6
  <2> QED BY <2>2, <2>3
<1>4. CASE RecSettle(r)
  <2> DEFINE a == rec[r].approval
             x == ReconciledStatus(rec[r].verdict)
  <2>1. a \in Approvals /\ x \in {"sent", "failed_retryable"} /\ x \in Status
    BY <1>4 DEF RecSettle, RecShape, ReconciledStatus, Status
  <2>2. /\ row' = [row EXCEPT ![a].status = x] /\ due' = due \ {a}
        /\ row[a].op = rec[r].op /\ rec[r].op \in Operations
    BY <1>4 DEF RecSettle, SettleHolds, RecShape
  <2> HIDE DEF x
  <2>3. row' \in [Approvals -> Row] /\ due' \subseteq Approvals
    BY <2>1, <2>2, RowUpdate DEF TypeOK
  <2>4. rec' \in [Reconcilers -> RecState]
    BY <1>4 DEF RecSettle, TypeOK, RecState
  <2>5. TypeOK'
    BY <1>4, <2>3, <2>4 DEF RecSettle, TypeOK
  <2>6. RecShape'
    BY <1>4 DEF RecSettle, RecShape, TypeOK, RecState
  <2>7. RowShape'
    BY <2>1, <2>2, RowUpdate DEF RowShape, TypeOK
  <2>8. SenderShape'
    BY <1>4 DEF RecSettle, SenderShape
  <2> QED BY <2>5, <2>6, <2>7, <2>8
<1>5. CASE RecRecord(r)
  <2>1. [operation |-> rec[r].op, verdict |-> rec[r].verdict]
           \in [operation : Operations, verdict : Verdict]
    BY <1>5 DEF RecRecord, RecShape
  <2>2. rec' \in [Reconcilers -> RecState]
    BY <1>5 DEF RecRecord, TypeOK, RecState
  <2>3. TypeOK'
    BY <1>5, <2>1, <2>2 DEF RecRecord, TypeOK
  <2>4. RecShape'
    BY <1>5 DEF RecRecord, RecShape, TypeOK, RecState
  <2>5. RowShape' /\ SenderShape'
    BY <1>5 DEF RecRecord, RowShape, SenderShape
  <2> QED BY <2>3, <2>4, <2>5
<1>6. CASE RecAudit(r)
  <2>1. <<"mail.reconciliation.decided", rec[r].op>> \in AuditFact
    BY <1>6 DEF RecAudit, RecShape, AuditFact
  <2>2. TypeOK'
    BY <1>6, <2>1, IdleTypes DEF RecAudit, TypeOK
  <2>3. RecShape'
    BY <1>6, IdleTypes DEF RecAudit, RecShape, RecIdle, TypeOK
  <2>4. RowShape' /\ SenderShape'
    BY <1>6 DEF RecAudit, RowShape, SenderShape
  <2> QED BY <2>2, <2>3, <2>4
<1>7. CASE RecAbandon(r)
  BY <1>7, RecQuitTypes DEF RecAbandon, RecQuits
<1> QED BY <1>1, <1>2, <1>3, <1>4, <1>5, <1>6, <1>7 DEF RecStep

LEMMA TypesStep == SendTypes /\ [Next]_vars => SendTypes'
<1> SUFFICES ASSUME SendTypes, [Next]_vars PROVE SendTypes'
  OBVIOUS
<1>1. CASE UNCHANGED vars
  BY <1>1 DEF vars, SendTypes, TypeOK, SenderShape, RowShape, RecShape
<1>2. ASSUME NEW s \in Senders, SendStep(s) PROVE SendTypes'
  BY <1>2, QuitSteps, QuitTypes, BeginTypes, ProviderTypes, SettleTypes DEF SendStep
<1>3. ASSUME Next PROVE SendTypes'
  BY <1>2, <1>3, IssueTypes, RecTypes, OutsideTypes DEF Next
<1> QED BY <1>1, <1>3

LEMMA TypesInit == Init => SendTypes
BY IdleTypes DEF Init, SendTypes, TypeOK, Row, Status, Fate, SenderShape, RowShape,
                 RecShape, Idle, RecIdle

\* Every row, call, reconciliation and log keeps its type, and no step uses a
\* field (an operation id, a reply, a verdict) that its actor has not filled.
THEOREM TypeCorrect == Spec => []TypeOK
<1>1. SendTypes => TypeOK
  BY DEF SendTypes
<1> QED BY <1>1, TypesInit, TypesStep, PTL DEF Spec

-----------------------------------------------------------------------------
(* What calls rely on, for any number of operators: one lemma per step *)

LEMMA PcUpdate ==
    ASSUME TypeOK, NEW s \in Senders, NEW x, send' = [send EXCEPT ![s].pc = x]
    PROVE  /\ send'[s].pc = x
           /\ send'[s].op = send[s].op /\ send'[s].reply = send[s].reply
           /\ send'[s].approval = send[s].approval /\ send'[s].message = send[s].message
           /\ \A t \in Senders : t # s => send'[t] = send[t]
BY DEF TypeOK, SenderState

LEMMA RecPcUpdate ==
    ASSUME TypeOK, NEW r \in Reconcilers, NEW x, rec' = [rec EXCEPT ![r].pc = x]
    PROVE  /\ rec'[r].pc = x
           /\ rec'[r].op = rec[r].op /\ rec'[r].verdict = rec[r].verdict
           /\ rec'[r].approval = rec[r].approval /\ rec'[r].seen = rec[r].seen
           /\ \A t \in Reconcilers : t # r => rec'[t] = rec[t]
BY DEF TypeOK, RecState

\* The settlements on record stay true while nothing new may land, what was
\* delivered stays so, and no settlement is recorded.
LEMMA SettlementsStayTrue ==
    ASSUME SettlementsAreTrue,
           \A p \in Operations : MayLand(p)' => MayLand(p),
           \A p \in Operations : fate[p] = "delivered" => fate'[p] = "delivered",
           \A p, x : <<"mail.send.settled", p, x>> \in audit' => <<"mail.send.settled", p, x>> \in audit
    PROVE  SettlementsAreTrue'
BY DEF SettlementsAreTrue

\* A call that starts, or that moves to a step past the provider, lands nothing new.
LEMMA NothingNewLands ==
    ASSUME TypeOK, UNCHANGED fate, NEW s \in Senders, NEW c,
           send' = [send EXCEPT ![s] = c], c.pc \notin {"claimed", "cleared"}
    PROVE  \A p \in Operations : MayLand(p)' => MayLand(p)
BY DEF TypeOK, MayLand

\* A step of somebody else: a clock, an operator, a disconnect.
LEMMA BystanderCalls ==
    ASSUME CallsInv, SendTypes', UNCHANGED <<send, owner, fate, requests, issue>>,
           audit \subseteq audit',
           \A o, x : <<"mail.send.settled", o, x>> \in audit' => <<"mail.send.settled", o, x>> \in audit,
           \A b \in Approvals : row'[b].status = "absent" => row[b].status = "absent"
    PROVE  CallsInv'
<1> USE DEF CallsInv, SendTypes
<1>1. FreshOps'
  BY DEF FreshOps
<1>2. SenderOps' /\ OneSenderPerOp'
  BY DEF SenderOps, OneSenderPerOp
<1>3. RequestOps' /\ IssueAudited'
  BY DEF RequestOps, IssueAudited
<1>4. SettlementsAreTrue'
  BY DEF SettlementsAreTrue, MayLand
<1> QED BY <1>1, <1>2, <1>3, <1>4

LEMMA OtherCalls ==
    ASSUME CallsInv, SendTypes',
           \/ \E a \in Approvals : Lapse(a) \/ BecomeDue(a)
           \/ \E r \in Reconcilers : RecStep(r)
           \/ \E c \in Connections : InvalidateForConnection(c)
    PROVE  CallsInv'
<1> USE DEF CallsInv, SendTypes
<1>1. ASSUME NEW a \in Approvals, Lapse(a) \/ BecomeDue(a)  PROVE CallsInv'
  BY <1>1, BystanderCalls DEF Lapse, BecomeDue
<1>2. ASSUME NEW r \in Reconcilers, RecSettle(r)  PROVE CallsInv'
  <2>1. /\ rec[r].approval \in Approvals
        /\ ReconciledStatus(rec[r].verdict) \in Status
        /\ ReconciledStatus(rec[r].verdict) # "absent"
    BY <1>2 DEF RecSettle, RecShape, ReconciledStatus, Status
  <2>2. \A b \in Approvals : row'[b].status = "absent" => row[b].status = "absent"
    BY <1>2, <2>1, RowUpdate DEF RecSettle
  <2> QED BY <1>2, <2>2, BystanderCalls DEF RecSettle
<1>3. ASSUME NEW r \in Reconcilers, RecAudit(r)  PROVE CallsInv'
  <2>1. audit' = audit \cup {<<"mail.reconciliation.decided", rec[r].op>>}
    BY <1>3 DEF RecAudit
  <2>2. \A o, x : <<"mail.send.settled", o, x>> # <<"mail.reconciliation.decided", rec[r].op>>
    OBVIOUS
  <2> QED BY <1>3, <2>1, <2>2, BystanderCalls DEF RecAudit
<1>4. ASSUME NEW r \in Reconcilers, RecStep(r), ~ RecSettle(r), ~ RecAudit(r)  PROVE CallsInv'
  <2>1. UNCHANGED <<row, send, owner, fate, requests, issue, audit>>
    BY <1>4 DEF RecStep, List, CheckProvider, RecRead, RecRecord, RecAbandon
  <2> QED BY <2>1, BystanderCalls
<1>5. ASSUME NEW c \in Connections, InvalidateForConnection(c)  PROVE CallsInv'
  <2>1. \A b \in Approvals : row'[b].status = "absent" => row[b].status = "absent"
    BY <1>5 DEF InvalidateForConnection, Invalidated, TypeOK, Row
  <2> QED BY <1>5, <2>1, BystanderCalls DEF InvalidateForConnection
<1> QED BY <1>1, <1>2, <1>3, <1>4, <1>5

LEMMA IssueCalls ==
    ASSUME CallsInv, SendTypes', NEW a \in Approvals, IssueStep(a)
    PROVE  CallsInv'
<1> USE DEF CallsInv, SendTypes
<1>1. CASE Issue(a)
  <2>a. /\ issue[a] = "none" /\ issue'[a] = "inserted"
        /\ \A b \in Approvals : b # a => issue'[b] = issue[b]
        /\ UNCHANGED <<send, owner, fate, audit, requests>>
    BY <1>1 DEF Issue, IssueAudited, TypeOK
  <2>b. row'[a].status = "issued" /\ \A b \in Approvals : b # a => row'[b] = row[b]
    BY <1>1, RowUpdate DEF Issue, Status
  <2>1. FreshOps' /\ OneSenderPerOp' /\ SettlementsAreTrue'
    BY <2>a DEF FreshOps, OneSenderPerOp, SettlementsAreTrue, MayLand
  <2>2. SenderOps'
    BY <2>a DEF SenderOps, SenderShape
  <2>3. RequestOps'
    BY <2>a DEF RequestOps, Request, TypeOK
  <2>4. IssueAudited'
    BY <2>a, <2>b DEF IssueAudited
  <2> QED BY <2>1, <2>2, <2>3, <2>4
<1>2. CASE AuditIssue(a)
  <2>1. FreshOps' /\ OneSenderPerOp'
    BY <1>2 DEF AuditIssue, FreshOps, OneSenderPerOp
  <2>2. SenderOps'
    BY <1>2 DEF AuditIssue, SenderOps
  <2>3. RequestOps'
    BY <1>2 DEF AuditIssue, RequestOps
  <2>4. IssueAudited'
    BY <1>2 DEF AuditIssue, IssueAudited, TypeOK
  <2>5. SettlementsAreTrue'
    BY <1>2 DEF AuditIssue, SettlementsAreTrue, MayLand
  <2> QED BY <2>1, <2>2, <2>3, <2>4, <2>5
<1>3. CASE AuditIssueFails(a)
  <2>1. FreshOps' /\ OneSenderPerOp' /\ SettlementsAreTrue'
    BY <1>3 DEF AuditIssueFails, FreshOps, OneSenderPerOp, SettlementsAreTrue, MayLand
  <2>2. SenderOps'
    BY <1>3 DEF AuditIssueFails, SenderOps
  <2>3. RequestOps'
    BY <1>3 DEF AuditIssueFails, RequestOps
  <2>4. IssueAudited'
    BY <1>3 DEF AuditIssueFails, IssueAudited, TypeOK
  <2> QED BY <2>1, <2>2, <2>3, <2>4
<1>4. CASE UndoIssue(a)
  <2>a. /\ issue[a] = "undo" /\ issue'[a] = "failed"
        /\ \A b \in Approvals : b # a => issue'[b] = issue[b]
    BY <1>4 DEF UndoIssue, TypeOK
  <2>b. \A b \in Approvals : row'[b].status = "absent" => row[b].status = "absent"
    BY <1>4, RowUpdate DEF UndoIssue, Status
  <2>1. FreshOps' /\ OneSenderPerOp' /\ SettlementsAreTrue'
    BY <1>4 DEF UndoIssue, FreshOps, OneSenderPerOp, SettlementsAreTrue, MayLand
  <2>2. SenderOps'
    BY <1>4 DEF UndoIssue, SenderOps
  <2>3. RequestOps'
    BY <1>4 DEF UndoIssue, RequestOps
  <2>4. IssueAudited'
    BY <1>4, <2>a, <2>b DEF UndoIssue, IssueAudited
  <2> QED BY <2>1, <2>2, <2>3, <2>4
<1> QED BY <1>1, <1>2, <1>3, <1>4 DEF IssueStep

\* A call that is forgotten, with its row expired or not.
LEMMA QuitCalls ==
    ASSUME CallsInv, SendTypes', NEW s \in Senders, Quits(s) \/ ExpireOnBegin(s)
    PROVE  CallsInv'
<1> USE DEF CallsInv, SendTypes
<1>1. /\ send' = [send EXCEPT ![s] = Idle]
      /\ UNCHANGED <<owner, fate, requests, issue, audit>>
      /\ \A b \in Approvals : row'[b].status = "absent" => row[b].status = "absent"
  <2>1. CASE Quits(s)
    BY <2>1 DEF Quits
  <2>2. CASE ExpireOnBegin(s)
    <3>1. send[s].approval \in Approvals
      BY <2>2 DEF ExpireOnBegin, SenderShape
    <3>2. CASE row[send[s].approval].status = "issued"
      <4>1. row' = [row EXCEPT ![send[s].approval].status = "expired"]
        BY <2>2, <3>2 DEF ExpireOnBegin
      <4>2. "expired" \in Status
        BY DEF Status
      <4>3. \A b \in Approvals : row'[b].status = "absent" => row[b].status = "absent"
        BY <3>1, <4>1, <4>2, RowUpdate
      <4> QED BY <2>2, <4>3 DEF ExpireOnBegin
    <3>3. CASE row[send[s].approval].status # "issued"
      BY <2>2, <3>3 DEF ExpireOnBegin
    <3> QED BY <3>2, <3>3
  <2> QED BY <2>1, <2>2
<1>2. FreshOps'
  BY <1>1 DEF FreshOps, Idle
<1>3. SenderOps'
  BY <1>1 DEF SenderOps, Idle
<1>4. OneSenderPerOp'
  BY <1>1 DEF OneSenderPerOp, Idle
<1>5. RequestOps' /\ IssueAudited'
  BY <1>1 DEF RequestOps, IssueAudited
<1>6. SettlementsAreTrue'
  <2>1. Idle.pc = "idle"
    BY DEF Idle
  <2>2. \A p \in Operations : MayLand(p)' => MayLand(p)
    BY <1>1, <2>1, NothingNewLands
  <2> QED BY <1>1, <2>2, SettlementsStayTrue
<1> QED BY <1>2, <1>3, <1>4, <1>5, <1>6

LEMMA StartSendCalls ==
    ASSUME CallsInv, SendTypes', NEW s \in Senders, NEW a \in Approvals, NEW m \in Messages,
           StartSend(s, a, m)
    PROVE  CallsInv'
<1> USE DEF CallsInv, SendTypes
<1>1. RequestOps' /\ IssueAudited'
  BY DEF StartSend, RequestOps, IssueAudited
<1>2. FreshOps'
  BY DEF StartSend, FreshOps, Idle
<1>3. SenderOps'
  BY DEF StartSend, SenderOps, Idle
<1>4. OneSenderPerOp'
  BY DEF StartSend, OneSenderPerOp, Idle
<1>5. SettlementsAreTrue'
  <2> DEFINE c == [Idle EXCEPT !.pc = "read", !.approval = a,
                               !.message = m, !.seen = row[a].status]
  <2>1. c.pc = "read"
    BY DEF Idle
  <2>2. /\ send' = [send EXCEPT ![s] = c]
        /\ UNCHANGED <<fate, audit>>
    BY DEF StartSend
  <2> HIDE DEF c
  <2>3. \A p \in Operations : MayLand(p)' => MayLand(p)
    BY <2>1, <2>2, NothingNewLands
  <2> QED BY <2>2, <2>3, SettlementsStayTrue
<1> QED BY <1>1, <1>2, <1>3, <1>4, <1>5

LEMMA ClaimCalls ==
    ASSUME CallsInv, SendTypes', NEW s \in Senders, NEW o \in Operations, Claim(s, o)
    PROVE  CallsInv'
<1> USE DEF CallsInv, SendTypes
<1>a. \A b \in Approvals : row'[b].status = "absent" => row[b].status = "absent"
  BY DEF Claim
<1>1. FreshOps'
  BY DEF Claim, FreshOps, TypeOK
<1>2. SenderOps'
  BY DEF Claim, Validates, SenderOps, FreshOps, TypeOK
<1>3. OneSenderPerOp'
  BY DEF Claim, OneSenderPerOp, FreshOps
<1>4. RequestOps'
  BY DEF Claim, RequestOps, Request, TypeOK
<1>5. IssueAudited'
  BY <1>a DEF Claim, IssueAudited
<1>6. SettlementsAreTrue'
  <2>1. \A p \in Operations : MayLand(p)' => MayLand(p) \/ p = o
    BY DEF Claim, MayLand
  <2>2. \A x \in Status : <<"mail.send.settled", o, x>> \notin audit
    BY DEF Claim, FreshOps
  <2>3. "failed_terminal" \in Status
    BY DEF Status
  <2> QED BY <2>1, <2>2, <2>3 DEF Claim, SettlementsAreTrue
<1> QED BY <1>1, <1>2, <1>3, <1>4, <1>5, <1>6

LEMMA AuditClaimCalls ==
    ASSUME CallsInv, SendTypes', NEW s \in Senders, AuditClaim(s)
    PROVE  CallsInv'
<1> USE DEF CallsInv, SendTypes
<1>1. FreshOps'
  BY DEF AuditClaim, FreshOps
<1>2. SenderOps'
  BY DEF AuditClaim, SenderOps
<1>3. OneSenderPerOp'
  BY DEF AuditClaim, OneSenderPerOp
<1>4. RequestOps'
  BY DEF AuditClaim, RequestOps
<1>5. IssueAudited'
  BY DEF AuditClaim, IssueAudited
<1>6. SettlementsAreTrue'
  <2>1. \A p \in Operations : MayLand(p)' => MayLand(p)
    BY PcUpdate DEF AuditClaim, MayLand
  <2>2. \A p, x : <<"mail.send.settled", p, x>> # <<"mail.approval.claimed", send[s].op>>
    OBVIOUS
  <2> QED BY <2>1, <2>2, SettlementsStayTrue DEF AuditClaim
<1> QED BY <1>1, <1>2, <1>3, <1>4, <1>5, <1>6

LEMMA CallProviderCalls ==
    ASSUME CallsInv, SendTypes', NEW s \in Senders, CallProvider(s)
    PROVE  CallsInv'
<1> USE DEF CallsInv, SendTypes
<1> DEFINE o == send[s].op
<1>a. /\ send[s].pc = "cleared" /\ send'[s].pc = "waiting" /\ send'[s].op = o
      /\ send'[s].approval = send[s].approval /\ send'[s].message = send[s].message
      /\ \A t \in Senders : t # s => send'[t] = send[t]
  BY PcUpdate DEF CallProvider
<1>b. /\ o \in Operations /\ fate[o] = "none" /\ fate'[o] = "pending"
      /\ \A p \in Operations : p # o => fate'[p] = fate[p]
  BY DEF CallProvider, SenderShape, SenderOps, TypeOK
<1>c. \A p \in Operations : MayLand(p)' <=> MayLand(p)
  BY <1>a, <1>b DEF MayLand
<1>d. UNCHANGED <<row, owner, issue, audit>>
  BY DEF CallProvider
<1> HIDE DEF o
<1>1. IssueAudited'
  BY DEF CallProvider, IssueAudited
<1>2. FreshOps'
  BY <1>a, <1>b, <1>d DEF FreshOps, o
<1>3. SenderOps'
  BY DEF CallProvider, SenderOps, OneSenderPerOp, TypeOK
<1>4. OneSenderPerOp'
  BY DEF CallProvider, OneSenderPerOp
<1>5. RequestOps'
  <2>1. requests' = requests \cup {[approval |-> send[s].approval, operation |-> o,
                                    message |-> send[s].message]}
    BY DEF CallProvider, o
  <2>2. /\ send[s].op = o /\ o # None
        /\ <<"mail.approval.claimed", o>> \in audit
    BY <1>a, <1>b DEF SenderOps, o
  <2>3. /\ owner[send[s].op] = send[s].approval
        /\ send[s].message = Bound[send[s].approval]
    BY <2>2 DEF SenderOps
  <2>4. issue[send[s].approval] = "returned"
    BY <1>a DEF SenderOps
  <2>5. \A q \in requests : q \in Request /\ q.operation # o
    BY <1>b DEF RequestOps, TypeOK
  <2>6. \A q \in requests' : q \in requests \/
           /\ q.operation = o /\ q.approval = send[s].approval
           /\ q.message = send[s].message
    BY <2>1
  <2>7. \E q \in requests' : q.operation = o
    <3> DEFINE q == [approval |-> send[s].approval, operation |-> o, message |-> send[s].message]
    <3>1. q \in requests' /\ q.operation = o
      BY <2>1
    <3> QED BY <3>1
  <2>8. requests \subseteq requests'
    BY <2>1
  <2> QED BY <1>b, <1>d, <2>2, <2>3, <2>4, <2>5, <2>6, <2>7, <2>8 DEF RequestOps, Request
<1>6. SettlementsAreTrue'
  BY <1>b, <1>c, <1>d DEF SettlementsAreTrue
<1> QED BY <1>1, <1>2, <1>3, <1>4, <1>5, <1>6

LEMMA ProviderDecidesCalls ==
    ASSUME CallsInv, SendTypes', NEW o \in Operations, ProviderDecides(o)
    PROVE  CallsInv'
<1> USE DEF CallsInv, SendTypes
<1>1. OneSenderPerOp' /\ IssueAudited'
  BY DEF ProviderDecides, OneSenderPerOp, IssueAudited
<1>2. FreshOps'
  BY DEF ProviderDecides, FreshOps
<1>3. SenderOps'
  BY DEF ProviderDecides, SenderOps, AnswerTo, SenderShape
<1>4. RequestOps'
  BY DEF ProviderDecides, RequestOps
<1>5. SettlementsAreTrue'
  <2>1. /\ fate[o] = "pending" /\ UNCHANGED <<send, audit>>
        /\ \A p \in Operations : p # o => fate'[p] = fate[p]
    BY DEF ProviderDecides, TypeOK
  <2>2. \A p \in Operations : MayLand(p)' => MayLand(p)
    BY <2>1 DEF MayLand
  <2> QED BY <2>1, <2>2, SettlementsStayTrue
<1> QED BY <1>1, <1>2, <1>3, <1>4, <1>5

LEMMA GetReplyCalls ==
    ASSUME CallsInv, SendTypes', NEW s \in Senders, GetReply(s)
    PROVE  CallsInv'
<1> USE DEF CallsInv, SendTypes
<1>a. /\ send' = [send EXCEPT ![s] = [send[s] EXCEPT !.pc = "settling",
                                  !.reply = AnswerTo(fate[send[s].op])]]
      /\ send[s] \in SenderState /\ send[s].pc = "waiting"
  BY DEF GetReply, TypeOK
<1>b. /\ send'[s].pc = "settling" /\ send'[s].op = send[s].op
      /\ send'[s].reply = AnswerTo(fate[send[s].op])
      /\ send'[s].approval = send[s].approval /\ send'[s].message = send[s].message
      /\ \A t \in Senders : t # s => send'[t] = send[t]
  BY <1>a DEF TypeOK, SenderState
<1>c. \A p \in Operations : MayLand(p)' <=> MayLand(p)
  BY <1>a, <1>b DEF GetReply, MayLand
<1>1. RequestOps' /\ IssueAudited'
  BY DEF GetReply, RequestOps, IssueAudited
<1>2. FreshOps'
  BY <1>b DEF GetReply, FreshOps
<1>3. SenderOps'
  BY <1>a, <1>b DEF GetReply, SenderOps
<1>4. OneSenderPerOp'
  BY <1>b DEF OneSenderPerOp
<1>5. SettlementsAreTrue'
  BY <1>c DEF GetReply, SettlementsAreTrue
<1> QED BY <1>1, <1>2, <1>3, <1>4, <1>5

LEMMA SettleCalls ==
    ASSUME CallsInv, SendTypes', NEW s \in Senders, Settle(s)
    PROVE  CallsInv'
<1> USE DEF CallsInv, SendTypes
<1>a. /\ send[s].pc = "settling" /\ send'[s].pc = "settled" /\ send'[s].op = send[s].op
      /\ send'[s].approval = send[s].approval /\ send'[s].message = send[s].message
      /\ send'[s].reply = send[s].reply
      /\ \A t \in Senders : t # s => send'[t] = send[t]
  BY PcUpdate DEF Settle
<1>b. UNCHANGED <<issue, owner, fate, requests, audit>>
  BY DEF Settle
<1>c. \A b \in Approvals : row'[b].status = "absent" => row[b].status = "absent"
  <2>1. /\ send[s].approval \in Approvals
        /\ OutcomeOf(send[s].reply) \in Status /\ OutcomeOf(send[s].reply) # "absent"
    BY OutcomeStatus DEF Settle, SenderShape, Status
  <2> QED BY <2>1, RowUpdate DEF Settle
<1>1. RequestOps' /\ IssueAudited'
  BY <1>b, <1>c DEF RequestOps, IssueAudited
<1>2. FreshOps'
  BY <1>a, <1>b DEF FreshOps
<1>3. SenderOps'
  BY <1>a, <1>b DEF SenderOps
<1>4. OneSenderPerOp'
  BY <1>a DEF OneSenderPerOp
<1>5. SettlementsAreTrue'
  BY <1>a, <1>b DEF SettlementsAreTrue, MayLand
<1> QED BY <1>1, <1>2, <1>3, <1>4, <1>5

LEMMA AuditSettledCalls ==
    ASSUME CallsInv, SendTypes', NEW s \in Senders, AuditSettled(s)
    PROVE  CallsInv'
<1> USE DEF CallsInv, SendTypes
<1>1. FreshOps'
  <2>1. owner[send[s].op] # None
    BY NoneAssumption DEF AuditSettled, SenderShape, SenderOps
  <2> QED BY <2>1, IdleTypes, SendUpdate DEF AuditSettled, FreshOps, Idle
<1>2. SenderOps'
  BY DEF AuditSettled, SenderOps, Idle
<1>3. OneSenderPerOp'
  BY DEF AuditSettled, OneSenderPerOp, Idle
<1>4. RequestOps'
  BY DEF AuditSettled, RequestOps
<1>5. IssueAudited'
  BY DEF AuditSettled, IssueAudited
<1>6. SettlementsAreTrue'
  <2> DEFINE o == send[s].op
             x == OutcomeOf(send[s].reply)
  <2>1. /\ send[s].pc = "settled" /\ o \in Operations
        /\ send[s].reply \in Reply /\ send[s].reply = AnswerTo(fate[o])
    BY DEF AuditSettled, SenderShape, SenderOps
  <2>2. /\ x = "sent" => fate[o] = "delivered"
        /\ x = "failed_terminal" => fate[o] \notin {"pending", "delivered"}
    BY <2>1 DEF OutcomeOf, ClassifySendError, AnswerTo
  <2>3. x = "failed_terminal" => ~ MayLand(o)
    BY <2>1, <2>2, NoneAssumption DEF MayLand, OneSenderPerOp
  <2>4. /\ send' = [send EXCEPT ![s] = Idle] /\ UNCHANGED fate
        /\ audit' = audit \cup {<<"mail.send.settled", o, x>>}
    BY DEF AuditSettled
  <2>5. \A p \in Operations : MayLand(p)' <=> MayLand(p)
    BY <2>1, <2>4, IdleTypes, SendUpdate DEF MayLand, Idle
  <2> HIDE DEF o, x
  <2> QED BY <2>2, <2>3, <2>4, <2>5 DEF SettlementsAreTrue
<1> QED BY <1>1, <1>2, <1>3, <1>4, <1>5, <1>6

LEMMA CallsStep == CallsInv /\ [Next]_vars => CallsInv'
<1> SUFFICES ASSUME CallsInv, [Next]_vars PROVE CallsInv'
  OBVIOUS
<1>t. SendTypes'
  BY TypesStep DEF CallsInv
<1>1. CASE UNCHANGED vars
  BY <1>1, <1>t, BystanderCalls DEF vars
<1>2. ASSUME NEW s \in Senders, SendStep(s) PROVE CallsInv'
  BY <1>2, <1>t, StartSendCalls, ClaimCalls, AuditClaimCalls, CallProviderCalls, GetReplyCalls,
     SettleCalls, AuditSettledCalls, QuitSteps, QuitCalls
     DEF SendStep
<1> QED BY <1>1, <1>2, <1>t, IssueCalls, OtherCalls, ProviderDecidesCalls DEF Next

LEMMA CallsInit == Init => CallsInv
<1> SUFFICES ASSUME Init PROVE CallsInv
  OBVIOUS
<1>1. FreshOps /\ SenderOps /\ OneSenderPerOp
  BY DEF Init, FreshOps, SenderOps, OneSenderPerOp, Idle
<1>2. RequestOps /\ IssueAudited /\ SettlementsAreTrue
  BY DEF Init, RequestOps, IssueAudited, SettlementsAreTrue
<1> QED BY <1>1, <1>2, TypesInit DEF CallsInv

\* Whatever operators do, a call works under an operation of its own, and what
\* it has the provider do and the audit say is licensed and true.
THEOREM CallsKeepTheirWord == Spec => []CallsInv
BY CallsInit, CallsStep, PTL DEF Spec

-----------------------------------------------------------------------------
(* Everything a step relies on, when operators settle what they checked *)

LEMMA IssueInv ==
    ASSUME SendInv, CallsInv', NEW a \in Approvals, IssueStep(a)
    PROVE  SendInv'
<1> USE DEF SendInv, CallsInv, SendTypes
<1>1. CASE Issue(a)
  BY <1>1 DEF Issue, RowOps, LiveOps, Held, RecOps, LedgerOps, LedgerIsTrue, MayLand, VerdictHolds
<1>2. CASE AuditIssue(a)
  BY <1>2 DEF AuditIssue, RowOps, LiveOps, RecOps, LedgerOps, LedgerIsTrue, MayLand, VerdictHolds
<1>3. CASE AuditIssueFails(a)
  BY <1>3 DEF AuditIssueFails, RowOps, LiveOps, RecOps, LedgerOps, LedgerIsTrue, MayLand,
       VerdictHolds
<1>4. CASE UndoIssue(a)
  <2>a. UNCHANGED <<send, owner, fate, rec, ledger>>
    BY <1>4 DEF UndoIssue
  <2>b. \/ row' = row
        \/ /\ row[a].status = "issued" /\ row'[a].status = "expired"
           /\ row'[a].op = row[a].op /\ \A b \in Approvals : b # a => row'[b] = row[b]
    BY <1>4, RowUpdate DEF UndoIssue, Status
  <2>1. RowOps' /\ LiveOps'
    BY <2>a, <2>b DEF RowOps, LiveOps, MayLand, Held
  <2>2. RecOps'
    <3>1. \A v, p : VerdictHolds(v, p)' <=> VerdictHolds(v, p)
      BY <2>a DEF VerdictHolds, MayLand
    <3> QED BY <2>a, <3>1 DEF RecOps
  <2>3. LedgerOps' /\ LedgerIsTrue'
    BY <2>a DEF LedgerOps, LedgerIsTrue, MayLand, VerdictHolds
  <2> QED BY <2>1, <2>2, <2>3
<1> QED BY <1>1, <1>2, <1>3, <1>4 DEF IssueStep

LEMMA ClockInv ==
    ASSUME SendInv, CallsInv', NEW a \in Approvals, Lapse(a) \/ BecomeDue(a)
    PROVE  SendInv'
BY DEF Lapse, BecomeDue, SendInv, RowOps, LiveOps, RecOps, LedgerOps, LedgerIsTrue, MayLand,
       VerdictHolds

LEMMA StartSendInv ==
    ASSUME SendInv, CallsInv', NEW s \in Senders, NEW a \in Approvals, NEW m \in Messages,
           StartSend(s, a, m)
    PROVE  SendInv'
<1> USE DEF SendInv, CallsInv, SendTypes
<1>1. RowOps' /\ LedgerOps'
  BY DEF StartSend, RowOps, LedgerOps
<1>2. LiveOps'
  BY DEF StartSend, LiveOps, MayLand
<1>3. RecOps'
  BY DEF StartSend, RecOps, MayLand, VerdictHolds
<1>4. LedgerIsTrue'
  BY DEF StartSend, LedgerIsTrue, MayLand, VerdictHolds
<1> QED BY <1>1, <1>2, <1>3, <1>4

LEMMA QuitInv ==
    ASSUME SendInv, CallsInv', NEW s \in Senders, Quits(s)
    PROVE  SendInv'
<1> USE DEF SendInv, CallsInv, SendTypes
<1>1. RowOps' /\ LedgerOps'
  BY DEF Quits, RowOps, LedgerOps
<1>2. LiveOps'
  BY DEF Quits, LiveOps, MayLand, Idle
<1>3. RecOps'
  BY DEF Quits, RecOps, MayLand, VerdictHolds, Idle
<1>4. LedgerIsTrue'
  BY DEF Quits, LedgerIsTrue, MayLand, VerdictHolds, Idle
<1> QED BY <1>1, <1>2, <1>3, <1>4

LEMMA ExpireOnBeginInv ==
    ASSUME SendInv, CallsInv', NEW s \in Senders, ExpireOnBegin(s)
    PROVE  SendInv'
<1> USE DEF SendInv, CallsInv, SendTypes
<1>1. RowOps' /\ LedgerOps'
  BY DEF ExpireOnBegin, RowOps, LedgerOps
<1>2. LiveOps'
  BY DEF ExpireOnBegin, LiveOps, Held, MayLand, Idle
<1>3. RecOps'
  BY DEF ExpireOnBegin, RecOps, MayLand, VerdictHolds, Idle
<1>4. LedgerIsTrue'
  BY DEF ExpireOnBegin, LedgerIsTrue, MayLand, VerdictHolds, Idle
<1> QED BY <1>1, <1>2, <1>3, <1>4

LEMMA ClaimInv ==
    ASSUME SendInv, CallsInv', NEW s \in Senders, NEW o \in Operations, Claim(s, o)
    PROVE  SendInv'
<1> USE DEF SendInv, CallsInv, SendTypes
<1>1. RowOps'
  BY DEF Claim, RowOps, TypeOK
<1>2. LiveOps'
  BY DEF Claim, Claimable, ClaimHolds, LiveOps, Held, MayLand, TypeOK
<1>3. RecOps'
  <2>1. \A p \in Operations : MayLand(p)' => MayLand(p) \/ p = o
    BY DEF Claim, MayLand
  <2>2. \A r \in Reconcilers : rec[r].pc # "idle" => rec[r].seen \in Operations /\ rec[r].seen # o
    BY DEF Claim, RecOps, RecShape
  <2> QED BY <2>1, <2>2 DEF Claim, RecOps, VerdictHolds, TypeOK
<1>4. LedgerOps'
  BY DEF Claim, LedgerOps, TypeOK, SenderShape
<1>5. LedgerIsTrue'
  <2>1. \A p \in Operations : MayLand(p)' => MayLand(p) \/ p = o
    BY DEF Claim, MayLand
  <2>2. \A l \in ledger : l.operation # o
    BY DEF Claim, LedgerOps
  <2> QED BY <2>1, <2>2 DEF Claim, LedgerIsTrue, VerdictHolds, TypeOK
<1> QED BY <1>1, <1>2, <1>3, <1>4, <1>5

LEMMA AuditClaimInv ==
    ASSUME SendInv, CallsInv', NEW s \in Senders, AuditClaim(s)
    PROVE  SendInv'
<1> USE DEF SendInv, CallsInv, SendTypes
<1>1. RowOps' /\ LedgerOps'
  BY DEF AuditClaim, RowOps, LedgerOps
<1>2. LiveOps'
  BY DEF AuditClaim, LiveOps, MayLand
<1>3. RecOps'
  BY DEF AuditClaim, RecOps, MayLand, VerdictHolds
<1>4. LedgerIsTrue'
  BY DEF AuditClaim, LedgerIsTrue, MayLand, VerdictHolds
<1> QED BY <1>1, <1>2, <1>3, <1>4

LEMMA CallProviderInv ==
    ASSUME SendInv, CallsInv', NEW s \in Senders, CallProvider(s)
    PROVE  SendInv'
<1> USE DEF SendInv, CallsInv, SendTypes
<1> DEFINE o == send[s].op
<1>a. /\ send[s].pc = "cleared" /\ send'[s].pc = "waiting" /\ send'[s].op = o
      /\ \A t \in Senders : t # s => send'[t] = send[t]
  BY PcUpdate DEF CallProvider
<1>b. /\ o \in Operations /\ fate[o] = "none" /\ fate'[o] = "pending"
      /\ \A p \in Operations : p # o => fate'[p] = fate[p]
  <2>1. o \in Operations
    BY <1>a DEF SenderShape
  <2>2. fate[o] = "none"
    BY <1>a DEF SenderOps
  <2>3. fate' = [fate EXCEPT ![o] = "pending"]
    BY DEF CallProvider
  <2> QED BY <2>1, <2>2, <2>3 DEF TypeOK
<1>c. \A p \in Operations : MayLand(p)' <=> MayLand(p)
  BY <1>a, <1>b DEF MayLand
<1>d. UNCHANGED <<row, owner, rec, ledger>>
  BY DEF CallProvider
<1> HIDE DEF o
<1>1. RowOps'
  BY <1>b, <1>d DEF RowOps, RowShape
<1>2. LiveOps'
  BY <1>c, <1>d DEF LiveOps
<1>3. RecOps'
  BY <1>b, <1>c, <1>d DEF RecOps, RecShape, VerdictHolds
<1>4. LedgerOps' /\ LedgerIsTrue'
  BY <1>b, <1>c, <1>d DEF LedgerOps, LedgerIsTrue, VerdictHolds, TypeOK
<1> QED BY <1>1, <1>2, <1>3, <1>4

LEMMA ProviderDecidesInv ==
    ASSUME SendInv, CallsInv', NEW o \in Operations, ProviderDecides(o)
    PROVE  SendInv'
<1> USE DEF SendInv, CallsInv, SendTypes
<1>1. RowOps' /\ LedgerOps'
  BY DEF ProviderDecides, RowOps, LedgerOps
<1>2. LiveOps'
  BY DEF ProviderDecides, LiveOps, MayLand
<1>3. RecOps'
  BY DEF ProviderDecides, RecOps, MayLand, VerdictHolds
<1>4. LedgerIsTrue'
  BY DEF ProviderDecides, LedgerIsTrue, MayLand, VerdictHolds
<1> QED BY <1>1, <1>2, <1>3, <1>4

LEMMA GetReplyInv ==
    ASSUME SendInv, CallsInv', NEW s \in Senders, GetReply(s)
    PROVE  SendInv'
<1> USE DEF SendInv, CallsInv, SendTypes
<1>a. /\ send'[s].pc = "settling" /\ send'[s].op = send[s].op /\ send[s].pc = "waiting"
      /\ \A t \in Senders : t # s => send'[t] = send[t]
  <2>1. /\ send' = [send EXCEPT ![s] = [send[s] EXCEPT !.pc = "settling",
                                    !.reply = AnswerTo(fate[send[s].op])]]
        /\ send[s] \in SenderState /\ send[s].pc = "waiting"
    BY DEF GetReply, TypeOK
  <2> QED BY <2>1 DEF TypeOK, SenderState
<1>b. \A p \in Operations : MayLand(p)' <=> MayLand(p)
  BY <1>a DEF GetReply, MayLand
<1>c. UNCHANGED <<row, owner, fate, rec, ledger>>
  BY DEF GetReply
<1>1. RowOps' /\ LiveOps'
  BY <1>b, <1>c DEF RowOps, LiveOps
<1>2. RecOps'
  BY <1>b, <1>c DEF RecOps, RecShape, VerdictHolds
<1>3. LedgerOps' /\ LedgerIsTrue'
  BY <1>b, <1>c DEF LedgerOps, LedgerIsTrue, VerdictHolds, TypeOK
<1> QED BY <1>1, <1>2, <1>3

LEMMA SettleInv ==
    ASSUME SendInv, CallsInv', NEW s \in Senders, Settle(s)
    PROVE  SendInv'
<1> USE DEF SendInv, CallsInv, SendTypes
<1> DEFINE a == send[s].approval
           x == OutcomeOf(send[s].reply)
<1>a. /\ send[s].pc = "settling" /\ send'[s].pc = "settled" /\ send'[s].op = send[s].op
      /\ \A t \in Senders : t # s => send'[t] = send[t]
  BY PcUpdate DEF Settle
<1>b. /\ a \in Approvals /\ send[s].op \in Operations
      /\ row[a].status = "sending" /\ row[a].op = send[s].op
      /\ row' = [row EXCEPT ![a].status = x]
      /\ UNCHANGED <<owner, fate, rec, ledger>>
  BY DEF Settle, SettleHolds, SenderShape
<1>c. /\ x \in {"sent", "failed_terminal"} /\ x \in Status
      /\ x = "sent" => fate[send[s].op] = "delivered"
  <2>1. send[s].reply \in Reply /\ send[s].reply = AnswerTo(fate[send[s].op])
    BY <1>a DEF SenderShape, SenderOps
  <2> QED BY <2>1 DEF OutcomeOf, ClassifySendError, Reply, Status, AnswerTo
<1> HIDE DEF a, x
<1>d. /\ row'[a].status = x /\ row'[a].op = send[s].op
      /\ \A b \in Approvals : b # a => row'[b] = row[b]
  BY <1>b, <1>c, RowUpdate
<1>e. \A p \in Operations : MayLand(p)' <=> MayLand(p)
  BY <1>a, <1>b DEF MayLand
<1>1. RowOps'
  BY <1>b, <1>c, <1>d DEF RowOps
<1>2. LiveOps'
  BY <1>b, <1>c, <1>d, <1>e DEF LiveOps, Held
<1>3. RecOps'
  BY <1>b, <1>e DEF RecOps, RecShape, VerdictHolds
<1>4. LedgerOps' /\ LedgerIsTrue'
  BY <1>b, <1>e DEF LedgerOps, LedgerIsTrue, VerdictHolds, TypeOK
<1> QED BY <1>1, <1>2, <1>3, <1>4

LEMMA AuditSettledInv ==
    ASSUME SendInv, CallsInv', NEW s \in Senders, AuditSettled(s)
    PROVE  SendInv'
<1> USE DEF SendInv, CallsInv, SendTypes
<1>1. RowOps' /\ LedgerOps'
  BY DEF AuditSettled, RowOps, LedgerOps
<1>2. LiveOps'
  BY DEF AuditSettled, LiveOps, MayLand, Idle
<1>3. RecOps'
  BY DEF AuditSettled, RecOps, MayLand, VerdictHolds, Idle
<1>4. LedgerIsTrue'
  BY DEF AuditSettled, LedgerIsTrue, MayLand, VerdictHolds, Idle
<1> QED BY <1>1, <1>2, <1>3, <1>4

\* A step that only an operator sees.
LEMMA OperatorKeeps ==
    ASSUME SendInv, UNCHANGED <<row, send, owner, fate, ledger>>
    PROVE  RowOps' /\ LiveOps' /\ LedgerOps' /\ LedgerIsTrue'
BY DEF SendInv, RowOps, LiveOps, LedgerOps, LedgerIsTrue, MayLand, VerdictHolds

LEMMA ListInv ==
    ASSUME SendInv, CallsInv', NEW r \in Reconcilers, NEW a \in Approvals, List(r, a)
    PROVE  SendInv'
<1> USE DEF SendInv, CallsInv, SendTypes
<1>1. RowOps' /\ LiveOps' /\ LedgerOps' /\ LedgerIsTrue'
  BY OperatorKeeps DEF List
<1>2. RecOps'
  BY DEF List, RecOps, RowOps, MayLand, VerdictHolds, RowShape
<1> QED BY <1>1, <1>2

LEMMA CheckProviderInv ==
    ASSUME SendInv, CallsInv', NEW r \in Reconcilers, NEW v \in Verdict, CheckProvider(r, v)
    PROVE  SendInv'
<1> USE DEF SendInv, CallsInv, SendTypes
<1>1. RowOps' /\ LiveOps' /\ LedgerOps' /\ LedgerIsTrue'
  BY OperatorKeeps DEF CheckProvider
<1>2. RecOps'
  BY DEF CheckProvider, RecOps, MayLand, VerdictHolds
<1> QED BY <1>1, <1>2

LEMMA RecReadInv ==
    ASSUME SendInv, CallsInv', NEW r \in Reconcilers, RecRead(r)
    PROVE  SendInv'
<1> USE DEF SendInv, CallsInv, SendTypes
<1>1. RowOps' /\ LiveOps' /\ LedgerOps' /\ LedgerIsTrue'
  BY OperatorKeeps DEF RecRead
<1>2. RecOps'
  <2> DEFINE a == rec[r].approval
  <2>1. /\ rec[r].pc = "checked" /\ rec[r] \in RecState
        /\ \A t \in Reconcilers : t # r => rec'[t] = rec[t]
        /\ UNCHANGED <<row, owner, fate, send>>
    BY DEF RecRead, TypeOK
  <2>2. \/ rec'[r] = RecIdle
        \/ rec'[r] = [rec[r] EXCEPT !.pc = "read", !.op = row[a].op]
    BY DEF RecRead, TypeOK
  <2>3. CASE rec'[r] = RecIdle
    BY <2>1, <2>3 DEF RecOps, RecIdle, VerdictHolds, MayLand
  <2>4. CASE rec'[r] = [rec[r] EXCEPT !.pc = "read", !.op = row[a].op]
    <3>1. /\ rec'[r].pc = "read" /\ rec'[r].op = row[a].op
          /\ rec'[r].approval = a /\ rec'[r].seen = rec[r].seen
          /\ rec'[r].verdict = rec[r].verdict
      BY <2>1, <2>4 DEF RecState
    <3> QED BY <2>1, <3>1 DEF RecOps, VerdictHolds, MayLand
  <2> QED BY <2>2, <2>3, <2>4
<1> QED BY <1>1, <1>2

LEMMA RecSettleInv ==
    ASSUME SendInv, CallsInv', NEW r \in Reconcilers, RecSettle(r), SettlesWhatWasChecked
    PROVE  SendInv'
<1> USE DEF SendInv, CallsInv, SendTypes
<1> DEFINE a == rec[r].approval
           o == rec[r].op
           x == ReconciledStatus(rec[r].verdict)
<1>a. /\ rec[r].pc = "read" /\ rec'[r].pc = "settled" /\ rec'[r].op = o
      /\ rec'[r].approval = a /\ rec'[r].seen = rec[r].seen
      /\ rec'[r].verdict = rec[r].verdict
      /\ \A t \in Reconcilers : t # r => rec'[t] = rec[t]
  BY RecPcUpdate DEF RecSettle
<1>b. /\ a \in Approvals /\ o \in Operations /\ rec[r].verdict \in Verdict
      /\ row[a].status = "sending" /\ row[a].op = o
      /\ row' = [row EXCEPT ![a].status = x]
      /\ UNCHANGED <<issue, owner, fate, send, audit, ledger>>
  BY DEF RecSettle, SettleHolds, RecShape
<1>c. /\ x \in {"sent", "failed_retryable"} /\ x \in Status
      /\ x = "sent" => fate[o] = "delivered"
      /\ x = "failed_retryable" => ~ MayLand(o)
  <2>1. VerdictHolds(rec[r].verdict, o)
    BY <1>a DEF RecOps, SettlesWhatWasChecked
  <2> QED BY <1>b, <2>1 DEF VerdictHolds, ReconciledStatus, Verdict, Status
<1> HIDE DEF o, x
<1>d. /\ row'[a].status = x /\ row'[a].op = o
      /\ \A b \in Approvals : b # a => row'[b] = row[b]
  BY <1>b, <1>c, RowUpdate
<1>e. \A p \in Operations : MayLand(p)' <=> MayLand(p)
  BY <1>b DEF MayLand
<1>1. RowOps'
  BY <1>b, <1>c, <1>d DEF RowOps
<1>2. LiveOps'
  BY <1>b, <1>c, <1>d, <1>e DEF LiveOps, Held
<1>3. LedgerOps' /\ LedgerIsTrue'
  BY <1>b, <1>e DEF LedgerOps, LedgerIsTrue, VerdictHolds, TypeOK
<1>4. RecOps'
  <2>1. \A v, p : VerdictHolds(v, p)' <=> VerdictHolds(v, p)
    BY <1>b, <1>e DEF VerdictHolds, MayLand
  <2>2. \A t \in Reconcilers :
          /\ rec'[t].seen = rec[t].seen /\ rec'[t].approval = rec[t].approval
          /\ rec'[t].verdict = rec[t].verdict
          /\ rec'[t].pc # "idle" => rec[t].pc # "idle"
          /\ rec'[t].pc # "listed" => rec[t].pc # "listed"
    BY <1>a
  <2> QED BY <1>b, <2>1, <2>2 DEF RecOps
<1> QED BY <1>1, <1>2, <1>3, <1>4

LEMMA RecRecordInv ==
    ASSUME SendInv, CallsInv', NEW r \in Reconcilers, RecRecord(r), SettlesWhatWasChecked
    PROVE  SendInv'
<1> USE DEF SendInv, CallsInv, SendTypes
<1>1. RowOps' /\ LiveOps'
  BY DEF RecRecord, RowOps, LiveOps, MayLand
<1>2. LedgerOps'
  <2>1. owner[rec[r].op] # None
    BY NoneAssumption DEF RecRecord, RecShape, RecOps, SettlesWhatWasChecked
  <2> QED BY <2>1 DEF RecRecord, LedgerOps
<1>3. RecOps'
  BY DEF RecRecord, RecOps, MayLand, VerdictHolds
<1>4. LedgerIsTrue'
  BY DEF RecRecord, LedgerIsTrue, RecOps, SettlesWhatWasChecked, MayLand, VerdictHolds, RecIdle
<1> QED BY <1>1, <1>2, <1>3, <1>4

LEMMA RecAuditInv ==
    ASSUME SendInv, CallsInv', NEW r \in Reconcilers, RecAudit(r)
    PROVE  SendInv'
<1> USE DEF SendInv, CallsInv, SendTypes
<1>1. RowOps' /\ LiveOps' /\ LedgerOps' /\ LedgerIsTrue'
  BY OperatorKeeps DEF RecAudit
<1>2. RecOps'
  BY DEF RecAudit, RecOps, MayLand, VerdictHolds, RecIdle
<1> QED BY <1>1, <1>2

LEMMA RecQuitInv ==
    ASSUME SendInv, CallsInv', NEW r \in Reconcilers, RecQuits(r)
    PROVE  SendInv'
<1> USE DEF SendInv, CallsInv, SendTypes
<1>1. RowOps' /\ LiveOps' /\ LedgerOps' /\ LedgerIsTrue'
  BY OperatorKeeps DEF RecQuits
<1>2. RecOps'
  BY DEF RecQuits, RecOps, MayLand, VerdictHolds, RecIdle
<1> QED BY <1>1, <1>2

LEMMA InvalidateInv ==
    ASSUME SendInv, CallsInv', NEW c \in Connections, InvalidateForConnection(c)
    PROVE  SendInv'
<1> USE DEF SendInv, CallsInv, SendTypes
<1>a. \A b \in Approvals :
         /\ row'[b].op = row[b].op
         /\ \/ row'[b].status = row[b].status
            \/ /\ row[b].status \in {"issued", "sending"}
               /\ row'[b].status = "failed_terminal"
  <2> SUFFICES ASSUME NEW b \in Approvals
               PROVE  /\ row'[b].op = row[b].op
                      /\ \/ row'[b].status = row[b].status
                         \/ /\ row[b].status \in {"issued", "sending"}
                            /\ row'[b].status = "failed_terminal"
    OBVIOUS
  <2>1. row[b] \in Row
    BY DEF TypeOK
  <2>2. row'[b] = IF ConnOf[b] = c /\ row[b].status \in {"issued", "sending"}
                  THEN [row[b] EXCEPT !.status = "failed_terminal"] ELSE row[b]
    BY DEF InvalidateForConnection, Invalidated
  <2>3. [row[b] EXCEPT !.status = "failed_terminal"].op = row[b].op
        /\ [row[b] EXCEPT !.status = "failed_terminal"].status = "failed_terminal"
    BY <2>1 DEF Row
  <2> QED BY <2>2, <2>3
<1>1. RowOps'
  BY <1>a DEF InvalidateForConnection, RowOps
<1>2. LiveOps'
  BY <1>a DEF InvalidateForConnection, LiveOps, Held, MayLand
<1>3. RecOps'
  BY DEF InvalidateForConnection, RecOps, MayLand, VerdictHolds
<1>4. LedgerOps' /\ LedgerIsTrue'
  BY DEF InvalidateForConnection, LedgerOps, LedgerIsTrue, MayLand, VerdictHolds
<1> QED BY <1>1, <1>2, <1>3, <1>4

LEMMA InvStep == SettlesWhatWasChecked /\ SendInv /\ [Next]_vars => SendInv'
<1> SUFFICES ASSUME SettlesWhatWasChecked, SendInv, [Next]_vars PROVE SendInv'
  OBVIOUS
<1>t. CallsInv'
  BY CallsStep DEF SendInv
<1>1. CASE UNCHANGED vars
  BY <1>1, <1>t DEF vars, SendInv, RowOps, LiveOps, RecOps, LedgerOps, LedgerIsTrue, MayLand,
                    VerdictHolds
<1>2. ASSUME NEW a \in Approvals, IssueStep(a) \/ Lapse(a) \/ BecomeDue(a) PROVE SendInv'
  BY <1>2, <1>t, IssueInv, ClockInv
<1>3. ASSUME NEW s \in Senders, SendStep(s) PROVE SendInv'
  BY <1>3, <1>t, StartSendInv, ExpireOnBeginInv, ClaimInv, AuditClaimInv, CallProviderInv,
     GetReplyInv, SettleInv, AuditSettledInv, QuitSteps, QuitInv
     DEF SendStep
<1>4. ASSUME NEW r \in Reconcilers, RecStep(r) PROVE SendInv'
  <2>1. RecAbandon(r) => RecQuits(r)
    BY DEF RecAbandon, RecQuits
  <2> QED BY <1>4, <1>t, <2>1, ListInv, CheckProviderInv, RecReadInv, RecSettleInv,
             RecRecordInv, RecAuditInv, RecQuitInv DEF RecStep
<1>5. ASSUME NEW o \in Operations, ProviderDecides(o) PROVE SendInv'
  BY <1>5, <1>t, ProviderDecidesInv
<1>6. ASSUME NEW c \in Connections, InvalidateForConnection(c) PROVE SendInv'
  BY <1>6, <1>t, InvalidateInv
<1> QED BY <1>1, <1>2, <1>3, <1>4, <1>5, <1>6 DEF Next

LEMMA InvInit == Init => SendInv
<1> SUFFICES ASSUME Init PROVE SendInv
  OBVIOUS
<1>1. \A o \in Operations : ~ MayLand(o)
  BY DEF Init, MayLand, Idle
<1>2. RowOps /\ LiveOps
  BY <1>1 DEF Init, RowOps, LiveOps
<1>3. RecOps /\ LedgerOps /\ LedgerIsTrue
  BY DEF Init, RecOps, LedgerOps, LedgerIsTrue, RecIdle
<1> QED BY <1>2, <1>3, CallsInit DEF SendInv

\* As long as operators settle what they checked, everything a step relies on
\* holds in every state.
THEOREM Invariance == Spec /\ []SettlesWhatWasChecked => []SendInv
BY InvInit, InvStep, PTL DEF Spec

-----------------------------------------------------------------------------
(* One operator per approval settles what he checked *)

\* Only an operator takes a row out of Held, or another operation into one.
LEMMA HeldStaysHeld ==
    ASSUME SendTypes, NEW a \in Approvals, row[a].status \in Held, [Next]_vars,
           \A r \in Reconcilers : RecSettle(r) => rec[r].approval # a
    PROVE  row'[a].op = row[a].op /\ row'[a].status \in Held
<1> USE DEF SendTypes
<1>1. CASE UNCHANGED row
  BY <1>1
<1>2. ASSUME NEW b \in Approvals, NEW x \in Status, row' = [row EXCEPT ![b].status = x],
             b = a => x \in Held
      PROVE  row'[a].op = row[a].op /\ row'[a].status \in Held
  BY <1>2, RowUpdate
<1>3. ASSUME NEW b \in Approvals, IssueStep(b) \/ Lapse(b) \/ BecomeDue(b)
      PROVE  row'[a].op = row[a].op /\ row'[a].status \in Held
  <2>1. CASE Issue(b)
    BY <1>2, <2>1 DEF Issue, Held, Status
  <2>2. CASE UndoIssue(b)
    BY <1>1, <1>2, <2>2 DEF UndoIssue, Held, Status
  <2>3. CASE ~ Issue(b) /\ ~ UndoIssue(b)
    BY <1>1, <1>3, <2>3 DEF IssueStep, AuditIssue, AuditIssueFails, Lapse, BecomeDue
  <2> QED BY <2>1, <2>2, <2>3
<1>4. ASSUME NEW s \in Senders, SendStep(s)
      PROVE  row'[a].op = row[a].op /\ row'[a].status \in Held
  <2>1. CASE ExpireOnBegin(s)
    <3>1. send[s].approval \in Approvals /\ "expired" \in Status
      BY <2>1 DEF ExpireOnBegin, SenderShape, Status
    <3> QED BY <1>1, <1>2, <2>1, <3>1 DEF ExpireOnBegin, Held
  <2>2. ASSUME NEW o \in Operations, Claim(s, o)
        PROVE  row'[a].op = row[a].op /\ row'[a].status \in Held
    BY <2>2 DEF Claim, ClaimHolds, Claimable, Held, TypeOK
  <2>3. CASE Settle(s)
    <3>1. /\ send[s].approval \in Approvals /\ send[s].reply \in Reply
          /\ row' = [row EXCEPT ![send[s].approval].status = OutcomeOf(send[s].reply)]
      BY <2>3 DEF Settle, SenderShape
    <3>2. OutcomeOf(send[s].reply) \in Status \cap Held
      BY <3>1 DEF OutcomeOf, ClassifySendError, Reply, Status, Held
    <3> QED BY <1>2, <3>1, <3>2
  <2>4. CASE ~ ExpireOnBegin(s) /\ ~ Settle(s) /\ \A o \in Operations : ~ Claim(s, o)
    BY <1>1, <1>4, <2>4 DEF SendStep, StartSend, RefuseSend, LoseClaim, AuditClaim, CallProvider,
         GetReply, SettleRefused, AuditSettled, Abandon
  <2> QED BY <2>1, <2>2, <2>3, <2>4
<1>5. ASSUME NEW r \in Reconcilers, RecStep(r)
      PROVE  row'[a].op = row[a].op /\ row'[a].status \in Held
  <2>1. CASE RecSettle(r)
    <3>1. /\ rec[r].approval \in Approvals /\ rec[r].approval # a
          /\ ReconciledStatus(rec[r].verdict) \in Status
      BY <2>1 DEF RecSettle, RecShape, ReconciledStatus, Status
    <3> QED BY <1>2, <2>1, <3>1 DEF RecSettle
  <2>2. CASE ~ RecSettle(r)
    BY <1>1, <1>5, <2>2 DEF RecStep, List, CheckProvider, RecRead, RecRecord, RecAudit, RecAbandon
  <2> QED BY <2>1, <2>2
<1>6. ASSUME NEW c \in Connections, InvalidateForConnection(c)
      PROVE  row'[a].op = row[a].op /\ row'[a].status \in Held
  BY <1>6 DEF InvalidateForConnection, Held, TypeOK, Row
<1>7. ASSUME NEW o \in Operations, ProviderDecides(o) PROVE UNCHANGED row
  BY <1>7 DEF ProviderDecides
<1> QED BY <1>1, <1>3, <1>4, <1>5, <1>6, <1>7 DEF Next, vars

LEMMA OperatorStep == OneOperatorPerApproval /\ OperatorInv /\ [Next]_vars => OperatorInv'
<1> SUFFICES ASSUME OneOperatorPerApproval, OperatorInv, [Next]_vars PROVE OperatorInv'
  OBVIOUS
<1> USE DEF OperatorInv
<1>1. SendTypes'
  BY TypesStep
<1>2. \A r \in Reconcilers : rec[r].pc \in Reconciling => rec[r].approval \in Approvals
  BY DEF SendTypes, RecShape, Reconciling
<1>3. ASSUME NEW r \in Reconcilers, rec[r].pc \in Reconciling, ~ RecSettle(r)
      PROVE  /\ row'[rec[r].approval].op = rec[r].seen
             /\ row'[rec[r].approval].status \in Held
  <2>1. \A q \in Reconcilers : RecSettle(q) => rec[q].approval # rec[r].approval
    BY <1>3 DEF OneOperatorPerApproval, RecSettle, Reconciling
  <2> QED BY <1>2, <1>3, <2>1, HeldStaysHeld DEF OperatorRows
<1>4. ASSUME NEW r \in Reconcilers, rec'[r] = rec[r]
      PROVE  /\ rec'[r].pc \in Reconciling =>
                  /\ row'[rec'[r].approval].op = rec'[r].seen
                  /\ row'[rec'[r].approval].status \in Held
             /\ rec'[r].pc \in {"read", "settled", "recorded"} => rec'[r].op = rec'[r].seen
  <2>1. ~ RecSettle(r)
    BY <1>4, RecPcUpdate DEF RecSettle, SendTypes
  <2> QED BY <1>3, <1>4, <2>1 DEF SettlesWhatWasChecked
<1>5. ASSUME NEW r \in Reconcilers, RecStep(r)
      PROVE  /\ rec'[r].pc \in Reconciling =>
                  /\ row'[rec'[r].approval].op = rec'[r].seen
                  /\ row'[rec'[r].approval].status \in Held
             /\ rec'[r].pc \in {"read", "settled", "recorded"} => rec'[r].op = rec'[r].seen
  <2> USE DEF SendTypes
  <2>1. ASSUME NEW a \in Approvals, List(r, a)
        PROVE  /\ rec'[r].pc = "listed" /\ rec'[r].approval = a /\ rec'[r].seen = row[a].op
               /\ row' = row /\ row[a].status = "sending"
    BY <2>1 DEF List, RowShape, TypeOK, RecState, RecIdle
  <2>2. ASSUME NEW v \in Verdict, CheckProvider(r, v)
        PROVE  /\ rec'[r].pc = "checked" /\ rec'[r].approval = rec[r].approval
               /\ rec'[r].seen = rec[r].seen
               /\ row' = row /\ rec[r].pc = "listed"
    BY <2>2 DEF CheckProvider, TypeOK, RecState
  <2>3. ASSUME RecRead(r)
        PROVE  /\ row' = row /\ rec[r].pc = "checked"
               /\ \/ rec'[r].pc = "idle"
                  \/ /\ rec'[r].pc = "read" /\ rec'[r].approval = rec[r].approval
                     /\ rec'[r].seen = rec[r].seen
                     /\ rec'[r].op = row[rec[r].approval].op
    BY <2>3 DEF RecRead, TypeOK, RecState, RecIdle
  <2>4. ASSUME RecSettle(r) \/ RecRecord(r)
        PROVE  /\ rec'[r].pc \in {"settled", "recorded"}
               /\ rec[r].pc \in {"read", "settled", "recorded"}
               /\ rec'[r].op = rec[r].op /\ rec'[r].seen = rec[r].seen
    BY <2>4, RecPcUpdate DEF RecSettle, RecRecord
  <2>5. ASSUME RecAudit(r) \/ RecAbandon(r)
        PROVE  rec'[r].pc = "idle"
    BY <2>5 DEF RecAudit, RecAbandon, TypeOK, RecIdle
  <2> QED BY <1>5, <2>1, <2>2, <2>3, <2>4, <2>5
           DEF RecStep, Reconciling, Held, OperatorRows, SettlesWhatWasChecked
<1>6. \A r \in Reconcilers : rec'[r] = rec[r] \/ RecStep(r)
  <2>1. ASSUME NEW q \in Reconcilers, RecStep(q), NEW r \in Reconcilers, r # q
        PROVE  rec'[r] = rec[r]
    BY <2>1 DEF RecStep, List, CheckProvider, RecRead, RecSettle, RecRecord, RecAudit, RecAbandon,
         SendTypes, TypeOK
  <2>2. ASSUME NEW b \in Approvals, IssueStep(b) \/ Lapse(b) \/ BecomeDue(b) PROVE UNCHANGED rec
    BY <2>2 DEF IssueStep, Issue, AuditIssue, AuditIssueFails, UndoIssue, Lapse, BecomeDue
  <2>3. ASSUME NEW s \in Senders, SendStep(s) PROVE UNCHANGED rec
    BY <2>3 DEF SendStep, StartSend, ExpireOnBegin, RefuseSend, LoseClaim, Claim, AuditClaim,
         CallProvider, GetReply, Settle, SettleRefused, AuditSettled, Abandon
  <2>4. ASSUME NEW o \in Operations, ProviderDecides(o) PROVE UNCHANGED rec
    BY <2>4 DEF ProviderDecides
  <2>5. ASSUME NEW c \in Connections, InvalidateForConnection(c) PROVE UNCHANGED rec
    BY <2>5 DEF InvalidateForConnection
  <2> QED BY <2>1, <2>2, <2>3, <2>4, <2>5 DEF Next, vars
<1>7. OperatorRows' /\ SettlesWhatWasChecked'
  BY <1>4, <1>5, <1>6 DEF OperatorRows, SettlesWhatWasChecked
<1> QED BY <1>1, <1>7

LEMMA OperatorInit == Init => OperatorInv
BY TypesInit DEF Init, OperatorInv, OperatorRows, SettlesWhatWasChecked, RecIdle, Reconciling

\* While no two operators work on one approval, the operation that reconcileSend
\* finds in the row is the one that was looked up: the hypothesis of the others.
THEOREM OneOperatorSuffices ==
    Spec /\ []OneOperatorPerApproval => []SettlesWhatWasChecked
<1>1. OperatorInv => SettlesWhatWasChecked
  BY DEF OperatorInv
<1> QED BY <1>1, OperatorInit, OperatorStep, PTL DEF Spec

-----------------------------------------------------------------------------
(* What follows from the invariants *)

LEMMA InvNoDoubleSend == SendInv => NoDoubleSend
BY DEF SendInv, LiveOps, NoDoubleSend

LEMMA InvRowsTellTheTruth == SendInv => RowsTellTheTruth
BY DEF SendInv, CallsInv, SendTypes, RowOps, LiveOps, Held, RowsTellTheTruth, Claimable

LEMMA InvAuditBeforeProvider == CallsInv => AuditBeforeProvider
<1> SUFFICES ASSUME CallsInv, NEW q \in requests
             PROVE  /\ <<"mail.approval.issued", q.approval>> \in audit
                    /\ <<"mail.approval.claimed", q.operation>> \in audit
  BY DEF AuditBeforeProvider
<1>1. q.approval \in Approvals
  BY DEF CallsInv, SendTypes, TypeOK, Request
<1> QED BY <1>1 DEF CallsInv, RequestOps, IssueAudited

\* One approval, one message, for any number of approvals, concurrent calls,
\* operation ids and operators, if these settle what they checked: the second
\* reading of the operation id in reconcileSend is all that can break it.
THEOREM OneMessagePerApproval == Spec /\ []SettlesWhatWasChecked => []NoDoubleSend
BY Invariance, InvNoDoubleSend, PTL

\* The rows never claim more than the provider did.
THEOREM RowsAreTrue == Spec /\ []SettlesWhatWasChecked => []RowsTellTheTruth
BY Invariance, InvRowsTellTheTruth, PTL

\* Nothing reaches the provider unaudited, whatever operators do.
THEOREM AuditedFirst == Spec => []AuditBeforeProvider
BY CallsKeepTheirWord, InvAuditBeforeProvider, PTL

\* What a call settles and audits is so, whatever operators do to its row.
THEOREM SettlementsTrue == Spec => []SettlementsAreTrue
<1>1. CallsInv => SettlementsAreTrue
  BY DEF CallsInv
<1> QED BY <1>1, CallsKeepTheirWord, PTL

\* Neither the settlement audit nor the reconciliation ledger ever states what
\* the provider did not do.
THEOREM LogsAreTrue == Spec /\ []SettlesWhatWasChecked => []LogsTellTheTruth
<1>1. SendInv => LogsTellTheTruth
  BY DEF SendInv, CallsInv, LogsTellTheTruth
<1> QED BY <1>1, Invariance, PTL

-----------------------------------------------------------------------------
(* A spent approval, for any number of operators *)

Spent == {"sent", "failed_terminal", "expired"}

LEMMA SpentStep ==
    ASSUME SendTypes, [Next]_vars, NEW a \in Approvals, row[a].status \in Spent
    PROVE  row'[a] = row[a]
<1> USE DEF SendTypes, Spent
<1>1. CASE UNCHANGED row
  BY <1>1
<1>2. ASSUME NEW b \in Approvals, Issue(b) PROVE row'[a] = row[a]
  BY <1>2, RowUpdate DEF Issue, Status
<1>3. ASSUME NEW b \in Approvals, UndoIssue(b) PROVE row'[a] = row[a]
  BY <1>3, RowUpdate DEF UndoIssue, Status
<1>4. ASSUME NEW s \in Senders, ExpireOnBegin(s) PROVE row'[a] = row[a]
  BY <1>4, RowUpdate DEF ExpireOnBegin, SenderShape, Status
<1>5. ASSUME NEW s \in Senders, NEW o \in Operations, Claim(s, o) PROVE row'[a] = row[a]
  BY <1>5 DEF Claim, ClaimHolds, Claimable, SenderShape, TypeOK
<1>6. ASSUME NEW s \in Senders, Settle(s) PROVE row'[a] = row[a]
  BY <1>6, a # send[s].approval DEF Settle, SettleHolds, SenderShape, TypeOK
<1>7. ASSUME NEW r \in Reconcilers, RecSettle(r) PROVE row'[a] = row[a]
  BY <1>7 DEF RecSettle, SettleHolds, RecShape, TypeOK
<1>8. ASSUME NEW c \in Connections, InvalidateForConnection(c) PROVE row'[a] = row[a]
  BY <1>8 DEF InvalidateForConnection, Invalidated
<1>9. CASE UNCHANGED vars
  BY <1>9 DEF vars
<1>10. ASSUME NEW b \in Approvals, IssueStep(b) \/ Lapse(b) \/ BecomeDue(b) PROVE row'[a] = row[a]
  BY <1>1, <1>2, <1>3, <1>10 DEF IssueStep, AuditIssue, AuditIssueFails, Lapse, BecomeDue
<1>11. ASSUME NEW s \in Senders, SendStep(s) PROVE row'[a] = row[a]
  BY <1>1, <1>4, <1>5, <1>6, <1>11
     DEF SendStep, StartSend, RefuseSend, LoseClaim, AuditClaim, CallProvider, GetReply,
         SettleRefused, AuditSettled, Abandon
<1>12. ASSUME NEW r \in Reconcilers, RecStep(r) PROVE row'[a] = row[a]
  BY <1>1, <1>7, <1>12 DEF RecStep, List, CheckProvider, RecRead, RecRecord,
       RecAudit, RecAbandon
<1> QED BY <1>1, <1>8, <1>9, <1>10, <1>11, <1>12 DEF Next, ProviderDecides

\* No late settlement, stale verdict or claim in flight moves a spent row,
\* however many operators reconcile at once.
THEOREM SpentIsFinal == Spec => SpentStaysSpent
<1>1. SendTypes /\ [Next]_vars =>
        [\A a \in Approvals :
            row[a].status \in {"sent", "failed_terminal", "expired"} => row'[a] = row[a]]_vars
  BY SpentStep DEF Spent
<1> QED BY <1>1, TypesInit, TypesStep, PTL DEF Spec, SpentStaysSpent

-----------------------------------------------------------------------------
(* What becomes of a message that may have landed: LandedSurfaces does not hold *)

\* A row that says sent, or that surfaces as one to reconcile.
Surfaced == {"sending", "sent"}

MessageOut(a) == \E o \in Operations : owner[o] = a /\ MayLand(o)

LEMMA SettleSurfaces ==
    ASSUME SendInv, NEW s \in Senders, Settle(s), MayLand(send[s].op)
    PROVE  row'[send[s].approval].status \in Surfaced
<1> USE DEF SendInv, CallsInv, SendTypes
<1> DEFINE o == send[s].op
<1>1. /\ send[s].pc = "settling" /\ o \in Operations /\ send[s].approval \in Approvals
      /\ send[s].reply \in Reply /\ send[s].reply = AnswerTo(fate[o])
  BY DEF Settle, SenderShape, SenderOps
<1>2. o # None
  BY <1>1, NoneAssumption
<1>3. \A t \in Senders : send[t].op = o => t = s
  BY <1>2 DEF OneSenderPerOp
<1>4. fate[o] \in {"pending", "delivered"}
  BY <1>1, <1>3 DEF MayLand
<1>5. send[s].reply = "ok"
  BY <1>1, <1>4, NoneAssumption DEF AnswerTo, Reply
<1>6. row' = [row EXCEPT ![send[s].approval].status = "sent"]
  BY <1>5 DEF Settle, OutcomeOf
<1> QED BY <1>1, <1>6, RowUpdate DEF Surfaced, Status

LEMMA RecSettleSurfaces ==
    ASSUME SendInv, SettlesWhatWasChecked, NEW r \in Reconcilers, RecSettle(r),
           MayLand(rec[r].op)
    PROVE  row'[rec[r].approval].status \in Surfaced
<1> USE DEF SendInv, CallsInv, SendTypes
<1>1. /\ rec[r].pc = "read" /\ rec[r].approval \in Approvals
      /\ rec[r].verdict \in Verdict /\ VerdictHolds(rec[r].verdict, rec[r].op)
  BY DEF RecSettle, RecShape, RecOps, SettlesWhatWasChecked
<1>2. row' = [row EXCEPT ![rec[r].approval].status = "sent"]
  BY <1>1 DEF RecSettle, VerdictHolds, ReconciledStatus
<1> QED BY <1>1, <1>2, RowUpdate DEF Surfaced, Status

LEMMA SurfacedStep ==
    ASSUME SendInv, SettlesWhatWasChecked, [Next]_vars, NEW a \in Approvals,
           MessageOut(a), row[a].status \in Surfaced, row'[a].status \notin Surfaced
    PROVE  InvalidateForConnection(ConnOf[a])
<1>0. /\ SendTypes /\ LiveOps
      /\ row'[a] # row[a] /\ row[a].status = "sending"
  BY SpentStep DEF SendInv, CallsInv, Surfaced, Spent
<1>1. PICK o \in Operations : MayLand(o) /\ row[a].op = o
  BY <1>0 DEF MessageOut, LiveOps
<1> USE DEF SendTypes
<1>2. ASSUME NEW b \in Approvals, IssueStep(b) \/ Lapse(b) \/ BecomeDue(b) PROVE FALSE
  BY <1>0, <1>2 DEF IssueStep, Issue, AuditIssue, AuditIssueFails, UndoIssue, Lapse,
                    BecomeDue, TypeOK
<1>3. ASSUME NEW s \in Senders, SendStep(s) PROVE FALSE
  <2>1. ASSUME Settle(s) PROVE FALSE
    <3>1. CASE send[s].approval # a
      BY <1>0, <2>1, <3>1 DEF Settle, TypeOK
    <3>2. CASE send[s].approval = a
      BY <1>1, <2>1, <3>2, SettleSurfaces DEF Settle, SettleHolds
    <3> QED BY <3>1, <3>2
  <2>2. ASSUME NEW o2 \in Operations, Claim(s, o2) PROVE FALSE
    BY <1>0, <2>2 DEF Claim, ClaimHolds, Claimable, TypeOK
  <2>3. ~ ExpireOnBegin(s)
    BY <1>0 DEF ExpireOnBegin, TypeOK
  <2> QED BY <1>0, <1>3, <2>1, <2>2, <2>3
     DEF SendStep, StartSend, RefuseSend, LoseClaim, AuditClaim, CallProvider, GetReply,
         SettleRefused, AuditSettled, Abandon
<1>4. ASSUME NEW r \in Reconcilers, RecStep(r) PROVE FALSE
  <2>1. ASSUME RecSettle(r) PROVE FALSE
    <3>1. CASE rec[r].approval # a
      BY <1>0, <2>1, <3>1 DEF RecSettle, TypeOK
    <3>2. CASE rec[r].approval = a
      BY <1>1, <2>1, <3>2, RecSettleSurfaces DEF RecSettle, SettleHolds
    <3> QED BY <3>1, <3>2
  <2> QED BY <1>0, <1>4, <2>1 DEF RecStep, List, CheckProvider, RecRead, RecRecord,
                                  RecAudit, RecAbandon
<1>5. PICK c \in Connections : InvalidateForConnection(c)
  BY <1>0, <1>2, <1>3, <1>4 DEF Next, ProviderDecides, vars
<1>6. ConnOf[a] = c
  BY <1>0, <1>5 DEF InvalidateForConnection, TypeOK
<1> QED BY <1>5, <1>6

\* A message that landed, or may yet land, is on record as sent or surfaces for
\* reconciliation until a disconnect of its connection takes its row away: no
\* settlement, late or retried, and no verdict does.
THEOREM OnlyDisconnectsHide ==
    Spec /\ []SettlesWhatWasChecked =>
        [][\A a \in Approvals :
             MessageOut(a) /\ row[a].status \in Surfaced /\ row'[a].status \notin Surfaced
             => InvalidateForConnection(ConnOf[a])]_vars
<1>1. SendInv /\ SettlesWhatWasChecked /\ [Next]_vars =>
        [\A a \in Approvals :
           MessageOut(a) /\ row[a].status \in Surfaced /\ row'[a].status \notin Surfaced
           => InvalidateForConnection(ConnOf[a])]_vars
  BY SurfacedStep
<1> QED BY <1>1, Invariance, PTL DEF Spec

-----------------------------------------------------------------------------
(* Refinement: every step grants, lands or stutters in SendOnce *)

Returned == {a \in Approvals : issue[a] = "returned"}
Landed   == {q \in requests : fate[q.operation] = "delivered"}

LEMMA IssuePromise ==
    ASSUME TypeOK, IssueAudited, NEW a \in Approvals, IssueStep(a) \/ Lapse(a) \/ BecomeDue(a)
    PROVE  [Promise!Next]_(Promise!promise)
<1> USE DEF Promise!promise
<1>1. CASE AuditIssue(a)
  <2>1. /\ a \notin Returned /\ Returned' = Returned \cup {a}
        /\ Landed' = Landed
    BY <1>1 DEF AuditIssue, Returned, Landed, TypeOK
  <2>2. Promise!Grant(a)
    BY <2>1 DEF Promise!Grant, Returned, Landed
  <2> QED BY <2>2 DEF Promise!Next
<1>2. CASE Issue(a) \/ AuditIssueFails(a) \/ UndoIssue(a) \/ Lapse(a) \/ BecomeDue(a)
  <2>1. UNCHANGED <<requests, fate>>
    BY <1>2 DEF Issue, AuditIssueFails, UndoIssue, Lapse, BecomeDue
  <2>2. \/ UNCHANGED issue
        \/ issue' = [issue EXCEPT ![a] = "inserted"]
        \/ issue' = [issue EXCEPT ![a] = "undo"]
        \/ issue' = [issue EXCEPT ![a] = "failed"]
    BY <1>2 DEF Issue, AuditIssueFails, UndoIssue, Lapse, BecomeDue
  <2>3. UNCHANGED issue \/ issue[a] # "returned"
    BY <1>2 DEF Issue, AuditIssueFails, UndoIssue, Lapse, BecomeDue, IssueAudited
  <2>4. Returned' = Returned /\ Landed' = Landed
    BY <2>1, <2>2, <2>3 DEF Returned, Landed, TypeOK
  <2> QED BY <2>4 DEF Returned, Landed
<1> QED BY <1>1, <1>2 DEF IssueStep

LEMMA SendPromise ==
    ASSUME SendInv, NEW s \in Senders, SendStep(s)
    PROVE  [Promise!Next]_(Promise!promise)
<1>1. CASE CallProvider(s)
  <2> DEFINE o == send[s].op
  <2>1. /\ o \in Operations /\ fate[o] = "none" /\ UNCHANGED issue
        /\ \A p \in Operations : p # o => fate'[p] = fate[p]
        /\ fate'[o] = "pending"
    BY <1>1 DEF CallProvider, SendInv, CallsInv, SendTypes, SenderShape, SenderOps, TypeOK
  <2>2. /\ requests \subseteq requests'
        /\ \A q \in requests' : q \in requests \/ q.operation = o
    BY <1>1 DEF CallProvider
  <2> HIDE DEF o
  <2>3. \A q \in requests : q.operation \in Operations /\ q.operation # o
    BY <2>1 DEF SendInv, CallsInv, SendTypes, TypeOK, Request, RequestOps
  <2>4. Returned' = Returned /\ Landed' = Landed
    BY <2>1, <2>2, <2>3 DEF Returned, Landed
  <2> QED BY <2>4 DEF Returned, Landed, Promise!promise
<1>2. CASE ~ CallProvider(s)
  <2>1. UNCHANGED <<issue, requests, fate>>
    BY <1>2 DEF SendStep, StartSend, ExpireOnBegin, RefuseSend, LoseClaim, Claim,
         AuditClaim,
                GetReply, Settle, SettleRefused, AuditSettled, Abandon
  <2> QED BY <2>1 DEF Promise!promise
<1> QED BY <1>1, <1>2

LEMMA ProviderPromise ==
    ASSUME SendInv, NEW o \in Operations, ProviderDecides(o)
    PROVE  [Promise!Next]_(Promise!promise)
<1> DEFINE a == owner[o]
           d == [approval |-> a, operation |-> o, message |-> Bound[a]]
<1>1. /\ fate[o] = "pending" /\ UNCHANGED <<issue, requests>>
      /\ \A p \in Operations : p # o => fate'[p] = fate[p]
  BY DEF ProviderDecides, SendInv, CallsInv, SendTypes, TypeOK
<1>2. \A q \in requests :
         /\ q \in Request /\ q.operation \in Operations
         /\ q.operation = o => q.approval = a /\ q.message = Bound[a]
  <2>1. \A q \in requests : q \in Request /\ q.operation \in Operations
    BY DEF SendInv, CallsInv, SendTypes, TypeOK, Request
  <2>2. \A q \in requests : owner[q.operation] = q.approval /\ q.message = Bound[q.approval]
    BY DEF SendInv, CallsInv, RequestOps
  <2> QED BY <2>1, <2>2
<1>3. \A q \in requests : q.operation = o => q = d
  BY <1>2 DEF Request
<1>4. PICK q \in requests : q.operation = o
  BY <1>1 DEF SendInv, CallsInv, RequestOps
<1>5. d \in requests /\ a \in Approvals /\ issue[a] = "returned"
  BY <1>2, <1>3, <1>4 DEF SendInv, CallsInv, RequestOps, Request
<1>6. CASE fate'[o] = "delivered"
  <2>1. a \in Returned /\ Returned' = Returned
    BY <1>1, <1>5 DEF Returned
  <2>2. \A e \in Landed : e.approval # a
    <3> SUFFICES ASSUME NEW e \in Landed, e.approval = a PROVE FALSE
      OBVIOUS
    <3>1. /\ e.operation \in Operations /\ owner[e.operation] = a
          /\ fate[e.operation] = "delivered"
      BY <1>2 DEF Landed, SendInv, CallsInv, RequestOps
    <3>2. MayLand(o) /\ MayLand(e.operation) /\ owner[o] # None
      BY <1>1, <1>5, <3>1, NoneAssumption DEF MayLand
    <3>3. e.operation = o
      BY <3>1, <3>2, InvNoDoubleSend DEF NoDoubleSend
    <3> QED BY <1>1, <3>1, <3>3
  <2>3. Landed' = Landed \cup {d}
    BY <1>1, <1>2, <1>3, <1>5, <1>6 DEF Landed
  <2>4. Promise!Land(a, o)
    BY <2>1, <2>2, <2>3 DEF Promise!Land, Returned, Landed
  <2> QED BY <1>5, <2>4 DEF Promise!Next
<1>7. CASE fate'[o] # "delivered"
  <2>1. Returned' = Returned /\ Landed' = Landed
    BY <1>1, <1>2, <1>7 DEF Returned, Landed
  <2> QED BY <2>1 DEF Returned, Landed, Promise!promise
<1> QED BY <1>6, <1>7

LEMMA PromiseStep == SendInv /\ [Next]_vars => [Promise!Next]_(Promise!promise)
<1> SUFFICES ASSUME SendInv, [Next]_vars PROVE [Promise!Next]_(Promise!promise)
  OBVIOUS
<1>1. CASE UNCHANGED <<issue, requests, fate>>
  BY <1>1 DEF Promise!promise
<1>2. ASSUME NEW r \in Reconcilers, RecStep(r) PROVE UNCHANGED <<issue, requests, fate>>
  BY <1>2 DEF RecStep, List, CheckProvider, RecRead, RecSettle, RecRecord,
       RecAudit, RecAbandon
<1>3. ASSUME NEW c \in Connections, InvalidateForConnection(c)
      PROVE  UNCHANGED <<issue, requests, fate>>
  BY <1>3 DEF InvalidateForConnection
<1>4. CASE UNCHANGED vars
  BY <1>1, <1>4 DEF vars
<1>5. TypeOK /\ IssueAudited
  BY DEF SendInv, CallsInv, SendTypes
<1> QED BY <1>1, <1>2, <1>3, <1>4, <1>5, IssuePromise, SendPromise, ProviderPromise DEF Next

LEMMA PromiseInit == Init => Promise!Init
BY DEF Init, Promise!Init

\* The whole protocol, for any number of approvals, messages and concurrent calls,
\* keeps the promise made to the approver: what lands is the bound message of a
\* granted approval, once.
THEOREM Refinement == Spec /\ []SettlesWhatWasChecked => ImplementsSendOnce
<1>1. Spec /\ []SettlesWhatWasChecked => Promise!Init /\ [][Promise!Next]_(Promise!promise)
  BY Invariance, PromiseInit, PromiseStep, PTL DEF Spec
<1> QED BY <1>1 DEF ImplementsSendOnce, Promise!Spec
=============================================================================
