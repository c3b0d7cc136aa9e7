---------------------------- MODULE SendApproval ----------------------------
(***************************************************************************)
(* The send plane: issueSendApproval, createBeginSend, createSendSettler,  *)
(* reconcileSend and invalidateApprovalsForConnection over the durable     *)
(* approval rows, with the sendMessage of a provider adapter that drives   *)
(* them.  Every await of the code is a step boundary: any number of        *)
(* processes run sendMessage and reconcileSend at once, each database      *)
(* statement is atomic, and a process may die or a call may throw between  *)
(* any two of its statements.                                              *)
(***************************************************************************)
CONSTANTS
    Approvals, Connections, Messages, Operations,
    Senders,      \* concurrent sendMessage calls, over all instances
    Reconcilers,  \* concurrent operators of reconcileSend
    ConnOf,       \* connection_id of each approval
    Bound,        \* the message (connection, recipients, content) it binds
    None          \* SQL NULL, an absent field

ASSUME BindingAssumption ==
    /\ ConnOf \in [Approvals -> Connections]
    /\ Bound \in [Approvals -> Messages]


VARIABLES
    row,      \* mail_send_approvals: status and operation_id
    due,      \* what needingReconciliation returns: `sending` for 60 s
    lapsed,   \* approvals with expires_at <= now
    issue,    \* where the issueSendApproval call of each approval stands
    send,     \* the sendMessage calls in progress
    owner,    \* the approval each operation id was drawn for
    requests, \* what was handed to the provider
    fate,     \* what the provider made of each operation (external)
    rec,      \* the reconciliations in progress
    audit,    \* mail_audit, as the facts its records state
    ledger    \* mail_reconciliation

db   == <<row, due, owner>>
logs == <<audit, ledger>>
vars == <<row, due, lapsed, issue, send, owner, requests, fate, rec, audit, ledger>>

-----------------------------------------------------------------------------
(* Values *)

Status == {"absent", "issued", "sending", "sent",
           "failed_retryable", "failed_terminal", "expired"}
Reply  == {"ok", "4xx", "429"}
Fate   == {"none", "pending", "delivered", "rejected", "limited", "lost"}
Verdict == {"confirmed_delivered", "confirmed_not_delivered"}

ASSUME NoneAssumption ==
    None \notin Approvals \cup Operations \cup Messages \cup Reply \cup Verdict

Row == [status : Status, op : Operations \cup {None}]

SenderState ==
    [pc : {"idle", "read", "claimed", "cleared", "waiting", "settling", "settled"},
     approval : Approvals \cup {None}, message : Messages \cup {None},
     seen : Status, op : Operations \cup {None}, reply : Reply \cup {None}]

RecState ==
    [pc : {"idle", "listed", "checked", "read", "settled", "recorded"},
     approval : Approvals \cup {None}, seen : Operations \cup {None},
     verdict : Verdict \cup {None}, op : Operations \cup {None}]

Request == [approval : Approvals, operation : Operations, message : Messages]

AuditFact ==
    ({"mail.approval.issued"} \X Approvals)
    \cup ({"mail.approval.claimed", "mail.reconciliation.decided"} \X Operations)
    \cup ({"mail.send.settled"} \X Operations \X Status)

Idle    == [pc |-> "idle", approval |-> None, message |-> None,
            seen |-> "absent", op |-> None, reply |-> None]
RecIdle == [pc |-> "idle", approval |-> None, seen |-> None,
            verdict |-> None, op |-> None]

TypeOK ==
    /\ row \in [Approvals -> Row]
    /\ due \subseteq Approvals
    /\ lapsed \subseteq Approvals
    /\ issue \in [Approvals -> {"none", "inserted", "undo", "returned", "failed"}]
    /\ send \in [Senders -> SenderState]
    /\ owner \in [Operations -> Approvals \cup {None}]
    /\ requests \subseteq Request
    /\ fate \in [Operations -> Fate]
    /\ rec \in [Reconcilers -> RecState]
    /\ audit \subseteq AuditFact
    /\ ledger \subseteq [operation : Operations, verdict : Verdict]

Init ==
    /\ row = [a \in Approvals |-> [status |-> "absent", op |-> None]]
    /\ due = {} /\ lapsed = {}
    /\ issue = [a \in Approvals |-> "none"]
    /\ send = [s \in Senders |-> Idle]
    /\ owner = [o \in Operations |-> None]
    /\ requests = {}
    /\ fate = [o \in Operations |-> "none"]
    /\ rec = [r \in Reconcilers |-> RecIdle]
    /\ audit = {} /\ ledger = {}

\* An operation whose message has landed, is on its way, or is about to leave.
MayLand(o) ==
    \/ fate[o] \in {"pending", "delivered"}
    \/ \E s \in Senders : send[s].op = o /\ send[s].pc \in {"claimed", "cleared"}

\* A reconciliation verdict is true of an operation, now and for good.
VerdictHolds(v, o) ==
    IF v = "confirmed_delivered" THEN fate[o] = "delivered" ELSE ~ MayLand(o)

-----------------------------------------------------------------------------
(* issueSendApproval: insert, audit, and expire again when the audit fails.  *)
(* A caller learns the approval id only when the call returns.               *)

Issue(a) ==
    /\ row[a].status = "absent"
    /\ row' = [row EXCEPT ![a].status = "issued"]
    /\ issue' = [issue EXCEPT ![a] = "inserted"]
    /\ UNCHANGED <<due, lapsed, send, owner, requests, fate, rec, logs>>

AuditIssue(a) ==
    /\ issue[a] = "inserted"
    /\ issue' = [issue EXCEPT ![a] = "returned"]
    /\ audit' = audit \cup {<<"mail.approval.issued", a>>}
    /\ UNCHANGED <<db, lapsed, send, requests, fate, rec, ledger>>

AuditIssueFails(a) ==
    /\ issue[a] = "inserted"
    /\ issue' = [issue EXCEPT ![a] = "undo"]
    /\ UNCHANGED <<db, lapsed, send, requests, fate, rec, logs>>

\* expire: conditional on `issued`; the call may itself fail.
UndoIssue(a) ==
    /\ issue[a] = "undo"
    /\ issue' = [issue EXCEPT ![a] = "failed"]
    /\ \/ UNCHANGED row
       \/ /\ row[a].status = "issued"
          /\ row' = [row EXCEPT ![a].status = "expired"]
    /\ UNCHANGED <<due, lapsed, send, owner, requests, fate, rec, logs>>

-----------------------------------------------------------------------------
(* The clock: the approval's TTL and the reconcile window run out. *)

Lapse(a) ==
    /\ row[a].status # "absent"
    /\ lapsed' = lapsed \cup {a}
    /\ UNCHANGED <<db, issue, send, requests, fate, rec, logs>>

BecomeDue(a) ==
    /\ row[a].status = "sending"
    /\ due' = due \cup {a}
    /\ UNCHANGED <<row, lapsed, issue, send, owner, requests, fate, rec, logs>>

-----------------------------------------------------------------------------
(* beginSend: read the row, validate, claim, audit. *)

Claimable == {"issued", "failed_retryable"}

\* The caller passes any message; only the bound one may be sent.
StartSend(s, a, m) ==
    /\ send[s].pc = "idle"
    /\ issue[a] = "returned"
    /\ send' = [send EXCEPT ![s] = [Idle EXCEPT !.pc = "read", !.approval = a,
                                    !.message = m, !.seen = row[a].status]]
    /\ UNCHANGED <<db, lapsed, issue, requests, fate, rec, logs>>

\* An issued approval read after its expiry is expired, and the send refused.
ExpireOnBegin(s) ==
    LET a == send[s].approval IN
    /\ send[s].pc = "read" /\ send[s].seen = "issued" /\ a \in lapsed
    /\ row' = IF row[a].status = "issued"
              THEN [row EXCEPT ![a].status = "expired"] ELSE row
    /\ send' = [send EXCEPT ![s] = Idle]
    /\ UNCHANGED <<due, lapsed, issue, owner, requests, fate, rec, logs>>

\* Mutant: the content check is dropped.
ValidatesStatusOnly(s) == send[s].seen \in Claimable

\* What beginSend validates on the row it read.
Validates(s) ==
    /\ send[s].seen \in Claimable
    /\ send[s].message = Bound[send[s].approval]

RefuseSend(s) ==
    /\ send[s].pc = "read" /\ ~ Validates(s)
    /\ send' = [send EXCEPT ![s] = Idle]
    /\ UNCHANGED <<db, lapsed, issue, requests, fate, rec, logs>>

\* Mutant: the UPDATE trusts the status read before it.
ClaimHoldsUnconditional(a) == a \notin lapsed

\* The WHERE clause of the conditional UPDATE, on the row as it is now.
ClaimHolds(a) == row[a].status \in Claimable /\ a \notin lapsed

Claim(s, o) ==
    LET a == send[s].approval IN
    /\ send[s].pc = "read" /\ Validates(s)
    /\ ClaimHolds(a)
    /\ owner[o] = None
    /\ owner' = [owner EXCEPT ![o] = a]
    /\ row' = [row EXCEPT ![a] = [status |-> "sending", op |-> o]]
    /\ due' = due \ {a}
    /\ send' = [send EXCEPT ![s] = [@ EXCEPT !.pc = "claimed", !.op = o]]
    /\ UNCHANGED <<lapsed, issue, requests, fate, rec, logs>>

LoseClaim(s) ==
    /\ send[s].pc = "read" /\ Validates(s)
    /\ ~ ClaimHolds(send[s].approval)
    /\ send' = [send EXCEPT ![s] = Idle]
    /\ UNCHANGED <<db, lapsed, issue, requests, fate, rec, logs>>

\* Mutant: the audit of a claim is best effort.
AuditClaimBestEffort(s) ==
    /\ send[s].pc = "claimed"
    /\ send' = [send EXCEPT ![s].pc = "cleared"]
    /\ UNCHANGED <<db, lapsed, issue, requests, fate, rec, logs>>

AuditClaim(s) ==
    /\ send[s].pc = "claimed"
    /\ send' = [send EXCEPT ![s].pc = "cleared"]
    /\ audit' = audit \cup {<<"mail.approval.claimed", send[s].op>>}
    /\ UNCHANGED <<db, lapsed, issue, requests, fate, rec, ledger>>

-----------------------------------------------------------------------------
(* sendMessage: the provider call, its outcome, the settlement. *)

CallProvider(s) ==
    /\ send[s].pc = "cleared"
    /\ send' = [send EXCEPT ![s].pc = "waiting"]
    /\ requests' = requests \cup {[approval |-> send[s].approval,
                                   operation |-> send[s].op,
                                   message |-> send[s].message]}
    /\ fate' = [fate EXCEPT ![send[s].op] = "pending"]
    /\ UNCHANGED <<db, lapsed, issue, rec, logs>>

\* The provider takes its time: the request is accepted, rejected or lost.
ProviderDecides(o) ==
    /\ fate[o] = "pending"
    /\ \E f \in {"delivered", "rejected", "limited", "lost"} :
          fate' = [fate EXCEPT ![o] = f]
    /\ UNCHANGED <<db, lapsed, issue, send, requests, rec, logs>>

Answered == {"delivered", "rejected", "limited"}
AnswerTo(f) == CASE f = "delivered" -> "ok" [] f = "rejected" -> "4xx" [] f = "limited" -> "429"
                 [] OTHER -> None

\* Mutant: a timeout is taken for a rejection.
GetReplyTimeoutIsRejection(s) ==
    /\ send[s].pc = "waiting"
    /\ send' = [send EXCEPT ![s] = [@ EXCEPT !.pc = "settling", !.reply = "4xx"]]
    /\ UNCHANGED <<db, lapsed, issue, requests, fate, rec, logs>>

\* The provider's answer arrives.  A timeout, a 5xx or a broken connection is
\* ambiguous: classifySendError returns null and sendMessage rethrows (Abandon).
GetReply(s) ==
    LET f == fate[send[s].op] IN
    /\ send[s].pc = "waiting"
    /\ f \in Answered
    /\ send' = [send EXCEPT ![s] = [@ EXCEPT !.pc = "settling", !.reply = AnswerTo(f)]]
    /\ UNCHANGED <<db, lapsed, issue, requests, fate, rec, logs>>

\* classifySendError: the test for a 4xx comes first, and 429 is a 4xx.
ClassifySendError(reply) ==
    IF reply \in {"4xx", "429"} THEN "failed_terminal"
    ELSE IF reply = "429" THEN "failed_retryable" ELSE None

\* Mutant: the raw answer is stored as the status.
OutcomeOfUnclassified(reply) == reply

OutcomeOf(reply) == IF reply = "ok" THEN "sent" ELSE ClassifySendError(reply)

\* Mutant: settle no longer requires `sending`.
SettleHoldsAnyStatus(a, o) == row[a].op = o

\* settle's WHERE clause: still `sending`, and under this operation id.
SettleHolds(a, o) == row[a].status = "sending" /\ row[a].op = o

Settle(s) ==
    LET a == send[s].approval IN
    /\ send[s].pc = "settling"
    /\ SettleHolds(a, send[s].op)
    /\ row' = [row EXCEPT ![a].status = OutcomeOf(send[s].reply)]
    /\ due' = due \ {a}
    /\ send' = [send EXCEPT ![s].pc = "settled"]
    /\ UNCHANGED <<lapsed, issue, owner, requests, fate, rec, logs>>

\* "settle refused" is thrown; it carries no status code, so it is rethrown.
SettleRefused(s) ==
    /\ send[s].pc = "settling"
    /\ ~ SettleHolds(send[s].approval, send[s].op)
    /\ send' = [send EXCEPT ![s] = Idle]
    /\ UNCHANGED <<db, lapsed, issue, requests, fate, rec, logs>>

AuditSettled(s) ==
    /\ send[s].pc = "settled"
    /\ send' = [send EXCEPT ![s] = Idle]
    /\ audit' = audit \cup {<<"mail.send.settled", send[s].op, OutcomeOf(send[s].reply)>>}
    /\ UNCHANGED <<db, lapsed, issue, requests, fate, rec, ledger>>

\* The process dies, an audit or a statement fails, the provider call ends
\* without a usable answer: the call throws and leaves everything as it is.
Abandon(s) ==
    /\ send[s].pc # "idle"
    /\ send' = [send EXCEPT ![s] = Idle]
    /\ UNCHANGED <<db, lapsed, issue, requests, fate, rec, logs>>

-----------------------------------------------------------------------------
(* Reconciliation: list the stuck rows, look the operation up at the         *)
(* provider (external), then reconcileSend: read, settle, record, audit.     *)

List(r, a) ==
    /\ rec[r].pc = "idle" /\ a \in due
    /\ rec' = [rec EXCEPT ![r] = [RecIdle EXCEPT !.pc = "listed",
                                  !.approval = a, !.seen = row[a].op]]
    /\ UNCHANGED <<db, lapsed, issue, send, requests, fate, logs>>

\* External: the operator confirms, and says "not delivered" only of an
\* operation that can no longer land.
CheckProvider(r, v) ==
    /\ rec[r].pc = "listed"
    /\ VerdictHolds(v, rec[r].seen)
    /\ rec' = [rec EXCEPT ![r] = [@ EXCEPT !.pc = "checked", !.verdict = v]]
    /\ UNCHANGED <<db, lapsed, issue, send, requests, fate, logs>>

\* reconcileSend reads the row again, and takes the operation id it finds.
RecRead(r) ==
    LET a == rec[r].approval IN
    /\ rec[r].pc = "checked"
    /\ rec' = [rec EXCEPT ![r] =
                 IF row[a].status = "sending"
                 THEN [@ EXCEPT !.pc = "read", !.op = row[a].op] ELSE RecIdle]
    /\ UNCHANGED <<db, lapsed, issue, send, requests, fate, logs>>

\* Mutant: the two verdicts are swapped.
ReconciledStatusSwapped(v) ==
    IF v = "confirmed_delivered" THEN "failed_retryable" ELSE "sent"

ReconciledStatus(v) ==
    IF v = "confirmed_delivered" THEN "sent" ELSE "failed_retryable"

RecSettle(r) ==
    LET a == rec[r].approval IN
    /\ rec[r].pc = "read"
    /\ SettleHolds(a, rec[r].op)
    /\ row' = [row EXCEPT ![a].status = ReconciledStatus(rec[r].verdict)]
    /\ due' = due \ {a}
    /\ rec' = [rec EXCEPT ![r].pc = "settled"]
    /\ UNCHANGED <<lapsed, issue, send, owner, requests, fate, logs>>

RecRecord(r) ==
    /\ rec[r].pc = "settled"
    /\ ledger' = ledger \cup {[operation |-> rec[r].op, verdict |-> rec[r].verdict]}
    /\ rec' = [rec EXCEPT ![r].pc = "recorded"]
    /\ UNCHANGED <<db, lapsed, issue, send, requests, fate, audit>>

RecAudit(r) ==
    /\ rec[r].pc = "recorded"
    /\ audit' = audit \cup {<<"mail.reconciliation.decided", rec[r].op>>}
    /\ rec' = [rec EXCEPT ![r] = RecIdle]
    /\ UNCHANGED <<db, lapsed, issue, send, requests, fate, ledger>>

\* The operator's process dies, a statement fails, or settle refuses.
RecAbandon(r) ==
    /\ rec[r].pc # "idle"
    /\ rec' = [rec EXCEPT ![r] = RecIdle]
    /\ UNCHANGED <<db, lapsed, issue, send, requests, fate, logs>>

-----------------------------------------------------------------------------
(* disconnectGoogle invalidates the approvals of the connection. *)

Invalidated == {"issued", "sending"}

InvalidateForConnection(c) ==
    LET hit == {a \in Approvals : ConnOf[a] = c /\ row[a].status \in Invalidated} IN
    /\ row' = [a \in Approvals |->
                 IF a \in hit THEN [row[a] EXCEPT !.status = "failed_terminal"] ELSE row[a]]
    /\ due' = due \ hit
    /\ UNCHANGED <<lapsed, issue, send, owner, requests, fate, rec, logs>>

-----------------------------------------------------------------------------

IssueStep(a) ==
    Issue(a) \/ AuditIssue(a) \/ AuditIssueFails(a) \/ UndoIssue(a)

SendStep(s) ==
    \/ \E a \in Approvals, m \in Messages : StartSend(s, a, m)
    \/ ExpireOnBegin(s) \/ RefuseSend(s) \/ LoseClaim(s)
    \/ \E o \in Operations : Claim(s, o)
    \/ AuditClaim(s) \/ CallProvider(s) \/ GetReply(s)
    \/ Settle(s) \/ SettleRefused(s) \/ AuditSettled(s) \/ Abandon(s)

RecStep(r) ==
    \/ \E a \in Approvals : List(r, a)
    \/ \E v \in Verdict : CheckProvider(r, v)
    \/ RecRead(r) \/ RecSettle(r) \/ RecRecord(r) \/ RecAudit(r) \/ RecAbandon(r)

Next ==
    \/ \E a \in Approvals : IssueStep(a) \/ Lapse(a) \/ BecomeDue(a)
    \/ \E s \in Senders : SendStep(s)
    \/ \E o \in Operations : ProviderDecides(o)
    \/ \E r \in Reconcilers : RecStep(r)
    \/ \E c \in Connections : InvalidateForConnection(c)

Spec == Init /\ [][Next]_vars

-----------------------------------------------------------------------------
(* Properties *)

\* One approval, one message: however its sends, retries and reconciliations
\* interleave, at most one operation of an approval has landed or may yet land
\* (tests/sendApproval.test.ts: "cannot be claimed again -- no double-send").
NoDoubleSend ==
    \A o1, o2 \in Operations :
        /\ owner[o1] # None /\ owner[o1] = owner[o2]
        /\ MayLand(o1) /\ MayLand(o2)
        => o1 = o2

\* What a row says of the message is so: `sent` only of a delivered one, and
\* while the row reads unsent and claimable no attempt of it may land.
RowsTellTheTruth ==
    \A a \in Approvals :
        /\ row[a].status = "sent" => fate[row[a].op] = "delivered"
        /\ row[a].status \in Claimable \cup {"expired"} =>
              \A o \in Operations : owner[o] = a => ~ MayLand(o)

\* "Audit BEFORE the caller may touch the provider": no request leaves before
\* the issue of its approval and the claim of its operation are on record.
AuditBeforeProvider ==
    \A q \in requests :
        /\ <<"mail.approval.issued", q.approval>> \in audit
        /\ <<"mail.approval.claimed", q.operation>> \in audit

\* The two logs never contradict the provider: a settlement audited as sent or
\* failed, and a reconciliation verdict on file, are true of their operation,
\* even when the row was changed under the settler's or the operator's hands.
SettlementsAreTrue ==
    \A o \in Operations :
       /\ <<"mail.send.settled", o, "sent">> \in audit => fate[o] = "delivered"
       /\ <<"mail.send.settled", o, "failed_terminal">> \in audit => ~ MayLand(o)

LedgerIsTrue == \A l \in ledger : VerdictHolds(l.verdict, l.operation)

LogsTellTheTruth == SettlementsAreTrue /\ LedgerIsTrue

\* A spent approval stays spent: a late settlement, a stale reconciliation or a
\* claim in flight never moves a row out of sent, failed_terminal or expired.
SpentStaysSpent ==
    [][\A a \in Approvals :
          row[a].status \in {"sent", "failed_terminal", "expired"} => row'[a] = row[a]]_vars

\* The whole implements the promise made to the approver.
Promise == INSTANCE SendOnce WITH
    granted <- {a \in Approvals : issue[a] = "returned"},
    landed  <- {q \in requests : fate[q.operation] = "delivered"}

ImplementsSendOnce == Promise!Spec

-----------------------------------------------------------------------------
(* The inductive invariants behind these.  SendTypes and CallsInv hold       *)
(* whatever operators do; SendInv needs that an operator settles the         *)
(* operation he looked up, SettlesWhatWasChecked.  The code does not pin it: *)
(* reconcileSend reads the row's operation again.  OperatorInv shows that it *)
(* is the one looked up when no two operators work on one approval.          *)

\* Which fields a sendMessage call has filled at each of its steps.
SenderShape ==
    \A s \in Senders :
        /\ send[s].pc # "idle" => send[s].approval \in Approvals /\ send[s].message \in Messages
        /\ send[s].pc \notin {"idle", "read"} <=> send[s].op \in Operations
        /\ send[s].pc \in {"settling", "settled"} => send[s].reply \in Reply

\* A row names an operation once it was claimed; only `sending` rows are due.
RowShape ==
    /\ \A a \in Approvals :
          row[a].status \in {"sending", "sent", "failed_retryable"} => row[a].op \in Operations
    /\ \A a \in due : row[a].status = "sending"

\* Which fields a reconciliation has filled at each of its steps.
RecShape ==
    \A r \in Reconcilers :
        /\ rec[r].pc # "idle" => rec[r].approval \in Approvals /\ rec[r].seen \in Operations
        /\ rec[r].pc \notin {"idle", "listed"} => rec[r].verdict \in Verdict
        /\ rec[r].pc \in {"read", "settled", "recorded"} => rec[r].op \in Operations

SendTypes == TypeOK /\ SenderShape /\ RowShape /\ RecShape

\* An unclaimed row has no operation, a claimed one has one drawn for it, and
\* a row says `sent` only of a delivered operation.
RowOps ==
    \A a \in Approvals :
        /\ row[a].status \in {"absent", "issued", "expired"} => row[a].op = None
        /\ row[a].op # None => owner[row[a].op] = a
        /\ row[a].status = "sent" => fate[row[a].op] = "delivered"

\* An operation id that was never drawn is used by nobody, and in no settlement.
FreshOps ==
    \A o \in Operations : owner[o] = None =>
        /\ fate[o] = "none" /\ \A s \in Senders : send[s].op # o
        /\ \A x \in Status : <<"mail.send.settled", o, x>> \notin audit

\* A verdict is filed on an operation that was drawn.
LedgerOps == \A l \in ledger : owner[l.operation] # None

\* Claimed, and not claimable again as long as nobody reconciles it.
Held == {"sending", "sent", "failed_terminal"}

\* The heart of it: an operation that may land is the one its row names, and
\* that row is not claimable.
LiveOps ==
    \A o \in Operations : MayLand(o) =>
        /\ owner[o] \in Approvals
        /\ row[owner[o]].op = o
        /\ row[owner[o]].status \in Held

\* A call works under an operation drawn for its approval, for the message the
\* approval binds; it has not called the provider before it is cleared to, and
\* the answer it holds is the provider's.
SenderOps ==
    \A s \in Senders :
        /\ send[s].pc # "idle" => issue[send[s].approval] = "returned"
        /\ send[s].op # None =>
              /\ owner[send[s].op] = send[s].approval
              /\ send[s].message = Bound[send[s].approval]
        /\ send[s].pc \in {"claimed", "cleared"} => fate[send[s].op] = "none"
        /\ send[s].pc = "cleared" => <<"mail.approval.claimed", send[s].op>> \in audit
        /\ send[s].pc \in {"settling", "settled"} => send[s].reply = AnswerTo(fate[send[s].op])

OneSenderPerOp ==
    \A s1, s2 \in Senders :
        send[s1].op # None /\ send[s1].op = send[s2].op => s1 = s2

\* The provider holds exactly what was sent to it: the bound message of a
\* returned approval, under an audited operation of that approval.
RequestOps ==
    /\ \A q \in requests :
          /\ owner[q.operation] = q.approval
          /\ q.message = Bound[q.approval]
          /\ issue[q.approval] = "returned"
          /\ fate[q.operation] # "none"
          /\ <<"mail.approval.claimed", q.operation>> \in audit
    /\ \A o \in Operations : fate[o] # "none" => \E q \in requests : q.operation = o

IssueAudited ==
    \A a \in Approvals :
        /\ issue[a] = "returned" => <<"mail.approval.issued", a>> \in audit
        /\ row[a].status = "absent" => issue[a] = "none"

\* What the operator was told of the operation he looked up is so, for good.
RecOps ==
    \A r \in Reconcilers : rec[r].pc # "idle" =>
        /\ owner[rec[r].seen] = rec[r].approval
        /\ rec[r].pc # "listed" => VerdictHolds(rec[r].verdict, rec[r].seen)

\* What a step of a call relies on.
CallsInv ==
    /\ SendTypes
    /\ FreshOps /\ SenderOps /\ OneSenderPerOp
    /\ RequestOps /\ IssueAudited /\ SettlementsAreTrue

\* Everything a step relies on.
SendInv == CallsInv /\ RowOps /\ LiveOps /\ RecOps /\ LedgerOps /\ LedgerIsTrue

\* The operation an operator settles and files is the one he looked up.
SettlesWhatWasChecked ==
    \A r \in Reconcilers :
        rec[r].pc \in {"read", "settled", "recorded"} => rec[r].op = rec[r].seen

\* No two operators work on one approval, from its listing until its row is settled.
Reconciling == {"listed", "checked", "read"}

OneOperatorPerApproval ==
    \A r1, r2 \in Reconcilers :
        /\ rec[r1].pc \in Reconciling /\ rec[r2].pc \in Reconciling
        /\ rec[r1].approval = rec[r2].approval
        => r1 = r2

\* Until the operator settles it, the row still names what he looked up: nobody
\* else makes a held row claimable.
OperatorRows ==
    \A r \in Reconcilers : rec[r].pc \in Reconciling =>
        /\ row[rec[r].approval].op = rec[r].seen
        /\ row[rec[r].approval].status \in Held

OperatorInv == SendTypes /\ OperatorRows /\ SettlesWhatWasChecked

-----------------------------------------------------------------------------
(* What the repository says, and the code does not do. *)

\* sendGuard.ts: "rate limited before send", retryable.
RateLimitedIsRetryable ==
    [][\A s \in Senders : Settle(s) /\ send[s].reply = "429"
          => row'[send[s].approval].status = "failed_retryable"]_vars

\* mailStateStore.ts: an ambiguous outcome "stays `sending` and surfaces via
\* needingReconciliation": a message that landed is recorded as sent or still
\* up for reconciliation.
LandedSurfaces ==
    \A q \in requests :
        fate[q.operation] = "delivered" => row[q.approval].status \in {"sending", "sent"}
=============================================================================
