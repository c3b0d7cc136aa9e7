--------------------------- MODULE MailConnection ---------------------------
(***************************************************************************)
(* One mailbox: buildGoogleAuthorizationUrl, handleGoogleCallback with its *)
(* rollback, and disconnectGoogle behind disconnectConnection.  Its id is  *)
(* derived from the mailbox (connectionIdFor), so every callback and every *)
(* disconnect works on the same rows.  Any number of calls run at once,    *)
(* one step per await; a call may throw at any of them and die anywhere.   *)
(***************************************************************************)
CONSTANTS
    States,   \* OAuth states: authorizations a user has asked for
    Grants,   \* consents of the user, as Google numbers them
    Calls,    \* concurrent callbacks and disconnects
    None

ASSUME NoneAssumption == None \notin States \cup Grants

VARIABLES
    oauth,      \* mail_oauth_states
    cred,       \* mail_credentials: the row, and the grant in its envelope
    conn,       \* mail_connections: None, or the grant of the callback that saved it
    stopped,    \* mail_job_markers
    pending,    \* is an approval of the mailbox issued or being sent?
    call,       \* callbacks and disconnects in progress
    audit,      \* mail_audit_events, as the facts they state
    from,       \* the state each grant was exchanged for
    lost,       \* grants Google gave in an answer that never came
    asked,      \* grants Google was asked to revoke
    saved, destroyed,   \* grants the credential row has held, and lost by a statement
    overlapped, \* has a callback overlapped another call, or an approval any call?
    cut         \* has a disconnect, or a rollback, ended before its last step?

vars == <<oauth, cred, conn, stopped, pending, call, audit, from, lost, asked, saved,
          destroyed, overlapped, cut>>
rows == <<cred, conn, stopped, pending, saved, destroyed>>

Call == [pc : {"idle", "exchanging", "profile", "saving", "connecting", "auditing",
               "undo_cred", "undo_conn", "undo_grant", "undo_audit",
               "find", "read", "open", "revoke", "destroy", "stop", "invalidate", "remove",
               "log", "answer"},
         state : States \cup {None}, grant : Grants \cup {None}, saw : Grants \cup {None}]

Idle == [pc |-> "idle", state |-> None, grant |-> None, saw |-> None]

TypeOK ==
    /\ oauth \in [States -> {"absent", "put", "open", "consumed", "dead"}]
    /\ cred \in [status : {"live"}, grant : Grants]
               \cup [status : {"absent", "revoked"}, grant : {None}]
    /\ conn \in Grants \cup {None}
    /\ stopped \in BOOLEAN /\ pending \in BOOLEAN
    /\ call \in [Calls -> Call]
    /\ audit \subseteq ({"start", "failed"} \X States)
                       \cup ({"connected", "disconnected"} \X Grants)
    /\ from \in [Grants -> States \cup {None}]
    /\ lost \subseteq Grants /\ asked \subseteq Grants
    /\ saved \subseteq Grants /\ destroyed \subseteq Grants
    /\ overlapped \in BOOLEAN /\ cut \in BOOLEAN

Init ==
    /\ oauth = [t \in States |-> "absent"]
    /\ cred = [status |-> "absent", grant |-> None] /\ conn = None
    /\ stopped = FALSE /\ pending = FALSE
    /\ call = [c \in Calls |-> Idle]
    /\ audit = {} /\ from = [g \in Grants |-> None]
    /\ lost = {} /\ asked = {} /\ saved = {} /\ destroyed = {}
    /\ overlapped = FALSE /\ cut = FALSE

Busy == \E c \in Calls : call[c].pc # "idle"

\* The grant a live row gives up.
Held == IF cred.status = "live" THEN {cred.grant} ELSE {}

At(c, pc)    == call[c].pc = pc
Goes(c, pc)  == call' = [call EXCEPT ![c].pc = pc]
Ends(c)      == call' = [call EXCEPT ![c] = Idle]

\* Call c begins as x.  A callback is known by its state; a disconnect has none.
Begins(c, x) ==
    /\ At(c, "idle") /\ call' = [call EXCEPT ![c] = x]
    /\ overlapped' = \/ overlapped
                     \/ x.state # None /\ Busy
                     \/ \E d \in Calls : call[d].state # None

-----------------------------------------------------------------------------
(* startGoogleConnect *)

Authorize(t, from_, to) ==
    /\ oauth[t] = from_ /\ oauth' = [oauth EXCEPT ![t] = to]
    /\ UNCHANGED <<rows, call, from, lost, asked, overlapped, cut>>

\* createOAuthState stores the state; nobody outside knows its value yet.
Start(t) == Authorize(t, "absent", "put") /\ UNCHANGED audit

\* Mutant: a start that cannot be audited is answered all the same.
AuditStartOpen(t) == Authorize(t, "put", "open") /\ UNCHANGED audit

\* The URL is given out once the start is audited; if the audit throws, with or
\* without its INSERT done, never.
AuditStart(t) ==
    \/ Authorize(t, "put", "open") /\ audit' = audit \cup {<<"start", t>>}
    \/ Authorize(t, "put", "dead") /\ audit' \in {audit, audit \cup {<<"start", t>>}}

\* expires_at passes.
Expire(t) == Authorize(t, "open", "dead") /\ UNCHANGED audit

-----------------------------------------------------------------------------
(* handleGoogleCallback *)

\* Mutant: the UPDATE does not ask for consumed_at IS NULL.
ConsumeAgain(c, t) ==
    /\ oauth[t] \in {"open", "consumed"}
    /\ oauth' = [oauth EXCEPT ![t] = "consumed"]
    /\ Begins(c, [Idle EXCEPT !.pc = "exchanging", !.state = t])
    /\ UNCHANGED <<rows, audit, from, lost, asked, cut>>

\* consumeOAuthState.  An unknown, used or expired state is refused, and so is
\* one of another session or redirect: nothing changes.
Consume(c, t) ==
    /\ oauth[t] = "open"
    /\ oauth' = [oauth EXCEPT ![t] = "consumed"]
    /\ Begins(c, [Idle EXCEPT !.pc = "exchanging", !.state = t])
    /\ UNCHANGED <<rows, audit, from, lost, asked, cut>>

\* The verifier cannot be opened, the tenant is another, or Google does not
\* honour the code: the callback ends with nothing to undo.
FailEarly(c) ==
    /\ At(c, "exchanging") /\ Ends(c)
    /\ UNCHANGED <<oauth, rows, audit, from, lost, asked, overlapped, cut>>

\* Google honours the code and its answer does not come through: the client gives
\* up after ten seconds, the body breaks off or is not what TokenSchema asks for, or
\* the process dies meanwhile.  The exchange is outside the try block and is not
\* repeated: nobody learns of the grant.
ExchangeLost(c, g) ==
    /\ At(c, "exchanging") /\ from[g] = None
    /\ from' = [from EXCEPT ![g] = call[c].state] /\ lost' = lost \cup {g}
    /\ Ends(c)
    /\ UNCHANGED <<oauth, rows, audit, asked, overlapped, cut>>

\* exchangeAuthorizationCode; a grant without a refresh token is given back.
Exchange(c, g, offline) ==
    /\ At(c, "exchanging") /\ from[g] = None
    /\ from' = [from EXCEPT ![g] = call[c].state]
    /\ call' = [call EXCEPT ![c].pc = IF offline THEN "profile" ELSE "undo_grant",
                            ![c].grant = g]
    /\ UNCHANGED <<oauth, rows, audit, lost, asked, overlapped, cut>>

Profile(c) ==
    /\ At(c, "profile") /\ Goes(c, "saving")
    /\ UNCHANGED <<oauth, rows, audit, from, lost, asked, overlapped, cut>>

\* saveMailCredential and connections.save: upserts.
SaveCred(c) ==
    /\ At(c, "saving") /\ Goes(c, "connecting")
    /\ cred' = [status |-> "live", grant |-> call[c].grant]
    /\ saved' = saved \cup {call[c].grant}
    /\ UNCHANGED <<oauth, conn, stopped, pending, destroyed, audit, from, lost, asked,
                   overlapped, cut>>

SaveConn(c) ==
    /\ At(c, "connecting") /\ Goes(c, "auditing")
    /\ conn' = call[c].grant
    /\ UNCHANGED <<oauth, cred, stopped, pending, saved, destroyed, audit, from, lost,
                   asked, overlapped, cut>>

\* "google.connected"; the acknowledgement may be lost after the INSERT.
AuditConnected(c) ==
    /\ At(c, "auditing") /\ (Ends(c) \/ Goes(c, "undo_cred"))
    /\ audit' = audit \cup {<<"connected", call[c].grant>>}
    /\ UNCHANGED <<oauth, rows, from, lost, asked, overlapped, cut>>

\* Mutant: a failed audit of the connect is let pass.
FailUnlessAudited(c) ==
    /\ \/ At(c, "profile") /\ Goes(c, "undo_grant")
       \/ call[c].pc \in {"saving", "connecting"} /\ Goes(c, "undo_cred")
       \/ At(c, "auditing") /\ Ends(c)
    /\ UNCHANGED <<oauth, rows, audit, from, lost, asked, overlapped, cut>>

\* A step of the try block throws, done or not (a write whose answer is lost
\* throws from the next pc).  Before the mailbox is known there is no row to delete.
Fail(c) ==
    /\ \/ At(c, "profile") /\ Goes(c, "undo_grant")
       \/ call[c].pc \in {"saving", "connecting", "auditing"} /\ Goes(c, "undo_cred")
    /\ UNCHANGED <<oauth, rows, audit, from, lost, asked, overlapped, cut>>

\* Mutant: the rollback forgets the connection.
UndoCredOnly(c) ==
    /\ At(c, "undo_cred") /\ Goes(c, "undo_grant")
    /\ cred' = [status |-> "absent", grant |-> None] /\ destroyed' = destroyed \cup Held
    /\ UNCHANGED <<oauth, conn, stopped, pending, saved, audit, from, lost, asked,
                   overlapped, cut>>

\* deleteMailCredential, connections.delete, safeRevoke, recordFailureAudit.
UndoCred(c) ==
    /\ At(c, "undo_cred") /\ Goes(c, "undo_conn")
    /\ cred' = [status |-> "absent", grant |-> None] /\ destroyed' = destroyed \cup Held
    /\ UNCHANGED <<oauth, conn, stopped, pending, saved, audit, from, lost, asked,
                   overlapped, cut>>

\* Mutant: the rollback stops at the rows.
UndoConnOnly(c) ==
    /\ At(c, "undo_conn") /\ Goes(c, "undo_audit")
    /\ conn' = None
    /\ UNCHANGED <<oauth, cred, stopped, pending, saved, destroyed, audit, from, lost,
                   asked, overlapped, cut>>

UndoConn(c) ==
    /\ At(c, "undo_conn") /\ Goes(c, "undo_grant")
    /\ conn' = None
    /\ UNCHANGED <<oauth, cred, stopped, pending, saved, destroyed, audit, from, lost,
                   asked, overlapped, cut>>

UndoGrant(c) ==
    /\ At(c, "undo_grant") /\ Goes(c, "undo_audit")
    /\ asked' = asked \cup {call[c].grant}
    /\ UNCHANGED <<oauth, rows, audit, from, lost, overlapped, cut>>

UndoAudit(c) ==
    /\ At(c, "undo_audit") /\ Ends(c)
    /\ UNCHANGED audit \/ audit' = audit \cup {<<"failed", call[c].state>>}
    /\ UNCHANGED <<oauth, rows, from, lost, asked, overlapped, cut>>

-----------------------------------------------------------------------------
(* disconnectConnection and disconnectGoogle *)

\* connections.get, by the route and again: a mailbox not connected is left alone.
Find(c) ==
    /\ conn # None
    /\ Begins(c, [Idle EXCEPT !.pc = "find"])
    /\ UNCHANGED <<oauth, rows, audit, from, lost, asked, cut>>

FindAgain(c) ==
    /\ At(c, "find")
    /\ call' = [call EXCEPT ![c].pc = "read", ![c].saw = conn]
    /\ UNCHANGED <<oauth, rows, audit, from, lost, asked, overlapped, cut>>

\* getMailCredential.
ReadCred(c) ==
    /\ At(c, "read")
    /\ Goes(c, IF cred.status = "live" THEN "open" ELSE "destroy")
    /\ UNCHANGED <<oauth, rows, audit, from, lost, asked, overlapped, cut>>

\* openRefreshToken reads the row again; if it cannot be opened, nobody is asked.
OpenToken(c) ==
    /\ At(c, "open")
    /\ \/ /\ cred.status = "live"
          /\ call' = [call EXCEPT ![c].pc = "revoke", ![c].grant = cred.grant]
       \/ Goes(c, "destroy")
    /\ UNCHANGED <<oauth, rows, audit, from, lost, asked, overlapped, cut>>

\* revokeToken, best effort.
AskRevoke(c) ==
    /\ At(c, "revoke") /\ Goes(c, "destroy")
    /\ asked' = asked \cup {call[c].grant}
    /\ UNCHANGED <<oauth, rows, audit, from, lost, overlapped, cut>>

\* Mutant: the row is marked and keeps its ciphertext.
DestroyMarks(c) ==
    /\ At(c, "destroy") /\ Goes(c, "stop")
    /\ cred' = IF cred.status = "live" THEN [cred EXCEPT !.status = "revoked"] ELSE cred
    /\ destroyed' = destroyed \cup Held
    /\ UNCHANGED <<oauth, conn, stopped, pending, saved, audit, from, lost, asked,
                   overlapped, cut>>

\* revokeMailCredential.
Destroy(c) ==
    /\ At(c, "destroy") /\ Goes(c, "stop")
    /\ cred' = IF cred.status = "live" THEN [status |-> "revoked", grant |-> None] ELSE cred
    /\ destroyed' = destroyed \cup Held
    /\ UNCHANGED <<oauth, conn, stopped, pending, saved, audit, from, lost, asked,
                   overlapped, cut>>

Stop(c) ==
    /\ At(c, "stop") /\ Goes(c, "invalidate")
    /\ stopped' = TRUE
    /\ UNCHANGED <<oauth, cred, conn, pending, saved, destroyed, audit, from, lost, asked,
                   overlapped, cut>>

Invalidate(c) ==
    /\ At(c, "invalidate") /\ Goes(c, "remove")
    /\ pending' = FALSE
    /\ UNCHANGED <<oauth, cred, conn, stopped, saved, destroyed, audit, from, lost, asked,
                   overlapped, cut>>

\* Mutant: the audit is left to the route.
RemoveAndAnswer(c) ==
    /\ At(c, "remove") /\ Goes(c, "answer")
    /\ conn' = None
    /\ UNCHANGED <<oauth, cred, stopped, pending, saved, destroyed, audit, from, lost,
                   asked, overlapped, cut>>

\* Mutant: the audit follows whether there was a row or not.
RemoveAndLog(c) ==
    /\ At(c, "remove") /\ Goes(c, "log")
    /\ conn' = None
    /\ UNCHANGED <<oauth, cred, stopped, pending, saved, destroyed, audit, from, lost,
                   asked, overlapped, cut>>

\* connections.delete; the audit follows if the row was there at the start.
Remove(c) ==
    /\ At(c, "remove") /\ Goes(c, IF call[c].saw # None THEN "log" ELSE "answer")
    /\ conn' = None
    /\ UNCHANGED <<oauth, cred, stopped, pending, saved, destroyed, audit, from, lost,
                   asked, overlapped, cut>>

LogDisconnect(c) ==
    /\ At(c, "log") /\ Goes(c, "answer")
    /\ audit' = audit \cup {<<"disconnected", call[c].saw>>}
    /\ UNCHANGED <<oauth, rows, from, lost, asked, overlapped, cut>>

\* The route audits the request and answers { ok: true }.
AnswerDisconnected(c) ==
    /\ At(c, "answer") /\ Ends(c)
    /\ UNCHANGED <<oauth, rows, audit, from, lost, asked, overlapped, cut>>

-----------------------------------------------------------------------------

\* The process dies, or a database call throws in a disconnect or a rollback.
Cut(c) ==
    /\ ~ At(c, "idle") /\ Ends(c)
    /\ cut' = TRUE
    /\ UNCHANGED <<oauth, rows, audit, from, lost, asked, overlapped>>

\* issueSendApproval, which does not look at the connection.
Approve ==
    /\ ~ pending /\ pending' = TRUE
    /\ overlapped' = (overlapped \/ Busy)
    /\ UNCHANGED <<oauth, cred, conn, stopped, saved, destroyed, call, audit, from, lost,
                   asked, cut>>

CallbackStep(c) ==
    \/ \E t \in States : Consume(c, t)
    \/ \E g \in Grants, offline \in BOOLEAN : Exchange(c, g, offline)
    \/ \E g \in Grants : ExchangeLost(c, g)
    \/ FailEarly(c) \/ Profile(c) \/ SaveCred(c) \/ SaveConn(c) \/ AuditConnected(c)
    \/ Fail(c) \/ UndoCred(c) \/ UndoConn(c) \/ UndoGrant(c) \/ UndoAudit(c)

DisconnectStep(c) ==
    \/ Find(c) \/ FindAgain(c) \/ ReadCred(c) \/ OpenToken(c) \/ AskRevoke(c) \/ Destroy(c)
    \/ Stop(c) \/ Invalidate(c) \/ Remove(c) \/ LogDisconnect(c) \/ AnswerDisconnected(c)

Next ==
    \/ \E t \in States : Start(t) \/ AuditStart(t) \/ Expire(t)
    \/ \E c \in Calls : CallbackStep(c) \/ DisconnectStep(c) \/ Cut(c)
    \/ Approve

Spec == Init /\ [][Next]_vars

-----------------------------------------------------------------------------
(* Properties *)

\* "OAuth state cannot be replayed": however many callbacks present a state, it
\* is exchanged for one grant.
ExchangedOnce ==
    \A g, h \in Grants : from[g] # None /\ from[g] = from[h] => g = h

\* "OAuth initiation is a mutation: unaudited => fail closed": Google's codes are
\* exchanged only for authorizations whose start is on record.
ExchangedIsAudited ==
    \A g \in Grants : from[g] # None => <<"start", from[g]>> \in audit

\* A callback at work on what was exchanged for g.
Completes(c, g) == call[c].state # None /\ call[c].grant = g

\* A listed mailbox is on record as connected, unless its callback is still at
\* work, whatever other callbacks and disconnects do to its rows.
ListedIsAudited ==
    ~ cut /\ conn # None =>
        \/ <<"connected", conn>> \in audit
        \/ \E c \in Calls : Completes(c, conn)

Accounted(g) ==
    \/ <<"connected", g>> \in audit \/ g \in asked
    \/ \E c \in Calls : Completes(c, g)

\* "Everything after a successful exchange is wrapped": a callback that is over has
\* connected the mailbox with what Google granted, or has asked for its revocation.
\* What is forgotten is a grant whose answer was lost, and no other.
GrantsAccountedFor ==
    ~ cut => \A g \in Grants : from[g] # None => Accounted(g) \/ g \in lost

\* While no callback overlaps another call and none is cut short, the mailbox is
\* connected with the credential of the same callback, or not at all, however
\* disconnects overlap and callbacks fail.
MailboxIsWhole == ~ Busy /\ ~ cut /\ ~ overlapped => conn = cred.grant

\* A disconnect that is answered has left nothing: no row, no credential, no
\* pending approval, jobs stopped, and the end of the mailbox on record, even if
\* other disconnects of it are still at work.
DisconnectIsComplete ==
    \A c \in Calls : At(c, "answer") /\ ~ overlapped =>
        /\ conn = None /\ cred.grant = None /\ stopped /\ ~ pending
        /\ call[c].saw # None => <<"disconnected", call[c].saw>> \in audit

\* What CredentialLifecycle assumes of the credential row: the calls change it
\* only as its Connect, Revoke and Delete do.
Nobody == [x \in {} |-> None]

Row == INSTANCE CredentialLifecycle WITH
    Instances <- {}, Requests <- {}, Flights <- {},
    health <- None, cache <- Nobody, inflight <- Nobody, flight <- Nobody, call <- Nobody,
    held <- Nobody, used <- saved, revoked <- destroyed, interrupted <- FALSE

RowAsAssumed == Row!Spec

-----------------------------------------------------------------------------
(* What the repository says, and the code does not do. *)

\* googleConnect.ts: "Any failure leaves NO half-connected mailbox".
NeverHalfConnected == ~ Busy /\ ~ cut /\ conn # None => cred.status = "live"

\* googleConnect.ts: "ANY failure fully rolls back: revoke the fresh token".  A grant
\* whose answer is lost stays in force at Google.
EveryGrantAccountedFor == ~ cut => \A g \in Grants : from[g] # None => Accounted(g)
=============================================================================
