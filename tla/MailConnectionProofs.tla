------------------------ MODULE MailConnectionProofs ------------------------
(***************************************************************************)
(* MailConnection for any number of authorizations, consents and calls:    *)
(* states are exchanged once and on record, what Google answered with is   *)
(* accounted for, undisturbed callbacks and disconnects leave the rows     *)
(* whole or gone, and the credential row changes as CredentialLifecycle    *)
(* assumes.                                                                *)
(***************************************************************************)
EXTENDS MailConnection, TLAPS

USE NoneAssumption

-----------------------------------------------------------------------------
(* The inductive invariant *)

Undoing  == {"undo_cred", "undo_conn", "undo_grant", "undo_audit"}
Granted  == {"profile", "saving", "connecting", "auditing"} \cup Undoing
Callback == {"exchanging"} \cup Granted

\* What a call holds at each of its steps.
CallFits(c) ==
    /\ At(c, "idle") => call[c] = Idle
    /\ call[c].pc \in Callback <=> call[c].state # None
    /\ At(c, "exchanging") => call[c].grant = None /\ \A g \in Grants : from[g] # call[c].state
    /\ call[c].pc \in Granted => call[c].grant \in Grants /\ from[call[c].grant] = call[c].state
    /\ At(c, "undo_audit") => call[c].grant \in asked
    /\ At(c, "revoke") => call[c].grant \in Grants
    /\ At(c, "log") => call[c].saw \in Grants

\* A state in use, or exchanged, was consumed, for one callback and one grant.
StatesFit ==
    /\ \A c \in Calls : call[c].state # None => oauth[call[c].state] = "consumed"
    /\ \A g \in Grants : from[g] # None => oauth[from[g]] = "consumed"
    /\ \A c, d \in Calls : call[c].state # None /\ call[c].state = call[d].state => c = d
    /\ ExchangedOnce

StartsFit == \A t \in States : oauth[t] \in {"open", "consumed"} => <<"start", t>> \in audit

Filling  == {"profile", "saving"}
Unlisted == {"profile", "saving", "connecting", "undo_grant", "undo_audit"}

\* Rows hold only what was exchanged, and what callbacks have put there.
RowsFit ==
    /\ \A x \in saved : from[x] # None
    /\ conn # None => from[conn] # None
    /\ \A c \in Calls :
        /\ call[c].pc \in Filling => call[c].grant \notin saved
        /\ call[c].pc \in Unlisted => call[c].grant # conn

-----------------------------------------------------------------------------
(* Updates of one call *)

LEMMA IdleType == Idle \in Call
BY DEF Idle, Call

LEMMA GoesUpdate ==
    ASSUME TypeOK, NEW c \in Calls,
           NEW pc \in {"exchanging", "profile", "saving", "connecting", "auditing",
                       "undo_cred", "undo_conn", "undo_grant", "undo_audit",
                       "find", "read", "open", "revoke", "destroy", "stop", "invalidate",
                       "remove", "log", "answer"},
           Goes(c, pc)
    PROVE  /\ call' \in [Calls -> Call]
           /\ call'[c].pc = pc /\ call'[c].state = call[c].state
           /\ call'[c].grant = call[c].grant /\ call'[c].saw = call[c].saw
           /\ \A d \in Calls : d # c => call'[d] = call[d]
<1>1. call[c] \in Call /\ call \in [Calls -> Call]
  BY DEF TypeOK
<1>2. call' = [call EXCEPT ![c] = [call[c] EXCEPT !.pc = pc]]
  BY <1>1 DEF Goes
<1>3. [call[c] EXCEPT !.pc = pc] \in Call
  BY <1>1 DEF Call
<1> QED BY <1>1, <1>2, <1>3 DEF Call

LEMMA EndsUpdate ==
    ASSUME TypeOK, NEW c \in Calls, Ends(c)
    PROVE  /\ call' \in [Calls -> Call] /\ call'[c] = Idle
           /\ \A d \in Calls : d # c => call'[d] = call[d]
BY IdleType DEF Ends, TypeOK

LEMMA SetUpdate ==
    ASSUME TypeOK, NEW c \in Calls, NEW x \in Call, call' = [call EXCEPT ![c] = x]
    PROVE  /\ call' \in [Calls -> Call] /\ call'[c] = x
           /\ \A d \in Calls : d # c => call'[d] = call[d]
BY DEF TypeOK

-----------------------------------------------------------------------------
(* Types *)

LEMMA AuthorizeType ==
    ASSUME TypeOK, NEW t \in States, Start(t) \/ AuditStart(t) \/ Expire(t)
    PROVE  TypeOK'
BY DEF Start, AuditStart, Expire, Authorize, rows, TypeOK

LEMMA BeginType ==
    ASSUME TypeOK, NEW c \in Calls, Find(c) \/ \E t \in States : Consume(c, t)
    PROVE  TypeOK'
<1>1. call' \in [Calls -> Call]
  <2>1. CASE Find(c)
    <3>1. [Idle EXCEPT !.pc = "find"] \in Call
      BY DEF Idle, Call
    <3> QED BY <2>1, <3>1, SetUpdate DEF Find, Begins
  <2>2. ASSUME NEW t \in States, Consume(c, t) PROVE call' \in [Calls -> Call]
    <3>1. [Idle EXCEPT !.pc = "exchanging", !.state = t] \in Call
      BY DEF Idle, Call
    <3> QED BY <2>2, <3>1, SetUpdate DEF Consume, Begins
  <2> QED BY <2>1, <2>2
<1>2. overlapped' \in BOOLEAN
  BY DEF Find, Consume, Begins, TypeOK
<1>3. oauth' \in [States -> {"absent", "put", "open", "consumed", "dead"}]
  BY DEF Find, Consume, TypeOK
<1> QED BY <1>1, <1>2, <1>3 DEF Find, Consume, rows, TypeOK

LEMMA CallbackType ==
    ASSUME TypeOK, NEW c \in Calls, CallFits(c), CallbackStep(c)
    PROVE  TypeOK'
<1>1. ASSUME NEW t \in States, Consume(c, t) PROVE TypeOK'
  BY <1>1, BeginType
<1>2. ASSUME NEW g \in Grants, NEW offline \in BOOLEAN, Exchange(c, g, offline) PROVE TypeOK'
  <2>1. /\ call[c] \in Call
        /\ call[c].state \in States
    BY <1>2 DEF TypeOK, CallFits, Exchange, At, Call, Callback
  <2>2. [call[c] EXCEPT !.pc = IF offline THEN "profile" ELSE "undo_grant", !.grant = g] \in Call
    BY <2>1 DEF Call
  <2>3. call' \in [Calls -> Call]
    BY <1>2, <2>2 DEF Exchange, TypeOK
  <2> QED BY <1>2, <2>1, <2>3 DEF Exchange, rows, TypeOK
<1>3. call[c].pc \in Granted => call[c].grant \in Grants /\ call[c].state \in States
  BY DEF CallFits, TypeOK, Call, Granted, Callback
<1>4. CASE FailEarly(c) \/ Profile(c) \/ Fail(c)
  BY <1>4, GoesUpdate, EndsUpdate DEF FailEarly, Profile, Fail, rows, TypeOK
<1>5. CASE SaveCred(c)
  BY <1>3, <1>5, GoesUpdate DEF SaveCred, TypeOK, At, Granted
<1>6. CASE SaveConn(c)
  BY <1>3, <1>6, GoesUpdate DEF SaveConn, TypeOK, At, Granted
<1>7. CASE AuditConnected(c)
  BY <1>3, <1>7, GoesUpdate, EndsUpdate DEF AuditConnected, rows, TypeOK, At, Granted
<1>8. CASE UndoCred(c)
  BY <1>8, GoesUpdate DEF UndoCred, Held, TypeOK
<1>9. CASE UndoConn(c)
  BY <1>9, GoesUpdate DEF UndoConn, TypeOK
<1>10. CASE UndoGrant(c)
  BY <1>3, <1>10, GoesUpdate DEF UndoGrant, rows, TypeOK, At, Granted, Undoing
<1>11. CASE UndoAudit(c)
  BY <1>3, <1>11, EndsUpdate DEF UndoAudit, rows, TypeOK, At, Granted, Undoing
<1>12. ASSUME NEW g \in Grants, ExchangeLost(c, g) PROVE TypeOK'
  <2>1. call[c].state \in States
    BY <1>12 DEF TypeOK, CallFits, ExchangeLost, At, Call, Callback
  <2> QED BY <1>12, <2>1, EndsUpdate DEF ExchangeLost, rows, TypeOK
<1> QED BY <1>1, <1>2, <1>4, <1>5, <1>6, <1>7, <1>8, <1>9, <1>10, <1>11, <1>12
        DEF CallbackStep

LEMMA DisconnectType ==
    ASSUME TypeOK, NEW c \in Calls, CallFits(c), DisconnectStep(c)
    PROVE  TypeOK'
<1>0. call[c] \in Call /\ call \in [Calls -> Call]
  BY DEF TypeOK
<1>1. CASE Find(c)
  BY <1>1, BeginType
<1>2. CASE FindAgain(c)
  <2>1. [call[c] EXCEPT !.pc = "read", !.saw = conn] \in Call
    BY <1>0 DEF TypeOK, Call
  <2>2. call' = [call EXCEPT ![c] = [call[c] EXCEPT !.pc = "read", !.saw = conn]]
    BY <1>0, <1>2 DEF FindAgain
  <2>3. call' \in [Calls -> Call]
    BY <2>1, <2>2, SetUpdate
  <2> QED BY <1>2, <2>3 DEF FindAgain, rows, TypeOK
<1>3. CASE OpenToken(c)
  <2>1. ASSUME cred.status = "live",
               call' = [call EXCEPT ![c].pc = "revoke", ![c].grant = cred.grant]
        PROVE  call' \in [Calls -> Call]
    <3>1. [call[c] EXCEPT !.pc = "revoke", !.grant = cred.grant] \in Call
      BY <1>0, <2>1 DEF TypeOK, Call
    <3>2. call' = [call EXCEPT ![c] = [call[c] EXCEPT !.pc = "revoke", !.grant = cred.grant]]
      BY <1>0, <2>1
    <3> QED BY <3>1, <3>2, SetUpdate
  <2>2. call' \in [Calls -> Call]
    BY <1>3, <2>1, GoesUpdate DEF OpenToken
  <2> QED BY <1>3, <2>2 DEF OpenToken, rows, TypeOK
<1>4. CASE ReadCred(c) \/ AnswerDisconnected(c)
  BY <1>4, GoesUpdate, EndsUpdate DEF ReadCred, AnswerDisconnected, rows, TypeOK
<1>5. CASE Destroy(c)
  BY <1>5, GoesUpdate DEF Destroy, Held, TypeOK
<1>6. CASE Stop(c) \/ Invalidate(c) \/ Remove(c)
  BY <1>6, GoesUpdate DEF Stop, Invalidate, Remove, TypeOK
<1>7. CASE AskRevoke(c)
  BY <1>7, GoesUpdate DEF AskRevoke, CallFits, rows, TypeOK
<1>8. CASE LogDisconnect(c)
  BY <1>8, GoesUpdate DEF LogDisconnect, CallFits, rows, TypeOK
<1> QED BY <1>1, <1>2, <1>3, <1>4, <1>5, <1>6, <1>7, <1>8 DEF DisconnectStep

LEMMA OtherType ==
    ASSUME TypeOK, Approve \/ \E c \in Calls : Cut(c)
    PROVE  TypeOK'
BY EndsUpdate DEF Approve, Cut, rows, TypeOK

LEMMA TypeStep ==
    ASSUME TypeOK, \A c \in Calls : CallFits(c), [Next]_vars
    PROVE  TypeOK'
<1>1. CASE UNCHANGED vars
  BY <1>1 DEF vars, TypeOK
<1> QED BY <1>1, AuthorizeType, CallbackType, DisconnectType, OtherType DEF Next

-----------------------------------------------------------------------------
(* Calls *)

Base == TypeOK /\ (\A c \in Calls : CallFits(c)) /\ StatesFit

CallStep(c) == CallbackStep(c) \/ DisconnectStep(c) \/ Cut(c)

LEMMA BeginsUpdate ==
    ASSUME TypeOK, NEW c \in Calls, NEW t \in States \cup {None},
           NEW pc \in {"exchanging", "find"}, Begins(c, [Idle EXCEPT !.pc = pc, !.state = t])
    PROVE  /\ call'[c] = [pc |-> pc, state |-> t, grant |-> None, saw |-> None]
           /\ \A d \in Calls : d # c => call'[d] = call[d]
BY SetUpdate DEF Begins, TypeOK, Idle

LEMMA ExchangeUpdate ==
    ASSUME TypeOK, NEW c \in Calls, NEW g \in Grants, NEW offline \in BOOLEAN,
           Exchange(c, g, offline)
    PROVE  /\ call'[c].pc = (IF offline THEN "profile" ELSE "undo_grant")
           /\ call'[c].state = call[c].state /\ call'[c].grant = g
           /\ \A d \in Calls : d # c => call'[d] = call[d]
           /\ from' = [from EXCEPT ![g] = call[c].state] /\ from[g] = None
           /\ At(c, "exchanging")
<1>1. call[c] \in Call /\ call \in [Calls -> Call]
  BY DEF TypeOK
<1> QED BY <1>1 DEF Exchange, Call

LEMMA LostUpdate ==
    ASSUME TypeOK, NEW c \in Calls, NEW g \in Grants, ExchangeLost(c, g)
    PROVE  /\ call'[c] = Idle /\ \A d \in Calls : d # c => call'[d] = call[d]
           /\ from' = [from EXCEPT ![g] = call[c].state] /\ from[g] = None
           /\ lost' = lost \cup {g} /\ At(c, "exchanging")
           /\ UNCHANGED <<oauth, rows, audit, asked, overlapped, cut>>
BY EndsUpdate DEF ExchangeLost

\* Which fields a step of a callback after its exchange changes.
LEMMA OtherUpdate ==
    ASSUME TypeOK, NEW c \in Calls,
           \/ FailEarly(c) \/ Profile(c) \/ SaveCred(c) \/ SaveConn(c) \/ AuditConnected(c)
           \/ Fail(c) \/ UndoCred(c) \/ UndoConn(c) \/ UndoGrant(c) \/ UndoAudit(c)
    PROVE  /\ \/ call'[c] = Idle
              \/ /\ call'[c].state = call[c].state /\ call'[c].grant = call[c].grant
                 /\ call[c].pc \in Granted /\ call'[c].pc \in Granted
           /\ \A d \in Calls : d # c => call'[d] = call[d]
           /\ from' = from /\ oauth' = oauth /\ asked \subseteq asked'
           /\ call'[c].pc = "undo_audit" => call[c].grant \in asked'
<1>1. CASE FailEarly(c) \/ UndoAudit(c)
  BY <1>1, EndsUpdate DEF FailEarly, UndoAudit, Idle
<1>2. CASE Profile(c) \/ SaveCred(c) \/ SaveConn(c)
  BY <1>2, GoesUpdate DEF Profile, SaveCred, SaveConn, At, Granted
<1>3. CASE AuditConnected(c)
  BY <1>3, GoesUpdate, EndsUpdate DEF AuditConnected, At, Granted, Undoing, Idle
<1>4. CASE Fail(c)
  BY <1>4, GoesUpdate DEF Fail, At, Granted, Undoing
<1>5. CASE UndoCred(c) \/ UndoConn(c) \/ UndoGrant(c)
  BY <1>5, GoesUpdate DEF UndoCred, UndoConn, UndoGrant, At, Granted, Undoing
<1> QED BY <1>1, <1>2, <1>3, <1>4, <1>5

Disconnecting ==
    {"find", "read", "open", "revoke", "destroy", "stop", "invalidate", "remove", "log", "answer"}

LEMMA DisconnectUpdate ==
    ASSUME TypeOK, NEW c \in Calls, CallFits(c), DisconnectStep(c) \/ Cut(c)
    PROVE  /\ \/ call'[c] = Idle
              \/ /\ call'[c].state = None /\ call'[c].pc \in Disconnecting
                 /\ call'[c].pc = "revoke" => call'[c].grant \in Grants
                 /\ call'[c].pc = "log" => call'[c].saw \in Grants
           /\ \A d \in Calls : d # c => call'[d] = call[d]
           /\ from' = from /\ oauth' = oauth /\ asked \subseteq asked'
<1>0. call[c] \in Call /\ call \in [Calls -> Call]
  BY DEF TypeOK
<1>a. call[c].pc \in Disconnecting => call[c].state = None
  BY DEF CallFits, Callback, Granted, Undoing, Disconnecting
<1>1. CASE Find(c)
  <2>1. call' = [call EXCEPT ![c] = [pc |-> "find", state |-> None, grant |-> None, saw |-> None]]
    <3>1. [Idle EXCEPT !.pc = "find"]
            = [pc |-> "find", state |-> None, grant |-> None, saw |-> None]
      BY DEF Idle
    <3> QED BY <1>1, <3>1 DEF Find, Begins
  <2> QED BY <1>0, <1>1, <2>1 DEF Find, Disconnecting
<1>2. CASE FindAgain(c)
  BY <1>0, <1>a, <1>2 DEF FindAgain, At, Disconnecting, Call
<1>3. CASE OpenToken(c)
  BY <1>0, <1>a, <1>3, GoesUpdate DEF OpenToken, At, Disconnecting, Call, TypeOK
<1>4. CASE AnswerDisconnected(c) \/ Cut(c)
  BY <1>4, EndsUpdate DEF AnswerDisconnected, Cut
<1>5. CASE ReadCred(c) \/ AskRevoke(c) \/ Destroy(c) \/ Stop(c) \/ Invalidate(c)
  BY <1>a, <1>5, GoesUpdate
     DEF ReadCred, AskRevoke, Destroy, Stop, Invalidate, At, Disconnecting
<1>6. CASE Remove(c)
  BY <1>0, <1>a, <1>6, GoesUpdate DEF Remove, At, Disconnecting, Call
<1>7. CASE LogDisconnect(c)
  BY <1>a, <1>7, GoesUpdate DEF LogDisconnect, At, Disconnecting
<1> QED BY <1>1, <1>2, <1>3, <1>4, <1>5, <1>6, <1>7 DEF DisconnectStep

\* The calls that do not move still fit: what they hold is exchanged for good.
LEMMA OthersFit ==
    ASSUME Base, NEW c \in Calls, NEW d \in Calls, d # c, call'[d] = call[d],
           asked \subseteq asked',
           \/ from' = from
           \/ /\ call[c].state # None
              /\ \E g \in Grants : from[g] = None /\ from' = [from EXCEPT ![g] = call[c].state]
    PROVE  CallFits(d)'
<1>1. CallFits(d) /\ call[d] \in Call
  BY DEF Base, TypeOK
<1>2. CASE from' = from
  BY <1>1, <1>2 DEF CallFits, At
<1>3. ASSUME NEW g \in Grants, from[g] = None, from' = [from EXCEPT ![g] = call[c].state],
             call[c].state # None
      PROVE  CallFits(d)'
  <2>1. call[d].state # None => call[c].state # call[d].state
    BY DEF Base, StatesFit
  <2>2. \A h \in Grants : from'[h] = IF h = g THEN call[c].state ELSE from[h]
    BY <1>3 DEF Base, TypeOK
  <2>3. At(d, "exchanging") => \A h \in Grants : from'[h] # call[d].state
    BY <1>1, <2>1, <2>2 DEF CallFits, At, Callback
  <2>4. call[d].pc \in Granted => from'[call[d].grant] = call[d].state
    BY <1>1, <1>3, <2>2 DEF CallFits, At, Callback
  <2> QED BY <1>1, <2>3, <2>4 DEF CallFits, At
<1> QED BY <1>2, <1>3

LEMMA BeginFits ==
    ASSUME Base, NEW c \in Calls, NEW t \in States, Consume(c, t)
    PROVE  (\A d \in Calls : CallFits(d)') /\ StatesFit'
<1>1. /\ call'[c] = [pc |-> "exchanging", state |-> t, grant |-> None, saw |-> None]
      /\ \A d \in Calls : d # c => call'[d] = call[d]
  BY BeginsUpdate DEF Consume, Base
<1>2. /\ from' = from /\ asked' = asked /\ oauth[t] = "open"
      /\ \A u \in States : oauth'[u] = IF u = t THEN "consumed" ELSE oauth[u]
  BY DEF Consume, Base, TypeOK
<1>3. (\A g \in Grants : from[g] # t) /\ \A d \in Calls : call[d].state # t
  BY <1>2 DEF Base, StatesFit
<1>4. CallFits(c)'
  BY <1>1, <1>2, <1>3 DEF CallFits, At, Callback, Granted, Undoing
<1>5. \A d \in Calls : d # c => CallFits(d)'
  BY <1>1, <1>2, OthersFit
<1>6. (\A d \in Calls : call[d].state \in States \cup {None})
      /\ \A g \in Grants : from[g] \in States \cup {None}
  BY DEF Base, TypeOK, Call
<1>7. StatesFit'
  BY <1>1, <1>2, <1>3, <1>6 DEF Base, StatesFit, ExchangedOnce
<1> QED BY <1>4, <1>5, <1>7

LEMMA ExchangeFits ==
    ASSUME Base, NEW c \in Calls, NEW g \in Grants, NEW offline \in BOOLEAN,
           Exchange(c, g, offline)
    PROVE  (\A d \in Calls : CallFits(d)') /\ StatesFit'
<1>1. /\ call'[c].pc = (IF offline THEN "profile" ELSE "undo_grant")
      /\ call'[c].state = call[c].state /\ call'[c].grant = g
      /\ \A d \in Calls : d # c => call'[d] = call[d]
      /\ from' = [from EXCEPT ![g] = call[c].state] /\ from[g] = None
      /\ At(c, "exchanging")
  BY ExchangeUpdate DEF Base
<1>2. /\ call[c].state # None /\ \A h \in Grants : from[h] # call[c].state
      /\ oauth' = oauth /\ asked' = asked
      /\ \A h \in Grants : from'[h] = IF h = g THEN call[c].state ELSE from[h]
  BY <1>1 DEF Base, CallFits, Callback, Exchange, TypeOK, At
<1>3. CallFits(c)'
  BY <1>1, <1>2 DEF CallFits, At, Callback, Granted, Undoing
<1>4. \A d \in Calls : d # c => CallFits(d)'
  BY <1>1, <1>2, OthersFit
<1>5. StatesFit'
  BY <1>1, <1>2 DEF Base, StatesFit, ExchangedOnce
<1> QED BY <1>3, <1>4, <1>5

LEMMA LostFits ==
    ASSUME Base, NEW c \in Calls, NEW g \in Grants, ExchangeLost(c, g)
    PROVE  (\A d \in Calls : CallFits(d)') /\ StatesFit'
<1>1. /\ call'[c] = Idle /\ \A d \in Calls : d # c => call'[d] = call[d]
      /\ from' = [from EXCEPT ![g] = call[c].state] /\ from[g] = None
      /\ At(c, "exchanging") /\ oauth' = oauth /\ asked' = asked
  BY LostUpdate DEF Base
<1>2. /\ call[c].state # None /\ \A h \in Grants : from[h] # call[c].state
      /\ \A h \in Grants : from'[h] = IF h = g THEN call[c].state ELSE from[h]
  BY <1>1 DEF Base, CallFits, Callback, TypeOK, At
<1>3. CallFits(c)'
  BY <1>1 DEF CallFits, Idle, At, Callback, Granted, Undoing
<1>4. \A d \in Calls : d # c => CallFits(d)'
  BY <1>1, <1>2, OthersFit
<1>5. StatesFit'
  BY <1>1, <1>2 DEF Base, StatesFit, ExchangedOnce, Idle
<1> QED BY <1>3, <1>4, <1>5

\* A step that keeps the call's state and grant, or ends the call.
LEMMA StateKept ==
    ASSUME Base, NEW c \in Calls, call'[c].state \in {None, call[c].state},
           \A d \in Calls : d # c => call'[d] = call[d], from' = from, oauth' = oauth
    PROVE  StatesFit'
BY DEF Base, StatesFit, ExchangedOnce

LEMMA CallStepFits ==
    ASSUME Base, NEW c \in Calls, CallStep(c)
    PROVE  (\A d \in Calls : CallFits(d)') /\ StatesFit'
<1>0. CallFits(c) /\ Idle.pc = "idle" /\ Idle.state = None
  BY DEF Base, Idle
<1>1. CASE \/ FailEarly(c) \/ Profile(c) \/ SaveCred(c) \/ SaveConn(c) \/ AuditConnected(c)
           \/ Fail(c) \/ UndoCred(c) \/ UndoConn(c) \/ UndoGrant(c) \/ UndoAudit(c)
  <2>1. /\ \/ call'[c] = Idle
           \/ /\ call'[c].state = call[c].state /\ call'[c].grant = call[c].grant
              /\ call[c].pc \in Granted /\ call'[c].pc \in Granted
        /\ \A d \in Calls : d # c => call'[d] = call[d]
        /\ from' = from /\ oauth' = oauth /\ asked \subseteq asked'
        /\ call'[c].pc = "undo_audit" => call[c].grant \in asked'
    BY <1>1, OtherUpdate DEF Base
  <2>2. CallFits(c)'
    BY <1>0, <2>1 DEF CallFits, At, Callback, Granted, Undoing
  <2> QED BY <1>0, <2>1, <2>2, OthersFit, StateKept
<1>2. CASE DisconnectStep(c) \/ Cut(c)
  <2>1. /\ \/ call'[c] = Idle
           \/ /\ call'[c].state = None /\ call'[c].pc \in Disconnecting
              /\ call'[c].pc = "revoke" => call'[c].grant \in Grants
              /\ call'[c].pc = "log" => call'[c].saw \in Grants
        /\ \A d \in Calls : d # c => call'[d] = call[d]
        /\ from' = from /\ oauth' = oauth /\ asked \subseteq asked'
    BY <1>0, <1>2, DisconnectUpdate DEF Base
  <2>2. CallFits(c)'
    BY <1>0, <2>1 DEF CallFits, At, Callback, Granted, Undoing, Disconnecting
  <2> QED BY <1>0, <2>1, <2>2, OthersFit, StateKept
<1> QED BY <1>1, <1>2, BeginFits, ExchangeFits, LostFits DEF CallStep, CallbackStep

LEMMA BaseStep == Base /\ [Next]_vars => Base'
<1> SUFFICES ASSUME Base, [Next]_vars PROVE Base'
  OBVIOUS
<1>1. TypeOK'
  BY TypeStep DEF Base
<1>2. CASE UNCHANGED vars \/ Approve
  BY <1>1, <1>2 DEF vars, Approve, Base, CallFits, At, StatesFit, ExchangedOnce
<1>3. ASSUME NEW t \in States, Start(t) \/ AuditStart(t) \/ Expire(t) PROVE Base'
  <2>1. /\ UNCHANGED <<call, from, asked>>
        /\ \A u \in States : oauth[u] = "consumed" => oauth'[u] = "consumed"
    BY <1>3 DEF Start, AuditStart, Expire, Authorize, Base, TypeOK
  <2>2. (\A c \in Calls : call[c].state \in States \cup {None})
        /\ \A g \in Grants : from[g] \in States \cup {None}
    BY DEF Base, TypeOK, Call
  <2> QED BY <1>1, <2>1, <2>2 DEF Base, CallFits, At, StatesFit, ExchangedOnce
<1>4. ASSUME NEW c \in Calls, CallStep(c) PROVE Base'
  BY <1>1, <1>4, CallStepFits DEF Base
<1> QED BY <1>2, <1>3, <1>4 DEF Next, CallStep

LEMMA BaseInit == Init => Base
<1> SUFFICES ASSUME Init PROVE Base
  OBVIOUS
<1>1. TypeOK
  BY IdleType DEF Init, TypeOK
<1>2. (\A c \in Calls : CallFits(c)) /\ StatesFit
  BY DEF Init, Idle, CallFits, At, Callback, Granted, Undoing, StatesFit, ExchangedOnce
<1> QED BY <1>1, <1>2 DEF Base

\* Rows, calls and logs keep their types.
THEOREM TypeCorrect == Spec => []TypeOK
<1>1. Base => TypeOK
  BY DEF Base
<1> QED BY <1>1, BaseInit, BaseStep, PTL DEF Spec

\* An OAuth state is exchanged for one grant, however many callbacks present it
\* and wherever they fail.
THEOREM NoReplay == Spec => []ExchangedOnce
<1>1. Base => ExchangedOnce
  BY DEF Base, StatesFit
<1> QED BY <1>1, BaseInit, BaseStep, PTL DEF Spec

-----------------------------------------------------------------------------
(* Starts, rows and grants *)

LEMMA StartsStep == Base /\ StartsFit /\ [Next]_vars => StartsFit'
<1> SUFFICES ASSUME Base, StartsFit, [Next]_vars PROVE StartsFit'
  OBVIOUS
<1>1. audit \subseteq audit'
  BY DEF Next, vars, Start, AuditStart, Expire, Authorize, Approve, Cut,
         CallbackStep, Consume, Exchange, ExchangeLost, FailEarly, Profile, SaveCred,
         SaveConn, AuditConnected, Fail, UndoCred, UndoConn, UndoGrant, UndoAudit,
         DisconnectStep, Find, FindAgain, ReadCred, OpenToken, AskRevoke, Destroy, Stop,
         Invalidate, Remove, LogDisconnect, AnswerDisconnected
<1>2. CASE UNCHANGED oauth
  BY <1>1, <1>2 DEF StartsFit
<1>3. ASSUME NEW t \in States, Start(t) \/ AuditStart(t) \/ Expire(t) PROVE StartsFit'
  BY <1>1, <1>3 DEF Start, AuditStart, Expire, Authorize, StartsFit, Base, TypeOK
<1>4. ASSUME NEW c \in Calls, NEW t \in States, Consume(c, t) PROVE StartsFit'
  BY <1>1, <1>4 DEF Consume, StartsFit, Base, TypeOK
<1>5. ASSUME NEW c \in Calls, CallStep(c), \A t \in States : ~ Consume(c, t)
      PROVE  UNCHANGED oauth
  <2>1. ASSUME NEW g \in Grants, NEW offline \in BOOLEAN, Exchange(c, g, offline)
        PROVE  UNCHANGED oauth
    BY <2>1 DEF Exchange
  <2>2. CASE DisconnectStep(c) \/ Cut(c)
    BY <2>2, DisconnectUpdate DEF Base
  <2>3. ASSUME NEW g \in Grants, ExchangeLost(c, g) PROVE UNCHANGED oauth
    BY <2>3 DEF ExchangeLost
  <2> QED BY <1>5, <2>1, <2>2, <2>3, OtherUpdate DEF CallStep, CallbackStep, Base
<1> QED BY <1>2, <1>3, <1>4, <1>5 DEF Next, vars, Approve, CallStep

\* Google's codes are exchanged only for authorizations whose start is on record.
THEOREM NoUnauditedExchange == Spec => []ExchangedIsAudited
<1>1. Init => StartsFit
  BY DEF Init, StartsFit
<1>2. Base /\ StartsFit => ExchangedIsAudited
  BY DEF Base, TypeOK, StatesFit, StartsFit, ExchangedIsAudited
<1> QED BY <1>1, <1>2, BaseInit, BaseStep, StartsStep, PTL DEF Spec

\* Two callbacks never work on one grant.
LEMMA GrantsDiffer ==
    ASSUME Base, NEW c \in Calls, NEW d \in Calls, d # c,
           call[c].pc \in Granted, call[d].pc \in Granted
    PROVE  call[c].grant # call[d].grant
BY DEF Base, StatesFit, CallFits, Callback

LEMMA GrantedFits ==
    ASSUME Base, NEW c \in Calls, call[c].pc \in Granted
    PROVE  /\ call[c].grant \in Grants /\ call[c].state \in States
           /\ from[call[c].grant] = call[c].state
BY DEF Base, TypeOK, Call, CallFits, Callback

\* The rows as RowsFit sees them after a step: what a call may add to them is the
\* grant it works on, and nobody else works on it.
LEMMA RowsKept ==
    ASSUME Base, RowsFit, NEW c \in Calls, from' = from,
           \A d \in Calls : d # c => call'[d] = call[d],
           \/ saved' = saved
           \/ call[c].pc \in Granted /\ saved' = saved \cup {call[c].grant},
           \/ conn' = conn
           \/ conn' = None
           \/ call[c].pc \in Granted /\ conn' = call[c].grant,
           call'[c].pc \in Filling => call'[c].grant \notin saved',
           call'[c].pc \in Unlisted => call'[c].grant # conn'
    PROVE  RowsFit'
<1>1. \A g \in saved' : from'[g] # None
  BY GrantedFits DEF RowsFit
<1>2. conn' # None => from'[conn'] # None
  BY GrantedFits DEF RowsFit
<1>3. ASSUME NEW d \in Calls, d # c PROVE
        /\ call'[d].pc \in Filling => call'[d].grant \notin saved'
        /\ call'[d].pc \in Unlisted => call'[d].grant # conn'
  <2>1. call[d].pc \in Filling \cup Unlisted => call[d].pc \in Granted
    BY DEF Filling, Unlisted, Granted, Undoing
  <2>2. call[d].pc \in Granted =>
          /\ call[d].grant # None
          /\ call[c].pc \in Granted => call[d].grant # call[c].grant
    BY <1>3, GrantedFits, GrantsDiffer
  <2> QED BY <1>3, <2>1, <2>2 DEF RowsFit, Filling, Unlisted
<1> QED BY <1>1, <1>2, <1>3 DEF RowsFit, Filling, Unlisted

LEMMA ExchangeRows ==
    ASSUME Base, RowsFit, NEW b \in Calls, NEW new \in Grants, NEW offline \in BOOLEAN,
           Exchange(b, new, offline)
    PROVE  RowsFit'
<1>1. /\ call'[b].grant = new /\ \A d \in Calls : d # b => call'[d] = call[d]
      /\ from[new] = None /\ call[b].state # None
      /\ \A h \in Grants : from'[h] = IF h = new THEN call[b].state ELSE from[h]
  BY ExchangeUpdate DEF Base, TypeOK, CallFits, At, Callback
<1>2. new \notin saved /\ new # conn /\ saved \subseteq Grants /\ conn \in Grants \cup {None}
  BY <1>1 DEF RowsFit, Base, TypeOK
<1>3. saved' = saved /\ conn' = conn
  BY DEF Exchange, rows
<1>4. \A h \in saved' : from'[h] # None
  BY <1>1, <1>2, <1>3 DEF RowsFit
<1>5. conn' # None => from'[conn'] # None
  BY <1>1, <1>2, <1>3 DEF RowsFit
<1>6. \A d \in Calls : /\ call'[d].pc \in Filling => call'[d].grant \notin saved'
                       /\ call'[d].pc \in Unlisted => call'[d].grant # conn'
  BY <1>1, <1>2, <1>3 DEF RowsFit, Filling, Unlisted
<1> QED BY <1>4, <1>5, <1>6 DEF RowsFit, Filling, Unlisted

LEMMA LostRows ==
    ASSUME Base, RowsFit, NEW b \in Calls, NEW new \in Grants, ExchangeLost(b, new)
    PROVE  RowsFit'
<1>1. /\ call'[b].pc = "idle" /\ \A d \in Calls : d # b => call'[d] = call[d]
      /\ saved' = saved /\ conn' = conn
  BY LostUpdate DEF Base, Idle, rows
<1>2. \A h \in Grants : from[h] # None => from'[h] # None
  BY LostUpdate DEF Base, TypeOK
<1>3. saved \subseteq Grants /\ conn \in Grants \cup {None}
  BY DEF Base, TypeOK
<1> QED BY <1>1, <1>2, <1>3 DEF RowsFit, Filling, Unlisted

LEMMA CallbackRows ==
    ASSUME Base, RowsFit, NEW c \in Calls, CallbackStep(c)
    PROVE  RowsFit'
<1>0. TypeOK /\ Idle.pc = "idle"
  BY DEF Base, Idle
<1>r. /\ call[c].pc \in Filling => call[c].grant \notin saved
      /\ call[c].pc \in Unlisted => call[c].grant # conn
  BY DEF RowsFit
<1>g. /\ call[c].pc \in Filling \cup Unlisted => call[c].pc \in Granted
      /\ call[c].pc \in Granted => call[c].grant # None
  BY GrantedFits DEF Filling, Unlisted, Granted, Undoing
<1>1. ASSUME NEW t \in States, Consume(c, t) PROVE RowsFit'
  <2>1. /\ call'[c] = [pc |-> "exchanging", state |-> t, grant |-> None, saw |-> None]
        /\ \A d \in Calls : d # c => call'[d] = call[d]
    BY <1>0, <1>1, BeginsUpdate DEF Consume
  <2> QED BY <1>1, <2>1 DEF Consume, rows, RowsFit, Filling, Unlisted
<1>2. ASSUME NEW g \in Grants, NEW offline \in BOOLEAN, Exchange(c, g, offline) PROVE RowsFit'
  BY <1>2, ExchangeRows
<1>3. CASE FailEarly(c) \/ Profile(c) \/ Fail(c) \/ AuditConnected(c) \/ UndoAudit(c)
  BY <1>0, <1>r, <1>3, GoesUpdate, EndsUpdate, RowsKept
     DEF FailEarly, Profile, Fail, AuditConnected, UndoAudit, At, rows, Filling, Unlisted
<1>4. CASE SaveCred(c)
  BY <1>0, <1>r, <1>g, <1>4, GoesUpdate, RowsKept DEF SaveCred, At, Filling, Unlisted
<1>5. CASE SaveConn(c)
  BY <1>0, <1>r, <1>g, <1>5, GoesUpdate, RowsKept DEF SaveConn, At, Filling, Unlisted
<1>6. CASE UndoCred(c)
  BY <1>0, <1>r, <1>g, <1>6, GoesUpdate, RowsKept DEF UndoCred, At, Filling, Unlisted
<1>7. CASE UndoConn(c)
  <2>1. call[c].grant # None
    BY <1>7, <1>g DEF UndoConn, At, Granted, Undoing
  <2> QED BY <1>0, <1>7, <2>1, GoesUpdate, RowsKept DEF UndoConn, At, Filling, Unlisted
<1>8. CASE UndoGrant(c)
  BY <1>0, <1>r, <1>g, <1>8, GoesUpdate, RowsKept DEF UndoGrant, At, rows, Filling, Unlisted
<1>9. ASSUME NEW g \in Grants, ExchangeLost(c, g) PROVE RowsFit'
  BY <1>9, LostRows
<1> QED BY <1>1, <1>2, <1>3, <1>4, <1>5, <1>6, <1>7, <1>8, <1>9 DEF CallbackStep

LEMMA DisconnectRows ==
    ASSUME Base, RowsFit, NEW c \in Calls, DisconnectStep(c) \/ Cut(c)
    PROVE  RowsFit'
<1>1. /\ \/ call'[c] = Idle
         \/ call'[c].pc \in Disconnecting
      /\ \A d \in Calls : d # c => call'[d] = call[d]
      /\ from' = from
  BY DisconnectUpdate DEF Base
<1>2. call'[c].pc \notin Filling \cup Unlisted
  BY <1>1 DEF Idle, Disconnecting, Filling, Unlisted
<1>3. saved' = saved /\ conn' \in {conn, None}
  BY DEF DisconnectStep, Find, FindAgain, ReadCred, OpenToken, AskRevoke, Destroy, Stop,
         Invalidate, Remove, LogDisconnect, AnswerDisconnected, Cut, rows
<1> QED BY <1>1, <1>2, <1>3, RowsKept

LEMMA RowsStep == Base /\ RowsFit /\ [Next]_vars => RowsFit'
<1> SUFFICES ASSUME Base, RowsFit, [Next]_vars PROVE RowsFit'
  OBVIOUS
<1>1. CASE UNCHANGED <<call, from, saved, conn>>
  BY <1>1 DEF RowsFit
<1>2. ASSUME NEW c \in Calls, CallStep(c) PROVE RowsFit'
  BY <1>2, CallbackRows, DisconnectRows DEF CallStep
<1> QED BY <1>1, <1>2
        DEF Next, vars, rows, Start, AuditStart, Expire, Authorize, Approve, CallStep

\* A callback that works on x goes on doing so, or ends: with its connect on
\* record, or undone.
LEMMA CompletesKept ==
    ASSUME Base, NEW c \in Calls, CallStep(c), ~ cut', NEW x \in Grants,
           \E d \in Calls : Completes(d, x)
    PROVE  \/ \E d \in Calls : Completes(d, x)'
           \/ <<"connected", x>> \in audit'
           \/ At(c, "undo_audit") /\ call[c].grant = x
<1>0. TypeOK /\ CallFits(c)
  BY DEF Base
<1>1. PICK d \in Calls : Completes(d, x)
  OBVIOUS
<1>2. ASSUME NEW t \in States, Consume(c, t) PROVE Completes(d, x)'
  <2>1. d # c
    BY <1>0, <1>1, <1>2 DEF Consume, Begins, At, CallFits, Completes, Idle
  <2> QED BY <1>0, <1>1, <1>2, <2>1, BeginsUpdate DEF Consume, Completes
<1>3. ASSUME NEW g \in Grants, NEW offline \in BOOLEAN, Exchange(c, g, offline)
      PROVE  Completes(d, x)'
  <2>1. d # c
    BY <1>0, <1>1, <1>3 DEF Exchange, At, CallFits, Completes
  <2> QED BY <1>0, <1>1, <1>3, <2>1, ExchangeUpdate DEF Completes
<1>4. CASE DisconnectStep(c) \/ Cut(c)
  <2>1. DisconnectStep(c)
    BY <1>4 DEF Cut
  <2>2. \A e \in Calls : e # c => call'[e] = call[e]
    BY <1>0, <1>4, DisconnectUpdate
  <2>3. call[c].state = None
    BY <1>0, <2>1
       DEF DisconnectStep, Find, Begins, FindAgain, ReadCred, OpenToken, AskRevoke, Destroy,
           Stop, Invalidate, Remove, LogDisconnect, AnswerDisconnected, At, CallFits,
           Callback, Granted, Undoing
  <2> QED BY <1>1, <2>2, <2>3 DEF Completes
<1>5. CASE \/ FailEarly(c) \/ Profile(c) \/ SaveCred(c) \/ SaveConn(c) \/ AuditConnected(c)
           \/ Fail(c) \/ UndoCred(c) \/ UndoConn(c) \/ UndoGrant(c) \/ UndoAudit(c)
  <2>1. /\ \/ call'[c] = Idle
           \/ call'[c].state = call[c].state /\ call'[c].grant = call[c].grant
        /\ \A e \in Calls : e # c => call'[e] = call[e]
    BY <1>0, <1>5, OtherUpdate
  <2>2. CASE d # c \/ call'[c] # Idle
    BY <1>1, <2>1, <2>2 DEF Completes
  <2>3. CASE d = c /\ call'[c] = Idle
    <3>1. ~ At(c, "idle") /\ call[c].grant = x /\ x # None /\ Idle.pc = "idle"
      BY <1>0, <1>1, <2>3 DEF Completes, CallFits, At, Idle
    <3>2. ~ FailEarly(c)
      BY <1>0, <3>1 DEF FailEarly, CallFits
    <3>3. ~ (Profile(c) \/ SaveCred(c) \/ SaveConn(c) \/ Fail(c) \/ UndoCred(c)
             \/ UndoConn(c) \/ UndoGrant(c))
      BY <1>0, <2>3, <3>1, GoesUpdate
         DEF Profile, SaveCred, SaveConn, Fail, UndoCred, UndoConn, UndoGrant
    <3>4. AuditConnected(c) => <<"connected", x>> \in audit'
      BY <3>1 DEF AuditConnected
    <3>5. UndoAudit(c) => At(c, "undo_audit")
      BY DEF UndoAudit
    <3> QED BY <1>5, <3>1, <3>2, <3>3, <3>4, <3>5
  <2> QED BY <2>2, <2>3
<1>6. ASSUME CallbackStep(c), ~ \E t \in States : Consume(c, t),
             ~ \E g \in Grants, offline \in BOOLEAN : Exchange(c, g, offline),
             ~ \E g \in Grants : ExchangeLost(c, g)
      PROVE  \/ FailEarly(c) \/ Profile(c) \/ SaveCred(c) \/ SaveConn(c) \/ AuditConnected(c)
             \/ Fail(c) \/ UndoCred(c) \/ UndoConn(c) \/ UndoGrant(c) \/ UndoAudit(c)
  BY <1>6 DEF CallbackStep
<1>7. ASSUME NEW g \in Grants, ExchangeLost(c, g) PROVE Completes(d, x)'
  <2>1. d # c
    BY <1>0, <1>1, <1>7 DEF ExchangeLost, At, CallFits, Completes
  <2> QED BY <1>0, <1>1, <1>7, <2>1, LostUpdate DEF Completes
<1> QED BY <1>2, <1>3, <1>4, <1>5, <1>6, <1>7 DEF CallStep

\* Records are kept, and what was cut short stays so.
Kept ==
    /\ audit \subseteq audit' /\ asked \subseteq asked' /\ lost \subseteq lost'
    /\ cut => cut'

LEMMA CallbackKeeps == ASSUME NEW c \in Calls, CallbackStep(c) PROVE Kept
<1>1. ASSUME NEW t \in States, Consume(c, t) PROVE Kept
  BY <1>1 DEF Consume, Kept
<1>2. ASSUME NEW g \in Grants, NEW offline \in BOOLEAN, Exchange(c, g, offline) PROVE Kept
  BY <1>2 DEF Exchange, Kept
<1>3. CASE FailEarly(c) \/ Profile(c) \/ SaveCred(c) \/ SaveConn(c) \/ Fail(c)
  BY <1>3 DEF FailEarly, Profile, SaveCred, SaveConn, Fail, Kept
<1>4. CASE AuditConnected(c)
  BY <1>4 DEF AuditConnected, Kept
<1>5. CASE UndoCred(c) \/ UndoConn(c) \/ UndoGrant(c)
  BY <1>5 DEF UndoCred, UndoConn, UndoGrant, Kept
<1>6. CASE UndoAudit(c)
  BY <1>6 DEF UndoAudit, Kept
<1>7. ASSUME NEW g \in Grants, ExchangeLost(c, g) PROVE Kept
  BY <1>7 DEF ExchangeLost, Kept
<1> QED BY <1>1, <1>2, <1>3, <1>4, <1>5, <1>6, <1>7 DEF CallbackStep

LEMMA DisconnectKeeps ==
    ASSUME NEW c \in Calls, DisconnectStep(c) \/ Cut(c) PROVE Kept
<1>1. CASE Find(c) \/ FindAgain(c) \/ ReadCred(c) \/ OpenToken(c) \/ AskRevoke(c)
  BY <1>1 DEF Find, FindAgain, ReadCred, OpenToken, AskRevoke, Kept
<1>2. CASE Destroy(c) \/ Stop(c) \/ Invalidate(c) \/ Remove(c)
  BY <1>2 DEF Destroy, Stop, Invalidate, Remove, Kept
<1>3. CASE LogDisconnect(c) \/ AnswerDisconnected(c) \/ Cut(c)
  BY <1>3 DEF LogDisconnect, AnswerDisconnected, Cut, Kept
<1> QED BY <1>1, <1>2, <1>3 DEF DisconnectStep

LEMMA Grows == [Next]_vars => Kept
<1> SUFFICES ASSUME [Next]_vars PROVE Kept
  OBVIOUS
<1>1. CASE UNCHANGED vars
  BY <1>1 DEF vars, Kept
<1>2. ASSUME NEW t \in States, Start(t) \/ AuditStart(t) \/ Expire(t) PROVE Kept
  BY <1>2 DEF Start, AuditStart, Expire, Authorize, Kept
<1>3. CASE Approve
  BY <1>3 DEF Approve, Kept
<1> QED BY <1>1, <1>2, <1>3, CallbackKeeps, DisconnectKeeps DEF Next

\* Only the callback that saves it gives the connection another grant.
LEMMA ConnKept ==
    ASSUME NEW c \in Calls, CallStep(c), ~ SaveConn(c) PROVE conn' \in {conn, None}
<1>1. ASSUME NEW t \in States, Consume(c, t) PROVE conn' = conn
  BY <1>1 DEF Consume, rows
<1>2. ASSUME NEW g \in Grants, NEW offline \in BOOLEAN, Exchange(c, g, offline)
      PROVE  conn' = conn
  BY <1>2 DEF Exchange, rows
<1>3. CASE \/ FailEarly(c) \/ Profile(c) \/ SaveCred(c) \/ AuditConnected(c) \/ Fail(c)
           \/ UndoCred(c) \/ UndoConn(c) \/ UndoGrant(c) \/ UndoAudit(c)
  BY <1>3 DEF FailEarly, Profile, SaveCred, AuditConnected, Fail, UndoCred, UndoConn,
              UndoGrant, UndoAudit, rows
<1>4. CASE \/ Find(c) \/ FindAgain(c) \/ ReadCred(c) \/ OpenToken(c) \/ AskRevoke(c)
           \/ Destroy(c) \/ Stop(c) \/ Invalidate(c) \/ Remove(c) \/ LogDisconnect(c)
           \/ AnswerDisconnected(c) \/ Cut(c)
  BY <1>4 DEF Find, FindAgain, ReadCred, OpenToken, AskRevoke, Destroy, Stop, Invalidate,
              Remove, LogDisconnect, AnswerDisconnected, Cut, rows
<1>5. ASSUME NEW g \in Grants, ExchangeLost(c, g) PROVE conn' = conn
  BY <1>5 DEF ExchangeLost, rows
<1> QED BY <1>1, <1>2, <1>3, <1>4, <1>5 DEF CallStep, CallbackStep, DisconnectStep

LEMMA ListedStep ==
    Base /\ RowsFit /\ ListedIsAudited /\ [Next]_vars => ListedIsAudited'
<1> SUFFICES ASSUME Base, Base', RowsFit, ListedIsAudited, [Next]_vars, ~ cut',
                    NEW x \in Grants, conn' = x
             PROVE  \/ <<"connected", x>> \in audit'
                    \/ \E d \in Calls : Completes(d, x)'
  <2>1. ASSUME Base', ~ cut', conn' # None PROVE conn' \in Grants
    BY <2>1 DEF Base, TypeOK
  <2> QED BY <2>1, BaseStep DEF ListedIsAudited, Completes
<1>0. audit \subseteq audit' /\ ~ cut /\ x # None
  BY Grows DEF Kept
<1>1. CASE UNCHANGED <<conn, call>>
  BY <1>0, <1>1 DEF ListedIsAudited, Completes
<1>2. ASSUME NEW c \in Calls, CallStep(c)
      PROVE  \/ <<"connected", x>> \in audit'
             \/ \E d \in Calls : Completes(d, x)'
  <2>1. CASE SaveConn(c)
    <3>1. x = call[c].grant /\ call[c].state # None
      BY <2>1, GrantedFits DEF SaveConn, At, Granted
    <3>2. call'[c].grant = call[c].grant /\ call'[c].state = call[c].state
      BY <2>1, GoesUpdate DEF SaveConn, Base
    <3> QED BY <3>1, <3>2 DEF Completes
  <2>2. CASE ~ SaveConn(c)
    <3>1. conn = x
      BY <1>0, <1>2, <2>2, ConnKept
    <3>2. CASE <<"connected", x>> \in audit
      BY <1>0, <3>2
    <3>3. CASE \E d \in Calls : Completes(d, x)
      <4>1. ~ (At(c, "undo_audit") /\ call[c].grant = x)
        BY <3>1 DEF RowsFit, Unlisted, At
      <4> QED BY <1>2, <3>3, <4>1, CompletesKept
    <3> QED BY <1>0, <3>1, <3>2, <3>3 DEF ListedIsAudited
  <2> QED BY <2>1, <2>2
<1> QED BY <1>1, <1>2
        DEF Next, vars, rows, Start, AuditStart, Expire, Authorize, Approve, CallStep

LEMMA AccountedStep ==
    Base /\ GrantsAccountedFor /\ [Next]_vars => GrantsAccountedFor'
<1> SUFFICES ASSUME Base, GrantsAccountedFor, [Next]_vars, ~ cut',
                    NEW x \in Grants, from'[x] # None
             PROVE  Accounted(x)' \/ x \in lost'
  BY DEF GrantsAccountedFor
<1>0. audit \subseteq audit' /\ asked \subseteq asked' /\ lost \subseteq lost' /\ ~ cut
  BY Grows DEF Kept
<1>1. CASE UNCHANGED <<from, call>>
  BY <1>0, <1>1 DEF GrantsAccountedFor, Accounted, Completes
<1>2. ASSUME NEW c \in Calls, CallStep(c)
      PROVE  Accounted(x)' \/ x \in lost'
  <2>1. CASE from[x] # None
    <3>1. At(c, "undo_audit") => call[c].grant \in asked
      BY DEF Base, CallFits
    <3>2. Accounted(x) => Accounted(x)'
      BY <1>0, <1>2, <3>1, CompletesKept DEF Accounted
    <3> QED BY <1>0, <2>1, <3>2 DEF GrantsAccountedFor
  <2>2. CASE from[x] = None
    <3>1. \/ \E g \in Grants, offline \in BOOLEAN : Exchange(c, g, offline)
          \/ \E g \in Grants : ExchangeLost(c, g)
      <4>1. from' # from
        BY <2>2
      <4> QED BY <1>2, <4>1, OtherUpdate, DisconnectUpdate
              DEF CallStep, CallbackStep, Consume, Base
    <3>2. ASSUME NEW g \in Grants, NEW offline \in BOOLEAN, Exchange(c, g, offline)
          PROVE  Accounted(x)'
      <4>1. /\ call'[c].grant = g /\ call'[c].state = call[c].state /\ call[c].state # None
            /\ from' = [from EXCEPT ![g] = call[c].state]
        BY <3>2, ExchangeUpdate DEF Base, CallFits, At, Callback
      <4>2. x = g
        BY <2>2, <4>1 DEF Base, TypeOK
      <4> QED BY <4>1, <4>2 DEF Accounted, Completes
    <3>3. ASSUME NEW g \in Grants, ExchangeLost(c, g) PROVE x \in lost'
      <4>1. from' = [from EXCEPT ![g] = call[c].state] /\ g \in lost'
        BY <3>3, LostUpdate DEF Base
      <4>2. x = g
        BY <2>2, <4>1 DEF Base, TypeOK
      <4> QED BY <4>1, <4>2
    <3> QED BY <3>1, <3>2, <3>3
  <2> QED BY <2>1, <2>2
<1> QED BY <1>1, <1>2
        DEF Next, vars, rows, Start, AuditStart, Expire, Authorize, Approve, CallStep

\* While no call is cut short, a listed mailbox is on record as connected, ...
THEOREM ListedOnRecord == Spec => []ListedIsAudited
<1>1. Init => RowsFit /\ ListedIsAudited
  BY DEF Init, Idle, RowsFit, Filling, Unlisted, ListedIsAudited
<1> QED BY <1>1, BaseInit, BaseStep, RowsStep, ListedStep, PTL DEF Spec

\* ... and what Google granted is connected on record, given back, being worked on,
\* or was granted in an answer that never came: whatever fails once the exchange
\* has been answered, no grant is forgotten.
THEOREM OnlyLostAnswersForget == Spec => []GrantsAccountedFor
<1>1. Init => GrantsAccountedFor
  BY DEF Init, GrantsAccountedFor
<1> QED BY <1>1, BaseInit, BaseStep, AccountedStep, PTL DEF Spec

-----------------------------------------------------------------------------
(* The credential row *)

LEMMA RowInit == Init => Row!Init
<1>1. Nobody = [x \in {} |-> Row!NoToken] /\ Nobody = [x \in {} |-> None]
      /\ Nobody = [x \in {} |-> Row!Landed] /\ Nobody = [x \in {} |-> {}]
      /\ Nobody = [x \in {} |-> [flight |-> None, token |-> None]]
  BY DEF Nobody
<1> QED BY <1>1 DEF Init, Row!Init

\* The row is left alone, given to a new grant, marked, or deleted.
LEMMA RowWrites ==
    ASSUME Base, RowsFit, NEW c \in Calls, CallStep(c)
    PROVE  Row!RowStep \/ UNCHANGED <<cred, saved, destroyed>>
<1>1. ASSUME NEW t \in States, Consume(c, t) PROVE UNCHANGED <<cred, saved, destroyed>>
  BY <1>1 DEF Consume, rows
<1>2. ASSUME NEW g \in Grants, NEW offline \in BOOLEAN, Exchange(c, g, offline)
      PROVE  UNCHANGED <<cred, saved, destroyed>>
  BY <1>2 DEF Exchange, rows
<1>3. CASE SaveCred(c)
  <2>1. call[c].grant \in Grants /\ call[c].grant \notin saved
    BY <1>3, GrantedFits DEF SaveCred, At, Granted, RowsFit, Filling
  <2>2. Row!Connect(call[c].grant)
    BY <1>3, <2>1 DEF SaveCred, Row!Connect, Row!NoteHeld, Nobody
  <2> QED BY <2>1, <2>2 DEF Row!RowStep
<1>4. CASE Destroy(c)
  <2>1. CASE cred.status = "live"
    <3>1. Row!Revoke
      BY <1>4, <2>1 DEF Destroy, Held, Row!Revoke, Row!NoteHeld, Nobody
    <3> QED BY <3>1 DEF Row!RowStep
  <2>2. CASE cred.status # "live"
    BY <1>4, <2>2 DEF Destroy, Held
  <2> QED BY <2>1, <2>2
<1>5. CASE UndoCred(c)
  <2>1. CASE cred.status # "absent"
    <3>1. Row!Delete
      BY <1>5, <2>1 DEF UndoCred, Held, Row!Delete, Row!HeldNow, Row!NoteHeld, Nobody
    <3> QED BY <3>1 DEF Row!RowStep
  <2>2. CASE cred.status = "absent"
    <3>1. cred = [status |-> "absent", grant |-> None]
      BY <2>2 DEF Base, TypeOK
    <3> QED BY <1>5, <3>1 DEF UndoCred, Held
  <2> QED BY <2>1, <2>2
<1>6. CASE \/ FailEarly(c) \/ Profile(c) \/ SaveConn(c) \/ AuditConnected(c) \/ Fail(c)
           \/ UndoConn(c) \/ UndoGrant(c) \/ UndoAudit(c)
  BY <1>6 DEF FailEarly, Profile, SaveConn, AuditConnected, Fail, UndoConn, UndoGrant,
              UndoAudit, rows
<1>7. CASE \/ Find(c) \/ FindAgain(c) \/ ReadCred(c) \/ OpenToken(c) \/ AskRevoke(c)
           \/ Stop(c) \/ Invalidate(c) \/ Remove(c) \/ LogDisconnect(c)
           \/ AnswerDisconnected(c) \/ Cut(c)
  BY <1>7 DEF Find, FindAgain, ReadCred, OpenToken, AskRevoke, Stop, Invalidate, Remove,
              LogDisconnect, AnswerDisconnected, Cut, rows
<1>8. ASSUME NEW g \in Grants, ExchangeLost(c, g) PROVE UNCHANGED <<cred, saved, destroyed>>
  BY <1>8 DEF ExchangeLost, rows
<1> QED BY <1>1, <1>2, <1>3, <1>4, <1>5, <1>6, <1>7, <1>8
        DEF CallStep, CallbackStep, DisconnectStep

LEMMA RowNext == Base /\ RowsFit /\ [Next]_vars => [Row!Next]_Row!vars
<1> SUFFICES ASSUME Base, RowsFit, [Next]_vars
             PROVE  Row!Next \/ UNCHANGED <<cred, saved, destroyed>>
  BY DEF Row!vars, Nobody
<1>1. ASSUME NEW c \in Calls, CallStep(c)
      PROVE  Row!Next \/ UNCHANGED <<cred, saved, destroyed>>
  BY <1>1, RowWrites DEF Row!Next
<1> QED BY <1>1
        DEF Next, vars, rows, Start, AuditStart, Expire, Authorize, Approve, CallStep

\* However callbacks, rollbacks and disconnects overlap, die and fail, they change
\* the credential row only as CredentialLifecycle lets its environment do.
THEOREM RowRefinement == Spec => RowAsAssumed
<1>1. Init => RowsFit
  BY DEF Init, Idle, RowsFit, Filling, Unlisted
<1>2. Spec => [](Base /\ RowsFit)
  BY <1>1, BaseInit, BaseStep, RowsStep, PTL DEF Spec
<1> QED BY <1>2, RowInit, RowNext, PTL DEF Spec, RowAsAssumed, Row!Spec

-----------------------------------------------------------------------------
(* While nothing overlaps a callback *)

\* What each step of a call knows of the rows then.
RowsAt(c) ==
    /\ At(c, "connecting") => cred.grant = call[c].grant
    /\ At(c, "undo_conn") => cred.grant = None
    /\ call[c].pc \in {"stop", "invalidate", "remove", "log", "answer"} => cred.grant = None
    /\ call[c].pc \in {"invalidate", "remove", "log", "answer"} => stopped
    /\ call[c].pc \in {"remove", "log", "answer"} => ~ pending
    /\ call[c].pc \in {"log", "answer"} => conn = None

Alone(c) == call[c].state # None => \A d \in Calls : d # c => At(d, "idle")

\* The steps between which the two rows differ.
Between == {"connecting", "undo_cred", "undo_conn", "stop", "invalidate", "remove"}

Settled == ~ cut => conn = cred.grant \/ \E c \in Calls : call[c].pc \in Between

QuietFits == ~ overlapped => Settled /\ \A c \in Calls : Alone(c) /\ RowsAt(c)

LogsFit ==
    \A c \in Calls : At(c, "answer") /\ call[c].saw # None
                        => <<"disconnected", call[c].saw>> \in audit

-----------------------------------------------------------------------------
(* Moves of one call *)

LEMMA ConsumeUpdate ==
    ASSUME Base, NEW c \in Calls, NEW t \in States, Consume(c, t)
    PROVE  /\ call'[c].pc = "exchanging"
           /\ \A d \in Calls : d # c => call'[d] = call[d]
<1>1. TypeOK /\ Begins(c, [Idle EXCEPT !.pc = "exchanging", !.state = t])
  BY DEF Base, Consume
<1>2. /\ call'[c] = [pc |-> "exchanging", state |-> t, grant |-> None, saw |-> None]
      /\ \A d \in Calls : d # c => call'[d] = call[d]
  BY <1>1, BeginsUpdate
<1> QED BY <1>2

LEMMA CallbackMoves ==
    ASSUME Base, NEW c \in Calls, CallbackStep(c)
    PROVE  /\ call'[c] = Idle \/ call'[c].pc \in Callback
           /\ \A d \in Calls : d # c => call'[d] = call[d]
<1>1. ASSUME NEW t \in States, Consume(c, t)
      PROVE  call'[c].pc \in Callback /\ \A d \in Calls : d # c => call'[d] = call[d]
  BY <1>1, ConsumeUpdate DEF Callback
<1>2. ASSUME NEW g \in Grants, NEW offline \in BOOLEAN, Exchange(c, g, offline)
      PROVE  call'[c].pc \in Callback /\ \A d \in Calls : d # c => call'[d] = call[d]
  BY <1>2, ExchangeUpdate DEF Base, Callback, Granted, Undoing
<1>3. CASE \/ FailEarly(c) \/ Profile(c) \/ SaveCred(c) \/ SaveConn(c) \/ AuditConnected(c)
           \/ Fail(c) \/ UndoCred(c) \/ UndoConn(c) \/ UndoGrant(c) \/ UndoAudit(c)
  BY <1>3, OtherUpdate DEF Base, Callback
<1>4. ASSUME NEW g \in Grants, ExchangeLost(c, g)
      PROVE  call'[c] = Idle /\ \A d \in Calls : d # c => call'[d] = call[d]
  BY <1>4, LostUpdate DEF Base
<1> QED BY <1>1, <1>2, <1>3, <1>4 DEF CallbackStep

\* Two steps of a callback have one way in.
LEMMA CallbackTo ==
    ASSUME Base, NEW c \in Calls, CallbackStep(c)
    PROVE  /\ call'[c].pc = "connecting" => SaveCred(c) /\ call'[c].grant = call[c].grant
           /\ call'[c].pc = "undo_conn" => UndoCred(c)
<1>0. TypeOK /\ Idle.pc = "idle"
  BY DEF Base, Idle
<1>1. ASSUME NEW t \in States, Consume(c, t) PROVE call'[c].pc = "exchanging"
  BY <1>1, ConsumeUpdate
<1>2. ASSUME NEW g \in Grants, NEW offline \in BOOLEAN, Exchange(c, g, offline)
      PROVE  call'[c].pc \in {"profile", "undo_grant"}
  BY <1>0, <1>2, ExchangeUpdate
<1>3. CASE FailEarly(c) \/ Profile(c) \/ SaveConn(c) \/ AuditConnected(c)
  BY <1>0, <1>3, GoesUpdate, EndsUpdate DEF FailEarly, Profile, SaveConn, AuditConnected
<1>4. CASE Fail(c) \/ UndoConn(c) \/ UndoGrant(c) \/ UndoAudit(c)
  BY <1>0, <1>4, GoesUpdate, EndsUpdate DEF Fail, UndoConn, UndoGrant, UndoAudit
<1>5. CASE SaveCred(c) \/ UndoCred(c)
  BY <1>0, <1>5, GoesUpdate DEF SaveCred, UndoCred
<1>6. ASSUME NEW g \in Grants, ExchangeLost(c, g) PROVE call'[c].pc = "idle"
  BY <1>0, <1>6, LostUpdate
<1> QED BY <1>1, <1>2, <1>3, <1>4, <1>5, <1>6 DEF CallbackStep

LEMMA FindUpdate ==
    ASSUME Base, NEW c \in Calls, Find(c)
    PROVE  call'[c].pc = "find"
<1>1. [Idle EXCEPT !.pc = "find"]
        = [pc |-> "find", state |-> None, grant |-> None, saw |-> None]
  BY DEF Idle
<1> QED BY <1>1 DEF Find, Begins, Base, TypeOK

LEMMA EarlyUpdate ==
    ASSUME Base, NEW c \in Calls,
           Find(c) \/ FindAgain(c) \/ ReadCred(c) \/ OpenToken(c) \/ AskRevoke(c)
    PROVE  call'[c].pc \in {"find", "read", "open", "revoke", "destroy"}
<1>0. TypeOK /\ call \in [Calls -> Call] /\ call[c] \in Call
  BY DEF Base, TypeOK
<1>1. CASE FindAgain(c)
  BY <1>0, <1>1 DEF FindAgain, Call
<1>2. CASE OpenToken(c)
  BY <1>0, <1>2, GoesUpdate DEF OpenToken, Call
<1>3. CASE ReadCred(c) \/ AskRevoke(c)
  BY <1>0, <1>3, GoesUpdate DEF ReadCred, AskRevoke
<1> QED BY <1>1, <1>2, <1>3, FindUpdate

LEMMA LogsStep ==
    ASSUME Base, LogsFit, NEW c \in Calls, CallStep(c)
    PROVE  LogsFit'
<1>0. /\ \A d \in Calls : d # c => call'[d] = call[d]
      /\ audit \subseteq audit'
  <2>1. CASE CallbackStep(c)
    BY <2>1, CallbackMoves, CallbackKeeps DEF Kept
  <2>2. CASE DisconnectStep(c) \/ Cut(c)
    BY <2>2, DisconnectUpdate, DisconnectKeeps DEF Base, Kept
  <2> QED BY <2>1, <2>2 DEF CallStep
<1>1. At(c, "answer")' /\ call'[c].saw # None => <<"disconnected", call'[c].saw>> \in audit'
  <2>1. CASE CallbackStep(c)
    BY <2>1, CallbackMoves DEF At, Callback, Granted, Undoing, Idle
  <2>2. CASE Remove(c)
    BY <2>2, GoesUpdate DEF Remove, Base, At
  <2>3. CASE LogDisconnect(c)
    BY <2>3, GoesUpdate DEF LogDisconnect, Base
  <2>4. CASE AnswerDisconnected(c) \/ Cut(c)
    BY <2>4, EndsUpdate DEF AnswerDisconnected, Cut, Base, At, Idle
  <2>5. CASE Find(c)
    BY <2>5, FindUpdate DEF At
  <2>6. CASE FindAgain(c) \/ OpenToken(c)
    <3>1. call \in [Calls -> Call] /\ call[c] \in Call
      BY DEF Base, TypeOK
    <3> QED BY <2>6, <3>1 DEF FindAgain, OpenToken, Goes, At, Call
  <2>7. CASE ReadCred(c) \/ AskRevoke(c) \/ Destroy(c) \/ Stop(c) \/ Invalidate(c)
    BY <2>7, GoesUpdate DEF ReadCred, AskRevoke, Destroy, Stop, Invalidate, Base, At
  <2> QED BY <2>1, <2>2, <2>3, <2>4, <2>5, <2>6, <2>7 DEF CallStep, DisconnectStep
<1> QED BY <1>0, <1>1 DEF LogsFit, At

\* A callback step that overlaps nothing finds every other call idle.
LEMMA QuietCallback ==
    ASSUME Base, QuietFits, NEW c \in Calls, CallbackStep(c), ~ overlapped'
    PROVE  QuietFits'
<1>0. /\ call'[c] = Idle \/ call'[c].pc \in Callback
      /\ \A d \in Calls : d # c => call'[d] = call[d]
      /\ TypeOK /\ CallFits(c)
  BY CallbackMoves DEF Base
<1>1. ~ overlapped /\ \A d \in Calls : d # c => At(d, "idle")
  <2>1. ASSUME NEW t \in States, Consume(c, t)
        PROVE  ~ overlapped /\ \A d \in Calls : d # c => At(d, "idle")
    BY <2>1 DEF Consume, Begins, Busy, At, Idle
  <2>2. ASSUME NEW g \in Grants, NEW offline \in BOOLEAN, Exchange(c, g, offline)
        PROVE  ~ overlapped /\ call[c].state # None
    BY <1>0, <2>2 DEF Exchange, At, CallFits, Callback
  <2>3. CASE \/ FailEarly(c) \/ Profile(c) \/ SaveCred(c) \/ SaveConn(c) \/ AuditConnected(c)
             \/ Fail(c) \/ UndoCred(c) \/ UndoConn(c) \/ UndoGrant(c) \/ UndoAudit(c)
    <3>1. ~ overlapped
      BY <2>3 DEF FailEarly, Profile, SaveCred, SaveConn, AuditConnected, Fail, UndoCred,
                  UndoConn, UndoGrant, UndoAudit
    <3>2. call[c].pc \in Callback
      BY <2>3 DEF FailEarly, Profile, SaveCred, SaveConn, AuditConnected, Fail, UndoCred,
                  UndoConn, UndoGrant, UndoAudit, At, Callback, Granted, Undoing
    <3> QED BY <1>0, <3>1, <3>2 DEF CallFits, QuietFits, Alone
  <2>4. ASSUME NEW g \in Grants, ExchangeLost(c, g)
        PROVE  ~ overlapped /\ call[c].state # None
    BY <1>0, <2>4 DEF ExchangeLost, At, CallFits, Callback
  <2> QED BY <2>1, <2>2, <2>3, <2>4 DEF CallbackStep, QuietFits, Alone
<1>2. \A d \in Calls : d # c => At(d, "idle")' /\ call'[d] = Idle
  BY <1>0, <1>1 DEF At, Base, CallFits
<1>3. \A d \in Calls : d # c => Alone(d)' /\ RowsAt(d)'
  BY <1>2 DEF Alone, RowsAt, At, Idle
<1>4. Alone(c)'
  BY <1>2 DEF Alone
<1>5. RowsAt(c)'
  <2>1. call'[c].pc \notin {"stop", "invalidate", "remove", "log", "answer"}
    BY <1>0 DEF Idle, Callback, Granted, Undoing
  <2>2. At(c, "connecting")' => cred'.grant = call'[c].grant
    BY <1>0, CallbackTo DEF At, SaveCred
  <2>3. At(c, "undo_conn")' => cred'.grant = None
    BY <1>0, CallbackTo DEF At, UndoCred
  <2> QED BY <2>1, <2>2, <2>3 DEF RowsAt, At
<1>6. Settled'
  <2>1. Settled /\ RowsAt(c) /\ \A d \in Calls : d # c => call[d].pc \notin Between
    BY <1>1 DEF QuietFits, At, Between
  <2>2. (cut => cut') /\ TypeOK
    BY CallbackKeeps DEF Kept, Base
  <2>3. CASE SaveCred(c)
    BY <1>0, <2>3, GoesUpdate DEF SaveCred, Settled, Between
  <2>4. CASE Fail(c)
    <3>1. CASE At(c, "profile")
      <4>1. UNCHANGED <<cred, conn>> /\ call[c].pc \notin Between
        BY <2>4, <3>1 DEF Fail, rows, At, Between
      <4> QED BY <2>1, <2>2, <4>1 DEF Settled
    <3>2. CASE ~ At(c, "profile")
      BY <1>0, <2>4, <3>2, GoesUpdate DEF Fail, Settled, Between
    <3> QED BY <3>1, <3>2
  <2>5. CASE SaveConn(c) \/ UndoConn(c)
    <3>1. conn' = cred'.grant
      BY <2>1, <2>5 DEF SaveConn, UndoConn, RowsAt
    <3> QED BY <3>1 DEF Settled
  <2>6. CASE UndoCred(c)
    BY <1>0, <2>6, GoesUpdate DEF UndoCred, Settled, Between
  <2>7. CASE \/ \E t \in States : Consume(c, t)
             \/ \E g \in Grants, offline \in BOOLEAN : Exchange(c, g, offline)
             \/ \E g \in Grants : ExchangeLost(c, g)
             \/ FailEarly(c) \/ Profile(c) \/ AuditConnected(c) \/ UndoGrant(c) \/ UndoAudit(c)
    <3>1. UNCHANGED <<cred, conn>> /\ call[c].pc \notin Between
      BY <1>0, <2>7 DEF Consume, Begins, Exchange, ExchangeLost, FailEarly, Profile,
                        AuditConnected, UndoGrant, UndoAudit, rows, At, Between
    <3> QED BY <2>1, <2>2, <3>1 DEF Settled
  <2> QED BY <2>3, <2>4, <2>5, <2>6, <2>7 DEF CallbackStep
<1> QED BY <1>3, <1>4, <1>5, <1>6 DEF QuietFits

\* A step of a disconnect then overlaps disconnects only.
LEMMA QuietDisconnect ==
    ASSUME Base, QuietFits, NEW c \in Calls, DisconnectStep(c), ~ overlapped'
    PROVE  QuietFits'
<1>0. /\ call'[c] = Idle \/ (call'[c].state = None /\ call'[c].pc \in Disconnecting)
      /\ \A d \in Calls : d # c => call'[d] = call[d]
      /\ TypeOK /\ CallFits(c)
  <2>1. TypeOK /\ CallFits(c)
    BY DEF Base
  <2>2. /\ \/ call'[c] = Idle
           \/ /\ call'[c].state = None /\ call'[c].pc \in Disconnecting
              /\ call'[c].pc = "revoke" => call'[c].grant \in Grants
              /\ call'[c].pc = "log" => call'[c].saw \in Grants
        /\ \A d \in Calls : d # c => call'[d] = call[d]
    BY <2>1, DisconnectUpdate
  <2> QED BY <2>1, <2>2
<1>1. ~ overlapped /\ \A d \in Calls : call[d].state = None
  <2>1. CASE Find(c)
    BY <2>1 DEF Find, Begins
  <2>2. CASE ~ Find(c)
    <3>1. overlapped' = overlapped
      BY <2>2 DEF DisconnectStep, FindAgain, ReadCred, OpenToken, AskRevoke, Destroy, Stop,
                  Invalidate, Remove, LogDisconnect, AnswerDisconnected
    <3>2. call[c].pc \in Disconnecting
      BY <2>2 DEF DisconnectStep, FindAgain, ReadCred, OpenToken, AskRevoke, Destroy, Stop,
                  Invalidate, Remove, LogDisconnect, AnswerDisconnected, At, Disconnecting
    <3>3. call[c].state = None /\ ~ At(c, "idle")
      BY <1>0, <3>2 DEF CallFits, At, Callback, Granted, Undoing, Disconnecting
    <3> QED BY <3>1, <3>3 DEF QuietFits, Alone
  <2> QED BY <2>1, <2>2
<1>2. \A d \in Calls : Alone(d)'
  BY <1>0, <1>1 DEF Alone, Idle
<1>3. /\ cred'.grant \in {cred.grant, None} /\ conn' \in {conn, None}
      /\ (stopped => stopped') /\ (pending' => pending)
  BY DEF DisconnectStep, Find, FindAgain, ReadCred, OpenToken, AskRevoke, Destroy, Stop,
         Invalidate, Remove, LogDisconnect, AnswerDisconnected, rows
<1>4. \A d \in Calls : call[d].pc \notin Callback
  BY <1>1 DEF Base, CallFits
<1>5. \A d \in Calls : d # c => RowsAt(d)'
  BY <1>0, <1>1, <1>3, <1>4 DEF QuietFits, RowsAt, At, Callback, Granted, Undoing
<1>6. RowsAt(c) /\ RowsAt(c)'
  <2>0. RowsAt(c) /\ call'[c].pc \notin {"connecting", "undo_conn"}
    BY <1>0, <1>1 DEF QuietFits, Idle, Disconnecting
  <2>1. CASE Destroy(c)
    <3>1. cred'.grant = None /\ call'[c].pc = "stop"
      BY <1>0, <2>1, GoesUpdate DEF Destroy, TypeOK
    <3> QED BY <2>0, <3>1 DEF RowsAt, At
  <2>2. CASE Stop(c)
    BY <1>0, <2>0, <2>2, GoesUpdate DEF Stop, RowsAt, At
  <2>3. CASE Invalidate(c)
    BY <1>0, <2>0, <2>3, GoesUpdate DEF Invalidate, RowsAt, At
  <2>4. CASE Remove(c)
    <3>1. call'[c].pc \in {"log", "answer"} /\ conn' = None
      BY <1>0, <2>4, GoesUpdate DEF Remove
    <3> QED BY <2>0, <2>4, <3>1 DEF Remove, RowsAt, At
  <2>5. CASE LogDisconnect(c)
    BY <1>0, <2>0, <2>5, GoesUpdate DEF LogDisconnect, rows, RowsAt, At
  <2>6. CASE AnswerDisconnected(c)
    BY <1>0, <2>0, <2>6, EndsUpdate DEF AnswerDisconnected, RowsAt, At, Idle
  <2>7. CASE Find(c) \/ FindAgain(c) \/ ReadCred(c) \/ OpenToken(c) \/ AskRevoke(c)
    <3>1. call'[c].pc \in {"find", "read", "open", "revoke", "destroy"}
      BY <1>0, <2>7, EarlyUpdate
    <3> QED BY <2>0, <3>1 DEF RowsAt, At
  <2> QED BY <2>1, <2>2, <2>3, <2>4, <2>5, <2>6, <2>7 DEF DisconnectStep
<1>7. Settled'
  <2>1. (cut => cut') /\ Settled
    BY <1>1, DisconnectKeeps DEF Kept, QuietFits
  <2>2. CASE Destroy(c) \/ Stop(c) \/ Invalidate(c)
    <3>1. call'[c].pc \in Between
      BY <1>0, <2>2, GoesUpdate DEF Destroy, Stop, Invalidate, Between
    <3> QED BY <3>1 DEF Settled
  <2>3. CASE Remove(c)
    <3>1. conn' = None /\ cred'.grant = None
      BY <1>6, <2>3 DEF Remove, RowsAt, At
    <3> QED BY <3>1 DEF Settled
  <2>4. CASE \/ Find(c) \/ FindAgain(c) \/ ReadCred(c) \/ OpenToken(c) \/ AskRevoke(c)
             \/ LogDisconnect(c) \/ AnswerDisconnected(c)
    <3>1. UNCHANGED <<cred, conn>> /\ call[c].pc \notin Between
      BY <2>4 DEF Find, Begins, FindAgain, ReadCred, OpenToken, AskRevoke, LogDisconnect,
                  AnswerDisconnected, rows, At, Between
    <3> QED BY <1>0, <2>1, <3>1 DEF Settled
  <2> QED BY <2>2, <2>3, <2>4 DEF DisconnectStep
<1> QED BY <1>2, <1>5, <1>6, <1>7 DEF QuietFits

LEMMA QuietStep ==
    Base /\ QuietFits /\ LogsFit /\ [Next]_vars => QuietFits' /\ LogsFit'
<1> SUFFICES ASSUME Base, QuietFits, LogsFit, [Next]_vars PROVE QuietFits' /\ LogsFit'
  OBVIOUS
<1>1. CASE UNCHANGED vars
  BY <1>1 DEF vars, QuietFits, Settled, Alone, RowsAt, At, LogsFit
<1>2. ASSUME NEW t \in States, Start(t) \/ AuditStart(t) \/ Expire(t)
      PROVE  QuietFits' /\ LogsFit'
  <2>1. UNCHANGED <<cred, conn, stopped, pending, call, overlapped, cut>> /\ audit \subseteq audit'
    BY <1>2 DEF Start, AuditStart, Expire, Authorize, rows
  <2> QED BY <2>1 DEF QuietFits, Settled, Alone, RowsAt, At, LogsFit
<1>3. CASE Approve
  <2>1. UNCHANGED <<cred, conn, call, audit, cut>> /\ (~ overlapped' => ~ overlapped /\ ~ Busy)
    BY <1>3 DEF Approve
  <2> QED BY <2>1 DEF QuietFits, Settled, Alone, RowsAt, At, LogsFit, Busy
<1>4. ASSUME NEW c \in Calls, Cut(c) PROVE QuietFits'
  <2>1. /\ call'[c] = Idle /\ \A d \in Calls : d # c => call'[d] = call[d]
        /\ UNCHANGED <<cred, conn, stopped, pending, overlapped>> /\ cut'
    BY <1>4, EndsUpdate DEF Cut, Base, rows
  <2> QED BY <2>1 DEF QuietFits, Settled, Alone, RowsAt, At, Idle
<1>5. ASSUME NEW c \in Calls, CallStep(c) PROVE QuietFits' /\ LogsFit'
  BY <1>4, <1>5, LogsStep, QuietCallback, QuietDisconnect DEF CallStep, QuietFits
<1> QED BY <1>1, <1>2, <1>3, <1>5 DEF Next, CallStep

LEMMA QuietSpec == Spec => [](QuietFits /\ LogsFit)
<1>1. Init => QuietFits /\ LogsFit
  BY DEF Init, Idle, QuietFits, Settled, Alone, RowsAt, At, LogsFit
<1> QED BY <1>1, BaseInit, BaseStep, QuietStep, PTL DEF Spec

\* Nothing overlapped, nothing cut short: at rest the mailbox is connected with the
\* credential its callback saved, or not at all.
THEOREM WholeAtRest == Spec => []MailboxIsWhole
<1>1. QuietFits => MailboxIsWhole
  BY DEF QuietFits, Settled, MailboxIsWhole, Busy, At, Between
<1> QED BY <1>1, QuietSpec, PTL

\* A disconnect is answered once every row is gone and its end is on record.
THEOREM DisconnectsAreComplete == Spec => []DisconnectIsComplete
<1>1. QuietFits /\ LogsFit => DisconnectIsComplete
  BY DEF QuietFits, RowsAt, LogsFit, DisconnectIsComplete, At
<1> QED BY <1>1, QuietSpec, PTL
=============================================================================
