------------------------ MODULE CredentialLifecycle ------------------------
(***************************************************************************)
(* createCredentialLifecycle for one connection: every instance of the     *)
(* program has an access-token cache and a single-flight map, all share    *)
(* the credential row and the health record.  The code of an instance is   *)
(* one thread: from one await to the next it runs undisturbed, so a        *)
(* refresh is cut into a step per await.  Connects and disconnects write   *)
(* the row meanwhile, as the statements of handleGoogleCallback and        *)
(* disconnectGoogle.                                                       *)
(***************************************************************************)
CONSTANTS
    Instances,
    Requests, \* callers of getFreshAccessToken
    Flights,  \* refreshes in progress, over all instances
    Grants,   \* consents of the user, each one refresh token and its rotations
    None

VARIABLES
    cred,     \* mail_credentials: the row, and the grant in its envelope
    health,   \* mail_connection_health: state
    cache,    \* per instance: the grant of the cached token, and its age
    inflight, \* per instance: the single-flight map
    flight,   \* where each refresh stands
    call,     \* per caller: the flight it waits for, the token it last got
    used,     \* grants given so far
    revoked,  \* grants a disconnect revoked or a rollback deleted
    held,     \* per flight: the grants the row has held since it started
    interrupted \* has a refresh been cut short, or a health write been lost?

vars == <<cred, health, cache, inflight, flight, call, used, revoked, held, interrupted>>
row  == <<cred, used, revoked, held>>

Health == {"refreshing", "healthy", "degraded", "reauthorization_required", "revoked"}
ASSUME NoneAssumption == None \notin Grants \cup Flights \cup Instances \cup Health

Age == {"fresh", "old"}   \* old: expired, or within refreshSkewMs of it

Credential == [status : {"absent", "live", "revoked"}, grant : Grants \cup {None}]
Cached     == [grant : Grants \cup {None}, age : Age]
Flight     == [pc : {"idle", "reading", "marking", "calling", "touching", "reporting"},
               inst : Instances \cup {None}, grant : Grants \cup {None},
               rotated : BOOLEAN, out : Health \cup {None}]

Call       == [flight : Flights \cup {None}, token : Grants \cup {None}]

NoToken == [grant |-> None, age |-> "old"]
Landed  == [pc |-> "idle", inst |-> None, grant |-> None, rotated |-> FALSE, out |-> None]

TypeOK ==
    /\ cred \in Credential
    /\ health \in Health \cup {None}
    /\ cache \in [Instances -> Cached]
    /\ inflight \in [Instances -> Flights \cup {None}]
    /\ flight \in [Flights -> Flight]
    /\ call \in [Requests -> Call]
    /\ used \subseteq Grants /\ revoked \subseteq Grants
    /\ held \in [Flights -> SUBSET Grants]
    /\ interrupted \in BOOLEAN

Init ==
    /\ cred = [status |-> "absent", grant |-> None]
    /\ health = None
    /\ cache = [i \in Instances |-> NoToken]
    /\ inflight = [i \in Instances |-> None]
    /\ flight = [f \in Flights |-> Landed]
    /\ call = [r \in Requests |-> [flight |-> None, token |-> None]]
    /\ used = {} /\ revoked = {}
    /\ held = [f \in Flights |-> {}]
    /\ interrupted = FALSE

\* The grant a read of row c finds; each refresh notes those of its time.
HeldNow(c) == IF c.status = "live" THEN {c.grant} ELSE {}
NoteHeld   == held' = [f \in Flights |-> held[f] \cup HeldNow(cred')]

-----------------------------------------------------------------------------
(* The row, as connects and disconnects change it *)

\* saveMailCredential: an upsert.
Connect(g) ==
    /\ g \notin used
    /\ used' = used \cup {g}
    /\ cred' = [status |-> "live", grant |-> g]
    /\ NoteHeld
    /\ UNCHANGED <<health, cache, inflight, flight, call, revoked, interrupted>>

\* revokeMailCredential: the ciphertext is destroyed.
Revoke ==
    /\ cred.status = "live"
    /\ cred' = [status |-> "revoked", grant |-> None]
    /\ revoked' = revoked \cup {cred.grant}
    /\ NoteHeld
    /\ UNCHANGED <<health, cache, inflight, flight, call, used, interrupted>>

\* deleteMailCredential, when a connect rolls back.
Delete ==
    /\ cred.status # "absent"
    /\ cred' = [status |-> "absent", grant |-> None]
    /\ revoked' = revoked \cup HeldNow(cred)
    /\ NoteHeld
    /\ UNCHANGED <<health, cache, inflight, flight, call, used, interrupted>>

\* The expiry of a cached token comes near.
GrowOld(i) ==
    /\ cache[i].age = "fresh"
    /\ cache' = [cache EXCEPT ![i].age = "old"]
    /\ UNCHANGED <<row, health, inflight, flight, call, interrupted>>

-----------------------------------------------------------------------------
(* getFreshAccessToken, up to its first await *)

\* A cached token that is not about to expire is handed out as it is.
Usable(i) == cache[i].age = "fresh"

CacheHit(r, i) ==
    /\ call[r].flight = None /\ Usable(i)
    /\ call' = [call EXCEPT ![r].token = cache[i].grant]
    /\ UNCHANGED <<row, health, cache, inflight, flight, interrupted>>

\* Callers that find a refresh in progress share it.
Join(r, i) ==
    /\ call[r].flight = None /\ ~ Usable(i) /\ inflight[i] # None
    /\ call' = [call EXCEPT ![r].flight = inflight[i]]
    /\ UNCHANGED <<row, health, cache, inflight, flight, interrupted>>

\* Mutant: the map is looked up for the request, not for the connection.
StartAlways(r, i, f) ==
    /\ call[r].flight = None /\ ~ Usable(i)
    /\ flight[f].pc = "idle"
    /\ flight' = [flight EXCEPT ![f] = [Landed EXCEPT !.pc = "reading", !.inst = i]]
    /\ inflight' = [inflight EXCEPT ![i] = f]
    /\ call' = [call EXCEPT ![r].flight = f]
    /\ held' = [held EXCEPT ![f] = HeldNow(cred)]
    /\ UNCHANGED <<cred, used, revoked, health, cache, interrupted>>

Start(r, i, f) ==
    /\ call[r].flight = None /\ ~ Usable(i) /\ inflight[i] = None
    /\ flight[f].pc = "idle"
    /\ flight' = [flight EXCEPT ![f] = [Landed EXCEPT !.pc = "reading", !.inst = i]]
    /\ inflight' = [inflight EXCEPT ![i] = f]
    /\ call' = [call EXCEPT ![r].flight = f]
    /\ held' = [held EXCEPT ![f] = HeldNow(cred)]
    /\ UNCHANGED <<cred, used, revoked, health, cache, interrupted>>

-----------------------------------------------------------------------------
(* refresh *)

\* Mutant: only the caller that started the refresh is told.
LandForOne(f, token) ==
    LET r == CHOOSE r \in Requests : call[r].flight = f IN
    /\ flight' = [flight EXCEPT ![f] = Landed]
    /\ inflight' = [i \in Instances |-> IF inflight[i] = f THEN None ELSE inflight[i]]
    /\ call' = [call EXCEPT ![r] = [flight |-> None, token |-> token]]

\* The promise settles: every caller that shares it gets its outcome, and the
\* finally callback takes it off the map.
Land(f, token) ==
    /\ flight' = [flight EXCEPT ![f] = Landed]
    /\ inflight' = [i \in Instances |-> IF inflight[i] = f THEN None ELSE inflight[i]]
    /\ call' = [r \in Requests |->
                  IF call[r].flight = f THEN [flight |-> None, token |-> token] ELSE call[r]]

\* Mutant: revokedAt is not looked at.
ReadIgnoresRevoked(f) ==
    /\ flight[f].pc = "reading"
    /\ \/ cred.status = "absent" /\ Land(f, None)
       \/ /\ cred.status # "absent"
          /\ flight' = [flight EXCEPT ![f].pc = "marking", ![f].grant = cred.grant]
          /\ UNCHANGED <<inflight, call>>
    /\ UNCHANGED <<row, health, cache, interrupted>>

\* getMailCredential.
Read(f) ==
    /\ flight[f].pc = "reading"
    /\ \/ cred.status = "absent" /\ Land(f, None)
       \/ /\ cred.status = "revoked"
          /\ flight' = [flight EXCEPT ![f].pc = "reporting", ![f].out = "revoked"]
          /\ UNCHANGED <<inflight, call>>
       \/ /\ cred.status = "live"
          /\ flight' = [flight EXCEPT ![f].pc = "marking", ![f].grant = cred.grant]
          /\ UNCHANGED <<inflight, call>>
    /\ UNCHANGED <<row, health, cache, interrupted>>

\* writeHealth swallows its errors.
WriteHealth(h) ==
    \/ health' = h /\ UNCHANGED interrupted
    \/ interrupted' = TRUE /\ UNCHANGED health

\* envelopeOpen, and the health record says so: a refresh is on its way.
Mark(f) ==
    /\ flight[f].pc = "marking"
    /\ WriteHealth("refreshing")
    /\ flight' = [flight EXCEPT ![f].pc = "calling"]
    /\ UNCHANGED <<row, cache, inflight, call>>

\* Google answers: a token, perhaps with a rotated refresh token, ...
AnswerToken(f, rotated) ==
    LET i == flight[f].inst IN
    /\ flight[f].pc = "calling"
    /\ cache' = [cache EXCEPT ![i] = [grant |-> flight[f].grant, age |-> "fresh"]]
    /\ flight' = [flight EXCEPT ![f].pc = "touching", ![f].rotated = rotated]
    /\ UNCHANGED <<row, health, inflight, call, interrupted>>

\* ... or an error; 0 stands for a network failure or a timeout.
Refusals == {"invalid_grant", "400", "401", "403", "404", "429", "5xx", "0"}

\* Mutant: an error with no class of its own is recorded under its code.
ClassifyRaw(e) ==
    IF e \in {"invalid_grant", "400", "401", "403"}
    THEN "reauthorization_required" ELSE e

Classify(e) ==
    IF e \in {"invalid_grant", "400", "401", "403"}
    THEN "reauthorization_required" ELSE "degraded"

\* Mutant: a transient failure is thrown without a word in the health record.
AnswerErrorSilently(f, e) ==
    /\ flight[f].pc = "calling"
    /\ IF Classify(e) = "degraded" THEN Land(f, None)
       ELSE /\ flight' = [flight EXCEPT ![f].pc = "reporting", ![f].out = Classify(e)]
            /\ UNCHANGED <<inflight, call>>
    /\ UNCHANGED <<row, health, cache, interrupted>>

AnswerError(f, e) ==
    /\ flight[f].pc = "calling"
    /\ flight' = [flight EXCEPT ![f].pc = "reporting", ![f].out = Classify(e)]
    /\ UNCHANGED <<row, health, cache, inflight, call, interrupted>>

\* Mutant: the WHERE clause does not ask for revoked_at IS NULL.
TouchAnyRow(f) ==
    /\ flight[f].pc = "touching"
    /\ cred' = IF cred.status # "absent" /\ flight[f].rotated
               THEN [cred EXCEPT !.grant = flight[f].grant] ELSE cred
    /\ NoteHeld
    /\ flight' = [flight EXCEPT ![f].pc = "reporting", ![f].out = "healthy"]
    /\ UNCHANGED <<health, cache, inflight, call, used, revoked, interrupted>>

\* touchAfterRefresh: only a live row, and the envelope only if it was rotated.
Touch(f) ==
    /\ flight[f].pc = "touching"
    /\ cred' = IF cred.status = "live" /\ flight[f].rotated
               THEN [cred EXCEPT !.grant = flight[f].grant] ELSE cred
    /\ NoteHeld
    /\ flight' = [flight EXCEPT ![f].pc = "reporting", ![f].out = "healthy"]
    /\ UNCHANGED <<health, cache, inflight, call, used, revoked, interrupted>>

Report(f) ==
    /\ flight[f].pc = "reporting"
    /\ WriteHealth(flight[f].out)
    /\ Land(f, IF flight[f].out = "healthy" THEN flight[f].grant ELSE None)
    /\ UNCHANGED <<row, cache>>

\* A database or KMS call throws.
Throw(f) ==
    /\ flight[f].pc \in {"reading", "marking", "touching"}
    /\ Land(f, None)
    /\ interrupted' = TRUE
    /\ UNCHANGED <<row, health, cache>>

Crash(i) ==
    LET gone == {f \in Flights : flight[f].inst = i} IN
    /\ cache' = [cache EXCEPT ![i] = NoToken]
    /\ inflight' = [inflight EXCEPT ![i] = None]
    /\ flight' = [f \in Flights |-> IF f \in gone THEN Landed ELSE flight[f]]
    /\ call' = [r \in Requests |->
                  IF call[r].flight \in gone THEN [flight |-> None, token |-> None] ELSE call[r]]
    /\ interrupted' = (interrupted \/ gone # {})
    /\ UNCHANGED <<row, health>>

-----------------------------------------------------------------------------

RowStep == Revoke \/ Delete \/ \E g \in Grants : Connect(g)

CallStep ==
    \E r \in Requests, i \in Instances :
        CacheHit(r, i) \/ Join(r, i) \/ \E f \in Flights : Start(r, i, f)

FlightStep(f) ==
    \/ Read(f) \/ Mark(f) \/ Touch(f) \/ Report(f) \/ Throw(f)
    \/ \E rotated \in BOOLEAN : AnswerToken(f, rotated)
    \/ \E e \in Refusals : AnswerError(f, e)

Next ==
    \/ RowStep \/ CallStep
    \/ \E f \in Flights : FlightStep(f)
    \/ \E i \in Instances : GrowOld(i) \/ Crash(i)

Spec == Init /\ [][Next]_vars

\* The runtime resumes every call whose await has ended, and every await of a
\* refresh ends: the HTTP client gives up after three timeouts of ten seconds.
FairSpec == Spec /\ \A f \in Flights : WF_vars(FlightStep(f))

-----------------------------------------------------------------------------
(* Properties *)

Flying(f) == flight[f].pc # "idle"

\* "Ten simultaneous requests trigger exactly one refresh": an instance never
\* has two refreshes in progress, and the one it has can be joined.
SingleFlight ==
    \A f \in Flights : Flying(f) => inflight[flight[f].inst] = f

\* A refresh contacts Google with a grant the row has held since the refresh
\* was asked for, never one revoked, deleted or replaced before.
NoDeadGrantIsUsed ==
    \A f \in Flights : flight[f].pc \in {"calling", "touching"} => flight[f].grant \in held[f]

\* "Refuses to touch a revoked row": whatever refreshes are on their way, a
\* destroyed credential holds no grant again before the user connects anew, and over
\* another consent's grant a refresh puts its own only if its token was rotated and
\* both have been in the row since it was asked for: it never brings back a grant
\* that was gone by then.
DestroyedUntilConnect ==
    [][cred'.grant \notin {cred.grant, None} =>
          \/ \E g \in Grants : Connect(g)
          \/ \E f \in Flights : /\ flight[f].rotated /\ flight[f].grant = cred'.grant
                                /\ {cred.grant, cred'.grant} \subseteq held[f]]_vars

\* Until a refresh is cut short, the health record does not say "refreshing" once
\* nobody refreshes, in whatever order the refreshes of several instances end.
HealthSettles ==
    ~ interrupted /\ health = "refreshing" => \E f \in Flights : Flying(f)

\* Every caller is answered, with a token or an error.
CallersAnswered == \A r \in Requests : call[r].flight # None ~> call[r].flight = None

-----------------------------------------------------------------------------
(* What the repository says, and the code does not do. *)

\* tests/credentialLifecycle.test.ts: "an already-revoked credential is refused":
\* no token is handed out for it.
RevokedIsRefused ==
    [][\A r \in Requests, i \in Instances : CacheHit(r, i) => cred.status # "revoked"]_vars

\* mailStateStore.ts: "Revoke = destroy the ciphertext AND mark revoked --
\* unrecoverable": a revoked grant, or a rotation of it, is never stored again.
Unrecoverable == cred.grant \notin revoked
=============================================================================
