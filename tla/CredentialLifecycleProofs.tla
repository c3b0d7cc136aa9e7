--------------------- MODULE CredentialLifecycleProofs ---------------------
(* CredentialLifecycle for any number of instances, callers, refreshes and   *)
(* consents.                                                                 *)
EXTENDS CredentialLifecycle, Naturals, TLAPS

\* TypeOK, taken apart: the proofs below use one conjunct at a time.
LEMMA FlightType ==
    ASSUME TypeOK, NEW f \in Flights
    PROVE  flight[f] \in Flight
BY DEF TypeOK

LEMMA LandedType == Landed \in Flight
BY DEF Landed, Flight

LEMMA LandType ==
    ASSUME TypeOK, NEW f \in Flights, NEW token \in Grants \cup {None}, Land(f, token)
    PROVE  /\ flight' \in [Flights -> Flight]
           /\ inflight' \in [Instances -> Flights \cup {None}]
           /\ call' \in [Requests -> Call]
<1>1. flight' \in [Flights -> Flight]
  BY LandedType DEF Land, TypeOK
<1>2. inflight' \in [Instances -> Flights \cup {None}]
  BY DEF Land, TypeOK
<1>3. call' \in [Requests -> Call]
  <2>1. [flight |-> None, token |-> token] \in Call  BY DEF Call
  <2>2. QED  BY <2>1 DEF Land, TypeOK
<1>4. QED  BY <1>1, <1>2, <1>3

\* What TypeOK leaves open: only a live row has a grant in its envelope, and a
\* refresh that has read the row has the grant it read.
GrantsFit ==
    /\ IF cred.status = "live" THEN cred.grant \in Grants ELSE cred.grant = None
    /\ \A f \in Flights :
          flight[f].pc \in {"marking", "calling", "touching"} => flight[f].grant \in Grants

Typed == TypeOK /\ GrantsFit

LEMMA RowStepType == Typed /\ RowStep => Typed'
<1> SUFFICES ASSUME Typed, RowStep  PROVE Typed'
  OBVIOUS
<1>1. /\ cred' \in Credential
      /\ IF cred'.status = "live" THEN cred'.grant \in Grants ELSE cred'.grant = None
      /\ used' \subseteq Grants /\ revoked' \subseteq Grants
  <2>1. CASE Revoke
    BY <2>1 DEF Typed, TypeOK, GrantsFit, Revoke, Credential
  <2>2. CASE Delete
    BY <2>2 DEF Typed, TypeOK, GrantsFit, Delete, Credential, HeldNow
  <2>3. ASSUME NEW g \in Grants, Connect(g)
        PROVE  /\ cred' \in Credential
               /\ IF cred'.status = "live" THEN cred'.grant \in Grants ELSE cred'.grant = None
               /\ used' \subseteq Grants /\ revoked' \subseteq Grants
    BY <2>3 DEF Typed, TypeOK, GrantsFit, Connect, Credential
  <2>4. QED  BY <2>1, <2>2, <2>3 DEF RowStep
<1>2. HeldNow(cred') \subseteq Grants
  BY <1>1 DEF HeldNow
<1>3. NoteHeld /\ UNCHANGED <<health, cache, inflight, flight, call, interrupted>>
  BY DEF RowStep, Revoke, Delete, Connect
<1>4. held' \in [Flights -> SUBSET Grants]
  BY <1>2, <1>3 DEF NoteHeld, Typed, TypeOK
<1>5. QED  BY <1>1, <1>3, <1>4 DEF Typed, TypeOK, GrantsFit

LEMMA CallStepType == Typed /\ CallStep => Typed'
<1> SUFFICES ASSUME Typed, NEW r \in Requests, NEW i \in Instances,
                    CacheHit(r, i) \/ Join(r, i) \/ \E f \in Flights : Start(r, i, f)
             PROVE  Typed'
  BY DEF CallStep
<1>1. CASE CacheHit(r, i)
  BY <1>1 DEF Typed, TypeOK, GrantsFit, CacheHit, row, Cached, Call
<1>2. CASE Join(r, i)
  BY <1>2 DEF Typed, TypeOK, GrantsFit, Join, row, Call
<1>3. ASSUME NEW f \in Flights, Start(r, i, f)  PROVE Typed'
  <2>1. [Landed EXCEPT !.pc = "reading", !.inst = i] \in Flight
    BY DEF Landed, Flight
  <2>2. HeldNow(cred) \subseteq Grants
    BY DEF Typed, GrantsFit, HeldNow
  <2>3. TypeOK'
    BY <1>3, <2>1, <2>2 DEF Typed, TypeOK, Start, Call
  <2>4. GrantsFit'
    BY <1>3 DEF Typed, TypeOK, GrantsFit, Start, Landed
  <2>5. QED  BY <2>3, <2>4 DEF Typed
<1>4. QED  BY <1>1, <1>2, <1>3

\* A step of refresh f that moves f to x, or lands it, and leaves the row alone.
LEMMA MoveType ==
    ASSUME Typed, NEW f \in Flights, NEW x \in Flight,
           x.pc \in {"marking", "calling", "touching"} => x.grant \in Grants,
           flight' = [flight EXCEPT ![f] = x],
           inflight' \in [Instances -> Flights \cup {None}], call' \in [Requests -> Call],
           health' \in Health \cup {None}, cache' \in [Instances -> Cached], UNCHANGED row,
           interrupted' \in BOOLEAN
    PROVE  Typed'
BY DEF Typed, TypeOK, GrantsFit, row

LEMMA FlightStepInterrupts ==
    ASSUME NEW f \in Flights, FlightStep(f)
    PROVE  interrupted' = TRUE \/ interrupted' = interrupted
BY Zenon DEF FlightStep, Read, Mark, WriteHealth, AnswerToken, AnswerError, Touch, Report, Throw

LEMMA FlightStepType ==
    ASSUME Typed, NEW f \in Flights, FlightStep(f)
    PROVE  Typed'
<1> DEFINE x == flight[f]
<1>0. TypeOK /\ x \in Flight
  BY FlightType DEF Typed
<1>c. interrupted' \in BOOLEAN
  BY <1>0, FlightStepInterrupts DEF TypeOK
<1> USE <1>0, <1>c
<1>a. UNCHANGED <<health, cache, inflight, call>> =>
        /\ inflight' \in [Instances -> Flights \cup {None}] /\ call' \in [Requests -> Call]
        /\ health' \in Health \cup {None} /\ cache' \in [Instances -> Cached]
  BY DEF TypeOK
<1>b. ASSUME Land(f, None), UNCHANGED <<row, health, cache>>  PROVE Typed'
  <2>1. flight' = [flight EXCEPT ![f] = Landed] /\ Landed.pc = "idle"
    BY <1>b DEF Land, Landed
  <2>2. health' \in Health \cup {None} /\ cache' \in [Instances -> Cached]
    BY <1>b DEF TypeOK
  <2>3. QED  BY <1>b, <2>1, <2>2, LandType, LandedType, MoveType
<1>1. CASE Read(f)
  <2>1. CASE Land(f, None)
    BY <1>1, <1>b, <2>1 DEF Read
  <2>2. CASE ~ Land(f, None) /\ cred.status = "revoked"
    <3>1. [x EXCEPT !.pc = "reporting", !.out = "revoked"] \in Flight
      BY DEF Flight, Health
    <3>2. flight' = [flight EXCEPT ![f] = [x EXCEPT !.pc = "reporting", !.out = "revoked"]]
      BY <1>1, <2>2 DEF Read, TypeOK
    <3>3. [x EXCEPT !.pc = "reporting", !.out = "revoked"].pc = "reporting"
      BY DEF Flight
    <3>4. UNCHANGED <<row, health, cache, inflight, call>>
      BY <1>1, <2>2 DEF Read
    <3>5. QED  BY <1>a, <3>1, <3>2, <3>3, <3>4, MoveType
  <2>3. CASE ~ Land(f, None) /\ cred.status = "live"
    <3>1. [x EXCEPT !.pc = "marking", !.grant = cred.grant] \in Flight /\ cred.grant \in Grants
      BY <2>3 DEF Typed, GrantsFit, Flight
    <3>2. flight' = [flight EXCEPT ![f] = [x EXCEPT !.pc = "marking", !.grant = cred.grant]]
      BY <1>1, <2>3 DEF Read, TypeOK
    <3>3. QED  BY <1>1, <1>a, <2>3, <3>1, <3>2, MoveType DEF Read, Flight
  <2>4. QED  BY <1>1, <2>1, <2>2, <2>3 DEF Read
<1>2. CASE Mark(f)
  <2>1. [x EXCEPT !.pc = "calling"] \in Flight /\ x.grant \in Grants
    BY <1>2 DEF Mark, Typed, GrantsFit, Flight
  <2>2. flight' = [flight EXCEPT ![f] = [x EXCEPT !.pc = "calling"]]
    BY <1>2 DEF Mark, TypeOK
  <2>3. health' \in Health \cup {None}
    BY <1>2 DEF Mark, WriteHealth, TypeOK, Health
  <2>4. QED  BY <1>2, <2>1, <2>2, <2>3, MoveType DEF Mark, Flight, TypeOK
<1>3. CASE Touch(f)
  <2>1. [x EXCEPT !.pc = "reporting", !.out = "healthy"] \in Flight /\ x.grant \in Grants
    BY <1>3 DEF Touch, Typed, GrantsFit, Flight, Health
  <2>2. flight' = [flight EXCEPT ![f] = [x EXCEPT !.pc = "reporting", !.out = "healthy"]]
    BY <1>3 DEF Touch, TypeOK
  <2>3. /\ cred' \in Credential
        /\ IF cred'.status = "live" THEN cred'.grant \in Grants ELSE cred'.grant = None
    BY <1>3, <2>1 DEF Touch, Typed, TypeOK, GrantsFit, Credential
  <2>4. held' \in [Flights -> SUBSET Grants]
    BY <1>3, <2>3 DEF Touch, NoteHeld, HeldNow, TypeOK
  <2>5. TypeOK'
    BY <1>3, <2>1, <2>2, <2>3, <2>4 DEF Touch, TypeOK
  <2>6. GrantsFit'
    BY <2>1, <2>2, <2>3 DEF Typed, GrantsFit, TypeOK, Flight
  <2>7. QED  BY <2>5, <2>6 DEF Typed
<1>4. CASE Report(f)
  <2>1. x.out \in Health \cup {None} /\ x.grant \in Grants \cup {None}
    BY DEF Flight
  <2>2. health' \in Health \cup {None}
    BY <1>4, <2>1 DEF Report, WriteHealth, TypeOK
  <2>3. PICK token \in Grants \cup {None} : Land(f, token)
    BY <1>4, <2>1 DEF Report
  <2>4. QED
    BY <1>4, <2>2, <2>3, LandType, LandedType, MoveType DEF Report, Land, Landed, TypeOK
<1>5. CASE Throw(f)
  BY <1>5, <1>b DEF Throw
<1>6. ASSUME NEW rotated \in BOOLEAN, AnswerToken(f, rotated)  PROVE Typed'
  <2>1. [x EXCEPT !.pc = "touching", !.rotated = rotated] \in Flight /\ x.grant \in Grants
    BY <1>6 DEF AnswerToken, Typed, GrantsFit, Flight
  <2>2. flight' = [flight EXCEPT ![f] = [x EXCEPT !.pc = "touching", !.rotated = rotated]]
    BY <1>6 DEF AnswerToken, TypeOK
  <2>3. cache' \in [Instances -> Cached]
    BY <1>6, <2>1 DEF AnswerToken, TypeOK, Cached, Age
  <2>4. QED  BY <1>6, <2>1, <2>2, <2>3, MoveType DEF AnswerToken, Flight, TypeOK
<1>7. ASSUME NEW e \in Refusals, AnswerError(f, e)  PROVE Typed'
  <2>1. [x EXCEPT !.pc = "reporting", !.out = Classify(e)] \in Flight
    BY DEF Classify, Flight, Health
  <2>2. flight' = [flight EXCEPT ![f] = [x EXCEPT !.pc = "reporting", !.out = Classify(e)]]
    BY <1>7 DEF AnswerError, TypeOK
  <2>3. [x EXCEPT !.pc = "reporting", !.out = Classify(e)].pc = "reporting"
    BY DEF Flight
  <2>4. UNCHANGED <<row, health, cache, inflight, call>>
    BY <1>7 DEF AnswerError
  <2>5. QED  BY <1>a, <2>1, <2>2, <2>3, <2>4, MoveType
<1>8. QED
  BY <1>1, <1>2, <1>3, <1>4, <1>5, <1>6, <1>7 DEF FlightStep

LEMMA OtherStepType ==
    ASSUME Typed, NEW i \in Instances, GrowOld(i) \/ Crash(i)
    PROVE  Typed'
<1>1. CASE GrowOld(i)
  BY <1>1 DEF GrowOld, row, Typed, TypeOK, GrantsFit, Cached, Age
<1>2. CASE Crash(i)
  <2>1. NoToken \in Cached /\ [flight |-> None, token |-> None] \in Call
    BY DEF NoToken, Cached, Age, Call
  <2>2. TypeOK'
    BY <1>2, <2>1, LandedType DEF Crash, row, Typed, TypeOK
  <2>3. GrantsFit'
    BY <1>2 DEF Crash, row, Typed, GrantsFit, Landed
  <2>4. QED  BY <2>2, <2>3 DEF Typed
<1>3. QED  BY <1>1, <1>2

LEMMA TypeStep == Typed /\ [Next]_vars => Typed'
<1>1. Typed /\ UNCHANGED vars => Typed'
  BY DEF Typed, TypeOK, GrantsFit, vars
<1>2. QED
  BY <1>1, RowStepType, CallStepType, FlightStepType, OtherStepType DEF Next

LEMMA TypeInit == Init => Typed
<1> SUFFICES ASSUME Init  PROVE Typed
  OBVIOUS
<1>1. TypeOK
  BY LandedType DEF Init, TypeOK, Credential, NoToken, Cached, Age, Call
<1>2. GrantsFit
  BY DEF Init, GrantsFit, Landed
<1>3. QED  BY <1>1, <1>2 DEF Typed

LEMMA TypedAlways == Spec => []Typed
BY TypeInit, TypeStep, PTL DEF Spec

\* Every step of the lifecycle keeps the types of the row, the health record,
\* the caches and the refreshes.
THEOREM TypeCorrect == Spec => []TypeOK
<1>1. Typed => TypeOK  BY DEF Typed
<1>2. QED  BY <1>1, TypedAlways, PTL

-----------------------------------------------------------------------------
(* One refresh at a time *)

\* Who lands, and who goes on.
LEMMA LandLeaves ==
    ASSUME Typed, NEW f \in Flights, NEW token, Land(f, token), NEW g \in Flights, Flying(g)'
    PROVE  g # f /\ flight'[g] = flight[g]
BY DEF Land, Flying, Landed, Typed, TypeOK

\* A refresh step keeps who refreshes where, or lands the refresh.
LEMMA FlightStepMoves ==
    ASSUME Typed, NEW f \in Flights, FlightStep(f)
    PROVE  \/ \E token : Land(f, token)
           \/ /\ UNCHANGED inflight
              /\ Flying(f)
              /\ \A g \in Flights : flight'[g].inst = flight[g].inst
              /\ \A g \in Flights \ {f} : flight'[g] = flight[g]
<1>1. flight \in [Flights -> Flight] /\ flight[f] \in Flight
  BY FlightType DEF Typed, TypeOK
<1>2. CASE Read(f)  BY <1>1, <1>2 DEF Read, Flying, Flight
<1>3. CASE Mark(f)  BY <1>1, <1>3 DEF Mark, Flying, Flight
<1>4. CASE Touch(f)  BY <1>1, <1>4 DEF Touch, Flying, Flight
<1>5. CASE Report(f) \/ Throw(f)  BY <1>5 DEF Report, Throw
<1>6. CASE \E rotated \in BOOLEAN : AnswerToken(f, rotated)
  BY <1>1, <1>6 DEF AnswerToken, Flying, Flight
<1>7. CASE \E e \in Refusals : AnswerError(f, e)
  BY <1>1, <1>7 DEF AnswerError, Flying, Flight
<1>8. QED
  BY <1>2, <1>3, <1>4, <1>5, <1>6, <1>7 DEF FlightStep

\* SingleFlight is inductive once it says that a refresh belongs to an instance.
OwnFlight ==
    \A f \in Flights : Flying(f) => flight[f].inst \in Instances /\ inflight[flight[f].inst] = f

LEMMA OwnFlightStep ==
    Typed /\ OwnFlight /\ [Next]_vars => OwnFlight'
<1> SUFFICES ASSUME Typed, OwnFlight, [Next]_vars, NEW g \in Flights, Flying(g)'
             PROVE  flight'[g].inst \in Instances /\ inflight'[flight'[g].inst] = g
  BY DEF OwnFlight, Flying
<1> DEFINE Owned == flight'[g].inst \in Instances /\ inflight'[flight'[g].inst] = g
<1> USE DEF Flying
<1>1. CASE UNCHANGED <<inflight, flight>>
  BY <1>1 DEF OwnFlight
<1>2. ASSUME NEW r \in Requests, NEW i \in Instances, NEW f \in Flights, Start(r, i, f)
      PROVE  Owned
  <2>1. CASE g = f
    BY <1>2, <2>1 DEF Start, Typed, TypeOK, Landed
  <2>2. CASE g # f
    <3>1. /\ flight'[g] = flight[g]
          /\ flight[g].inst \in Instances /\ inflight[flight[g].inst] = g
      BY <1>2, <2>2 DEF Start, OwnFlight, Typed, TypeOK
    <3>2. flight[g].inst # i
      BY <1>2, <3>1, NoneAssumption DEF Start
    <3>3. QED  BY <1>2, <3>1, <3>2 DEF Start, Typed, TypeOK
  <2>3. QED  BY <2>1, <2>2
<1>3. ASSUME NEW f \in Flights, FlightStep(f)
      PROVE  Owned
  <2>1. CASE \E token : Land(f, token)
    <3>1. PICK token : Land(f, token)
      BY <2>1
    <3>2. g # f /\ flight'[g] = flight[g]
      BY <3>1, LandLeaves
    <3>3. flight[g].inst \in Instances /\ inflight[flight[g].inst] = g
      BY <3>2 DEF OwnFlight
    <3>4. QED  BY <3>1, <3>2, <3>3 DEF Land
  <2>2. QED  BY <1>3, <2>1, FlightStepMoves DEF OwnFlight
<1>4. ASSUME NEW i \in Instances, Crash(i)
      PROVE  Owned
  <2>1. flight'[g] = flight[g] /\ flight[g].inst # i
    BY <1>4 DEF Crash, Landed
  <2>2. QED  BY <1>4, <2>1 DEF Crash, OwnFlight, Typed, TypeOK
<1>5. QED
  BY <1>1, <1>2, <1>3, <1>4
     DEF Next, RowStep, CallStep, Revoke, Delete, Connect, GrowOld, CacheHit, Join, vars

LEMMA OwnFlightAlways == Spec => []OwnFlight
<1>1. Init => OwnFlight
  BY DEF Init, OwnFlight, Flying, Landed
<1>2. QED  BY <1>1, TypedAlways, OwnFlightStep, PTL DEF Spec

\* Ten simultaneous requests of an instance trigger one refresh, whatever fails
\* and whatever the other instances do.
THEOREM OneRefreshPerInstance == Spec => []SingleFlight
<1>1. OwnFlight => SingleFlight  BY DEF OwnFlight, SingleFlight
<1>2. QED  BY <1>1, OwnFlightAlways, PTL

-----------------------------------------------------------------------------
(* Dead grants *)

\* The grant a refresh took to Google is one the row has held since it began;
\* what the row holds now is noted for every refresh on its way.
GrantsKnown ==
    /\ \A f \in Flights : Flying(f) => HeldNow(cred) \subseteq held[f]
    /\ \A f \in Flights : flight[f].pc \in {"marking", "calling", "touching"}
                             => flight[f].grant \in held[f]

LEMMA GrantsKnownStep ==
    Typed /\ GrantsKnown /\ [Next]_vars => GrantsKnown'
<1> SUFFICES ASSUME Typed, GrantsKnown, [Next]_vars  PROVE GrantsKnown'
  OBVIOUS
<1>0. held \in [Flights -> SUBSET Grants] /\ flight \in [Flights -> Flight]
  BY DEF Typed, TypeOK
<1>1. CASE UNCHANGED <<flight, row>>
  BY <1>1 DEF GrantsKnown, Flying, row
<1>2. CASE NoteHeld /\ UNCHANGED flight
  BY <1>0, <1>2 DEF NoteHeld, GrantsKnown, Flying
<1>3. ASSUME NEW r \in Requests, NEW i \in Instances, NEW f \in Flights, Start(r, i, f)
      PROVE  GrantsKnown'
  BY <1>0, <1>3 DEF Start, GrantsKnown, Flying, Landed
<1>4. ASSUME NEW f \in Flights, FlightStep(f)  PROVE GrantsKnown'
  <2>1. CASE Touch(f)
    BY <1>0, <2>1 DEF Touch, NoteHeld, GrantsKnown, Flying
  <2>2. CASE (\E token : Land(f, token)) /\ UNCHANGED row
    BY <1>0, <2>2 DEF Land, Landed, GrantsKnown, Flying, row
  <2>3. CASE Read(f) /\ cred.status = "live"
    <3>1. HeldNow(cred) = {cred.grant} /\ HeldNow(cred) \subseteq held[f]
      BY <2>3 DEF Read, HeldNow, GrantsKnown, Flying
    <3>2. QED
      BY <1>0, <2>3, <3>1 DEF Read, GrantsKnown, Flying, Flight, row
  <2>4. CASE Read(f) /\ cred.status # "live"
    BY <1>0, <2>2, <2>4 DEF Read, GrantsKnown, Flying, Flight, row
  <2>5. CASE Mark(f)
    BY <1>0, <2>5 DEF Mark, GrantsKnown, Flying, Flight, row
  <2>6. CASE \E rotated \in BOOLEAN : AnswerToken(f, rotated)
    BY <1>0, <2>6 DEF AnswerToken, GrantsKnown, Flying, Flight, row
  <2>7. CASE \E e \in Refusals : AnswerError(f, e)
    BY <1>0, <2>7 DEF AnswerError, GrantsKnown, Flying, Flight, row
  <2>8. CASE Report(f) \/ Throw(f)
    BY <2>2, <2>8 DEF Report, Throw
  <2>9. QED
    BY <1>4, <2>1, <2>3, <2>4, <2>5, <2>6, <2>7, <2>8 DEF FlightStep
<1>5. ASSUME NEW i \in Instances, Crash(i)  PROVE GrantsKnown'
  BY <1>0, <1>5 DEF Crash, GrantsKnown, Flying, Landed, row
<1>6. QED
  BY <1>1, <1>2, <1>3, <1>4, <1>5
     DEF Next, RowStep, CallStep, Revoke, Delete, Connect, GrowOld, CacheHit, Join, vars, row

\* Google is never shown a grant that was revoked, deleted or replaced before
\* the refresh was asked for.
THEOREM NoDeadGrant == Spec => []NoDeadGrantIsUsed
<1>1. Init => GrantsKnown
  BY DEF Init, GrantsKnown, Flying, Landed
<1>2. GrantsKnown => NoDeadGrantIsUsed
  BY DEF GrantsKnown, NoDeadGrantIsUsed
<1>3. QED  BY <1>1, <1>2, TypedAlways, GrantsKnownStep, PTL DEF Spec

\* A row that has no credential gets a grant from a consent alone, for a late
\* refresh finds no live row to write to; and a live row gets another grant from a
\* refresh that has been under way since the row held both.
THEOREM DestroyedStaysDestroyed == Spec => DestroyedUntilConnect
<1> DEFINE Puts(f) == /\ flight[f].rotated /\ flight[f].grant = cred'.grant
                      /\ {cred.grant, cred'.grant} \subseteq held[f]
<1>1. ASSUME GrantsKnown, Next, cred'.grant \notin {cred.grant, None},
             \A g \in Grants : ~ Connect(g)
      PROVE  \E f \in Flights : Puts(f)
  <2>1. cred' # cred
    BY <1>1
  <2>2. ~ Revoke /\ ~ Delete
    BY <1>1 DEF Revoke, Delete
  <2>3. ~ CallStep
    BY <2>1 DEF CallStep, CacheHit, Join, Start, row
  <2>4. ASSUME NEW i \in Instances  PROVE ~ GrowOld(i) /\ ~ Crash(i)
    BY <2>1 DEF GrowOld, Crash, row
  <2>5. PICK f \in Flights : FlightStep(f)
    BY <1>1, <2>2, <2>3, <2>4 DEF Next, RowStep
  <2>6. Touch(f)
    BY <2>1, <2>5 DEF FlightStep, Read, Mark, Report, Throw, AnswerToken, AnswerError, row
  <2>7. cred.status = "live" /\ flight[f].rotated
    BY <2>1, <2>6 DEF Touch
  <2>8. cred'.grant = flight[f].grant
    BY <1>1, <2>6, <2>7 DEF Touch
  <2>9. cred.grant \in held[f] /\ flight[f].grant \in held[f]
    BY <1>1, <2>6, <2>7 DEF Touch, GrantsKnown, HeldNow, Flying
  <2>10. QED  BY <2>7, <2>8, <2>9
<1>2. Init => GrantsKnown
  BY DEF Init, GrantsKnown, Flying, Landed
<1>3. GrantsKnown /\ [Next]_vars =>
        [cred'.grant \notin {cred.grant, None} =>
            (\E g \in Grants : Connect(g)) \/ \E f \in Flights : Puts(f)]_vars
  BY <1>1
<1>4. QED
  BY <1>2, <1>3, TypedAlways, GrantsKnownStep, PTL DEF Spec, DestroyedUntilConnect

-----------------------------------------------------------------------------
(* Revived grants: Unrecoverable does not hold, and this is how far it fails *)

\* Every grant in sight came from a consent, and what was destroyed is one of them.
FromConsents ==
    /\ revoked \subseteq used
    /\ cred.grant \in used \cup {None}

LEMMA FromConsentsStep ==
    Typed /\ GrantsKnown /\ FromConsents /\ (\A f \in Flights : held[f] \subseteq used)
          /\ [Next]_vars
    => FromConsents' /\ (\A f \in Flights : held'[f] \subseteq used')
<1> SUFFICES ASSUME Typed, GrantsKnown, FromConsents, [Next]_vars,
                    \A f \in Flights : held[f] \subseteq used
             PROVE  FromConsents' /\ \A f \in Flights : held'[f] \subseteq used'
  OBVIOUS
<1>0. /\ held \in [Flights -> SUBSET Grants] /\ used \subseteq Grants
      /\ cred.status = "live" => cred.grant \in Grants
  BY DEF Typed, TypeOK, GrantsFit
<1>1. HeldNow(cred) \subseteq used
  BY <1>0, NoneAssumption DEF HeldNow, FromConsents
<1>2. ASSUME used \subseteq used', revoked' \subseteq used', cred'.grant \in used' \cup {None},
             HeldNow(cred') \subseteq used', NoteHeld
      PROVE  FromConsents' /\ \A f \in Flights : held'[f] \subseteq used'
  BY <1>0, <1>2 DEF NoteHeld, FromConsents
<1>3. CASE Revoke
  BY <1>1, <1>2, <1>3, <1>0, NoneAssumption DEF Revoke, FromConsents, HeldNow
<1>4. CASE Delete
  BY <1>1, <1>2, <1>4 DEF Delete, FromConsents, HeldNow
<1>5. ASSUME NEW g \in Grants, Connect(g)
      PROVE  FromConsents' /\ \A f \in Flights : held'[f] \subseteq used'
  BY <1>2, <1>5 DEF Connect, FromConsents, HeldNow
<1>6. ASSUME NEW f \in Flights, Touch(f)
      PROVE  FromConsents' /\ \A g \in Flights : held'[g] \subseteq used'
  <2>1. flight[f].grant \in used
    BY <1>6 DEF Touch, GrantsKnown
  <2>2. cred'.grant \in used \cup {None} /\ HeldNow(cred') \subseteq used
    BY <1>0, <1>1, <1>6, <2>1 DEF Touch, FromConsents, HeldNow, Typed, TypeOK, Credential
  <2>3. QED  BY <1>2, <1>6, <2>2 DEF Touch, FromConsents
<1>7. ASSUME UNCHANGED row
      PROVE  FromConsents' /\ \A f \in Flights : held'[f] \subseteq used'
  BY <1>7 DEF row, FromConsents
<1>8. ASSUME NEW r \in Requests, NEW i \in Instances, NEW f \in Flights, Start(r, i, f)
      PROVE  FromConsents' /\ \A g \in Flights : held'[g] \subseteq used'
  BY <1>0, <1>1, <1>8 DEF Start, FromConsents
<1>9. ASSUME NEW f \in Flights, FlightStep(f), ~ Touch(f)  PROVE UNCHANGED row
  BY <1>9 DEF FlightStep, Read, Mark, Report, Throw, AnswerToken, AnswerError
<1>10. UNCHANGED vars => UNCHANGED row
  BY DEF vars, row
<1>11. QED
  BY <1>3, <1>4, <1>5, <1>6, <1>7, <1>8, <1>9, <1>10
     DEF Next, RowStep, CallStep, CacheHit, Join, GrowOld, Crash

\* A revoked grant, or its rotation, comes back into the row in one way alone: a
\* refresh that took it to Google while the row held it ends, with a rotated token,
\* after the disconnect and over the grant of a consent given since it began
\* (touchAfterRefresh asks for a live row, not for the row it read).
Revives(f) ==
    /\ Touch(f) /\ flight[f].rotated
    /\ flight[f].grant # cred.grant /\ {flight[f].grant, cred.grant} \subseteq held[f]

THEOREM OnlyOvertakenRefreshRevives ==
    Spec => [][cred.grant \notin revoked /\ cred'.grant \in revoked'
                 => \E f \in Flights : Revives(f)]_vars
<1> DEFINE I == GrantsKnown /\ FromConsents /\ \A f \in Flights : held[f] \subseteq used
<1>1. Init => I
  BY DEF Init, GrantsKnown, FromConsents, Flying, Landed
<1>2. Typed /\ I /\ [Next]_vars => I'
  BY GrantsKnownStep, FromConsentsStep
<1>3. ASSUME Typed, I, Next, cred.grant \notin revoked, cred'.grant \in revoked'
      PROVE  \E f \in Flights : Revives(f)
  <2>0. /\ revoked \subseteq used /\ used \subseteq Grants /\ None \notin revoked'
        /\ cred \in Credential
    <3>1. Typed'
      BY <1>3, TypeStep
    <3>2. QED  BY <1>3, <3>1, NoneAssumption DEF FromConsents, Typed, TypeOK
  <2>1. ~ Revoke /\ ~ Delete
    BY <1>3, <2>0 DEF Revoke, Delete
  <2>2. \A g \in Grants : ~ Connect(g)
    BY <1>3, <2>0 DEF Connect
  <2>3. cred' # cred
    <3>1. \A f \in Flights : FlightStep(f) => UNCHANGED revoked
      BY DEF FlightStep, Read, Mark, Report, Throw, AnswerToken, AnswerError, Touch, row
    <3>2. CallStep => UNCHANGED revoked
      BY DEF CallStep, CacheHit, Join, Start, row
    <3>3. \A i \in Instances : GrowOld(i) \/ Crash(i) => UNCHANGED revoked
      BY DEF GrowOld, Crash, row
    <3>4. UNCHANGED revoked
      BY <1>3, <2>1, <2>2, <3>1, <3>2, <3>3 DEF Next, RowStep
    <3>5. QED  BY <1>3, <3>4
  <2>4. ~ CallStep /\ \A i \in Instances : ~ GrowOld(i) /\ ~ Crash(i)
    BY <2>3 DEF CallStep, CacheHit, Join, Start, GrowOld, Crash, row
  <2>5. PICK f \in Flights : FlightStep(f)
    BY <1>3, <2>1, <2>2, <2>4 DEF Next, RowStep
  <2>6. Touch(f)
    BY <2>3, <2>5 DEF FlightStep, Read, Mark, Report, Throw, AnswerToken, AnswerError, row
  <2>7. cred.status = "live" /\ flight[f].rotated /\ cred'.grant = flight[f].grant
    BY <1>3, <2>0, <2>6 DEF Touch, Credential
  <2>8. cred.grant \in held[f] /\ flight[f].grant \in held[f]
    BY <1>3, <2>6, <2>7 DEF Touch, GrantsKnown, HeldNow, Flying
  <2>9. cred.grant # flight[f].grant
    BY <1>3, <2>6, <2>7 DEF Touch
  <2>10. QED  BY <2>6, <2>7, <2>8, <2>9 DEF Revives
<1> HIDE DEF I
<1>4. Typed /\ I /\ [Next]_vars =>
        [cred.grant \notin revoked /\ cred'.grant \in revoked'
           => \E f \in Flights : Revives(f)]_vars
  BY <1>3
<1>5. QED  BY <1>1, <1>2, <1>4, TypedAlways, PTL DEF Spec

-----------------------------------------------------------------------------
(* The health record *)

\* Uninterrupted, the record says "refreshing" only while the refresh that wrote
\* it, or a later one, has yet to report, and no report says it.
ToReport(f) == flight[f].pc \in {"calling", "touching", "reporting"}

HealthFits ==
    /\ \A f \in Flights : flight[f].pc = "reporting" => flight[f].out # "refreshing"
    /\ health = "refreshing" => \E f \in Flights : ToReport(f)

\* A refresh that moves and has yet to report leaves the record right.
LEMMA MovesOn ==
    ASSUME Typed, HealthFits, NEW f \in Flights, ToReport(f)',
           flight'[f].pc = "reporting" => flight'[f].out # "refreshing",
           \A g \in Flights \ {f} : flight'[g] = flight[g]
    PROVE  HealthFits'
BY DEF HealthFits, ToReport

LEMMA HealthFitsStep ==
    ASSUME Typed, HealthFits, ~ interrupted', [Next]_vars  PROVE HealthFits'
<1>0. flight \in [Flights -> Flight]
  BY DEF Typed, TypeOK
<1>1. CASE UNCHANGED <<flight, health>>
  BY <1>1 DEF HealthFits, ToReport
<1>2. ASSUME NEW r \in Requests, NEW i \in Instances, NEW f \in Flights, Start(r, i, f)
      PROVE  HealthFits'
  BY <1>0, <1>2 DEF Start, HealthFits, ToReport, Landed
<1>3. ASSUME NEW f \in Flights, FlightStep(f)  PROVE HealthFits'
  <2>1. CASE Read(f)
    <3>1. CASE Land(f, None)
      BY <1>0, <2>1, <3>1 DEF Read, Land, Landed, HealthFits, ToReport
    <3>2. CASE ~ Land(f, None) /\ cred.status = "revoked"
      BY <1>0, <2>1, <3>2, MovesOn DEF Read, ToReport, Flight
    <3>3. CASE ~ Land(f, None) /\ cred.status = "live"
      BY <1>0, <2>1, <3>3 DEF Read, HealthFits, ToReport, Flight
    <3>4. QED  BY <2>1, <3>1, <3>2, <3>3 DEF Read
  <2>2. CASE Mark(f)
    BY <1>0, <2>2, MovesOn DEF Mark, ToReport, Flight
  <2>3. CASE Touch(f)
    BY <1>0, <2>3, MovesOn DEF Touch, ToReport, Flight
  <2>4. CASE Report(f)
    <3>1. health' # "refreshing"
      BY <2>4 DEF Report, WriteHealth, HealthFits
    <3>2. QED
      BY <1>0, <2>4, <3>1 DEF Report, Land, Landed, HealthFits
  <2>5. CASE \E rotated \in BOOLEAN : AnswerToken(f, rotated)
    BY <1>0, <2>5, MovesOn DEF AnswerToken, ToReport, Flight
  <2>6. CASE \E e \in Refusals : AnswerError(f, e)
    BY <1>0, <2>6, MovesOn DEF AnswerError, Classify, ToReport, Flight
  <2>7. ~ Throw(f)
    BY DEF Throw, Landed
  <2>8. QED  BY <1>3, <2>1, <2>2, <2>3, <2>4, <2>5, <2>6, <2>7 DEF FlightStep
<1>4. ASSUME NEW i \in Instances, Crash(i)  PROVE HealthFits'
  <2>1. {f \in Flights : flight[f].inst = i} = {} /\ UNCHANGED health
    BY <1>4 DEF Crash, row
  <2>2. flight' = [f \in Flights |-> flight[f]]
    BY <1>4, <2>1 DEF Crash
  <2>3. QED  BY <1>0, <2>1, <2>2 DEF HealthFits, ToReport
<1>5. QED
  BY <1>1, <1>2, <1>3, <1>4
     DEF Next, RowStep, CallStep, Revoke, Delete, Connect, GrowOld, CacheHit, Join, vars

\* Nothing undoes an interruption.
LEMMA InterruptedStays == [Next]_vars /\ ~ interrupted' => ~ interrupted
BY DEF Next, vars, RowStep, Revoke, Delete, Connect, CallStep, CacheHit, Join, Start, GrowOld,
       FlightStep, Read, Mark, WriteHealth, AnswerToken, AnswerError, Touch, Report, Throw, Crash

\* While databases, keys and instances do what they are asked, the health record
\* is never left at "refreshing", however the refreshes of several instances
\* interleave.
THEOREM HealthSettlesUninterrupted == Spec => []HealthSettles
<1> DEFINE I == ~ interrupted => HealthFits
<1>1. Init => I
  BY NoneAssumption DEF Init, HealthFits, Landed, Health
<1>2. I => HealthSettles
  BY DEF HealthFits, HealthSettles, ToReport, Flying
<1>3. Typed /\ I /\ [Next]_vars => I'
  BY HealthFitsStep, InterruptedStays
<1> HIDE DEF I
<1>4. QED  BY <1>1, <1>2, <1>3, TypedAlways, PTL DEF Spec

-----------------------------------------------------------------------------
(* Waiting: what CallersAnswered rests on, beside fairness *)

\* The map of an instance names a refresh of that instance that is on its way.
MapFlies ==
    \A i \in Instances : inflight[i] # None =>
        Flying(inflight[i]) /\ flight[inflight[i]].inst = i

\* Nobody waits for a promise that has settled.
WaitersFly == \A r \in Requests : call[r].flight # None => Flying(call[r].flight)

WaitInv == Typed /\ MapFlies /\ WaitersFly

\* The awaits that a refresh has before it at the most.
Rank(pc) ==
    CASE pc = "reading" -> 5 [] pc = "marking" -> 4 [] pc = "calling" -> 3
      [] pc = "touching" -> 2 [] pc = "reporting" -> 1 [] OTHER -> 0

\* A step of a refresh settles it for all who wait, or takes it an await further.
LEMMA FlightStepAdvances ==
    ASSUME Typed, NEW f \in Flights, FlightStep(f)
    PROVE  \/ \E token : Land(f, token)
           \/ /\ UNCHANGED <<inflight, call>> /\ Flying(f) /\ Flying(f)'
              /\ Rank(flight'[f].pc) < Rank(flight[f].pc)
              /\ flight'[f].inst = flight[f].inst
              /\ \A g \in Flights \ {f} : flight'[g] = flight[g]
<1>1. flight \in [Flights -> Flight] /\ flight[f] \in Flight
  BY FlightType DEF Typed, TypeOK
<1>2. CASE Read(f)  BY <1>1, <1>2 DEF Read, Flying, Flight, Rank
<1>3. CASE Mark(f)  BY <1>1, <1>3 DEF Mark, Flying, Flight, Rank
<1>4. CASE Touch(f)  BY <1>1, <1>4 DEF Touch, Flying, Flight, Rank
<1>5. CASE Report(f) \/ Throw(f)  BY <1>5 DEF Report, Throw
<1>6. CASE \E rotated \in BOOLEAN : AnswerToken(f, rotated)
  BY <1>1, <1>6 DEF AnswerToken, Flying, Flight, Rank
<1>7. CASE \E e \in Refusals : AnswerError(f, e)
  BY <1>1, <1>7 DEF AnswerError, Flying, Flight, Rank
<1>8. QED
  BY <1>2, <1>3, <1>4, <1>5, <1>6, <1>7 DEF FlightStep

LEMMA LandWaits ==
    ASSUME WaitInv, NEW f \in Flights, NEW token, Land(f, token)
    PROVE  MapFlies' /\ WaitersFly'
<1>1. \A g \in Flights \ {f} : flight'[g] = flight[g]
  BY DEF WaitInv, Typed, TypeOK, Land
<1>2. MapFlies'
  BY <1>1 DEF WaitInv, Typed, TypeOK, Land, MapFlies, Flying
<1>3. WaitersFly'
  <2> SUFFICES ASSUME NEW r \in Requests, call'[r].flight # None
               PROVE  Flying(call[r].flight)'
    BY DEF WaitersFly
  <2>1. call[r].flight # f /\ call'[r] = call[r] /\ call[r].flight \in Flights
    BY DEF Land, WaitInv, Typed, TypeOK, Call
  <2>2. QED  BY <1>1, <2>1 DEF WaitInv, WaitersFly, Flying
<1>4. QED  BY <1>2, <1>3

LEMMA CrashWaits ==
    ASSUME WaitInv, NEW i \in Instances, Crash(i)
    PROVE  MapFlies' /\ WaitersFly'
<1>1. \A f \in Flights : flight[f].inst # i => flight'[f] = flight[f]
  BY DEF Crash
<1>2. MapFlies'
  <2> SUFFICES ASSUME NEW j \in Instances, inflight'[j] # None
               PROVE  Flying(inflight[j])' /\ flight'[inflight'[j]].inst = j
    BY DEF MapFlies
  <2>1. j # i /\ inflight'[j] = inflight[j] /\ inflight[j] \in Flights
    BY DEF Crash, WaitInv, Typed, TypeOK
  <2>2. QED  BY <1>1, <2>1 DEF WaitInv, MapFlies, Flying
<1>3. WaitersFly'
  <2> SUFFICES ASSUME NEW r \in Requests, call'[r].flight # None
               PROVE  Flying(call[r].flight)'
    BY DEF WaitersFly
  <2>1. /\ call[r].flight \in Flights \cup {None} /\ call'[r] = call[r]
        /\ flight[call[r].flight].inst # i \/ call[r].flight \notin Flights
    BY DEF Crash, WaitInv, Typed, TypeOK, Call
  <2>2. QED  BY <1>1, <2>1 DEF WaitInv, WaitersFly, Flying
<1>4. QED  BY <1>2, <1>3

LEMMA CallWaits ==
    ASSUME WaitInv, NEW r \in Requests, NEW i \in Instances,
           CacheHit(r, i) \/ Join(r, i) \/ \E f \in Flights : Start(r, i, f)
    PROVE  MapFlies' /\ WaitersFly'
<1>0. call \in [Requests -> Call] /\ \A q \in Requests : call[q] \in Call
  BY DEF WaitInv, Typed, TypeOK
<1>1. CASE CacheHit(r, i)
  BY <1>0, <1>1 DEF CacheHit, Call, WaitInv, MapFlies, WaitersFly, Flying
<1>2. CASE Join(r, i)
  BY <1>0, <1>2 DEF Join, Call, WaitInv, MapFlies, WaitersFly, Flying
<1>3. ASSUME NEW f \in Flights, Start(r, i, f)  PROVE MapFlies' /\ WaitersFly'
  <2>1. /\ flight'[f].pc = "reading" /\ flight'[f].inst = i /\ Flying(f)'
        /\ \A g \in Flights \ {f} : flight'[g] = flight[g]
        /\ ~ Flying(f)
    BY <1>3 DEF Start, Landed, Flying, WaitInv, Typed, TypeOK
  <2>2. MapFlies'
    BY <1>3, <2>1 DEF Start, WaitInv, MapFlies, Flying, Typed, TypeOK
  <2>3. WaitersFly'
    BY <1>0, <1>3, <2>1 DEF Start, Call, WaitInv, WaitersFly, Flying
  <2>4. QED  BY <2>2, <2>3
<1>4. QED  BY <1>1, <1>2, <1>3

LEMMA WaitStep == WaitInv /\ [Next]_vars => WaitInv'
<1> SUFFICES ASSUME WaitInv, [Next]_vars  PROVE MapFlies' /\ WaitersFly'
  BY TypeStep DEF WaitInv
<1>1. CASE UNCHANGED <<flight, inflight, call>>
  BY <1>1 DEF WaitInv, MapFlies, WaitersFly, Flying
<1>2. ASSUME NEW f \in Flights, FlightStep(f)  PROVE MapFlies' /\ WaitersFly'
  <2>1. CASE \E token : Land(f, token)
    BY <2>1, LandWaits
  <2>2. CASE ~ \E token : Land(f, token)
    <3>1. /\ UNCHANGED <<inflight, call>> /\ Flying(f)' /\ flight'[f].inst = flight[f].inst
          /\ \A g \in Flights \ {f} : flight'[g] = flight[g]
      BY <1>2, <2>2, FlightStepAdvances DEF WaitInv
    <3>2. /\ \A i \in Instances : inflight[i] # None => inflight[i] \in Flights
          /\ \A r \in Requests : call[r].flight # None => call[r].flight \in Flights
      BY DEF WaitInv, Typed, TypeOK, Call
    <3>3. QED  BY <3>1, <3>2 DEF WaitInv, MapFlies, WaitersFly, Flying
  <2>3. QED  BY <2>1, <2>2
<1>3. QED
  BY <1>1, <1>2, CallWaits, CrashWaits
     DEF Next, RowStep, CallStep, Revoke, Delete, Connect, GrowOld, vars

LEMMA WaitAlways == Spec => []WaitInv
<1>1. Init => MapFlies /\ WaitersFly
  BY DEF Init, MapFlies, WaitersFly
<1>2. QED  BY <1>1, TypeInit, WaitStep, PTL DEF Spec, WaitInv

\* Whoever waits, waits for a refresh that is on its way, and a call that finds
\* one in the map can still join it: no promise is left in the map once it has
\* settled, whatever throws and whichever instance dies.
THEOREM NobodyWaitsInVain == Spec => [](MapFlies /\ WaitersFly)
<1>1. WaitInv => MapFlies /\ WaitersFly  BY DEF WaitInv
<1>2. QED  BY <1>1, WaitAlways, PTL

\* What a step does for a caller who waits: it answers him, or leaves him with the
\* refresh he waits for, where that was or an await nearer to its end.
WaitShrinks(r) ==
    LET f == call[r].flight IN
    \/ call'[r].flight = None
    \/ /\ call'[r].flight = f
       /\ flight'[f] = flight[f] \/ Rank(flight'[f].pc) < Rank(flight[f].pc)

\* A wait is five steps of its refresh at the most: joining a refresh, crashes and
\* other refreshes never prolong it.
THEOREM WaitsRunOut ==
    Spec => [][\A r \in Requests : call[r].flight # None => WaitShrinks(r)]_vars
<1>1. ASSUME WaitInv, Next, NEW r \in Requests, call[r].flight # None
      PROVE  WaitShrinks(r)
  <2>0. /\ call[r].flight \in Flights /\ Flying(call[r].flight)
        /\ call \in [Requests -> Call] /\ flight \in [Flights -> Flight]
    BY <1>1 DEF WaitInv, WaitersFly, Typed, TypeOK, Call
  <2>1. CASE UNCHANGED <<flight, call>>
    BY <2>1 DEF WaitShrinks
  <2>2. ASSUME NEW q \in Requests, NEW i \in Instances,
               CacheHit(q, i) \/ Join(q, i) \/ \E f \in Flights : Start(q, i, f)
        PROVE  WaitShrinks(r)
    <3>1. call'[r] = call[r]
      BY <1>1, <2>0, <2>2 DEF CacheHit, Join, Start
    <3>2. flight'[call[r].flight] = flight[call[r].flight]
      BY <2>0, <2>2 DEF CacheHit, Join, Start, Flying
    <3>3. QED  BY <3>1, <3>2 DEF WaitShrinks
  <2>3. ASSUME NEW f \in Flights, FlightStep(f)  PROVE WaitShrinks(r)
    <3>1. CASE \E token : Land(f, token)
      BY <2>0, <3>1 DEF Land, WaitShrinks
    <3>2. CASE ~ \E token : Land(f, token)
      BY <1>1, <2>0, <2>3, <3>2, FlightStepAdvances DEF WaitInv, WaitShrinks
    <3>3. QED  BY <3>1, <3>2
  <2>4. ASSUME NEW i \in Instances, Crash(i)  PROVE WaitShrinks(r)
    BY <2>0, <2>4 DEF Crash, WaitShrinks
  <2>5. QED
    BY <1>1, <2>1, <2>2, <2>3, <2>4
       DEF Next, RowStep, CallStep, Revoke, Delete, Connect, GrowOld
<1>2. WaitInv /\ [Next]_vars =>
        [\A r \in Requests : call[r].flight # None => WaitShrinks(r)]_vars
  BY <1>1
<1>3. QED  BY <1>2, WaitAlways, PTL DEF Spec
=============================================================================
