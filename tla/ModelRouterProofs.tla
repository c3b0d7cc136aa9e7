------------------------ MODULE ModelRouterProofs ------------------------
(* The router for any number of concurrent requests, any threshold and any *)
(* cooldown, over any of the providers in any order.                       *)
EXTENDS ModelRouter, TLAPS

-----------------------------------------------------------------------------
(* The provider an attempt is made on *)

LEMMA FirstOf ==
    ASSUME NEW S \in SUBSET Configured, S # {}
    PROVE  \E p \in S : \A q \in S : Rank[p] <= Rank[q]
<1>1. S \subseteq {"openai", "anthropic", "gemini"}
  BY ModelRouterAssumption DEF Providers
<1>2. \A p \in S : Rank[p] \in Nat
  BY ModelRouterAssumption
<1>3. SUFFICES ASSUME \A p \in S : \E q \in S : Rank[q] < Rank[p]  PROVE FALSE
  BY <1>2
<1>4. PICK a \in S : TRUE
  OBVIOUS
<1>5. PICK b \in S : Rank[b] < Rank[a]
  BY <1>3, <1>4
<1>6. PICK c \in S : Rank[c] < Rank[b]
  BY <1>3, <1>5
<1>7. PICK d \in S : Rank[d] < Rank[c]
  BY <1>3, <1>6
<1>8. a # b /\ a # c /\ a # d /\ b # c /\ b # d /\ c # d
  BY <1>2, <1>5, <1>6, <1>7
<1>9. QED  BY <1>1, <1>8

LEMMA CurrentIsLeft ==
    ASSUME NEW r \in Requests, req[r].left \in SUBSET Configured, req[r].left # {}
    PROVE  Current(r) \in req[r].left
BY FirstOf DEF Current

-----------------------------------------------------------------------------
(* The inductive invariant *)

\* What the tracker counts is what happened: only a provider that has failed
\* Threshold times in a row cools down.
HealthInv ==
    \A p \in Configured : fails[p] = streak[p] /\ (cool[p] > 0 => streak[p] = Threshold)

\* A request has tried, left out or still to try each provider once.
Parts(q) ==
    /\ q.pc # "idle" => q.left \cup q.tried \cup q.skipped = Configured
    /\ q.left \cap (q.tried \cup q.skipped) = {}
    /\ q.pc \in {"calling", "answered"} => q.left # {}
    /\ q.pc = "failed" => q.left = {} /\ q.tried # {}
    /\ q.wronged = {}
    /\ q.pc = "answered" => q.answer \in Texts
RequestInv ==
    \A r \in Requests : Parts(req[r]) /\ (req[r].pc = "answered" => req[r].by = Current(r))

IInv == TypeOK /\ HealthInv /\ RequestInv

\* A request record, one update at a time.
LEMMA IdleType == Idle \in Request /\ Parts(Idle)
BY DEF Idle, Request, Parts
LEMMA BeginType ==
    ASSUME NEW o \in SUBSET Configured, NEW s \in SUBSET Configured, NEW w \in SUBSET Configured
    PROVE  [Idle EXCEPT !.pc = "calling", !.left = o, !.skipped = s, !.wronged = w] \in Request
BY DEF Idle, Request
LEMMA NextType ==
    ASSUME NEW q \in Request, NEW p \in Configured, NEW x \in {"failed", "calling"}
    PROVE  [q EXCEPT !.tried = @ \cup {p}, !.left = @ \ {p}, !.pc = x] \in Request
BY DEF Request
LEMMA AnswerType ==
    ASSUME NEW q \in Request, NEW p \in Configured, NEW a \in Texts
    PROVE  [q EXCEPT !.pc = "answered", !.answer = a, !.by = p] \in Request
BY DEF Request

\* What the adapters make of a reply.
LEMMA GenerateType ==
    ASSUME NEW p \in Configured, NEW reply \in Replies, Generate(p, reply) # "throw"
    PROVE  Generate(p, reply) \in Texts
<1>1. p \in {"openai", "anthropic", "gemini"}
  BY ModelRouterAssumption DEF Providers
<1>2. OpenAIAdapter(reply) \in Texts \cup {"throw"}
  BY DEF OpenAIAdapter, Replies, Texts
<1>3. AnthropicAdapter(reply) \in Texts \cup {"throw"}
  BY DEF AnthropicAdapter, Replies, Texts
<1>4. GeminiAdapter(reply) \in Texts \cup {"throw"}
  BY DEF GeminiAdapter, Replies, Texts
<1>5. QED  BY <1>1, <1>2, <1>3, <1>4 DEF Generate

LEMMA InitInv == Init => IInv
<1> SUFFICES ASSUME Init  PROVE IInv
  OBVIOUS
<1>1. TypeOK
  BY IdleType, ModelRouterAssumption DEF Init, TypeOK
<1>2. HealthInv
  BY DEF Init, HealthInv
<1>3. RequestInv
  <2>1. Idle.pc = "idle"
    BY DEF Idle
  <2>2. QED  BY <2>1, IdleType DEF Init, RequestInv
<1>4. QED  BY <1>1, <1>2, <1>3 DEF IInv

-----------------------------------------------------------------------------
(* The steps of the tracker *)

LEMMA FailureHealth ==
    ASSUME TypeOK, HealthInv, NEW p \in Configured, RecordFailure(p)
    PROVE  /\ fails' \in [Configured -> 0..Threshold] /\ cool' \in [Configured -> 0..Cooldown]
           /\ streak' \in [Configured -> 0..Threshold] /\ HealthInv'
<1>1. /\ Threshold \in Nat \ {0} /\ Cooldown \in Nat \ {0}
      /\ fails[p] \in 0..Threshold /\ streak[p] = fails[p]
  BY ModelRouterAssumption DEF TypeOK, HealthInv
<1>2. UpTo(fails[p] + 1, Threshold) \in 0..Threshold
  BY <1>1 DEF UpTo
<1>3. fails[p] + 1 >= Threshold => UpTo(streak[p] + 1, Threshold) = Threshold
  BY <1>1 DEF UpTo
<1>4. /\ fails' = [fails EXCEPT ![p] = UpTo(fails[p] + 1, Threshold)]
      /\ cool' = IF fails[p] + 1 >= Threshold THEN [cool EXCEPT ![p] = Cooldown] ELSE cool
      /\ streak' = [streak EXCEPT ![p] = UpTo(streak[p] + 1, Threshold)]
  BY DEF RecordFailure
<1>5. fails[p] + 1 < Threshold => cool[p] = 0
  BY <1>1 DEF HealthInv, TypeOK
<1>6. /\ fails' \in [Configured -> 0..Threshold] /\ cool' \in [Configured -> 0..Cooldown]
      /\ streak' \in [Configured -> 0..Threshold]
  BY <1>1, <1>2, <1>4 DEF TypeOK
<1>7. ASSUME NEW k \in Configured  PROVE fails'[k] = streak'[k] /\ (cool'[k] > 0 => streak'[k] = Threshold)
  <2>1. CASE k # p
    BY <1>4, <2>1 DEF TypeOK, HealthInv
  <2>2. CASE k = p
    <3>1. fails'[p] = UpTo(fails[p] + 1, Threshold) /\ streak'[p] = UpTo(streak[p] + 1, Threshold)
      BY <1>4 DEF TypeOK
    <3>2. cool'[p] = IF fails[p] + 1 >= Threshold THEN Cooldown ELSE cool[p]
      BY <1>4 DEF TypeOK
    <3>3. QED  BY <1>1, <1>3, <1>5, <2>2, <3>1, <3>2
  <2>3. QED  BY <2>1, <2>2
<1>8. QED  BY <1>6, <1>7 DEF HealthInv

LEMMA SuccessHealth ==
    ASSUME TypeOK, HealthInv, NEW p \in Configured, RecordSuccess(p)
    PROVE  /\ fails' \in [Configured -> 0..Threshold] /\ cool' \in [Configured -> 0..Cooldown]
           /\ streak' \in [Configured -> 0..Threshold] /\ HealthInv'
BY ModelRouterAssumption DEF TypeOK, HealthInv, RecordSuccess

LEMMA TickHealth ==
    ASSUME TypeOK, HealthInv, Tick
    PROVE  cool' \in [Configured -> 0..Cooldown] /\ HealthInv'
<1>1. \A p \in Configured : cool[p] \in 0..Cooldown /\ Cooldown \in Nat
  BY ModelRouterAssumption DEF TypeOK
<1>2. QED  BY <1>1 DEF Tick, HealthInv

-----------------------------------------------------------------------------
(* The steps of a request *)

\* A step of one request, and what it leaves to the others.
LEMMA OneRequest ==
    ASSUME TypeOK, RequestInv, NEW r \in Requests, NEW x \in Request, req' = [req EXCEPT ![r] = x],
           Parts(x), x.pc = "answered" => x.left = req[r].left /\ x.by = Current(r)
    PROVE  req' \in [Requests -> Request] /\ RequestInv'
<1>1. req' \in [Requests -> Request]
  BY DEF TypeOK
<1>2. ASSUME NEW k \in Requests
      PROVE  Parts(req'[k]) /\ (req'[k].pc = "answered" => req'[k].by = Current(k)')
  <2>1. CASE k # r
    <3>1. req'[k] = req[k]
      BY <2>1 DEF TypeOK
    <3>2. Current(k)' = Current(k)
      BY <3>1 DEF Current
    <3>3. QED  BY <3>1, <3>2 DEF RequestInv
  <2>2. CASE k = r
    <3>1. req'[k] = x
      BY <2>2 DEF TypeOK
    <3>2. x.pc = "answered" => Current(k)' = Current(r)
      BY <2>2, <3>1 DEF Current
    <3>3. QED  BY <2>2, <3>1, <3>2
  <2>3. QED  BY <2>1, <2>2
<1>3. (\A k \in Requests : Parts(req[k]))' /\ (\A k \in Requests : req[k].pc = "answered" => req[k].by = Current(k))'
  BY <1>2 DEF Parts
<1>4. QED  BY <1>1, <1>3 DEF RequestInv

LEMMA NextProviderInv ==
    ASSUME IInv, NEW r \in Requests, req[r].pc = "calling", NextProvider(r)
    PROVE  /\ Current(r) \in Configured
           /\ req' \in [Requests -> Request] /\ RequestInv'
<1> DEFINE q == req[r]
<1>0. q \in Request /\ Parts(q) /\ TypeOK /\ RequestInv
  BY DEF IInv, TypeOK, RequestInv
<1>1. q.left \in SUBSET Configured /\ q.left # {}
  BY <1>0 DEF Request, Parts
<1>2. Current(r) \in q.left
  BY <1>1, CurrentIsLeft
<1>3. PICK p \in Configured : p = Current(r)
  BY <1>1, <1>2
<1>4. PICK y \in {"failed", "calling"} : y = IF q.left = {p} THEN "failed" ELSE "calling"
  OBVIOUS
<1>5. PICK x : x = [q EXCEPT !.tried = @ \cup {p}, !.left = @ \ {p}, !.pc = y]
  OBVIOUS
<1>6. req' = [req EXCEPT ![r] = x] /\ x \in Request
  BY <1>0, <1>3, <1>4, <1>5, NextType DEF NextProvider
<1>7. /\ x.tried = q.tried \cup {p} /\ x.left = q.left \ {p} /\ x.pc = y
      /\ x.skipped = q.skipped /\ x.wronged = q.wronged
  BY <1>0, <1>5 DEF Request
<1>8. Parts(x)
  BY <1>0, <1>2, <1>3, <1>4, <1>7 DEF Parts
<1>9. x.pc # "answered"
  BY <1>4, <1>7
<1>10. QED  BY <1>0, <1>3, <1>6, <1>8, <1>9, OneRequest

LEMMA BeginInv == ASSUME IInv, NEW r \in Requests, Begin(r)  PROVE IInv'
<1>0. TypeOK /\ HealthInv /\ RequestInv
  BY DEF IInv
<1>1. Order \in SUBSET Configured /\ Order # {}
  BY ModelRouterAssumption DEF Order, Healthy
<1>2. \A p \in Configured \ Order : streak[p] = Threshold
  <2>1. ASSUME NEW p \in Configured \ Order  PROVE cool[p] > 0
    <3>1. cool[p] # 0
      BY <2>1 DEF Order, Healthy, IsHealthy
    <3>2. cool[p] \in Nat
      BY <1>0 DEF TypeOK
    <3>3. QED  BY <3>1, <3>2
  <2>2. QED  BY <1>0, <2>1 DEF HealthInv
<1>3. {p \in Configured \ Order : streak[p] < Threshold} = {}
  BY <1>2, ModelRouterAssumption
<1>4. PICK x : x = [Idle EXCEPT !.pc = "calling", !.left = Order, !.skipped = Configured \ Order,
                                !.wronged = {}]
  OBVIOUS
<1>5. req' = [req EXCEPT ![r] = x]
  BY <1>3, <1>4 DEF Begin
<1>6. x \in Request
  BY <1>1, <1>4, BeginType
<1>7. x.pc = "calling" /\ x.left = Order /\ x.skipped = Configured \ Order /\ x.wronged = {} /\ x.tried = {}
  BY <1>4 DEF Idle
<1>8. Parts(x)
  BY <1>1, <1>7 DEF Parts
<1>9. req' \in [Requests -> Request] /\ RequestInv'
  BY <1>0, <1>5, <1>6, <1>7, <1>8, OneRequest
<1>10. QED  BY <1>0, <1>9 DEF IInv, TypeOK, HealthInv, Begin

LEMMA TimeoutInv == ASSUME IInv, NEW r \in Requests, Timeout(r)  PROVE IInv'
<1>0. TypeOK /\ HealthInv /\ RequestInv
  BY DEF IInv
<1>1. Current(r) \in Configured /\ req' \in [Requests -> Request] /\ RequestInv'
  BY NextProviderInv DEF Timeout
<1>2. RecordFailure(Current(r)) /\ late' = late \cup {<<r, Current(r)>>}
  BY DEF Timeout, NextProvider
<1>3. /\ fails' \in [Configured -> 0..Threshold] /\ cool' \in [Configured -> 0..Cooldown]
      /\ streak' \in [Configured -> 0..Threshold] /\ HealthInv'
  BY <1>0, <1>1, <1>2, FailureHealth
<1>4. late' \subseteq Attempts
  BY <1>0, <1>1, <1>2 DEF TypeOK, Attempts
<1>5. QED  BY <1>1, <1>3, <1>4 DEF IInv, TypeOK

LEMMA SettleInv ==
    ASSUME IInv, NEW r \in Requests, NEW reply \in Replies, Settle(r, reply)  PROVE IInv'
<1> DEFINE q == req[r]
<1>0. TypeOK /\ HealthInv /\ RequestInv /\ q \in Request /\ Parts(q) /\ q.pc = "calling" /\ late' = late
  BY DEF IInv, TypeOK, RequestInv, Settle
<1>1. CASE Generate(Current(r), reply) = "throw"
  <2>1. NextProvider(r)
    BY <1>1 DEF Settle
  <2>2. Current(r) \in Configured /\ req' \in [Requests -> Request] /\ RequestInv'
    BY <1>0, <2>1, NextProviderInv
  <2>3. RecordFailure(Current(r))
    BY <2>1 DEF NextProvider
  <2>4. /\ fails' \in [Configured -> 0..Threshold] /\ cool' \in [Configured -> 0..Cooldown]
        /\ streak' \in [Configured -> 0..Threshold] /\ HealthInv'
    BY <1>0, <2>2, <2>3, FailureHealth
  <2>5. QED  BY <1>0, <2>2, <2>4 DEF IInv, TypeOK
<1>2. CASE Generate(Current(r), reply) # "throw"
  <2>1. q.left \in SUBSET Configured /\ q.left # {}
    BY <1>0 DEF Request, Parts
  <2>2. PICK p \in Configured : p = Current(r)
    BY <2>1, CurrentIsLeft
  <2>3. PICK a \in Texts : a = Generate(Current(r), reply)
    BY <1>2, <2>2, GenerateType
  <2>4. PICK x : x = [q EXCEPT !.pc = "answered", !.answer = a, !.by = p]
    OBVIOUS
  <2>5. req' = [req EXCEPT ![r] = x] /\ RecordSuccess(p)
    BY <1>2, <2>2, <2>3, <2>4 DEF Settle
  <2>6. x \in Request
    BY <1>0, <2>4, AnswerType
  <2>7. /\ x.pc = "answered" /\ x.answer = a /\ x.by = p /\ x.left = q.left /\ x.tried = q.tried
        /\ x.skipped = q.skipped /\ x.wronged = q.wronged
    BY <1>0, <2>4 DEF Request
  <2>8. Parts(x)
    BY <1>0, <2>7 DEF Parts
  <2>9. req' \in [Requests -> Request] /\ RequestInv'
    BY <1>0, <2>2, <2>5, <2>6, <2>7, <2>8, OneRequest
  <2>10. /\ fails' \in [Configured -> 0..Threshold] /\ cool' \in [Configured -> 0..Cooldown]
         /\ streak' \in [Configured -> 0..Threshold] /\ HealthInv'
    BY <1>0, <2>5, SuccessHealth
  <2>11. QED  BY <1>0, <2>9, <2>10 DEF IInv, TypeOK
<1>3. QED  BY <1>1, <1>2

LEMMA DeliverInv == ASSUME IInv, NEW r \in Requests, NEW body, Deliver(r, body)  PROVE IInv'
<1>0. TypeOK /\ HealthInv /\ RequestInv
  BY DEF IInv
<1>1. req' \in [Requests -> Request] /\ RequestInv'
  <2>1. Idle.pc = "idle"
    BY DEF Idle
  <2>2. QED  BY <1>0, <2>1, IdleType, OneRequest DEF Deliver
<1>2. QED  BY <1>0, <1>1 DEF IInv, TypeOK, HealthInv, Deliver

LEMMA NextInv == IInv /\ [Next]_vars => IInv'
<1> SUFFICES ASSUME IInv, [Next]_vars  PROVE IInv'
  OBVIOUS
<1>0. TypeOK /\ HealthInv /\ RequestInv
  BY DEF IInv
<1>s. ASSUME UNCHANGED req  PROVE RequestInv'
  <2>1. \A r : Current(r)' = Current(r)
    BY <1>s DEF Current
  <2>2. QED  BY <1>0, <1>s, <2>1 DEF RequestInv, Parts
<1>1. ASSUME NEW r \in Requests, Begin(r) \/ RequestStep(r)  PROVE IInv'
  BY <1>1, BeginInv, TimeoutInv, SettleInv, DeliverInv DEF RequestStep
<1>2. ASSUME NEW r \in Requests, NEW p \in Configured, NEW reply, LateReply(r, p, reply)  PROVE IInv'
  BY <1>0, <1>2, <1>s DEF LateReply, IInv, TypeOK, HealthInv
<1>3. CASE Tick
  BY <1>0, <1>3, <1>s, TickHealth DEF Tick, IInv, TypeOK
<1>4. CASE UNCHANGED vars
  BY <1>0, <1>4, <1>s DEF vars, IInv, TypeOK, HealthInv
<1>5. QED  BY <1>1, <1>2, <1>3, <1>4 DEF Next

LEMMA InvAlways == Spec => []IInv
BY InitInv, NextInv, PTL DEF Spec

\* Type correctness of the router and of its tracker (TypeOK).
THEOREM TypeCorrect == Spec => []TypeOK
BY InvAlways, PTL DEF IInv

\* A request fails only when every provider of a non-empty order has failed
\* it, and answers with the attempt it waits for (ResultsAreEarned).
THEOREM ResultsEarned == Spec => []ResultsAreEarned
<1>1. IInv => ResultsAreEarned
  <2> SUFFICES ASSUME IInv, NEW r \in Requests
               PROVE  /\ req[r].pc = "failed" =>
                            req[r].tried # {} /\ req[r].tried \cup req[r].skipped = Configured
                      /\ req[r].pc = "answered" =>
                            /\ req[r].answer \in Texts
                            /\ req[r].by = Current(r) /\ req[r].by \notin req[r].tried \cup req[r].skipped
    BY DEF ResultsAreEarned
  <2>1. /\ req[r] \in Request /\ Parts(req[r])
        /\ req[r].pc = "answered" => req[r].by = Current(r)
    BY DEF IInv, TypeOK, RequestInv
  <2>2. req[r].left \in SUBSET Configured
    BY <2>1 DEF Request
  <2>3. req[r].pc = "answered" => Current(r) \in req[r].left
    BY <2>1, <2>2, CurrentIsLeft DEF Parts
  <2>4. QED  BY <2>1, <2>3 DEF Parts
<1>2. QED  BY <1>1, InvAlways, PTL

\* Whom a request leaves out has failed Threshold times since it last
\* answered anybody (SkippedHadFailed).
THEOREM SkippedFailed == Spec => []SkippedHadFailed
<1>1. IInv => SkippedHadFailed
  BY DEF IInv, RequestInv, Parts, SkippedHadFailed
<1>2. QED  BY <1>1, InvAlways, PTL

-----------------------------------------------------------------------------
(* The variant behind RequestsEnd *)

\* A request that is calling waits, ends, or goes on with fewer providers.
GoesOn(q, x) ==
    \/ x = q
    \/ x.pc \in {"answered", "failed"}
    \/ x.pc = "calling" /\ x.left \subseteq q.left /\ x.left # q.left

LEMMA RequestGoesOn ==
    ASSUME IInv, NEW r \in Requests, req[r].pc = "calling",
           Timeout(r) \/ \E reply \in Replies : Settle(r, reply)
    PROVE  GoesOn(req[r], req'[r])
<1>0. req \in [Requests -> Request] /\ req[r] \in Request /\ Parts(req[r])
  BY DEF IInv, TypeOK, RequestInv
<1>1. Current(r) \in req[r].left
  BY <1>0, CurrentIsLeft DEF Request, Parts
<1>2. ASSUME NextProvider(r)  PROVE GoesOn(req[r], req'[r])
  <2>1. /\ req'[r].left = req[r].left \ {Current(r)}
        /\ req'[r].pc = IF req[r].left = {Current(r)} THEN "failed" ELSE "calling"
    BY <1>0, <1>2 DEF NextProvider, Request
  <2>2. req'[r].left \subseteq req[r].left /\ req'[r].left # req[r].left
    BY <1>1, <2>1
  <2>3. QED  BY <2>1, <2>2 DEF GoesOn
<1>3. ASSUME NEW reply \in Replies, Settle(r, reply), ~ NextProvider(r)
      PROVE  req'[r].pc = "answered"
  <2>1. req' = [req EXCEPT ![r].pc = "answered", ![r].answer = Generate(Current(r), reply),
                           ![r].by = Current(r)]
    BY <1>3 DEF Settle
  <2>2. QED  BY <1>0, <2>1 DEF Request
<1>4. QED  BY <1>2, <1>3 DEF Timeout, GoesOn

LEMMA OthersWait ==
    ASSUME TypeOK, NEW r \in Requests, NEW k \in Requests, k # r, Begin(k) \/ RequestStep(k)
    PROVE  req'[r] = req[r]
BY DEF TypeOK, Begin, RequestStep, Timeout, Settle, Deliver, NextProvider

\* Every step of anybody leaves a calling request as it is, ends it, or takes
\* the provider it was trying from its order: with the three providers there are,
\* it makes at most three attempts.  RequestsEnd adds that its steps do come.
THEOREM AttemptsRunOut ==
    Spec => [][\A r \in Requests :
                  req[r].pc = "calling" => GoesOn(req[r], req'[r])]_vars
<1>1. ASSUME IInv, [Next]_vars, NEW r \in Requests, req[r].pc = "calling"
      PROVE  GoesOn(req[r], req'[r])
  <2>0. TypeOK
    BY <1>1 DEF IInv
  <2>1. ASSUME NEW k \in Requests, Begin(k) \/ RequestStep(k)  PROVE GoesOn(req[r], req'[r])
    <3>1. CASE k # r
      BY <2>0, <2>1, <3>1, OthersWait DEF GoesOn
    <3>2. CASE k = r
      <4>1. Timeout(r) \/ \E reply \in Replies : Settle(r, reply)
        BY <1>1, <2>1, <3>2 DEF Begin, RequestStep, Deliver
      <4>2. QED  BY <1>1, <4>1, RequestGoesOn
    <3>3. QED  BY <3>1, <3>2
  <2>2. UNCHANGED req => GoesOn(req[r], req'[r])
    BY DEF GoesOn
  <2>3. QED  BY <1>1, <2>1, <2>2 DEF Next, LateReply, Tick, vars
<1>2. IInv /\ [Next]_vars =>
        \A r \in Requests : req[r].pc = "calling" => GoesOn(req[r], req'[r])
  BY <1>1
<1>3. QED  BY <1>2, InvAlways, PTL DEF Spec
=============================================================================
