--------------------------- MODULE FollowupProofs ---------------------------
(* Follow-ups, for any evidence and any number of records: how they are      *)
(* decided (Followups), and what is recorded of them and of the contacts     *)
(* they are for (WorkspaceMemory).  The two share no state.                  *)
EXTENDS Followups, WorkspaceMemory, SequenceTheorems, FiniteSetTheorems,
        WellFoundedInduction, TLAPS

-----------------------------------------------------------------------------
(* The decision: whatever it is asked of, and what it keeps to *)

\* An open follow-up that a client has asked for is never of low urgency, in
\* whatever evidence: the lift for an escalated thread and the one for an owned
\* thread cover it between them, and the last demotion spares it.
LEMMA AsksAreLifted == ClientAsksStandOut
<1> SUFFICES ASSUME Decision.owed, IsClient, AskCount > 0, OwnerMissing => EscalationRequired
             PROVE  Decision.urgency # Low
  BY DEF ClientAsksStandOut
<1>1. ~ Contradictory /\ ~ ThreadResolved /\ FollowupOwed /\ Decision.urgency = ScoredUrgency
  BY DEF Decision, NoDecision
<1>2. HasStrongSignal
  BY DEF HasStrongSignal
<1>3. Scored \in 1..4
  BY DEF Scored, Low, Medium, High, Critical
<1>4. AdjustForEscalation(Scored) \in 1..4
  BY <1>3 DEF AdjustForEscalation, Low, Medium, High, Critical
<1>5. OwnerMissing => AdjustForEscalation(Scored) \in 2..4
  BY <1>3 DEF AdjustForEscalation, Low, Medium, High, Critical
<1>6. AdjustForClientOwner(AdjustForEscalation(Scored)) \in 2..4
  BY <1>1, <1>4, <1>5 DEF AdjustForClientOwner, Low, Medium, High, Critical
<1>7. AdjustForMeetingOwner(AdjustForClientOwner(AdjustForEscalation(Scored))) \in 2..4
  BY <1>6 DEF AdjustForMeetingOwner, High
<1>8. ScoredUrgency = AdjustForMeetingOwner(AdjustForClientOwner(AdjustForEscalation(Scored)))
  BY <1>2 DEF ScoredUrgency
<1>9. QED  BY <1>1, <1>7, <1>8 DEF Low

\* In any evidence, an open follow-up that a client has asked for stands out.
THEOREM AsksStandOut == EvidenceSpec => []ClientAsksStandOut
BY AsksAreLifted, PTL

LEMMA EvidenceStep == EvidenceOK /\ [EvidenceChanges]_evidence => EvidenceOK'
<1> SUFFICES ASSUME EvidenceOK, [EvidenceChanges]_evidence  PROVE EvidenceOK'
  OBVIOUS
<1> USE DEF EvidenceOK
<1>1. CASE NewMessage
  BY <1>1, AppendProperties DEF NewMessage
<1>2. CASE NewEvent
  BY <1>2, AppendProperties, FollowupsAssumption DEF NewEvent
<1>3. CASE NewState
  BY <1>3, AppendProperties DEF NewState
<1>4. CASE StateChanges
  BY <1>4 DEF StateChanges
<1>5. ASSUME NEW i \in DOMAIN calendar, NEW h \in Hours \cup {Absent},
             calendar' = [calendar EXCEPT ![i].start = h]
      PROVE  calendar' \in Seq(Event)
  <2>1. calendar[i] \in Event
    OBVIOUS
  <2>2. [calendar[i] EXCEPT !.start = h] \in Event
    BY <2>1 DEF Event
  <2>3. calendar' = [calendar EXCEPT ![i] = [calendar[i] EXCEPT !.start = h]]
    BY <1>5
  <2>4. QED  BY <2>2, <2>3
<1>6. CASE MeetingNears
  BY <1>5, <1>6 DEF MeetingNears
<1>7. CASE MeetingPasses
  BY <1>5, <1>7 DEF MeetingPasses
<1>8. CASE GetsOlder
  BY <1>8 DEF GetsOlder
<1>9. CASE UNCHANGED evidence
  BY <1>9 DEF evidence
<1>10. QED
  BY <1>1, <1>2, <1>3, <1>4, <1>6, <1>7, <1>8, <1>9 DEF EvidenceChanges, Grows

\* The evidence keeps its type, whatever comes in, nears or passes.
THEOREM EvidenceTypes == EvidenceSpec => []EvidenceOK
<1>1. NoEvidence => EvidenceOK
  BY FollowupsAssumption DEF NoEvidence, EvidenceOK
<1>2. QED  BY <1>1, EvidenceStep, PTL DEF EvidenceSpec

-----------------------------------------------------------------------------
(* What more evidence does to the signals *)

\* t says what s says, and more.
Covers(t, s) ==
    /\ \A x \in Sources(s) : \E y \in Sources(t) :
           x.title = y.title /\ x.excerpt = y.excerpt /\ x.flagged = y.flagged
    /\ Len(s) <= Len(t)

LEMMA AppendCovers ==
    ASSUME NEW S, NEW s \in Seq(S), NEW x \in S
    PROVE  Append(s, x) \in Seq(S) /\ Covers(Append(s, x), s)
<1>1. /\ Append(s, x) \in Seq(S) /\ Len(Append(s, x)) = Len(s) + 1
      /\ DOMAIN s = 1..Len(s) /\ DOMAIN Append(s, x) = 1..Len(s) + 1 /\ Len(s) \in Nat
      /\ \A i \in 1..Len(s) : Append(s, x)[i] = s[i]
  BY AppendProperties, LenProperties
<1>2. Sources(s) \subseteq Sources(Append(s, x))
  BY <1>1 DEF Sources
<1>3. QED  BY <1>1, <1>2 DEF Covers

LEMMA CoversTexts ==
    ASSUME NEW s, NEW t, Covers(t, s)
    PROVE  Excerpts(s) \subseteq Excerpts(t) /\ Texts(s) \subseteq Texts(t)
BY DEF Covers, Excerpts, Texts

LEMMA SaysMore ==
    ASSUME NEW a, NEW b, a \subseteq b, NEW re, Says(a, re)
    PROVE  Says(b, re)
BY DEF Says

\* An event whose start alone changes goes on saying the same.
LEMMA StartCovers ==
    ASSUME NEW s \in Seq(Event), NEW i \in DOMAIN s, NEW h \in Hours,
           NEW t, t = [s EXCEPT ![i].start = h]
    PROVE  /\ Covers(t, s) /\ DOMAIN t = DOMAIN s
           /\ \A j \in DOMAIN s : t[j].organizer = s[j].organizer
           /\ \A j \in DOMAIN s : t[j].start = IF j = i THEN h ELSE s[j].start
<1>1. \A j \in DOMAIN s : s[j] \in Event
  OBVIOUS
<1>2. DOMAIN t = DOMAIN s
  OBVIOUS
<1>3. \A j \in DOMAIN s :
          t[j] = IF j = i THEN [s[i] EXCEPT !.start = h] ELSE s[j]
  OBVIOUS
<1>4. \A j \in DOMAIN s :
          /\ t[j].title = s[j].title /\ t[j].excerpt = s[j].excerpt
          /\ t[j].organizer = s[j].organizer /\ t[j].flagged = s[j].flagged
          /\ t[j].start = IF j = i THEN h ELSE s[j].start
  BY <1>1, <1>3 DEF Event
<1>5. Len(t) = Len(s)
  BY <1>2, LenProperties
<1>6. ASSUME NEW x \in Sources(s)
      PROVE  \E y \in Sources(t) : x.title = y.title /\ x.excerpt = y.excerpt /\ x.flagged = y.flagged
  <2>1. PICK j \in DOMAIN s : x = s[j]
    BY <1>6 DEF Sources
  <2>2. t[j] \in Sources(t)
    BY <1>2, <2>1 DEF Sources
  <2>3. QED  BY <1>4, <2>1, <2>2
<1>7. Len(s) \in Nat
  BY LenProperties
<1>8. Covers(t, s)
  <2>1. Len(s) <= Len(t)
    BY <1>5, <1>7
  <2>2. QED  BY <1>6, <2>1, Zenon DEF Covers
<1>9. QED  BY <1>2, <1>4, <1>8

LEMMA CoversItself == ASSUME NEW S, NEW s \in Seq(S)  PROVE Covers(s, s)
BY LenProperties DEF Covers

LEMMA EvidenceGrows ==
    ASSUME EvidenceOK, Grows
    PROVE  /\ Covers(inbox', inbox) /\ Covers(calendar', calendar) /\ Covers(workflow', workflow)
           /\ age \in Nat /\ age' \in Nat /\ age <= age'
<1> USE FollowupsAssumption DEF EvidenceOK
<1>0. Covers(inbox, inbox) /\ Covers(calendar, calendar) /\ Covers(workflow, workflow) /\ age \in Nat
  BY CoversItself
<1>1. CASE NewMessage
  BY <1>0, <1>1, AppendCovers DEF NewMessage
<1>2. CASE NewEvent
  BY <1>0, <1>2, AppendCovers DEF NewEvent
<1>3. CASE NewState
  BY <1>0, <1>3, AppendCovers DEF NewState
<1>4. CASE MeetingNears
  <2>1. PICK i \in DOMAIN calendar, h \in Hours : calendar' = [calendar EXCEPT ![i].start = h]
    BY <1>4 DEF MeetingNears
  <2>2. Covers(calendar', calendar)
    BY <2>1, StartCovers
  <2>3. inbox' = inbox /\ workflow' = workflow /\ age' = age
    BY <1>4 DEF MeetingNears
  <2>4. QED  BY <1>0, <2>2, <2>3
<1>5. CASE GetsOlder
  <2>1. PICK a \in Ages : a > age /\ age' = a
    BY <1>5 DEF GetsOlder
  <2>2. inbox' = inbox /\ calendar' = calendar /\ workflow' = workflow
    BY <1>5 DEF GetsOlder
  <2>3. a \in Nat
    OBVIOUS
  <2>4. age' \in Nat /\ age <= age'
    BY <1>0, <2>1, <2>3
  <2>5. QED  BY <1>0, <2>2, <2>4
<1>6. QED  BY <1>1, <1>2, <1>3, <1>4, <1>5 DEF Grows

\* A meeting that is near stays near.
LEMMA StartsGrow ==
    ASSUME EvidenceOK, Grows, NEW n \in Nat, \E start \in Starts : start <= n
    PROVE  \E start \in Starts' : start <= n
<1> USE FollowupsAssumption DEF EvidenceOK
<1>1. PICK j \in DOMAIN calendar : calendar[j].start # Absent /\ calendar[j].start <= n
  BY DEF Starts, Sources
<1>2. CASE calendar' = calendar
  BY <1>2 DEF Starts, Sources
<1>3. CASE NewEvent
  <2>1. PICK e \in Events : calendar' = Append(calendar, e)
    BY <1>3 DEF NewEvent
  <2>2. j \in DOMAIN calendar' /\ calendar'[j] = calendar[j]
    BY <2>1, AppendProperties, LenProperties
  <2>3. QED  BY <1>1, <2>2 DEF Starts, Sources
<1>4. CASE MeetingNears
  <2>1. PICK i \in DOMAIN calendar, h \in Hours :
            /\ calendar[i].start # Absent /\ h < calendar[i].start
            /\ calendar' = [calendar EXCEPT ![i].start = h]
    BY <1>4 DEF MeetingNears
  <2>2. /\ DOMAIN calendar' = DOMAIN calendar
        /\ calendar'[j].start = IF j = i THEN h ELSE calendar[j].start
    BY <2>1, StartCovers
  <2>3. calendar[i] \in Event
    OBVIOUS
  <2>4. calendar[i].start \in Nat /\ h \in Nat /\ h # Absent
    BY <2>1, <2>3 DEF Event
  <2>5. calendar'[j].start # Absent /\ calendar'[j].start <= n
    BY <1>1, <2>1, <2>2, <2>4
  <2>6. QED  BY <2>2, <2>5 DEF Starts, Sources
<1>5. QED  BY <1>2, <1>3, <1>4 DEF Grows, NewMessage, NewState, GetsOlder

\* Each message that asks is still there.
LEMMA AskCountGrows ==
    ASSUME EvidenceOK, Grows
    PROVE  AskCount \in Nat /\ AskCount' \in Nat /\ AskCount <= AskCount'
<1> DEFINE Asks(s) == {i \in DOMAIN s : Says(s[i].title \cup s[i].excerpt, "ask")}
<1>1. /\ inbox \in Seq(Messages) /\ DOMAIN inbox = 1..Len(inbox) /\ Len(inbox) \in Nat
      /\ inbox' \in Seq(Messages) /\ DOMAIN inbox' = 1..Len(inbox') /\ Len(inbox') \in Nat
  <2>1. inbox' \in Seq(Messages)
    BY EvidenceStep DEF EvidenceOK, EvidenceChanges
  <2>2. QED  BY <2>1, LenProperties DEF EvidenceOK
<1>2. IsFiniteSet(Asks(inbox)) /\ IsFiniteSet(Asks(inbox'))
  <2>1. IsFiniteSet(1..Len(inbox)) /\ IsFiniteSet(1..Len(inbox'))
    BY <1>1, FS_Interval
  <2>2. Asks(inbox) \subseteq 1..Len(inbox) /\ Asks(inbox') \subseteq 1..Len(inbox')
    BY <1>1
  <2>3. QED  BY <2>1, <2>2, FS_Subset
<1>3. Asks(inbox) \subseteq Asks(inbox')
  <2>1. CASE inbox' = inbox
    BY <2>1
  <2>2. CASE NewMessage
    <3>1. PICK x \in Messages : inbox' = Append(inbox, x)
      BY <2>2 DEF NewMessage
    <3>2. \A i \in DOMAIN inbox : i \in DOMAIN inbox' /\ inbox'[i] = inbox[i]
      BY <1>1, <3>1, AppendProperties
    <3>3. QED  BY <3>2
  <2>3. QED  BY <2>1, <2>2 DEF Grows, NewEvent, NewState, MeetingNears, GetsOlder
<1>4. /\ Cardinality(Asks(inbox)) \in Nat /\ Cardinality(Asks(inbox')) \in Nat
      /\ Cardinality(Asks(inbox)) <= Cardinality(Asks(inbox'))
  BY <1>2, <1>3, FS_CardinalityType, FS_Subset
<1>5. AskCount = Cardinality(Asks(inbox)) /\ AskCount' = Cardinality(Asks(inbox'))
  BY DEF AskCount
<1>6. QED  BY <1>4, <1>5

\* What urges goes on urging, and what settles goes on settling.
LEMMA SignalsGrow ==
    ASSUME EvidenceOK, Grows
    PROVE  /\ IsClient => IsClient'
           /\ IsProspect => IsProspect'
           /\ MissedMeeting => MissedMeeting'
           /\ Occurred => Occurred'
           /\ PromisedNext => PromisedNext'
           /\ Says(Texts(calendar), "missed") => Says(Texts(calendar'), "missed")
           /\ Says(Texts(calendar), "scheduled") => Says(Texts(calendar'), "scheduled")
           /\ DeadlinePressure => DeadlinePressure'
           /\ Says(WorkText, "promise") => Says(WorkText', "promise")
           /\ Says(AllTexts, "completed") => Says(AllTexts', "completed")
           /\ PostMeetingReplySent => PostMeetingReplySent'
           /\ ThreadResolved => ThreadResolved'
<1>1. /\ Excerpts(inbox) \subseteq Excerpts(inbox') /\ Texts(inbox) \subseteq Texts(inbox')
      /\ Excerpts(calendar) \subseteq Excerpts(calendar') /\ Texts(calendar) \subseteq Texts(calendar')
      /\ Texts(workflow) \subseteq Texts(workflow')
  BY EvidenceGrows, CoversTexts
<1>2. AllTexts' = Texts(inbox') \cup Texts(calendar') \cup Texts(workflow')
  BY DEF AllTexts
<1>3. WorkText' = Texts(workflow') \cup Excerpts(inbox')
  BY DEF WorkText
<1>4. AllTexts \subseteq AllTexts' /\ WorkText \subseteq WorkText'
  BY <1>1, <1>2, <1>3 DEF AllTexts, WorkText
<1>5. /\ IsClient' = Says(WorkText', "client") /\ IsProspect' = Says(WorkText', "prospect")
      /\ MissedMeeting' = Says(Excerpts(calendar'), "missed")
      /\ Occurred' = Says(Texts(calendar') \cup Texts(workflow'), "occurred")
      /\ PromisedNext' = Says(AllTexts', "nextStep")
      /\ DeadlinePressure' = Says(Excerpts(inbox'), "deadline")
      /\ PostMeetingReplySent' = Says(AllTexts', "replied")
      /\ ThreadResolved' = \/ Says(Texts(workflow'), "resolved")
                           \/ Says(Texts(workflow') \cup Texts(inbox'), "outbound")
                           \/ Says(Texts(inbox'), "closure")
                           \/ Says(AllTexts', "completed")
  BY DEF IsClient, IsProspect, MissedMeeting, Occurred, PromisedNext, DeadlinePressure,
         PostMeetingReplySent, ThreadResolved
<1>6. /\ Texts(calendar) \cup Texts(workflow) \subseteq Texts(calendar') \cup Texts(workflow')
      /\ Texts(workflow) \cup Texts(inbox) \subseteq Texts(workflow') \cup Texts(inbox')
  BY <1>1
<1>7. (IsClient => IsClient') /\ (IsProspect => IsProspect')
  BY <1>4, <1>5, SaysMore DEF IsClient, IsProspect
<1>8. (MissedMeeting => MissedMeeting') /\ (DeadlinePressure => DeadlinePressure')
  BY <1>1, <1>5, SaysMore DEF MissedMeeting, DeadlinePressure
<1>9. (Occurred => Occurred') /\ (PromisedNext => PromisedNext')
  BY <1>4, <1>5, <1>6, SaysMore DEF Occurred, PromisedNext
<1>10. /\ Says(Texts(calendar), "missed") => Says(Texts(calendar'), "missed")
       /\ Says(Texts(calendar), "scheduled") => Says(Texts(calendar'), "scheduled")
  BY <1>1, SaysMore
<1>11. /\ Says(WorkText, "promise") => Says(WorkText', "promise")
       /\ Says(AllTexts, "completed") => Says(AllTexts', "completed")
       /\ PostMeetingReplySent => PostMeetingReplySent'
  BY <1>4, <1>5, SaysMore DEF PostMeetingReplySent
<1>12. ThreadResolved => ThreadResolved'
  BY <1>1, <1>4, <1>5, <1>6, SaysMore DEF ThreadResolved
<1>13. QED  BY <1>7, <1>8, <1>9, <1>10, <1>11, <1>12

-----------------------------------------------------------------------------
(* The first name that is there *)

LEMMA LeastOne ==
    ASSUME NEW T, T \subseteq Nat, T # {}
    PROVE  \E i \in T : \A j \in T : i <= j
<1> DEFINE Less == {p \in Nat \X Nat : p[1] < p[2]}
<1>1. IsWellFoundedOn(Less, Nat)
  BY NatLessThanWellFounded DEF OpToRel
<1> HIDE DEF Less
<1>2. PICK i \in T : \A j \in T : ~ (<<j, i>> \in Less)
  BY <1>1, WFMin
<1>3. \A j \in T : ~ (j < i)
  BY <1>2 DEF Less
<1>4. QED  BY <1>3

\* A name that is found first is found first when more names follow.
LEMMA FirstNameStays ==
    ASSUME NEW n \in Nat, NEW m \in Nat, n <= m,
           NEW f, DOMAIN f = 1..n, NEW g, DOMAIN g = 1..m,
           \A i \in 1..n : g[i] = f[i],
           NEW R, FirstName(f, R) # Absent
    PROVE  FirstName(g, R) = FirstName(f, R)
<1> DEFINE F == {i \in DOMAIN f : f[i] \notin R \cup {Absent}}
           G == {i \in DOMAIN g : g[i] \notin R \cup {Absent}}
           first == CHOOSE i \in F : \A j \in F : i <= j
           firstG == CHOOSE i \in G : \A j \in G : i <= j
<1>1. FirstName(f, R) = IF F = {} THEN Absent ELSE f[first]
  BY DEF FirstName
<1>2. FirstName(g, R) = IF G = {} THEN Absent ELSE g[firstG]
  BY DEF FirstName
<1>3. F # {} /\ F \subseteq 1..n /\ G \subseteq 1..m
  BY <1>1
<1>4. F \subseteq G /\ \A i \in G : i \in F \/ i > n
  OBVIOUS
<1>5. first \in F /\ \A j \in F : first <= j
  <2>1. \E i \in F : \A j \in F : i <= j
    <3>1. F \subseteq Nat
      BY <1>3
    <3> HIDE DEF F
    <3>2. QED  BY <1>3, <3>1, LeastOne
  <2>2. QED  BY <2>1
<1>6. first \in G /\ \A j \in G : first <= j
  BY <1>3, <1>4, <1>5
<1>7. firstG \in G /\ \A j \in G : firstG <= j
  BY <1>6
<1>8. firstG = first
  BY <1>3, <1>6, <1>7
<1>9. QED  BY <1>1, <1>2, <1>3, <1>4, <1>5, <1>8

-----------------------------------------------------------------------------
(* The pressure *)

LEMMA NobodyContradicted ==
    ASSUME EvidenceOK, Grows, ~ Contradictory'
    PROVE  ~ Contradictory
<1>1. Covers(inbox', inbox) /\ Covers(calendar', calendar) /\ Covers(workflow', workflow)
  BY EvidenceGrows
<1>2. Contradictory' = \E s \in Sources(inbox') \cup Sources(calendar') \cup Sources(workflow') : s.flagged
  BY DEF Contradictory
<1>3. SUFFICES ASSUME NEW s \in Sources(inbox) \cup Sources(calendar) \cup Sources(workflow), s.flagged
               PROVE  Contradictory'
  BY DEF Contradictory
<1>4. \E t \in Sources(inbox') \cup Sources(calendar') \cup Sources(workflow') : t.flagged
  BY <1>1, <1>3, Zenon DEF Covers
<1>5. QED  BY <1>2, <1>4

\* The strongest message is the first, and it stays.
LEMMA TopTextStays ==
    ASSUME EvidenceOK, Grows, AskCount > 0
    PROVE  TopText' = TopText
<1> USE DEF EvidenceOK
<1>1. inbox # <<>>
  <2>1. SUFFICES ASSUME inbox = <<>>  PROVE AskCount = 0
    OBVIOUS
  <2>2. {i \in DOMAIN inbox : Says(inbox[i].title \cup inbox[i].excerpt, "ask")} = {}
    BY <2>1
  <2>3. QED  BY <2>2, FS_EmptySet DEF AskCount
<1>2. CASE inbox' = inbox
  BY <1>2 DEF TopText
<1>3. CASE NewMessage
  <2>1. PICK x \in Messages : inbox' = Append(inbox, x)
    BY <1>3 DEF NewMessage
  <2>2. inbox' # <<>> /\ inbox'[1] = inbox[1]
    BY <1>1, <2>1, AppendProperties, EmptySeq, LenProperties
  <2>3. QED  BY <1>1, <2>2 DEF TopText
<1>4. QED  BY <1>2, <1>3 DEF Grows, NewEvent, NewState, MeetingNears, GetsOlder

\* The organizer who owns the follow-up goes on doing so.
LEMMA OrganizerStays ==
    ASSUME EvidenceOK, Grows, OwnerFromCalendar # Absent
    PROVE  OwnerFromCalendar' = OwnerFromCalendar
<1> USE DEF EvidenceOK
<1> DEFINE names(s) == [i \in DOMAIN s |-> s[i].organizer]
<1>1. OwnerFromCalendar = FirstName(names(calendar), {})
      /\ OwnerFromCalendar' = FirstName(names(calendar'), {})
  BY DEF OwnerFromCalendar
<1>2. CASE calendar' = calendar
  BY <1>1, <1>2
<1>3. CASE NewEvent
  <2>1. PICK e \in Events : calendar' = Append(calendar, e)
    BY <1>3 DEF NewEvent
  <2>2. /\ Len(calendar) \in Nat /\ DOMAIN calendar = 1..Len(calendar)
        /\ DOMAIN calendar' = 1..Len(calendar) + 1
        /\ \A i \in 1..Len(calendar) : calendar'[i] = calendar[i]
    BY <2>1, FollowupsAssumption, AppendProperties, LenProperties
  <2>3. /\ DOMAIN names(calendar) = 1..Len(calendar)
        /\ DOMAIN names(calendar') = 1..Len(calendar) + 1
        /\ \A i \in 1..Len(calendar) : names(calendar')[i] = names(calendar)[i]
    BY <2>2
  <2> HIDE DEF names
  <2>4. FirstName(names(calendar'), {}) = FirstName(names(calendar), {})
    <3>1. Len(calendar) + 1 \in Nat /\ Len(calendar) <= Len(calendar) + 1
      BY <2>2
    <3>2. FirstName(names(calendar), {}) # Absent
      BY <1>1
    <3> DEFINE n == Len(calendar)
               m == Len(calendar) + 1
               f == names(calendar)
               g == names(calendar')
    <3>3. /\ n \in Nat /\ m \in Nat /\ n <= m /\ DOMAIN f = 1..n /\ DOMAIN g = 1..m
          /\ \A i \in 1..n : g[i] = f[i]
          /\ FirstName(f, {}) # Absent
      BY <2>2, <2>3, <3>1, <3>2
    <3> HIDE DEF n, m, f, g
    <3>4. FirstName(g, {}) = FirstName(f, {})
      BY <3>3, FirstNameStays
    <3>5. QED  BY <3>4 DEF f, g
  <2>5. QED  BY <1>1, <2>4
<1>4. CASE MeetingNears
  <2>1. PICK i \in DOMAIN calendar, h \in Hours : calendar' = [calendar EXCEPT ![i].start = h]
    BY <1>4 DEF MeetingNears
  <2>2. /\ DOMAIN calendar' = DOMAIN calendar
        /\ \A j \in DOMAIN calendar : calendar'[j].organizer = calendar[j].organizer
    BY <2>1, StartCovers
  <2>3. names(calendar') = names(calendar)
    BY <2>2
  <2>4. QED  BY <1>1, <2>3
<1>5. QED  BY <1>2, <1>3, <1>4 DEF Grows, NewMessage, NewState, GetsOlder

\* Somebody owns every follow-up, a person or a queue.
LEMMA SomebodyOwns == Owner # Absent
BY FollowupsAssumption DEF Owner, EscalationRequired, EscalationQueue

\* An escalation goes to a queue: its owner is always missing.
LEMMA EscalationGoesToQueue == EscalationRequired => OwnerMissing
BY FollowupsAssumption DEF OwnerMissing, Owner, EscalationQueue

\* adjustUrgencyForClientOwner never makes a follow-up of medium urgency high:
\* that rule asks for an escalation that somebody owns.
THEOREM ClientOwnerLiftsOnce ==
    \A u \in 1..4 : AdjustForClientOwner(u) \in {u, Medium} /\ AdjustForClientOwner(u) >= u
<1> TAKE u \in 1..4
<1>1. ~ OwnerMissing => ~ EscalationRequired
  BY EscalationGoesToQueue
<1>2. QED  BY <1>1 DEF AdjustForClientOwner, Low, Medium, High, Critical

\* hasEscalatedFollowupObligation finds no follow-up that is not owed already.
THEOREM EscalationAddsNothing ==
    FollowupOwed <=> (StrongObligation \/ HelpfulFollowup) /\ ~ ThreadResolved
BY DEF FollowupOwed, EscalatedFollowupOwed

\* While nothing settles the thread, an obligation goes on being one.
LEMMA ObligationsGrow ==
    ASSUME EvidenceOK, Grows, ~ Settled'
    PROVE  /\ StrongObligation => StrongObligation'
           /\ FollowupOwed => FollowupOwed'
<1>1. ~ ThreadResolved' /\ ~ PostMeetingReplySent' /\ ~ Says(AllTexts', "completed")
  BY DEF Settled, ThreadResolved
<1>2. ~ ThreadResolved /\ ~ PostMeetingReplySent /\ ~ Says(AllTexts, "completed")
  BY <1>1, SignalsGrow
<1>3. MeetingFollowupOwed => MeetingFollowupOwed'
  BY <1>1, SignalsGrow DEF MeetingFollowupOwed
<1>4. UnresolvedPromise => UnresolvedPromise'
  BY <1>1, SignalsGrow DEF UnresolvedPromise
<1>5. AskCount > 0 => AskCount' > 0
  BY AskCountGrows
<1>6. StartsWithin(24) => StartsWithin(24)'
  BY StartsGrow DEF StartsWithin
<1>7. (DeadlinePressure => DeadlinePressure') /\ (MissedMeeting => MissedMeeting')
  BY SignalsGrow
<1>8. StrongObligation => StrongObligation'
  BY <1>1, <1>3, <1>4, <1>5, <1>6, <1>7 DEF StrongObligation
<1>9. HelpfulFollowup /\ ~ StrongObligation' => HelpfulFollowup'
  <2>1. SUFFICES ASSUME HelpfulFollowup, ~ StrongObligation'  PROVE HelpfulFollowup'
    OBVIOUS
  <2>2. AskCount > 0 /\ AskCount' > 0 /\ TopText' = TopText
    BY <1>5, <2>1, TopTextStays DEF HelpfulFollowup
  <2>3. (IsClient => IsClient') /\ (IsProspect => IsProspect')
    BY SignalsGrow
  <2>4. Says(TopText, "deliverable") => Says(TopText', "deliverable")
    BY <2>2
  <2>5. Says(TopText, "pricing") => Says(TopText', "pricing")
    BY <2>2
  <2>6. QED  BY <1>1, <2>1, <2>2, <2>3, <2>4, <2>5 DEF HelpfulFollowup
<1>10. FollowupOwed' <=> (StrongObligation' \/ HelpfulFollowup') /\ ~ ThreadResolved'
  BY DEF FollowupOwed, EscalatedFollowupOwed
<1>11. QED  BY <1>1, <1>8, <1>9, <1>10, EscalationAddsNothing

LEMMA ScoreGrows ==
    ASSUME EvidenceOK, Grows, ~ Settled'
    PROVE  Scored \in 1..4 /\ Scored' \in 1..4 /\ Scored <= Scored'
<1> DEFINE Age == Band(age >= 72, age >= 24, age >= 8, 25, 15, 8)
           Age1 == Band(age' >= 72, age' >= 24, age' >= 8, 25, 15, 8)
           Near == Band(StartsWithin(4), StartsWithin(24), StartsWithin(72), 30, 18, 10)
           Near1 == Band(StartsWithin(4)', StartsWithin(24)', StartsWithin(72)', 30, 18, 10)
           Owed == Occurred /\ PromisedNext /\ ~ PostMeetingReplySent
           Owed1 == Occurred' /\ PromisedNext' /\ ~ PostMeetingReplySent'
           C == When(IsClient, 10)          C1 == When(IsClient', 10)
           P == When(IsProspect, 12)        P1 == When(IsProspect', 12)
           M == When(MissedMeeting, 25)     M1 == When(MissedMeeting', 25)
           O == When(Owed, 20)              O1 == When(Owed1, 20)
           A == AtMost(8 * AskCount, 20)    A1 == AtMost(8 * AskCount', 20)
<1>1. Age \in Nat /\ Age1 \in Nat /\ Age <= Age1
  <2>1. age \in Nat /\ age' \in Nat /\ age <= age'
    BY EvidenceGrows
  <2>2. (age >= 72 => age' >= 72) /\ (age >= 24 => age' >= 24) /\ (age >= 8 => age' >= 8)
    BY <2>1
  <2>3. QED  BY <2>2 DEF Band, When
<1>2. Near \in Nat /\ Near1 \in Nat /\ Near <= Near1
  <2>1. /\ StartsWithin(4) => StartsWithin(4)'
        /\ StartsWithin(24) => StartsWithin(24)'
        /\ StartsWithin(72) => StartsWithin(72)'
    BY StartsGrow DEF StartsWithin
  <2>2. QED  BY <2>1 DEF Band, When
<1>3. C \in Nat /\ C1 \in Nat /\ C <= C1
  BY SignalsGrow DEF When
<1>4. P \in Nat /\ P1 \in Nat /\ P <= P1
  BY SignalsGrow DEF When
<1>5. M \in Nat /\ M1 \in Nat /\ M <= M1
  BY SignalsGrow DEF When
<1>6. O \in Nat /\ O1 \in Nat /\ O <= O1
  <2>1. ~ PostMeetingReplySent'
    BY DEF Settled
  <2>2. QED  BY <2>1, SignalsGrow DEF When
<1>7. A \in Nat /\ A1 \in Nat /\ A <= A1
  BY AskCountGrows DEF AtMost
<1>8. UrgencyScore = Age + C + P + A + M + Near + O
  BY DEF UrgencyScore
<1>9. UrgencyScore' = Age1 + C1 + P1 + A1 + M1 + Near1 + O1
  BY DEF UrgencyScore, StartsWithin, Occurred, PromisedNext, PostMeetingReplySent
<1> HIDE DEF Age, Age1, Near, Near1, C, C1, P, P1, M, M1, O, O1, A, A1
<1>10. UrgencyScore \in Nat /\ UrgencyScore' \in Nat /\ UrgencyScore <= UrgencyScore'
  BY <1>1, <1>2, <1>3, <1>4, <1>5, <1>6, <1>7, <1>8, <1>9
<1>11. QED  BY <1>10 DEF Scored, Low, Medium, High, Critical

\* The four adjustments do not undo each other: each is monotone in what it is
\* given, and so is what calls for it.
LEMMA UrgencyGrows ==
    ASSUME EvidenceOK, Grows, ~ Settled',
           Owner' = Owner, EscalationRequired' = EscalationRequired
    PROVE  ScoredUrgency \in Nat /\ ScoredUrgency' \in Nat /\ ScoredUrgency <= ScoredUrgency'
<1> DEFINE u1 == AdjustForEscalation(Scored)
           u2 == AdjustForClientOwner(u1)
           u3 == AdjustForMeetingOwner(u2)
           v1 == u1'
           v2 == u2'
           v3 == u3'
<1>1. OwnerMissing' = OwnerMissing
  BY DEF OwnerMissing
<1>2. /\ (IsClient => IsClient') /\ (MissedMeeting => MissedMeeting')
      /\ (PromisedNext => PromisedNext')
      /\ Says(Texts(calendar), "scheduled") => Says(Texts(calendar'), "scheduled")
      /\ ~ PostMeetingReplySent /\ ~ PostMeetingReplySent'
      /\ ~ ThreadResolved /\ ~ ThreadResolved'
  BY SignalsGrow DEF Settled
<1>3. AskCount > 0 => AskCount' > 0
  BY AskCountGrows
<1>4. /\ age >= 24 => age' >= 24
      /\ age >= 48 => age' >= 48
  BY EvidenceGrows
<1>5. StartsWithin(24) => StartsWithin(24)'
  BY StartsGrow DEF StartsWithin
<1>6. FollowupOwed => FollowupOwed'
  BY ObligationsGrow
<1>7. Scored \in 1..4 /\ Scored' \in 1..4 /\ Scored <= Scored'
  BY ScoreGrows
<1>8. u1 \in 1..4 /\ v1 \in 1..4 /\ u1 <= v1
  <2> DEFINE Lift == /\ IsClient /\ EscalationRequired /\ OwnerMissing
                     /\ AskCount > 0 \/ age >= 24
             More == \/ MissedMeeting \/ PromisedNext \/ StartsWithin(24)
                     \/ age >= 48 /\ AskCount > 0
  <2>1. u1 = IF Lift THEN IF Scored = Low THEN Medium
                          ELSE IF Scored = Medium /\ More THEN High ELSE Scored
             ELSE Scored
    BY DEF AdjustForEscalation
  <2>2. v1 = IF Lift' THEN IF Scored' = Low THEN Medium
                           ELSE IF Scored' = Medium /\ More' THEN High ELSE Scored'
             ELSE Scored'
    BY DEF AdjustForEscalation
  <2>3. (Lift => Lift') /\ (More => More')
    BY <1>1, <1>2, <1>3, <1>4, <1>5
  <2> HIDE DEF Lift, More, u1, v1
  <2>4. QED  BY <1>7, <2>1, <2>2, <2>3 DEF Low, Medium, High
<1>9. u2 \in 1..4 /\ v2 \in 1..4 /\ u2 <= v2
  <2> DEFINE Lift == /\ IsClient /\ ~ OwnerMissing /\ FollowupOwed /\ ~ ThreadResolved
                     /\ AskCount > 0 \/ EscalationRequired \/ age >= 24
  <2>1. u2 = IF Lift THEN IF u1 = Low THEN Medium
                          ELSE IF u1 = Medium /\ EscalationRequired THEN High ELSE u1
             ELSE u1
    BY DEF AdjustForClientOwner
  <2>2. v2 = IF Lift' THEN IF v1 = Low THEN Medium
                           ELSE IF v1 = Medium /\ EscalationRequired' THEN High ELSE v1
             ELSE v1
    BY DEF AdjustForClientOwner
  <2>3. Lift => Lift'
    BY <1>1, <1>2, <1>3, <1>4, <1>6
  <2> HIDE DEF Lift, u1, v1, u2, v2
  <2>4. QED  BY <1>8, <2>1, <2>2, <2>3 DEF Low, Medium, High
<1>10. u3 \in 1..4 /\ v3 \in 1..4 /\ u3 <= v3
  <2> DEFINE Lift == /\ Says(Texts(calendar), "scheduled") \/ OwnerFromCalendar # Absent
                     /\ Owner = OwnerFromCalendar /\ ~ PostMeetingReplySent
                     /\ PromisedNext \/ MissedMeeting
  <2>1. u3 = IF Lift THEN IF u2 < High THEN u2 + 1 ELSE u2 ELSE u2
    BY DEF AdjustForMeetingOwner
  <2>2. v3 = IF Lift' THEN IF v2 < High THEN v2 + 1 ELSE v2 ELSE v2
    BY DEF AdjustForMeetingOwner
  <2>3. Lift => Lift'
    <3>1. SUFFICES ASSUME Lift  PROVE Lift'
      OBVIOUS
    <3>2. OwnerFromCalendar' = OwnerFromCalendar /\ OwnerFromCalendar # Absent
      BY <3>1, SomebodyOwns, OrganizerStays
    <3>3. QED  BY <1>2, <3>1, <3>2
  <2> HIDE DEF Lift, u2, v2, u3, v3
  <2>4. QED  BY <1>9, <2>1, <2>2, <2>3 DEF High
<1>11. HasStrongSignal => HasStrongSignal'
  BY <1>2, <1>3, <1>5 DEF HasStrongSignal
<1>12. ScoredUrgency = IF /\ Owner = "escalation:unassigned-review" /\ ~ HasStrongSignal
                          /\ u3 \in {Medium, High}
                       THEN u3 - 1 ELSE u3
  BY DEF ScoredUrgency
<1>13. ScoredUrgency' = IF /\ Owner' = "escalation:unassigned-review" /\ ~ HasStrongSignal'
                           /\ v3 \in {Medium, High}
                        THEN v3 - 1 ELSE v3
  BY DEF ScoredUrgency
<1> HIDE DEF u3, v3
<1>14. QED  BY <1>10, <1>11, <1>12, <1>13 DEF Medium, High

\* More evidence, a nearer meeting and time that goes by never make a follow-up
\* less urgent, nor take it back: no band, count or adjustment undoes another.
THEOREM PressureHolds == EvidenceSpec => PressureNeverLowers
<1> DEFINE Step == Grows /\ ~ Settled' /\ ~ Contradictory'
                     /\ Owner' = Owner /\ EscalationRequired' = EscalationRequired
                     => /\ Decision'.urgency >= Decision.urgency
                        /\ Decision.owed => Decision'.owed
<1>1. EvidenceOK => Step
  <2>1. SUFFICES ASSUME EvidenceOK, Grows, ~ Settled', ~ Contradictory',
                        Owner' = Owner, EscalationRequired' = EscalationRequired
                 PROVE  /\ Decision'.urgency >= Decision.urgency
                        /\ Decision.owed => Decision'.owed
    OBVIOUS
  <2>2. ~ ThreadResolved' /\ ~ ThreadResolved /\ ~ Contradictory
    BY <2>1, SignalsGrow, NobodyContradicted DEF Settled
  <2>3. Decision.urgency = ScoredUrgency /\ Decision.owed = FollowupOwed
    BY <2>2 DEF Decision
  <2>4. Decision'.urgency = ScoredUrgency' /\ Decision'.owed = FollowupOwed'
    BY <2>1, <2>2 DEF Decision
  <2>5. QED  BY <2>1, <2>3, <2>4, ObligationsGrow, UrgencyGrows
<1>2. EvidenceOK => [Step]_evidence
  BY <1>1
<1>3. QED  BY <1>2, EvidenceTypes, PTL DEF PressureNeverLowers

-----------------------------------------------------------------------------
(* The records: their inductive invariant *)

InFlight(d) == call[d].at \in {"loading", "putting"}

ContactOf(i) == call[landed[i]].contact

After(history, c, i) == \E j \in i + 1 .. Len(history) : c = history[j]

\* The summaries s hold the i-th call of the history at n, or are full when
\* n = 0, and those after n landed later or are of the calls of late.
KeepsAt(history, s, i, late, n) ==
    /\ n > 0 => s[n] = history[i]
    /\ n = 0 => Len(s) = MAX_SUMMARIES
    /\ \A m \in n + 1 .. Len(s) : s[m] \in late \/ After(history, s[m], i)

Keeps(history, s, i, late) == \E n \in 0..Len(s) : KeepsAt(history, s, i, late, n)

LandedInv ==
    \A i \in DOMAIN landed : call[landed[i]].at \in {"done", "failed"} /\ ContactOf(i) \in Contacts

Short(d) == \A k \in Contacts : Len(d[k]) <= MAX_SUMMARIES

DocInv ==
    /\ Short(doc)
    /\ \A i \in DOMAIN landed : Overtaken(i) \/ Keeps(landed, doc[ContactOf(i)], i, {})

\* What the i-th one landed may expect of a call in flight that has read it.
SummariesKeep(d, i) ==
    i <= call[d].read /\ ContactOf(i) = call[d].contact
        => Overtaken(i) \/ Keeps(landed, call[d].summaries, i, {d})

BaseKeeps(d, i) ==
    i <= call[d].loaded => Overtaken(i) \/ Keeps(landed, call[d].base[ContactOf(i)], i, {})

Loaded(d) ==
    /\ call[d].contact \in Contacts
    /\ call[d].read <= Len(landed)
    /\ Len(call[d].summaries) \in 1..MAX_SUMMARIES
    /\ call[d].summaries[Len(call[d].summaries)] = d
    /\ \A i \in DOMAIN landed : SummariesKeep(d, i)

Based(d) ==
    /\ call[d].loaded <= Len(landed)
    /\ Short(call[d].base)
    /\ \A i \in DOMAIN landed : BaseKeeps(d, i)

CallInv ==
    \A d \in Calls :
        /\ InFlight(d) => Loaded(d)
        /\ call[d].at = "putting" => Based(d)

MemoryInv == LandedInv /\ DocInv /\ CallInv

IInv == TypeOK /\ OutcomesArePaths /\ MemoryInv

-----------------------------------------------------------------------------
(* Lemmas about the records *)

LEMMA TypesInit == Init => TypeOK
BY DEF Init, TypeOK, NoDocument, Idle, Call, Outcome

LEMMA LatestOf ==
  ASSUME NEW s \in Seq(Calls), NEW c \in Calls, Len(s) <= MAX_SUMMARIES
  PROVE  /\ Latest(Append(s, c)) \in Seq(Calls)
         /\ Len(s) < MAX_SUMMARIES => Latest(Append(s, c)) = Append(s, c)
         /\ Len(s) = MAX_SUMMARIES =>
               /\ Len(Latest(Append(s, c))) = MAX_SUMMARIES
               /\ \A n \in 1..MAX_SUMMARIES : Latest(Append(s, c))[n] = Append(s, c)[n + 1]
<1> DEFINE t == Append(s, c)
<1>1. t \in Seq(Calls) /\ Len(t) = Len(s) + 1
  OBVIOUS
<1>2. CASE Len(s) < MAX_SUMMARIES
  BY <1>1, <1>2, MemoryAssumption DEF Latest
<1>3. CASE Len(s) = MAX_SUMMARIES
  <2>1. Latest(t) = SubSeq(t, 2, MAX_SUMMARIES + 1)
    BY <1>1, <1>3, MemoryAssumption DEF Latest
  <2>2. \A i \in 2..(MAX_SUMMARIES + 1) : t[i] \in Calls
    BY <1>1, <1>3, MemoryAssumption
  <2>3. /\ SubSeq(t, 2, MAX_SUMMARIES + 1) \in Seq(Calls)
        /\ Len(SubSeq(t, 2, MAX_SUMMARIES + 1)) = MAX_SUMMARIES
        /\ \A i \in 1..MAX_SUMMARIES : SubSeq(t, 2, MAX_SUMMARIES + 1)[i] = t[i + 1]
    BY <1>1, <1>3, MemoryAssumption
  <2>4. QED  BY <1>3, <2>1, <2>3
<1>4. QED  BY <1>2, <1>3, MemoryAssumption

\* What a call reads of its contact and makes of it.
LEMMA ReadKeeps ==
  ASSUME NEW s \in Seq(Calls), NEW c \in Calls, Len(s) <= MAX_SUMMARIES,
         NEW h, NEW i, Keeps(h, s, i, {})
  PROVE  Keeps(h, Latest(Append(s, c)), i, {c})
<1> DEFINE t == Append(s, c)
           u == Latest(t)
<1>1. PICK n \in 0..Len(s) : KeepsAt(h, s, i, {}, n)
  BY DEF Keeps
<1>2. /\ t \in Seq(Calls) /\ Len(t) = Len(s) + 1 /\ t[Len(t)] = c
      /\ \A m \in 1..Len(s) : t[m] = s[m]
      /\ Len(s) \in Nat
  OBVIOUS
<1>3. \A m \in n + 1 .. Len(t) : t[m] \in {c} \/ After(h, t[m], i)
  BY <1>1, <1>2 DEF KeepsAt
<1>4. CASE Len(s) < MAX_SUMMARIES
  <2>1. u = t
    BY <1>4, LatestOf
  <2>2. n > 0 /\ n \in 0..Len(t) /\ t[n] = h[i]
    BY <1>1, <1>2, <1>4 DEF KeepsAt
  <2>3. KeepsAt(h, t, i, {c}, n)
    BY <1>3, <2>2 DEF KeepsAt
  <2>4. QED  BY <2>1, <2>2, <2>3 DEF Keeps
<1>5. CASE Len(s) = MAX_SUMMARIES
  <2>1. Len(u) = MAX_SUMMARIES /\ \A m \in 1..MAX_SUMMARIES : u[m] = t[m + 1]
    BY <1>5, LatestOf
  <2>2. CASE n = 0
    <3>1. \A m \in 1..Len(u) : u[m] \in {c} \/ After(h, u[m], i)
      BY <1>2, <1>3, <1>5, <2>1, <2>2
    <3>2. KeepsAt(h, u, i, {c}, 0)
      BY <2>1, <3>1, MemoryAssumption DEF KeepsAt
    <3>3. QED  BY <2>1, <3>2, MemoryAssumption DEF Keeps
  <2>3. CASE n > 0
    <3>1. \A m \in n .. Len(u) : u[m] \in {c} \/ After(h, u[m], i)
      BY <1>2, <1>3, <1>5, <2>1, <2>3
    <3>2. n - 1 > 0 => u[n - 1] = h[i]
      BY <1>1, <1>2, <1>5, <2>1, <2>3 DEF KeepsAt
    <3>3. n - 1 \in 0..Len(u) /\ (n - 1) + 1 = n
      BY <1>1, <1>5, <2>1, <2>3, MemoryAssumption
    <3>4. KeepsAt(h, u, i, {c}, n - 1)
      BY <2>1, <3>1, <3>2, <3>3 DEF KeepsAt
    <3>5. QED  BY <3>3, <3>4 DEF Keeps
  <2>4. QED  BY <1>1, <2>2, <2>3
<1>6. QED  BY <1>2, <1>4, <1>5, MemoryAssumption

LEMMA Appended ==
  ASSUME NEW s \in Seq(Calls), NEW d \in Calls
  PROVE  /\ Append(s, d) \in Seq(Calls) /\ Len(s) \in Nat
         /\ Len(Append(s, d)) = Len(s) + 1 /\ Append(s, d)[Len(s) + 1] = d
         /\ \A j \in 1..Len(s) : Append(s, d)[j] = s[j] /\ s[j] \in Calls
OBVIOUS

\* Calls that are not in flight keep what Overtaken and ContactOf read.
LEMMA LandedStay ==
  ASSUME TypeOK, TypeOK', LandedInv,
         landed' = landed \/ \E d \in Calls : landed' = Append(landed, d),
         \A d \in Calls : call[d].at \in {"done", "failed"} => call'[d] = call[d],
         NEW i \in DOMAIN landed
  PROVE  /\ i \in DOMAIN landed' /\ landed'[i] = landed[i]
         /\ ContactOf(i)' = ContactOf(i)
         /\ Overtaken(i) => Overtaken(i)'
         /\ \A x : After(landed, x, i) => After(landed', x, i)
<1>0. landed \in Seq(Calls) /\ landed' \in Seq(Calls) /\ DOMAIN landed = 1..Len(landed)
      /\ DOMAIN landed' = 1..Len(landed')
  BY DEF TypeOK
<1>1. /\ Len(landed) \in Nat /\ Len(landed') \in Nat /\ Len(landed') >= Len(landed)
      /\ i \in 1..Len(landed)
      /\ \A j \in 1..Len(landed) : landed[j] \in Calls /\ landed'[j] = landed[j]
  <2>1. CASE landed' = landed
    BY <1>0, <2>1
  <2>2. CASE \E d \in Calls : landed' = Append(landed, d)
    <3>1. PICK d \in Calls : landed' = Append(landed, d)
      BY <2>2
    <3>2. /\ Len(landed) \in Nat /\ Len(landed') = Len(landed) + 1
          /\ \A j \in 1..Len(landed) : landed'[j] = landed[j] /\ landed[j] \in Calls
      BY <1>0, <3>1, Appended, Zenon
    <3>3. QED  BY <1>0, <3>2
  <2>3. QED  BY <2>1, <2>2
<1>2. \A j \in 1..Len(landed) : call[landed[j]].at \in {"done", "failed"}
  BY <1>0 DEF LandedInv
<1>3. \A j \in 1..Len(landed) :
         /\ call'[landed'[j]].contact = call[landed[j]].contact
         /\ call'[landed'[j]].read = call[landed[j]].read
         /\ call'[landed'[j]].loaded = call[landed[j]].loaded
  BY <1>1, <1>2
<1>4. i \in DOMAIN landed' /\ landed'[i] = landed[i] /\ ContactOf(i)' = ContactOf(i)
  <2>1. 1..Len(landed) \subseteq 1..Len(landed')
    BY <1>1
  <2>2. QED  BY <1>0, <1>1, <1>3, <2>1 DEF ContactOf
<1>5. ASSUME Overtaken(i)  PROVE  Overtaken(i)'
  <2>1. PICK j \in i + 1 .. Len(landed) :
            IF call[landed[j]].contact = call[landed[i]].contact
            THEN call[landed[j]].read < i ELSE call[landed[j]].loaded < i
    BY <1>5 DEF Overtaken
  <2>2. j \in 1..Len(landed) /\ i \in 1..Len(landed) /\ j \in i + 1 .. Len(landed')
    BY <1>1
  <2>3. IF call'[landed'[j]].contact = call'[landed'[i]].contact
        THEN call'[landed'[j]].read < i ELSE call'[landed'[j]].loaded < i
    BY <1>3, <2>1, <2>2
  <2>4. QED  BY <2>2, <2>3 DEF Overtaken
<1>6. ASSUME NEW x, After(landed, x, i)  PROVE  After(landed', x, i)
  <2>1. PICK j \in i + 1 .. Len(landed) : x = landed[j]
    BY <1>6 DEF After
  <2>2. j \in 1..Len(landed) /\ j \in i + 1 .. Len(landed')
    BY <1>1
  <2>3. QED  BY <1>1, <2>1, <2>2 DEF After
<1>7. QED  BY <1>4, <1>5, <1>6

\* What is kept stays kept while the history grows, and when the call that may
\* be late has landed.
LEMMA KeepsStays ==
  ASSUME NEW h, NEW g, NEW s, NEW i, NEW late, NEW less, Keeps(h, s, i, late), g[i] = h[i],
         \A x : After(h, x, i) => After(g, x, i),
         \A x \in late \ less : After(g, x, i)
  PROVE  Keeps(g, s, i, less)
BY DEF Keeps, KeepsAt

-----------------------------------------------------------------------------
(* Outcomes *)

\* A path goes on with every transition.
LEMMA PathsGoOn ==
  ASSUME NEW s \in Statuses, NEW t \in Statuses, NEW u \in allowedTransitions[t],
         s = t \/ Leads(s, t)
  PROVE  u \in Statuses /\ Leads(s, u)
<1>1. CASE s = "detected"
  BY <1>1 DEF Leads, allowedTransitions, Statuses
<1>2. CASE s = "drafted"
  BY <1>2 DEF Leads, allowedTransitions, Statuses
<1>3. CASE s = "approved"
  BY <1>3 DEF Leads, allowedTransitions, Statuses
<1>4. CASE s \in {"sent", "escalated", "dismissed"}
  BY <1>4 DEF Leads, allowedTransitions, Statuses
<1>5. QED  BY <1>1, <1>2, <1>3, <1>4 DEF Statuses

LEMMA TrackKeepsPaths ==
  ASSUME TypeOK, OutcomesArePaths, NEW f \in Followups, NEW s \in Statuses, Track(f, s)
  PROVE  OutcomesArePaths'
<1> DEFINE new == [followup |-> f, status |-> s]
<1>1. /\ rows' \cup appends' = (rows \cup appends) \cup {new}
      /\ tracked'[f] = s /\ s # None /\ tracked'[f] # None
      /\ \A g \in Followups : g # f => tracked'[g] = tracked[g]
  BY NoneIsNoStatus DEF Track, TypeOK
<1>2. \A o \in rows \cup appends : o.followup \in Followups /\ o.status \in Statuses
  BY DEF TypeOK, Outcome
<1>3. ASSUME NEW o \in rows \cup appends, o.followup = f
      PROVE  Leads(o.status, s)
  <2>1. /\ tracked[f] \in Statuses /\ s \in allowedTransitions[tracked[f]]
        /\ o.status = tracked[f] \/ Leads(o.status, tracked[f])
    BY <1>3 DEF OutcomesArePaths, TypeOK, Track, Allowed
  <2>2. QED  BY <1>2, <2>1, PathsGoOn
<1>4. QED
  <2> SUFFICES ASSUME NEW o \in (rows \cup appends) \cup {new}
               PROVE  /\ tracked'[o.followup] # None
                      /\ o.status = tracked'[o.followup] \/ Leads(o.status, tracked'[o.followup])
                      /\ \A p \in (rows \cup appends) \cup {new} :
                            p.followup = o.followup => OnOnePath(o.status, p.status)
    BY <1>1 DEF OutcomesArePaths
  <2>1. CASE o = new
    BY <1>1, <1>3, <2>1 DEF OnOnePath
  <2>2. CASE o \in rows \cup appends /\ o.followup = f
    BY <1>1, <1>3, <2>2 DEF OnOnePath, OutcomesArePaths
  <2>3. CASE o \in rows \cup appends /\ o.followup # f
    BY <1>1, <1>2, <2>3 DEF OnOnePath, OutcomesArePaths
  <2>4. QED  BY <2>1, <2>2, <2>3

LEMMA PathsStep ==
  ASSUME TypeOK, OutcomesArePaths, [Next]_vars
  PROVE  OutcomesArePaths'
<1>1. CASE \E f \in Followups, s \in Statuses : Track(f, s)
  BY <1>1, TrackKeepsPaths
<1>2. CASE \E o \in Outcome : AppendLands(o) \/ AppendFails(o)
  <2>1. rows' \cup appends' \subseteq rows \cup appends /\ tracked' = tracked
    BY <1>2 DEF AppendLands, AppendFails
  <2>2. QED  BY <2>1 DEF OutcomesArePaths
<1>3. CASE UNCHANGED outcomeVars
  BY <1>3 DEF OutcomesArePaths, outcomeVars
<1>4. CASE Restart
  BY <1>4 DEF Restart, OutcomesArePaths
<1>5. QED
  BY <1>1, <1>2, <1>3, <1>4
     DEF Next, vars, outcomeVars, ReadContact, Load, Put, Fail

-----------------------------------------------------------------------------
(* Relationships *)

\* What one step may do to what has landed.
HistoryGrows ==
    /\ landed' = landed \/ \E d \in Calls : landed' = Append(landed, d)
    /\ \A d \in Calls : call[d].at \in {"done", "failed"} => call'[d] = call[d]

LEMMA CallStays ==
  ASSUME IInv, TypeOK', HistoryGrows, NEW d \in Calls, call'[d] = call[d]
  PROVE  /\ InFlight(d) => Loaded(d)'
         /\ call[d].at = "putting" => Based(d)'
<1>1. \A i \in DOMAIN landed :
         /\ i \in DOMAIN landed' /\ landed'[i] = landed[i]
         /\ ContactOf(i)' = ContactOf(i)
         /\ Overtaken(i) => Overtaken(i)'
         /\ \A x : After(landed, x, i) => After(landed', x, i)
  BY LandedStay DEF HistoryGrows, IInv, MemoryInv
<1>2. /\ Len(landed) \in Nat /\ Len(landed') \in Nat /\ Len(landed) <= Len(landed')
      /\ DOMAIN landed = 1..Len(landed) /\ DOMAIN landed' = 1..Len(landed')
  <2>1. landed \in Seq(Calls) /\ landed' \in Seq(Calls)
    BY DEF IInv, TypeOK
  <2>2. CASE landed' = landed
    BY <2>1, <2>2
  <2>3. CASE \E e \in Calls : landed' = Append(landed, e)
    BY <2>1, <2>3
  <2>4. QED  BY <2>2, <2>3 DEF HistoryGrows
<1>3. call[d].read \in Nat /\ call[d].loaded \in Nat
  BY DEF IInv, TypeOK, Call
<1>4. ASSUME InFlight(d)  PROVE  Loaded(d)'
  <2>1. Loaded(d)
    BY <1>4 DEF IInv, MemoryInv, CallInv
  <2>2. ASSUME NEW i \in DOMAIN landed', i <= call[d].read, ContactOf(i)' = call[d].contact
        PROVE  Overtaken(i)' \/ Keeps(landed', call[d].summaries, i, {d})
    <3>1. i \in DOMAIN landed
      BY <1>2, <1>3, <2>1, <2>2 DEF Loaded
    <3>2. Overtaken(i) \/ Keeps(landed, call[d].summaries, i, {d})
      BY <1>1, <2>1, <2>2, <3>1 DEF Loaded, SummariesKeep
    <3>3. QED  BY <1>1, <3>1, <3>2, KeepsStays
  <2>3. /\ call'[d].contact \in Contacts /\ call'[d].read <= Len(landed')
        /\ Len(call'[d].summaries) \in 1..MAX_SUMMARIES
        /\ call'[d].summaries[Len(call'[d].summaries)] = d
    BY <1>2, <1>3, <2>1 DEF Loaded
  <2>4. \A i \in DOMAIN landed' : SummariesKeep(d, i)'
    BY <2>2 DEF SummariesKeep
  <2>5. QED  BY <2>3, <2>4 DEF Loaded
<1>5. ASSUME call[d].at = "putting"  PROVE  Based(d)'
  <2>1. Based(d)
    BY <1>5 DEF IInv, MemoryInv, CallInv
  <2>2. ASSUME NEW i \in DOMAIN landed', i <= call[d].loaded
        PROVE  Overtaken(i)' \/ Keeps(landed', call[d].base[ContactOf(i)'], i, {})
    <3>1. i \in DOMAIN landed
      BY <1>2, <1>3, <2>1, <2>2 DEF Based
    <3>2. Overtaken(i) \/ Keeps(landed, call[d].base[ContactOf(i)], i, {})
      BY <2>1, <2>2, <3>1 DEF Based, BaseKeeps
    <3>3. QED  BY <1>1, <3>1, <3>2, KeepsStays
  <2>3. QED  BY <1>2, <1>3, <2>1, <2>2 DEF Based, BaseKeeps, Short
<1>6. QED  BY <1>4, <1>5

\* What has landed keeps its place while the document stays, and with the new
\* document of a put.
LEMMA LandedInvStays ==
  ASSUME IInv, TypeOK', HistoryGrows,
         landed' # landed => \E d \in Calls :
             /\ landed' = Append(landed, d)
             /\ call'[d].at \in {"done", "failed"} /\ call'[d].contact \in Contacts
  PROVE  LandedInv'
<1>1. \A i \in DOMAIN landed : landed'[i] = landed[i] /\ ContactOf(i)' = ContactOf(i)
  BY LandedStay DEF HistoryGrows, IInv, MemoryInv
<1>2. \A i \in DOMAIN landed : call'[landed[i]] = call[landed[i]]
  <2>1. \A i \in DOMAIN landed : landed[i] \in Calls
    BY DEF IInv, TypeOK
  <2>2. QED  BY <2>1 DEF HistoryGrows, IInv, MemoryInv, LandedInv
<1>3. \A i \in DOMAIN landed :
         call'[landed'[i]].at \in {"done", "failed"} /\ ContactOf(i)' \in Contacts
  BY <1>1, <1>2 DEF IInv, MemoryInv, LandedInv
<1>4. CASE landed' = landed
  BY <1>3, <1>4 DEF LandedInv
<1>5. CASE landed' # landed
  <2>1. PICK d \in Calls :
            /\ landed' = Append(landed, d)
            /\ call'[d].at \in {"done", "failed"} /\ call'[d].contact \in Contacts
    BY <1>5
  <2>2. /\ landed \in Seq(Calls) /\ landed' \in Seq(Calls)
        /\ DOMAIN landed = 1..Len(landed) /\ DOMAIN landed' = 1..Len(landed')
    BY DEF IInv, TypeOK
  <2>3. Len(landed) \in Nat /\ Len(landed') = Len(landed) + 1 /\ landed'[Len(landed) + 1] = d
    BY <2>1, <2>2, Appended, Zenon
  <2>4. ASSUME NEW i \in DOMAIN landed', i \notin DOMAIN landed
        PROVE  landed'[i] = d
    BY <2>2, <2>3, <2>4
  <2>5. QED  BY <1>3, <2>1, <2>4 DEF LandedInv, ContactOf
<1>6. QED  BY <1>4, <1>5

\* A step that leaves the document and what has landed alone.
LEMMA QuietStep ==
  ASSUME IInv, TypeOK', doc' = doc, landed' = landed,
         NEW C \in SUBSET Calls,
         \A d \in Calls \ C : call'[d] = call[d],
         \A d \in C :
             /\ call[d].at \notin {"done", "failed"}
             /\ InFlight(d)' => Loaded(d)'
             /\ call'[d].at = "putting" => Based(d)'
  PROVE  MemoryInv'
<1>1. HistoryGrows
  BY DEF HistoryGrows
<1>2. LandedInv'
  BY <1>1, LandedInvStays
<1>3. DocInv'
  <2>1. \A i \in DOMAIN landed :
           /\ ContactOf(i)' = ContactOf(i)
           /\ Overtaken(i) => Overtaken(i)'
    BY <1>1, LandedStay DEF HistoryGrows, IInv, MemoryInv
  <2>2. Short(doc) /\ \A i \in DOMAIN landed :
                          Overtaken(i) \/ Keeps(landed, doc[ContactOf(i)], i, {})
    BY DEF IInv, MemoryInv, DocInv
  <2>3. QED  BY <2>1, <2>2 DEF DocInv, Short
<1>4. CallInv'
  <2>1. ASSUME NEW d \in Calls
        PROVE  /\ InFlight(d)' => Loaded(d)'
               /\ call'[d].at = "putting" => Based(d)'
    BY <1>1, CallStays DEF InFlight
  <2>2. QED  BY <2>1 DEF CallInv
<1>5. QED  BY <1>2, <1>3, <1>4 DEF MemoryInv

LEMMA CallTypes ==
  ASSUME NEW r \in Call
  PROVE  /\ \A at \in {"done", "failed"} : [r EXCEPT !.at = at] \in Call
         /\ \A d \in [Contacts -> Seq(Calls)], n \in Nat :
               [r EXCEPT !.at = "putting", !.base = d, !.loaded = n] \in Call
BY DEF Call

LEMMA TypesStep ==
  ASSUME IInv, [Next]_vars
  PROVE  TypeOK'
<1>1. ASSUME NEW f \in Followups, NEW s \in Statuses, Track(f, s)  PROVE  TypeOK'
  BY <1>1 DEF Track, IInv, TypeOK, Outcome, memoryVars
<1>2. ASSUME NEW o \in Outcome, AppendLands(o) \/ AppendFails(o)  PROVE  TypeOK'
  BY <1>2 DEF AppendLands, AppendFails, IInv, TypeOK, memoryVars
<1>3. ASSUME NEW c \in Calls, NEW k \in Contacts, ReadContact(c, k)  PROVE  TypeOK'
  <2>1. Latest(Append(doc[k], c)) \in Seq(Calls)
    BY LatestOf DEF IInv, TypeOK, MemoryInv, DocInv, Short
  <2>2. Len(landed) \in Nat /\ NoDocument \in [Contacts -> Seq(Calls)]
    BY DEF IInv, TypeOK, NoDocument
  <2>3. [Idle EXCEPT !.at = "loading", !.contact = k, !.summaries = Latest(Append(doc[k], c)),
                     !.read = Len(landed)] \in Call
    BY <2>1, <2>2 DEF Idle, Call
  <2>4. call' \in [Calls -> Call]
    BY <1>3, <2>3 DEF ReadContact, IInv, TypeOK
  <2>5. QED  BY <1>3, <2>4 DEF ReadContact, IInv, TypeOK, outcomeVars
<1>4. ASSUME NEW c \in Calls, Load(c)  PROVE  TypeOK'
  <2>1. Len(landed) \in Nat /\ doc \in [Contacts -> Seq(Calls)] /\ call \in [Calls -> Call]
    BY DEF IInv, TypeOK
  <2>2. [call[c] EXCEPT !.at = "putting", !.base = doc, !.loaded = Len(landed)] \in Call
    BY <2>1, CallTypes
  <2>3. call' = [call EXCEPT ![c] =
                    [call[c] EXCEPT !.at = "putting", !.base = doc, !.loaded = Len(landed)]]
    BY <1>4, <2>1 DEF Load, Call
  <2>4. QED  BY <1>4, <2>1, <2>2, <2>3 DEF Load, IInv, TypeOK, outcomeVars
<1>5. ASSUME NEW c \in Calls, Put(c)  PROVE  TypeOK'
  <2>1. doc' \in [Contacts -> Seq(Calls)]
    <3>1. call[c].base \in [Contacts -> Seq(Calls)] /\ call[c].summaries \in Seq(Calls)
      BY DEF IInv, TypeOK, Call
    <3>2. QED  BY <1>5, <3>1 DEF Put
  <2>2. call' \in [Calls -> Call]
    <3>1. PICK at \in {"done", "failed"} : call' = [call EXCEPT ![c].at = at]
      BY <1>5 DEF Put
    <3>2. call \in [Calls -> Call]
      BY DEF IInv, TypeOK
    <3>3. [call[c] EXCEPT !.at = at] \in Call
      BY <3>2, CallTypes
    <3>4. QED  BY <3>1, <3>2, <3>3
  <2>3. landed' \in Seq(Calls)
    BY <1>5 DEF Put, IInv, TypeOK
  <2>4. QED  BY <1>5, <2>1, <2>2, <2>3 DEF Put, IInv, TypeOK, outcomeVars
<1>6. ASSUME NEW c \in Calls, Fail(c)  PROVE  TypeOK'
  BY <1>6, CallTypes DEF Fail, IInv, TypeOK, outcomeVars
<1>7. CASE Restart
  <2>1. call' \in [Calls -> Call]
    BY <1>7, CallTypes DEF Restart, IInv, TypeOK
  <2>2. QED  BY <1>7, <2>1 DEF Restart, IInv, TypeOK
<1>8. CASE UNCHANGED vars
  BY <1>8 DEF vars, IInv, TypeOK
<1>9. QED  BY <1>1, <1>2, <1>3, <1>4, <1>5, <1>6, <1>7, <1>8 DEF Next

LEMMA ReadStep ==
  ASSUME IInv, TypeOK', NEW c \in Calls, NEW k \in Contacts, ReadContact(c, k)
  PROVE  MemoryInv'
<1> DEFINE s == Latest(Append(doc[k], c))
<1>1. /\ doc' = doc /\ landed' = landed
      /\ call[c].at = "idle" /\ call'[c].at = "loading" /\ call'[c].contact = k
      /\ call'[c].summaries = s /\ call'[c].read = Len(landed)
      /\ \A d \in Calls : d # c => call'[d] = call[d]
  BY DEF ReadContact, Idle, IInv, TypeOK
<1>2. doc[k] \in Seq(Calls) /\ Len(doc[k]) <= MAX_SUMMARIES
  BY DEF IInv, TypeOK, MemoryInv, DocInv, Short
<1> DEFINE n == Len(doc[k])
<1>7. n \in Nat /\ Len(Append(doc[k], c)) = n + 1 /\ Append(doc[k], c)[n + 1] = c
  BY <1>2, Appended
<1>3. Len(s) \in 1..MAX_SUMMARIES /\ s[Len(s)] = c
  <2>1. CASE Len(doc[k]) < MAX_SUMMARIES
    <3>1. s = Append(doc[k], c)
      BY <1>2, <2>1, LatestOf
    <3>2. QED  BY <1>7, <2>1, <3>1, MemoryAssumption
  <2>2. CASE Len(doc[k]) = MAX_SUMMARIES
    <3>1. Len(s) = MAX_SUMMARIES /\ \A m \in 1..MAX_SUMMARIES : s[m] = Append(doc[k], c)[m + 1]
      BY <1>2, <2>2, LatestOf
    <3>2. QED  BY <1>7, <2>2, <3>1, MemoryAssumption
  <2>3. QED  BY <1>2, <1>7, <2>1, <2>2, MemoryAssumption
<1>4. HistoryGrows
  BY <1>1 DEF HistoryGrows
<1>5. ASSUME NEW i \in DOMAIN landed, ContactOf(i)' = k
      PROVE  Overtaken(i)' \/ Keeps(landed, s, i, {c})
  <2>1. ContactOf(i)' = ContactOf(i) /\ (Overtaken(i) => Overtaken(i)')
    BY <1>4, LandedStay DEF HistoryGrows, IInv, MemoryInv
  <2>2. Overtaken(i) \/ Keeps(landed, doc[k], i, {})
    BY <1>5, <2>1 DEF IInv, MemoryInv, DocInv
  <2>3. QED  BY <1>2, <2>1, <2>2, ReadKeeps
<1>6. Loaded(c)'
  <2>1. \A i \in DOMAIN landed : SummariesKeep(c, i)'
    BY <1>1, <1>5 DEF SummariesKeep
  <2>2. Len(landed) \in Nat
    BY DEF IInv, TypeOK
  <2>3. QED  BY <1>1, <1>3, <2>1, <2>2 DEF Loaded
<1>8. QED
  <2>1. \A d \in Calls \ {c} : call'[d] = call[d]
    BY <1>1
  <2>2. \A d \in {c} :
           /\ call[d].at \notin {"done", "failed"}
           /\ InFlight(d)' => Loaded(d)'
           /\ call'[d].at = "putting" => Based(d)'
    BY <1>1, <1>6
  <2>3. QED  BY <1>1, <2>1, <2>2, QuietStep

LEMMA LoadStep ==
  ASSUME IInv, TypeOK', NEW c \in Calls, Load(c)
  PROVE  MemoryInv'
<1>1. /\ doc' = doc /\ landed' = landed
      /\ call[c].at = "loading" /\ call'[c].at = "putting" /\ call'[c].contact = call[c].contact
      /\ call'[c].summaries = call[c].summaries /\ call'[c].read = call[c].read
      /\ call'[c].base = doc /\ call'[c].loaded = Len(landed)
      /\ \A d \in Calls : d # c => call'[d] = call[d]
  BY DEF Load, IInv, TypeOK, Call
<1>2. \A i \in DOMAIN landed :
         /\ ContactOf(i)' = ContactOf(i)
         /\ Overtaken(i) => Overtaken(i)'
  <2>1. HistoryGrows
    BY <1>1 DEF HistoryGrows
  <2>2. QED  BY <2>1, LandedStay DEF HistoryGrows, IInv, MemoryInv
<1>3. Loaded(c)
  BY <1>1 DEF IInv, MemoryInv, CallInv, InFlight
<1>4. Loaded(c)'
  <2>1. \A i \in DOMAIN landed : SummariesKeep(c, i)'
    BY <1>1, <1>2, <1>3 DEF Loaded, SummariesKeep
  <2>2. QED  BY <1>1, <1>3, <2>1 DEF Loaded
<1>5. Based(c)'
  <2>1. \A i \in DOMAIN landed : Overtaken(i)' \/ Keeps(landed, doc[ContactOf(i)'], i, {})
    BY <1>2 DEF IInv, MemoryInv, DocInv
  <2>2. \A i \in DOMAIN landed : BaseKeeps(c, i)'
    BY <1>1, <2>1 DEF BaseKeeps
  <2>3. Len(landed) \in Nat /\ Short(doc)
    BY DEF IInv, TypeOK, MemoryInv, DocInv
  <2>4. QED  BY <1>1, <2>2, <2>3 DEF Based, Short
<1>6. QED
  <2>1. \A d \in Calls \ {c} : call'[d] = call[d]
    BY <1>1
  <2>2. \A d \in {c} :
           /\ call[d].at \notin {"done", "failed"}
           /\ InFlight(d)' => Loaded(d)'
           /\ call'[d].at = "putting" => Based(d)'
    BY <1>1, <1>4, <1>5
  <2>3. QED  BY <1>1, <2>1, <2>2, QuietStep

LEMMA PutStep ==
  ASSUME IInv, TypeOK', NEW c \in Calls, Put(c)
  PROVE  MemoryInv'
<1> DEFINE k == call[c].contact
           s == call[c].summaries
           N == Len(landed)
<1>1. /\ call[c].at = "putting" /\ call'[c].at \in {"done", "failed"}
      /\ call'[c].contact = k /\ call'[c].read = call[c].read /\ call'[c].loaded = call[c].loaded
      /\ \A d \in Calls : d # c => call'[d] = call[d]
      /\ landed' = Append(landed, c)
  <2>1. PICK at \in {"done", "failed"} : call' = [call EXCEPT ![c].at = at]
    BY DEF Put
  <2>2. call \in [Calls -> Call]
    BY DEF IInv, TypeOK
  <2>3. QED  BY <2>1, <2>2 DEF Put, Call
<1>2. /\ Loaded(c) /\ Based(c) /\ k \in Contacts
      /\ call[c].base \in [Contacts -> Seq(Calls)] /\ s \in Seq(Calls)
      /\ call[c].read \in Nat /\ call[c].loaded \in Nat
  BY <1>1 DEF IInv, TypeOK, Call, MemoryInv, CallInv, InFlight, Loaded
<1>3. /\ doc' \in [Contacts -> Seq(Calls)] /\ doc'[k] = s
      /\ \A x \in Contacts : x # k => doc'[x] = call[c].base[x]
  BY <1>2 DEF Put
<1>4. HistoryGrows
  BY <1>1 DEF HistoryGrows
<1>5. landed \in Seq(Calls) /\ landed' \in Seq(Calls) /\ DOMAIN landed = 1..N
      /\ DOMAIN landed' = 1..Len(landed')
  BY DEF IInv, TypeOK
<1>6. N \in Nat /\ Len(landed') = N + 1 /\ landed'[N + 1] = c
  BY <1>1, <1>5, Appended, Zenon
<1>7. \A i \in DOMAIN landed :
         /\ landed'[i] = landed[i] /\ ContactOf(i)' = ContactOf(i)
         /\ Overtaken(i) => Overtaken(i)'
         /\ \A x : After(landed, x, i) => After(landed', x, i)
         /\ After(landed', c, i)
  <2>1. \A i \in DOMAIN landed :
           /\ landed'[i] = landed[i] /\ ContactOf(i)' = ContactOf(i)
           /\ Overtaken(i) => Overtaken(i)'
           /\ \A x : After(landed, x, i) => After(landed', x, i)
    BY <1>4, LandedStay DEF HistoryGrows, IInv, MemoryInv
  <2>2. \A i \in DOMAIN landed : N + 1 \in i + 1 .. Len(landed')
    BY <1>5, <1>6
  <2>3. QED  BY <1>6, <2>1, <2>2 DEF After
<1>8. LandedInv'
  BY <1>1, <1>2, <1>4, LandedInvStays
<1>9. ASSUME NEW i \in DOMAIN landed
      PROVE  Overtaken(i)' \/ Keeps(landed', doc'[ContactOf(i)'], i, {})
  <2>1. i \in 1..N /\ N + 1 \in i + 1 .. Len(landed')
    BY <1>5, <1>6
  <2>2. ContactOf(i) \in Contacts
    BY DEF IInv, MemoryInv, LandedInv
  <2>3. CASE ContactOf(i) = k /\ i <= call[c].read
    <3>1. Overtaken(i) \/ Keeps(landed, s, i, {c})
      BY <1>2, <2>3 DEF Loaded, SummariesKeep
    <3>2. ASSUME Keeps(landed, s, i, {c})  PROVE  Keeps(landed', s, i, {})
      BY <1>7, <3>2, KeepsStays
    <3>3. QED  BY <1>3, <1>7, <2>3, <3>1, <3>2
  <2>4. CASE ContactOf(i) # k /\ i <= call[c].loaded
    <3>1. Overtaken(i) \/ Keeps(landed, call[c].base[ContactOf(i)], i, {})
      BY <1>2, <2>4 DEF Based, BaseKeeps
    <3>2. ASSUME Keeps(landed, call[c].base[ContactOf(i)], i, {})
          PROVE  Keeps(landed', call[c].base[ContactOf(i)], i, {})
      BY <1>7, <3>2, KeepsStays
    <3>3. QED  BY <1>3, <1>7, <2>2, <2>4, <3>1, <3>2
  <2>5. CASE /\ ContactOf(i) = k => ~ (i <= call[c].read)
             /\ ContactOf(i) # k => ~ (i <= call[c].loaded)
    <3>1. call'[landed'[i]].contact = ContactOf(i)
      BY <1>7 DEF ContactOf
    <3>2. IF call'[landed'[N + 1]].contact = call'[landed'[i]].contact
          THEN call'[landed'[N + 1]].read < i ELSE call'[landed'[N + 1]].loaded < i
      BY <1>1, <1>2, <1>6, <2>1, <2>5, <3>1
    <3>3. QED  BY <2>1, <3>2 DEF Overtaken
  <2>6. QED  BY <2>3, <2>4, <2>5
<1>10. ASSUME NEW i \in DOMAIN landed', i = N + 1
       PROVE  Keeps(landed', doc'[ContactOf(i)'], i, {})
  <2>1. Len(s) \in Nat /\ Len(s) > 0 /\ s[Len(s)] = c
    BY <1>2, MemoryAssumption DEF Loaded
  <2>2. KeepsAt(landed', s, i, {}, Len(s))
    BY <1>6, <1>10, <2>1 DEF KeepsAt
  <2>3. ContactOf(i)' = k
    BY <1>1, <1>6, <1>10 DEF ContactOf
  <2>4. QED  BY <1>3, <2>1, <2>2, <2>3 DEF Keeps
<1>11. Short(doc)'
  <2>1. Len(s) <= MAX_SUMMARIES /\ Short(call[c].base)
    BY <1>2, MemoryAssumption DEF Loaded, Based
  <2>2. ASSUME NEW x \in Contacts  PROVE  Len(doc'[x]) <= MAX_SUMMARIES
    <3>1. CASE x = k
      BY <1>3, <2>1, <3>1
    <3>2. CASE x # k
      BY <1>3, <2>1, <3>2 DEF Short
    <3>3. QED  BY <3>1, <3>2
  <2>3. QED  BY <2>2 DEF Short
<1>12. DocInv'
  <2>1. ASSUME NEW i \in DOMAIN landed'
        PROVE  Overtaken(i)' \/ Keeps(landed', doc'[ContactOf(i)'], i, {})
    <3>1. i \in DOMAIN landed \/ i = N + 1
      BY <1>5, <1>6
    <3>2. QED  BY <1>9, <1>10, <3>1
  <2>2. QED  BY <1>11, <2>1 DEF DocInv
<1>13. CallInv'
  <2>1. ASSUME NEW d \in Calls
        PROVE  /\ InFlight(d)' => Loaded(d)'
               /\ call'[d].at = "putting" => Based(d)'
    BY <1>1, <1>4, CallStays DEF InFlight
  <2>2. QED  BY <2>1 DEF CallInv
<1>14. QED  BY <1>8, <1>12, <1>13 DEF MemoryInv

LEMMA MemoryStep ==
  ASSUME IInv, TypeOK', [Next]_vars
  PROVE  MemoryInv'
<1>1. ASSUME NEW C \in SUBSET Calls, doc' = doc, landed' = landed,
             \A d \in Calls \ C : call'[d] = call[d],
             \A d \in C : call[d].at \notin {"done", "failed"} /\ call'[d].at = "failed"
      PROVE  MemoryInv'
  <2>1. \A d \in C :
           /\ call[d].at \notin {"done", "failed"}
           /\ InFlight(d)' => Loaded(d)'
           /\ call'[d].at = "putting" => Based(d)'
    BY <1>1 DEF InFlight
  <2>2. QED  BY <1>1, <2>1, QuietStep
<1>2. CASE UNCHANGED memoryVars
  <2> DEFINE none == {}
  <2>1. /\ none \in SUBSET Calls /\ doc' = doc /\ landed' = landed
        /\ \A d \in Calls \ none : call'[d] = call[d]
        /\ \A d \in none : call[d].at \notin {"done", "failed"} /\ call'[d].at = "failed"
    BY <1>2 DEF memoryVars
  <2> HIDE DEF none
  <2>2. QED  BY <1>1, <2>1
<1>3. ASSUME NEW c \in Calls, Fail(c)  PROVE  MemoryInv'
  <2>1. /\ doc' = doc /\ landed' = landed
        /\ \A d \in Calls \ {c} : call'[d] = call[d]
        /\ \A d \in {c} : call[d].at \notin {"done", "failed"} /\ call'[d].at = "failed"
    BY <1>3 DEF Fail, IInv, TypeOK, Call
  <2>2. QED  BY <1>1, <2>1
<1>4. CASE Restart
  <2> DEFINE C == {d \in Calls : InFlight(d)}
  <2>1. \A d \in Calls \ C : call'[d] = call[d]
    BY <1>4 DEF Restart, InFlight
  <2>2. \A d \in C : call[d].at \notin {"done", "failed"} /\ call'[d].at = "failed"
    BY <1>4 DEF Restart, InFlight, IInv, TypeOK, Call
  <2>3. QED  BY <1>1, <1>4, <2>1, <2>2 DEF Restart
<1>5. ASSUME NEW c \in Calls,
             (\E k \in Contacts : ReadContact(c, k)) \/ Load(c) \/ Put(c)
      PROVE  MemoryInv'
  BY <1>5, ReadStep, LoadStep, PutStep
<1>6. QED
  BY <1>2, <1>3, <1>4, <1>5 DEF Next, vars, memoryVars, Track, AppendLands, AppendFails

-----------------------------------------------------------------------------
(* Theorems about the records *)

LEMMA InitInv == Init => IInv
<1> SUFFICES ASSUME Init  PROVE IInv
  OBVIOUS
<1>1. TypeOK
  BY TypesInit
<1>2. OutcomesArePaths
  BY DEF Init, OutcomesArePaths
<1>3. LandedInv /\ CallInv
  BY DEF Init, LandedInv, CallInv, InFlight, Idle
<1>4. DocInv
  BY MemoryAssumption DEF Init, DocInv, Short, NoDocument
<1>5. QED  BY <1>1, <1>2, <1>3, <1>4 DEF IInv, MemoryInv

\* The inductive invariant.
THEOREM Invariance == Spec => []IInv
<1>1. IInv /\ [Next]_vars => IInv'
  BY TypesStep, PathsStep, MemoryStep DEF IInv
<1>2. QED  BY InitInv, <1>1, PTL DEF Spec

\* Everything keeps its type.
THEOREM TypeCorrect == Spec => []TypeOK
BY Invariance, PTL DEF IInv

\* The outcomes one process appends for one follow-up lie on one path.
THEOREM OutcomesPaths == Spec => []OutcomesArePaths
BY Invariance, PTL DEF IInv

\* An interaction on record stays there until enough later ones have replaced
\* it, unless a concurrent call overtook it.
THEOREM InteractionsKept == Spec => []InteractionsAreKept
<1>1. IInv => InteractionsAreKept
  <2> SUFFICES ASSUME IInv, NEW i \in DOMAIN landed, ~ Overtaken(i)
               PROVE  HasOf(doc[call[landed[i]].contact], i)
    BY DEF InteractionsAreKept
  <2> DEFINE s == doc[ContactOf(i)]
  <2>1. s \in Seq(Calls)
    BY DEF IInv, TypeOK, MemoryInv, LandedInv
  <2>2. PICK n \in 0..Len(s) : KeepsAt(landed, s, i, {}, n)
    BY DEF IInv, MemoryInv, DocInv, Keeps
  <2>3. CASE n > 0
    <3>1. n \in DOMAIN s /\ s[n] = landed[i]
      BY <2>1, <2>2, <2>3 DEF KeepsAt
    <3>2. QED  BY <3>1 DEF HasOf, ContactOf
  <2>4. CASE n = 0
    <3>1. Len(s) = MAX_SUMMARIES /\ \A m \in DOMAIN s : Later(s[m], i)
      BY <2>1, <2>2, <2>4 DEF KeepsAt, After, Later
    <3>2. QED  BY <3>1 DEF HasOf, ContactOf
  <2>5. QED  BY <2>1, <2>2, <2>3, <2>4
<1>2. QED  BY <1>1, Invariance, PTL
=============================================================================
