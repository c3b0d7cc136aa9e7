------------------------------ MODULE Followups ------------------------------
(***************************************************************************)
(* What detectFollowup decides about a thread: whether a follow-up is      *)
(* owed, how urgent it is and who owns it, from the messages of the        *)
(* thread, the calendar and the workflow state.  The evidence is the       *)
(* state: messages come in, meetings draw near and pass, the workflow      *)
(* state changes, time goes by.  The decision is a function of it, taken   *)
(* by whoever calls detectFollowup, at any moment.                         *)
(*                                                                         *)
(* A text is the set of the phrases it holds, and a regular expression     *)
(* the phrases it finds: one phrase for each way in which the expressions  *)
(* overlap.  The sources of one kind have the relevance their connector    *)
(* gives them all, so the strongest message is the first.                  *)
(***************************************************************************)
EXTENDS Integers, Sequences, FiniteSets

CONSTANTS
    Messages,     \* messages: title, excerpt, owner (internal_owner:) and flags
    Events,       \* events as they come in
    States,       \* workflow states: the same, with the owners their excerpt names
    Ages,         \* hours since the first message
    Hours,        \* hours until the start of an event
    Placeholders, \* names that isPlaceholderOwner refuses
    Queues,       \* names that start with "escalation:"
    MaxInbox, MaxCalendar, MaxWorkflow, \* bounds: sources of each kind
    Absent

VARIABLES inbox, calendar, workflow, age

evidence == <<inbox, calendar, workflow, age>>

\* What each regular expression finds.
Matches ==
    [ask         |-> {"pricing", "send proposal", "status update", "please", "waiting on",
                      "deadline", "reply sent after meeting"},
     client      |-> {"client", "status:client"},
     prospect    |-> {"pricing", "send proposal", "status:prospect"},
     deadline    |-> {"deadline", "urgent"},
     promise     |-> {"send proposal", "waiting on", "next step", "next steps sent"},
     active      |-> {"pricing", "send proposal", "waiting on", "deadline",
                      "reply sent after meeting"},
     deliverable |-> {"send proposal", "status update"},
     pricing     |-> {"pricing", "send proposal", "package"},
     missed      |-> {"missed"},
     scheduled   |-> {"meeting", "meeting occurred", "reply sent after meeting"},
     occurred    |-> {"meeting occurred", "recap sent"},
     nextStep    |-> {"send proposal", "next step", "next steps sent"},
     replied     |-> {"recap sent", "next steps sent", "reply sent after meeting"},
     resolved    |-> {"status:closed"},
     outbound    |-> {"replied_after_ask:true"},
     closure     |-> {"all set"},
     completed   |-> {"recap sent", "next steps sent", "followup completed"}]

Phrases == UNION {Matches[re] : re \in DOMAIN Matches}

\* organizer: and start are read from the excerpt of an event.
Event == [title : SUBSET Phrases, excerpt : SUBSET Phrases, flagged : BOOLEAN,
          organizer : {e.organizer : e \in Events}, start : Hours \cup {Absent}]

\* owner: is found inside account_owner: and deal_owner: too.
ASSUME FollowupsAssumption ==
    /\ \A s \in Messages \cup States :
           s.title \subseteq Phrases /\ s.excerpt \subseteq Phrases /\ s.flagged \in BOOLEAN
    /\ \A w \in States : w.account # Absent \/ w.deal # Absent => w.owner # Absent
    /\ Events \subseteq Event
    /\ {"escalation:sales", "escalation:client-success", "escalation:meeting-owner-review",
        "escalation:unassigned-review"} \subseteq Queues \ {Absent}
    /\ Ages \subseteq Nat /\ Hours \subseteq Nat /\ 0 \in Ages /\ Absent \notin Hours
    /\ MaxInbox \in Nat /\ MaxCalendar \in Nat /\ MaxWorkflow \in Nat

EvidenceOK ==
    /\ inbox \in Seq(Messages) /\ calendar \in Seq(Event) /\ workflow \in Seq(States)
    /\ age \in Ages

-----------------------------------------------------------------------------
(* Texts *)

Sources(s) == {s[i] : i \in DOMAIN s}
Excerpts(s) == UNION {x.excerpt : x \in Sources(s)}
Texts(s) == UNION {x.title \cup x.excerpt : x \in Sources(s)}
Says(text, re) == text \cap Matches[re] # {}

AllTexts == Texts(inbox) \cup Texts(calendar) \cup Texts(workflow)

\* What the pending work is read from: the workflow state and the messages.
WorkText == Texts(workflow) \cup Excerpts(inbox)

TopText == IF inbox = <<>> THEN {} ELSE inbox[1].title \cup inbox[1].excerpt

AskCount == Cardinality({i \in DOMAIN inbox : Says(inbox[i].title \cup inbox[i].excerpt, "ask")})

IsClient   == Says(WorkText, "client")
IsProspect == Says(WorkText, "prospect")

MissedMeeting == Says(Excerpts(calendar), "missed")
Starts == {e.start : e \in Sources(calendar)} \ {Absent}
StartsWithin(h) == \E start \in Starts : start <= h

Occurred        == Says(Texts(calendar) \cup Texts(workflow), "occurred")
PromisedNext    == Says(AllTexts, "nextStep")
PostMeetingReplySent == Says(AllTexts, "replied")

Contradictory == \E s \in Sources(inbox) \cup Sources(calendar) \cup Sources(workflow) : s.flagged

ThreadResolved ==
    \/ Says(Texts(workflow), "resolved")
    \/ Says(Texts(workflow) \cup Texts(inbox), "outbound")
    \/ Says(Texts(inbox), "closure")
    \/ Says(AllTexts, "completed")

-----------------------------------------------------------------------------
(* The owner *)

\* The first name of a sequence that is there and is not refused.
FirstName(names, refused) ==
    LET good == {i \in DOMAIN names : names[i] \notin refused \cup {Absent}}
    IN  IF good = {} THEN Absent ELSE names[CHOOSE i \in good : \A j \in good : i <= j]

OwnerFromWorkflow == FirstName([i \in DOMAIN workflow |-> workflow[i].owner], Placeholders)
OwnerFromCalendar == FirstName([i \in DOMAIN calendar |-> calendar[i].organizer], {})
OwnerFromInbox    == FirstName([i \in DOMAIN inbox |-> inbox[i].owner], Placeholders)
OwnerFromAccount  ==
    FirstName([i \in DOMAIN workflow |->
                  FirstName(<<workflow[i].account, workflow[i].deal>>, Placeholders)], {})

EscalationQueue ==
    CASE "status:prospect" \in Excerpts(workflow) -> "escalation:sales"
      [] "status:prospect" \notin Excerpts(workflow) /\ "status:client" \in Excerpts(workflow)
           -> "escalation:client-success"
      [] Excerpts(workflow) \cap {"status:prospect", "status:client"} = {} /\ calendar # <<>>
           -> "escalation:meeting-owner-review"
      [] OTHER -> "escalation:unassigned-review"

NamedOwner == FirstName(<<OwnerFromWorkflow, OwnerFromCalendar, OwnerFromInbox, OwnerFromAccount>>, {})

EscalationRequired == NamedOwner = Absent
Owner == IF EscalationRequired THEN EscalationQueue ELSE NamedOwner

\* owner.startsWith("escalation:")
OwnerMissing == Owner \in Queues

-----------------------------------------------------------------------------
(* Is a follow-up owed? *)

MeetingFollowupOwed ==
    /\ ~ PostMeetingReplySent
    /\ Says(Texts(calendar), "missed") \/ (Occurred /\ PromisedNext)

DeadlinePressure == Says(Excerpts(inbox), "deadline")

UnresolvedPromise ==
    Says(WorkText, "promise") /\ ~ Says(AllTexts, "completed") /\ ~ PostMeetingReplySent

StrongObligation ==
    \/ MeetingFollowupOwed
    \/ DeadlinePressure /\ (AskCount > 0 \/ UnresolvedPromise)
    \/ MissedMeeting /\ ~ PostMeetingReplySent
    \/ StartsWithin(24)

\* helpfulClientDeliverableFollowup and helpfulProspectPricingFollowup.
HelpfulFollowup ==
    /\ AskCount > 0 /\ ~ ThreadResolved /\ ~ StrongObligation
    /\ \/ IsClient /\ Says(TopText, "deliverable")
       \/ IsProspect /\ Says(TopText, "pricing")

\* It asks for a strong obligation and an open thread, so it adds no follow-up.
EscalatedFollowupOwed ==
    /\ StrongObligation /\ ~ ThreadResolved
    /\ OwnerMissing /\ EscalationRequired /\ (IsClient \/ IsProspect)
    /\ \/ AskCount > 0 \/ UnresolvedPromise \/ DeadlinePressure \/ MeetingFollowupOwed
       \/ Says(Excerpts(inbox), "active")

FollowupOwed ==
    \/ (StrongObligation \/ HelpfulFollowup) /\ ~ ThreadResolved
    \/ EscalatedFollowupOwed

AtMost(n, max) == IF n <= max THEN n ELSE max

EvidenceCount == AtMost(Len(inbox), 2) + AtMost(Len(calendar), 1) + AtMost(Len(workflow), 1)

-----------------------------------------------------------------------------
(* How urgent is it? *)

Low == 1
Medium == 2
High == 3
Critical == 4

When(condition, n) == IF condition THEN n ELSE 0

\* The first of the bands that holds: bands are nested.
Band(first, second, third, a, b, c) ==
    IF first THEN a ELSE IF second THEN b ELSE When(third, c)

UrgencyScore ==
    Band(age >= 72, age >= 24, age >= 8, 25, 15, 8)
    + When(IsClient, 10) + When(IsProspect, 12) + AtMost(8 * AskCount, 20)
    + When(MissedMeeting, 25)
    + Band(StartsWithin(4), StartsWithin(24), StartsWithin(72), 30, 18, 10)
    + When(Occurred /\ PromisedNext /\ ~ PostMeetingReplySent, 20)

Scored ==
    CASE UrgencyScore >= 70 -> Critical
      [] UrgencyScore \in 45..69 -> High
      [] UrgencyScore \in 20..44 -> Medium
      [] OTHER -> Low

\* Mutant: whatever the urgency was, it becomes medium.
AdjustForEscalationFlat(u) ==
    IF /\ IsClient /\ EscalationRequired /\ OwnerMissing
       /\ AskCount > 0 \/ age >= 24
    THEN Medium ELSE u

AdjustForEscalation(u) ==
    IF /\ IsClient /\ EscalationRequired /\ OwnerMissing
       /\ AskCount > 0 \/ age >= 24
    THEN IF u = Low THEN Medium
         ELSE IF /\ u = Medium
                 /\ \/ MissedMeeting \/ PromisedNext \/ StartsWithin(24)
                    \/ age >= 48 /\ AskCount > 0
              THEN High ELSE u
    ELSE u

\* Mutant: a thread somebody owns gets no lift.
AdjustForClientOwnerNever(u) == u

\* Its second rule, from medium to high, asks for an escalation of an owned
\* thread, and there is none: selectFollowupOwner escalates only without an owner.
AdjustForClientOwner(u) ==
    IF /\ IsClient /\ ~ OwnerMissing /\ FollowupOwed /\ ~ ThreadResolved
       /\ AskCount > 0 \/ EscalationRequired \/ age >= 24
    THEN IF u = Low THEN Medium
         ELSE IF u = Medium /\ EscalationRequired THEN High ELSE u
    ELSE u

AdjustForMeetingOwner(u) ==
    IF /\ Says(Texts(calendar), "scheduled") \/ OwnerFromCalendar # Absent
       /\ Owner = OwnerFromCalendar /\ ~ PostMeetingReplySent
       /\ PromisedNext \/ MissedMeeting
    THEN IF u < High THEN u + 1 ELSE u
    ELSE u

HasStrongSignal == AskCount > 0 \/ MissedMeeting \/ PromisedNext \/ StartsWithin(24)

\* scoreFollowupUrgency.
ScoredUrgency ==
    LET u == AdjustForMeetingOwner(AdjustForClientOwner(AdjustForEscalation(Scored))) IN
    IF Owner = "escalation:unassigned-review" /\ ~ HasStrongSignal /\ u \in {Medium, High}
    THEN u - 1 ELSE u

\* detectFollowup throws when the evidence contradicts itself.
NoDecision == [owed |-> FALSE, urgency |-> 0, owner |-> Absent, escalation |-> FALSE, confidence |-> 0]

Decision ==
    IF Contradictory THEN NoDecision
    ELSE IF ThreadResolved
    THEN [owed |-> FALSE, urgency |-> Low, owner |-> Owner, escalation |-> FALSE, confidence |-> 94]
    ELSE [owed |-> FollowupOwed, urgency |-> ScoredUrgency, owner |-> Owner,
          escalation |-> EscalationRequired,
          confidence |-> IF FollowupOwed THEN AtMost(60 + 8 * EvidenceCount + 5 * AskCount, 95)
                                         ELSE 72]

-----------------------------------------------------------------------------
(* How the evidence changes *)

NoEvidence == inbox = <<>> /\ calendar = <<>> /\ workflow = <<>> /\ age = 0

NewMessage ==
    /\ Len(inbox) < MaxInbox
    /\ \E s \in Messages : inbox' = Append(inbox, s)
    /\ UNCHANGED <<calendar, workflow, age>>

NewEvent ==
    /\ Len(calendar) < MaxCalendar
    /\ \E s \in Events : calendar' = Append(calendar, s)
    /\ UNCHANGED <<inbox, workflow, age>>

NewState ==
    /\ Len(workflow) < MaxWorkflow
    /\ \E s \in States : workflow' = Append(workflow, s)
    /\ UNCHANGED <<inbox, calendar, age>>

\* Somebody edits a workflow state: what it said is gone.
StateChanges ==
    /\ \E i \in DOMAIN workflow, s \in States : workflow' = [workflow EXCEPT ![i] = s]
    /\ UNCHANGED <<inbox, calendar, age>>

\* hoursUntil only goes down.
MeetingNears ==
    /\ \E i \in DOMAIN calendar, h \in Hours :
           /\ calendar[i].start # Absent /\ h < calendar[i].start
           /\ calendar' = [calendar EXCEPT ![i].start = h]
    /\ UNCHANGED <<inbox, workflow, age>>

\* Below zero the start is no longer counted.
MeetingPasses ==
    /\ \E i \in DOMAIN calendar :
           /\ calendar[i].start # Absent
           /\ calendar' = [calendar EXCEPT ![i].start = Absent]
    /\ UNCHANGED <<inbox, workflow, age>>

\* The age is that of the first message.
GetsOlder ==
    /\ inbox # <<>>
    /\ \E a \in Ages : a > age /\ age' = a
    /\ UNCHANGED <<inbox, calendar, workflow>>

Grows == NewMessage \/ NewEvent \/ NewState \/ MeetingNears \/ GetsOlder
EvidenceChanges == Grows \/ StateChanges \/ MeetingPasses

EvidenceSpec == NoEvidence /\ [][EvidenceChanges]_evidence

-----------------------------------------------------------------------------
(* Properties *)

Settled == ThreadResolved \/ PostMeetingReplySent

\* While nothing settles the thread, nobody else comes to own it and the
\* evidence does not contradict itself, more evidence, a meeting that draws near
\* and time that goes by never make the follow-up less urgent and never take it
\* back: the bands, the count of asks and the four adjustments of
\* scoreFollowupUrgency may not undo each other.
PressureNeverLowers ==
    [][ Grows /\ ~ Settled' /\ ~ Contradictory'
          /\ Owner' = Owner /\ EscalationRequired' = EscalationRequired
          => /\ Decision'.urgency >= Decision.urgency
             /\ Decision.owed => Decision'.owed ]_evidence

\* An open follow-up that a client has asked for is never of low urgency,
\* whoever owns it or whichever queue it is sent to: one of the two adjustments
\* lifts it.  Unless the evidence itself names a queue as the owner: then
\* neither applies.
ClientAsksStandOut ==
    Decision.owed /\ IsClient /\ AskCount > 0 /\ (OwnerMissing => EscalationRequired)
        => Decision.urgency # Low
=============================================================================
