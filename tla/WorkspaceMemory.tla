--------------------------- MODULE WorkspaceMemory ---------------------------
(***************************************************************************)
(* Two records of a workspace in the durable application store: the        *)
(* outcomes of its follow-ups, an append-only log whose transitions are    *)
(* checked against a map in the memory of the process, and the             *)
(* relationships of a user, one document that holds a record per contact   *)
(* and is read and put back whole.                                         *)
(*                                                                         *)
(* One process at a time.  A summary stands for the call that records it.  *)
(***************************************************************************)
EXTENDS Integers, Sequences

CONSTANTS
    Followups,      \* (task, thread) pairs
    Calls,          \* calls of recordInteraction, each made once
    Contacts,       \* contact addresses of the user
    MAX_SUMMARIES,
    None

ASSUME MemoryAssumption == MAX_SUMMARIES \in Nat \ {0} /\ None \notin Contacts

Statuses == {"detected", "drafted", "approved", "sent", "escalated", "dismissed"}

ASSUME NoneIsNoStatus == None \notin Statuses

VARIABLES
    tracked,   \* outcomeStores: what the process last tracked of each follow-up
    appends,   \* outcomes whose append has not been answered yet
    rows,      \* the log's outcomes that this process has appended
    doc,       \* the relationships document: the summaries of each contact
    call,      \* the calls of recordInteraction
    landed     \* history: the calls whose put the document has taken, in order

outcomeVars == <<tracked, appends, rows>>
memoryVars  == <<doc, call, landed>>
vars        == <<tracked, appends, rows, doc, call, landed>>

Outcome == [followup : Followups, status : Statuses]

\* read and loaded are history: how much had landed at the two reads.
Call == [at : {"idle", "loading", "putting", "done", "failed"}, contact : Contacts \cup {None},
         summaries : Seq(Calls), base : [Contacts -> Seq(Calls)], read : Nat, loaded : Nat]

NoDocument == [k \in Contacts |-> <<>>]

Idle == [at |-> "idle", contact |-> None, summaries |-> <<>>, base |-> NoDocument,
         read |-> 0, loaded |-> 0]

TypeOK ==
    /\ tracked \in [Followups -> Statuses \cup {None}]
    /\ appends \subseteq Outcome /\ rows \subseteq Outcome
    /\ doc \in [Contacts -> Seq(Calls)]
    /\ call \in [Calls -> Call]
    /\ landed \in Seq(Calls)

Init ==
    /\ tracked = [f \in Followups |-> None] /\ appends = {} /\ rows = {}
    /\ doc = NoDocument /\ call = [c \in Calls |-> Idle] /\ landed = <<>>

-----------------------------------------------------------------------------
(* Follow-up outcomes *)

allowedTransitions ==
    [detected |-> {"drafted", "dismissed", "escalated"},
     drafted  |-> {"approved", "dismissed", "escalated"},
     approved |-> {"sent", "escalated"},
     sent |-> {}, escalated |-> {}, dismissed |-> {}]

\* A follow-up nothing is known of may start with any status.
Allowed(f, s) == tracked[f] # None => s \in allowedTransitions[tracked[f]]

\* trackFollowupOutcome, up to its await: the check and the map are one step.
Track(f, s) ==
    /\ Allowed(f, s)
    /\ tracked' = [tracked EXCEPT ![f] = s]
    /\ appends' = appends \cup {[followup |-> f, status |-> s]}
    /\ UNCHANGED <<rows, memoryVars>>

\* Appends that are in flight together are answered in any order.
AppendLands(o) ==
    /\ o \in appends
    /\ appends' = appends \ {o} /\ rows' = rows \cup {o}
    /\ UNCHANGED <<tracked, memoryVars>>

\* Mutant: a caller whose append failed may try again from the beginning.
AppendFailsForgets(o) ==
    /\ o \in appends
    /\ appends' = appends \ {o}
    /\ rows' = rows \/ rows' = rows \cup {o}
    /\ tracked' = [tracked EXCEPT ![o.followup] = None]
    /\ UNCHANGED memoryVars

\* The append throws, whether its row is there or not; the map keeps the status.
AppendFails(o) ==
    /\ o \in appends
    /\ appends' = appends \ {o}
    /\ rows' = rows \/ rows' = rows \cup {o}
    /\ UNCHANGED <<tracked, memoryVars>>

-----------------------------------------------------------------------------
(* Relationships *)

\* Mutant: the first ones are kept.
Oldest(s) == SubSeq(s, 1, IF Len(s) <= MAX_SUMMARIES THEN Len(s) ELSE MAX_SUMMARIES)

\* slice(-MAX_SUMMARIES)
Latest(s) == IF Len(s) <= MAX_SUMMARIES THEN s
             ELSE SubSeq(s, Len(s) - MAX_SUMMARIES + 1, Len(s))

\* getRelationship, and the summaries that recordInteraction makes of it.
ReadContact(c, k) ==
    /\ call[c].at = "idle"
    /\ call' = [call EXCEPT ![c] = [Idle EXCEPT
                   !.at = "loading", !.contact = k, !.summaries = Latest(Append(doc[k], c)),
                   !.read = Len(landed)]]
    /\ UNCHANGED <<doc, landed, outcomeVars>>

\* saveRelationship reads the document a second time, to put it back.
Load(c) ==
    /\ call[c].at = "loading"
    /\ call' = [call EXCEPT ![c].at = "putting", ![c].base = doc, ![c].loaded = Len(landed)]
    /\ UNCHANGED <<doc, landed, outcomeVars>>

\* The put replaces the document; its acknowledgement may be lost.
Put(c) ==
    /\ call[c].at = "putting"
    /\ doc' = [call[c].base EXCEPT ![call[c].contact] = call[c].summaries]
    /\ landed' = Append(landed, c)
    /\ \E at \in {"done", "failed"} : call' = [call EXCEPT ![c].at = at]
    /\ UNCHANGED outcomeVars

Fail(c) ==
    /\ call[c].at \in {"loading", "putting"}
    /\ call' = [call EXCEPT ![c].at = "failed"]
    /\ UNCHANGED <<doc, landed, outcomeVars>>

-----------------------------------------------------------------------------
\* The map of the process is gone, and with it every call in flight.  The rows
\* of an earlier life stay in the log and are not told apart any more.
Restart ==
    /\ tracked' = [f \in Followups |-> None] /\ appends' = {} /\ rows' = {}
    /\ call' = [c \in Calls |->
                   IF call[c].at \in {"loading", "putting"} THEN [call[c] EXCEPT !.at = "failed"]
                   ELSE call[c]]
    /\ UNCHANGED <<doc, landed>>

Next ==
    \/ \E f \in Followups, s \in Statuses : Track(f, s)
    \/ \E o \in Outcome : AppendLands(o) \/ AppendFails(o)
    \/ \E c \in Calls : (\E k \in Contacts : ReadContact(c, k)) \/ Load(c) \/ Put(c) \/ Fail(c)
    \/ Restart

Spec == Init /\ [][Next]_vars

-----------------------------------------------------------------------------
(* Properties *)

Leads(s, t) ==
    \/ t \in allowedTransitions[s]
    \/ \E u \in allowedTransitions[s] :
          \/ t \in allowedTransitions[u]
          \/ \E v \in allowedTransitions[u] : t \in allowedTransitions[v]

OnOnePath(s, t) == s = t \/ Leads(s, t) \/ Leads(t, s)

\* Whatever the order in which appends are answered, and whichever of them fail
\* after their row was written, the outcomes one process has appended for one
\* follow-up lie on one path of allowedTransitions: the log never says both sent
\* and dismissed, and none of them is beyond what the process tracks.
OutcomesArePaths ==
    \A o \in rows \cup appends :
       /\ tracked[o.followup] # None
       /\ o.status = tracked[o.followup] \/ Leads(o.status, tracked[o.followup])
       /\ \A p \in rows \cup appends : p.followup = o.followup => OnOnePath(o.status, p.status)

\* A call that landed after the i-th one and had read what it replaces before:
\* its contact's summaries at its first read, the other contacts at its second.
Overtaken(i) ==
    \E j \in i + 1 .. Len(landed) :
       IF call[landed[j]].contact = call[landed[i]].contact
       THEN call[landed[j]].read < i
       ELSE call[landed[j]].loaded < i

Later(c, i) == \E j \in i + 1 .. Len(landed) : c = landed[j]

HasOf(s, i) ==
    \/ \E n \in DOMAIN s : s[n] = landed[i]
    \/ Len(s) = MAX_SUMMARIES /\ \A n \in DOMAIN s : Later(s[n], i)

\* An interaction that is on record stays there until MAX_SUMMARIES later ones
\* with the same contact have replaced it, unless a concurrent call overtook it:
\* one with the same contact since its first read, one with another contact
\* since its second.
InteractionsAreKept ==
    \A i \in DOMAIN landed : Overtaken(i) \/ HasOf(doc[call[landed[i]].contact], i)
=============================================================================
