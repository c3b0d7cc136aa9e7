---------------------------- MODULE MCFollowups ----------------------------
EXTENDS Followups

Message(title, excerpt, owner) ==
    [title |-> title, excerpt |-> excerpt, owner |-> owner, flagged |-> FALSE]

MCMessages ==
    {Message({"pricing"}, {"client"}, Absent),
     Message({"status update"}, {"waiting on"}, Absent),
     Message({}, {"urgent"}, "ann"),
     Message({"please"}, {"client", "deadline"}, "unknown"),
     Message({"package"}, {"status:prospect", "send proposal"}, Absent),
     Message({}, {"all set"}, Absent),
     [Message({"please"}, {}, Absent) EXCEPT !.flagged = TRUE]}

Meeting(excerpt, organizer, start) ==
    [title |-> {"meeting"}, excerpt |-> excerpt, organizer |-> organizer,
     start |-> start, flagged |-> FALSE]

MCEvents ==
    {Meeting({}, Absent, 100), Meeting({}, "bob", 20), Meeting({"missed"}, "bob", Absent),
     Meeting({"meeting occurred"}, Absent, Absent), Meeting({"meeting occurred", "recap sent"}, "unknown", Absent)}

State(excerpt, owner, account, deal) ==
    [title |-> {}, excerpt |-> excerpt, owner |-> owner, account |-> account,
     deal |-> deal, flagged |-> FALSE]

MCStates ==
    {State({"status:client"}, Absent, Absent, Absent),
     State({"status:client", "next step"}, "bob", Absent, Absent),
     State({"status:client"}, "escalation:client-success", Absent, Absent),
     State({"status:prospect"}, "team", "team", "cy"),
     State({"next step"}, Absent, Absent, Absent),
     State({"status:client", "reply sent after meeting"}, "bob", Absent, Absent),
     State({"status:closed"}, Absent, Absent, Absent)}

MCQueues == {"escalation:sales", "escalation:client-success",
             "escalation:meeting-owner-review", "escalation:unassigned-review"}
=============================================================================
