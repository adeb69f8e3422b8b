-------------------------- MODULE MeetingLifecycle --------------------------
(***************************************************************************)
(* What the meeting service promises of the status of a meeting and of its *)
(* two stamps, to any number of callers at once: a transition takes effect *)
(* at most once for every call that found it legal, some time after the    *)
(* moment at which it was.  The statuses and the legal transitions are     *)
(* those of internal/meeting/service.go.  That a transition is legal when  *)
(* it takes effect is not promised: MeetingServiceProofs shows it for      *)
(* callers that do not overlap, and the run meeting_revived refutes it for *)
(* those that do.                                                          *)
(***************************************************************************)
CONSTANTS
    Calls,   \* the callers of the service
    Times,   \* the instants a transition may be stamped with
    NoTime   \* SQL NULL in a timestamp column

VARIABLES
    status,     \* session.meeting_status
    startedAt,  \* session.meeting_started_at
    endedAt,    \* session.meeting_ended_at
    intent      \* the transition each caller has been granted

lifecycle == <<status, startedAt, endedAt, intent>>

Status == {"created", "active", "paused", "ended", "cancelled"}

\* StartMeeting accepts a meeting in one of these statuses, EndMeeting in one
\* of those.
Startable == {"created", "paused"}
Endable   == {"active", "paused", "created"}

\* COALESCE(column, at): a stamp is written once.
Stamp(column, at) == IF column = NoTime THEN at ELSE column

\* A new session row (migration 003: DEFAULT 'created', both stamps NULL).
Init ==
    /\ status = "created"
    /\ startedAt = NoTime
    /\ endedAt = NoTime
    /\ intent = [c \in Calls |-> "none"]

Grant(c, transition, from) ==
    /\ intent[c] = "none"
    /\ status \in from
    /\ intent' = [intent EXCEPT ![c] = transition]
    /\ UNCHANGED <<status, startedAt, endedAt>>

Start(c, at) ==
    /\ intent[c] = "start"
    /\ status' = "active"
    /\ startedAt' = Stamp(startedAt, at)
    /\ intent' = [intent EXCEPT ![c] = "none"]
    /\ UNCHANGED endedAt

End(c, at) ==
    /\ intent[c] = "end"
    /\ status' = "ended"
    /\ endedAt' = Stamp(endedAt, at)
    /\ intent' = [intent EXCEPT ![c] = "none"]
    /\ UNCHANGED startedAt

\* The caller is told of an error, and the transition does not happen.
GiveUp(c) ==
    /\ intent[c] # "none"
    /\ intent' = [intent EXCEPT ![c] = "none"]
    /\ UNCHANGED <<status, startedAt, endedAt>>

Next == \E c \in Calls :
    \/ Grant(c, "start", Startable)
    \/ Grant(c, "end", Endable)
    \/ GiveUp(c)
    \/ \E at \in Times : Start(c, at) \/ End(c, at)

Spec == Init /\ [][Next]_lifecycle
=============================================================================
