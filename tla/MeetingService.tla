--------------------------- MODULE MeetingService ---------------------------
(***************************************************************************)
(* The meeting service of one session: internal/meeting/service.go over    *)
(* internal/meeting/repository.go and the tables of migrations 003 and     *)
(* 004.  Every goroutine that handles a WebSocket message may be inside    *)
(* one service call; calls of different goroutines interleave between the  *)
(* SQL statements, because no operation opens a transaction.  A step is    *)
(* one SQL statement together with the Go code up to the next one.         *)
(*                                                                         *)
(* Abstracted: display names, the columns joined_at and left_at, event     *)
(* payload encoding, error texts.  A call's outcome is "ok" or "err".      *)
(***************************************************************************)
EXTENDS Naturals, Sequences, FiniteSets

CONSTANTS
    Calls,      \* goroutines that call the service
    Users,      \* auth_user ids
    Times,      \* instants a caller may pass as `at`
    NoTime,     \* SQL NULL in a timestamp column
    JoinRoles,  \* roles that callers join with
    NoUser,     \* no user: the operation has no user argument
    DBErrors,   \* may a SQL statement fail?
    MaxRows,    \* bound: meeting_participant rows
    MaxEvents   \* bound: meeting_events rows

ASSUME DistinctNulls == NoTime \notin Times /\ NoUser \notin Users
ASSUME RolesKnown    == JoinRoles \subseteq {"host", "co-host", "participant", "guest"}
ASSUME DBErrorsType  == DBErrors \in BOOLEAN
ASSUME BoundsType    == MaxRows \in Nat /\ MaxEvents \in Nat

VARIABLES
    status,     \* session.meeting_status
    startedAt,  \* session.meeting_started_at
    endedAt,    \* session.meeting_ended_at
    rows,       \* meeting_participant, in order of meeting_participant_id
    audit,      \* meeting_events, in order of meeting_event_id
    pc,         \* where each goroutine is inside the service
    arg,        \* the arguments of its call
    seen,       \* the status its GetStatus returned
    res         \* how its last call ended

db    == <<status, startedAt, endedAt, rows, audit>>
local == <<pc, arg, seen, res>>
vars  == <<db, local>>

-----------------------------------------------------------------------------
(* Types *)

Status == {"created", "active", "paused", "ended", "cancelled"}
Role   == {"host", "co-host", "participant", "guest"}
Row    == [user : Users, role : Role, active : BOOLEAN]

Startable == {"created", "paused"}
Endable   == {"active", "paused", "created"}
Enders    == {"host", "co-host"}

StatusChanged(from, to) ==
    [type |-> "meeting_status_changed", from |-> from, to |-> to]
ParticipantJoined(u) ==
    [type |-> "participant_joined", user |-> u]
ParticipantLeft(u) ==
    [type |-> "participant_left", user |-> u]

Event == [type : {"meeting_status_changed"}, from : Status, to : Status]
    \cup [type : {"participant_joined", "participant_left"}, user : Users]

Step == {"idle", "status_read", "start_read", "start_write", "start_log",
         "end_read", "end_write", "end_log", "role_read",
         "join_find", "join_insert", "join_log",
         "leave_update", "leave_log"}

Arg   == [user : Users \cup {NoUser}, role : Role, at : Times \cup {NoTime}]
NoArg == [user |-> NoUser, role |-> "guest", at |-> NoTime]

TablesOK ==
    /\ status \in Status
    /\ startedAt \in Times \cup {NoTime}
    /\ endedAt \in Times \cup {NoTime}
    /\ rows \in Seq(Row)
    /\ audit \in Seq(Event)

CallsOK ==
    /\ pc \in [Calls -> Step]
    /\ arg \in [Calls -> Arg]
    /\ seen \in [Calls -> Status]
    /\ res \in [Calls -> {"ok", "err"}]

\* The tables hold rows of their schema, every call is at a known statement
\* with arguments of the operation's types.
TypeOK == TablesOK /\ CallsOK

-----------------------------------------------------------------------------
(* The tables *)

\* MUTANT of Stamp: the UPDATE without COALESCE.
Stamp_Overwrites(column, at) == at

\* COALESCE(column, at)
Stamp(column, at) == IF column = NoTime THEN at ELSE column

\* The rows GetActiveParticipantByAuthUserID and LeaveParticipant select.
ActiveRows(u) == {i \in DOMAIN rows : rows[i].user = u /\ rows[i].active}

\* Only the bounds limit how far a meeting can grow: every call in progress
\* may still add one event, and every Join one row.
Busy       == {c \in Calls : pc[c] # "idle"}
EventsLeft == Len(audit) + Cardinality(Busy) < MaxEvents
RowsLeft   == Len(rows) + Cardinality(Busy) < MaxRows

SetStatusActive(at) ==
    /\ status' = "active"
    /\ startedAt' = Stamp(startedAt, at)
    /\ UNCHANGED <<endedAt, rows, audit>>

\* MUTANT of SetStatusEnded: the UPDATE forgets meeting_ended_at.
SetStatusEnded_NoStamp(at) ==
    /\ status' = "ended"
    /\ UNCHANGED <<startedAt, endedAt, rows, audit>>

\* MUTANT of SetStatusEnded: a status code the Go constants do not have.
SetStatusEnded_WrongCode(at) ==
    /\ status' = "completed"
    /\ endedAt' = Stamp(endedAt, at)
    /\ UNCHANGED <<startedAt, rows, audit>>

SetStatusEnded(at) ==
    /\ status' = "ended"
    /\ endedAt' = Stamp(endedAt, at)
    /\ UNCHANGED <<startedAt, rows, audit>>

\* MUTANT of InsertRow: the unique index of migration 004 is missing.
InsertRow_NoIndex(u, r) ==
    /\ rows' = Append(rows, [user |-> u, role |-> r, active |-> TRUE])
    /\ UNCHANGED <<status, startedAt, endedAt, audit>>

\* The partial unique index uq_meeting_participant_active_auth_user rejects a
\* second active row of a user.
InsertRow(u, r) ==
    /\ ActiveRows(u) = {}
    /\ rows' = Append(rows, [user |-> u, role |-> r, active |-> TRUE])
    /\ UNCHANGED <<status, startedAt, endedAt, audit>>

DeactivateRows(u) ==
    /\ ActiveRows(u) # {}
    /\ rows' = [i \in DOMAIN rows |->
                   IF i \in ActiveRows(u) THEN [rows[i] EXCEPT !.active = FALSE]
                                          ELSE rows[i]]
    /\ UNCHANGED <<status, startedAt, endedAt, audit>>

AppendEvent(e) ==
    /\ audit' = Append(audit, e)
    /\ UNCHANGED <<status, startedAt, endedAt, rows>>

-----------------------------------------------------------------------------
(* Control of one call *)

Init ==
    /\ status = "created" /\ startedAt = NoTime /\ endedAt = NoTime
    /\ rows = <<>> /\ audit = <<>>
    /\ pc = [c \in Calls |-> "idle"]
    /\ arg = [c \in Calls |-> NoArg]
    /\ seen = [c \in Calls |-> "created"]
    /\ res = [c \in Calls |-> "ok"]

Enter(c, step, a) ==
    /\ pc[c] = "idle"
    /\ EventsLeft
    /\ pc' = [pc EXCEPT ![c] = step]
    /\ arg' = [arg EXCEPT ![c] = a]
    /\ UNCHANGED <<db, seen, res>>

Goto(c, step) ==
    /\ pc' = [pc EXCEPT ![c] = step]
    /\ UNCHANGED <<arg, seen, res>>

\* The call returns: its result stays in res[c] for the caller.
Finish(c, r) ==
    /\ pc' = [pc EXCEPT ![c] = "idle"]
    /\ res' = [res EXCEPT ![c] = r]
    /\ arg' = [arg EXCEPT ![c] = NoArg]
    /\ seen' = [seen EXCEPT ![c] = "created"]

\* The statement reports an error to its caller.  A write that reports an
\* error may have reached the database all the same.
Fails(c) == DBErrors /\ Finish(c, "err")

-----------------------------------------------------------------------------
(* GetStatus and RequireRole: one read each *)

GetStatus(c) == Enter(c, "status_read", NoArg)

StatusRead(c) ==
    /\ pc[c] = "status_read"
    /\ UNCHANGED db
    /\ \/ /\ seen' = [seen EXCEPT ![c] = status]
          /\ pc' = [pc EXCEPT ![c] = "idle"]
          /\ res' = [res EXCEPT ![c] = "ok"]
          /\ UNCHANGED arg
       \/ Fails(c)

RequireRole(c, u) == Enter(c, "role_read", [NoArg EXCEPT !.user = u])

RoleRead(c) ==
    /\ pc[c] = "role_read"
    /\ UNCHANGED db
    /\ \/ Finish(c, IF \E i \in ActiveRows(arg[c].user) : rows[i].role \in Enders
                       THEN "ok" ELSE "err")
       \/ Fails(c)

-----------------------------------------------------------------------------
(* StartMeeting: read the status, check it, write it, log it *)

StartMeeting(c, at) == Enter(c, "start_read", [NoArg EXCEPT !.at = at])

\* MUTANT of StartRead: the transition is not validated.
StartRead_AnyStatus(c) ==
    /\ pc[c] = "start_read"
    /\ UNCHANGED db
    /\ seen' = [seen EXCEPT ![c] = status]
    /\ pc' = [pc EXCEPT ![c] = "start_write"]
    /\ UNCHANGED <<arg, res>>

StartRead(c) ==
    /\ pc[c] = "start_read"
    /\ UNCHANGED db
    /\ \/ /\ status \in Startable
          /\ seen' = [seen EXCEPT ![c] = status]
          /\ pc' = [pc EXCEPT ![c] = "start_write"]
          /\ UNCHANGED <<arg, res>>
       \/ status \notin Startable /\ Finish(c, "err")    \* ErrInvalidTransition
       \/ Fails(c)

StartWrite(c) ==
    /\ pc[c] = "start_write"
    /\ \/ SetStatusActive(arg[c].at) /\ (Goto(c, "start_log") \/ Fails(c))
       \/ UNCHANGED db /\ Fails(c)

\* The error of AppendEvent is dropped.
StartLog(c) ==
    /\ pc[c] = "start_log"
    /\ Finish(c, "ok")
    /\ \/ AppendEvent(StatusChanged(seen[c], "active"))
       \/ DBErrors /\ UNCHANGED db

-----------------------------------------------------------------------------
(* EndMeeting *)

EndMeeting(c, at) == Enter(c, "end_read", [NoArg EXCEPT !.at = at])

EndRead(c) ==
    /\ pc[c] = "end_read"
    /\ UNCHANGED db
    /\ \/ /\ status \in Endable
          /\ seen' = [seen EXCEPT ![c] = status]
          /\ pc' = [pc EXCEPT ![c] = "end_write"]
          /\ UNCHANGED <<arg, res>>
       \/ status \notin Endable /\ Finish(c, "err")      \* ErrInvalidTransition
       \/ Fails(c)

EndWrite(c) ==
    /\ pc[c] = "end_write"
    /\ \/ SetStatusEnded(arg[c].at) /\ (Goto(c, "end_log") \/ Fails(c))
       \/ UNCHANGED db /\ Fails(c)

EndLog(c) ==
    /\ pc[c] = "end_log"
    /\ Finish(c, "ok")
    /\ \/ AppendEvent(StatusChanged(seen[c], "ended"))
       \/ DBErrors /\ UNCHANGED db

-----------------------------------------------------------------------------
(* Join: an active row of the user is returned as it is, whatever role the *)
(* caller asked for; otherwise a row is inserted.                          *)

Join(c, u, r) ==
    /\ RowsLeft
    /\ Enter(c, "join_find", [NoArg EXCEPT !.user = u, !.role = r])

\* An error of the lookup is taken for "no active row".
JoinFind(c) ==
    /\ pc[c] = "join_find"
    /\ UNCHANGED db
    /\ \/ ActiveRows(arg[c].user) # {} /\ Goto(c, "join_log")
       \/ (ActiveRows(arg[c].user) = {} \/ DBErrors) /\ Goto(c, "join_insert")

\* MUTANT of JoinInsert: a conflict is answered by looking the row up again.
JoinInsert_Retries(c) ==
    /\ pc[c] = "join_insert"
    /\ \/ InsertRow(arg[c].user, arg[c].role) /\ Goto(c, "join_log")
       \/ ActiveRows(arg[c].user) # {} /\ UNCHANGED db /\ Goto(c, "join_find")

JoinInsert(c) ==
    /\ pc[c] = "join_insert"
    /\ \/ InsertRow(arg[c].user, arg[c].role) /\ (Goto(c, "join_log") \/ Fails(c))
       \/ ActiveRows(arg[c].user) # {} /\ UNCHANGED db /\ Finish(c, "err")
       \/ UNCHANGED db /\ Fails(c)

JoinLog(c) ==
    /\ pc[c] = "join_log"
    /\ Finish(c, "ok")
    /\ \/ AppendEvent(ParticipantJoined(arg[c].user))
       \/ DBErrors /\ UNCHANGED db

-----------------------------------------------------------------------------
(* Leave *)

Leave(c, u) == Enter(c, "leave_update", [NoArg EXCEPT !.user = u])

\* MUTANT of LeaveUpdate: RowsAffected is not looked at.
LeaveUpdate_ZeroRows(c) ==
    /\ pc[c] = "leave_update"
    /\ Goto(c, "leave_log")
    /\ \/ DeactivateRows(arg[c].user)
       \/ ActiveRows(arg[c].user) = {} /\ UNCHANGED db

LeaveUpdate(c) ==
    /\ pc[c] = "leave_update"
    /\ \/ DeactivateRows(arg[c].user) /\ (Goto(c, "leave_log") \/ Fails(c))
       \/ ActiveRows(arg[c].user) = {} /\ UNCHANGED db /\ Finish(c, "err")
       \/ UNCHANGED db /\ Fails(c)

LeaveLog(c) ==
    /\ pc[c] = "leave_log"
    /\ Finish(c, "ok")
    /\ \/ AppendEvent(ParticipantLeft(arg[c].user))
       \/ DBErrors /\ UNCHANGED db

-----------------------------------------------------------------------------
(* The specification *)

\* A request enters the service.
Call(c) ==
    \/ GetStatus(c)
    \/ \E at \in Times : StartMeeting(c, at) \/ EndMeeting(c, at)
    \/ \E u \in Users : RequireRole(c, u) \/ Leave(c, u)
    \/ \E u \in Users, r \in JoinRoles : Join(c, u, r)

\* A goroutine inside the service executes its next statement.
Advance(c) ==
    \/ StatusRead(c) \/ RoleRead(c)
    \/ StartRead(c) \/ StartWrite(c) \/ StartLog(c)
    \/ EndRead(c) \/ EndWrite(c) \/ EndLog(c)
    \/ JoinFind(c) \/ JoinInsert(c) \/ JoinLog(c)
    \/ LeaveUpdate(c) \/ LeaveLog(c)

Next == \E c \in Calls : Call(c) \/ Advance(c)

Spec == Init /\ [][Next]_vars

\* The Go scheduler runs every goroutine and the database answers or fails
\* every statement; callers need not call.
FairSpec == Spec /\ \A c \in Calls : WF_vars(Advance(c))

-----------------------------------------------------------------------------
(* Properties *)

\* A user never has two active rows in meeting_participant, although Join
\* looks for an active row in one statement and inserts in another.
OneActiveRow == \A u \in Users : Cardinality(ActiveRows(u)) <= 1

\* The status of the session row and its two stamps tell one story, however
\* the unconditional UPDATEs of racing calls are ordered: no stamp before the
\* first transition, an active meeting has been started, an ended one ended,
\* and only a meeting that ended or was started has left 'created'.
StampsAgree ==
    /\ status = "created" => startedAt = NoTime /\ endedAt = NoTime
    /\ status = "active"  => startedAt # NoTime
    /\ status = "ended"   => endedAt # NoTime
    /\ status \in {"created", "active", "ended"}

\* COALESCE keeps the first stamp: no later transition, not even a racing
\* second start or end of the meeting, moves the recorded beginning or end.
StampsSetOnce ==
    [][ /\ startedAt # NoTime => startedAt' = startedAt
        /\ endedAt # NoTime => endedAt' = endedAt ]_db

\* An ended meeting, with no StartMeeting call between its status check and its
\* UPDATE, is over for good.
Settled      == status = "ended" /\ \A c \in Calls : pc[c] # "start_write"
EndedIsFinal == [][Settled => Settled']_vars

\* The audit log claims nothing that did not happen: a logged transition has
\* left its stamp, a logged join a row of the user and a logged leave an
\* inactive row of the user, whatever other calls did since.
AuditSound ==
    \A i \in DOMAIN audit : LET e == audit[i] IN
        /\ e.type = "meeting_status_changed" =>
              IF e.to = "active" THEN startedAt # NoTime ELSE endedAt # NoTime
        /\ e.type = "participant_joined" =>
              \E j \in DOMAIN rows : rows[j].user = e.user
        /\ e.type = "participant_left" =>
              \E j \in DOMAIN rows : rows[j].user = e.user /\ ~rows[j].active

\* What a call in progress has already done: the arguments its statements need
\* are there, and a call about to log has made the change it is going to log.
InFlightAgree ==
    \A c \in Calls :
        /\ pc[c] \in {"start_read", "start_write", "end_read", "end_write"} =>
              arg[c].at \in Times
        /\ pc[c] \in {"join_find", "join_insert", "join_log",
                      "leave_update", "leave_log"} => arg[c].user \in Users
        /\ pc[c] = "start_log" => startedAt # NoTime
        /\ pc[c] = "end_log" => endedAt # NoTime
        /\ pc[c] = "join_log" =>
              \E j \in DOMAIN rows : rows[j].user = arg[c].user
        /\ pc[c] = "leave_log" =>
              \E j \in DOMAIN rows : rows[j].user = arg[c].user /\ ~rows[j].active

\* The inductive invariant behind StampsAgree and AuditSound.
IInv == TypeOK /\ StampsAgree /\ InFlightAgree /\ AuditSound

\* Leaves of one user race for one row, and the log does not name the row: no
\* departure is logged twice, by calls that have finished or are about to log.
LeavesAccounted ==
    Cardinality({i \in DOMAIN audit : audit[i].type = "participant_left"})
        + Cardinality({c \in Calls : pc[c] = "leave_log"})
            <= Cardinality({i \in DOMAIN rows : ~rows[i].active})

\* The rule of the state machine read as it is written: a meeting that has
\* ended is never active again.
NeverRevived == status = "active" => endedAt = NoTime

\* No call is stuck or loops in the service: its caller, a goroutine in the
\* middle of a WebSocket handler, always goes on.
CallsReturn == \A c \in Calls : pc[c] # "idle" ~> pc[c] = "idle"

-----------------------------------------------------------------------------
(* The service against what it promises *)

\* A caller between the check of the status and the UPDATE has been granted the
\* transition.
Intent(step) == CASE step = "start_write" -> "start"
                  [] step = "end_write"   -> "end"
                  [] OTHER                -> "none"

Lifecycle == INSTANCE MeetingLifecycle WITH intent <- [c \in Calls |-> Intent(pc[c])]

\* However many callers there are and however their statements interleave and
\* fail, every UPDATE of the status belongs to one call that found the
\* transition legal, and no call makes two.
ImplementsLifecycle == Lifecycle!Spec
=============================================================================
