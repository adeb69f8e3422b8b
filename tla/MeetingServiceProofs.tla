------------------------ MODULE MeetingServiceProofs ------------------------
(***************************************************************************)
(* Theorems about MeetingService, for every set of goroutines, users and   *)
(* instants, with and without database errors.                             *)
(***************************************************************************)
EXTENDS MeetingService, FiniteSetTheorems, TLAPS

-----------------------------------------------------------------------------
(* What the statements do to the tables *)

\* A stamp that is set stays, one that is not takes the given instant.
LEMMA StampLemma ==
    ASSUME NEW column \in Times \cup {NoTime}, NEW at \in Times
    PROVE  /\ Stamp(column, at) \in Times
           /\ Stamp(column, at) # NoTime
           /\ column # NoTime => Stamp(column, at) = column
  BY DistinctNulls DEF Stamp

\* Inserting a row keeps the old rows where they are.
LEMMA InsertLemma ==
    ASSUME TablesOK, NEW u \in Users, NEW r \in Role, InsertRow(u, r)
    PROVE  /\ rows' \in Seq(Row)
           /\ DOMAIN rows \subseteq DOMAIN rows'
           /\ \A i \in DOMAIN rows : rows'[i] = rows[i]
           /\ \E i \in DOMAIN rows' : rows'[i].user = u
  <1>. DEFINE row == [user |-> u, role |-> r, active |-> TRUE]
  <1>1. rows \in Seq(Row) /\ row \in Row /\ rows' = Append(rows, row)
    BY DEF TablesOK, InsertRow, Row
  <1>2. rows' \in Seq(Row) /\ Len(rows') = Len(rows) + 1
    BY <1>1
  <1>3. \A i \in 1..Len(rows) : rows'[i] = rows[i]
    BY <1>1
  <1>4. rows'[Len(rows) + 1] = row
    BY <1>1
  <1>. QED BY <1>1, <1>2, <1>3, <1>4

\* Deactivating keeps every row's place and user, and inactive rows inactive.
LEMMA DeactivateLemma ==
    ASSUME TablesOK, NEW u \in Users, DeactivateRows(u)
    PROVE  /\ rows' \in Seq(Row)
           /\ DOMAIN rows' = DOMAIN rows
           /\ \A i \in DOMAIN rows : /\ rows'[i].user = rows[i].user
                                     /\ rows'[i].active => rows[i].active
           /\ \E i \in DOMAIN rows' : rows'[i].user = u /\ ~rows'[i].active
  <1>1. rows \in Seq(Row) /\ DOMAIN rows = 1..Len(rows) /\ Len(rows) \in Nat
    BY DEF TablesOK
  <1>2. /\ DOMAIN rows' = DOMAIN rows
        /\ \A i \in DOMAIN rows :
              rows'[i] = IF i \in ActiveRows(u) THEN [rows[i] EXCEPT !.active = FALSE]
                                                ELSE rows[i]
    BY DEF DeactivateRows
  <1>3. \A i \in DOMAIN rows : rows[i] \in Row
    BY <1>1
  <1>4. \A i \in DOMAIN rows : /\ rows'[i] \in Row
                               /\ rows'[i].user = rows[i].user
                               /\ rows'[i].active => rows[i].active
    BY <1>2, <1>3 DEF Row
  <1>5. rows' \in Seq(Row)
    <2>1. rows' = [i \in 1..Len(rows) |-> rows'[i]]
      BY <1>1 DEF DeactivateRows
    <2>. QED BY <2>1, <1>1, <1>4
  <1>6. PICK i \in ActiveRows(u) : TRUE
    BY DEF DeactivateRows
  <1>7. i \in DOMAIN rows /\ rows'[i].user = u /\ ~rows'[i].active
    BY <1>6, <1>2, <1>3 DEF ActiveRows, Row
  <1>. QED BY <1>2, <1>4, <1>5, <1>7

\* Appending to the log keeps the old entries where they are.
LEMMA AppendLemma ==
    ASSUME TablesOK, NEW e \in Event, AppendEvent(e)
    PROVE  /\ audit' \in Seq(Event)
           /\ DOMAIN audit' = DOMAIN audit \cup {Len(audit) + 1}
           /\ \A i \in DOMAIN audit : audit'[i] = audit[i]
           /\ audit'[Len(audit) + 1] = e
  <1>1. audit \in Seq(Event) /\ audit' = Append(audit, e)
    BY DEF TablesOK, AppendEvent
  <1>2. audit' \in Seq(Event) /\ Len(audit') = Len(audit) + 1
    BY <1>1
  <1>3. DOMAIN audit = 1..Len(audit) /\ DOMAIN audit' = 1..(Len(audit) + 1)
    BY <1>1, <1>2
  <1>. QED BY <1>1, <1>2, <1>3

-----------------------------------------------------------------------------
(* Type correctness *)

\* Every step keeps the local variables of the calls typed.
LEMMA CallsStep == TypeOK /\ [Next]_vars => CallsOK'
  <1>. SUFFICES ASSUME CallsOK, TablesOK, [Next]_vars
                PROVE  CallsOK'
    BY DEF TypeOK
  <1>1. ASSUME NEW c \in Calls, NEW step \in Step, Goto(c, step)
        PROVE  CallsOK'
    BY <1>1 DEF CallsOK, Goto
  <1>2. ASSUME NEW c \in Calls, NEW r \in {"ok", "err"}, Finish(c, r)
        PROVE  CallsOK'
    <2>1. "idle" \in Step
      BY DEF Step
    <2>. QED BY <1>2, <2>1 DEF CallsOK, Finish, Arg, NoArg, Role, Status
  <1>3. ASSUME NEW c \in Calls, NEW step \in Step, NEW a \in Arg, Enter(c, step, a)
        PROVE  CallsOK'
    BY <1>3 DEF CallsOK, Enter
  <1>4. ASSUME NEW c \in Calls, Fails(c)
        PROVE  CallsOK'
    BY <1>2, <1>4 DEF Fails
  <1>5. ASSUME NEW c \in Calls, NEW step \in Step,
               pc' = [pc EXCEPT ![c] = step],
               seen' = [seen EXCEPT ![c] = status],
               arg' = arg, res' = res \/ res' = [res EXCEPT ![c] = "ok"]
        PROVE  CallsOK'
    BY <1>5 DEF CallsOK, TablesOK
  <1>6. CASE UNCHANGED vars
    BY <1>6 DEF CallsOK, vars, local
  <1>7. ASSUME NEW c \in Calls, Call(c)
        PROVE  CallsOK'
    <2>. USE <1>3 DEF Step
    <2>1. NoArg \in Arg
      BY DEF NoArg, Arg, Role
    <2>2. \A at \in Times : [NoArg EXCEPT !.at = at] \in Arg
      BY <2>1 DEF NoArg, Arg
    <2>3. \A u \in Users : [NoArg EXCEPT !.user = u] \in Arg
      BY <2>1 DEF NoArg, Arg
    <2>4. \A u \in Users, r \in JoinRoles : [NoArg EXCEPT !.user = u, !.role = r] \in Arg
      BY <2>1, RolesKnown DEF NoArg, Arg, Role
    <2>5. CASE GetStatus(c)
      BY <2>1, <2>5 DEF GetStatus
    <2>6. ASSUME NEW at \in Times, StartMeeting(c, at) \/ EndMeeting(c, at)
          PROVE  CallsOK'
      BY <2>2, <2>6 DEF StartMeeting, EndMeeting
    <2>7. ASSUME NEW u \in Users, RequireRole(c, u) \/ Leave(c, u)
          PROVE  CallsOK'
      BY <2>3, <2>7 DEF RequireRole, Leave
    <2>8. ASSUME NEW u \in Users, NEW r \in JoinRoles, Join(c, u, r)
          PROVE  CallsOK'
      BY <2>4, <2>8 DEF Join
    <2>. QED BY <1>7, <2>5, <2>6, <2>7, <2>8 DEF Call
  <1>8. ASSUME NEW c \in Calls, Advance(c)
        PROVE  CallsOK'
    <2>. USE <1>1, <1>2, <1>4, <1>5 DEF Step
    <2>1. CASE StatusRead(c)
      BY <2>1 DEF StatusRead
    <2>2. CASE RoleRead(c)
      BY <2>2 DEF RoleRead
    <2>3. CASE StartRead(c) \/ EndRead(c)
      BY <2>3 DEF StartRead, EndRead
    <2>4. CASE StartWrite(c) \/ EndWrite(c)
      BY <2>4 DEF StartWrite, EndWrite
    <2>5. CASE StartLog(c) \/ EndLog(c) \/ JoinLog(c) \/ LeaveLog(c)
      BY <2>5 DEF StartLog, EndLog, JoinLog, LeaveLog
    <2>6. CASE JoinFind(c)
      BY <2>6 DEF JoinFind
    <2>7. CASE JoinInsert(c)
      BY <2>7 DEF JoinInsert
    <2>8. CASE LeaveUpdate(c)
      BY <2>8 DEF LeaveUpdate
    <2>. QED
      BY <1>8, <2>1, <2>2, <2>3, <2>4, <2>5, <2>6, <2>7, <2>8 DEF Advance
  <1>. QED BY <1>6, <1>7, <1>8 DEF Next

-----------------------------------------------------------------------------
(* What one step may do to the tables *)

\* The call c executes the statement that matches its place in the code.
Writes(c) ==
    \/ pc[c] = "start_write" /\ SetStatusActive(arg[c].at)
    \/ pc[c] = "end_write" /\ SetStatusEnded(arg[c].at)
    \/ pc[c] = "join_insert" /\ InsertRow(arg[c].user, arg[c].role)
    \/ pc[c] = "leave_update" /\ DeactivateRows(arg[c].user)
    \/ pc[c] = "start_log" /\ AppendEvent(StatusChanged(seen[c], "active"))
    \/ pc[c] = "end_log" /\ AppendEvent(StatusChanged(seen[c], "ended"))
    \/ pc[c] = "join_log" /\ AppendEvent(ParticipantJoined(arg[c].user))
    \/ pc[c] = "leave_log" /\ AppendEvent(ParticipantLeft(arg[c].user))

\* A call that is entered or goes on leaves the tables alone or executes its
\* statement.
LEMMA StatementOf ==
    ASSUME NEW c \in Calls, Call(c) \/ Advance(c)
    PROVE  UNCHANGED db \/ Writes(c)
  <1>1. CASE Call(c)
    BY <1>1 DEF Call, GetStatus, StartMeeting, EndMeeting, RequireRole,
                Leave, Join, Enter, db
  <1>2. CASE StatusRead(c) \/ RoleRead(c) \/ StartRead(c) \/ EndRead(c) \/ JoinFind(c)
    BY <1>2 DEF StatusRead, RoleRead, StartRead, EndRead, JoinFind
  <1>3. CASE StartWrite(c) \/ EndWrite(c)
    BY <1>3 DEF StartWrite, EndWrite, Writes
  <1>4. CASE JoinInsert(c) \/ LeaveUpdate(c)
    BY <1>4 DEF JoinInsert, LeaveUpdate, Writes
  <1>5. CASE StartLog(c) \/ EndLog(c) \/ JoinLog(c) \/ LeaveLog(c)
    BY <1>5 DEF StartLog, EndLog, JoinLog, LeaveLog, Writes
  <1>. QED BY <1>1, <1>2, <1>3, <1>4, <1>5 DEF Advance

\* A step leaves the tables alone or executes one statement of one call.
LEMMA OneStatement == [Next]_vars => UNCHANGED db \/ \E c \in Calls : Writes(c)
  BY StatementOf DEF Next, vars

\* Stamps once set, rows and inactivity only accumulate.
Grows ==
    /\ startedAt # NoTime => startedAt' = startedAt
    /\ endedAt # NoTime => endedAt' = endedAt
    /\ \A i \in DOMAIN rows :
          /\ i \in DOMAIN rows'
          /\ rows'[i].user = rows[i].user
          /\ ~rows[i].active => ~rows'[i].active

\* The arguments a call's statements need are there.
ArgsPresent ==
    \A c \in Calls :
        /\ pc[c] \in {"start_read", "start_write", "end_read", "end_write"} =>
              arg[c].at \in Times
        /\ pc[c] \in {"join_find", "join_insert", "join_log",
                      "leave_update", "leave_log"} => arg[c].user \in Users

LEMMA ArgsKnown == InFlightAgree => ArgsPresent
  BY DEF InFlightAgree, ArgsPresent

\* A statement keeps the tables typed and loses nothing recorded in them.
LEMMA TablesStep ==
    ASSUME TypeOK, ArgsPresent, [Next]_vars
    PROVE  TablesOK' /\ Grows
  <1>. USE DEF TypeOK
  <1>0. DOMAIN rows \subseteq DOMAIN rows /\ \A i \in DOMAIN rows : rows[i] \in Row
    BY DEF TablesOK
  <1>1. CASE UNCHANGED db
    BY <1>1 DEF db, TablesOK, Grows
  <1>2. ASSUME NEW c \in Calls, Writes(c)
        PROVE  TablesOK' /\ Grows
    <2>0. arg[c] \in Arg /\ seen[c] \in Status
      BY DEF CallsOK
    <2>1. CASE pc[c] = "start_write" /\ SetStatusActive(arg[c].at)
      <3>1. arg[c].at \in Times
        BY <2>1 DEF ArgsPresent
      <3>. QED BY <2>1, <3>1, StampLemma DEF SetStatusActive, TablesOK, Grows, Status
    <2>2. CASE pc[c] = "end_write" /\ SetStatusEnded(arg[c].at)
      <3>1. arg[c].at \in Times
        BY <2>2 DEF ArgsPresent
      <3>. QED BY <2>2, <3>1, StampLemma DEF SetStatusEnded, TablesOK, Grows, Status
    <2>3. CASE pc[c] = "join_insert" /\ InsertRow(arg[c].user, arg[c].role)
      <3>1. arg[c].user \in Users /\ arg[c].role \in Role
        BY <2>0, <2>3 DEF ArgsPresent, Arg
      <3>2. /\ rows' \in Seq(Row)
            /\ \A i \in DOMAIN rows : i \in DOMAIN rows' /\ rows'[i] = rows[i]
        BY <2>3, <3>1, InsertLemma
      <3>. QED BY <2>3, <3>2 DEF InsertRow, TablesOK, Grows
    <2>4. CASE pc[c] = "leave_update" /\ DeactivateRows(arg[c].user)
      <3>1. arg[c].user \in Users
        BY <2>4 DEF ArgsPresent
      <3>. QED BY <2>4, <3>1, DeactivateLemma DEF DeactivateRows, TablesOK, Grows
    <2>5. ASSUME NEW e \in Event, AppendEvent(e)
          PROVE  TablesOK' /\ Grows
      BY <2>5, AppendLemma DEF AppendEvent, TablesOK, Grows
    <2>6. CASE pc[c] \in {"start_log", "end_log", "join_log", "leave_log"}
      <3>1. \A to \in {"active", "ended"} : StatusChanged(seen[c], to) \in Event
        BY <2>0 DEF StatusChanged, Event, Status
      <3>2. pc[c] \in {"join_log", "leave_log"} =>
              /\ ParticipantJoined(arg[c].user) \in Event
              /\ ParticipantLeft(arg[c].user) \in Event
        BY DEF ArgsPresent, ParticipantJoined, ParticipantLeft, Event
      <3>. QED BY <1>2, <2>5, <2>6, <3>1, <3>2 DEF Writes
    <2>. QED BY <1>2, <2>1, <2>2, <2>3, <2>4, <2>6 DEF Writes
  <1>. QED BY <1>1, <1>2, OneStatement

-----------------------------------------------------------------------------
(* What one step may do to a call *)

\* How a call comes to the statement it is about to execute.
Moves(d) ==
    \/ pc'[d] \in {"idle", "status_read", "role_read"}
    \/ pc'[d] \in {"start_read", "end_read"} /\ arg'[d].at \in Times
    \/ pc'[d] \in {"join_find", "leave_update"} /\ arg'[d].user \in Users
    \/ /\ arg'[d] = arg[d]
       /\ \/ pc[d] = "start_read" /\ pc'[d] = "start_write"
          \/ pc[d] = "end_read" /\ pc'[d] = "end_write"
          \/ pc[d] = "join_find" /\ pc'[d] = "join_insert"
          \/ /\ pc[d] = "start_write" /\ pc'[d] = "start_log"
             /\ SetStatusActive(arg[d].at)
          \/ /\ pc[d] = "end_write" /\ pc'[d] = "end_log"
             /\ SetStatusEnded(arg[d].at)
          \/ /\ pc[d] = "join_find" /\ pc'[d] = "join_log"
             /\ ActiveRows(arg[d].user) # {} /\ UNCHANGED db
          \/ /\ pc[d] = "join_insert" /\ pc'[d] = "join_log"
             /\ InsertRow(arg[d].user, arg[d].role)
          \/ /\ pc[d] = "leave_update" /\ pc'[d] = "leave_log"
             /\ DeactivateRows(arg[d].user)

LEMMA OneCall ==
    ASSUME TypeOK, [Next]_vars, NEW d \in Calls
    PROVE  (pc'[d] = pc[d] /\ arg'[d] = arg[d]) \/ Moves(d)
  <1>. DEFINE Same == pc'[d] = pc[d] /\ arg'[d] = arg[d]
  <1>0. pc \in [Calls -> Step] /\ arg \in [Calls -> Arg]
    BY DEF TypeOK, CallsOK
  <1>1. CASE UNCHANGED vars
    BY <1>1 DEF vars, local
  <1>2. ASSUME NEW c \in Calls, Call(c)
        PROVE  Same \/ Moves(d)
    <2>1. CASE c # d
      BY <1>0, <1>2, <2>1 DEF Call, GetStatus, StartMeeting, EndMeeting,
         RequireRole, Leave, Join, Enter
    <2>2. CASE c = d
      <3>. USE <1>0, <2>2 DEF Moves, Enter, NoArg
      <3>1. CASE GetStatus(c)
        BY <3>1 DEF GetStatus
      <3>2. ASSUME NEW at \in Times, StartMeeting(c, at) \/ EndMeeting(c, at)
            PROVE  Moves(d)
        BY <3>2 DEF StartMeeting, EndMeeting
      <3>3. ASSUME NEW u \in Users, RequireRole(c, u) \/ Leave(c, u)
            PROVE  Moves(d)
        BY <3>3 DEF RequireRole, Leave
      <3>4. ASSUME NEW u \in Users, NEW r \in JoinRoles, Join(c, u, r)
            PROVE  Moves(d)
        BY <3>4 DEF Join
      <3>. QED BY <1>2, <3>1, <3>2, <3>3, <3>4 DEF Call
    <2>. QED BY <2>1, <2>2
  <1>3. ASSUME NEW c \in Calls, Advance(c)
        PROVE  Same \/ Moves(d)
    <2>1. CASE c # d
      <3>. USE <1>0, <2>1
      <3>1. ASSUME NEW step, Goto(c, step)
            PROVE  Same
        BY <3>1 DEF Goto
      <3>2. ASSUME NEW r, Finish(c, r)
            PROVE  Same
        BY <3>2 DEF Finish
      <3>3. CASE StatusRead(c) \/ StartRead(c) \/ EndRead(c)
        <4>1. CASE Fails(c)
          BY <3>2, <4>1 DEF Fails
        <4>. QED BY <3>2, <3>3, <4>1 DEF StatusRead, StartRead, EndRead
      <3>4. CASE ~(StatusRead(c) \/ StartRead(c) \/ EndRead(c))
        BY <1>3, <3>1, <3>2, <3>4 DEF Advance, RoleRead, StartWrite, StartLog,
           EndWrite, EndLog, JoinFind, JoinInsert, JoinLog, LeaveUpdate, LeaveLog,
           Fails
      <3>. QED BY <3>3, <3>4
    <2>2. CASE c = d
      <3>. USE <1>0, <2>2 DEF Moves, Goto, Fails, Finish
      <3>1. CASE StatusRead(c) \/ RoleRead(c)
        BY <3>1 DEF StatusRead, RoleRead
      <3>2. CASE StartRead(c) \/ EndRead(c)
        BY <3>2 DEF StartRead, EndRead
      <3>3. CASE StartWrite(c) \/ EndWrite(c)
        BY <3>3 DEF StartWrite, EndWrite
      <3>4. CASE JoinFind(c) \/ JoinInsert(c)
        BY <3>4 DEF JoinFind, JoinInsert
      <3>5. CASE LeaveUpdate(c)
        BY <3>5 DEF LeaveUpdate
      <3>6. CASE StartLog(c) \/ EndLog(c) \/ JoinLog(c) \/ LeaveLog(c)
        BY <3>6 DEF StartLog, EndLog, JoinLog, LeaveLog
      <3>. QED BY <1>3, <3>1, <3>2, <3>3, <3>4, <3>5, <3>6 DEF Advance
    <2>. QED BY <2>1, <2>2
  <1>. QED BY <1>1, <1>2, <1>3 DEF Next

-----------------------------------------------------------------------------
(* The inductive invariant *)

LEMMA InitIInv == Init => IInv
  <1>. SUFFICES ASSUME Init PROVE IInv
    OBVIOUS
  <1>1. CallsOK
    BY DEF Init, CallsOK, Step, Arg, NoArg, Role, Status
  <1>2. TablesOK /\ AuditSound
    BY DEF Init, TablesOK, AuditSound, Status
  <1>3. StampsAgree /\ InFlightAgree
    BY DEF Init, StampsAgree, InFlightAgree
  <1>. QED BY <1>1, <1>2, <1>3 DEF IInv, TypeOK

\* A call about to log has made the change it is going to log.
LEMMA InFlightStep ==
    ASSUME IInv, [Next]_vars
    PROVE  InFlightAgree'
  <1>. USE DEF IInv, TypeOK
  <1>1. TablesOK' /\ Grows /\ ArgsPresent
    BY ArgsKnown, TablesStep
  <1>2. SUFFICES ASSUME NEW d \in Calls
        PROVE
        /\ pc'[d] \in {"start_read", "start_write", "end_read", "end_write"} =>
              arg'[d].at \in Times
        /\ pc'[d] \in {"join_find", "join_insert", "join_log",
                       "leave_update", "leave_log"} => arg'[d].user \in Users
        /\ pc'[d] = "start_log" => startedAt' # NoTime
        /\ pc'[d] = "end_log" => endedAt' # NoTime
        /\ pc'[d] = "join_log" =>
              \E j \in DOMAIN rows' : rows'[j].user = arg'[d].user
        /\ pc'[d] = "leave_log" =>
              \E j \in DOMAIN rows' : rows'[j].user = arg'[d].user /\ ~rows'[j].active
    BY DEF InFlightAgree
  <1>3. CASE pc'[d] = pc[d] /\ arg'[d] = arg[d]
    BY <1>1, <1>3 DEF InFlightAgree, Grows
  <1>4. CASE Moves(d)
    <2>1. CASE pc[d] = "start_write" /\ pc'[d] = "start_log" /\ SetStatusActive(arg[d].at)
      <3>1. arg[d].at \in Times /\ startedAt \in Times \cup {NoTime}
        BY <2>1, <1>1 DEF ArgsPresent, TablesOK
      <3>. QED BY <2>1, <3>1, StampLemma DEF SetStatusActive
    <2>2. CASE pc[d] = "end_write" /\ pc'[d] = "end_log" /\ SetStatusEnded(arg[d].at)
      <3>1. arg[d].at \in Times /\ endedAt \in Times \cup {NoTime}
        BY <2>2, <1>1 DEF ArgsPresent, TablesOK
      <3>. QED BY <2>2, <3>1, StampLemma DEF SetStatusEnded
    <2>3. CASE /\ pc[d] = "join_find" /\ pc'[d] = "join_log"
               /\ ActiveRows(arg[d].user) # {} /\ UNCHANGED db /\ arg'[d] = arg[d]
      BY <2>3, <1>1 DEF ArgsPresent, ActiveRows, db
    <2>4. CASE /\ pc[d] = "join_insert" /\ pc'[d] = "join_log"
               /\ InsertRow(arg[d].user, arg[d].role) /\ arg'[d] = arg[d]
      <3>1. arg[d].user \in Users /\ arg[d].role \in Role
        BY <2>4, <1>1 DEF ArgsPresent, CallsOK, Arg
      <3>. QED BY <2>4, <3>1, InsertLemma
    <2>5. CASE /\ pc[d] = "leave_update" /\ pc'[d] = "leave_log"
               /\ DeactivateRows(arg[d].user) /\ arg'[d] = arg[d]
      <3>1. arg[d].user \in Users
        BY <2>5, <1>1 DEF ArgsPresent
      <3>. QED BY <2>5, <3>1, DeactivateLemma
    <2>. QED BY <1>4, <1>1, <2>1, <2>2, <2>3, <2>4, <2>5 DEF Moves, ArgsPresent
  <1>. QED BY <1>3, <1>4, OneCall

\* The status and the stamps go on telling one story.
LEMMA StampsStep ==
    ASSUME IInv, [Next]_vars
    PROVE  StampsAgree'
  <1>. USE DEF IInv, TypeOK
  <1>1. CASE UNCHANGED <<status, startedAt, endedAt>>
    BY <1>1 DEF StampsAgree
  <1>2. ASSUME NEW c \in Calls, pc[c] = "start_write", SetStatusActive(arg[c].at)
        PROVE  StampsAgree'
    <2>1. arg[c].at \in Times /\ startedAt \in Times \cup {NoTime}
      BY <1>2 DEF InFlightAgree, TablesOK
    <2>. QED BY <1>2, <2>1, StampLemma DEF SetStatusActive, StampsAgree
  <1>3. ASSUME NEW c \in Calls, pc[c] = "end_write", SetStatusEnded(arg[c].at)
        PROVE  StampsAgree'
    <2>1. arg[c].at \in Times /\ endedAt \in Times \cup {NoTime}
      BY <1>3 DEF InFlightAgree, TablesOK
    <2>. QED BY <1>3, <2>1, StampLemma DEF SetStatusEnded, StampsAgree
  <1>. QED BY <1>1, <1>2, <1>3, OneStatement
           DEF Writes, InsertRow, DeactivateRows, AppendEvent, db

\* No entry of the log is ever refuted by a later change.
LEMMA AuditStep ==
    ASSUME IInv, [Next]_vars
    PROVE  AuditSound'
  <1>. USE DEF IInv, TypeOK
  <1>1. TablesOK' /\ Grows /\ ArgsPresent
    BY ArgsKnown, TablesStep
  <1>. DEFINE Backed(e) ==
        /\ e.type = "meeting_status_changed" =>
              IF e.to = "active" THEN startedAt # NoTime ELSE endedAt # NoTime
        /\ e.type = "participant_joined" =>
              \E j \in DOMAIN rows : rows[j].user = e.user
        /\ e.type = "participant_left" =>
              \E j \in DOMAIN rows : rows[j].user = e.user /\ ~rows[j].active
  <1>2. ASSUME NEW e, Backed(e)
        PROVE  Backed(e)'
    BY <1>1, <1>2 DEF Grows
  <1>3. CASE UNCHANGED audit
    BY <1>2, <1>3 DEF AuditSound
  <1>4. ASSUME NEW e \in Event, AppendEvent(e), Backed(e)
        PROVE  AuditSound'
    <2>1. \A i \in DOMAIN audit' : \/ i \in DOMAIN audit /\ audit'[i] = audit[i]
                                \/ audit'[i] = e
      BY <1>4, AppendLemma
    <2>2. \A i \in DOMAIN audit' : Backed(audit'[i])
      BY <2>1, <1>4 DEF AuditSound
    <2>. QED BY <2>2, <1>2 DEF AuditSound
  <1>5. ASSUME NEW c \in Calls, Writes(c), ~UNCHANGED audit
        PROVE  \E e \in Event : AppendEvent(e) /\ Backed(e)
    <2>. USE <1>1 DEF InFlightAgree, ArgsPresent, Event
    <2>0. seen[c] \in Status
      BY DEF CallsOK
    <2>1. CASE pc[c] = "start_log" /\ AppendEvent(StatusChanged(seen[c], "active"))
      BY <2>0, <2>1 DEF StatusChanged, Status
    <2>2. CASE pc[c] = "end_log" /\ AppendEvent(StatusChanged(seen[c], "ended"))
      BY <2>0, <2>2 DEF StatusChanged, Status
    <2>3. CASE pc[c] = "join_log" /\ AppendEvent(ParticipantJoined(arg[c].user))
      BY <2>3 DEF ParticipantJoined
    <2>4. CASE pc[c] = "leave_log" /\ AppendEvent(ParticipantLeft(arg[c].user))
      BY <2>4 DEF ParticipantLeft
    <2>. QED BY <1>5, <2>1, <2>2, <2>3, <2>4
             DEF Writes, SetStatusActive, SetStatusEnded, InsertRow, DeactivateRows
  <1>. QED BY <1>3, <1>4, <1>5, OneStatement DEF db

\* No statement of any call breaks the inductive invariant.
LEMMA IInvStep == IInv /\ [Next]_vars => IInv'
  <1>. SUFFICES ASSUME IInv, [Next]_vars PROVE IInv'
    OBVIOUS
  <1>1. TypeOK'
    BY CallsStep, TablesStep, ArgsKnown DEF IInv, TypeOK
  <1>. QED BY <1>1, InFlightStep, StampsStep, AuditStep DEF IInv

\* Type correctness together with the agreement of status, stamps, calls in
\* progress and audit log holds in every reachable state.
THEOREM Invariance == Spec => []IInv
  BY InitIInv, IInvStep, PTL DEF Spec

\* TypeOK is an invariant of the service.
THEOREM TypeCorrect == Spec => []TypeOK
  BY Invariance, PTL DEF IInv

\* StampsAgree is an invariant: no order of racing UPDATEs separates the status
\* from its stamps.
THEOREM StampsAlwaysAgree == Spec => []StampsAgree
  BY Invariance, PTL DEF IInv

\* AuditSound is an invariant: meeting_events claims nothing that did not happen.
THEOREM AuditAlwaysSound == Spec => []AuditSound
  BY Invariance, PTL DEF IInv

\* StampsSetOnce: the recorded beginning and end of a meeting never move.
THEOREM StampsNeverMove == Spec => StampsSetOnce
  <1>1. IInv /\ [Next]_vars =>
          [ /\ startedAt # NoTime => startedAt' = startedAt
            /\ endedAt # NoTime => endedAt' = endedAt ]_db
    BY ArgsKnown, TablesStep DEF IInv, Grows
  <1>. QED BY <1>1, Invariance, PTL DEF Spec, StampsSetOnce

-----------------------------------------------------------------------------
(* An ended meeting is over unless a StartMeeting call was already past its  *)
(* status check when it ended.                                               *)

\* EndedIsFinal: no step leaves the settled states.
THEOREM EndedStaysEnded == Spec => EndedIsFinal
  <1>1. IInv /\ [Next]_vars => [Settled => Settled']_vars
    <2>. SUFFICES ASSUME IInv, [Next]_vars, Settled
                  PROVE  Settled'
      OBVIOUS
    <2>1. status' = "ended"
      <3>1. \A c \in Calls : ~(pc[c] = "start_write" /\ SetStatusActive(arg[c].at))
        BY DEF Settled
      <3>. QED BY <3>1, OneStatement
               DEF Settled, Writes, SetStatusEnded, InsertRow, DeactivateRows,
                   AppendEvent, db
    <2>2. ASSUME NEW d \in Calls
          PROVE  pc'[d] # "start_write"
      <3>0. pc \in [Calls -> Step]
        BY DEF IInv, TypeOK, CallsOK
      <3>1. CASE UNCHANGED vars
        BY <3>1 DEF Settled, vars, local
      <3>2. ASSUME NEW c \in Calls, Call(c)
            PROVE  pc'[d] # "start_write"
        BY <3>0, <3>2 DEF Settled, Call, GetStatus, StartMeeting,
           EndMeeting, RequireRole, Leave, Join, Enter
      <3>3. ASSUME NEW c \in Calls, Advance(c)
            PROVE  pc'[d] # "start_write"
        BY <3>0, <3>3 DEF Settled, Startable, Advance, StatusRead, RoleRead,
           StartRead, StartWrite, StartLog, EndRead, EndWrite, EndLog, JoinFind,
           JoinInsert, JoinLog, LeaveUpdate, LeaveLog, Goto, Fails, Finish
      <3>. QED BY <3>1, <3>2, <3>3 DEF Next
    <2>. QED BY <2>1, <2>2 DEF Settled
  <1>. QED BY <1>1, Invariance, PTL DEF Spec, EndedIsFinal

-----------------------------------------------------------------------------
(* At most one active row per user *)

\* OneActiveRow without cardinalities.
RowsApart ==
    \A i, j \in DOMAIN rows :
        rows[i].active /\ rows[j].active /\ rows[i].user = rows[j].user => i = j

LEMMA RowsApartStep ==
    ASSUME IInv, RowsApart, [Next]_vars
    PROVE  RowsApart'
  <1>. USE DEF IInv, TypeOK
  <1>1. CASE UNCHANGED rows
    BY <1>1 DEF RowsApart
  <1>2. ASSUME NEW c \in Calls, pc[c] = "join_insert",
               InsertRow(arg[c].user, arg[c].role)
        PROVE  RowsApart'
    <2>1. /\ rows \in Seq(Row)
          /\ rows' = Append(rows, [user |-> arg[c].user, role |-> arg[c].role,
                                   active |-> TRUE])
          /\ ActiveRows(arg[c].user) = {}
      BY <1>2 DEF InsertRow, TablesOK
    <2>2. /\ DOMAIN rows' = DOMAIN rows \cup {Len(rows) + 1}
          /\ \A i \in DOMAIN rows : rows'[i] = rows[i] /\ i # Len(rows) + 1
          /\ rows'[Len(rows) + 1].user = arg[c].user
      BY <2>1
    <2>3. \A i \in DOMAIN rows : ~(rows[i].active /\ rows[i].user = arg[c].user)
      BY <2>1 DEF ActiveRows
    <2>. QED BY <2>2, <2>3 DEF RowsApart
  <1>3. ASSUME NEW c \in Calls, pc[c] = "leave_update", DeactivateRows(arg[c].user)
        PROVE  RowsApart'
    <2>1. arg[c].user \in Users
      BY <1>3 DEF InFlightAgree
    <2>. QED BY <1>3, <2>1, DeactivateLemma DEF RowsApart
  <1>. QED BY <1>1, <1>2, <1>3, OneStatement
           DEF Writes, SetStatusActive, SetStatusEnded, AppendEvent, db

\* OneActiveRow is an invariant: racing joins of a user never leave the user
\* with two active rows.
THEOREM OneActiveRowAlways == Spec => []OneActiveRow
  <1>1. Init => RowsApart
    BY DEF Init, RowsApart
  <1>2. IInv /\ RowsApart /\ [Next]_vars => RowsApart'
    BY RowsApartStep
  <1>3. RowsApart => OneActiveRow
    <2>. SUFFICES ASSUME RowsApart, NEW u \in Users
                  PROVE  Cardinality(ActiveRows(u)) <= 1
      BY DEF OneActiveRow
    <2>1. CASE ActiveRows(u) = {}
      BY <2>1, FS_EmptySet
    <2>2. ASSUME NEW i \in ActiveRows(u)
          PROVE  Cardinality(ActiveRows(u)) <= 1
      <3>1. ActiveRows(u) = {i}
        BY <2>2 DEF RowsApart, ActiveRows
      <3>. QED BY <3>1, FS_Singleton
    <2>. QED BY <2>1, <2>2
  <1>. QED BY <1>1, <1>2, <1>3, Invariance, PTL DEF Spec

-----------------------------------------------------------------------------
(* Departures are logged once *)

Logged  == {i \in DOMAIN audit : audit[i].type = "participant_left"}
Leaving == {c \in Calls : pc[c] = "leave_log"}
Gone    == {i \in DOMAIN rows : ~rows[i].active}

\* However many goroutines there are, only finitely many are inside Leave.
LeavesInv == IsFiniteSet(Leaving) /\ LeavesAccounted

\* From the entries L, the calls P that are about to log and the inactive rows
\* G to those of the next state: an entry is paid for by a call that was about
\* to log, and such a call by a row that has become inactive.
Pays(L, P, G, L2, P2, G2) ==
    \/ L2 = L /\ P2 \subseteq P
    \/ \E x \in P : \E n : L2 \subseteq L \cup {n} /\ P2 \subseteq P \ {x}
    \/ \E x, r : L2 = L /\ P2 \subseteq P \cup {x} /\ r \in G2 /\ r \notin G

LEMMA Counted ==
    ASSUME NEW L, NEW P, NEW G, NEW L2, NEW P2, NEW G2,
           IsFiniteSet(L), IsFiniteSet(P), IsFiniteSet(G), IsFiniteSet(G2),
           Cardinality(L) + Cardinality(P) <= Cardinality(G), G \subseteq G2,
           Pays(L, P, G, L2, P2, G2)
    PROVE  IsFiniteSet(P2) /\ Cardinality(L2) + Cardinality(P2) <= Cardinality(G2)
  <1>0. /\ Cardinality(L) \in Nat /\ Cardinality(P) \in Nat
        /\ Cardinality(G) \in Nat /\ Cardinality(G2) \in Nat
        /\ Cardinality(G) <= Cardinality(G2)
    BY FS_CardinalityType, FS_Subset
  <1>1. CASE L2 = L /\ P2 \subseteq P
    <2>1. IsFiniteSet(P2) /\ Cardinality(P2) <= Cardinality(P)
      BY <1>1, FS_Subset
    <2>2. Cardinality(P2) \in Nat
      BY <2>1, FS_CardinalityType
    <2>. QED BY <1>0, <1>1, <2>1, <2>2
  <1>2. ASSUME NEW x \in P, NEW n, L2 \subseteq L \cup {n}, P2 \subseteq P \ {x}
        PROVE  IsFiniteSet(P2) /\ Cardinality(L2) + Cardinality(P2) <= Cardinality(G2)
    <2>1. IsFiniteSet(P \ {x}) /\ Cardinality(P \ {x}) = Cardinality(P) - 1
      BY FS_RemoveElement
    <2>2. /\ IsFiniteSet(L \cup {n})
          /\ Cardinality(L \cup {n}) <= Cardinality(L) + 1
      <3>1. /\ IsFiniteSet(L \cup {n})
            /\ Cardinality(L \cup {n})
                 = IF n \in L THEN Cardinality(L) ELSE Cardinality(L) + 1
        BY FS_AddElement
      <3>. QED BY <1>0, <3>1
    <2>3. /\ IsFiniteSet(P2) /\ Cardinality(P2) <= Cardinality(P) - 1
          /\ IsFiniteSet(L2) /\ Cardinality(L2) <= Cardinality(L \cup {n})
      BY <1>2, <2>1, <2>2, FS_Subset
    <2>4. /\ Cardinality(P2) \in Nat /\ Cardinality(L2) \in Nat
          /\ Cardinality(L \cup {n}) \in Nat
      BY <2>2, <2>3, FS_CardinalityType
    <2>. QED BY <1>0, <2>2, <2>3, <2>4
  <1>3. ASSUME NEW x, NEW r, L2 = L, P2 \subseteq P \cup {x}, r \in G2, r \notin G
        PROVE  IsFiniteSet(P2) /\ Cardinality(L2) + Cardinality(P2) <= Cardinality(G2)
    <2>1. /\ IsFiniteSet(P \cup {x})
          /\ Cardinality(P \cup {x}) <= Cardinality(P) + 1
      <3>1. /\ IsFiniteSet(P \cup {x})
            /\ Cardinality(P \cup {x})
                 = IF x \in P THEN Cardinality(P) ELSE Cardinality(P) + 1
        BY FS_AddElement
      <3>. QED BY <1>0, <3>1
    <2>2. /\ IsFiniteSet(G \cup {r})
          /\ Cardinality(G \cup {r}) = Cardinality(G) + 1
      BY <1>3, FS_AddElement
    <2>3. Cardinality(G \cup {r}) <= Cardinality(G2)
      <3>1. G \cup {r} \in SUBSET G2  BY <1>3
      <3>. QED BY <3>1, FS_Subset
    <2>4. IsFiniteSet(P2) /\ Cardinality(P2) <= Cardinality(P \cup {x})
      BY <1>3, <2>1, FS_Subset
    <2>5. Cardinality(P2) \in Nat /\ Cardinality(P \cup {x}) \in Nat
      BY <2>1, <2>4, FS_CardinalityType
    <2>. QED BY <1>0, <1>3, <2>1, <2>2, <2>3, <2>4, <2>5
  <1>. QED BY <1>1, <1>2, <1>3 DEF Pays

\* What a step adds to the three sets.
LEMMA LeavesMove ==
    ASSUME IInv, [Next]_vars
    PROVE  /\ Gone \subseteq Gone'
           /\ \/ Logged' = Logged /\ Leaving' \subseteq Leaving
              \/ \E x \in Leaving : \E n :
                   Logged' \subseteq Logged \cup {n} /\ Leaving' \subseteq Leaving \ {x}
              \/ \E x, r : /\ Logged' = Logged /\ Leaving' \subseteq Leaving \cup {x}
                           /\ r \in Gone' /\ r \notin Gone
  <1>. USE DEF IInv, TypeOK
  <1>0. /\ pc \in [Calls -> Step] /\ ArgsPresent
        /\ \A c \in Calls : arg[c] \in Arg /\ seen[c] \in Status
    BY ArgsKnown DEF CallsOK
  <1>1. Gone \subseteq Gone'
    BY <1>0, TablesStep DEF Grows, Gone
  <1>2. UNCHANGED audit => Logged' = Logged
    BY DEF Logged
  <1>3. ASSUME NEW c \in Calls, NEW step, pc' = [pc EXCEPT ![c] = step],
               step # "leave_log"
        PROVE  Leaving' \subseteq Leaving \ {c}
    BY <1>0, <1>3 DEF Leaving
  <1>4. ASSUME NEW e \in Event, AppendEvent(e)
        PROVE  /\ Logged' \subseteq Logged \cup {Len(audit) + 1}
               /\ e.type # "participant_left" => Logged' = Logged
    <2>1. /\ DOMAIN audit' = DOMAIN audit \cup {Len(audit) + 1}
          /\ \A i \in DOMAIN audit : audit'[i] = audit[i]
          /\ audit'[Len(audit) + 1] = e
      BY <1>4, AppendLemma
    <2>2. Len(audit) + 1 \notin DOMAIN audit
      BY DEF TablesOK
    <2>. QED BY <2>1, <2>2 DEF Logged
  <1>5. ASSUME NEW c \in Calls, Call(c)
        PROVE  Logged' = Logged /\ Leaving' \subseteq Leaving
    <2>1. /\ UNCHANGED audit
          /\ \E step \in Step \ {"leave_log"} : pc' = [pc EXCEPT ![c] = step]
      BY <1>5 DEF Call, GetStatus, StartMeeting, EndMeeting, RequireRole, Leave,
                  Join, Enter, Step, db
    <2>. QED BY <1>2, <1>3, <2>1
  <1>6. ASSUME NEW c \in Calls, StatusRead(c) \/ RoleRead(c) \/ StartRead(c) \/ EndRead(c)
                                  \/ JoinFind(c) \/ StartWrite(c) \/ EndWrite(c)
                                  \/ JoinInsert(c)
        PROVE  Logged' = Logged /\ Leaving' \subseteq Leaving
    <2>1. UNCHANGED audit
      BY <1>6 DEF StatusRead, RoleRead, StartRead, EndRead, JoinFind, StartWrite,
                  EndWrite, JoinInsert, SetStatusActive, SetStatusEnded, InsertRow, db
    <2>2. \E step \in Step \ {"leave_log"} : pc' = [pc EXCEPT ![c] = step]
      BY <1>6 DEF StatusRead, RoleRead, StartRead, EndRead, JoinFind, StartWrite,
                  EndWrite, JoinInsert, Goto, Fails, Finish, Step
    <2>. QED BY <1>2, <1>3, <2>1, <2>2
  <1>7. ASSUME NEW c \in Calls, StartLog(c) \/ EndLog(c) \/ JoinLog(c)
        PROVE  Logged' = Logged /\ Leaving' \subseteq Leaving
    <2>1. pc' = [pc EXCEPT ![c] = "idle"]
      BY <1>7 DEF StartLog, EndLog, JoinLog, Finish
    <2>2. \A to \in {"active", "ended"} :
             /\ StatusChanged(seen[c], to) \in Event
             /\ StatusChanged(seen[c], to).type # "participant_left"
      BY <1>0 DEF StatusChanged, Event, Status
    <2>3. pc[c] = "join_log" =>
             /\ ParticipantJoined(arg[c].user) \in Event
             /\ ParticipantJoined(arg[c].user).type # "participant_left"
      BY <1>0 DEF ArgsPresent, ParticipantJoined, Event
    <2>4. UNCHANGED audit \/ \E e \in Event : e.type # "participant_left" /\ AppendEvent(e)
      BY <1>7, <2>2, <2>3 DEF StartLog, EndLog, JoinLog, db
    <2>. QED BY <1>2, <1>3, <1>4, <2>1, <2>4
  <1>8. ASSUME NEW c \in Calls, LeaveLog(c)
        PROVE  \E x \in Leaving : \E n :
                 Logged' \subseteq Logged \cup {n} /\ Leaving' \subseteq Leaving \ {x}
    <2>1. c \in Leaving /\ Leaving' \subseteq Leaving \ {c}
      BY <1>3, <1>8 DEF LeaveLog, Finish, Leaving
    <2>2. ParticipantLeft(arg[c].user) \in Event
      BY <1>0, <1>8 DEF LeaveLog, ArgsPresent, ParticipantLeft, Event
    <2>3. UNCHANGED audit \/ AppendEvent(ParticipantLeft(arg[c].user))
      BY <1>8 DEF LeaveLog, db
    <2>4. \E n : Logged' \subseteq Logged \cup {n}
      BY <1>2, <1>4, <2>2, <2>3
    <2>. QED BY <2>1, <2>4
  <1>9. ASSUME NEW c \in Calls, LeaveUpdate(c)
        PROVE  \/ Logged' = Logged /\ Leaving' \subseteq Leaving
               \/ \E x, r : /\ Logged' = Logged /\ Leaving' \subseteq Leaving \cup {x}
                            /\ r \in Gone' /\ r \notin Gone
    <2>1. UNCHANGED audit
      BY <1>9 DEF LeaveUpdate, DeactivateRows, db
    <2>2. CASE DeactivateRows(arg[c].user) /\ Goto(c, "leave_log")
      <3>1. PICK r \in ActiveRows(arg[c].user) : TRUE
        BY <2>2 DEF DeactivateRows
      <3>2. r \in DOMAIN rows /\ rows[r].active /\ rows[r] \in Row
        BY DEF ActiveRows, TablesOK
      <3>3. r \in DOMAIN rows' /\ ~rows'[r].active
        BY <2>2, <3>1, <3>2 DEF DeactivateRows, Row
      <3>4. Leaving' \subseteq Leaving \cup {c}
        BY <1>0, <2>2 DEF Goto, Leaving
      <3>5. r \in Gone' /\ r \notin Gone
        BY <3>2, <3>3 DEF Gone
      <3>. QED BY <1>2, <2>1, <3>4, <3>5
    <2>3. CASE Fails(c) \/ Finish(c, "err")
      BY <1>2, <1>3, <2>1, <2>3 DEF Fails, Finish
    <2>. QED BY <1>9, <2>2, <2>3 DEF LeaveUpdate
  <1>10. CASE UNCHANGED vars
    <2>1. Logged' = Logged /\ Leaving' = Leaving
      BY <1>2, <1>10 DEF vars, local, db, Leaving
    <2>. QED BY <1>1, <2>1
  <1>. QED BY <1>1, <1>5, <1>6, <1>7, <1>8, <1>9, <1>10 DEF Next, Advance

LEMMA LeavesStep == IInv /\ LeavesInv /\ [Next]_vars => LeavesInv'
  <1>. SUFFICES ASSUME IInv, LeavesInv, [Next]_vars  PROVE LeavesInv'
    OBVIOUS
  <1>1. IInv'
    BY IInvStep
  <1>2. IsFiniteSet(DOMAIN rows) /\ IsFiniteSet(DOMAIN rows') /\ IsFiniteSet(DOMAIN audit)
    <2>1. /\ DOMAIN rows = 1..Len(rows) /\ Len(rows) \in Int
          /\ DOMAIN rows' = 1..Len(rows') /\ Len(rows') \in Int
          /\ DOMAIN audit = 1..Len(audit) /\ Len(audit) \in Int
      BY <1>1 DEF IInv, TypeOK, TablesOK
    <2>. QED BY <2>1, FS_Interval
  <1>3. IsFiniteSet(Gone) /\ IsFiniteSet(Gone') /\ IsFiniteSet(Logged)
    <2>1. Gone \subseteq DOMAIN rows /\ Gone' \subseteq DOMAIN rows'
          /\ Logged \subseteq DOMAIN audit
      BY DEF Gone, Logged
    <2>. QED BY <1>2, <2>1, FS_Subset
  <1>4. IsFiniteSet(Leaving) /\ Cardinality(Logged) + Cardinality(Leaving) <= Cardinality(Gone)
    BY DEF LeavesInv, LeavesAccounted, Logged, Leaving, Gone
  <1>5. /\ IsFiniteSet(Leaving')
        /\ Cardinality(Logged') + Cardinality(Leaving') <= Cardinality(Gone')
    <2>1. PICK P, L, G, P2, L2, G2 :
             /\ P = Leaving /\ L = Logged /\ G = Gone
             /\ P2 = Leaving' /\ L2 = Logged' /\ G2 = Gone'
      OBVIOUS
    <2>2. G \subseteq G2 /\ Pays(L, P, G, L2, P2, G2)
      BY <2>1, LeavesMove DEF Pays
    <2>3. /\ IsFiniteSet(L) /\ IsFiniteSet(P) /\ IsFiniteSet(G) /\ IsFiniteSet(G2)
          /\ Cardinality(L) + Cardinality(P) <= Cardinality(G)
      BY <1>3, <1>4, <2>1
    <2>4. IsFiniteSet(P2) /\ Cardinality(L2) + Cardinality(P2) <= Cardinality(G2)
      BY <2>2, <2>3, Counted
    <2>5. Leaving' = P2 /\ IsFiniteSet(P2)
      BY <2>1, <2>4
    <2>6. /\ Cardinality(Logged') = Cardinality(L2)
          /\ Cardinality(Leaving') = Cardinality(P2)
          /\ Cardinality(Gone') = Cardinality(G2)
      BY <2>1
    <2>7. IsFiniteSet(Leaving')
      BY <2>5, Zenon
    <2>. QED BY <2>4, <2>6, <2>7
  <1>. QED BY <1>5 DEF LeavesInv, LeavesAccounted, Logged, Leaving, Gone

\* LeavesAccounted is an invariant, for any number of goroutines: leaves of one
\* user race for one row, and whatever their order no departure is logged twice.
THEOREM LeavesAreAccounted == Spec => []LeavesAccounted
  <1>1. Init => LeavesInv
    <2>. SUFFICES ASSUME Init  PROVE LeavesInv
      OBVIOUS
    <2>1. Logged = {} /\ Leaving = {} /\ Gone = {}
      BY DEF Init, Logged, Leaving, Gone
    <2>2. IsFiniteSet(Leaving)
      BY <2>1, FS_EmptySet
    <2>3. Cardinality(Logged) + Cardinality(Leaving) <= Cardinality(Gone)
      <3>1. /\ Cardinality(Logged) = 0 /\ Cardinality(Leaving) = 0
            /\ Cardinality(Gone) = 0
        BY <2>1, FS_EmptySet
      <3>. QED BY <3>1
    <2>. QED BY <2>2, <2>3 DEF LeavesInv, LeavesAccounted, Logged, Leaving, Gone
  <1>. QED BY <1>1, LeavesStep, Invariance, PTL DEF Spec, LeavesInv

-----------------------------------------------------------------------------
(* Calls that do not overlap *)

\* At most one goroutine calls the service.
Serial == \A c, d \in Calls : c = d

\* The status a call has checked is still the status of the meeting.
FreshRead ==
    \A c \in Calls : /\ pc[c] = "start_write" => status \in Startable
                     /\ pc[c] = "end_write" => status \in Endable

LEMMA FreshReadStep ==
    ASSUME Serial, IInv, FreshRead, [Next]_vars
    PROVE  FreshRead'
  <1>0. pc \in [Calls -> Step]
    BY DEF IInv, TypeOK, CallsOK
  <1>1. CASE UNCHANGED vars
    BY <1>1 DEF FreshRead, vars, db, local
  <1>2. ASSUME NEW c \in Calls, Call(c)
        PROVE  FreshRead'
    BY <1>0, <1>2 DEF FreshRead, Call, GetStatus, StartMeeting, EndMeeting,
       RequireRole, Leave, Join, Enter, db
  <1>3. ASSUME NEW c \in Calls, Advance(c)
        PROVE  FreshRead'
    <2>1. \A d \in Calls : d = c
      BY DEF Serial
    <2>2. CASE StartRead(c) \/ EndRead(c)
      BY <1>0, <2>1, <2>2 DEF FreshRead, StartRead, EndRead, Fails, Finish, db
    <2>3. CASE StatusRead(c) \/ RoleRead(c) \/ StartWrite(c) \/ EndWrite(c)
               \/ StartLog(c) \/ EndLog(c) \/ JoinLog(c) \/ LeaveLog(c)
               \/ JoinFind(c) \/ JoinInsert(c) \/ LeaveUpdate(c)
      <3>1. pc'[c] \notin {"start_write", "end_write"}
        BY <1>0, <2>3 DEF StatusRead, RoleRead, StartWrite, EndWrite, StartLog,
           EndLog, JoinLog, LeaveLog, JoinFind, JoinInsert, LeaveUpdate,
           Goto, Fails, Finish
      <3>. QED BY <2>1, <3>1 DEF FreshRead
    <2>. QED BY <1>3, <2>2, <2>3 DEF Advance
  <1>. QED BY <1>1, <1>2, <1>3 DEF Next

\* Callers that do not overlap check a status that is still the one they
\* change: a transition is legal when it takes effect.  NeverRevived shows that
\* callers that overlap cannot rely on it.
THEOREM SerialReadsAreFresh ==
    ASSUME Serial
    PROVE  Spec => []FreshRead
  <1>1. Init => FreshRead
    BY DEF Init, FreshRead
  <1>2. IInv /\ FreshRead /\ [Next]_vars => FreshRead'
    BY FreshReadStep
  <1>. QED BY <1>1, <1>2, Invariance, PTL DEF Spec

-----------------------------------------------------------------------------
(* The service implements MeetingLifecycle, however calls overlap *)

\* The transitions the callers have been granted.
Granted == [c \in Calls |-> Intent(pc[c])]

\* A call that goes to a step is granted what that step stands for.
LEMMA GrantedMoves ==
    ASSUME pc \in [Calls -> Step], NEW c \in Calls, NEW step,
           pc' = [pc EXCEPT ![c] = step]
    PROVE  Granted' = [Granted EXCEPT ![c] = Intent(step)]
  BY DEF Granted

\* A step that leaves the statuses alone, at a call that neither gets nor loses
\* a grant, changes nothing the abstract specification speaks of.
LEMMA GrantedStays ==
    ASSUME pc \in [Calls -> Step], NEW c \in Calls, NEW step,
           pc' = [pc EXCEPT ![c] = step], Intent(step) = Intent(pc[c])
    PROVE  Granted' = Granted
  BY GrantedMoves DEF Granted

\* StartRead and EndRead grant the transition or refuse it.
LEMMA ReadGrants ==
    ASSUME pc \in [Calls -> Step], NEW c \in Calls, StartRead(c) \/ EndRead(c)
    PROVE  Lifecycle!Next \/ UNCHANGED Lifecycle!lifecycle
  <1>0. UNCHANGED <<status, startedAt, endedAt>> /\ Granted[c] = "none"
    BY DEF StartRead, EndRead, db, Granted, Intent
  <1>1. CASE pc' = [pc EXCEPT ![c] = "idle"]
    <2>1. Granted' = Granted
      BY <1>1, GrantedStays DEF StartRead, EndRead, Intent
    <2>. QED BY <1>0, <2>1 DEF Lifecycle!lifecycle, Granted
  <1>2. CASE StartRead(c) /\ status \in Startable /\ pc' = [pc EXCEPT ![c] = "start_write"]
    <2>1. Granted' = [Granted EXCEPT ![c] = "start"]
      BY <1>2, GrantedMoves DEF Intent
    <2>2. Lifecycle!Grant(c, "start", Lifecycle!Startable)
      BY <1>0, <1>2, <2>1 DEF Lifecycle!Grant, Lifecycle!Startable, Startable, Granted
    <2>. QED BY <2>2 DEF Lifecycle!Next
  <1>3. CASE EndRead(c) /\ status \in Endable /\ pc' = [pc EXCEPT ![c] = "end_write"]
    <2>1. Granted' = [Granted EXCEPT ![c] = "end"]
      BY <1>3, GrantedMoves DEF Intent
    <2>2. Lifecycle!Grant(c, "end", Lifecycle!Endable)
      BY <1>0, <1>3, <2>1 DEF Lifecycle!Grant, Lifecycle!Endable, Endable, Granted
    <2>. QED BY <2>2 DEF Lifecycle!Next
  <1>. QED BY <1>1, <1>2, <1>3 DEF StartRead, EndRead, Fails, Finish

\* StartWrite and EndWrite carry the granted transition out or give it up.
LEMMA WriteUsesGrant ==
    ASSUME IInv, NEW c \in Calls, StartWrite(c) \/ EndWrite(c)
    PROVE  Lifecycle!Next
  <1>0. pc \in [Calls -> Step] /\ arg[c].at \in Times
    BY DEF IInv, TypeOK, CallsOK, InFlightAgree, StartWrite, EndWrite
  <1>1. Granted' = [Granted EXCEPT ![c] = "none"]
    <2>1. \/ pc' = [pc EXCEPT ![c] = "start_log"]
          \/ pc' = [pc EXCEPT ![c] = "end_log"]
          \/ pc' = [pc EXCEPT ![c] = "idle"]
      BY DEF StartWrite, EndWrite, Goto, Fails, Finish
    <2>. QED BY <1>0, <2>1, GrantedMoves DEF Intent
  <1>2. CASE StartWrite(c) /\ SetStatusActive(arg[c].at)
    <2>1. Granted[c] = "start"
      BY <1>2 DEF StartWrite, Granted, Intent
    <2>2. Lifecycle!Start(c, arg[c].at)
      BY <1>1, <1>2, <2>1 DEF Lifecycle!Start, SetStatusActive, Stamp,
         Lifecycle!Stamp, Granted
    <2>. QED BY <1>0, <2>2 DEF Lifecycle!Next
  <1>3. CASE EndWrite(c) /\ SetStatusEnded(arg[c].at)
    <2>1. Granted[c] = "end"
      BY <1>3 DEF EndWrite, Granted, Intent
    <2>2. Lifecycle!End(c, arg[c].at)
      BY <1>1, <1>3, <2>1 DEF Lifecycle!End, SetStatusEnded, Stamp,
         Lifecycle!Stamp, Granted
    <2>. QED BY <1>0, <2>2 DEF Lifecycle!Next
  <1>4. CASE UNCHANGED db
    <2>1. Granted[c] # "none"
      BY DEF StartWrite, EndWrite, Granted, Intent
    <2>2. Lifecycle!GiveUp(c)
      BY <1>1, <1>4, <2>1 DEF Lifecycle!GiveUp, db, Granted
    <2>. QED BY <2>2 DEF Lifecycle!Next
  <1>. QED BY <1>2, <1>3, <1>4 DEF StartWrite, EndWrite

\* Every other step leaves the statuses and the grants alone.
LEMMA OthersStutter ==
    ASSUME pc \in [Calls -> Step], NEW c \in Calls,
           \/ Call(c)
           \/ StatusRead(c) \/ RoleRead(c) \/ StartLog(c) \/ EndLog(c)
           \/ JoinFind(c) \/ JoinInsert(c) \/ JoinLog(c)
           \/ LeaveUpdate(c) \/ LeaveLog(c)
    PROVE  UNCHANGED Lifecycle!lifecycle
  <1>1. CASE Call(c)
    <2>1. \E step \in Step : pc' = [pc EXCEPT ![c] = step]
                             /\ Intent(step) = Intent(pc[c])
      BY <1>1 DEF Call, GetStatus, StartMeeting, EndMeeting, RequireRole, Leave,
         Join, Enter, Intent, Step
    <2>2. UNCHANGED db
      BY <1>1 DEF Call, GetStatus, StartMeeting, EndMeeting, RequireRole, Leave,
         Join, Enter
    <2>. QED BY <2>1, <2>2, GrantedStays DEF Lifecycle!lifecycle, db, Granted
  <1>2. CASE ~Call(c)
    <2>1. \E step \in Step : pc' = [pc EXCEPT ![c] = step]
                             /\ Intent(step) = Intent(pc[c])
      BY <1>2 DEF StatusRead, RoleRead, StartLog, EndLog, JoinFind, JoinInsert,
         JoinLog, LeaveUpdate, LeaveLog, Goto, Fails, Finish, Intent, Step
    <2>2. UNCHANGED <<status, startedAt, endedAt>>
      BY <1>2 DEF StatusRead, RoleRead, StartLog, EndLog, JoinFind, JoinInsert,
         JoinLog, LeaveUpdate, LeaveLog, InsertRow, DeactivateRows, AppendEvent, db
    <2>. QED BY <2>1, <2>2, GrantedStays DEF Lifecycle!lifecycle, Granted
  <1>. QED BY <1>1, <1>2

\* ImplementsLifecycle: every UPDATE of the status belongs to one call that had
\* found the transition legal, for any number of calls, any interleaving of
\* their statements and any failures of the database.
THEOREM ServiceImplements == Spec => ImplementsLifecycle
  <1>1. Init => Lifecycle!Init
    BY DEF Init, Lifecycle!Init, Intent
  <1>2. IInv /\ [Next]_vars => [Lifecycle!Next]_(Lifecycle!lifecycle)
    <2>. SUFFICES ASSUME IInv, [Next]_vars
                  PROVE  Lifecycle!Next \/ UNCHANGED Lifecycle!lifecycle
      OBVIOUS
    <2>0. pc \in [Calls -> Step]
      BY DEF IInv, TypeOK, CallsOK
    <2>1. CASE UNCHANGED vars
      BY <2>1 DEF vars, db, local, Lifecycle!lifecycle
    <2>2. ASSUME NEW c \in Calls, Call(c)
          PROVE  UNCHANGED Lifecycle!lifecycle
      BY <2>0, <2>2, OthersStutter
    <2>3. ASSUME NEW c \in Calls, Advance(c)
          PROVE  Lifecycle!Next \/ UNCHANGED Lifecycle!lifecycle
      <3>1. CASE StartRead(c) \/ EndRead(c)
        BY <2>0, <3>1, ReadGrants
      <3>2. CASE StartWrite(c) \/ EndWrite(c)
        BY <3>2, WriteUsesGrant
      <3>3. CASE ~(StartRead(c) \/ EndRead(c) \/ StartWrite(c) \/ EndWrite(c))
        BY <2>0, <2>3, <3>3, OthersStutter DEF Advance
      <3>. QED BY <3>1, <3>2, <3>3
    <2>. QED BY <2>1, <2>2, <2>3 DEF Next
  <1>. QED BY <1>1, <1>2, Invariance, PTL
           DEF Spec, ImplementsLifecycle, Lifecycle!Spec
=============================================================================
