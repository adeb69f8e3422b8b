-------------------------- MODULE MeetingRoomProofs --------------------------
(***************************************************************************)
(* Theorems about MeetingRoom, for every set of connections and users: the *)
(* room is a caller of MeetingService, so what is proved of the service    *)
(* holds under it, and the room's own invariants follow from where each    *)
(* goroutine is.                                                           *)
(***************************************************************************)
EXTENDS MeetingRoom, MeetingServiceProofs

-----------------------------------------------------------------------------
(* The inductive invariant *)

\* The statements of the service that a goroutine at a stage may be at.
Statements(s) ==
    CASE s = "join_status"                  -> {"status_read"}
      [] s = "join_row"                     -> {"join_find", "join_insert", "join_log"}
      [] s = "join_start"                   -> {"start_read", "start_write", "start_log"}
      [] s \in {"leave", "exit_leave"}      -> {"leave_update", "leave_log"}
      [] s = "end_role"                     -> {"role_read"}
      [] s \in {"end_meeting", "exit_end"}  -> {"end_read", "end_write", "end_log"}
      [] OTHER                              -> {}

\* A goroutine inside the service is in the call its handler makes, for the
\* user of its connection.
CallsPlaced ==
    \A c \in Calls :
        /\ pc[c] \in {"idle"} \cup Statements(stage[c])
        /\ pc[c] \in {"join_find", "join_insert", "join_log",
                      "leave_update", "leave_log"} => arg[c].user = user[c]

\* What the tables of the hub and the locals of a goroutine say at each stage.
Places ==
    \A c \in Calls :
        /\ stage[c] = "offline" <=> user[c] = NoUser
        /\ c \in hub <=> stage[c] \notin {"offline", "closed"}
        /\ role[c] \in RolesOf[c] \cup {""}
        /\ pid[c] => role[c] # "" /\ c \in hub
        /\ stage[c] \in {"join", "join_status", "join_row", "join_start", "end_role",
                         "end_meeting", "exit_leave", "exit_end"} => pid[c]
        /\ stage[c] \in {"join_status", "join_row", "join_start", "end_role",
                         "end_meeting"} => c \in meta
        /\ stage[c] \in {"reading", "leave"} => (c \in meta <=> pid[c])
        /\ stage[c] = "leave" => ~pid[c]
        /\ stage[c] = "join_start" => role[c] = "host"

\* A connection that has joined has an active row, while no user has two
\* connections: from the join that found or inserted it to the leave.
HasJoined(c) ==
    \/ stage[c] = "reading" /\ pid[c]
    \/ stage[c] \in {"join_start", "end_role", "end_meeting"}
    \/ stage[c] = "join_row" /\ pc[c] \in {"idle", "join_log"}

JoinedHaveRow ==
    (~DBErrors /\ OneTabEach) =>
        \A c \in Calls : HasJoined(c) => ActiveRows(user[c]) # {}

\* The goroutine that has ended the meeting and is about to announce it.
WillAnnounce(c) ==
    /\ stage[c] \in {"end_meeting", "exit_end"}
    /\ pc[c] = "end_log" \/ (pc[c] = "idle" /\ res[c] = "ok")

\* An ended meeting is known to everybody or about to be announced.
EndAnnounced ==
    (~DBErrors /\ status = "ended") =>
        hub \subseteq told \cup late \/ \E c \in Calls : WillAnnounce(c)

\* A host whose departure is still going to end the meeting.
AnswersFor(c) ==
    /\ role[c] = "host"
    /\ \/ stage[c] \in {"reading", "join", "join_status", "join_row", "join_start",
                        "end_role", "end_meeting", "exit_leave"}
       \/ stage[c] = "exit_end" /\ pc[c] \in {"end_read", "end_write"}

\* Until a host is spared, an active meeting has a host that answers for it.
HostAnswers ==
    (~DBErrors /\ ~spared) =>
        /\ \A c \in Calls : role[c] = "host" => pid[c]
        /\ status = "active" => \E c \in Calls : AnswersFor(c)

RoomIInv == /\ RoomTypeOK /\ CallsPlaced /\ Places
            /\ NoOrphanRow /\ JoinedHaveRow /\ EndAnnounced /\ HostAnswers

-----------------------------------------------------------------------------
(* The room is a caller of the service *)

\* A goroutine calls the service as its callers may, or executes the next
\* statement of its call, or leaves the service alone.
LEMMA GoroutineCalls ==
    ASSUME RoomTypeOK, Places, NEW c \in Calls, Client(c) \/ Handler(c)
    PROVE  Call(c) \/ Advance(c) \/ UNCHANGED vars
  <1>1. stage[c] # "offline" => user[c] \in Users
    BY DEF RoomTypeOK, Places
  <1>2. role[c] # "" => MapRole(role[c]) \in JoinRoles
    BY RolesMapped DEF Places
  <1>3. CASE \E u \in UsersOf[c] : Connect(c, u)
    BY <1>3 DEF Connect
  <1>4. CASE \E r \in RolesOf[c] : ReadJoin(c, r)
    BY <1>4 DEF ReadJoin
  <1>5. CASE ReadLeave(c)
    BY <1>1, <1>5 DEF ReadLeave, Moved, Call
  <1>6. CASE ReadEnd(c)
    BY <1>1, <1>6 DEF ReadEnd, Moved, Call
  <1>7. CASE Disconnect(c)
    BY <1>1, <1>7 DEF Disconnect, Moved, Call
  <1>8. CASE JoinHub(c)
    BY <1>8 DEF JoinHub, Call
  <1>9. CASE JoinRow(c)
    <2>1. stage[c] = "join_status" /\ Join(c, user[c], MapRole(role[c]))
      BY <1>9 DEF JoinRow, Moved
    <2>2. user[c] \in Users /\ MapRole(role[c]) \in JoinRoles
      BY <1>1, <1>2, <2>1 DEF Places
    <2>. QED BY <2>1, <2>2 DEF Call
  <1>10. CASE JoinStart(c) \/ EndAllowed(c) \/ ExitAutoEnd(c)
    BY <1>10 DEF JoinStart, EndAllowed, ExitAutoEnd, Call
  <1>11. CASE JoinEnd(c) \/ LeaveEnd(c) \/ EndRefused(c) \/ EndDone(c)
              \/ ExitKeepsMeeting(c) \/ ExitTold(c) \/ Exit(c)
    BY <1>11 DEF JoinEnd, LeaveEnd, EndRefused, EndDone, ExitKeepsMeeting,
       ExitTold, Exit
  <1>. QED BY <1>3, <1>4, <1>5, <1>6, <1>7, <1>8, <1>9, <1>10, <1>11
           DEF Client, Handler

LEMMA RoomStepIsServiceStep ==
    ASSUME RoomTypeOK, Places, [RoomNext]_roomVars
    PROVE  [Next]_vars
  <1>1. CASE UNCHANGED roomVars
    BY <1>1 DEF roomVars
  <1>2. CASE RoomNext
    BY <1>2, GoroutineCalls DEF RoomNext, Next
  <1>. QED BY <1>1, <1>2

\* The service's variables at one goroutine's step: the calls of the others
\* stay where they are.
LEMMA OthersCallsStay ==
    ASSUME TypeOK, NEW c \in Calls, Call(c) \/ Advance(c) \/ UNCHANGED vars,
           NEW d \in Calls, d # c
    PROVE  pc'[d] = pc[d] /\ arg'[d] = arg[d] /\ res'[d] = res[d]
  <1>0. /\ pc \in [Calls -> Step] /\ arg \in [Calls -> Arg]
        /\ res \in [Calls -> {"ok", "err"}]
    BY DEF TypeOK, CallsOK
  <1>. DEFINE Same == pc'[d] = pc[d] /\ arg'[d] = arg[d] /\ res'[d] = res[d]
  <1>1. ASSUME NEW step, Goto(c, step) PROVE Same
    BY <1>0, <1>1 DEF Goto
  <1>2. ASSUME NEW r, Finish(c, r) PROVE Same
    BY <1>0, <1>2 DEF Finish
  <1>3. ASSUME NEW step, NEW a, Enter(c, step, a) PROVE Same
    BY <1>0, <1>3 DEF Enter
  <1>4. CASE Call(c)
    BY <1>3, <1>4 DEF Call, GetStatus, StartMeeting, EndMeeting, RequireRole,
       Leave, Join
  <1>5. CASE StatusRead(c) \/ StartRead(c) \/ EndRead(c)
    <2>1. CASE Fails(c)
      BY <1>2, <2>1 DEF Fails
    <2>. QED BY <1>0, <1>2, <1>5, <2>1 DEF StatusRead, StartRead, EndRead
  <1>6. CASE Advance(c) /\ ~(StatusRead(c) \/ StartRead(c) \/ EndRead(c))
    BY <1>1, <1>2, <1>6 DEF Advance, RoleRead, StartWrite, StartLog, EndWrite,
       EndLog, JoinFind, JoinInsert, JoinLog, LeaveUpdate, LeaveLog, Fails
  <1>7. CASE UNCHANGED vars
    BY <1>7 DEF vars, local
  <1>. QED BY <1>4, <1>5, <1>6, <1>7

\* The statements of one call, in the order of its code.
Successor(from, to) ==
    \/ to = "idle"
    \/ from = "start_read" /\ to = "start_write"
    \/ from = "start_write" /\ to = "start_log"
    \/ from = "end_read" /\ to = "end_write"
    \/ from = "end_write" /\ to = "end_log"
    \/ from = "join_find" /\ to \in {"join_insert", "join_log"}
    \/ from = "join_insert" /\ to = "join_log"
    \/ from = "leave_update" /\ to = "leave_log"

\* A call in progress goes to a later statement of the same call, with the same
\* arguments, or returns.
LEMMA OwnCallGoesOn ==
    ASSUME TypeOK, NEW c \in Calls, Advance(c)
    PROVE  /\ pc[c] # "idle"
           /\ Successor(pc[c], pc'[c])
           /\ pc'[c] # "idle" => arg'[c] = arg[c]
  <1>0. pc \in [Calls -> Step] /\ arg \in [Calls -> Arg]
    BY DEF TypeOK, CallsOK
  <1>. USE <1>0 DEF Successor, Goto, Fails, Finish
  <1>1. CASE StatusRead(c) \/ RoleRead(c)
    BY <1>1 DEF StatusRead, RoleRead
  <1>2. CASE StartRead(c) \/ EndRead(c)
    BY <1>2 DEF StartRead, EndRead
  <1>3. CASE StartWrite(c) \/ EndWrite(c)
    BY <1>3 DEF StartWrite, EndWrite
  <1>4. CASE JoinFind(c) \/ JoinInsert(c)
    BY <1>4 DEF JoinFind, JoinInsert
  <1>5. CASE LeaveUpdate(c)
    BY <1>5 DEF LeaveUpdate
  <1>6. CASE StartLog(c) \/ EndLog(c) \/ JoinLog(c) \/ LeaveLog(c)
    BY <1>6 DEF StartLog, EndLog, JoinLog, LeaveLog
  <1>. QED BY <1>1, <1>2, <1>3, <1>4, <1>5, <1>6 DEF Advance

\* Entering the service puts the goroutine at the first statement of the call.
LEMMA OwnCallBegins ==
    ASSUME TypeOK, NEW c \in Calls, NEW step, NEW a, Enter(c, step, a)
    PROVE  pc'[c] = step /\ arg'[c] = a /\ UNCHANGED <<db, res>>
  BY DEF TypeOK, CallsOK, Enter

-----------------------------------------------------------------------------
(* Where the goroutines are *)

\* A step of a connection is a step of its goroutine only.
LEMMA OthersStay ==
    ASSUME TypeOK, RoomTypeOK, Places, NEW c \in Calls, Client(c) \/ Handler(c),
           NEW d \in Calls, d # c
    PROVE  /\ user'[d] = user[d] /\ stage'[d] = stage[d] /\ pid'[d] = pid[d]
           /\ role'[d] = role[d] /\ before'[d] = before[d]
           /\ remaining'[d] = remaining[d]
           /\ d \in hub' <=> d \in hub
           /\ d \in meta' <=> d \in meta
           /\ pc'[d] = pc[d] /\ arg'[d] = arg[d] /\ res'[d] = res[d]
  <1>0. /\ user \in [Calls -> Users \cup {NoUser}] /\ stage \in [Calls -> Stage]
        /\ pid \in [Calls -> BOOLEAN] /\ role \in [Calls -> WsRole \cup {""}]
        /\ before \in [Calls -> Status \cup {""}]
        /\ remaining \in [Calls -> SUBSET WsRole]
    BY DEF RoomTypeOK
  <1>1. Call(c) \/ Advance(c) \/ UNCHANGED vars
    BY GoroutineCalls
  <1>2. pc'[d] = pc[d] /\ arg'[d] = arg[d] /\ res'[d] = res[d]
    BY <1>1, OthersCallsStay
  <1>3. CASE Client(c)
    BY <1>0, <1>2, <1>3 DEF Client, Connect, ReadJoin, ReadLeave, ReadEnd,
       Disconnect, Moved, goroutine, tables, history
  <1>4. CASE Handler(c)
    BY <1>0, <1>2, <1>4 DEF Handler, JoinHub, JoinRow, JoinStart, JoinEnd, LeaveEnd,
       EndAllowed, EndRefused, EndDone, ExitAutoEnd, ExitKeepsMeeting, ExitTold,
       Exit, Moved, goroutine, tables, history
  <1>. QED BY <1>3, <1>4

\* The steps of a goroutine that change nothing of the room but its stage, its
\* statusBefore and what was announced.
Routine(c) ==
    \/ JoinRow(c) \/ JoinStart(c) \/ JoinEnd(c) \/ LeaveEnd(c) \/ ReadEnd(c)
    \/ EndAllowed(c) \/ EndRefused(c) \/ EndDone(c)
    \/ ExitAutoEnd(c) \/ ExitKeepsMeeting(c) \/ ExitTold(c)

\* The other steps of a connection.
Registers(c) ==
    \/ \E u \in UsersOf[c] : Connect(c, u)
    \/ \E r \in RolesOf[c] : ReadJoin(c, r)
    \/ ReadLeave(c) \/ Disconnect(c) \/ JoinHub(c) \/ Exit(c)

LEMMA RoomSteps ==
    ASSUME NEW c \in Calls, Client(c) \/ Handler(c)
    PROVE  \/ Routine(c) \/ Registers(c)
           \/ Advance(c) /\ UNCHANGED <<goroutine, tables, history>>
  BY DEF Client, Handler, Routine, Registers

\* Between two stages of a handler.
LEMMA RoutineLemma ==
    ASSUME RoomTypeOK, NEW c \in Calls, Routine(c)
    PROVE  /\ UNCHANGED <<user, pid, role, remaining, tables, late>>
           /\ stage[c] \notin {"offline", "exit", "closed", "join"}
           /\ \E s \in Stage \ {"offline", "closed", "join"} :
                /\ stage' = [stage EXCEPT ![c] = s]
                /\ s \in {"exit_leave", "exit_end", "exit"}
                      <=> stage[c] \in {"exit_leave", "exit_end"}
           /\ told' \in {told, told \cup hub}
           /\ spared => spared'
           /\ spared' \in BOOLEAN
  <1>0. spared \in BOOLEAN
    BY DEF RoomTypeOK
  <1>1. CASE JoinRow(c) \/ JoinStart(c)
    BY <1>0, <1>1 DEF JoinRow, JoinStart, Moved, Stage, tables, history
  <1>2. CASE JoinEnd(c)
    <2>1. /\ stage[c] \in {"join_row", "join_start"}
          /\ stage' = [stage EXCEPT ![c] = "reading"]
          /\ UNCHANGED <<user, pid, role, remaining, tables, history>>
      BY <1>2 DEF JoinEnd, Moved
    <2>2. /\ "reading" \in Stage \ {"offline", "closed", "join"}
          /\ "reading" \in {"exit_leave", "exit_end", "exit"}
                      <=> stage[c] \in {"exit_leave", "exit_end"}
      BY <2>1 DEF Stage
    <2>3. UNCHANGED <<user, pid, role, remaining, tables, late, told, spared>>
      BY <2>1 DEF history
    <2>. QED BY <1>0, <2>1, <2>2, <2>3
  <1>3. CASE LeaveEnd(c) \/ ReadEnd(c)
    BY <1>0, <1>3 DEF LeaveEnd, ReadEnd, Moved, Stage, tables, history
  <1>4. CASE EndAllowed(c) \/ EndRefused(c)
    BY <1>0, <1>4 DEF EndAllowed, EndRefused, Moved, Stage, tables, history
  <1>5. CASE EndDone(c) \/ ExitTold(c)
    BY <1>0, <1>5 DEF EndDone, ExitTold, TellEnded, Moved, Stage, tables, history
  <1>6. CASE ExitAutoEnd(c) \/ ExitKeepsMeeting(c)
    BY <1>0, <1>6 DEF ExitAutoEnd, ExitKeepsMeeting, Moved, Stage, tables, history
  <1>. QED BY <1>1, <1>2, <1>3, <1>4, <1>5, <1>6 DEF Routine

\* The room's variables stay typed; connRoles has the connections being served.
LEMMA RoomTypeStep ==
    ASSUME TypeOK, RoomTypeOK, Places, [RoomNext]_roomVars
    PROVE  RoomTypeOK'
  <1>0. /\ user \in [Calls -> Users \cup {NoUser}] /\ stage \in [Calls -> Stage]
        /\ pid \in [Calls -> BOOLEAN] /\ role \in [Calls -> WsRole \cup {""}]
        /\ before \in [Calls -> Status \cup {""}]
        /\ remaining \in [Calls -> SUBSET WsRole]
        /\ meta \subseteq hub /\ hub \subseteq Calls
        /\ connRoles \in [Serving -> WsRole \cup {""}]
        /\ told \subseteq Calls /\ late \subseteq Calls /\ spared \in BOOLEAN
        /\ \A d \in Serving : user[d] # NoUser
    BY DEF RoomTypeOK
  <1>1. CASE UNCHANGED roomVars
    BY <1>1 DEF roomVars, goroutine, tables, history, RoomTypeOK, Serving
  <1>2. ASSUME NEW c \in Calls, Routine(c)
        PROVE  RoomTypeOK'
    <2>1. before' \in [Calls -> Status \cup {""}]
      <3>1. seen \in [Calls -> Status]
        BY DEF TypeOK, CallsOK
      <3>2. before' = before \/ \E b \in Status \cup {""} : before' = [before EXCEPT ![c] = b]
        BY <1>2, <3>1 DEF Routine, JoinRow, JoinStart, JoinEnd, LeaveEnd, ReadEnd,
       EndAllowed, EndRefused, EndDone, ExitAutoEnd, ExitKeepsMeeting, ExitTold
      <3>. QED BY <1>0, <3>2
    <2>2. PICK s \in Stage \ {"offline", "closed", "join"} :
                /\ stage' = [stage EXCEPT ![c] = s]
                /\ s \in {"exit_leave", "exit_end", "exit"}
                      <=> stage[c] \in {"exit_leave", "exit_end"}
      BY <1>2, RoutineLemma
    <2>3. Serving' = Serving
      BY <1>0, <1>2, <2>2, RoutineLemma DEF Serving
    <2>4. stage' \in [Calls -> Stage]
      BY <1>0, <2>2
    <2>5. /\ UNCHANGED <<user, pid, role, remaining, hub, meta, connRoles, late>>
          /\ told' \subseteq Calls /\ spared' \in BOOLEAN
      BY <1>0, <1>2, RoutineLemma DEF tables
    <2>. QED BY <1>0, <2>1, <2>3, <2>4, <2>5 DEF RoomTypeOK
  <1>3. ASSUME NEW c \in Calls, Registers(c)
        PROVE  RoomTypeOK'
    <2>1. CASE \E u \in UsersOf[c] : Connect(c, u)
      <3>1. PICK u \in UsersOf[c] : Connect(c, u)
        BY <2>1
      <3>2. u \in Users /\ u # NoUser
        BY ConnsType, DistinctNulls
      <3>3. /\ stage' = [stage EXCEPT ![c] = "reading"]
            /\ user' = [user EXCEPT ![c] = u]
        BY <3>1 DEF Connect, Moved
      <3>4. stage' \in [Calls -> Stage] /\ user' \in [Calls -> Users \cup {NoUser}]
        BY <1>0, <3>2, <3>3 DEF Stage
      <3>5. Serving' = Serving \cup {c}
        BY <1>0, <3>3 DEF Serving
      <3>6. \A d \in Serving' : user'[d] # NoUser
        <4>1. \A d \in Serving : d \in Calls
          BY DEF Serving
        <4>. QED BY <1>0, <3>2, <3>3, <3>5, <4>1
      <3>7. connRoles' \in [Serving' -> WsRole \cup {""}]
        BY <1>0, <3>1, <3>5 DEF Connect
      <3>. QED BY <1>0, <3>1, <3>4, <3>6, <3>7 DEF RoomTypeOK, Connect
    <2>2. CASE \E r \in RolesOf[c] : ReadJoin(c, r)
      <3>1. PICK r \in RolesOf[c] : ReadJoin(c, r)
        BY <2>2
      <3>2. r \in WsRole /\ c \in Serving
        BY <1>0, <3>1, ConnsType DEF ReadJoin, Moved, Serving
      <3>3. stage' = [stage EXCEPT ![c] = "join"]
        BY <3>1 DEF ReadJoin, Moved
      <3>4. Serving' = Serving /\ stage' \in [Calls -> Stage]
        BY <1>0, <3>2, <3>3 DEF Serving, Stage
      <3>. QED BY <1>0, <3>1, <3>2, <3>4 DEF RoomTypeOK, ReadJoin, history
    <2>3. CASE ReadLeave(c)
      <3>1. stage' = [stage EXCEPT ![c] = "leave"] /\ c \in Serving
        BY <2>3 DEF ReadLeave, Moved, Serving
      <3>2. Serving' = Serving /\ stage' \in [Calls -> Stage]
        BY <1>0, <3>1 DEF Serving, Stage
      <3>. QED BY <1>0, <2>3, <3>2 DEF RoomTypeOK, ReadLeave
    <2>4. CASE Disconnect(c)
      <3>1. \E s \in {"exit_leave", "exit"} : stage' = [stage EXCEPT ![c] = s]
        BY <2>4 DEF Disconnect, Moved
      <3>2. Serving' = Serving \ {c} /\ stage' \in [Calls -> Stage]
        BY <1>0, <3>1 DEF Serving, Stage
      <3>3. connRoles' \in [Serving' -> WsRole \cup {""}]
        BY <1>0, <2>4, <3>2 DEF Disconnect, Without
      <3>4. remaining' \in [Calls -> SUBSET WsRole]
        <4>. DEFINE left == {connRoles[d] : d \in DOMAIN connRoles \ {c}} \ {""}
        <4>1. left \in SUBSET WsRole
          BY <1>0
        <4>2. remaining' = [remaining EXCEPT ![c] = left]
          BY <2>4 DEF Disconnect
        <4>. HIDE DEF left
        <4>. QED BY <1>0, <4>1, <4>2
      <3>. QED BY <1>0, <2>4, <3>2, <3>3, <3>4 DEF RoomTypeOK, Disconnect, history
    <2>5. CASE JoinHub(c)
      <3>1. stage' = [stage EXCEPT ![c] = "join_status"] /\ stage[c] = "join"
        BY <2>5 DEF JoinHub, Moved
      <3>2. Serving' = Serving /\ stage' \in [Calls -> Stage]
        BY <1>0, <3>1 DEF Serving, Stage
      <3>3. c \in hub
        BY <3>1 DEF Places
      <3>. QED BY <1>0, <2>5, <3>2, <3>3 DEF RoomTypeOK, JoinHub, history
    <2>6. CASE Exit(c)
      <3>1. stage' = [stage EXCEPT ![c] = "closed"] /\ stage[c] = "exit"
        BY <2>6 DEF Exit, Moved
      <3>2. Serving' = Serving /\ stage' \in [Calls -> Stage]
        BY <1>0, <3>1 DEF Serving, Stage
      <3>. QED BY <1>0, <2>6, <3>2 DEF RoomTypeOK, Exit, history
    <2>. QED BY <1>3, <2>1, <2>2, <2>3, <2>4, <2>5, <2>6 DEF Registers
  <1>4. ASSUME UNCHANGED <<goroutine, tables, history>>
        PROVE  RoomTypeOK'
    BY <1>4 DEF goroutine, tables, history, RoomTypeOK, Serving
  <1>. QED BY <1>1, <1>2, <1>3, <1>4, RoomSteps DEF RoomNext

\* A goroutine that moves to another stage has no call in progress, or enters
\* the one its new stage makes, for the user of its connection.
LEMMA CallsPlacedStep ==
    ASSUME TypeOK, RoomTypeOK, Places, CallsPlaced, [RoomNext]_roomVars
    PROVE  CallsPlaced'
  <1>0. /\ pc \in [Calls -> Step] /\ arg \in [Calls -> Arg]
        /\ user \in [Calls -> Users \cup {NoUser}] /\ stage \in [Calls -> Stage]
    BY DEF TypeOK, CallsOK, RoomTypeOK
  <1>. DEFINE OfUser == {"join_find", "join_insert", "join_log",
                         "leave_update", "leave_log"}
              Placed(d) == /\ pc[d] \in {"idle"} \cup Statements(stage[d])
                           /\ pc[d] \in OfUser => arg[d].user = user[d]
  <1>1. CASE UNCHANGED roomVars
    BY <1>1 DEF roomVars, vars, local, goroutine, CallsPlaced
  <1>2. ASSUME NEW c \in Calls, Client(c) \/ Handler(c)
        PROVE  CallsPlaced'
    <2>1. ASSUME NEW d \in Calls, d # c
          PROVE  Placed(d)'
      BY <1>2, <2>1, OthersStay DEF CallsPlaced
    <2>2. Placed(c)'
      <3>1. ASSUME pc'[c] = "idle"
            PROVE  Placed(c)'
        BY <3>1
      <3>2. ASSUME NEW s, stage' = [stage EXCEPT ![c] = s], UNCHANGED user,
                   NEW step \in Statements(s), NEW a, Enter(c, step, a),
                   step \in OfUser => a.user = user[c]
            PROVE  Placed(c)'
        <4>1. stage'[c] = s /\ pc'[c] = step /\ arg'[c] = a /\ user'[c] = user[c]
          BY <1>0, <3>2, OwnCallBegins
        <4>. QED BY <3>2, <4>1
      <3>3. CASE Advance(c) /\ UNCHANGED <<goroutine, tables, history>>
        <4>1. stage'[c] = stage[c] /\ user'[c] = user[c]
          BY <3>3 DEF goroutine
        <4>2. CASE pc'[c] = "idle"
          BY <3>1, <4>2
        <4>3. CASE pc'[c] # "idle"
          <5>1. /\ pc[c] # "idle" /\ Successor(pc[c], pc'[c]) /\ arg'[c] = arg[c]
                /\ Placed(c)
            BY <3>3, <4>3, OwnCallGoesOn DEF CallsPlaced
          <5>2. pc'[c] \in Statements(stage[c])
            BY <4>3, <5>1 DEF Successor, Statements
          <5>3. pc'[c] \in OfUser => pc[c] \in OfUser
            BY <4>3, <5>1 DEF Successor
          <5>. QED BY <4>1, <5>1, <5>2, <5>3
        <4>. QED BY <4>2, <4>3
      <3>4. CASE Routine(c)
        <4>1. CASE JoinRow(c)
          BY <3>2, <4>1 DEF JoinRow, Moved, Join, Statements, NoArg
        <4>2. CASE JoinStart(c)
          BY <3>2, <4>2 DEF JoinStart, Moved, StartMeeting, Statements
        <4>3. CASE ReadEnd(c)
          BY <3>2, <4>3 DEF ReadEnd, Moved, RequireRole, Statements
        <4>4. CASE EndAllowed(c)
          BY <3>2, <4>4 DEF EndAllowed, Moved, EndMeeting, Statements
        <4>5. CASE ExitAutoEnd(c)
          BY <3>2, <4>5 DEF ExitAutoEnd, Moved, EndMeeting, Statements
        <4>6. CASE JoinEnd(c) \/ LeaveEnd(c) \/ EndRefused(c) \/ EndDone(c)
                   \/ ExitKeepsMeeting(c) \/ ExitTold(c)
          BY <3>1, <4>6 DEF JoinEnd, LeaveEnd, EndRefused, EndDone, ExitKeepsMeeting,
             ExitTold, Moved, vars, local
        <4>. QED BY <3>4, <4>1, <4>2, <4>3, <4>4, <4>5, <4>6 DEF Routine
      <3>5. CASE Registers(c)
        <4>1. CASE \E u \in UsersOf[c] : Connect(c, u)
          BY <3>1, <4>1 DEF Connect, Moved, vars, local
        <4>2. CASE \E r \in RolesOf[c] : ReadJoin(c, r)
          BY <3>1, <4>2 DEF ReadJoin, Moved, vars, local
        <4>3. CASE ReadLeave(c)
          BY <3>2, <4>3 DEF ReadLeave, Moved, Leave, Statements, NoArg
        <4>4. CASE Disconnect(c)
          <5>1. CASE Moved(c, "reading", "exit_leave") /\ Leave(c, user[c])
            BY <3>2, <4>4, <5>1 DEF Disconnect, Moved, Leave, Statements, NoArg
          <5>2. CASE Moved(c, "reading", "exit") /\ UNCHANGED vars
            BY <3>1, <5>2 DEF Moved, vars, local
          <5>. QED BY <4>4, <5>1, <5>2 DEF Disconnect
        <4>5. CASE JoinHub(c)
          BY <3>2, <4>5 DEF JoinHub, Moved, GetStatus, Statements
        <4>6. CASE Exit(c)
          BY <3>1, <4>6 DEF Exit, Moved, vars, local
        <4>. QED BY <3>5, <4>1, <4>2, <4>3, <4>4, <4>5, <4>6 DEF Registers
      <3>. QED BY <1>2, <3>3, <3>4, <3>5, RoomSteps
    <2>. QED BY <2>1, <2>2 DEF CallsPlaced
  <1>. QED BY <1>1, <1>2 DEF RoomNext

\* The hub, the metadata and the goroutine's locals change together.
LEMMA PlacesStep ==
    ASSUME TypeOK, RoomTypeOK, Places, CallsPlaced, [RoomNext]_roomVars
    PROVE  Places'
  <1>0. /\ user \in [Calls -> Users \cup {NoUser}] /\ stage \in [Calls -> Stage]
        /\ pid \in [Calls -> BOOLEAN] /\ role \in [Calls -> WsRole \cup {""}]
    BY DEF RoomTypeOK
  <1>. DEFINE Place(d) ==
        /\ stage[d] = "offline" <=> user[d] = NoUser
        /\ d \in hub <=> stage[d] \notin {"offline", "closed"}
        /\ role[d] \in RolesOf[d] \cup {""}
        /\ pid[d] => role[d] # "" /\ d \in hub
        /\ stage[d] \in {"join", "join_status", "join_row", "join_start", "end_role",
                         "end_meeting", "exit_leave", "exit_end"} => pid[d]
        /\ stage[d] \in {"join_status", "join_row", "join_start", "end_role",
                         "end_meeting"} => d \in meta
        /\ stage[d] \in {"reading", "leave"} => (d \in meta <=> pid[d])
        /\ stage[d] = "leave" => ~pid[d]
        /\ stage[d] = "join_start" => role[d] = "host"
  <1>1. CASE UNCHANGED <<goroutine, tables, history>>
    BY <1>1 DEF goroutine, tables, history, Places
  <1>2. ASSUME NEW c \in Calls, Client(c) \/ Handler(c)
        PROVE  Places'
    <2>0. Place(c)
      BY DEF Places
    <2>1. ASSUME NEW d \in Calls, d # c
          PROVE  Place(d)'
      BY <1>2, <2>1, OthersStay DEF Places
    <2>2. Place(c)'
      <3>1. CASE Routine(c)
        <4>1. UNCHANGED <<user, pid, role, hub, meta>>
          BY <3>1, RoutineLemma DEF tables
        <4>2. CASE JoinRow(c)
          BY <1>0, <2>0, <4>1, <4>2 DEF JoinRow, Moved
        <4>3. CASE JoinStart(c)
          <5>1. MapRole(role[c]) = "host" /\ stage[c] = "join_row"
                /\ stage' = [stage EXCEPT ![c] = "join_start"]
            BY <4>3 DEF JoinStart, StartsMeeting, Moved
          <5>2. role[c] = "host"
            BY <5>1 DEF MapRole
          <5>. QED BY <1>0, <2>0, <4>1, <5>1, <5>2
        <4>4. CASE JoinEnd(c)
          BY <1>0, <2>0, <4>1, <4>4 DEF JoinEnd, Moved
        <4>5. CASE LeaveEnd(c)
          BY <1>0, <2>0, <4>1, <4>5 DEF LeaveEnd, Moved
        <4>6. CASE ReadEnd(c)
          BY <1>0, <2>0, <4>1, <4>6 DEF ReadEnd, Moved
        <4>7. CASE EndAllowed(c) \/ EndRefused(c)
          BY <1>0, <2>0, <4>1, <4>7 DEF EndAllowed, EndRefused, Moved
        <4>8. CASE EndDone(c)
          BY <1>0, <2>0, <4>1, <4>8 DEF EndDone, Moved
        <4>9. CASE ExitAutoEnd(c) \/ ExitKeepsMeeting(c) \/ ExitTold(c)
          BY <1>0, <2>0, <4>1, <4>9 DEF ExitAutoEnd, ExitKeepsMeeting, ExitTold, Moved
        <4>. QED BY <3>1, <4>2, <4>3, <4>4, <4>5, <4>6, <4>7, <4>8, <4>9 DEF Routine
      <3>2. CASE Registers(c)
        <4>1. CASE \E u \in UsersOf[c] : Connect(c, u)
          <5>1. PICK u \in UsersOf[c] : Connect(c, u)
            BY <4>1
          <5>2. u # NoUser
            BY ConnsType, DistinctNulls
          <5>3. ~pid[c] /\ c \notin meta
            BY <2>0, <5>1 DEF Connect, Moved, RoomTypeOK
          <5>. QED BY <1>0, <2>0, <5>1, <5>2, <5>3 DEF Connect, Moved
        <4>2. CASE \E r \in RolesOf[c] : ReadJoin(c, r)
          <5>1. PICK r \in RolesOf[c] : ReadJoin(c, r)
            BY <4>2
          <5>2. r # ""
            BY ConnsType DEF WsRole
          <5>. QED BY <1>0, <2>0, <5>1, <5>2 DEF ReadJoin, Moved
        <4>3. CASE ReadLeave(c)
          BY <1>0, <2>0, <4>3 DEF ReadLeave, Moved
        <4>4. CASE Disconnect(c)
          BY <1>0, <2>0, <4>4 DEF Disconnect, Moved
        <4>5. CASE JoinHub(c)
          BY <1>0, <2>0, <4>5 DEF JoinHub, Moved
        <4>6. CASE Exit(c)
          BY <1>0, <2>0, <4>6 DEF Exit, Moved
        <4>. QED BY <3>2, <4>1, <4>2, <4>3, <4>4, <4>5, <4>6 DEF Registers
      <3>3. CASE UNCHANGED <<goroutine, tables, history>>
        BY <2>0, <3>3 DEF goroutine, tables
      <3>. QED BY <1>2, <3>1, <3>2, <3>3, RoomSteps
    <2>. QED BY <2>1, <2>2 DEF Places
  <1>. QED BY <1>1, <1>2 DEF RoomNext, roomVars

-----------------------------------------------------------------------------
(* Rows and connections *)

\* Only a statement of the service changes its tables, and only a goroutine
\* that is not inside the service changes the room.
LEMMA RoomOrService ==
    ASSUME NEW c \in Calls, Routine(c) \/ Registers(c)
    PROVE  pc[c] = "idle" /\ UNCHANGED db
  <1>1. CASE Routine(c)
    BY <1>1 DEF Routine, JoinRow, JoinStart, JoinEnd, LeaveEnd, ReadEnd, EndAllowed,
       EndRefused, EndDone, ExitAutoEnd, ExitKeepsMeeting, ExitTold, Moved, vars,
       Join, StartMeeting, EndMeeting, RequireRole, Enter
  <1>2. CASE Registers(c)
    BY <1>2 DEF Registers, Connect, ReadJoin, ReadLeave, Disconnect, JoinHub, Exit,
       Moved, vars, Leave, GetStatus, Enter
  <1>. QED BY <1>1, <1>2

\* Which users have an active row changes by the insert of a Join and the
\* update of a Leave only.
LEMMA ActiveRowsStep ==
    ASSUME TypeOK, ArgsPresent, NEW c \in Calls, Advance(c), NEW u
    PROVE  \/ ActiveRows(u)' = {} <=> ActiveRows(u) = {}
           \/ pc[c] = "join_insert" /\ arg[c].user = u /\ ActiveRows(u)' # {}
           \/ pc[c] = "leave_update" /\ arg[c].user = u /\ ActiveRows(u)' = {}
  <1>0. rows \in Seq(Row) /\ arg \in [Calls -> Arg] /\ TablesOK
    BY DEF TypeOK, TablesOK, CallsOK
  <1>1. CASE UNCHANGED rows
    BY <1>1 DEF ActiveRows
  <1>2. CASE pc[c] = "join_insert" /\ InsertRow(arg[c].user, arg[c].role)
    <2>. DEFINE row == [user |-> arg[c].user, role |-> arg[c].role, active |-> TRUE]
    <2>1. rows' = Append(rows, row)
      BY <1>2 DEF InsertRow
    <2>2. /\ DOMAIN rows' = DOMAIN rows \cup {Len(rows) + 1}
          /\ \A i \in DOMAIN rows : rows'[i] = rows[i] /\ i # Len(rows) + 1
          /\ rows'[Len(rows) + 1] = row
      BY <1>0, <2>1
    <2>3. CASE arg[c].user = u
      <3>1. Len(rows) + 1 \in ActiveRows(u)'
        BY <2>2, <2>3 DEF ActiveRows
      <3>. QED BY <1>2, <2>3, <3>1
    <2>4. CASE arg[c].user # u
      <3>1. ActiveRows(u)' = ActiveRows(u)
        BY <2>2, <2>4 DEF ActiveRows
      <3>. QED BY <3>1
    <2>. QED BY <2>3, <2>4
  <1>3. CASE pc[c] = "leave_update" /\ DeactivateRows(arg[c].user)
    <2>1. /\ DOMAIN rows' = DOMAIN rows
          /\ \A i \in DOMAIN rows :
                rows'[i] = IF i \in ActiveRows(arg[c].user)
                              THEN [rows[i] EXCEPT !.active = FALSE] ELSE rows[i]
      BY <1>3 DEF DeactivateRows
    <2>2. \A i \in DOMAIN rows : rows[i] \in Row
      BY <1>0
    <2>3. CASE arg[c].user = u
      <3>1. ActiveRows(u)' = {}
        BY <2>1, <2>2, <2>3 DEF ActiveRows, Row
      <3>. QED BY <1>3, <2>3, <3>1
    <2>4. CASE arg[c].user # u
      <3>1. \A i \in DOMAIN rows : i \in ActiveRows(u)' <=> i \in ActiveRows(u)
        BY <2>1, <2>2, <2>4 DEF ActiveRows, Row
      <3>2. ActiveRows(u)' = ActiveRows(u)
        BY <2>1, <3>1 DEF ActiveRows
      <3>. QED BY <3>2
    <2>. QED BY <2>3, <2>4
  <1>. QED BY <1>1, <1>2, <1>3, StatementOf
           DEF Writes, SetStatusActive, SetStatusEnded, AppendEvent, db

\* Every step that leaves a user with an active row leaves the user a
\* connection that is going to deactivate it.
LEMMA NoOrphanStep ==
    ASSUME TypeOK, ArgsPresent, RoomTypeOK, Places, CallsPlaced, NoOrphanRow,
           [RoomNext]_roomVars
    PROVE  NoOrphanRow'
  <1>0. /\ user \in [Calls -> Users \cup {NoUser}] /\ stage \in [Calls -> Stage]
        /\ pid \in [Calls -> BOOLEAN] /\ pc \in [Calls -> Step]
    BY DEF RoomTypeOK, TypeOK, CallsOK
  <1>1. CASE UNCHANGED roomVars
    BY <1>1 DEF roomVars, vars, db, local, goroutine, NoOrphanRow, InDatabase,
       ActiveRows, StillLeaves
  <1>2. ASSUME NEW c \in Calls, Client(c) \/ Handler(c), ~DBErrors,
               NEW u \in Users, ActiveRows(u)' # {}
        PROVE  \E d \in Calls : (user[d] = u /\ StillLeaves(d))'
    <2>1. CASE Advance(c) /\ UNCHANGED <<goroutine, tables, history>>
      <3>1. UNCHANGED <<user, stage, pid>>
        BY <2>1 DEF goroutine
      <3>2. CASE pc[c] = "join_insert" /\ arg[c].user = u
        <4>1. stage[c] = "join_row" /\ user[c] = u
          BY <1>0, <3>2 DEF CallsPlaced, Statements
        <4>2. pid[c]
          BY <4>1 DEF Places
        <4>. QED BY <3>1, <4>1, <4>2 DEF StillLeaves
      <3>3. CASE ActiveRows(u) # {}
        <4>1. PICK d \in Calls : user[d] = u /\ StillLeaves(d)
          BY <1>2, <3>3 DEF NoOrphanRow, InDatabase
        <4>2. CASE d # c \/ pc[c] # "leave_update"
          <5>1. pc'[d] = pc[d] \/ pc[d] # "leave_update"
            BY <2>1, <4>2, OthersCallsStay
          <5>. QED BY <3>1, <4>1, <5>1 DEF StillLeaves
        <4>3. CASE d = c /\ pc[c] = "leave_update"
          <5>1. arg[c].user = u
            BY <4>1, <4>3 DEF CallsPlaced
          <5>2. LeaveUpdate(c)
            BY <2>1, <4>3 DEF Advance, StatusRead, RoleRead, StartRead, StartWrite,
               StartLog, EndRead, EndWrite, EndLog, JoinFind, JoinInsert, JoinLog,
               LeaveLog
          <5>3. DeactivateRows(u)
            BY <1>2, <3>3, <5>1, <5>2 DEF LeaveUpdate, Fails
          <5>4. ActiveRows(u)' = {}
            <6>1. \A i \in DOMAIN rows : rows[i] \in Row
              BY DEF TypeOK, TablesOK
            <6>. QED BY <5>3, <6>1 DEF DeactivateRows, ActiveRows, Row
          <5>. QED BY <1>2, <5>4
        <4>. QED BY <4>2, <4>3
      <3>. QED BY <1>2, <2>1, <3>2, <3>3, ActiveRowsStep
    <2>2. CASE Routine(c) \/ Registers(c)
      <3>1. ActiveRows(u) # {} /\ pc[c] = "idle"
        BY <1>2, <2>2, RoomOrService DEF db, ActiveRows
      <3>2. PICK d \in Calls : user[d] = u /\ StillLeaves(d)
        BY <1>2, <3>1 DEF NoOrphanRow, InDatabase
      <3>3. CASE d # c
        <4>1. user'[d] = user[d] /\ pid'[d] = pid[d] /\ stage'[d] = stage[d] /\ pc'[d] = pc[d]
          BY <1>2, <3>3, OthersStay
        <4>. QED BY <3>2, <4>1 DEF StillLeaves
      <3>4. CASE d = c /\ Routine(c)
        <4>1. /\ user' = user /\ pid' = pid
              /\ stage'[c] \in {"exit_leave", "exit_end", "exit"}
                    => stage[c] \in {"exit_leave", "exit_end"}
          BY <1>0, <3>4, RoutineLemma
        <4>. QED BY <3>1, <3>2, <3>4, <4>1 DEF StillLeaves
      <3>5. CASE d = c /\ Registers(c)
        <4>0. pid[c] /\ stage[c] \notin {"exit_leave", "exit_end", "exit"} /\ user[c] = u
          BY <3>1, <3>2, <3>5 DEF StillLeaves
        <4>1. ~ (stage[c] = "offline")
          BY <4>0 DEF Places
        <4>2. CASE \E r \in RolesOf[c] : ReadJoin(c, r)
          BY <1>0, <4>0, <4>2 DEF ReadJoin, Moved, StillLeaves
        <4>3. CASE ReadLeave(c)
          BY <1>0, <4>0, <4>3, OwnCallBegins DEF ReadLeave, Leave, StillLeaves
        <4>4. CASE Disconnect(c)
          BY <1>0, <4>0, <4>4, OwnCallBegins DEF Disconnect, Leave, StillLeaves
        <4>5. CASE JoinHub(c)
          BY <1>0, <4>0, <4>5 DEF JoinHub, Moved, StillLeaves
        <4>. QED BY <3>5, <4>0, <4>1, <4>2, <4>3, <4>4, <4>5 DEF Registers, Connect, Exit, Moved
      <3>. QED BY <2>2, <3>3, <3>4, <3>5
    <2>. QED BY <1>2, <2>1, <2>2, RoomSteps
  <1>. QED BY <1>1, <1>2 DEF RoomNext, NoOrphanRow, InDatabase

\* While no user has a second connection, nobody but a connection itself takes
\* away the row its join has found or inserted.
LEMMA JoinedStep ==
    ASSUME TypeOK, ArgsPresent, RoomTypeOK, Places, CallsPlaced, JoinedHaveRow,
           [RoomNext]_roomVars
    PROVE  JoinedHaveRow'
  <1>0. /\ user \in [Calls -> Users \cup {NoUser}] /\ stage \in [Calls -> Stage]
        /\ pid \in [Calls -> BOOLEAN] /\ pc \in [Calls -> Step]
    BY DEF RoomTypeOK, TypeOK, CallsOK
  <1>1. CASE UNCHANGED roomVars
    BY <1>1 DEF roomVars, vars, db, local, goroutine, JoinedHaveRow, OneTabEach,
       ActiveRows, HasJoined
  <1>2. ASSUME NEW c \in Calls, Client(c) \/ Handler(c), ~DBErrors, OneTabEach',
               NEW e \in Calls, HasJoined(e)'
        PROVE  ActiveRows(user[e])' # {}
    <2>1. OneTabEach
      <3>1. \A d \in Calls : d # c => user'[d] = user[d]
        BY <1>2, OthersStay
      <3>2. user'[c] = user[c] \/ user[c] = NoUser
        <4>1. CASE Routine(c)
          BY <4>1, RoutineLemma
        <4>2. CASE Registers(c)
          BY <4>2 DEF Registers, Connect, ReadJoin, ReadLeave, Disconnect, JoinHub,
             Exit, Moved, Places
        <4>. QED BY <1>2, <4>1, <4>2, RoomSteps DEF goroutine
      <3>. QED BY <1>2, <3>1, <3>2 DEF OneTabEach
    <2>2. CASE Advance(c) /\ UNCHANGED <<goroutine, tables, history>>
      <3>1. UNCHANGED <<user, stage, pid>>
        BY <2>2 DEF goroutine
      <3>2. CASE HasJoined(e) /\ ~(pc[c] = "leave_update" /\ arg[c].user = user[e])
        <4>1. ActiveRows(user[e]) # {}
          BY <1>2, <2>1, <3>2 DEF JoinedHaveRow
        <4>2. \A u : u = user[e] => ActiveRows(u)' # {}
          BY <2>2, <3>2, <4>1, ActiveRowsStep
        <4>. QED BY <3>1, <4>2 DEF ActiveRows
      <3>3. CASE pc[c] = "leave_update" /\ arg[c].user = user[e]
        <4>1. user[c] = user[e] /\ stage[c] \in {"leave", "exit_leave"}
          BY <1>0, <3>3 DEF CallsPlaced, Statements
        <4>2. c = e
          BY <2>1, <4>1 DEF OneTabEach, Places
        <4>. QED BY <1>2, <3>1, <4>1, <4>2 DEF HasJoined
      <3>4. CASE ~HasJoined(e)
        <4>1. /\ e = c /\ stage[c] = "join_row"
              /\ pc[c] \notin {"idle", "join_log"} /\ pc'[c] \in {"idle", "join_log"}
          <5>1. e # c => pc'[e] = pc[e]
            BY <2>2, OthersCallsStay
          <5>. QED BY <1>2, <3>1, <3>4, <5>1 DEF HasJoined
        <4>2. pc[c] \in {"join_find", "join_insert"} /\ arg[c].user = user[c]
          BY <4>1 DEF CallsPlaced, Statements
        <4>3. JoinFind(c) \/ JoinInsert(c)
          BY <2>2, <4>2 DEF Advance, StatusRead, RoleRead, StartRead, StartWrite,
             StartLog, EndRead, EndWrite, EndLog, JoinLog, LeaveUpdate, LeaveLog
        <4>4. CASE JoinFind(c)
          <5>1. ActiveRows(user[c]) # {} /\ rows' = rows
            BY <1>0, <1>2, <4>1, <4>2, <4>4 DEF JoinFind, Goto, db
          <5>. QED BY <3>1, <4>1, <5>1 DEF ActiveRows
        <4>5. CASE JoinInsert(c)
          <5>1. \/ InsertRow(user[c], arg[c].role)
                \/ ActiveRows(user[c]) # {} /\ rows' = rows
            BY <1>2, <4>2, <4>5 DEF JoinInsert, Fails, db
          <5>2. CASE InsertRow(user[c], arg[c].role)
            <6>1. rows \in Seq(Row)
              BY DEF TypeOK, TablesOK
            <6>2. Len(rows) + 1 \in DOMAIN rows'
                  /\ rows'[Len(rows) + 1] = [user |-> user[c], role |-> arg[c].role,
                                             active |-> TRUE]
              BY <5>2, <6>1 DEF InsertRow
            <6>. QED BY <3>1, <4>1, <6>2 DEF ActiveRows
          <5>. QED BY <3>1, <4>1, <5>1, <5>2 DEF ActiveRows
        <4>. QED BY <4>3, <4>4, <4>5
      <3>. QED BY <3>2, <3>3, <3>4
    <2>3. CASE Routine(c) \/ Registers(c)
      <3>1. rows' = rows /\ pc[c] = "idle"
        BY <2>3, RoomOrService DEF db
      <3>2. HasJoined(e) /\ user'[e] = user[e]
        <4>1. CASE e # c
          <5>1. user'[e] = user[e] /\ stage'[e] = stage[e] /\ pid'[e] = pid[e]
                /\ pc'[e] = pc[e]
            BY <1>2, <4>1, OthersStay
          <5>. QED BY <1>2, <5>1 DEF HasJoined
        <4>2. CASE e = c /\ Routine(c)
          <5>0. UNCHANGED <<user, pid>>
            BY <4>2, RoutineLemma
          <5>1. CASE JoinRow(c)
            <6>1. pc'[c] = "join_find" /\ stage'[c] = "join_row"
              BY <1>0, <5>1, OwnCallBegins DEF JoinRow, Moved, Join
            <6>. QED BY <1>2, <4>2, <6>1 DEF HasJoined
          <5>2. CASE LeaveEnd(c)
            <6>1. stage'[c] = "reading" /\ ~pid'[c]
              BY <1>0, <5>0, <5>2 DEF LeaveEnd, Moved, Places
            <6>. QED BY <1>2, <4>2, <6>1 DEF HasJoined
          <5>3. CASE JoinStart(c) \/ JoinEnd(c) \/ ReadEnd(c)
            BY <3>1, <4>2, <5>0, <5>3 DEF JoinStart, JoinEnd, ReadEnd, Moved, HasJoined
          <5>4. CASE EndAllowed(c) \/ EndRefused(c) \/ EndDone(c)
            BY <3>1, <4>2, <5>0, <5>4 DEF EndAllowed, EndRefused, EndDone, Moved, HasJoined
          <5>5. CASE ExitAutoEnd(c) \/ ExitKeepsMeeting(c) \/ ExitTold(c)
            BY <1>0, <1>2, <4>2, <5>5 DEF ExitAutoEnd, ExitKeepsMeeting, ExitTold,
               Moved, HasJoined
          <5>. QED BY <4>2, <5>1, <5>2, <5>3, <5>4, <5>5 DEF Routine
        <4>3. CASE e = c /\ Registers(c)
          <5>1. CASE \E u \in UsersOf[c] : Connect(c, u)
            <6>1. ~pid'[c] /\ stage'[c] = "reading"
              BY <1>0, <5>1 DEF Connect, Moved, Places
            <6>. QED BY <1>2, <4>3, <6>1 DEF HasJoined
          <5>2. CASE \E r \in RolesOf[c] : ReadJoin(c, r)
            BY <1>0, <1>2, <4>3, <5>2 DEF ReadJoin, Moved, HasJoined
          <5>3. CASE ReadLeave(c) \/ Disconnect(c) \/ JoinHub(c) \/ Exit(c)
            BY <1>0, <1>2, <4>3, <5>3 DEF ReadLeave, Disconnect, JoinHub, Exit, Moved,
               HasJoined
          <5>. QED BY <4>3, <5>1, <5>2, <5>3 DEF Registers
        <4>. QED BY <2>3, <4>1, <4>2, <4>3
      <3>3. ActiveRows(user[e]) # {}
        BY <1>2, <2>1, <3>2 DEF JoinedHaveRow
      <3>. QED BY <3>1, <3>2, <3>3 DEF ActiveRows
    <2>. QED BY <1>2, <2>2, <2>3, RoomSteps
  <1>. QED BY <1>1, <1>2 DEF RoomNext, JoinedHaveRow

-----------------------------------------------------------------------------
(* The end of the meeting *)

\* Which statement of the service changed the status.
LEMMA StatusStep ==
    ASSUME NEW c \in Calls, Advance(c), status' # status
    PROVE  \/ pc[c] = "start_write" /\ status' = "active"
           \/ pc[c] = "end_write" /\ status' = "ended"
  BY StatementOf DEF Writes, SetStatusActive, SetStatusEnded, InsertRow,
     DeactivateRows, AppendEvent, db

\* The statements of EndMeeting, while the database answers.
LEMMA EndStatements ==
    ASSUME TypeOK, NEW c \in Calls, Advance(c), ~DBErrors
    PROVE  /\ pc[c] = "end_read" /\ status = "active" => pc'[c] = "end_write"
           /\ pc[c] = "end_write" => pc'[c] = "end_log" /\ status' = "ended"
           /\ pc[c] = "end_log" => pc'[c] = "idle" /\ res'[c] = "ok"
  <1>0. pc \in [Calls -> Step] /\ res \in [Calls -> {"ok", "err"}]
    BY DEF TypeOK, CallsOK
  <1>. USE <1>0 DEF Goto, Fails, Finish
  <1>1. pc[c] = "end_read" => EndRead(c)
    BY DEF Advance, StatusRead, RoleRead, StartRead, StartWrite, StartLog, EndWrite,
       EndLog, JoinFind, JoinInsert, JoinLog, LeaveUpdate, LeaveLog
  <1>2. pc[c] = "end_write" => EndWrite(c)
    BY DEF Advance, StatusRead, RoleRead, StartRead, StartWrite, StartLog, EndRead,
       EndLog, JoinFind, JoinInsert, JoinLog, LeaveUpdate, LeaveLog
  <1>3. pc[c] = "end_log" => EndLog(c)
    BY DEF Advance, StatusRead, RoleRead, StartRead, StartWrite, StartLog, EndRead,
       EndWrite, JoinFind, JoinInsert, JoinLog, LeaveUpdate, LeaveLog
  <1>4. EndRead(c) /\ status = "active" => pc'[c] = "end_write"
    BY DEF EndRead, Endable
  <1>5. EndWrite(c) => pc'[c] = "end_log" /\ status' = "ended"
    BY DEF EndWrite, SetStatusEnded
  <1>6. EndLog(c) => pc'[c] = "idle" /\ res'[c] = "ok"
    BY DEF EndLog
  <1>. QED BY <1>1, <1>2, <1>3, <1>4, <1>5, <1>6

\* The goroutine whose UPDATE ended the meeting stays on its way to the
\* broadcast, and nobody comes in unnoticed before it.
LEMMA AnnounceStep ==
    ASSUME TypeOK, RoomTypeOK, Places, CallsPlaced, EndAnnounced,
           [RoomNext]_roomVars
    PROVE  EndAnnounced'
  <1>0. /\ stage \in [Calls -> Stage] /\ pc \in [Calls -> Step]
        /\ res \in [Calls -> {"ok", "err"}]
    BY DEF RoomTypeOK, TypeOK, CallsOK
  <1>1. CASE UNCHANGED roomVars
    BY <1>1 DEF roomVars, vars, db, local, goroutine, tables, history,
       EndAnnounced, WillAnnounce
  <1>2. ASSUME NEW c \in Calls, Client(c) \/ Handler(c), ~DBErrors, status' = "ended"
        PROVE  (hub \subseteq told \cup late)' \/ \E d \in Calls : WillAnnounce(d)'
    <2>1. ASSUME NEW d \in Calls, d # c, WillAnnounce(d)
          PROVE  WillAnnounce(d)'
      <3>1. stage'[d] = stage[d] /\ pc'[d] = pc[d] /\ res'[d] = res[d]
        BY <1>2, <2>1, OthersStay
      <3>. QED BY <2>1, <3>1 DEF WillAnnounce
    <2>2. CASE Advance(c) /\ UNCHANGED <<goroutine, tables, history>>
      <3>1. UNCHANGED <<stage, hub, told, late>>
        BY <2>2 DEF goroutine, tables, history
      <3>2. CASE status # "ended"
        <4>1. pc[c] = "end_write"
          BY <1>2, <2>2, <3>2, StatusStep
        <4>2. stage[c] \in {"end_meeting", "exit_end"}
          BY <4>1 DEF CallsPlaced, Statements
        <4>3. pc'[c] = "end_log"
          BY <1>2, <2>2, <4>1, EndStatements
        <4>. QED BY <3>1, <4>2, <4>3 DEF WillAnnounce
      <3>3. CASE hub \subseteq told \cup late
        BY <3>1, <3>3
      <3>4. CASE WillAnnounce(c)
        <4>1. pc[c] # "idle"
          BY <2>2, OwnCallGoesOn
        <4>2. pc[c] = "end_log" /\ stage[c] \in {"end_meeting", "exit_end"}
          BY <3>4, <4>1 DEF WillAnnounce
        <4>3. pc'[c] = "idle" /\ res'[c] = "ok"
          BY <1>2, <2>2, <4>2, EndStatements
        <4>. QED BY <3>1, <4>2, <4>3 DEF WillAnnounce
      <3>. QED BY <1>2, <2>1, <3>2, <3>3, <3>4 DEF EndAnnounced
    <2>3. CASE Routine(c) \/ Registers(c)
      <3>1. status = "ended" /\ pc[c] = "idle"
        BY <1>2, <2>3, RoomOrService DEF db
      <3>2. CASE hub \subseteq told \cup late
        <4>1. CASE Routine(c)
          BY <3>2, <4>1, RoutineLemma DEF tables
        <4>2. CASE Registers(c)
          BY <3>1, <3>2, <4>2 DEF Registers, Connect, ReadJoin, ReadLeave, Disconnect,
             JoinHub, Exit, history
        <4>. QED BY <2>3, <4>1, <4>2
      <3>3. CASE WillAnnounce(c)
        <4>1. stage[c] \in {"end_meeting", "exit_end"} /\ res[c] = "ok"
          BY <3>1, <3>3 DEF WillAnnounce
        <4>2. EndDone(c) \/ ExitTold(c)
          BY <2>3, <4>1 DEF Routine, Registers, JoinRow, JoinStart, JoinEnd, LeaveEnd,
             ReadEnd, EndAllowed, EndRefused, ExitAutoEnd, ExitKeepsMeeting, Connect,
             ReadJoin, ReadLeave, Disconnect, JoinHub, Exit, Moved
        <4>. QED BY <4>1, <4>2 DEF EndDone, ExitTold, TellEnded, tables
      <3>. QED BY <1>2, <2>1, <3>1, <3>2, <3>3 DEF EndAnnounced
    <2>. QED BY <1>2, <2>2, <2>3, RoomSteps
  <1>. QED BY <1>1, <1>2 DEF RoomNext, EndAnnounced

\* As long as no host is spared, the hosts in the room have a participant to
\* announce as gone, and an active meeting has one of them.
LEMMA AnswerStep ==
    ASSUME TypeOK, RoomTypeOK, Places, CallsPlaced, HostAnswers,
           [RoomNext]_roomVars
    PROVE  HostAnswers'
  <1>0. /\ user \in [Calls -> Users \cup {NoUser}] /\ stage \in [Calls -> Stage]
        /\ pid \in [Calls -> BOOLEAN] /\ pc \in [Calls -> Step]
        /\ role \in [Calls -> WsRole \cup {""}] /\ spared \in BOOLEAN
    BY DEF RoomTypeOK, TypeOK, CallsOK
  <1>1. CASE UNCHANGED roomVars
    BY <1>1 DEF roomVars, vars, db, local, goroutine, history, HostAnswers, AnswersFor
  <1>2. ASSUME NEW c \in Calls, Client(c) \/ Handler(c), ~DBErrors, ~spared'
        PROVE  /\ \A d \in Calls : role'[d] = "host" => pid'[d]
               /\ status' = "active" => \E d \in Calls : AnswersFor(d)'
    <2>0. ~spared
      <3>1. spared => spared'
        <4>1. CASE Routine(c)
          BY <4>1, RoutineLemma
        <4>2. CASE Registers(c)
          BY <4>2 DEF Registers, Connect, ReadJoin, ReadLeave, Disconnect, JoinHub,
             Exit, history
        <4>. QED BY <1>2, <4>1, <4>2, RoomSteps DEF history
      <3>. QED BY <1>2, <3>1
    <2>1. /\ \A d \in Calls : role[d] = "host" => pid[d]
          /\ status = "active" => \E d \in Calls : AnswersFor(d)
      BY <1>2, <2>0 DEF HostAnswers
    <2>2. ASSUME NEW d \in Calls, d # c
          PROVE  /\ role'[d] = "host" => pid'[d]
                 /\ AnswersFor(d) => AnswersFor(d)'
      <3>1. role'[d] = role[d] /\ pid'[d] = pid[d] /\ stage'[d] = stage[d] /\ pc'[d] = pc[d]
        BY <1>2, <2>2, OthersStay
      <3>. QED BY <2>1, <3>1 DEF AnswersFor
    <2>3. CASE Advance(c) /\ UNCHANGED <<goroutine, tables, history>>
      <3>1. UNCHANGED <<stage, pid, role>>
        BY <2>3 DEF goroutine
      <3>2. ASSUME status' = "active", status # "active"
            PROVE  AnswersFor(c)'
        <4>1. pc[c] = "start_write"
          BY <2>3, <3>2, StatusStep
        <4>2. stage[c] = "join_start"
          BY <4>1 DEF CallsPlaced, Statements
        <4>. QED BY <3>1, <4>2 DEF Places, AnswersFor
      <3>3. ASSUME status' = "active", status = "active", AnswersFor(c)
            PROVE  AnswersFor(c)'
        <4>1. CASE stage[c] # "exit_end"
          BY <3>1, <3>3, <4>1 DEF AnswersFor
        <4>2. CASE stage[c] = "exit_end"
          <5>1. pc[c] \in {"end_read", "end_write"} /\ role[c] = "host"
            BY <3>3, <4>2 DEF AnswersFor
          <5>2. pc'[c] = "end_write"
            BY <1>2, <2>3, <3>3, <5>1, EndStatements
          <5>. QED BY <3>1, <4>2, <5>1, <5>2 DEF AnswersFor
        <4>. QED BY <4>1, <4>2
      <3>. QED BY <2>1, <2>2, <3>1, <3>2, <3>3
    <2>4. CASE Routine(c) \/ Registers(c)
      <3>1. status' = status /\ pc[c] = "idle"
        BY <2>4, RoomOrService DEF db
      <3>2. /\ role'[c] = "host" => pid'[c]
            /\ AnswersFor(c) => AnswersFor(c)'
        <4>0. AnswersFor(c) => stage[c] \in {"reading", "join", "join_status", "join_row",
                                    "join_start", "end_role", "end_meeting", "exit_leave"}
          BY <3>1 DEF AnswersFor
        <4>1. CASE Routine(c)
          <5>1. UNCHANGED <<role, pid>>
            BY <4>1, RoutineLemma
          <5>2. CASE JoinRow(c) \/ JoinStart(c) \/ JoinEnd(c) \/ LeaveEnd(c) \/ ReadEnd(c)
            BY <1>0, <2>1, <4>0, <5>1, <5>2 DEF JoinRow, JoinStart, JoinEnd, LeaveEnd, ReadEnd,
               Moved, AnswersFor
          <5>3. CASE EndAllowed(c) \/ EndRefused(c) \/ EndDone(c)
            BY <1>0, <2>1, <4>0, <5>1, <5>3 DEF EndAllowed, EndRefused, EndDone, Moved,
               AnswersFor
          <5>4. CASE ExitAutoEnd(c)
            <6>1. stage'[c] = "exit_end" /\ pc'[c] = "end_read"
              BY <1>0, <5>4, OwnCallBegins DEF ExitAutoEnd, Moved, EndMeeting
            <6>. QED BY <2>1, <5>1, <6>1 DEF AnswersFor
          <5>5. CASE ExitKeepsMeeting(c)
            BY <1>2, <2>1, <5>1, <5>5 DEF ExitKeepsMeeting, AutoEnds, AnswersFor
          <5>6. CASE ExitTold(c)
            BY <2>1, <4>0, <5>1, <5>6 DEF ExitTold, Moved
          <5>. QED BY <2>1, <4>1, <5>1, <5>2, <5>3, <5>4, <5>5, <5>6 DEF Routine
        <4>2. CASE Registers(c)
          <5>1. CASE \E u \in UsersOf[c] : Connect(c, u)
            BY <2>1, <4>0, <5>1 DEF Connect, Moved
          <5>2. CASE \E r \in RolesOf[c] : ReadJoin(c, r)
            BY <1>0, <5>2 DEF ReadJoin, AnswersFor
          <5>3. CASE ReadLeave(c)
            BY <1>2, <5>3 DEF ReadLeave, AnswersFor
          <5>4. CASE Disconnect(c)
            BY <1>0, <2>1, <5>4 DEF Disconnect, Moved, AnswersFor
          <5>5. CASE JoinHub(c)
            BY <1>0, <2>1, <5>5 DEF JoinHub, Moved, AnswersFor
          <5>6. CASE Exit(c)
            BY <1>0, <4>0, <5>6 DEF Exit, Moved
          <5>. QED BY <4>2, <5>1, <5>2, <5>3, <5>4, <5>5, <5>6 DEF Registers
        <4>. QED BY <2>4, <4>1, <4>2
      <3>. QED BY <2>1, <2>2, <3>1, <3>2
    <2>. QED BY <1>2, <2>3, <2>4, RoomSteps
  <1>. QED BY <1>1, <1>2 DEF RoomNext, HostAnswers

-----------------------------------------------------------------------------
(* The theorems *)

LEMMA InitRoomIInv == RoomInit => IInv /\ RoomIInv
  <1>. SUFFICES ASSUME RoomInit PROVE RoomIInv
    BY InitIInv DEF RoomInit
  <1>1. Serving = {}
    BY DEF RoomInit, Serving
  <1>2. RoomTypeOK
    BY <1>1 DEF RoomInit, RoomTypeOK, Stage
  <1>3. CallsPlaced
    BY DEF RoomInit, Init, CallsPlaced
  <1>4. Places
    BY DEF RoomInit, Places
  <1>5. NoOrphanRow
    <2>0. rows = <<>>
      BY DEF RoomInit, Init
    <2>1. \A u \in Users : ActiveRows(u) = {}
      BY <2>0 DEF ActiveRows
    <2>. QED BY <2>1 DEF NoOrphanRow, InDatabase
  <1>6. JoinedHaveRow
    BY DEF RoomInit, JoinedHaveRow, HasJoined
  <1>7. EndAnnounced /\ HostAnswers
    BY DEF RoomInit, Init, EndAnnounced, HostAnswers
  <1>. QED BY <1>2, <1>3, <1>4, <1>5, <1>6, <1>7 DEF RoomIInv

LEMMA RoomIInvStep ==
    IInv /\ RoomIInv /\ [RoomNext]_roomVars => IInv' /\ RoomIInv' /\ [Next]_vars
  <1>. SUFFICES ASSUME IInv, RoomIInv, [RoomNext]_roomVars
                PROVE  IInv' /\ RoomIInv' /\ [Next]_vars
    OBVIOUS
  <1>1. TypeOK /\ ArgsPresent
    BY ArgsKnown DEF IInv
  <1>2. /\ RoomTypeOK /\ CallsPlaced /\ Places
        /\ NoOrphanRow /\ JoinedHaveRow /\ EndAnnounced /\ HostAnswers
    BY DEF RoomIInv
  <1>3. [Next]_vars
    BY <1>2, RoomStepIsServiceStep
  <1>4. IInv'
    BY <1>3, IInvStep
  <1>5. RoomTypeOK' /\ CallsPlaced' /\ Places'
    BY <1>1, <1>2, RoomTypeStep, CallsPlacedStep, PlacesStep
  <1>6. NoOrphanRow' /\ JoinedHaveRow'
    BY <1>1, <1>2, NoOrphanStep, JoinedStep
  <1>7. EndAnnounced' /\ HostAnswers'
    BY <1>1, <1>2, AnnounceStep, AnswerStep
  <1>. QED BY <1>3, <1>4, <1>5, <1>6, <1>7 DEF RoomIInv

\* The rows, the hub, the goroutines and their calls agree in every reachable
\* state of a meeting, however its connections and their statements interleave.
THEOREM RoomInvariance == RoomSpec => [](IInv /\ RoomIInv)
  BY InitRoomIInv, RoomIInvStep, PTL DEF RoomSpec

\* Seen from the service, a meeting driven by WebSocket connections is the
\* service with callers: every theorem about Spec holds of a room.
THEOREM RoomIsCaller == RoomSpec => Spec
  <1>1. RoomInit => Init
    BY DEF RoomInit
  <1>. QED BY <1>1, RoomIInvStep, RoomInvariance, PTL DEF RoomSpec, Spec

\* RoomTypeOK is an invariant: metadata and connRoles belong to connections
\* that are registered and being served.
THEOREM RoomTypeCorrect == RoomSpec => []RoomTypeOK
  BY RoomInvariance, PTL DEF RoomIInv

\* NoOrphanRow is an invariant: with a database that answers, no order of the
\* joins and departures of a user's tabs leaves an active row behind.
THEOREM NoRowIsOrphaned == RoomSpec => []NoOrphanRow
  BY RoomInvariance, PTL DEF RoomIInv

\* HubMatchesDb is an invariant: with one connection per user the hub and
\* meeting_participant agree whenever no handler runs.
THEOREM HubAlwaysMatches == RoomSpec => []HubMatchesDb
  <1>1. RoomIInv => HubMatchesDb
    <2>. SUFFICES ASSUME RoomIInv, Quiet, ~DBErrors, OneTabEach
                  PROVE  InHub = InDatabase
      BY DEF HubMatchesDb
    <2>. USE DEF RoomIInv
    <2>1. ASSUME NEW c \in meta
          PROVE  user[c] \in InDatabase
      <3>1. c \in hub /\ c \in Calls
        BY DEF RoomTypeOK
      <3>2. stage[c] = "reading" /\ user[c] \in Users
        BY <3>1 DEF Places, Quiet, RoomTypeOK
      <3>3. HasJoined(c)
        BY <3>1, <3>2 DEF Places, HasJoined
      <3>. QED BY <3>1, <3>2, <3>3 DEF JoinedHaveRow, InDatabase
    <2>2. ASSUME NEW u \in InDatabase
          PROVE  u \in InHub
      <3>1. PICK c \in Calls : user[c] = u /\ StillLeaves(c)
        BY DEF NoOrphanRow
      <3>2. pc[c] = "idle"
        BY DEF Quiet, CallsPlaced, Statements
      <3>3. pid[c] /\ stage[c] = "reading"
        BY <3>1, <3>2 DEF StillLeaves, Places, Quiet
      <3>. QED BY <3>1, <3>3 DEF Places, InHub
    <2>. QED BY <2>1, <2>2 DEF InHub
  <1>. QED BY <1>1, RoomInvariance, PTL

\* EveryoneTold is an invariant: when an ended meeting is at rest, every
\* connection it still has was sent meeting_ended or came after the end.
THEOREM EveryoneIsTold == RoomSpec => []EveryoneTold
  <1>1. RoomIInv => EveryoneTold
    BY DEF RoomIInv, EveryoneTold, EndAnnounced, WillAnnounce, Quiet
  <1>. QED BY <1>1, RoomInvariance, PTL

\* EmptyRoomEnded is an invariant: a meeting all connections have left is not
\* active, unless a host was spared.
THEOREM EmptyRoomHasEnded == RoomSpec => []EmptyRoomEnded
  <1>1. RoomIInv => EmptyRoomEnded
    <2>. SUFFICES ASSUME RoomIInv, Quiet, ~DBErrors, hub = {}, ~spared
                  PROVE  status # "active"
      BY DEF EmptyRoomEnded
    <2>1. \A c \in Calls : stage[c] \in {"offline", "closed"}
      BY DEF RoomIInv, Places
    <2>. QED BY <2>1 DEF RoomIInv, HostAnswers, AnswersFor
  <1>. QED BY <1>1, RoomInvariance, PTL
=============================================================================
