---------------------------- MODULE MeetingRoom -----------------------------
(***************************************************************************)
(* One meeting as the WebSocket layer drives it: session/ws_handler.go and *)
(* session/meeting_wire.go over the meeting service.  A connection is one  *)
(* goroutine: it reads messages one by one, runs each handler to its end,  *)
(* and on a read error runs the deferred exit.  Its calls of the service   *)
(* are the calls of MeetingService, so the statements of different         *)
(* connections interleave.                                                 *)
(*                                                                         *)
(* Clients are those of emeeting-ui: join on open; then, at any time, the  *)
(* leave button, the end button, or a lost connection.  A connection is    *)
(* never reused: a reconnect or a second tab is another connection, of the *)
(* same user.  RequireAuth runs before the upgrade, so every connection    *)
(* has a user.                                                             *)
(*                                                                         *)
(* Abstracted: the broadcasts that only inform clients of joins and leaves *)
(* (SessionHub has them); a meeting_ended broadcast reaches the registered *)
(* connections in one step.                                                *)
(***************************************************************************)
EXTENDS MeetingService

CONSTANTS
    UsersOf,    \* users that may open each connection
    RolesOf     \* roles that its join message may carry

\* Payload roles, as the client spells them.
WsRole == {"host", "co-host", "cohost", "guest", "participant"}

ASSUME ConnsType == /\ UsersOf \in [Calls -> SUBSET Users]
                    /\ RolesOf \in [Calls -> SUBSET WsRole]

VARIABLES
    user,       \* the authenticated user of each connection
    stage,      \* where the goroutine of each connection is
    pid,        \* participantID # "": the exit announces a departure
    role,       \* participantRole, "" before the first join
    before,     \* statusBefore of meetingJoin, "" after a failed read
    remaining,  \* remainingRoles of the deferred exit
    hub,        \* connections registered in the hub
    meta,       \* connections with join metadata in the hub
    connRoles,  \* Handler.connRoles of the session
    told,       \* connections that were sent meeting_ended
    late,       \* connections opened when the meeting had already ended
    spared      \* a host has used the leave button, or gone before a co-host

goroutine == <<user, stage, pid, role, before, remaining>>
tables    == <<hub, meta, connRoles>>
history   == <<told, late, spared>>
roomVars  == <<vars, goroutine, tables, history>>

Stage == {"offline", "reading", "join", "join_status", "join_row", "join_start",
          "leave", "end_role", "end_meeting", "exit_leave", "exit_end", "exit",
          "closed"}

\* Connections whose goroutine is in its read loop or in a handler.
Serving == {c \in Calls : stage[c] \notin {"offline", "exit_leave", "exit_end",
                                           "exit", "closed"}}

RoomTypeOK ==
    /\ user \in [Calls -> Users \cup {NoUser}]
    /\ \A c \in Serving : user[c] # NoUser
    /\ stage \in [Calls -> Stage]
    /\ pid \in [Calls -> BOOLEAN]
    /\ role \in [Calls -> WsRole \cup {""}]
    /\ before \in [Calls -> Status \cup {""}]
    /\ remaining \in [Calls -> SUBSET WsRole]
    /\ meta \subseteq hub /\ hub \subseteq Calls
    /\ connRoles \in [Serving -> WsRole \cup {""}]
    /\ told \subseteq Calls /\ late \subseteq Calls /\ spared \in BOOLEAN

\* mapWSRoleToMeeting
MapRole(r) == CASE r = "host" -> "host"
                [] r \in {"co-host", "cohost"} -> "co-host"
                [] r = "guest" -> "guest"
                [] OTHER -> "participant"

\* The roles the room joins with are roles of the service's callers.
ASSUME RolesMapped == \A c \in Calls : \A r \in RolesOf[c] : MapRole(r) \in JoinRoles

RoomInit ==
    /\ Init
    /\ user = [c \in Calls |-> NoUser]
    /\ stage = [c \in Calls |-> "offline"]
    /\ pid = [c \in Calls |-> FALSE]
    /\ role = [c \in Calls |-> ""]
    /\ before = [c \in Calls |-> ""]
    /\ remaining = [c \in Calls |-> {}]
    /\ hub = {} /\ meta = {}
    /\ connRoles = [c \in {} |-> ""]
    /\ told = {} /\ late = {} /\ spared = FALSE

\* The goroutine of c goes from one stage to the next; the call it made of the
\* service, if any, has returned.
Moved(c, from, to) ==
    /\ stage[c] = from /\ pc[c] = "idle"
    /\ stage' = [stage EXCEPT ![c] = to]

-----------------------------------------------------------------------------
(* Opening a connection *)

Connect(c, u) ==
    /\ Moved(c, "offline", "reading")
    /\ user' = [user EXCEPT ![c] = u]
    /\ hub' = hub \cup {c}
    /\ connRoles' = [d \in DOMAIN connRoles \cup {c} |->
                        IF d = c THEN "" ELSE connRoles[d]]
    /\ late' = IF status = "ended" THEN late \cup {c} ELSE late
    /\ UNCHANGED <<vars, pid, role, before, remaining, meta, told, spared>>

-----------------------------------------------------------------------------
(* join: remember the participant, then meetingJoin *)

ReadJoin(c, r) ==
    /\ role[c] = ""
    /\ Moved(c, "reading", "join")
    /\ pid' = [pid EXCEPT ![c] = TRUE]
    /\ role' = [role EXCEPT ![c] = r]
    /\ connRoles' = [connRoles EXCEPT ![c] = r]
    /\ UNCHANGED <<vars, user, before, remaining, hub, meta, history>>

\* SetJoinMeta, then the read of statusBefore.
JoinHub(c) ==
    /\ Moved(c, "join", "join_status")
    /\ meta' = meta \cup {c}
    /\ GetStatus(c)
    /\ UNCHANGED <<user, pid, role, before, remaining, hub, connRoles, history>>

\* The error of GetStatus is dropped.
JoinRow(c) ==
    /\ Moved(c, "join_status", "join_row")
    /\ before' = [before EXCEPT ![c] = IF res[c] = "ok" THEN seen[c] ELSE ""]
    /\ Join(c, user[c], MapRole(role[c]))
    /\ UNCHANGED <<user, pid, role, remaining, tables, history>>

\* A host joining a created meeting starts it.
StartsMeeting(c) ==
    res[c] = "ok" /\ MapRole(role[c]) = "host" /\ before[c] = "created"

JoinStart(c) ==
    /\ StartsMeeting(c)
    /\ Moved(c, "join_row", "join_start")
    /\ \E at \in Times : StartMeeting(c, at)
    /\ UNCHANGED <<user, pid, role, before, remaining, tables, history>>

JoinEnd(c) ==
    /\ \/ stage[c] = "join_row" /\ ~StartsMeeting(c)
       \/ stage[c] = "join_start"
    /\ Moved(c, stage[c], "reading")
    /\ before' = [before EXCEPT ![c] = ""]
    /\ UNCHANGED <<vars, user, pid, role, remaining, tables, history>>

-----------------------------------------------------------------------------
(* leave and end_meeting *)

\* MUTANT of ReadLeave: the join metadata stays.
ReadLeave_KeepsMeta(c) ==
    /\ pid[c]
    /\ Moved(c, "reading", "leave")
    /\ pid' = [pid EXCEPT ![c] = FALSE]
    /\ Leave(c, user[c])
    /\ spared' = (spared \/ role[c] = "host")
    /\ UNCHANGED <<user, role, before, remaining, tables, told, late>>

\* The read loop forgets the participant (not the role), the handler removes
\* the join metadata and calls Leave.
ReadLeave(c) ==
    /\ pid[c]
    /\ Moved(c, "reading", "leave")
    /\ pid' = [pid EXCEPT ![c] = FALSE]
    /\ meta' = meta \ {c}
    /\ Leave(c, user[c])
    /\ spared' = (spared \/ role[c] = "host")
    /\ UNCHANGED <<user, role, before, remaining, hub, connRoles, told, late>>

LeaveEnd(c) ==
    /\ Moved(c, "leave", "reading")
    /\ UNCHANGED <<vars, user, pid, role, before, remaining, tables, history>>

\* The end button of a host asks the service for the role of the user's row.
ReadEnd(c) ==
    /\ pid[c] /\ role[c] = "host"
    /\ Moved(c, "reading", "end_role")
    /\ RequireRole(c, user[c])
    /\ UNCHANGED <<user, pid, role, before, remaining, tables, history>>

EndAllowed(c) ==
    /\ res[c] = "ok"
    /\ Moved(c, "end_role", "end_meeting")
    /\ \E at \in Times : EndMeeting(c, at)
    /\ UNCHANGED <<user, pid, role, before, remaining, tables, history>>

EndRefused(c) ==
    /\ res[c] = "err"
    /\ Moved(c, "end_role", "reading")
    /\ UNCHANGED <<vars, user, pid, role, before, remaining, tables, history>>

\* Only a successful EndMeeting is broadcast, to the connections in the hub.
TellEnded(c) == told' = IF res[c] = "ok" THEN told \cup hub ELSE told

\* MUTANT of EndDone: the end is announced to the sender only.
EndDone_SenderOnly(c) ==
    /\ Moved(c, "end_meeting", "reading")
    /\ told' = IF res[c] = "ok" THEN told \cup {c} ELSE told
    /\ UNCHANGED <<vars, user, pid, role, before, remaining, tables, late, spared>>

EndDone(c) ==
    /\ Moved(c, "end_meeting", "reading")
    /\ TellEnded(c)
    /\ UNCHANGED <<vars, user, pid, role, before, remaining, tables, late, spared>>

-----------------------------------------------------------------------------
(* The deferred exit after a read error *)

Without(c) == [d \in DOMAIN connRoles \ {c} |-> connRoles[d]]

\* MUTANT of Disconnect: the participant row of a lost connection stays active.
Disconnect_NoLeave(c) ==
    /\ Moved(c, "reading", IF pid[c] THEN "exit_leave" ELSE "exit")
    /\ connRoles' = Without(c)
    /\ remaining' = [remaining EXCEPT ![c] =
                        {connRoles[d] : d \in DOMAIN connRoles \ {c}} \ {""}]
    /\ UNCHANGED <<vars, user, pid, role, before, hub, meta, history>>

\* The goroutine leaves connRoles, notes the roles that remain, and, unless an
\* explicit leave came before, calls Leave.
Disconnect(c) ==
    /\ connRoles' = Without(c)
    /\ remaining' = [remaining EXCEPT ![c] =
                        {connRoles[d] : d \in DOMAIN connRoles \ {c}} \ {""}]
    /\ \/ pid[c] /\ Moved(c, "reading", "exit_leave") /\ Leave(c, user[c])
       \/ ~pid[c] /\ Moved(c, "reading", "exit") /\ UNCHANGED vars
    /\ UNCHANGED <<user, pid, role, before, hub, meta, history>>

\* MUTANT of AutoEnds: anybody left in the room keeps the meeting open.
AutoEnds_IfAlone(c) == role[c] = "host" /\ remaining[c] = {}

\* meetingMaybeEndOnHostDisconnect compares the roles as the client spells them.
AutoEnds(c) == role[c] = "host" /\ "co-host" \notin remaining[c]

ExitAutoEnd(c) ==
    /\ AutoEnds(c)
    /\ Moved(c, "exit_leave", "exit_end")
    /\ \E at \in Times : EndMeeting(c, at)
    /\ UNCHANGED <<user, pid, role, before, remaining, tables, history>>

\* MUTANT of ExitKeepsMeeting: a failed Leave aborts the exit.
ExitKeepsMeeting_NeedsLeave(c) ==
    /\ ~AutoEnds(c) /\ res[c] = "ok"
    /\ Moved(c, "exit_leave", "exit")
    /\ spared' = (spared \/ "co-host" \in remaining[c])
    /\ UNCHANGED <<vars, user, pid, role, before, remaining, tables, told, late>>

ExitKeepsMeeting(c) ==
    /\ ~AutoEnds(c)
    /\ Moved(c, "exit_leave", "exit")
    /\ spared' = (spared \/ "co-host" \in remaining[c])
    /\ UNCHANGED <<vars, user, pid, role, before, remaining, tables, told, late>>

ExitTold(c) ==
    /\ Moved(c, "exit_end", "exit")
    /\ TellEnded(c)
    /\ UNCHANGED <<vars, user, pid, role, before, remaining, tables, late, spared>>

\* MUTANT of Exit: the join metadata outlives the connection.
Exit_KeepsMeta(c) ==
    /\ Moved(c, "exit", "closed")
    /\ hub' = hub \ {c}
    /\ pid' = [pid EXCEPT ![c] = FALSE]
    /\ role' = [role EXCEPT ![c] = ""]
    /\ remaining' = [remaining EXCEPT ![c] = {}]
    /\ UNCHANGED <<vars, user, before, meta, connRoles, history>>

\* hub.Remove; the goroutine is gone, and its locals with it.
Exit(c) ==
    /\ Moved(c, "exit", "closed")
    /\ hub' = hub \ {c}
    /\ meta' = meta \ {c}
    /\ pid' = [pid EXCEPT ![c] = FALSE]
    /\ role' = [role EXCEPT ![c] = ""]
    /\ remaining' = [remaining EXCEPT ![c] = {}]
    /\ UNCHANGED <<vars, user, before, connRoles, history>>

-----------------------------------------------------------------------------
(* The specification *)

\* What a client may do to its connection.
Client(c) ==
    \/ \E u \in UsersOf[c] : Connect(c, u)
    \/ \E r \in RolesOf[c] : ReadJoin(c, r)
    \/ ReadLeave(c) \/ ReadEnd(c) \/ Disconnect(c)

\* What the goroutine then does by itself.
Handler(c) ==
    \/ JoinHub(c) \/ JoinRow(c) \/ JoinStart(c) \/ JoinEnd(c)
    \/ LeaveEnd(c) \/ EndAllowed(c) \/ EndRefused(c) \/ EndDone(c)
    \/ ExitAutoEnd(c) \/ ExitKeepsMeeting(c) \/ ExitTold(c) \/ Exit(c)
    \/ Advance(c) /\ UNCHANGED <<goroutine, tables, history>>

RoomNext == \E c \in Calls : Client(c) \/ Handler(c)

RoomSpec == RoomInit /\ [][RoomNext]_roomVars

\* Goroutines are scheduled and the database answers; clients act as they like.
FairRoomSpec == RoomSpec /\ \A c \in Calls : WF_roomVars(Handler(c))

-----------------------------------------------------------------------------
(* Properties *)

\* No handler is running.
Quiet == \A c \in Calls : stage[c] \in {"offline", "reading", "closed"}

\* Users with an active row, and users some connection of whom has joined.
InDatabase == {u \in Users : ActiveRows(u) # {}}
InHub      == {user[c] : c \in meta}

\* Connections that are still going to call Leave for their user.
StillLeaves(c) ==
    \/ pid[c] /\ stage[c] \notin {"exit_leave", "exit_end", "exit"}
    \/ pc[c] = "leave_update"

\* No row is left active behind: while the database answers, a user with an
\* active participant row has a connection that is still going to deactivate
\* it, in whatever order the user's tabs joined and went.
NoOrphanRow ==
    ~DBErrors =>
        \A u \in InDatabase : \E c \in Calls : user[c] = u /\ StillLeaves(c)

\* No user has opened a second connection: two tabs, or a reconnect before the
\* server has noticed the loss of the old connection.
OneTabEach == \A c, d \in Calls : user[c] = user[d] /\ user[c] # NoUser => c = d

\* The hub and the database agree on who is in the meeting whenever no handler
\* is running, as long as no user has had a second connection.
HubMatchesDb == (Quiet /\ ~DBErrors /\ OneTabEach) => InHub = InDatabase

\* When an ended meeting has come to rest, every connection still open was
\* sent meeting_ended, unless it was opened after the end.
EveryoneTold ==
    (Quiet /\ ~DBErrors /\ status = "ended") => hub \subseteq told \cup late

\* Rule "if the host left and there is no co-host, the meeting ends": a meeting
\* nobody is connected to any more is not active, unless a host used the leave
\* button or a co-host was there when a host went; whatever order the two
\* connections started, joined and went in.
EmptyRoomEnded ==
    (Quiet /\ ~DBErrors /\ hub = {} /\ ~spared) => status # "active"

\* The same rule from the other side: the meeting is not ended for the departure
\* of a host who has joined it on another connection that is still there.
HostLeftMeansGone ==
    \A c \in Calls : stage[c] = "exit_end" =>
        ~ \E d \in meta \ {c} : user[d] = user[c] /\ role[d] = "host"
                                /\ stage[d] = "reading"

\* A connection that is lost is cleaned up: its goroutine leaves the hub.
ExitCompletes ==
    \A c \in Calls : stage[c] \in {"exit_leave", "exit_end", "exit"}
                        ~> c \notin hub \cup meta
=============================================================================
