----------------------------- MODULE SessionHub -----------------------------
(***************************************************************************)
(* The hub of one session, session/hub.go, with the handlers that keep the *)
(* participant tiles of the clients up to date: join, leave and the exit   *)
(* of session/ws_handler.go, the media fan-out to the analysis connection, *)
(* and the tiles as handleMeetingEvent.ts computes them.                   *)
(*                                                                         *)
(* Every connection is served by a goroutine.  Hub methods are atomic      *)
(* under the hub's mutex, but Broadcast only collects its targets under    *)
(* the mutex and then writes to them one by one: each write is a step, in  *)
(* the order of Go's map iteration, which is any order.  WebSocket frames  *)
(* arrive in the order they are written, so a client's tiles are computed  *)
(* when the frame is written.                                              *)
(*                                                                         *)
(* Abstracted: names, timestamps, toasts; the meeting service calls of the *)
(* handlers (MeetingRoom has them); messages that no tile depends on.      *)
(***************************************************************************)
EXTENDS Naturals, FiniteSets

CONSTANTS
    Conns,      \* connections of meeting clients
    Gateways,   \* connections of the ai-gateway (AnalysisWS)
    Pids,       \* participant ids
    PidOf,      \* the participant id a client connection joins with
    MaxFrames   \* bound: video frames each client sends

ASSUME PidsType   == PidOf \in [Conns -> Pids]
ASSUME Disjoint   == Conns \cap Gateways = {}
ASSUME FramesType == MaxFrames \in Nat

Goroutines == Conns \cup Gateways

VARIABLES
    sessions,       \* sessions[id]: connections that broadcasts go to
    joinMeta,       \* connections with an entry in joinMeta[id]
    connLocks,      \* connections that have a write lock
    analysisConns,  \* analysis subscribers
    phase,          \* life of each connection
    pc,             \* next step of its goroutine
    targets,        \* connections the running Broadcast has still to write to
    out,            \* the message it writes
    snap,           \* the snapshot a join handler has taken and not yet sent
    tiles,          \* participants each client shows
    frames,         \* frames each client has sent
    inbox,          \* participants whose frames a gateway has yet to answer
    early,          \* history: connections with metadata when c got its own
    apart           \* history: every join, leave and exit had the hub for itself

hub    == <<sessions, joinMeta, connLocks, analysisConns>>
client == <<tiles, frames, inbox>>
seen   == <<early, apart>>
vars   == <<hub, phase, pc, targets, out, snap, client, seen>>

\* A client connection has participantID # "" while it is "joined"; after an
\* explicit leave the client closes its socket.
Phase == {"new", "connected", "joined", "left", "exiting", "closed"}

\* Clients that are there to see what they are sent.
Watching == {c \in Conns : phase[c] \in {"connected", "joined"}}

\* Broadcasts, by the type of their message.  "fanout" writes a frame again,
\* to the analysis subscribers.
Announcement == {"join", "user_joined", "leave", "user_left"}
Sending      == Announcement \cup {"frame", "fanout", "face_analysis"}
Step == Sending \cup {"idle", "set_meta", "snapshot", "send", "forget", "remove",
                      "attach", "unlock"}

NoMessage == [type |-> "none", pid |-> "none"]
Message   == [type : Sending, pid : Pids] \cup {NoMessage}

TypeOK ==
    /\ sessions \subseteq Conns /\ joinMeta \subseteq Conns
    /\ connLocks \subseteq Goroutines /\ analysisConns \subseteq Gateways
    /\ phase \in [Goroutines -> Phase]
    /\ pc \in [Goroutines -> Step]
    /\ targets \in [Goroutines -> SUBSET Goroutines]
    /\ out \in [Goroutines -> Message]
    /\ \A g \in Goroutines : targets[g] # {} => out[g] # NoMessage
    /\ snap \in [Conns -> SUBSET Pids]
    /\ tiles \in [Conns -> SUBSET Pids]
    /\ frames \in [Conns -> 0..MaxFrames]
    /\ inbox \in [Gateways -> SUBSET Pids]
    /\ early \in [Conns -> SUBSET Conns]
    /\ apart \in BOOLEAN

Init ==
    /\ sessions = {} /\ joinMeta = {} /\ connLocks = {} /\ analysisConns = {}
    /\ phase = [g \in Goroutines |-> "new"]
    /\ pc = [g \in Goroutines |-> "idle"]
    /\ targets = [g \in Goroutines |-> {}]
    /\ out = [g \in Goroutines |-> NoMessage]
    /\ snap = [c \in Conns |-> {}]
    /\ tiles = [c \in Conns |-> {}]
    /\ frames = [c \in Conns |-> 0]
    /\ inbox = [g \in Gateways |-> {}]
    /\ early = [c \in Conns |-> {}]
    /\ apart = TRUE

\* The goroutine has nothing to do but read the next message.
Idle(g) == pc[g] = "idle" /\ targets[g] = {}

\* g's handler is at a step, and has finished the broadcast before it.
At(g, step) == pc[g] = step /\ targets[g] = {}

Goto(g, step) == pc' = [pc EXCEPT ![g] = step]

\* A join, leave or exit handler begins: is any other at work, or a frame still
\* to be answered?
Begins == apart' = (/\ apart
                    /\ \A g \in Goroutines : Idle(g)
                    /\ \A g \in Gateways : inbox[g] = {})

-----------------------------------------------------------------------------
(* Reading a message, or failing to *)

Connect(c) ==
    /\ phase[c] = "new"
    /\ phase' = [phase EXCEPT ![c] = "connected"]
    /\ sessions' = sessions \cup {c}
    /\ connLocks' = connLocks \cup {c}
    /\ UNCHANGED <<joinMeta, analysisConns, pc, targets, out, snap, client, seen>>

\* The goroutine reads a message of its client, or fails to, and goes on to
\* the first step of the handler.
Read(c, from, to, step) ==
    /\ phase[c] = from /\ Idle(c)
    /\ phase' = [phase EXCEPT ![c] = to]
    /\ Goto(c, step)
    /\ UNCHANGED <<hub, targets, out, snap, tiles, inbox, early>>

\* The client joins as soon as its socket is open.
ReadJoin(c) == Begins /\ Read(c, "connected", "joined", "set_meta") /\ UNCHANGED frames

\* The leave button: the read loop forgets the participant at once.
ReadLeave(c) == Begins /\ Read(c, "joined", "left", "forget") /\ UNCHANGED frames

ReadFrame(c) ==
    /\ frames[c] < MaxFrames
    /\ frames' = [frames EXCEPT ![c] = @ + 1]
    /\ Read(c, "joined", "joined", "frame")
    /\ UNCHANGED apart

\* MUTANT of Disconnect: the exit announces nothing.
Disconnect_Silent(c) ==
    /\ Begins
    /\ \E from \in {"connected", "joined", "left"} : Read(c, from, "exiting", "remove")
    /\ UNCHANGED frames

\* A read error: the deferred exit announces the departure, unless an explicit
\* leave has done so.
Disconnect(c) ==
    /\ Begins
    /\ \/ Read(c, "joined", "exiting", "leave")
       \/ Read(c, "connected", "exiting", "remove")
       \/ Read(c, "left", "exiting", "remove")
    /\ UNCHANGED frames

-----------------------------------------------------------------------------
(* Broadcast *)

\* MUTANT of After: the join handler sends no snapshot.
After_NoSnapshot(g) ==
    CASE pc[g] = "join"      -> "user_joined"
      [] pc[g] = "leave"     -> "user_left"
      [] pc[g] = "user_left" -> IF phase[g] = "exiting" THEN "remove" ELSE "idle"
      [] pc[g] = "frame"     -> "fanout"
      [] OTHER               -> "idle"

\* The step after a broadcast.
After(g) ==
    CASE pc[g] = "join"        -> "user_joined"
      [] pc[g] = "user_joined" -> "snapshot"
      [] pc[g] = "leave"       -> "user_left"
      [] pc[g] = "user_left"   -> IF phase[g] = "exiting" THEN "remove" ELSE "idle"
      [] pc[g] = "frame"       -> "fanout"
      [] OTHER                 -> "idle"

\* The targets are the connections registered now.
Broadcast(g) ==
    /\ pc[g] \in Sending /\ targets[g] = {}
    /\ \E p \in IF g \in Conns THEN {PidOf[g]} ELSE inbox[g] :
          /\ out' = [out EXCEPT ![g] = [type |-> pc[g], pid |-> p]]
          /\ inbox' = IF g \in Gateways THEN [inbox EXCEPT ![g] = @ \ {p}] ELSE inbox
    /\ targets' = [targets EXCEPT ![g] =
                      IF pc[g] = "fanout" THEN analysisConns ELSE sessions]
    /\ Goto(g, After(g))
    /\ UNCHANGED <<hub, phase, snap, tiles, frames, seen>>

\* handleMeetingEvent and onAnalysisMessage: what a message does to the tiles.
Tiles(shown, m) ==
    CASE m.type \in {"join", "user_joined", "face_analysis"} -> shown \cup {m.pid}
      [] m.type \in {"leave", "user_left"}                   -> shown \ {m.pid}
      [] OTHER                                               -> shown

\* writeJSON: a connection without a lock has been removed and is skipped; a
\* write to a client that is gone is lost.
Write(g, d) ==
    /\ d \in targets[g]
    /\ targets' = [targets EXCEPT ![g] = @ \ {d}]
    /\ out' = IF targets[g] = {d} THEN [out EXCEPT ![g] = NoMessage] ELSE out
    /\ tiles' = IF d \in connLocks \cap Watching
                   THEN [tiles EXCEPT ![d] = Tiles(@, out[g])] ELSE tiles
    /\ inbox' = IF d \in connLocks \cap Gateways
                   THEN [inbox EXCEPT ![d] = @ \cup {out[g].pid}] ELSE inbox
    /\ UNCHANGED <<hub, phase, pc, snap, frames, seen>>

-----------------------------------------------------------------------------
(* The other steps of the handlers *)

SetJoinMeta(c) ==
    /\ At(c, "set_meta")
    /\ joinMeta' = joinMeta \cup {c}
    /\ early' = [early EXCEPT ![c] = joinMeta]
    /\ Goto(c, "join")
    /\ UNCHANGED <<sessions, connLocks, analysisConns, phase, targets, out,
                   snap, client, apart>>

ParticipantSnapshot(c) ==
    /\ At(c, "snapshot")
    /\ snap' = [snap EXCEPT ![c] = {PidOf[d] : d \in joinMeta}]
    /\ Goto(c, "send")
    /\ UNCHANGED <<hub, phase, targets, out, client, seen>>

\* SendJSON; the client replaces its tiles by the snapshot.
SendSnapshot(c) ==
    /\ At(c, "send")
    /\ tiles' = [tiles EXCEPT ![c] = snap[c]]
    /\ snap' = [snap EXCEPT ![c] = {}]
    /\ Goto(c, "idle")
    /\ UNCHANGED <<hub, phase, targets, out, frames, inbox, seen>>

RemoveConnJoinMeta(c) ==
    /\ At(c, "forget")
    /\ joinMeta' = joinMeta \ {c}
    /\ Goto(c, "leave")
    /\ UNCHANGED <<sessions, connLocks, analysisConns, phase, targets, out,
                   snap, client, seen>>

Remove(c) ==
    /\ At(c, "remove")
    /\ sessions' = sessions \ {c}
    /\ joinMeta' = joinMeta \ {c}
    /\ connLocks' = connLocks \ {c}
    /\ phase' = [phase EXCEPT ![c] = "closed"]
    /\ Goto(c, "idle")
    /\ UNCHANGED <<analysisConns, targets, out, snap, client, seen>>

-----------------------------------------------------------------------------
(* The analysis connection *)

AnalysisConnect(g) ==
    /\ phase[g] = "new"
    /\ phase' = [phase EXCEPT ![g] = "connected"]
    /\ connLocks' = connLocks \cup {g}
    /\ Goto(g, "attach")
    /\ UNCHANGED <<sessions, joinMeta, analysisConns, targets, out, snap, client, seen>>

\* MUTANT of Attach: the subscriber is registered as a client of the session.
Attach_AsClient(g) ==
    /\ At(g, "attach")
    /\ sessions' = sessions \cup {g}
    /\ Goto(g, "idle")
    /\ UNCHANGED <<joinMeta, analysisConns, connLocks, phase, targets, out, snap,
                   client, seen>>

Attach(g) ==
    /\ At(g, "attach")
    /\ analysisConns' = analysisConns \cup {g}
    /\ Goto(g, "idle")
    /\ UNCHANGED <<sessions, joinMeta, connLocks, phase, targets, out, snap, client, seen>>

\* The gateway answers a frame, whenever its model is done with it.
ReadResult(g) ==
    /\ phase[g] = "connected" /\ Idle(g) /\ inbox[g] # {}
    /\ Goto(g, "face_analysis")
    /\ UNCHANGED <<hub, phase, targets, out, snap, client, seen>>

\* MUTANT of AnalysisDisconnect: the lock goes before the subscription.
AnalysisDisconnect_LockFirst(g) ==
    /\ phase[g] = "connected" /\ Idle(g)
    /\ phase' = [phase EXCEPT ![g] = "exiting"]
    /\ connLocks' = connLocks \ {g}
    /\ Goto(g, "unlock")
    /\ UNCHANGED <<sessions, joinMeta, analysisConns, targets, out, snap, client, seen>>

AnalysisDisconnect(g) ==
    /\ phase[g] = "connected" /\ Idle(g)
    /\ phase' = [phase EXCEPT ![g] = "exiting"]
    /\ analysisConns' = analysisConns \ {g}
    /\ Goto(g, "unlock")
    /\ UNCHANGED <<sessions, joinMeta, connLocks, targets, out, snap,
                   client, seen>>

Unlock(g) ==
    /\ At(g, "unlock")
    /\ connLocks' = connLocks \ {g}
    /\ phase' = [phase EXCEPT ![g] = "closed"]
    /\ Goto(g, "idle")
    /\ inbox' = [inbox EXCEPT ![g] = {}]
    /\ UNCHANGED <<sessions, joinMeta, analysisConns, targets, out, snap, tiles, frames, seen>>

-----------------------------------------------------------------------------
Next ==
    \/ \E c \in Conns :
          \/ Connect(c) \/ ReadJoin(c) \/ ReadLeave(c) \/ ReadFrame(c) \/ Disconnect(c)
          \/ SetJoinMeta(c) \/ ParticipantSnapshot(c) \/ SendSnapshot(c)
          \/ RemoveConnJoinMeta(c) \/ Remove(c)
    \/ \E g \in Gateways :
          \/ AnalysisConnect(g) \/ Attach(g) \/ ReadResult(g)
          \/ AnalysisDisconnect(g) \/ Unlock(g)
    \/ \E g \in Goroutines : Broadcast(g) \/ \E d \in Goroutines : Write(g, d)

Spec == Init /\ [][Next]_vars

-----------------------------------------------------------------------------
(* Properties *)

\* Participants the hub knows of, and moments when no handler is running.
Present == {PidOf[c] : c \in joinMeta}
Quiet   == \A g \in Goroutines : Idle(g)

\* The four tables of the hub stay together although each is changed at its own
\* moment: a broadcast never meets a registered connection without a lock (its
\* message would be dropped silently), metadata belongs to registered
\* connections, and a connection that is gone is in none of them.
TablesTogether ==
    /\ sessions \cup analysisConns \subseteq connLocks
    /\ joinMeta \subseteq sessions
    /\ \A g \in Goroutines : phase[g] = "closed" =>
          g \notin sessions \cup joinMeta \cup connLocks \cup analysisConns

\* "Late tabs see the early ones without a reload": from the moment its join
\* handler is done, a client shows everybody who had joined before it and is
\* still there, however their handlers interleave.
LateSeesEarly ==
    \A c, d \in Conns :
        (/\ phase[c] = "joined" /\ Idle(c)
         /\ d \in early[c] /\ phase[d] = "joined") => PidOf[d] \in tiles[c]

\* A client shows nobody who has gone, once every handler is done.
NoGhostTile ==
    Quiet => \A c \in Conns : phase[c] = "joined" => tiles[c] \subseteq Present

\* Join, leave and exit handlers that had the hub for themselves, with no frame
\* still to be answered, keep the tiles of every client exact.
TilesExact ==
    Quiet /\ apart => \A c \in Conns : phase[c] = "joined" => tiles[c] = Present
=============================================================================
