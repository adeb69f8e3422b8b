-------------------------- MODULE SessionHubProofs --------------------------
(***************************************************************************)
(* What holds of SessionHub for any connections, any gateways and any      *)
(* number of frames.  The inductive invariant ties the goroutine of each   *)
(* connection to the life of the connection (Handlers), the tables of the  *)
(* hub to the lives of the connections (Registered), a departure on the    *)
(* wire to the connection it is about (Departures), and what a client has  *)
(* been promised to where its join handler is (Owed).  While handlers do   *)
(* not overlap, ExactInv says more: every tile is of somebody who is there *)
(* or whose departure is under way, and nobody who is there is missing.    *)
(***************************************************************************)
EXTENDS SessionHub, TLAPS

\* Where the goroutine of a client connection can be, by the life of the
\* connection; and that of an analysis connection.
ClientSteps ==
    [new |-> {"idle"}, connected |-> {"idle"},
     joined |-> {"idle", "set_meta", "join", "user_joined", "snapshot", "send",
                 "frame", "fanout"},
     left |-> {"idle", "forget", "leave", "user_left"},
     exiting |-> {"leave", "user_left", "remove"},
     closed |-> {"idle"}]
GatewaySteps ==
    [new |-> {"idle"}, connected |-> {"idle", "attach", "face_analysis"},
     joined |-> {}, left |-> {}, exiting |-> {"unlock"}, closed |-> {"idle"}]

Handlers ==
    /\ \A c \in Conns : pc[c] \in ClientSteps[phase[c]]
    /\ \A g \in Gateways : pc[g] \in GatewaySteps[phase[g]]

Registered ==
    /\ sessions = {c \in Conns : phase[c] \in {"connected", "joined", "left", "exiting"}}
    /\ connLocks = sessions \cup {g \in Gateways : phase[g] \in {"connected", "exiting"}}
    /\ joinMeta \subseteq {c \in Conns : phase[c] \in {"joined", "left", "exiting"}}
    /\ analysisConns \subseteq {g \in Gateways : phase[g] = "connected"}

Departures ==
    \A g \in Goroutines :
        targets[g] # {} /\ out[g].type \in {"leave", "user_left"} =>
            g \in Conns /\ out[g].pid = PidOf[g] /\ phase[g] \in {"left", "exiting"}

\* d had joined before c and is still there.
Before(d, c) == phase[c] = "joined" /\ d \in early[c] /\ phase[d] = "joined"

\* What c owes to d: the snapshot it is about to send has d in it, and once it
\* is sent, the tiles have.
OwedTo(c, d) ==
    /\ pc[c] # "set_meta" => d \in joinMeta
    /\ pc[c] = "send" => PidOf[d] \in snap[c]
    /\ pc[c] \in {"idle", "frame", "fanout"} => PidOf[d] \in tiles[c]

Owed ==
    \A c, d \in Conns :
        /\ d \in early[c] => phase[d] \notin {"new", "connected"}
        /\ Before(d, c) => OwedTo(c, d)

IInv == TypeOK /\ Handlers /\ Registered /\ Departures

-----------------------------------------------------------------------------
(* Type correctness *)

LEMMA InitType == Init => TypeOK
BY PidsType, FramesType DEF Init, TypeOK, Goroutines, Phase, Step, Message, NoMessage, Sending

\* The step after a broadcast is one of the steps.
LEMMA AfterType == ASSUME NEW g PROVE After(g) \in Step
BY DEF After, Step, Sending, Announcement

LEMMA TypeStep == TypeOK /\ [Next]_vars => TypeOK'
<1> SUFFICES ASSUME TypeOK, [Next]_vars PROVE TypeOK'
  OBVIOUS
<1> USE DEF TypeOK, hub, client, seen
<1>1. ASSUME NEW c \in Conns, Connect(c) PROVE TypeOK'
  BY <1>1 DEF Connect, Goroutines, Phase
<1>2. ASSUME NEW c \in Conns, NEW from, NEW to \in Phase, NEW step \in Step,
             Read(c, from, to, step), frames' \in [Conns -> 0..MaxFrames],
             apart' \in BOOLEAN
      PROVE  TypeOK'
  BY <1>2 DEF Read, Goto, Goroutines
<1>3. ASSUME NEW c \in Conns, ReadJoin(c) \/ ReadLeave(c) \/ Disconnect(c) PROVE TypeOK'
  <2>1. apart' \in BOOLEAN
    BY <1>3 DEF ReadJoin, ReadLeave, Disconnect, Begins
  <2> QED
    BY <1>2, <1>3, <2>1 DEF ReadJoin, ReadLeave, Disconnect, Phase, Step, Sending, Announcement
<1>4. ASSUME NEW c \in Conns, ReadFrame(c) PROVE TypeOK'
  <2>1. frames' \in [Conns -> 0..MaxFrames]
    BY <1>4, FramesType DEF ReadFrame
  <2> QED
    BY <1>2, <1>4, <2>1 DEF ReadFrame, Phase, Step, Sending
<1>5. ASSUME NEW c \in Conns, SetJoinMeta(c) PROVE TypeOK'
  BY <1>5 DEF SetJoinMeta, Goto, Goroutines, Step, Sending, Announcement
<1>6. ASSUME NEW c \in Conns, ParticipantSnapshot(c) PROVE TypeOK'
  <2>1. {PidOf[d] : d \in joinMeta} \subseteq Pids
    BY PidsType
  <2>2. snap' \in [Conns -> SUBSET Pids]
    BY <1>6, <2>1 DEF ParticipantSnapshot
  <2> QED
    BY <1>6, <2>2 DEF ParticipantSnapshot, Goto, Goroutines, Step
<1>7. ASSUME NEW c \in Conns, SendSnapshot(c) PROVE TypeOK'
  BY <1>7 DEF SendSnapshot, Goto, Goroutines, Step
<1>8. ASSUME NEW c \in Conns, RemoveConnJoinMeta(c) PROVE TypeOK'
  BY <1>8 DEF RemoveConnJoinMeta, Goto, Goroutines, Step, Sending, Announcement
<1>9. ASSUME NEW c \in Conns, Remove(c) PROVE TypeOK'
  BY <1>9 DEF Remove, Goto, Goroutines, Step, Phase
<1>10. ASSUME NEW g \in Gateways, AnalysisConnect(g) \/ Attach(g) PROVE TypeOK'
  BY <1>10 DEF AnalysisConnect, Attach, Goto, Goroutines, Step, Phase
<1>11. ASSUME NEW g \in Gateways, ReadResult(g) PROVE TypeOK'
  BY <1>11 DEF ReadResult, Goto, Goroutines, Step, Sending
<1>12. ASSUME NEW g \in Gateways, AnalysisDisconnect(g) \/ Unlock(g) PROVE TypeOK'
  BY <1>12 DEF AnalysisDisconnect, Unlock, Goto, Goroutines, Step, Phase
<1>13. ASSUME NEW g \in Goroutines, Broadcast(g) PROVE TypeOK'
  <2>1. PICK p \in IF g \in Conns THEN {PidOf[g]} ELSE inbox[g] :
           /\ out' = [out EXCEPT ![g] = [type |-> pc[g], pid |-> p]]
           /\ inbox' = IF g \in Gateways THEN [inbox EXCEPT ![g] = @ \ {p}] ELSE inbox
    BY <1>13 DEF Broadcast
  <2>2. p \in Pids
    BY <2>1, PidsType DEF Goroutines
  <2>3. out' \in [Goroutines -> Message]
    BY <1>13, <2>1, <2>2 DEF Broadcast, Message
  <2>4. inbox' \in [Gateways -> SUBSET Pids]
    BY <2>1
  <2>5. pc' \in [Goroutines -> Step]
    BY <1>13, AfterType DEF Broadcast, Goto
  <2>6. targets' \in [Goroutines -> SUBSET Goroutines]
    BY <1>13 DEF Broadcast, Goroutines
  <2>7. \A h \in Goroutines : targets'[h] # {} => out'[h] # NoMessage
    BY <1>13, <2>1 DEF Broadcast, NoMessage, Sending, Announcement
  <2> QED
    BY <1>13, <2>3, <2>4, <2>5, <2>6, <2>7 DEF Broadcast
<1>14. ASSUME NEW g \in Goroutines, NEW d \in Goroutines, Write(g, d) PROVE TypeOK'
  <2>1. out[g] \in Message /\ NoMessage \in Message
    BY DEF Message
  <2>2. /\ out' \in [Goroutines -> Message]
        /\ targets' \in [Goroutines -> SUBSET Goroutines]
        /\ \A h \in Goroutines : targets'[h] # {} => out'[h] # NoMessage
    BY <1>14, <2>1 DEF Write
  <2>3. out[g].pid \in Pids
    BY <1>14 DEF Write, Message
  <2>4. tiles' \in [Conns -> SUBSET Pids]
    BY <1>14, <2>3 DEF Write, Tiles
  <2>5. inbox' \in [Gateways -> SUBSET Pids]
    BY <1>14, <2>3 DEF Write
  <2> QED
    BY <1>14, <2>2, <2>4, <2>5 DEF Write
<1>15. CASE UNCHANGED vars
  BY <1>15 DEF vars
<1> QED
  BY <1>1, <1>3, <1>4, <1>5, <1>6, <1>7, <1>8, <1>9, <1>10, <1>11, <1>12, <1>13,
     <1>14, <1>15 DEF Next

-----------------------------------------------------------------------------
(* The goroutines follow the lives of their connections *)

LEMMA HandlersStep == TypeOK /\ Handlers /\ [Next]_vars => Handlers'
<1> SUFFICES ASSUME TypeOK, Handlers, [Next]_vars PROVE Handlers'
  OBVIOUS
<1> USE Disjoint DEF TypeOK, Handlers, ClientSteps, GatewaySteps, Goroutines
<1>1. ASSUME NEW c \in Conns, Connect(c) PROVE Handlers'
  BY <1>1 DEF Connect
<1>2. ASSUME NEW c \in Conns, ReadJoin(c) \/ ReadLeave(c) \/ ReadFrame(c) PROVE Handlers'
  BY <1>2 DEF ReadJoin, ReadLeave, ReadFrame, Read, Goto
<1>3. ASSUME NEW c \in Conns, Disconnect(c) PROVE Handlers'
  BY <1>3 DEF Disconnect, Read, Goto
<1>4. ASSUME NEW c \in Conns, SetJoinMeta(c) \/ ParticipantSnapshot(c)
                               \/ SendSnapshot(c) \/ RemoveConnJoinMeta(c)
      PROVE  Handlers'
  <2>1. phase' = phase /\ \E step \in Step : pc' = [pc EXCEPT ![c] = step]
    BY <1>4 DEF SetJoinMeta, ParticipantSnapshot, SendSnapshot, RemoveConnJoinMeta,
                Goto, Step, Sending, Announcement
  <2>2. pc'[c] \in ClientSteps[phase[c]]
    <3>1. phase[c] = IF pc[c] = "forget" THEN "left" ELSE "joined"
      BY <1>4 DEF SetJoinMeta, ParticipantSnapshot, SendSnapshot,
                  RemoveConnJoinMeta, At, Phase
    <3> QED
      BY <1>4, <3>1 DEF SetJoinMeta, ParticipantSnapshot, SendSnapshot,
                        RemoveConnJoinMeta, At, Goto
  <2> QED
    BY <2>1, <2>2
<1>5. ASSUME NEW c \in Conns, Remove(c) PROVE Handlers'
  BY <1>5 DEF Remove, Goto
<1>6. ASSUME NEW g \in Gateways, AnalysisConnect(g) \/ Attach(g) PROVE Handlers'
  BY <1>6 DEF AnalysisConnect, Attach, At, Goto, Phase
<1>7. ASSUME NEW g \in Gateways, ReadResult(g) PROVE Handlers'
  BY <1>7 DEF ReadResult, Goto
<1>8. ASSUME NEW g \in Gateways, AnalysisDisconnect(g) \/ Unlock(g) PROVE Handlers'
  BY <1>8 DEF AnalysisDisconnect, Unlock, At, Goto
<1>9. ASSUME NEW g \in Goroutines, Broadcast(g) PROVE Handlers'
  <2>1. phase' = phase /\ pc' = [pc EXCEPT ![g] = After(g)]
    BY <1>9 DEF Broadcast, Goto
  <2>2. ASSUME g \in Conns PROVE After(g) \in ClientSteps[phase[g]]
    BY <1>9, <2>2 DEF Broadcast, After, Sending, Announcement, Phase
  <2>3. ASSUME g \in Gateways PROVE After(g) \in GatewaySteps[phase[g]]
    <3>1. phase[g] = "connected" /\ pc[g] = "face_analysis"
      BY <1>9, <2>3 DEF Broadcast, Sending, Announcement, Phase
    <3>2. After(g) = "idle"
      BY <3>1 DEF After
    <3> QED
      BY <3>1, <3>2
  <2> QED
    BY <2>1, <2>2, <2>3
<1>10. ASSUME NEW g \in Goroutines, NEW d \in Goroutines, Write(g, d) PROVE Handlers'
  BY <1>10 DEF Write
<1>11. CASE UNCHANGED vars
  BY <1>11 DEF vars
<1> QED
  BY <1>1, <1>2, <1>3, <1>4, <1>5, <1>6, <1>7, <1>8, <1>9, <1>10, <1>11 DEF Next

-----------------------------------------------------------------------------
(* The tables of the hub follow the lives of the connections *)

LEMMA RegisteredStep ==
    TypeOK /\ Handlers /\ Registered /\ [Next]_vars => Registered'
<1> SUFFICES ASSUME TypeOK, Handlers, Registered, [Next]_vars PROVE Registered'
  OBVIOUS
<1> USE Disjoint DEF TypeOK, Registered, Goroutines
<1>1. ASSUME NEW c \in Conns, Connect(c) PROVE Registered'
  BY <1>1 DEF Connect
<1>2. ASSUME NEW c \in Conns, ReadJoin(c) \/ ReadLeave(c) \/ ReadFrame(c) PROVE Registered'
  BY <1>2 DEF ReadJoin, ReadLeave, ReadFrame, Read, hub
<1>3. ASSUME NEW c \in Conns, Disconnect(c) PROVE Registered'
  BY <1>3 DEF Disconnect, Read, hub
<1>4. ASSUME NEW c \in Conns, SetJoinMeta(c) PROVE Registered'
  <2>1. phase[c] = "joined"
    BY <1>4 DEF SetJoinMeta, At, Handlers, ClientSteps, Phase
  <2> QED
    BY <1>4, <2>1 DEF SetJoinMeta
<1>5. ASSUME NEW c \in Conns, ParticipantSnapshot(c) \/ SendSnapshot(c) PROVE Registered'
  BY <1>5 DEF ParticipantSnapshot, SendSnapshot, hub
<1>6. ASSUME NEW c \in Conns, RemoveConnJoinMeta(c) PROVE Registered'
  BY <1>6 DEF RemoveConnJoinMeta
<1>7. ASSUME NEW c \in Conns, Remove(c) PROVE Registered'
  BY <1>7 DEF Remove
<1>8. ASSUME NEW g \in Gateways, AnalysisConnect(g) PROVE Registered'
  BY <1>8 DEF AnalysisConnect
<1>9. ASSUME NEW g \in Gateways, Attach(g) PROVE Registered'
  <2>1. phase[g] = "connected"
    BY <1>9 DEF Attach, At, Handlers, GatewaySteps, Phase
  <2> QED
    BY <1>9, <2>1 DEF Attach
<1>10. ASSUME NEW g \in Gateways, ReadResult(g) PROVE Registered'
  BY <1>10 DEF ReadResult, hub
<1>11. ASSUME NEW g \in Gateways, AnalysisDisconnect(g) PROVE Registered'
  BY <1>11 DEF AnalysisDisconnect
<1>12. ASSUME NEW g \in Gateways, Unlock(g) PROVE Registered'
  <2>1. phase[g] = "exiting"
    BY <1>12 DEF Unlock, At, Handlers, GatewaySteps, Phase
  <2> QED
    BY <1>12, <2>1 DEF Unlock
<1>13. ASSUME NEW g \in Goroutines, Broadcast(g) PROVE Registered'
  BY <1>13 DEF Broadcast, hub
<1>14. ASSUME NEW g \in Goroutines, NEW d \in Goroutines, Write(g, d) PROVE Registered'
  BY <1>14 DEF Write, hub
<1>15. CASE UNCHANGED vars
  BY <1>15 DEF vars, hub
<1> QED
  BY <1>1, <1>2, <1>3, <1>4, <1>5, <1>6, <1>7, <1>8, <1>9, <1>10, <1>11, <1>12,
     <1>13, <1>14, <1>15 DEF Next

\* What Handlers says of single steps.
LEMMA ClientStep ==
    ASSUME TypeOK, Handlers, NEW c \in Conns
    PROVE  /\ pc[c] \in {"leave", "user_left"} => phase[c] \in {"left", "exiting"}
           /\ pc[c] = "forget" => phase[c] = "left"
           /\ phase[c] = "joined" => pc[c] \in ClientSteps.joined
<1>1. phase[c] \in Phase /\ pc[c] \in ClientSteps[phase[c]]
  BY DEF TypeOK, Handlers, Goroutines
<1> QED
  BY <1>1 DEF Phase, ClientSteps

LEMMA GatewayStep ==
    ASSUME TypeOK, Handlers, NEW g \in Gateways
    PROVE  pc[g] \notin {"leave", "user_left"}
<1>1. phase[g] \in Phase /\ pc[g] \in GatewaySteps[phase[g]]
  BY DEF TypeOK, Handlers, Goroutines
<1> QED
  BY <1>1 DEF Phase, GatewaySteps

-----------------------------------------------------------------------------
(* A departure on the wire is that of the connection whose goroutine sends it *)

LEMMA DeparturesStep ==
    TypeOK /\ Handlers /\ Departures /\ [Next]_vars => Departures'
<1> SUFFICES ASSUME TypeOK, Handlers, Departures, [Next]_vars PROVE Departures'
  OBVIOUS
<1> USE Disjoint DEF TypeOK, Departures, Goroutines
<1>1. ASSUME NEW c \in Conns, Connect(c) PROVE Departures'
  BY <1>1 DEF Connect
<1>2. ASSUME NEW c \in Conns, ReadJoin(c) \/ ReadLeave(c) \/ ReadFrame(c) PROVE Departures'
  BY <1>2 DEF ReadJoin, ReadLeave, ReadFrame, Read, Idle
<1>3. ASSUME NEW c \in Conns, Disconnect(c) PROVE Departures'
  BY <1>3 DEF Disconnect, Read, Idle
<1>4. ASSUME NEW c \in Conns, SetJoinMeta(c) \/ ParticipantSnapshot(c)
                               \/ SendSnapshot(c) \/ RemoveConnJoinMeta(c)
      PROVE  Departures'
  BY <1>4 DEF SetJoinMeta, ParticipantSnapshot, SendSnapshot, RemoveConnJoinMeta
<1>5. ASSUME NEW c \in Conns, Remove(c) PROVE Departures'
  BY <1>5 DEF Remove, At
<1>6. ASSUME NEW g \in Gateways, AnalysisConnect(g) \/ Attach(g) \/ ReadResult(g)
      PROVE  Departures'
  BY <1>6 DEF AnalysisConnect, Attach, ReadResult
<1>7. ASSUME NEW g \in Gateways, AnalysisDisconnect(g) \/ Unlock(g) PROVE Departures'
  BY <1>7 DEF AnalysisDisconnect, Unlock
<1>8. ASSUME NEW g \in Goroutines, Broadcast(g) PROVE Departures'
  <2>1. PICK p \in IF g \in Conns THEN {PidOf[g]} ELSE inbox[g] :
           out' = [out EXCEPT ![g] = [type |-> pc[g], pid |-> p]]
    BY <1>8 DEF Broadcast
  <2>2. ASSUME pc[g] \in {"leave", "user_left"}
        PROVE  g \in Conns /\ phase[g] \in {"left", "exiting"}
    BY <2>2, ClientStep, GatewayStep
  <2>3. out'[g].type \in {"leave", "user_left"} =>
           g \in Conns /\ out'[g].pid = PidOf[g] /\ phase'[g] \in {"left", "exiting"}
    BY <1>8, <2>1, <2>2 DEF Broadcast
  <2>4. \A h \in Goroutines \ {g} :
           targets'[h] = targets[h] /\ out'[h] = out[h] /\ phase'[h] = phase[h]
    BY <1>8, <2>1 DEF Broadcast
  <2> QED
    BY <2>3, <2>4
<1>9. ASSUME NEW g \in Goroutines, NEW d \in Goroutines, Write(g, d) PROVE Departures'
  BY <1>9 DEF Write, NoMessage
<1>10. CASE UNCHANGED vars
  BY <1>10 DEF vars
<1> QED
  BY <1>1, <1>2, <1>3, <1>4, <1>5, <1>6, <1>7, <1>8, <1>9, <1>10 DEF Next

-----------------------------------------------------------------------------
(* The invariant *)

\* The inductive invariant holds for any number of connections.
THEOREM Invariance == Spec => []IInv
<1>1. Init => IInv
  <2> SUFFICES ASSUME Init PROVE Handlers /\ Registered /\ Departures
    BY InitType DEF IInv
  <2> QED
    BY DEF Init, Handlers, Registered, Departures, ClientSteps, GatewaySteps, Goroutines
<1>2. IInv /\ [Next]_vars => IInv'
  BY TypeStep, HandlersStep, RegisteredStep, DeparturesStep DEF IInv
<1> QED
  BY <1>1, <1>2, PTL DEF Spec

\* Type correctness of the hub, its goroutines and its clients.
THEOREM TypeCorrect == Spec => []TypeOK
BY Invariance, PTL DEF IInv

\* The tables of the hub stay together, however connections and subscribers
\* come and go.
THEOREM TablesStayTogether == Spec => []TablesTogether
<1>1. ASSUME IInv PROVE TablesTogether
  <2> USE <1>1 DEF IInv, Registered
  <2>1. sessions \cup analysisConns \subseteq connLocks /\ joinMeta \subseteq sessions
    OBVIOUS
  <2>2. ASSUME NEW g \in Goroutines, phase[g] = "closed"
        PROVE  g \notin sessions \cup joinMeta \cup connLocks \cup analysisConns
    <3>1. g \notin sessions /\ g \notin connLocks /\ g \notin analysisConns
      BY <2>2
    <3> QED
      BY <3>1
  <2> QED
    BY <2>1, <2>2 DEF TablesTogether
<1> QED
  BY <1>1, Invariance, PTL

-----------------------------------------------------------------------------
(* Late tabs see the early ones *)

\* No two connections share a participant id.
OwnPids == \A c, d \in Conns : PidOf[c] = PidOf[d] => c = d

\* A write removes from the tiles of its target only the participant of a
\* connection that has left.
LEMMA WriteTiles ==
    ASSUME TypeOK, Departures, OwnPids, NEW g \in Goroutines, NEW d \in Goroutines,
           Write(g, d), NEW c \in Conns, NEW e \in Conns, phase[e] = "joined",
           PidOf[e] \in tiles[c]
    PROVE  PidOf[e] \in tiles'[c]
<1>1. CASE tiles' = tiles
  BY <1>1
<1>2. CASE d \in Conns /\ tiles' = [tiles EXCEPT ![d] = Tiles(@, out[g])]
  <2>1. ~ (out[g].type \in {"leave", "user_left"} /\ out[g].pid = PidOf[e])
    BY DEF Departures, Write, OwnPids
  <2>2. PidOf[e] \in Tiles(tiles[c], out[g])
    BY <2>1 DEF Tiles
  <2> QED
    BY <1>2, <2>2 DEF TypeOK
<1> QED
  BY <1>1, <1>2 DEF Write

LEMMA OwedStep ==
    OwnPids /\ IInv /\ Owed /\ [Next]_vars => Owed'
<1> SUFFICES ASSUME OwnPids, IInv, Owed, [Next]_vars, NEW c \in Conns, NEW d \in Conns
             PROVE  /\ d \in early'[c] => phase'[d] \notin {"new", "connected"}
                    /\ Before(d, c)' => OwedTo(c, d)'
  BY DEF Owed
<1> DEFINE Goal == /\ d \in early'[c] => phase'[d] \notin {"new", "connected"}
                   /\ Before(d, c)' => OwedTo(c, d)'
<1> USE Disjoint DEF IInv, TypeOK, Goroutines, Before, OwedTo, client, hub, seen, Goal
<1>1. ASSUME NEW b \in Conns, Connect(b) PROVE Goal
  BY <1>1 DEF Connect, Owed
<1>2. ASSUME NEW b \in Conns, ReadJoin(b) PROVE Goal
  BY <1>2 DEF ReadJoin, Read, Goto, Owed
<1>3. ASSUME NEW b \in Conns, ReadLeave(b) \/ Disconnect(b) PROVE Goal
  BY <1>3 DEF ReadLeave, Disconnect, Read, Goto, Owed
<1>4. ASSUME NEW b \in Conns, ReadFrame(b) PROVE Goal
  BY <1>4 DEF ReadFrame, Read, Idle, Goto, Owed
<1>5. ASSUME NEW b \in Conns, SetJoinMeta(b) PROVE Goal
  BY <1>5 DEF SetJoinMeta, At, Goto, Owed, Registered
<1>6. ASSUME NEW b \in Conns, ParticipantSnapshot(b) PROVE Goal
  BY <1>6 DEF ParticipantSnapshot, At, Goto, Owed
<1>7. ASSUME NEW b \in Conns, SendSnapshot(b) PROVE Goal
  BY <1>7 DEF SendSnapshot, At, Goto, Owed
<1>8. ASSUME NEW b \in Conns, RemoveConnJoinMeta(b) PROVE Goal
  <2>1. phase[b] = "left"
    BY <1>8, ClientStep DEF RemoveConnJoinMeta, At
  <2> QED
    BY <1>8, <2>1 DEF RemoveConnJoinMeta, Goto, Owed
<1>9. ASSUME NEW b \in Conns, Remove(b) PROVE Goal
  BY <1>9 DEF Remove, Goto, Owed
<1>10. ASSUME NEW g \in Gateways, AnalysisConnect(g) \/ Attach(g) PROVE Goal
  BY <1>10 DEF AnalysisConnect, Attach, Goto, Owed
<1>11. ASSUME NEW g \in Gateways, ReadResult(g) PROVE Goal
  BY <1>11 DEF ReadResult, Goto, Owed
<1>12. ASSUME NEW g \in Gateways, AnalysisDisconnect(g) \/ Unlock(g) PROVE Goal
  BY <1>12 DEF AnalysisDisconnect, Unlock, Goto, Owed
<1>13. ASSUME NEW g \in Goroutines, Broadcast(g) PROVE Goal
  <2>1. /\ pc' = [pc EXCEPT ![g] = After(g)]
        /\ UNCHANGED <<joinMeta, phase, snap, tiles, early>>
    BY <1>13 DEF Broadcast, Goto
  <2>2. CASE g = c /\ phase[c] = "joined"
    <3>1. pc[c] \in {"join", "user_joined", "frame", "fanout"}
      BY <1>13, <2>2, ClientStep DEF Broadcast, ClientSteps, Sending, Announcement
    <3>2. After(c) = CASE pc[c] = "join" -> "user_joined"
                       [] pc[c] = "user_joined" -> "snapshot"
                       [] pc[c] = "frame" -> "fanout"
                       [] OTHER -> "idle"
      BY <3>1 DEF After
    <3> QED
      BY <2>1, <2>2, <3>1, <3>2 DEF Owed
  <2>3. CASE g # c \/ phase[c] # "joined"
    BY <2>1, <2>3 DEF Owed
  <2> QED
    BY <2>2, <2>3
<1>14. ASSUME NEW g \in Goroutines, NEW e \in Goroutines, Write(g, e) PROVE Goal
  <2>1. UNCHANGED <<joinMeta, phase, pc, snap, early>>
    BY <1>14 DEF Write
  <2> QED
    BY <1>14, <2>1, WriteTiles DEF Owed
<1>15. CASE UNCHANGED vars
  BY <1>15 DEF vars, Owed
<1> QED
  BY <1>1, <1>2, <1>3, <1>4, <1>5, <1>6, <1>7, <1>8, <1>9, <1>10, <1>11, <1>12,
     <1>13, <1>14, <1>15 DEF Next

\* With a participant id of its own for every connection, a client whose join
\* handler is done shows everybody who joined before it and is still there.
THEOREM LateTabsSeeEarly == ASSUME OwnPids PROVE Spec => []LateSeesEarly
<1>1. Init => Owed
  BY DEF Init, Owed, OwedTo, Before, Goroutines
<1>2. Owed => LateSeesEarly
  BY DEF Owed, OwedTo, Before, LateSeesEarly, Idle
<1>3. IInv /\ Owed /\ [Next]_vars => Owed'
  BY OwedStep
<1> QED
  BY <1>1, <1>2, <1>3, Invariance, PTL DEF Spec
-----------------------------------------------------------------------------
(* Handlers that have the hub for themselves keep the tiles exact *)

Joining  == {"set_meta", "join", "user_joined", "snapshot", "send"}
Parting  == {"forget", "leave", "user_left", "remove"}
Handling == Joining \cup Parting

\* What a goroutine writes is what its handler is about: a client connection
\* announces itself, the analysis connection answers frames and is sent nothing
\* else.
Outgoing ==
    \A g \in Goroutines : targets[g] # {} =>
        /\ g \in Conns =>
             /\ out[g].pid = PidOf[g]
             /\ out[g].type \in {"leave", "user_left"} \/ phase[g] = "joined"
             /\ pc[g] = "user_joined" => out[g].type = "join"
             /\ pc[g] = "user_left" => out[g].type = "leave"
             /\ pc[g] \notin {"set_meta", "join", "forget", "leave"}
        /\ g \in Gateways => out[g].type = "face_analysis"
        /\ \A h \in targets[g] : h \in Gateways => out[g].type = "fanout"

OneHandler ==
    \A c, d \in Conns : pc[c] \in Handling /\ pc[d] \in Handling => c = d

Stays(d) == phase[d] = "joined" /\ d \in joinMeta

\* The metadata is that of the participants who are there, but for the one
\* whose handler is at work.
Known ==
    \A d \in Conns :
        /\ d \in joinMeta => \/ phase[d] = "joined" \/ pc[d] = "forget"
                             \/ phase[d] = "exiting"
        /\ phase[d] = "joined" /\ pc[d] # "set_meta" => d \in joinMeta

Named(p) == \E d \in Conns : PidOf[d] = p /\ Stays(d)

\* Frames under way and their answers are of participants who are there.
Echoes ==
    \A g \in Gateways :
        /\ \A p \in inbox[g] : Named(p)
        /\ targets[g] # {} => Named(out[g].pid)

SnapExact == \A c \in Conns : pc[c] = "send" => snap[c] = Present

\* c shows d: rightly, or because it has yet to be told that d leaves.
ShownTo(c, d) ==
    \/ Stays(d)
    \/ pc[d] \in {"forget", "leave"}
    \/ pc[d] = "user_left" /\ c \in targets[d]

Sound ==
    \A c \in Conns : phase[c] = "joined" /\ pc[c] \notin Joining =>
        \A p \in tiles[c] : \E d \in Conns : PidOf[d] = p /\ ShownTo(c, d)

Complete ==
    \A c, d \in Conns :
        /\ phase[c] = "joined" /\ pc[c] \notin Joining
        /\ phase[d] = "joined" /\ pc[d] \notin {"set_meta", "join"}
        => PidOf[d] \in tiles[c] \/ (pc[d] = "user_joined" /\ c \in targets[d])

Exact    == OneHandler /\ Known /\ Echoes /\ SnapExact /\ Sound /\ Complete
ExactInv == apart => Exact

LEMMA OutgoingStep == IInv /\ Outgoing /\ [Next]_vars => Outgoing'
<1> SUFFICES ASSUME IInv, Outgoing, [Next]_vars PROVE Outgoing'
  OBVIOUS
<1> USE Disjoint DEF IInv, TypeOK, Outgoing, Goroutines
<1>1. ASSUME NEW c \in Conns, Connect(c) PROVE Outgoing'
  BY <1>1 DEF Connect
<1>2. ASSUME NEW c \in Conns, NEW from, NEW to, NEW step, Read(c, from, to, step)
      PROVE  Outgoing'
  BY <1>2 DEF Read, Idle, Goto
<1>3. ASSUME NEW c \in Conns, ReadJoin(c) \/ ReadLeave(c) \/ ReadFrame(c) \/ Disconnect(c)
      PROVE  Outgoing'
  BY <1>2, <1>3 DEF ReadJoin, ReadLeave, ReadFrame, Disconnect
<1>4. ASSUME NEW c \in Conns, SetJoinMeta(c) \/ ParticipantSnapshot(c)
                               \/ SendSnapshot(c) \/ RemoveConnJoinMeta(c)
      PROVE  Outgoing'
  BY <1>4 DEF SetJoinMeta, ParticipantSnapshot, SendSnapshot, RemoveConnJoinMeta,
              At, Goto
<1>5. ASSUME NEW c \in Conns, Remove(c) PROVE Outgoing'
  BY <1>5 DEF Remove, At, Goto
<1>6. ASSUME NEW g \in Gateways,
             \/ AnalysisConnect(g) \/ Attach(g) \/ ReadResult(g)
             \/ AnalysisDisconnect(g) \/ Unlock(g)
      PROVE  Outgoing'
  BY <1>6 DEF AnalysisConnect, Attach, ReadResult, AnalysisDisconnect, Unlock, Goto
<1>7. ASSUME NEW g \in Goroutines, Broadcast(g) PROVE Outgoing'
  <2>1. PICK p \in IF g \in Conns THEN {PidOf[g]} ELSE inbox[g] :
           out' = [out EXCEPT ![g] = [type |-> pc[g], pid |-> p]]
    BY <1>7 DEF Broadcast
  <2>2. /\ out'[g].type = pc[g] /\ out'[g].pid = p /\ pc[g] \in Sending
        /\ pc'[g] = After(g) /\ phase' = phase
        /\ targets'[g] = IF pc[g] = "fanout" THEN analysisConns ELSE sessions
    BY <1>7, <2>1 DEF Broadcast, Goto
  <2>3. \A h \in Goroutines \ {g} :
           targets'[h] = targets[h] /\ out'[h] = out[h] /\ pc'[h] = pc[h]
    BY <1>7, <2>1 DEF Broadcast, Goto
  <2>4. \A h \in targets'[g] : h \in Gateways => out'[g].type = "fanout"
    BY <2>2 DEF Registered
  <2>5. ASSUME g \in Gateways PROVE out'[g].type = "face_analysis"
    <3>1. phase[g] \in Phase /\ pc[g] \in GatewaySteps[phase[g]]
      BY <2>5 DEF Handlers
    <3> QED
      BY <2>2, <3>1 DEF Phase, GatewaySteps, Sending, Announcement
  <2>6. ASSUME g \in Conns
        PROVE  /\ out'[g].pid = PidOf[g]
               /\ out'[g].type \in {"leave", "user_left"} \/ phase'[g] = "joined"
               /\ pc'[g] = "user_joined" => out'[g].type = "join"
               /\ pc'[g] = "user_left" => out'[g].type = "leave"
               /\ pc'[g] \notin {"set_meta", "join", "forget", "leave"}
    <3>1. phase[g] \in Phase /\ pc[g] \in ClientSteps[phase[g]]
      BY <2>6 DEF Handlers
    <3>2. pc[g] \notin {"leave", "user_left"} => phase[g] = "joined"
      BY <2>2, <3>1 DEF Phase, ClientSteps, Sending, Announcement
    <3>3. /\ After(g) = "user_joined" => pc[g] = "join"
          /\ After(g) = "user_left" => pc[g] = "leave"
          /\ After(g) \notin {"set_meta", "join", "forget", "leave"}
      BY DEF After
    <3>4. p = PidOf[g]
      BY <2>1, <2>6
    <3> QED
      BY <2>2, <3>2, <3>3, <3>4
  <2> QED
    BY <1>7, <2>3, <2>4, <2>5, <2>6, <2>2
<1>8. ASSUME NEW g \in Goroutines, NEW d \in Goroutines, Write(g, d) PROVE Outgoing'
  <2>1. /\ UNCHANGED <<pc, phase>> /\ targets'[g] \subseteq targets[g]
        /\ targets'[g] # {} => targets[g] # {} /\ out' = out
        /\ \A h \in Goroutines \ {g} : targets'[h] = targets[h] /\ out'[h] = out[h]
    BY <1>8 DEF Write
  <2> QED
    BY <2>1
<1>9. CASE UNCHANGED vars
  BY <1>9 DEF vars
<1> QED
  BY <1>1, <1>3, <1>4, <1>5, <1>6, <1>7, <1>8, <1>9 DEF Next

\* A handler begins when nobody else is at work, if all are to be apart.
LEMMA BeginsApart ==
    ASSUME NEW c \in Conns, ReadJoin(c) \/ ReadLeave(c) \/ Disconnect(c), apart'
    PROVE  /\ apart /\ \A g \in Goroutines : Idle(g)
           /\ \A g \in Gateways : inbox[g] = {}
BY DEF ReadJoin, ReadLeave, Disconnect, Begins

LEMMA StaysApart ==
    ASSUME [Next]_vars, apart' PROVE apart
BY DEF Next, Connect, ReadJoin, ReadLeave, ReadFrame, Disconnect, Begins, Read,
       SetJoinMeta, ParticipantSnapshot, SendSnapshot, RemoveConnJoinMeta, Remove,
       AnalysisConnect, Attach, ReadResult, AnalysisDisconnect, Unlock,
       Broadcast, Write, vars, seen

\* One handler at a time, and the metadata that goes with it.
LEMMA HandlerStep ==
    ASSUME IInv, OneHandler, Known, [Next]_vars, apart'
    PROVE  OneHandler' /\ Known'
<1> USE Disjoint DEF IInv, TypeOK, OneHandler, Known, Goroutines
<1> DEFINE Goal == OneHandler' /\ Known'
<1>1. ASSUME NEW c \in Conns, Connect(c) PROVE Goal
  BY <1>1 DEF Connect, Registered
<1>2. ASSUME NEW c \in Conns, ReadJoin(c) \/ ReadLeave(c) \/ Disconnect(c) PROVE Goal
  <2>1. \A d \in Conns : pc[d] = "idle"
    BY <1>2, BeginsApart DEF Idle
  <2>2. PICK from, to, step :
          /\ Read(c, from, to, step)
          /\ \/ from = "connected" /\ to = "joined" /\ step = "set_meta"
             \/ to = "exiting"
             \/ to = "left" /\ step = "forget"
    BY <1>2 DEF ReadJoin, ReadLeave, Disconnect
  <2>3. /\ phase[c] = from /\ phase' = [phase EXCEPT ![c] = to]
        /\ pc' = [pc EXCEPT ![c] = step] /\ UNCHANGED joinMeta
    BY <2>2 DEF Read, Goto, hub
  <2>4. OneHandler'
    BY <2>1, <2>3 DEF Handling, Joining, Parting
  <2>5. Known'
    BY <2>1, <2>2, <2>3 DEF Registered
  <2> QED
    BY <2>4, <2>5
<1>3. ASSUME NEW c \in Conns, ReadFrame(c) PROVE Goal
  BY <1>3 DEF ReadFrame, Read, Idle, Goto, hub, Handling, Joining, Parting
<1>4. ASSUME NEW c \in Conns, SetJoinMeta(c) PROVE Goal
  <2>1. phase[c] = "joined"
    BY <1>4 DEF SetJoinMeta, At, Handlers, ClientSteps, Phase
  <2> QED
    BY <1>4, <2>1 DEF SetJoinMeta, At, Goto, Handling, Joining, Parting
<1>5. ASSUME NEW c \in Conns, ParticipantSnapshot(c) \/ SendSnapshot(c) PROVE Goal
  BY <1>5 DEF ParticipantSnapshot, SendSnapshot, At, Goto, hub, Handling, Joining, Parting
<1>6. ASSUME NEW c \in Conns, RemoveConnJoinMeta(c) PROVE Goal
  <2>1. phase[c] = "left"
    BY <1>6, ClientStep DEF RemoveConnJoinMeta, At
  <2> QED
    BY <1>6, <2>1 DEF RemoveConnJoinMeta, At, Goto, Handling, Joining, Parting
<1>7. ASSUME NEW c \in Conns, Remove(c) PROVE Goal
  BY <1>7 DEF Remove, At, Goto, Handling, Joining, Parting
<1>8. ASSUME NEW g \in Gateways,
             \/ AnalysisConnect(g) \/ Attach(g) \/ ReadResult(g)
             \/ AnalysisDisconnect(g) \/ Unlock(g)
      PROVE  Goal
  <2>1. \A c \in Conns : pc'[c] = pc[c] /\ phase'[c] = phase[c]
    BY <1>8 DEF AnalysisConnect, Attach, ReadResult, AnalysisDisconnect, Unlock, Goto
  <2>2. UNCHANGED joinMeta
    BY <1>8 DEF AnalysisConnect, Attach, ReadResult, AnalysisDisconnect, Unlock, hub
  <2> QED
    BY <2>1, <2>2
<1>9. ASSUME NEW g \in Goroutines, Broadcast(g) PROVE Goal
  <2>1. /\ pc' = [pc EXCEPT ![g] = After(g)] /\ UNCHANGED <<joinMeta, phase>>
        /\ pc[g] \in Sending
    BY <1>9 DEF Broadcast, Goto, hub
  <2>2. /\ After(g) \in Handling => pc[g] \in Handling
        /\ After(g) # "set_meta"
    BY <2>1 DEF After, Handling, Joining, Parting, Sending, Announcement
  <2>3. OneHandler'
    BY <2>1, <2>2
  <2>4. Known'
    BY <2>1, <2>2 DEF Sending, Announcement
  <2> QED
    BY <2>3, <2>4
<1>10. ASSUME NEW g \in Goroutines, NEW d \in Goroutines, Write(g, d) PROVE Goal
  BY <1>10 DEF Write, hub
<1>11. CASE UNCHANGED vars
  BY <1>11 DEF vars, hub
<1> QED
  BY <1>1, <1>2, <1>3, <1>4, <1>5, <1>6, <1>7, <1>8, <1>9, <1>10, <1>11 DEF Next
\* A participant who is there stays until its own handler takes it away.
LEMMA StaysStep ==
    ASSUME IInv, [Next]_vars, NEW d \in Conns, Stays(d)
    PROVE  Stays(d)' \/ ReadLeave(d) \/ Disconnect(d)
<1> USE Disjoint DEF IInv, TypeOK, Stays, Goroutines
<1>1. ASSUME NEW c \in Conns, Connect(c) \/ ReadJoin(c) \/ ReadFrame(c)
      PROVE  Stays(d)'
  BY <1>1 DEF Connect, ReadJoin, ReadFrame, Read, hub
<1>2. ASSUME NEW c \in Conns, ReadLeave(c) \/ Disconnect(c), c # d
      PROVE  Stays(d)'
  BY <1>2 DEF ReadLeave, Disconnect, Read, hub
<1>3. ASSUME NEW c \in Conns, SetJoinMeta(c) \/ ParticipantSnapshot(c) \/ SendSnapshot(c)
      PROVE  Stays(d)'
  BY <1>3 DEF SetJoinMeta, ParticipantSnapshot, SendSnapshot, hub
<1>4. ASSUME NEW c \in Conns, RemoveConnJoinMeta(c) PROVE Stays(d)'
  <2>1. phase[c] = "left"
    BY <1>4, ClientStep DEF RemoveConnJoinMeta, At
  <2> QED
    BY <1>4, <2>1 DEF RemoveConnJoinMeta
<1>5. ASSUME NEW c \in Conns, Remove(c) PROVE Stays(d)'
  <2>1. phase[c] # "joined"
    BY <1>5, ClientStep DEF Remove, At, ClientSteps
  <2> QED
    BY <1>5, <2>1 DEF Remove
<1>6. ASSUME NEW g \in Gateways,
             \/ AnalysisConnect(g) \/ Attach(g) \/ ReadResult(g)
             \/ AnalysisDisconnect(g) \/ Unlock(g)
      PROVE  Stays(d)'
  BY <1>6 DEF AnalysisConnect, Attach, ReadResult, AnalysisDisconnect, Unlock, hub
<1>7. ASSUME NEW g \in Goroutines, Broadcast(g) \/ \E e \in Goroutines : Write(g, e)
      PROVE  Stays(d)'
  BY <1>7 DEF Broadcast, Write, hub
<1>8. CASE UNCHANGED vars
  BY <1>8 DEF vars, hub
<1> QED
  BY <1>1, <1>2, <1>3, <1>4, <1>5, <1>6, <1>7, <1>8 DEF Next

LEMMA EchoesStep ==
    ASSUME IInv, Outgoing, Known, Echoes, [Next]_vars, apart'
    PROVE  Echoes'
<1> USE Disjoint DEF IInv, TypeOK, Goroutines
<1>1. ASSUME NEW c \in Conns, ReadJoin(c) \/ ReadLeave(c) \/ Disconnect(c)
      PROVE  Echoes'
  <2>1. \A g \in Gateways : inbox[g] = {} /\ targets[g] = {}
    BY <1>1, BeginsApart DEF Idle
  <2>2. UNCHANGED <<inbox, targets>>
    BY <1>1 DEF ReadJoin, ReadLeave, Disconnect, Read
  <2> QED
    BY <2>1, <2>2 DEF Echoes
<1>2. ASSUME \A c \in Conns : ~(ReadLeave(c) \/ Disconnect(c)), NEW p, Named(p)
      PROVE  Named(p)'
  BY <1>2, StaysStep DEF Named
<1>3. ASSUME \A c \in Conns : ~(ReadJoin(c) \/ ReadLeave(c) \/ Disconnect(c))
      PROVE  Echoes'
  <2>0. \A p : Named(p) => Named(p)'
    BY <1>2, <1>3
  <2>1. CASE UNCHANGED <<inbox, targets, out>>
    BY <2>0, <2>1 DEF Echoes
  <2>2. ASSUME NEW c \in Conns,
               \/ Connect(c) \/ ReadFrame(c) \/ SetJoinMeta(c) \/ ParticipantSnapshot(c)
               \/ SendSnapshot(c) \/ RemoveConnJoinMeta(c) \/ Remove(c)
        PROVE  Echoes'
    BY <2>1, <2>2 DEF Connect, ReadFrame, Read, SetJoinMeta, ParticipantSnapshot,
                      SendSnapshot, RemoveConnJoinMeta, Remove, client
  <2>3. ASSUME NEW g \in Gateways,
               AnalysisConnect(g) \/ Attach(g) \/ ReadResult(g) \/ AnalysisDisconnect(g)
        PROVE  Echoes'
    BY <2>1, <2>3 DEF AnalysisConnect, Attach, ReadResult, AnalysisDisconnect, client
  <2>4. ASSUME NEW g \in Gateways, Unlock(g) PROVE Echoes'
    BY <2>0, <2>4 DEF Unlock, Echoes
  <2>5. ASSUME NEW g \in Goroutines, Broadcast(g) PROVE Echoes'
    <3>1. PICK p \in IF g \in Conns THEN {PidOf[g]} ELSE inbox[g] :
             /\ out' = [out EXCEPT ![g] = [type |-> pc[g], pid |-> p]]
             /\ inbox' = IF g \in Gateways THEN [inbox EXCEPT ![g] = @ \ {p}] ELSE inbox
      BY <2>5 DEF Broadcast
    <3>2. g \in Gateways => Named(p) /\ out'[g].pid = p
      BY <3>1 DEF Echoes
    <3>3. \A h \in Gateways : inbox'[h] \subseteq inbox[h]
      BY <3>1
    <3>4. \A h \in Gateways \ {g} : targets'[h] = targets[h] /\ out'[h] = out[h]
      BY <2>5, <3>1 DEF Broadcast
    <3> QED
      BY <2>0, <3>2, <3>3, <3>4 DEF Echoes
  <2>6. ASSUME NEW g \in Goroutines, NEW d \in Goroutines, Write(g, d) PROVE Echoes'
    <3>1. ASSUME d \in Gateways PROVE Named(out[g].pid)
      <4>1. d \in targets[g] /\ targets[g] # {}
        BY <2>6 DEF Write
      <4>2. out[g].type = "fanout" /\ g \in Conns
        BY <3>1, <4>1 DEF Outgoing
      <4>3. phase[g] = "joined" /\ pc[g] # "set_meta" /\ out[g].pid = PidOf[g]
        BY <4>1, <4>2 DEF Outgoing
      <4> QED
        BY <4>2, <4>3 DEF Known, Named, Stays
    <3>2. \A h \in Gateways : \A p \in inbox'[h] : p \in inbox[h] \/ Named(p)
      BY <2>6, <3>1 DEF Write
    <3>3. \A h \in Gateways : targets'[h] # {} => targets[h] # {} /\ out'[h] = out[h]
      BY <2>6 DEF Write
    <3> QED
      BY <2>0, <3>2, <3>3 DEF Echoes
  <2>7. CASE UNCHANGED vars
    BY <2>1, <2>7 DEF vars, client
  <2> QED
    BY <1>3, <2>2, <2>3, <2>4, <2>5, <2>6, <2>7 DEF Next
<1> QED
  BY <1>1, <1>3

LEMMA SnapStep ==
    ASSUME IInv, OneHandler, SnapExact, [Next]_vars
    PROVE  SnapExact'
<1> USE Disjoint DEF IInv, TypeOK, Goroutines, SnapExact, Present
<1>1. ASSUME NEW c \in Conns,
             Connect(c) \/ ReadJoin(c) \/ ReadLeave(c) \/ ReadFrame(c) \/ Disconnect(c)
      PROVE  SnapExact'
  BY <1>1 DEF Connect, ReadJoin, ReadLeave, ReadFrame, Disconnect, Read, Goto, hub
<1>2. ASSUME NEW c \in Conns, SetJoinMeta(c) \/ RemoveConnJoinMeta(c) \/ Remove(c)
      PROVE  SnapExact'
  <2>1. \A d \in Conns : pc'[d] # "send"
    BY <1>2 DEF SetJoinMeta, RemoveConnJoinMeta, Remove, At, Goto, OneHandler,
                Handling, Joining, Parting
  <2> QED
    BY <2>1
<1>3. ASSUME NEW c \in Conns, ParticipantSnapshot(c) PROVE SnapExact'
  BY <1>3 DEF ParticipantSnapshot, Goto, hub
<1>4. ASSUME NEW c \in Conns, SendSnapshot(c) PROVE SnapExact'
  BY <1>4 DEF SendSnapshot, Goto, hub
<1>5. ASSUME NEW g \in Gateways,
             \/ AnalysisConnect(g) \/ Attach(g) \/ ReadResult(g)
             \/ AnalysisDisconnect(g) \/ Unlock(g)
      PROVE  SnapExact'
  <2>1. \A c \in Conns : pc'[c] = pc[c]
    BY <1>5 DEF AnalysisConnect, Attach, ReadResult, AnalysisDisconnect, Unlock, Goto
  <2>2. UNCHANGED <<joinMeta, snap>>
    BY <1>5 DEF AnalysisConnect, Attach, ReadResult, AnalysisDisconnect, Unlock, hub
  <2> QED
    BY <2>1, <2>2
<1>6. ASSUME NEW g \in Goroutines, Broadcast(g) PROVE SnapExact'
  <2>1. After(g) # "send"
    BY DEF After
  <2> QED
    BY <1>6, <2>1 DEF Broadcast, Goto, hub
<1>7. ASSUME NEW g \in Goroutines, NEW d \in Goroutines, Write(g, d) PROVE SnapExact'
  BY <1>7 DEF Write, hub
<1>8. CASE UNCHANGED vars
  BY <1>8 DEF vars, hub
<1> QED
  BY <1>1, <1>2, <1>3, <1>4, <1>5, <1>6, <1>7, <1>8 DEF Next
\* What is shown rightly stays so, until the departure of d reaches c.
LEMMA ShownStep ==
    ASSUME IInv, [Next]_vars, NEW c \in Conns, NEW d \in Conns,
           phase[c] = "joined", ShownTo(c, d)
    PROVE  \/ ShownTo(c, d)'
           \/ pc[d] = "user_left" /\ c \in targets[d] /\ c \notin targets'[d]
<1> USE Disjoint DEF IInv, TypeOK, Goroutines
<1>1. CASE Stays(d)
  <2>1. CASE ReadLeave(d) \/ Disconnect(d)
    BY <1>1, <2>1 DEF ReadLeave, Disconnect, Read, Goto, Stays, ShownTo
  <2> QED
    BY <1>1, <2>1, StaysStep DEF ShownTo
<1>2. CASE pc[d] \in {"forget", "leave"} \/ (pc[d] = "user_left" /\ c \in targets[d])
  <2> USE <1>2 DEF ShownTo
  <2>1. phase[d] # "joined" /\ ~Idle(d)
    BY ClientStep DEF ClientSteps, Idle
  <2>2. CASE UNCHANGED <<pc, targets>>
    BY <2>2
  <2>3. ASSUME NEW b \in Conns,
               \/ Connect(b) \/ ReadJoin(b) \/ ReadLeave(b) \/ ReadFrame(b) \/ Disconnect(b)
               \/ SetJoinMeta(b) \/ ParticipantSnapshot(b) \/ SendSnapshot(b) \/ Remove(b)
        PROVE  ShownTo(c, d)'
    <3>1. UNCHANGED targets
      BY <2>3 DEF Connect, ReadJoin, ReadLeave, ReadFrame, Disconnect, Read,
                  SetJoinMeta, ParticipantSnapshot, SendSnapshot, Remove
    <3>2. pc'[d] = pc[d]
      BY <2>1, <2>3 DEF Connect, ReadJoin, ReadLeave, ReadFrame, Disconnect, Read,
                  SetJoinMeta, ParticipantSnapshot, SendSnapshot, Remove, Goto, At
    <3> QED
      BY <3>1, <3>2
  <2>4. ASSUME NEW b \in Conns, RemoveConnJoinMeta(b) PROVE ShownTo(c, d)'
    BY <2>4 DEF RemoveConnJoinMeta, Goto, At
  <2>5. ASSUME NEW g \in Gateways,
               \/ AnalysisConnect(g) \/ Attach(g) \/ ReadResult(g)
               \/ AnalysisDisconnect(g) \/ Unlock(g)
        PROVE  ShownTo(c, d)'
    BY <2>5 DEF AnalysisConnect, Attach, ReadResult, AnalysisDisconnect, Unlock, Goto
  <2>6. ASSUME NEW g \in Goroutines, Broadcast(g) PROVE ShownTo(c, d)'
    <3>1. CASE g # d
      BY <2>6, <3>1 DEF Broadcast, Goto
    <3>2. CASE g = d
      <4>1. pc[d] = "leave"
        BY <2>6, <3>2 DEF Broadcast, Sending, Announcement
      <4>2. After(d) = "user_left"
        BY <4>1 DEF After
      <4>3. pc'[d] = "user_left" /\ targets'[d] = sessions
        BY <2>6, <3>2, <4>1, <4>2 DEF Broadcast, Goto
      <4> QED
        BY <4>3 DEF Registered
    <3> QED
      BY <3>1, <3>2
  <2>7. ASSUME NEW g \in Goroutines, NEW e \in Goroutines, Write(g, e)
        PROVE  ShownTo(c, d)' \/ (pc[d] = "user_left" /\ c \in targets[d] /\ c \notin targets'[d])
    BY <2>7 DEF Write
  <2> QED
    BY <2>2, <2>3, <2>4, <2>5, <2>6, <2>7 DEF Next, vars
<1> QED
  BY <1>1, <1>2 DEF ShownTo

\* A client that is past its snapshot was so, or has just got it.
LEMMA PastSnapshot ==
    ASSUME IInv, [Next]_vars, NEW c \in Conns, phase'[c] = "joined", pc'[c] \notin Joining
    PROVE  phase[c] = "joined" /\ (pc[c] \notin Joining \/ SendSnapshot(c))
<1> USE Disjoint DEF IInv, TypeOK, Goroutines, Joining
<1>1. ASSUME NEW b \in Conns, Connect(b) \/ ReadJoin(b) \/ ReadLeave(b) \/ ReadFrame(b)
                              \/ Disconnect(b)
      PROVE  phase[c] = "joined" /\ pc[c] \notin Joining
  BY <1>1 DEF Connect, ReadJoin, ReadLeave, ReadFrame, Disconnect, Read, Goto, Idle
<1>2. ASSUME NEW b \in Conns, SetJoinMeta(b) \/ ParticipantSnapshot(b)
                               \/ RemoveConnJoinMeta(b) \/ Remove(b)
      PROVE  phase[c] = "joined" /\ pc[c] \notin Joining
  BY <1>2 DEF SetJoinMeta, ParticipantSnapshot, RemoveConnJoinMeta, Remove, Goto, At
<1>3. ASSUME NEW b \in Conns, SendSnapshot(b)
      PROVE  phase[c] = "joined" /\ (pc[c] \notin Joining \/ SendSnapshot(c))
  BY <1>3 DEF SendSnapshot, Goto
<1>4. ASSUME NEW g \in Gateways,
             \/ AnalysisConnect(g) \/ Attach(g) \/ ReadResult(g)
             \/ AnalysisDisconnect(g) \/ Unlock(g)
      PROVE  phase[c] = "joined" /\ pc[c] \notin Joining
  BY <1>4 DEF AnalysisConnect, Attach, ReadResult, AnalysisDisconnect, Unlock, Goto
<1>5. ASSUME NEW g \in Goroutines, Broadcast(g)
      PROVE  phase[c] = "joined" /\ pc[c] \notin Joining
  <2>1. pc[g] \in Sending
    BY <1>5 DEF Broadcast
  <2>2. pc[g] \in Joining => After(g) \in Joining
    BY <2>1 DEF After, Sending, Announcement
  <2> QED
    BY <1>5, <2>2 DEF Broadcast, Goto
<1>6. ASSUME NEW g \in Goroutines, NEW d \in Goroutines, Write(g, d)
      PROVE  phase[c] = "joined" /\ pc[c] \notin Joining
  BY <1>6 DEF Write
<1>7. CASE UNCHANGED vars
  BY <1>7 DEF vars
<1> QED
  BY <1>1, <1>2, <1>3, <1>4, <1>5, <1>6, <1>7 DEF Next

\* What changes the tiles of c.
LEMMA TilesMove ==
    ASSUME IInv, [Next]_vars, NEW c \in Conns
    PROVE  \/ tiles'[c] = tiles[c]
           \/ SendSnapshot(c)
           \/ \E g \in Goroutines : Write(g, c)
<1> USE Disjoint DEF IInv, TypeOK, Goroutines
<1>1. ASSUME NEW b \in Conns, SendSnapshot(b)
      PROVE  tiles'[c] = tiles[c] \/ SendSnapshot(c)
  BY <1>1 DEF SendSnapshot
<1>2. ASSUME NEW g \in Goroutines, NEW d \in Goroutines, Write(g, d)
      PROVE  tiles'[c] = tiles[c] \/ Write(g, c)
  BY <1>2 DEF Write
<1>3. \/ UNCHANGED tiles \/ \E b \in Conns : SendSnapshot(b)
      \/ \E g, d \in Goroutines : Write(g, d)
  BY DEF Next, vars, Connect, ReadJoin, ReadLeave, ReadFrame, Disconnect, Read,
         SetJoinMeta, ParticipantSnapshot, RemoveConnJoinMeta, Remove,
         AnalysisConnect, Attach, ReadResult, AnalysisDisconnect, Unlock,
         Broadcast, client
<1> QED
  BY <1>1, <1>2, <1>3

LEMMA SoundStep ==
    ASSUME IInv, Outgoing, OneHandler, Known, Echoes, SnapExact, Sound, [Next]_vars
    PROVE  Sound'
<1> SUFFICES ASSUME NEW c \in Conns, phase'[c] = "joined", pc'[c] \notin Joining,
                    NEW p \in tiles'[c]
             PROVE  \E d \in Conns : PidOf[d] = p /\ ShownTo(c, d)'
  BY DEF Sound
<1> USE Disjoint DEF IInv, TypeOK, Goroutines
<1>1. phase[c] = "joined" /\ (pc[c] \notin Joining \/ SendSnapshot(c))
  BY PastSnapshot
<1>2. CASE SendSnapshot(c)
  <2>1. pc[c] = "send" /\ tiles'[c] = snap[c] /\ UNCHANGED <<joinMeta, phase>>
    BY <1>2 DEF SendSnapshot, At, hub
  <2>2. PICK d \in Conns : d \in joinMeta /\ p = PidOf[d]
    BY <2>1 DEF SnapExact, Present, Registered
  <2>3. phase[d] = "joined"
    <3>1. SUFFICES ASSUME phase[d] # "joined" PROVE FALSE
      OBVIOUS
    <3>2. pc[d] \in Parting
      BY <2>2, <3>1 DEF Known, Handlers, ClientSteps, Parting
    <3> QED
      BY <2>1, <3>2 DEF OneHandler, Handling, Joining, Parting
  <2> QED
    BY <2>1, <2>2, <2>3 DEF ShownTo, Stays
<1>3. ASSUME p \in tiles[c], pc[c] \notin Joining,
             ~ \E g \in Goroutines : Write(g, c) /\ out[g].type = "leave" /\ out[g].pid = p
      PROVE  \E d \in Conns : PidOf[d] = p /\ ShownTo(c, d)'
  <2>1. PICK d \in Conns : PidOf[d] = p /\ ShownTo(c, d)
    BY <1>1, <1>3 DEF Sound
  <2>2. ~(pc[d] = "user_left" /\ c \in targets[d] /\ c \notin targets'[d])
    <3>1. SUFFICES ASSUME pc[d] = "user_left", c \in targets[d], c \notin targets'[d]
                   PROVE  FALSE
      OBVIOUS
    <3>2. out[d].type = "leave" /\ out[d].pid = p
      BY <2>1, <3>1 DEF Outgoing
    <3>3. Write(d, c)
      BY <3>1 DEF Next, vars, Connect, ReadJoin, ReadLeave, ReadFrame, Disconnect, Read,
         SetJoinMeta, ParticipantSnapshot, SendSnapshot, RemoveConnJoinMeta, Remove,
         AnalysisConnect, Attach, ReadResult, AnalysisDisconnect, Unlock,
         Broadcast, Write
    <3> QED
      BY <1>3, <3>2, <3>3
  <2> QED
    BY <1>1, <2>1, <2>2, ShownStep
<1>4. ASSUME NEW g \in Goroutines, Write(g, c), pc[c] \notin Joining
      PROVE  \E d \in Conns : PidOf[d] = p /\ ShownTo(c, d)'
  <2>1. /\ targets[g] # {} /\ UNCHANGED <<pc, phase, joinMeta>>
        /\ c \in connLocks \cap Watching
    BY <1>1, <1>4 DEF Write, hub, Registered, Watching
  <2>2. tiles'[c] = Tiles(tiles[c], out[g])
    BY <1>4, <2>1 DEF Write
  <2>3. CASE p \notin tiles[c]
    <3>1. out[g].type \in {"join", "user_joined", "face_analysis"} /\ p = out[g].pid
      BY <2>2, <2>3 DEF Tiles
    <3>2. Named(p)
      <4>1. CASE g \in Gateways
        BY <2>1, <3>1, <4>1 DEF Echoes
      <4>2. CASE g \in Conns
        <5>1. phase[g] = "joined" /\ pc[g] # "set_meta" /\ p = PidOf[g]
          BY <2>1, <3>1, <4>2 DEF Outgoing
        <5> QED
          BY <4>2, <5>1 DEF Known, Named, Stays
      <4> QED
        BY <4>1, <4>2
    <3> QED
      BY <2>1, <3>2 DEF Named, Stays, ShownTo
  <2>4. CASE p \in tiles[c]
    <3>1. ASSUME NEW h \in Goroutines, Write(h, c), out[h].type = "leave", out[h].pid = p
          PROVE  FALSE
      <4>1. tiles'[c] = Tiles(tiles[c], out[h])
        BY <2>1, <3>1 DEF Write
      <4>2. tiles'[c] = tiles[c] \ {p}
        BY <3>1, <4>1 DEF Tiles
      <4> QED
        BY <4>2
    <3> QED
      BY <1>3, <1>4, <2>4, <3>1
  <2> QED
    BY <2>3, <2>4
<1>5. CASE tiles'[c] = tiles[c] /\ ~SendSnapshot(c) /\ ~ \E g \in Goroutines : Write(g, c)
  BY <1>1, <1>3, <1>5
<1> QED
  BY <1>1, <1>2, <1>4, <1>5, TilesMove

LEMMA CompleteStep ==
    ASSUME OwnPids, IInv, Outgoing, OneHandler, Known, SnapExact, Complete, [Next]_vars
    PROVE  Complete'
<1> SUFFICES ASSUME NEW c \in Conns, NEW d \in Conns,
                    phase'[c] = "joined", pc'[c] \notin Joining,
                    phase'[d] = "joined", pc'[d] \notin {"set_meta", "join"}
             PROVE  PidOf[d] \in tiles'[c] \/ (pc'[d] = "user_joined" /\ c \in targets'[d])
  BY DEF Complete
<1> DEFINE Goal == PidOf[d] \in tiles'[c] \/ (pc'[d] = "user_joined" /\ c \in targets'[d])
<1> USE Disjoint DEF IInv, TypeOK, Goroutines
<1>1. phase[c] = "joined" /\ (pc[c] \notin Joining \/ SendSnapshot(c))
  BY PastSnapshot
<1>2. /\ phase[d] = "joined"
      /\ pc[d] \notin {"set_meta", "join"} \/ (pc[d] = "join" /\ Broadcast(d))
  <2>1. ASSUME NEW b \in Conns, Connect(b) \/ ReadJoin(b) \/ ReadLeave(b) \/ ReadFrame(b)
                                \/ Disconnect(b)
        PROVE  phase[d] = "joined" /\ pc[d] \notin {"set_meta", "join"}
    BY <2>1 DEF Connect, ReadJoin, ReadLeave, ReadFrame, Disconnect, Read, Goto, Idle
  <2>2. ASSUME NEW b \in Conns, SetJoinMeta(b) \/ ParticipantSnapshot(b) \/ SendSnapshot(b)
                                 \/ RemoveConnJoinMeta(b) \/ Remove(b)
        PROVE  phase[d] = "joined" /\ pc[d] \notin {"set_meta", "join"}
    BY <2>2 DEF SetJoinMeta, ParticipantSnapshot, SendSnapshot, RemoveConnJoinMeta,
                Remove, Goto, At
  <2>3. ASSUME NEW g \in Gateways,
               \/ AnalysisConnect(g) \/ Attach(g) \/ ReadResult(g)
               \/ AnalysisDisconnect(g) \/ Unlock(g)
        PROVE  phase[d] = "joined" /\ pc[d] \notin {"set_meta", "join"}
    BY <2>3 DEF AnalysisConnect, Attach, ReadResult, AnalysisDisconnect, Unlock, Goto
  <2>4. ASSUME NEW g \in Goroutines, Broadcast(g)
        PROVE  /\ phase[d] = "joined"
               /\ pc[d] \notin {"set_meta", "join"} \/ (pc[d] = "join" /\ Broadcast(d))
    BY <2>4 DEF Broadcast, Goto, Sending, Announcement
  <2>5. ASSUME NEW g \in Goroutines, NEW e \in Goroutines, Write(g, e)
        PROVE  phase[d] = "joined" /\ pc[d] \notin {"set_meta", "join"}
    BY <2>5 DEF Write
  <2>6. CASE UNCHANGED vars
    BY <2>6 DEF vars
  <2> QED
    BY <2>1, <2>2, <2>3, <2>4, <2>5, <2>6 DEF Next
<1>3. CASE pc[d] = "join" /\ Broadcast(d)
  <2>1. After(d) = "user_joined"
    BY <1>3 DEF After
  <2>2. pc'[d] = "user_joined" /\ targets'[d] = sessions
    BY <1>3, <2>1 DEF Broadcast, Goto
  <2> QED
    BY <1>1, <2>2 DEF Registered
<1>4. CASE SendSnapshot(c)
  <2>1. pc[c] = "send" /\ tiles'[c] = Present /\ pc[d] # "set_meta"
    BY <1>2, <1>4 DEF SendSnapshot, At, SnapExact, Broadcast
  <2>2. d \in joinMeta
    BY <1>2, <2>1 DEF Known
  <2> QED
    BY <2>1, <2>2 DEF Present
<1>5. ASSUME pc[c] \notin Joining, pc[d] \notin {"set_meta", "join"}, ~SendSnapshot(c)
      PROVE  Goal
  <2>1. CASE PidOf[d] \in tiles[c]
    <3>1. ASSUME NEW g \in Goroutines, Write(g, c) PROVE PidOf[d] \in tiles'[c]
      BY <1>2, <2>1, <3>1, WriteTiles
    <3> QED
      BY <1>5, <2>1, <3>1, TilesMove
  <2>2. CASE pc[d] = "user_joined" /\ c \in targets[d]
    <3>1. CASE Write(d, c)
      <4>1. c \in connLocks \cap Watching /\ out[d].type = "join" /\ out[d].pid = PidOf[d]
        BY <1>1, <2>2 DEF Registered, Watching, Outgoing
      <4>2. tiles'[c] = Tiles(tiles[c], out[d])
        BY <3>1, <4>1 DEF Write
      <4> QED
        BY <4>1, <4>2 DEF Tiles
    <3>2. CASE ~Write(d, c)
      <4>1. c \in targets'[d]
        BY <2>2, <3>2 DEF Next, vars, Connect, ReadJoin, ReadLeave, ReadFrame,
           Disconnect, Read, SetJoinMeta, ParticipantSnapshot, SendSnapshot,
           RemoveConnJoinMeta, Remove, AnalysisConnect, Attach, ReadResult,
           AnalysisDisconnect, Unlock, Broadcast, Write
      <4>2. pc'[d] = "user_joined"
        BY <2>2 DEF Next, vars, Connect, ReadJoin, ReadLeave, ReadFrame,
           Disconnect, Read, Idle, SetJoinMeta, ParticipantSnapshot, SendSnapshot,
           RemoveConnJoinMeta, Remove, AnalysisConnect, Attach, ReadResult,
           AnalysisDisconnect, Unlock, Broadcast, Write, At, Goto
      <4> QED
        BY <4>1, <4>2
    <3> QED
      BY <3>1, <3>2
  <2> QED
    BY <1>1, <1>2, <1>5, <2>1, <2>2 DEF Complete
<1> QED
  BY <1>1, <1>2, <1>3, <1>4, <1>5

LEMMA ExactStep ==
    OwnPids /\ IInv /\ Outgoing /\ ExactInv /\ [Next]_vars => ExactInv'
<1> SUFFICES ASSUME OwnPids, IInv, Outgoing, ExactInv, [Next]_vars, apart' PROVE Exact'
  BY DEF ExactInv
<1>1. Exact
  BY StaysApart DEF ExactInv
<1> QED
  BY <1>1, HandlerStep, EchoesStep, SnapStep, SoundStep, CompleteStep DEF Exact

\* With a participant id of its own for every connection, joins, leaves and
\* exits that had the hub for themselves leave every client with the tiles of
\* exactly those who are there, whatever frames were answered meanwhile and in
\* whatever order the connections of a broadcast were written to.
THEOREM TilesAreExact == ASSUME OwnPids PROVE Spec => []TilesExact
<1>1. Init => Outgoing /\ ExactInv
  <2> SUFFICES ASSUME Init PROVE Outgoing /\ Exact
    BY DEF ExactInv
  <2> USE DEF Init, Goroutines
  <2>1. Outgoing
    BY DEF Outgoing
  <2>2. OneHandler /\ Known /\ SnapExact
    BY DEF OneHandler, Known, SnapExact, Handling, Joining, Parting
  <2>3. Echoes
    BY DEF Echoes
  <2>4. Sound /\ Complete
    BY DEF Sound, Complete
  <2> QED
    BY <2>1, <2>2, <2>3, <2>4 DEF Exact
<1>2. IInv /\ ExactInv => TilesExact
  <2> SUFFICES ASSUME IInv, Exact, Quiet, NEW c \in Conns, phase[c] = "joined"
               PROVE  tiles[c] = Present
    BY DEF ExactInv, TilesExact
  <2>1. \A d \in Conns : pc[d] = "idle" /\ targets[d] = {}
    BY DEF Quiet, Idle, Goroutines
  <2>2. ASSUME NEW p \in tiles[c] PROVE p \in Present
    <3>1. PICK d \in Conns : PidOf[d] = p /\ ShownTo(c, d)
      BY <2>1 DEF Exact, Sound, Joining
    <3> QED
      BY <2>1, <3>1 DEF ShownTo, Stays, Present
  <2>3. ASSUME NEW d \in joinMeta PROVE PidOf[d] \in tiles[c]
    <3>1. d \in Conns
      BY DEF IInv, TypeOK
    <3>2. phase[d] = "joined"
      BY <2>1, <3>1 DEF Exact, Known, IInv, Handlers, ClientSteps
    <3> QED
      BY <2>1, <3>1, <3>2 DEF Exact, Complete, Joining
  <2> QED
    BY <2>2, <2>3 DEF Present
<1> QED
  BY <1>1, <1>2, OutgoingStep, ExactStep, Invariance, PTL DEF Spec
=============================================================================
