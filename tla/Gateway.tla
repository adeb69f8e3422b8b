------------------------------ MODULE Gateway ------------------------------
(***************************************************************************)
(* The tasks of one ai-gateway process (code/ai-gateway): the main task of *)
(* SessionWSClient.connect, which handles one message at a time, the       *)
(* reader task of each connection and its report loop.  A task runs alone  *)
(* from one await to the next; an action is one such run, cut further only *)
(* where the order of two effects is a question.                           *)
(*                                                                         *)
(* Abstracted: the content of analyses (a row is the number of its message *)
(* and its kind), the counters (one for failed analyses, one for failed    *)
(* reports), the wire and the asyncio.Queue (one FIFO: the reader has no   *)
(* effect but to move messages and to end), time (a sleep may end when its *)
(* task is scheduled), the content of the reloaded configuration.  Debug   *)
(* frames are on, the remote report service is off.                        *)
(***************************************************************************)
EXTENDS Naturals, Sequences, FiniteSets

CONSTANTS
    Sessions,     \* rooms: positive session ids
    Homes,        \* values of SESSION_ID to start with: 0 or a room
    Asked,        \* what a join may switch off: sets of modules
    Cap,          \* deque(maxlen=512) of the feature store
    MaxMsgs,      \* bound: messages the backend sends
    MaxConns,     \* bound: connections
    MaxTicks,     \* bound: wake-ups of report loops
    MaxBroken     \* bound: exceptions that leave a handler by themselves

ASSUME SessionsPositive == Sessions \subseteq Nat \ {0}
ASSUME HomesAreRooms    == Homes \subseteq Sessions \cup {0}
ASSUME CapPositive      == Cap \in Nat \ {0}
ASSUME BoundsNatural    ==
    MaxMsgs \in Nat /\ MaxConns \in Nat /\ MaxTicks \in Nat /\ MaxBroken \in Nat

VARIABLES
    home,       \* SESSION_ID: 0 attaches to all rooms
    link,       \* the websocket of the newest connection
    conn,       \* its number
    token,      \* SessionWSClient.access_token
    reader,     \* the task that fills queue
    queue,      \* messages received or on their way, and EOF
    pc, why,    \* the main task, and why it leaves its loop
    cur, plan,  \* the message it handles, and what is left to do for it
    sent,       \* the analysis it has sent and not pushed yet
    off,        \* _session_modules: what is switched off
    store,      \* FeatureStore._by_session
    count,      \* observability._counters
    prev,       \* _REPORT_QUALITY_PREV
    loop,       \* the report loop of each connection
    posted, ticks, broken,        \* the bounded environment
    asked,      \* history: what the joins of this connection asked for
    told,       \* history: sent to the room and not pushed, or NoFact
    record,     \* history: everything ever pushed
    report,     \* history: the last report each room has received
    noted,      \* history: failures that delivered reports have told of
    dropped     \* history: connections that ended without a normal close

net     == <<link, conn, token, reader>>
task    == <<pc, why, cur, plan, sent>>
bounds  == <<posted, ticks, broken>>
history == <<asked, told, record, report, noted, dropped>>
vars    == <<home, net, queue, task, off, store, count, prev, loop,
             bounds, history>>

Conns   == 1 .. MaxConns
Modules == {"face", "audio", "text", "report"}
ASSUME AskedModules == Asked \subseteq SUBSET Modules

Kinds   == {"face_debug", "face", "audio", "text"}
Metrics == {"analysis", "report"}
Rows    == [n : 1 .. MaxMsgs, kind : Kinds]
Message == [type : {"frame", "audio", "join"}, sid : Sessions,
            n : 1 .. MaxMsgs, off : SUBSET Modules]
EOF     == [type |-> "eof", sid |-> 0, n |-> 0, off |-> {}]
NoFact  == [n |-> 0, kind |-> "nothing"]
Nobody  == [pc |-> "none", todo |-> {}, final |-> FALSE, sid |-> 0,
            rows |-> <<>>, delta |-> [m \in Metrics |-> 0]]
NoReport == [rows |-> <<>>, final |-> FALSE, conn |-> 0]

GatewayTypeOK ==
    /\ home \in Homes
    /\ link \in {"none", "open", "lost", "closed"}
    /\ conn \in 0 .. MaxConns /\ token \in {"none", "good", "stale"}
    /\ reader \in {"reading", "ended", "failed"}
    /\ queue \in Seq(Message \cup {EOF})
    /\ pc \in {"dial", "take", "work", "close", "gather", "stopped"}
    /\ why \in {"eof", "raised", "cancel"}
    /\ plan \in Seq(Kinds \cup {"infer", "asr", "emotion"})
    /\ sent \in Kinds \cup {"nothing"}
    /\ pc = "work" => cur \in Message
    /\ off \in [Sessions -> SUBSET Modules]
    /\ store \in [Sessions -> Seq(Rows)]
    /\ \A s \in Sessions : Len(store[s]) <= Cap
    /\ record \in [Sessions -> Seq(Rows)]
    /\ told \in [Sessions -> Rows \cup {NoFact}]
    /\ count \in [Metrics -> Nat] /\ noted \in [Metrics -> Nat]
    /\ prev = <<>> \/ prev \in [Metrics -> Nat]
    /\ \A c \in Conns :
         /\ loop[c].pc \in {"none", "sleep", "send", "ended"}
         /\ loop[c].todo \subseteq Sessions /\ loop[c].rows \in Seq(Rows)
         /\ loop[c].pc = "send" => loop[c].sid \in Sessions

Init ==
    /\ home \in Homes
    /\ link = "none" /\ conn = 0 /\ token = "none" /\ reader = "ended"
    /\ queue = <<>>
    /\ pc = "dial" /\ why = "eof" /\ cur = EOF /\ plan = <<>>
    /\ sent = "nothing"
    /\ off = [s \in Sessions |-> {}]
    /\ store = [s \in Sessions |-> <<>>]
    /\ count = [m \in Metrics |-> 0] /\ prev = <<>>
    /\ loop = [c \in Conns |-> Nobody]
    /\ posted = 0 /\ ticks = 0 /\ broken = 0
    /\ asked = [s \in Sessions |-> {}]
    /\ told = [s \in Sessions |-> NoFact]
    /\ record = [s \in Sessions |-> <<>>]
    /\ report = [s \in Sessions |-> NoReport]
    /\ noted = [m \in Metrics |-> 0]
    /\ dropped = {}
-----------------------------------------------------------------------------
(* The backend, the network and the operator.                              *)

Post(s) ==
    /\ link = "open" /\ posted < MaxMsgs
    /\ home \in {0, s}
    \* joins reach the socket of a room, not the one for all rooms
    /\ \E type \in {"frame", "audio"} \cup
                   (IF home = s THEN {"join"} ELSE {}) :
         \E request \in (IF type = "join" THEN Asked ELSE {asked[s]}) :
           /\ queue' = Append(queue, [type |-> type, sid |-> s,
                                      n |-> posted + 1, off |-> request])
           /\ asked' = [asked EXCEPT ![s] = request]
    /\ posted' = posted + 1
    /\ UNCHANGED <<home, net, task, off, store, count, prev, loop,
                   ticks, broken, told, record, report, noted, dropped>>

(* "lost": without a normal close frame, which is how the backend closes   *)
(* (the reader's loop ends quietly on codes 1000 and 1001 only).           *)
Drop ==
    /\ link = "open" /\ conn < MaxConns
    /\ link' \in {"lost", "closed"}
    /\ dropped' = IF link' = "lost" THEN dropped \cup {conn} ELSE dropped
    /\ UNCHANGED <<home, conn, token, reader, queue, task, off, store,
                   count, prev, loop, bounds, asked, told, record, report,
                   noted>>

(* Looked at where it matters: when the token is used.                     *)
TokenExpires ==
    /\ pc = "dial" /\ token = "good" /\ token' = "stale"
    /\ UNCHANGED <<home, link, conn, reader, queue, task, off, store,
                   count, prev, loop, bounds, history>>
-----------------------------------------------------------------------------
(* The feature store.                                                      *)

Push_Unbounded(s, row) ==
    /\ store' = [store EXCEPT ![s] = Append(@, row)]
    /\ record' = [record EXCEPT ![s] = Append(@, row)]

Push(s, row) ==
    /\ store' = [store EXCEPT ![s] =
                   IF Len(@) < Cap THEN Append(@, row)
                                   ELSE Append(Tail(@), row)]
    /\ record' = [record EXCEPT ![s] = Append(@, row)]

session_ids == {s \in Sessions : store[s] # <<>>}
-----------------------------------------------------------------------------
(* The report loops.                                                       *)

Enabled(s, module) == module \notin off[s]
Targets == IF home > 0 THEN {home} ELSE session_ids

Raised(metric) == [count EXCEPT ![metric] = @ + 1]

(* data_quality: what was counted since the last report of any loop.       *)
Delta(now) ==
    [m \in Metrics |-> IF prev = <<>> THEN 0 ELSE now[m] - prev[m]]

Serve_ComparesWithFirst(c, todo, final, now) ==
    LET on == {s \in todo : Enabled(s, "report")}
        s  == CHOOSE x \in on : \A y \in on : x <= y
    IN  IF on = {}
        THEN /\ loop' = [loop EXCEPT ![c] =
                  [Nobody EXCEPT !.pc = IF final THEN "ended" ELSE "sleep"]]
             /\ prev' = prev
        ELSE /\ loop' = [loop EXCEPT ![c] =
                  [pc |-> "send", todo |-> {x \in todo : s < x},
                   final |-> final, sid |-> s, rows |-> store[s],
                   delta |-> Delta(now)]]
             /\ prev' = IF prev = <<>> THEN now ELSE prev

(* The run of loop c up to its next await: the next room of todo that has  *)
(* reports switched on is served in order of the ids, from the rows and    *)
(* the counters (now) of this moment.                                      *)
Serve(c, todo, final, now) ==
    LET on == {s \in todo : Enabled(s, "report")}
        s  == CHOOSE x \in on : \A y \in on : x <= y
    IN  IF on = {}
        THEN /\ loop' = [loop EXCEPT ![c] =
                  [Nobody EXCEPT !.pc = IF final THEN "ended" ELSE "sleep"]]
             /\ prev' = prev
        ELSE /\ loop' = [loop EXCEPT ![c] =
                  [pc |-> "send", todo |-> {x \in todo : s < x},
                   final |-> final, sid |-> s, rows |-> store[s],
                   delta |-> Delta(now)]]
             /\ prev' = now

(* ws.send of the report that loop c has built.                            *)
Deliver(c) ==
    /\ report' = [report EXCEPT ![loop[c].sid] =
                    [rows |-> loop[c].rows, final |-> loop[c].final,
                     conn |-> c]]
    /\ noted' = [m \in Metrics |-> noted[m] + loop[c].delta[m]]

Holds(c) == c = conn /\ link = "open"

Tick(c) ==
    /\ loop[c].pc = "sleep" /\ pc # "stopped"
    /\ ticks < MaxTicks /\ ticks' = ticks + 1
    /\ Serve(c, Targets, FALSE, count)
    /\ UNCHANGED <<home, net, queue, task, off, store, count,
                   posted, broken, history>>

SendReport(c) ==
    /\ loop[c].pc = "send" /\ pc # "stopped"
    /\ IF Holds(c)
       THEN Deliver(c) /\ UNCHANGED count
       ELSE count' = Raised("report") /\ UNCHANGED <<report, noted>>
    /\ Serve(c, loop[c].todo, loop[c].final, count')
    /\ UNCHANGED <<home, net, queue, task, off, store, bounds, asked,
                   told, record, dropped>>

CancelLoop_SwallowedBySend ==
    IF loop[conn].pc = "send"
    THEN /\ loop' = [loop EXCEPT ![conn] = [Nobody EXCEPT !.pc = "ended"]]
         /\ UNCHANGED <<prev, report, noted>>
    ELSE Serve(conn, Targets, TRUE, count) /\ UNCHANGED <<report, noted>>

(* task.cancel() on the loop of the newest connection: a report that is    *)
(* being sent may be out already; the handler of CancelledError then sends *)
(* a final report for every target.                                        *)
CancelLoop ==
    /\ \/ UNCHANGED <<report, noted>>
       \/ loop[conn].pc = "send" /\ Holds(conn) /\ Deliver(conn)
    /\ Serve(conn, Targets, TRUE, count)
-----------------------------------------------------------------------------
(* Connecting.                                                             *)

Connect ==
    /\ pc = "dial" /\ token # "stale" /\ conn < MaxConns
    /\ token' = "good"        \* kept, or fetched
    /\ conn' = conn + 1 /\ link' = "open" /\ reader' = "reading"
    /\ queue' = <<>>
    /\ loop' = [loop EXCEPT ![conn + 1] = [Nobody EXCEPT !.pc = "sleep"]]
    \* the loop goes to sleep while the main task waits for its first message
    /\ pc' = "take"
    /\ asked' = off
    /\ UNCHANGED <<home, why, cur, plan, sent, off, store, count,
                   prev, bounds, told, record, report, noted, dropped>>

ConnectFails_KeepsToken ==
    /\ pc = "dial"
    /\ token' = IF token = "stale" THEN token ELSE "none"
    /\ UNCHANGED <<home, link, conn, reader, queue, task, off, store,
                   count, prev, loop, bounds, history>>

(* No token, a refused one or no backend: forget the token and sleep.      *)
ConnectFails ==
    /\ pc = "dial"
    /\ token' = "none"
    /\ UNCHANGED <<home, link, conn, reader, queue, task, off, store,
                   count, prev, loop, bounds, history>>

(* reader_loop: its finally clause always puts the end mark.               *)
ReaderEnds ==
    /\ reader = "reading" /\ link \in {"lost", "closed"}
    /\ pc \in {"take", "work"}
    /\ reader' = IF link = "lost" THEN "failed" ELSE "ended"
    /\ queue' = Append(queue, EOF)
    /\ UNCHANGED <<home, link, conn, token, task, off, store, count,
                   prev, loop, bounds, history>>
-----------------------------------------------------------------------------
(* Handling messages.                                                      *)

Leave(reason) ==
    /\ pc' = "close" /\ why' = reason
    /\ cur' = EOF /\ plan' = <<>> /\ sent' = "nothing"

TakeEOF ==
    /\ pc = "take" /\ queue # <<>> /\ Head(queue) = EOF
    /\ queue' = Tail(queue)
    /\ Leave("eof")
    /\ UNCHANGED <<home, net, off, store, count, prev, loop, bounds,
                   history>>

Plan_IgnoresJoins(m) ==
    CASE m.type = "frame" -> <<"infer">>
      [] m.type = "audio" -> <<"audio", "asr">>
      [] OTHER -> <<>>

(* What the plugins will do for a message, up to their first await.        *)
Plan(m) ==
    CASE m.type = "frame" /\ Enabled(m.sid, "face") -> <<"infer">>
      [] m.type = "audio" ->
           (IF Enabled(m.sid, "audio") THEN <<"audio">> ELSE <<>>)
           \o (IF Enabled(m.sid, "text") THEN <<"asr">> ELSE <<>>)
      [] OTHER -> <<>>

(* What is left to do for message m; if nothing is, the next one is taken. *)
Continue(m, todo, unpushed) ==
    /\ plan' = todo /\ sent' = unpushed /\ UNCHANGED why
    /\ IF todo = <<>> /\ unpushed = "nothing"
       THEN pc' = "take" /\ cur' = EOF
       ELSE pc' = "work" /\ cur' = m

(* An exception that nothing catches leaves the loop of connect.           *)
Raise ==
    /\ broken < MaxBroken /\ conn < MaxConns /\ broken' = broken + 1
    /\ Leave("raised")

(* handle_message; Raise: the poll of the modules file is due, and the     *)
(* file cannot be parsed.                                                  *)
Handle ==
    /\ pc = "take" /\ queue # <<>> /\ Head(queue) # EOF
    /\ queue' = Tail(queue)
    /\ LET m == Head(queue) IN
       /\ off' = IF m.type = "join" THEN [off EXCEPT ![m.sid] = m.off]
                                    ELSE off
       /\ \/ Raise
          \/ Continue(m, Plan(m), "nothing") /\ UNCHANGED broken
    /\ UNCHANGED <<home, net, store, count, prev, loop, posted, ticks,
                   history>>

(* Inference, in a thread: it fails, finds nothing to tell, no face, a     *)
(* face that does not pass the gates, or one that does.                    *)
Infer ==
    /\ pc = "work" /\ plan = <<"infer">>
    /\ \/ Continue(cur, <<>>, "nothing") /\ count' = Raised("analysis")
       \/ /\ \E outputs \in {<<>>, <<"face">>, <<"face_debug">>,
                            <<"face_debug", "face", "emotion">>} :
                Continue(cur, outputs, "nothing")
          /\ UNCHANGED count
    /\ UNCHANGED <<home, net, queue, off, store, prev, loop, bounds,
                   history>>

(* The call of the speech service, in a thread: an error, no text, text,   *)
(* or an exception of the adapter, when the connection is reset while the  *)
(* answer is awaited (SpeechPath, Raises).                                 *)
Transcribe ==
    /\ pc = "work" /\ sent = "nothing" /\ plan = <<"asr">>
    /\ \/ Continue(cur, <<>>, "nothing") /\ count' = Raised("analysis")
          /\ UNCHANGED broken
       \/ /\ \E outputs \in {<<>>, <<"text">>} :
                Continue(cur, outputs, "nothing")
          /\ UNCHANGED <<count, broken>>
       \/ Raise /\ UNCHANGED count
    /\ UNCHANGED <<home, net, queue, off, store, prev, loop, posted, ticks,
                   history>>

SendAnalysis_PushesUnsent ==
    /\ pc = "work" /\ sent = "nothing"
    /\ plan # <<>> /\ Head(plan) \notin {"infer", "asr"}
    /\ \/ /\ link = "open"
          /\ IF Head(plan) = "emotion"
             THEN Continue(cur, Tail(plan), "nothing") /\ UNCHANGED told
             ELSE /\ Continue(cur, Tail(plan), Head(plan))
                  /\ told' = [told EXCEPT ![cur.sid] =
                                [n |-> cur.n, kind |-> Head(plan)]]
          /\ UNCHANGED count
       \/ /\ link # "open" /\ cur.type = "frame"
          /\ Continue(cur, <<>>, IF Head(plan) = "emotion"
                                 THEN "nothing" ELSE Head(plan))
          /\ count' = Raised("analysis") /\ UNCHANGED told
       \/ /\ link # "open" /\ cur.type # "frame"
          /\ Leave("raised")
          /\ UNCHANGED <<count, told>>
    /\ UNCHANGED <<home, net, queue, off, store, prev, loop, bounds, asked,
                   record, report, noted, dropped>>

(* ws.send of an analysis.  The face plugin catches what a closed socket   *)
(* raises and counts it as a failed inference; audio and text let it end   *)
(* the connection.                                                         *)
SendAnalysis ==
    /\ pc = "work" /\ sent = "nothing"
    /\ plan # <<>> /\ Head(plan) \notin {"infer", "asr"}
    /\ \/ /\ link = "open"
          /\ IF Head(plan) = "emotion"
             THEN Continue(cur, Tail(plan), "nothing") /\ UNCHANGED told
             ELSE /\ Continue(cur, Tail(plan), Head(plan))
                  /\ told' = [told EXCEPT ![cur.sid] =
                                [n |-> cur.n, kind |-> Head(plan)]]
          /\ UNCHANGED count
       \/ /\ link # "open" /\ cur.type = "frame"
          /\ Continue(cur, <<>>, "nothing")
          /\ count' = Raised("analysis") /\ UNCHANGED told
       \/ /\ link # "open" /\ cur.type # "frame"
          /\ Leave("raised")
          /\ UNCHANGED <<count, told>>
    /\ UNCHANGED <<home, net, queue, off, store, prev, loop, bounds, asked,
                   record, report, noted, dropped>>

(* The feature store gets what the room has been sent.                     *)
PushAnalysis ==
    /\ pc = "work" /\ sent # "nothing"
    /\ Push(cur.sid, [n |-> cur.n, kind |-> sent])
    /\ told' = [told EXCEPT ![cur.sid] = NoFact]
    /\ Continue(cur, plan, "nothing")
    /\ UNCHANGED <<home, net, queue, off, count, prev, loop, bounds,
                   asked, report, noted, dropped>>
-----------------------------------------------------------------------------
(* Leaving the loop: the finally clause of connect.                        *)

(* Ctrl-C cancels the main task.                                           *)
Interrupt ==
    /\ \/ /\ pc \in {"take", "work"} /\ Leave("cancel")
          /\ told' = [s \in Sessions |-> NoFact]
       \/ /\ pc = "dial" /\ pc' = "stopped"
          /\ UNCHANGED <<why, cur, plan, sent, told>>
    /\ UNCHANGED <<home, net, queue, off, store, count, prev, loop, bounds,
                   asked, record, report, noted, dropped>>

CloseFails_OnAnyEnd ==
    /\ pc = "close" /\ reader # "reading"
    /\ pc' = "dial" /\ link' = "none" /\ token' = "none"
    /\ why' = "eof" /\ queue' = <<>>
    /\ UNCHANGED <<home, conn, reader, cur, plan, sent, off, store, count,
                   prev, loop, bounds, history>>

(* await reader_task: the exception of a reader that failed is not the     *)
(* CancelledError that is expected here, and leaves the clause at once.    *)
CloseFails ==
    /\ pc = "close" /\ reader = "failed"
    /\ pc' = "dial" /\ link' = "none" /\ token' = "none"
    /\ why' = "eof" /\ queue' = <<>>
    /\ UNCHANGED <<home, conn, reader, cur, plan, sent, 
                   off, store, count, prev, loop, bounds, history>>

Close ==
    /\ pc = "close" /\ reader # "failed"
    /\ reader' = "ended" /\ pc' = "gather"
    /\ CancelLoop
    /\ UNCHANGED <<home, link, conn, token, queue, why, cur, plan, sent,
                   off, store, count, bounds, asked, told, record,
                   dropped>>

(* The loop has ended: dial again, without a sleep after a clean close.    *)
Gathered ==
    /\ pc = "gather" /\ loop[conn].pc = "ended"
    /\ link' = "none"
    /\ token' = IF why = "raised" THEN "none" ELSE token
    /\ pc' = IF why = "cancel" THEN "stopped" ELSE "dial"
    /\ why' = "eof" /\ queue' = <<>>
    /\ UNCHANGED <<home, conn, reader, cur, plan, sent, 
                   off, store, count, prev, loop, bounds, history>>
-----------------------------------------------------------------------------
MainStep ==
    \/ Connect \/ ConnectFails
    \/ TakeEOF \/ Handle \/ Infer \/ Transcribe
    \/ SendAnalysis \/ PushAnalysis
    \/ CloseFails \/ Close \/ Gathered

(* What the event loop can run when nothing happens outside.               *)
Run == MainStep \/ ReaderEnds \/ \E c \in Conns : SendReport(c)

Next ==
    \/ Run
    \/ \E c \in Conns : Tick(c)
    \/ \E s \in Sessions : Post(s)
    \/ Drop \/ TokenExpires \/ Interrupt

Spec == Init /\ [][Next]_vars

(* The event loop is never idle while a task can run; of the attempts to   *)
(* connect with a fresh token, one succeeds.  Nothing else need happen.    *)
FairSpec == Spec /\ WF_vars(Run)
-----------------------------------------------------------------------------
Alive(c) == loop[c].pc \in {"sleep", "send"}

(* The docstring of report_loop: its socket is the active one.             *)
HolderActive == \A c \in Conns : Alive(c) /\ link = "open" => c = conn

(* The only loops that outlive their connection are those of connections   *)
(* that ended without a normal close frame: every other way to leave the   *)
(* loop of connect, errors of a handler, a broken modules file and a call  *)
(* of the speech service that raises included, ends the report loop before *)
(* the next attempt.                                                       *)
LeakOnlyAfterLoss ==
    \A c \in Conns : Alive(c) /\ (c < conn \/ link = "none") => c \in dropped

(* A failure is told of by at most one report, although report loops share *)
(* one record of what was told before and may overlap in their sends.      *)
NotedOnce == \A m \in Metrics : noted[m] <= count[m]

(* Nothing is sent of a message that came after a join of its room that    *)
(* switched the module off, and on the same connection.                    *)
ModuleOf(kind) == IF kind = "face_debug" THEN "face" ELSE kind
JoinRespected ==
    pc = "work" /\ sent # "nothing" => ModuleOf(sent) \notin cur.off

(* Whatever happened to connection and token, the gateway is connected     *)
(* again, unless it was stopped.                                           *)
ComesBack == (link # "open") ~> (link = "open" \/ pc = "stopped")

(* Reports show nothing the room was not sent, in order and never an older *)
(* moment than before, over all connections and report loops.              *)
LastRow(s) == report[s].rows[Len(report[s].rows)]
Feed == INSTANCE ReportFeed WITH
    Facts   <- Rows,
    pending <- told,
    shown   <- [s \in Sessions |->
                  IF report[s].rows = <<>> THEN 0
                  ELSE CHOOSE k \in DOMAIN record[s] :
                         record[s][k] = LastRow(s)],
    body    <- [s \in Sessions |-> report[s].rows]
ImplementsFeed == Feed!Spec

(* A gateway that leaves an open connection has given every room that has  *)
(* reports switched on a final report, of the latest Cap of all analyses   *)
(* ever stored for it, whatever the loop was doing when it was cancelled.  *)
FinalOnLeave ==
    pc = "gather" /\ link = "open" /\ loop[conn].pc = "ended" =>
        \A s \in Targets : Enabled(s, "report") =>
            report[s] = [rows |-> Feed!Window(record[s], Len(record[s])),
                         final |-> TRUE, conn |-> conn]
=============================================================================
