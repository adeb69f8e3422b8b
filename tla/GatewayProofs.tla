--------------------------- MODULE GatewayProofs ---------------------------
(***************************************************************************)
(* What holds of Gateway for any rooms, any ring, and any number of        *)
(* messages, connections, report loops and broken reloads.                 *)
(***************************************************************************)
EXTENDS Gateway, SequenceTheorems, WellFoundedInduction, TLAPS

Received  == Message \cup {EOF}
PlanItems == Kinds \cup {"infer", "asr", "emotion"}
LoopState ==
    [pc : {"none", "sleep", "send", "ended"}, todo : SUBSET Sessions,
     final : BOOLEAN, sid : Sessions \cup {0}, rows : Seq(Rows),
     delta : [Metrics -> Nat]]
Report    == [rows : Seq(Rows), final : BOOLEAN, conn : Nat]

NetTyped ==
    /\ home \in Homes
    /\ link \in {"none", "open", "lost", "closed"}
    /\ conn \in 0 .. MaxConns /\ token \in {"none", "good", "stale"}
    /\ reader \in {"reading", "ended", "failed"}
    /\ link # "none" => conn # 0
    /\ link = "none" <=> pc \in {"dial", "stopped"}

TaskTyped ==
    /\ queue \in Seq(Received)
    /\ pc \in {"dial", "take", "work", "close", "gather", "stopped"}
    /\ why \in {"eof", "raised", "cancel"}
    /\ plan \in Seq(PlanItems)
    /\ sent \in Kinds \cup {"nothing"} /\ (sent # "nothing" => pc = "work")
    /\ pc = "work" => cur \in Message

StoreTyped ==
    /\ off \in [Sessions -> SUBSET Modules]
    /\ store \in [Sessions -> Seq(Rows)]
    /\ \A s \in Sessions : Len(store[s]) <= Cap
    /\ record \in [Sessions -> Seq(Rows)]

\* What prev remembers has been counted.
Counted(seen, now) ==
    seen = <<>> \/ (seen \in [Metrics -> Nat] /\ \A m \in Metrics : seen[m] <= now[m])

CountTyped == count \in [Metrics -> Nat] /\ Counted(prev, count)

LoopsTyped ==
    /\ loop \in [Conns -> LoopState]
    /\ \A c \in Conns : loop[c].pc = "send" => loop[c].sid \in Sessions

HistoryTyped ==
    /\ told \in [Sessions -> Rows \cup {NoFact}]
    /\ asked \in [Sessions -> SUBSET Modules]
    /\ report \in [Sessions -> Report]
    /\ noted \in [Metrics -> Nat]
    /\ posted \in Nat

Typed ==
    NetTyped /\ TaskTyped /\ StoreTyped /\ CountTyped /\ LoopsTyped /\ HistoryTyped

-----------------------------------------------------------------------------
(* The run of a report loop.                                               *)

\* Rooms are numbers, so a set of them has a first one.
LEMMA FirstRoom ==
    ASSUME NEW T \in SUBSET Sessions, T # {}
    PROVE  \E s \in T : \A x \in T : s <= x
  <1>1. T \subseteq Nat  BY SessionsPositive
  <1>2. IsWellFoundedOn(OpToRel(<, Nat), Nat)  BY NatLessThanWellFounded
  <1>3. PICK s \in T : \A x \in T : ~(<<x, s>> \in OpToRel(<, Nat))
    BY <1>1, <1>2, WFMin
  <1>4. \A x \in T : ~(x < s)  BY <1>1, <1>3 DEF OpToRel
  <1>5. ASSUME NEW x \in T  PROVE s <= x
    <2>1. s \in Nat /\ x \in Nat /\ ~(x < s)  BY <1>1, <1>3, <1>4
    <2> QED  BY <2>1
  <1> QED  BY <1>5

\* What a loop is after such a run.
Rested(final) == [Nobody EXCEPT !.pc = IF final THEN "ended" ELSE "sleep"]
Sending(s, rooms, final, now) ==
    [pc |-> "send", todo |-> {x \in rooms : s < x}, final |-> final,
     sid |-> s, rows |-> store[s], delta |-> Delta(now)]

\* It finds none, or serves the first room that has reports switched on.
LEMMA ServeNone ==
    ASSUME NEW c \in Conns, NEW rooms \in SUBSET Sessions,
           NEW final \in BOOLEAN, NEW now \in [Metrics -> Nat],
           Serve(c, rooms, final, now), \A s \in rooms : ~Enabled(s, "report")
    PROVE  loop' = [loop EXCEPT ![c] = Rested(final)] /\ prev' = prev
  <1>1. {s \in rooms : Enabled(s, "report")} = {}  OBVIOUS
  <1> QED  BY <1>1 DEF Serve, Rested

FirstOn(rooms) ==
    LET on == {s \in rooms : Enabled(s, "report")}
    IN  CHOOSE x \in on : \A y \in on : x <= y

LEMMA ServeFirst ==
    ASSUME NEW c \in Conns, NEW rooms \in SUBSET Sessions,
           NEW final \in BOOLEAN, NEW now \in [Metrics -> Nat],
           Serve(c, rooms, final, now), \E s \in rooms : Enabled(s, "report")
    PROVE  /\ FirstOn(rooms) \in rooms /\ Enabled(FirstOn(rooms), "report")
           /\ \A x \in rooms : Enabled(x, "report") => FirstOn(rooms) <= x
           /\ loop' = [loop EXCEPT ![c] =
                         Sending(FirstOn(rooms), rooms, final, now)]
           /\ prev' = now
  <1> DEFINE on == {s \in rooms : Enabled(s, "report")}
  <1>1. on # {} /\ on \in SUBSET Sessions  OBVIOUS
  <1>2. \E x \in on : \A y \in on : x <= y  BY <1>1, FirstRoom
  <1>3. FirstOn(rooms) \in on /\ \A y \in on : FirstOn(rooms) <= y
    BY <1>2 DEF FirstOn
  <1>4. /\ loop' = [loop EXCEPT ![c] =
                      Sending(FirstOn(rooms), rooms, final, now)]
        /\ prev' = now
    BY <1>1 DEF Serve, Sending, FirstOn
  <1> QED  BY <1>3, <1>4

LEMMA NobodyTyped == Nobody \in LoopState /\ Nobody.pc = "none"
  <1>1. <<>> \in Seq(Rows) /\ [m \in Metrics |-> 0] \in [Metrics -> Nat]
    OBVIOUS
  <1> QED  BY <1>1 DEF Nobody, LoopState

LEMMA RestedTyped ==
    ASSUME NEW final \in BOOLEAN
    PROVE  Rested(final) \in LoopState /\ Rested(final).pc \in {"sleep", "ended"}
  BY NobodyTyped DEF LoopState, Rested

LEMMA SendingTyped ==
    ASSUME NEW rooms \in SUBSET Sessions, NEW s \in rooms,
           NEW final \in BOOLEAN, NEW now \in [Metrics -> Nat],
           StoreTyped, Counted(prev, now)
    PROVE  Sending(s, rooms, final, now) \in LoopState
  <1>1. Delta(now) \in [Metrics -> Nat]  BY DEF Delta, Counted
  <1>2. store[s] \in Seq(Rows) /\ s \in Sessions  BY DEF StoreTyped
  <1>3. {x \in rooms : s < x} \in SUBSET Sessions  OBVIOUS
  <1> QED  BY <1>1, <1>2, <1>3 DEF LoopState, Sending

LEMMA ServeTyped ==
    ASSUME NEW c \in Conns, NEW rooms \in SUBSET Sessions,
           NEW final \in BOOLEAN, NEW now \in [Metrics -> Nat],
           LoopsTyped, StoreTyped, Counted(prev, now),
           Serve(c, rooms, final, now)
    PROVE  /\ LoopsTyped' /\ Counted(prev', now)
           /\ \A d \in Conns : d # c => loop'[d] = loop[d]
           /\ loop'[c].pc \in {"sleep", "send", "ended"}
  <1>1. CASE loop' = [loop EXCEPT ![c] = Rested(final)] /\ prev' = prev
    BY <1>1, RestedTyped DEF LoopsTyped
  <1>2. ASSUME \E s \in rooms : Enabled(s, "report")
        PROVE  /\ LoopsTyped' /\ Counted(prev', now)
               /\ \A d \in Conns : d # c => loop'[d] = loop[d]
               /\ loop'[c].pc \in {"sleep", "send", "ended"}
    <2> DEFINE s    == FirstOn(rooms)
               next == Sending(s, rooms, final, now)
    <2>1. s \in rooms /\ loop' = [loop EXCEPT ![c] = next] /\ prev' = now
      BY <1>2, ServeFirst
    <2>2. next \in LoopState  BY <2>1, SendingTyped
    <2>3. next.pc = "send" /\ next.sid \in Sessions  BY <2>1 DEF Sending
    <2>4. Counted(prev', now)  BY <2>1 DEF Counted
    <2> HIDE DEF next
    <2> QED  BY <2>1, <2>2, <2>3, <2>4 DEF LoopsTyped
  <1>3. CASE \A s \in rooms : ~Enabled(s, "report")
    BY <1>1, <1>3, ServeNone
  <1> QED  BY <1>2, <1>3
-----------------------------------------------------------------------------
(* Type correctness.                                                       *)

LEMMA InitTyped == Init => Typed
  <1> SUFFICES ASSUME Init  PROVE Typed
    OBVIOUS
  <1>1. NetTyped /\ CountTyped /\ StoreTyped
    BY BoundsNatural, CapPositive DEF Init, NetTyped, CountTyped, StoreTyped, Counted
  <1>2. TaskTyped
    <2>1. queue \in Seq(Received) /\ plan \in Seq(PlanItems)  BY DEF Init
    <2> QED  BY <2>1 DEF Init, TaskTyped
  <1>3. LoopsTyped  BY NobodyTyped DEF Init, LoopsTyped
  <1>4. HistoryTyped
    <2>1. NoReport \in Report
      <3>1. <<>> \in Seq(Rows)  OBVIOUS
      <3> QED  BY <3>1 DEF NoReport, Report
    <2> QED  BY <2>1 DEF Init, HistoryTyped
  <1> QED  BY <1>1, <1>2, <1>3, <1>4 DEF Typed

LEMMA TargetsAreRooms ==
    ASSUME Typed
    PROVE  Targets \in SUBSET Sessions
  BY HomesAreRooms DEF Typed, NetTyped, Targets, session_ids

LEMMA RaisedTyped ==
    ASSUME CountTyped, NEW metric \in Metrics
    PROVE  /\ Raised(metric) \in [Metrics -> Nat]
           /\ Counted(prev, Raised(metric))
  <1>1. /\ Raised(metric) \in [Metrics -> Nat]
        /\ \A m \in Metrics : count[m] <= Raised(metric)[m]
    BY DEF CountTyped, Raised
  <1>2. CASE prev = <<>>  BY <1>1, <1>2 DEF Counted
  <1>3. CASE prev # <<>>
    <2>1. prev \in [Metrics -> Nat] /\ \A m \in Metrics : prev[m] <= count[m]
      BY <1>3 DEF CountTyped, Counted
    <2>2. ASSUME NEW m \in Metrics  PROVE prev[m] <= Raised(metric)[m]
      <3>1. /\ prev[m] \in Nat /\ count[m] \in Nat /\ Raised(metric)[m] \in Nat
            /\ prev[m] <= count[m] /\ count[m] <= Raised(metric)[m]
        BY <1>1, <2>1 DEF CountTyped
      <3> QED  BY <3>1
    <2> QED  BY <1>1, <2>1, <2>2 DEF Counted
  <1> QED  BY <1>2, <1>3

LEMMA PlanTyped ==
    ASSUME NEW m
    PROVE  Plan(m) \in Seq(PlanItems)
  <1> DEFINE a == IF Enabled(m.sid, "audio") THEN <<"audio">> ELSE <<>>
             b == IF Enabled(m.sid, "text") THEN <<"asr">> ELSE <<>>
  <1>1. /\ <<>> \in Seq(PlanItems) /\ <<"infer">> \in Seq(PlanItems)
        /\ a \in Seq(PlanItems) /\ b \in Seq(PlanItems)
    <2>1. "infer" \in PlanItems /\ "audio" \in PlanItems /\ "asr" \in PlanItems
      BY DEF PlanItems, Kinds
    <2>2. /\ <<>> \in Seq(PlanItems) /\ <<"infer">> \in Seq(PlanItems)
          /\ <<"audio">> \in Seq(PlanItems) /\ <<"asr">> \in Seq(PlanItems)
      BY <2>1
    <2> QED  BY <2>2
  <1>2. a \o b \in Seq(PlanItems)
    <2> HIDE DEF a, b
    <2> QED  BY <1>1
  <1>3. CASE m.type = "frame" /\ Enabled(m.sid, "face")
    BY <1>1, <1>3 DEF Plan
  <1>4. CASE m.type = "audio"
    <2>1. Plan(m) = a \o b  BY <1>4 DEF Plan
    <2> QED  BY <1>2, <2>1
  <1>5. CASE ~(m.type = "frame" /\ Enabled(m.sid, "face")) /\ m.type # "audio"
    <2>1. Plan(m) = <<>>  BY <1>5, Zenon DEF Plan
    <2> QED  BY <1>1, <2>1
  <1> QED  BY <1>3, <1>4, <1>5

LEMMA ContinueTyped ==
    ASSUME NEW m \in Message, NEW rest \in Seq(PlanItems),
           NEW unpushed \in Kinds \cup {"nothing"},
           TaskTyped, queue' \in Seq(Received), Continue(m, rest, unpushed)
    PROVE  TaskTyped' /\ pc' \in {"take", "work"}
  BY DEF Continue, TaskTyped

LEMMA LeaveTyped ==
    ASSUME NEW reason \in {"eof", "raised", "cancel"},
           queue' \in Seq(Received), Leave(reason)
    PROVE  TaskTyped' /\ pc' = "close"
  BY DEF Leave, TaskTyped

LEMMA WorkTyped ==
    ASSUME Typed, pc = "work"
    PROVE  /\ cur \in Message /\ cur.sid \in Sessions /\ cur.n \in 1 .. MaxMsgs
           /\ queue \in Seq(Received) /\ plan \in Seq(PlanItems)
           /\ link # "none" /\ conn \in Conns
  BY BoundsNatural DEF Typed, TaskTyped, NetTyped, Message, Conns

\* The outside.
LEMMA OutsideTyped ==
    ASSUME Typed, (\E s \in Sessions : Post(s)) \/ Drop \/ TokenExpires
    PROVE  Typed'
  <1>1. ASSUME NEW s \in Sessions, Post(s)  PROVE Typed'
    <2>1. PICK type \in {"frame", "audio", "join"}, request \in SUBSET Modules :
            /\ queue' = Append(queue, [type |-> type, sid |-> s,
                                       n |-> posted + 1, off |-> request])
            /\ asked' = [asked EXCEPT ![s] = request]
      <3>1. asked[s] \in SUBSET Modules  BY DEF Typed, HistoryTyped
      <3> QED  BY <1>1, <3>1, AskedModules DEF Post
    <2>2. posted + 1 \in 1 .. MaxMsgs /\ posted' \in Nat
      BY <1>1, BoundsNatural DEF Post, Typed, HistoryTyped
    <2>3. [type |-> type, sid |-> s, n |-> posted + 1, off |-> request] \in Received
      BY <2>2 DEF Received, Message
    <2>4. queue' \in Seq(Received)  BY <2>1, <2>3 DEF Typed, TaskTyped
    <2>5. asked' \in [Sessions -> SUBSET Modules]
      BY <2>1 DEF Typed, HistoryTyped
    <2> QED
      BY <1>1, <2>2, <2>4, <2>5
      DEF Post, net, task, Typed, NetTyped, TaskTyped, StoreTyped, CountTyped,
          LoopsTyped, HistoryTyped
  <1>2. CASE Drop
    BY <1>2 DEF Drop, task, bounds, Typed, NetTyped, TaskTyped, StoreTyped,
                CountTyped, LoopsTyped, HistoryTyped
  <1>3. CASE TokenExpires
    BY <1>3 DEF TokenExpires, task, bounds, history, Typed, NetTyped, TaskTyped,
                StoreTyped, CountTyped, LoopsTyped, HistoryTyped
  <1> QED  BY <1>1, <1>2, <1>3

\* The report loops.
LEMMA DeliverTyped ==
    ASSUME HistoryTyped, LoopsTyped, NEW c \in Conns, loop[c].pc = "send",
           BoundsNatural, Deliver(c)
    PROVE  report' \in [Sessions -> Report] /\ noted' \in [Metrics -> Nat]
  <1>1. loop[c] \in LoopState /\ loop[c].sid \in Sessions /\ c \in Nat
    BY DEF LoopsTyped, Conns
  <1>2. [rows |-> loop[c].rows, final |-> loop[c].final, conn |-> c] \in Report
    BY <1>1 DEF LoopState, Report
  <1>3. \A m \in Metrics : noted[m] + loop[c].delta[m] \in Nat
    BY <1>1 DEF HistoryTyped, LoopState
  <1> QED  BY <1>2, <1>3 DEF Deliver, HistoryTyped

LEMMA TickTyped ==
    ASSUME Typed, NEW c \in Conns, Tick(c)
    PROVE  Typed'
  <1>1. LoopsTyped' /\ Counted(prev', count)
    BY ServeTyped, TargetsAreRooms DEF Tick, Typed, CountTyped
  <1> QED
    BY <1>1 DEF Tick, net, task, history, Typed, NetTyped, TaskTyped, StoreTyped,
                CountTyped, HistoryTyped

LEMMA SendReportTyped ==
    ASSUME Typed, NEW c \in Conns, SendReport(c)
    PROVE  Typed'
  <1>1. loop[c].pc = "send" /\ loop[c] \in LoopState
    BY DEF SendReport, Typed, LoopsTyped
  <1>2. loop[c].todo \in SUBSET Sessions /\ loop[c].final \in BOOLEAN
    BY <1>1 DEF LoopState
  <1>3. /\ count' \in [Metrics -> Nat] /\ Counted(prev, count')
        /\ report' \in [Sessions -> Report] /\ noted' \in [Metrics -> Nat]
    <2>1. CASE Holds(c)
      BY <1>1, <2>1, DeliverTyped, BoundsNatural
      DEF SendReport, Typed, CountTyped
    <2>2. CASE ~Holds(c)
      <3>1. "report" \in Metrics  BY DEF Metrics
      <3> QED
        BY <2>2, <3>1, RaisedTyped DEF SendReport, Typed, HistoryTyped
    <2> QED  BY <2>1, <2>2
  <1>4. LoopsTyped' /\ Counted(prev', count')
    BY <1>2, <1>3, ServeTyped DEF SendReport, Typed
  <1> QED
    BY <1>3, <1>4 DEF SendReport, net, task, bounds, Typed, NetTyped, TaskTyped,
                      StoreTyped, CountTyped, HistoryTyped

\* Connecting.
LEMMA ConnectingTyped ==
    ASSUME Typed, Connect \/ ConnectFails \/ ReaderEnds
    PROVE  Typed'
  <1>1. CASE Connect
    <2>1. conn + 1 \in Conns /\ conn + 1 \in 0 .. MaxConns /\ conn + 1 # 0
      BY <1>1, BoundsNatural DEF Connect, Typed, NetTyped, Conns
    <2> DEFINE l == [Nobody EXCEPT !.pc = "sleep"]
    <2>2. l \in LoopState /\ l.pc = "sleep"
      BY NobodyTyped DEF LoopState
    <2>3. loop' = [loop EXCEPT ![conn + 1] = l]  BY <1>1 DEF Connect
    <2> HIDE DEF l
    <2>4. LoopsTyped'  BY <2>2, <2>3 DEF Typed, LoopsTyped
    <2>5. queue' \in Seq(Received) /\ asked' \in [Sessions -> SUBSET Modules]
      BY <1>1 DEF Connect, Typed, StoreTyped
    <2> QED
      BY <1>1, <2>1, <2>4, <2>5
      DEF Connect, bounds, Typed, NetTyped, TaskTyped, StoreTyped, CountTyped,
          HistoryTyped
  <1>2. CASE ConnectFails
    BY <1>2 DEF ConnectFails, task, bounds, history, Typed, NetTyped, TaskTyped,
                StoreTyped, CountTyped, LoopsTyped, HistoryTyped
  <1>3. CASE ReaderEnds
    <2>1. queue' \in Seq(Received)
      <3>1. EOF \in Received  BY DEF Received
      <3> QED  BY <1>3, <3>1 DEF ReaderEnds, Typed, TaskTyped
    <2> QED
      BY <1>3, <2>1
      DEF ReaderEnds, task, bounds, history, Typed, NetTyped, TaskTyped,
          StoreTyped, CountTyped, LoopsTyped, HistoryTyped
  <1> QED  BY <1>1, <1>2, <1>3

\* Handling messages.
LEMMA TakingTyped ==
    ASSUME Typed, TakeEOF \/ Handle
    PROVE  Typed'
  <1>1. queue' \in Seq(Received) /\ queue # <<>>
    BY DEF TakeEOF, Handle, Typed, TaskTyped
  <1>2. CASE TakeEOF
    <2>1. TaskTyped' /\ pc' = "close"  BY <1>1, <1>2, LeaveTyped DEF TakeEOF
    <2> QED
      BY <1>2, <2>1
      DEF TakeEOF, net, bounds, history, Typed, NetTyped, StoreTyped,
          CountTyped, LoopsTyped, HistoryTyped
  <1>3. CASE Handle
    <2> DEFINE m == Head(queue)
    <2>1. m \in Message
      <3>1. m \in Received /\ m # EOF
        BY <1>1, <1>3 DEF Handle, Typed, TaskTyped
      <3> QED  BY <3>1 DEF Received
    <2>2. /\ off' = IF m.type = "join" THEN [off EXCEPT ![m.sid] = m.off] ELSE off
          /\ Leave("raised") \/ Continue(m, Plan(m), "nothing")
      BY <1>3 DEF Handle, Raise
    <2> HIDE DEF m
    <2>3. off' \in [Sessions -> SUBSET Modules]
      BY <2>1, <2>2 DEF Message, Typed, StoreTyped
    <2>4. TaskTyped' /\ pc' \in {"take", "work", "close"}
      <3>1. CASE Leave("raised")  BY <1>1, <3>1, LeaveTyped
      <3>2. CASE Continue(m, Plan(m), "nothing")
        BY <1>1, <2>1, <3>2, PlanTyped, ContinueTyped DEF Typed
      <3> QED  BY <2>2, <3>1, <3>2
    <2> QED
      BY <1>3, <2>3, <2>4
      DEF Handle, net, history, Typed, NetTyped, StoreTyped,
          CountTyped, LoopsTyped, HistoryTyped
  <1> QED  BY <1>2, <1>3

\* A step at work that leaves the store alone.
LEMMA WorkingTyped ==
    ASSUME Typed, pc = "work", TaskTyped', pc' \in {"take", "work", "close"},
           count' = count \/ count' = Raised("analysis"),
           told' \in [Sessions -> Rows \cup {NoFact}],
           UNCHANGED <<home, net, off, store, record, prev, loop, asked, report,
                       noted, posted>>
    PROVE  Typed'
  <1>1. CountTyped'
    <2>1. "analysis" \in Metrics  BY DEF Metrics
    <2>2. CASE count' = count  BY <2>2 DEF Typed, CountTyped
    <2>3. CASE count' = Raised("analysis")
      BY <2>1, <2>3, RaisedTyped DEF Typed, CountTyped
    <2> QED  BY <2>2, <2>3
  <1> QED
    BY <1>1 DEF net, Typed, NetTyped, StoreTyped, LoopsTyped, HistoryTyped

LEMMA InferTyped ==
    ASSUME Typed, Infer \/ Transcribe
    PROVE  Typed'
  <1> DEFINE Results == {<<>>, <<"text">>, <<"face">>, <<"face_debug">>,
                         <<"face_debug", "face", "emotion">>}
  <1>1. /\ pc = "work" /\ (count' = count \/ count' = Raised("analysis"))
        /\ UNCHANGED <<home, net, queue, off, store, prev, loop, posted, ticks,
                       history>>
        /\ \/ Leave("raised")
           \/ \E rest \in Results : Continue(cur, rest, "nothing")
    BY DEF Infer, Transcribe, Raise, bounds
  <1>2. ASSUME NEW rest \in Results, Continue(cur, rest, "nothing")
        PROVE  TaskTyped' /\ pc' \in {"take", "work"}
    <2>1. {"text", "face", "face_debug", "emotion"} \subseteq PlanItems
      BY DEF PlanItems, Kinds
    <2>2. /\ <<>> \in Seq(PlanItems) /\ <<"text">> \in Seq(PlanItems)
          /\ <<"face">> \in Seq(PlanItems) /\ <<"face_debug">> \in Seq(PlanItems)
      BY <2>1
    <2>3. <<"face_debug", "face", "emotion">> \in Seq(PlanItems)
      BY <2>1
    <2>4. rest \in Seq(PlanItems)  BY <2>2, <2>3
    <2> QED  BY <1>1, <1>2, <2>4, WorkTyped, ContinueTyped DEF Typed
  <1>3. TaskTyped' /\ pc' \in {"take", "work", "close"}
    <2>1. queue' \in Seq(Received)  BY <1>1 DEF Typed, TaskTyped
    <2>2. CASE Leave("raised")  BY <2>1, <2>2, LeaveTyped
    <2> QED  BY <1>1, <1>2, <2>2
  <1> QED
    BY <1>1, <1>3, WorkingTyped DEF history, Typed, HistoryTyped

LEMMA SendAnalysisTyped ==
    ASSUME Typed, SendAnalysis
    PROVE  Typed'
  <1>1. /\ pc = "work" /\ plan # <<>> /\ Head(plan) \notin {"infer", "asr"}
        /\ UNCHANGED <<home, net, queue, off, store, prev, loop, bounds, asked,
                       record, report, noted, dropped>>
    BY DEF SendAnalysis
  <1>2. /\ Head(plan) \in PlanItems /\ Tail(plan) \in Seq(PlanItems)
        /\ cur \in Message /\ cur.sid \in Sessions /\ cur.n \in 1 .. MaxMsgs
        /\ queue' \in Seq(Received) /\ <<>> \in Seq(PlanItems)
    BY <1>1, WorkTyped DEF Typed, TaskTyped
  <1>3. CASE /\ Head(plan) = "emotion" /\ UNCHANGED <<told, count>>
             /\ Continue(cur, Tail(plan), "nothing")
    <2>1. TaskTyped' /\ pc' \in {"take", "work"}
      BY <1>2, <1>3, ContinueTyped DEF Typed
    <2> QED  BY <1>1, <1>3, <2>1, WorkingTyped DEF bounds, Typed, HistoryTyped
  <1>4. CASE /\ Head(plan) # "emotion" /\ UNCHANGED count
             /\ Continue(cur, Tail(plan), Head(plan))
             /\ told' = [told EXCEPT ![cur.sid] =
                           [n |-> cur.n, kind |-> Head(plan)]]
    <2>1. Head(plan) \in Kinds  BY <1>1, <1>2, <1>4 DEF PlanItems
    <2>2. TaskTyped' /\ pc' \in {"take", "work"}
      BY <1>2, <1>4, <2>1, ContinueTyped DEF Typed
    <2>3. [n |-> cur.n, kind |-> Head(plan)] \in Rows  BY <1>2, <2>1 DEF Rows
    <2>4. told' \in [Sessions -> Rows \cup {NoFact}]
      BY <1>4, <2>3 DEF Typed, HistoryTyped
    <2> QED  BY <1>1, <1>4, <2>2, <2>4, WorkingTyped DEF bounds
  <1>5. CASE /\ Continue(cur, <<>>, "nothing")
             /\ count' = Raised("analysis") /\ UNCHANGED told
    <2>1. TaskTyped' /\ pc' \in {"take", "work"}
      BY <1>2, <1>5, ContinueTyped DEF Typed
    <2> QED  BY <1>1, <1>5, <2>1, WorkingTyped DEF bounds, Typed, HistoryTyped
  <1>6. CASE Leave("raised") /\ UNCHANGED <<count, told>>
    <2>1. TaskTyped' /\ pc' = "close"  BY <1>2, <1>6, LeaveTyped
    <2> QED  BY <1>1, <1>6, <2>1, WorkingTyped DEF bounds, Typed, HistoryTyped
  <1> QED  BY <1>3, <1>4, <1>5, <1>6 DEF SendAnalysis

\* deque.append: the ring never holds more than Cap rows.
Ring(rows, row) ==
    IF Len(rows) < Cap THEN Append(rows, row) ELSE Append(Tail(rows), row)

LEMMA RingTyped ==
    ASSUME NEW rows \in Seq(Rows), Len(rows) <= Cap, NEW row \in Rows
    PROVE  Ring(rows, row) \in Seq(Rows) /\ Len(Ring(rows, row)) <= Cap
  <1>1. CASE Len(rows) < Cap
    <2>1. Append(rows, row) \in Seq(Rows) /\ Len(Append(rows, row)) <= Cap
      BY <1>1, CapPositive
    <2> QED  BY <1>1, <2>1 DEF Ring
  <1>2. CASE ~(Len(rows) < Cap)
    <2>1. rows # <<>> /\ Len(rows) = Cap  BY <1>2, CapPositive
    <2>2. Tail(rows) \in Seq(Rows) /\ Len(Tail(rows)) = Cap - 1
      BY <2>1, CapPositive
    <2>3. /\ Append(Tail(rows), row) \in Seq(Rows)
          /\ Len(Append(Tail(rows), row)) <= Cap
      BY <2>2, CapPositive
    <2> QED  BY <1>2, <2>3 DEF Ring
  <1> QED  BY <1>1, <1>2

LEMMA PushAnalysisTyped ==
    ASSUME Typed, PushAnalysis
    PROVE  Typed'
  <1> DEFINE row == [n |-> cur.n, kind |-> sent]
  <1>1. /\ pc = "work" /\ sent \in Kinds
        /\ store' = [store EXCEPT ![cur.sid] = Ring(@, row)]
        /\ record' = [record EXCEPT ![cur.sid] = Append(@, row)]
        /\ told' = [told EXCEPT ![cur.sid] = NoFact]
        /\ Continue(cur, plan, "nothing")
        /\ UNCHANGED <<home, net, queue, off, count, prev, loop, bounds,
                       asked, report, noted, dropped>>
    BY DEF PushAnalysis, Push, Ring, Typed, TaskTyped
  <1>2. /\ cur \in Message /\ cur.sid \in Sessions /\ row \in Rows
        /\ queue \in Seq(Received) /\ plan \in Seq(PlanItems)
    BY <1>1, WorkTyped DEF Rows
  <1> HIDE DEF row
  <1>3. TaskTyped' /\ pc' \in {"take", "work"}
    BY <1>1, <1>2, ContinueTyped DEF Typed
  <1>4. StoreTyped'
    <2>1. /\ store[cur.sid] \in Seq(Rows) /\ Len(store[cur.sid]) <= Cap
          /\ record[cur.sid] \in Seq(Rows)
      BY <1>2 DEF Typed, StoreTyped
    <2>2. /\ Ring(store[cur.sid], row) \in Seq(Rows)
          /\ Len(Ring(store[cur.sid], row)) <= Cap
          /\ Append(record[cur.sid], row) \in Seq(Rows)
      BY <1>2, <2>1, RingTyped
    <2> QED  BY <1>1, <1>2, <2>2 DEF Typed, StoreTyped
  <1>5. told' \in [Sessions -> Rows \cup {NoFact}]
    BY <1>1 DEF Typed, HistoryTyped
  <1> QED
    BY <1>1, <1>3, <1>4, <1>5
    DEF net, bounds, Typed, NetTyped, CountTyped, LoopsTyped, HistoryTyped

\* Leaving.
LEMMA LeavingTyped ==
    ASSUME Typed, Interrupt \/ CloseFails \/ Close \/ Gathered
    PROVE  Typed'
  <1>1. CASE Interrupt
    <2>1. CASE pc \in {"take", "work"}
      <3>1. TaskTyped' /\ pc' = "close"
        <4>1. Leave("cancel") /\ queue' \in Seq(Received)
          BY <1>1, <2>1 DEF Interrupt, Typed, TaskTyped
        <4> QED  BY <4>1, LeaveTyped
      <3>2. told' \in [Sessions -> Rows \cup {NoFact}]
        BY <1>1, <2>1 DEF Interrupt
      <3> QED
        BY <1>1, <2>1, <3>1, <3>2
        DEF Interrupt, net, bounds, Typed, NetTyped, StoreTyped, CountTyped,
            LoopsTyped, HistoryTyped
    <2>2. CASE pc \notin {"take", "work"}
      BY <1>1, <2>2
      DEF Interrupt, net, bounds, Typed, NetTyped, TaskTyped, StoreTyped,
          CountTyped, LoopsTyped, HistoryTyped
    <2> QED  BY <2>1, <2>2
  <1>2. CASE CloseFails
    <2>1. <<>> \in Seq(Received)  OBVIOUS
    <2> QED
      BY <1>2, <2>1
      DEF CloseFails, bounds, history, Typed, NetTyped, TaskTyped, StoreTyped,
          CountTyped, LoopsTyped, HistoryTyped
  <1>3. CASE Close
    <2>1. conn \in Conns
      BY <1>3 DEF Close, Typed, NetTyped, Conns
    <2>2. LoopsTyped' /\ Counted(prev', count)
      BY <1>3, <2>1, ServeTyped, TargetsAreRooms
      DEF Close, CancelLoop, Typed, CountTyped
    <2>3. report' \in [Sessions -> Report] /\ noted' \in [Metrics -> Nat]
      <3>1. CASE UNCHANGED <<report, noted>>  BY <3>1 DEF Typed, HistoryTyped
      <3>2. CASE loop[conn].pc = "send" /\ Deliver(conn)
        BY <2>1, <3>2, DeliverTyped, BoundsNatural DEF Typed
      <3> QED  BY <1>3, <3>1, <3>2 DEF Close, CancelLoop
    <2> QED
      BY <1>3, <2>2, <2>3
      DEF Close, bounds, Typed, NetTyped, TaskTyped, StoreTyped, CountTyped,
          HistoryTyped
  <1>4. CASE Gathered
    <2>1. <<>> \in Seq(Received)  OBVIOUS
    <2> QED
      BY <1>4, <2>1
      DEF Gathered, bounds, history, Typed, NetTyped, TaskTyped, StoreTyped,
          CountTyped, LoopsTyped, HistoryTyped
  <1> QED  BY <1>1, <1>2, <1>3, <1>4

LEMMA NextTyped == Typed /\ [Next]_vars => Typed'
  <1> SUFFICES ASSUME Typed, [Next]_vars  PROVE Typed'
    OBVIOUS
  <1>1. CASE Connect \/ ConnectFails \/ ReaderEnds  BY <1>1, ConnectingTyped
  <1>2. CASE TakeEOF \/ Handle  BY <1>2, TakingTyped
  <1>3. CASE Infer \/ Transcribe  BY <1>3, InferTyped
  <1>4. CASE SendAnalysis  BY <1>4, SendAnalysisTyped
  <1>5. CASE PushAnalysis  BY <1>5, PushAnalysisTyped
  <1>6. CASE Interrupt \/ CloseFails \/ Close \/ Gathered
    BY <1>6, LeavingTyped
  <1>7. ASSUME NEW c \in Conns, SendReport(c)  PROVE Typed'
    BY <1>7, SendReportTyped
  <1>8. ASSUME NEW c \in Conns, Tick(c)  PROVE Typed'
    BY <1>8, TickTyped
  <1>9. CASE (\E s \in Sessions : Post(s)) \/ Drop \/ TokenExpires
    BY <1>9, OutsideTyped
  <1>10. CASE UNCHANGED vars
    BY <1>10
    DEF vars, net, task, bounds, history, Typed, NetTyped, TaskTyped,
        StoreTyped, CountTyped, LoopsTyped, HistoryTyped
  <1> QED
    BY <1>1, <1>2, <1>3, <1>4, <1>5, <1>6, <1>7, <1>8, <1>9, <1>10
    DEF Next, Run, MainStep

(* The tasks of the gateway: the ring of every room is bounded, a handler  *)
(* has nothing to send but analyses, and a loop that sends serves a room.  *)
THEOREM TypeCorrect == Spec => []GatewayTypeOK
  <1>1. Typed => GatewayTypeOK
    BY DEF Typed, NetTyped, TaskTyped, StoreTyped, CountTyped, LoopsTyped,
           HistoryTyped, GatewayTypeOK, Received, PlanItems, LoopState, Counted
  <1> QED  BY <1>1, InitTyped, NextTyped, PTL DEF Spec
-----------------------------------------------------------------------------
(* Report loops that outlive their connection.                             *)

(* The loop of the newest connection is ended before the link is given up, *)
(* unless its reader failed, and it fails only on a lost link.             *)
Accounted ==
    /\ \A c \in Conns : c > conn => ~Alive(c)
    /\ \A c \in Conns : c < conn /\ Alive(c) => c \in dropped
    /\ \A c \in Conns : c = conn /\ link = "none" /\ Alive(c) => c \in dropped
    /\ link # "none" /\ (link = "lost" \/ reader = "failed") => conn \in dropped

LEMMA InitAccounted == Init => Accounted
  BY DEF Init, Accounted, Alive, Nobody

\* A loop that runs stays the loop it is; nobody else's changes.
LEMMA ServeAccounted ==
    ASSUME Typed, Accounted, NEW c \in Conns, Alive(c),
           \A d \in Conns : d # c => loop'[d] = loop[d],
           UNCHANGED <<conn, link, reader, dropped>>
    PROVE  Accounted'
  BY DEF Accounted, Alive

LEMMA NextAccounted == Typed /\ Accounted /\ [Next]_vars => Accounted'
  <1> SUFFICES ASSUME Typed, Accounted, [Next]_vars  PROVE Accounted'
    OBVIOUS
  <1>1. CASE Connect
    <2>1. /\ conn' = conn + 1 /\ link' = "open" /\ reader' = "reading"
          /\ link = "none" /\ conn \in Nat /\ dropped' = dropped
          /\ loop' = [loop EXCEPT ![conn + 1] = [Nobody EXCEPT !.pc = "sleep"]]
      BY <1>1, BoundsNatural DEF Connect, Typed, NetTyped
    <2>2. ASSUME NEW c \in Conns, c # conn + 1  PROVE loop'[c] = loop[c]
      BY <2>1, <2>2 DEF Typed, LoopsTyped
    <2>3. ASSUME NEW c \in Conns, c > conn'  PROVE ~Alive(c)'
      <3>1. c \in Nat /\ c # conn + 1 /\ c > conn  BY <2>1, <2>3 DEF Conns
      <3> QED  BY <2>2, <3>1 DEF Accounted, Alive
    <2>4. ASSUME NEW c \in Conns, c < conn', Alive(c)'  PROVE c \in dropped'
      <3>1. c \in Nat /\ c # conn + 1 /\ (c < conn \/ c = conn)
        BY <2>1, <2>4 DEF Conns
      <3>2. Alive(c)  BY <2>2, <2>4, <3>1 DEF Alive
      <3> QED  BY <2>1, <3>1, <3>2 DEF Accounted
    <2> QED  BY <2>1, <2>3, <2>4 DEF Accounted
  <1>2. CASE ReaderEnds
    <2>1. /\ UNCHANGED <<link, conn, loop, dropped>>
          /\ reader' = "failed" => link = "lost"
      BY <1>2 DEF ReaderEnds, history
    <2> QED  BY <2>1 DEF Accounted, Alive
  <1>3. CASE Drop
    <2>1. /\ UNCHANGED <<conn, reader, loop>> /\ link = "open" /\ link' # "none"
          /\ dropped' = IF link' = "lost" THEN dropped \cup {conn} ELSE dropped
      BY <1>3 DEF Drop
    <2> QED  BY <2>1 DEF Accounted, Alive
  <1>4. CASE CloseFails
    <2>1. /\ reader = "failed" /\ link # "none" /\ link' = "none"
          /\ UNCHANGED <<conn, reader, loop, dropped>>
      BY <1>4 DEF CloseFails, history, Typed, NetTyped
    <2> QED  BY <2>1 DEF Accounted, Alive
  <1>5. CASE Close
    <2>1. /\ conn \in Conns /\ conn \in Nat /\ link # "none"
          /\ reader' = "ended" /\ UNCHANGED <<link, conn, dropped>>
      BY <1>5, BoundsNatural DEF Close, Typed, NetTyped, Conns
    <2>2. \A d \in Conns : d # conn => loop'[d] = loop[d]
      BY <1>5, <2>1, ServeTyped, TargetsAreRooms
      DEF Close, CancelLoop, Typed, CountTyped
    <2>3. ASSUME NEW c \in Conns, c > conn \/ c < conn
          PROVE  Alive(c)' <=> Alive(c)
      <3>1. c # conn  BY <2>1, <2>3 DEF Conns
      <3> QED  BY <2>2, <3>1 DEF Alive
    <2> QED  BY <2>1, <2>3 DEF Accounted
  <1>6. CASE Gathered
    <2>1. /\ loop[conn].pc = "ended" /\ link' = "none"
          /\ UNCHANGED <<conn, reader, loop, dropped>>
      BY <1>6 DEF Gathered, history
    <2> QED  BY <2>1 DEF Accounted, Alive
  <1>7. ASSUME NEW c \in Conns, SendReport(c)  PROVE Accounted'
    <2>1. loop[c].pc = "send" /\ loop[c] \in LoopState
      BY <1>7 DEF SendReport, Typed, LoopsTyped
    <2>2. loop[c].todo \in SUBSET Sessions /\ loop[c].final \in BOOLEAN
      BY <2>1 DEF LoopState
    <2>3. count' \in [Metrics -> Nat] /\ Counted(prev, count')
      <3>1. CASE Holds(c)  BY <1>7, <3>1 DEF SendReport, Typed, CountTyped
      <3>2. CASE ~Holds(c)
        <4>1. "report" \in Metrics  BY DEF Metrics
        <4> QED  BY <1>7, <3>2, <4>1, RaisedTyped DEF SendReport, Typed
      <3> QED  BY <3>1, <3>2
    <2>4. \A d \in Conns : d # c => loop'[d] = loop[d]
      BY <1>7, <2>2, <2>3, ServeTyped DEF SendReport, Typed
    <2> QED  BY <1>7, <2>1, <2>4, ServeAccounted DEF SendReport, net, Alive
  <1>8. ASSUME NEW c \in Conns, Tick(c)  PROVE Accounted'
    <2>1. \A d \in Conns : d # c => loop'[d] = loop[d]
      BY <1>8, ServeTyped, TargetsAreRooms DEF Tick, Typed, CountTyped
    <2> QED  BY <1>8, <2>1, ServeAccounted DEF Tick, net, history, Alive
  <1>9. CASE UNCHANGED <<link, conn, reader, loop, dropped>>
    BY <1>9 DEF Accounted, Alive
  <1>10. CASE Next
    <2> USE DEF net, history
    <2>1. ASSUME NEW s \in Sessions, Post(s)  PROVE Accounted'
      BY <1>9, <2>1 DEF Post
    <2>2. CASE ConnectFails \/ TokenExpires \/ Interrupt
      BY <1>9, <2>2 DEF ConnectFails, TokenExpires, Interrupt
    <2>3. CASE TakeEOF \/ Handle \/ Infer \/ Transcribe
      BY <1>9, <2>3 DEF TakeEOF, Handle, Infer, Transcribe
    <2>4. CASE SendAnalysis \/ PushAnalysis
      BY <1>9, <2>4 DEF SendAnalysis, PushAnalysis
    <2> QED
      BY <1>1, <1>2, <1>3, <1>4, <1>5, <1>6, <1>7, <1>8, <1>10,
         <2>1, <2>2, <2>3, <2>4
      DEF Next, Run, MainStep
  <1>11. CASE UNCHANGED vars
    BY <1>9, <1>11 DEF vars, net, history
  <1> QED  BY <1>10, <1>11

(* ws_client.connect: a report loop outlives its connection only if the    *)
(* connection was lost without a close frame, for any sequence of lost and *)
(* closed connections, errors of handlers, broken reloads and interrupts.  *)
THEOREM LoopsLeakOnlyAfterLoss == Spec => []LeakOnlyAfterLoss
  <1>1. Typed /\ Accounted => LeakOnlyAfterLoss
    <2> SUFFICES ASSUME Typed, Accounted, NEW c \in Conns,
                        Alive(c), c < conn \/ link = "none"
                 PROVE  c \in dropped
      BY DEF LeakOnlyAfterLoss
    <2>1. c \in Nat /\ conn \in Nat  BY BoundsNatural DEF Conns, Typed, NetTyped
    <2>2. ~(c > conn)  BY DEF Accounted
    <2>3. c < conn \/ (c = conn /\ link = "none")  BY <2>1, <2>2
    <2> QED  BY <2>3 DEF Accounted
  <1> QED
    BY <1>1, InitTyped, InitAccounted, NextTyped, NextAccounted, PTL DEF Spec
-----------------------------------------------------------------------------
(* The final report.                                                       *)

\* The ring holds the latest Cap of everything ever pushed.
Recorded ==
    \A s \in Sessions : store[s] = Feed!Window(record[s], Len(record[s]))

LEMMA RingIsWindow ==
    ASSUME NEW all \in Seq(Rows), NEW row \in Rows
    PROVE  Ring(Feed!Window(all, Len(all)), row)
             = Feed!Window(Append(all, row), Len(Append(all, row)))
  <1> DEFINE n     == Len(all)
             first == IF n > Cap THEN n - Cap + 1 ELSE 1
             old   == SubSeq(all, first, n)
             more  == Append(all, row)
             then  == IF n + 1 > Cap THEN (n + 1) - Cap + 1 ELSE 1
             new   == SubSeq(more, then, n + 1)
  <1>1. /\ n \in Nat /\ Cap \in Nat /\ Cap >= 1
        /\ first \in Int /\ 1 <= first /\ then \in Int /\ 1 <= then
        /\ then <= n + 1
    BY CapPositive, LenProperties
  <1>2. /\ more \in Seq(Rows) /\ Len(more) = n + 1
        /\ \A i \in 1 .. n : more[i] = all[i]
        /\ more[n + 1] = row
    BY AppendProperties
  <1>3. /\ Feed!Window(all, n) = old
        /\ Feed!Window(more, Len(more)) = new
    BY <1>2 DEF Feed!Window
  <1>4. /\ old \in Seq(Rows)
        /\ Len(old) = IF first <= n THEN n - first + 1 ELSE 0
        /\ \A i \in 1 .. n - first + 1 : old[i] = all[first + i - 1]
    <2>1. \A i \in first .. n : all[i] \in Rows
      <3>1. \A i \in first .. n : i \in 1 .. Len(all)  BY <1>1
      <3> QED  BY <3>1, ElementOfSeq
    <2>2. n \in Int /\ first \in Int  BY <1>1
    <2> HIDE DEF n, first
    <2> QED  BY <2>1, <2>2, SubSeqProperties
  <1>5. /\ new \in Seq(Rows)
        /\ Len(new) = IF then <= n + 1 THEN (n + 1) - then + 1 ELSE 0
        /\ \A i \in 1 .. (n + 1) - then + 1 : new[i] = more[then + i - 1]
    <2>1. n + 1 \in Int /\ \A i \in then .. n + 1 : more[i] \in Rows
      <3>1. \A i \in then .. n + 1 : i \in 1 .. Len(more)  BY <1>1, <1>2
      <3> QED  BY <1>1, <1>2, <3>1, ElementOfSeq
    <2> HIDE DEF n, more, then
    <2>2. then \in Int  BY <1>1
    <2> QED  BY <2>1, <2>2, SubSeqProperties
  <1>6. CASE n < Cap
    <2>1. first = 1 /\ then = 1  BY <1>1, <1>6
    <2> HIDE DEF n, first, more, then, old, new
    <2>2. Len(old) = n /\ \A i \in 1 .. n : old[i] = all[i]
      <3>1. n - first + 1 = n  BY <1>1, <2>1
      <3>2. Len(old) = n  BY <1>1, <1>4, <2>1
      <3>3. ASSUME NEW i \in 1 .. n  PROVE old[i] = all[i]
        <4>1. i \in 1 .. n - first + 1 /\ first + i - 1 = i
          BY <1>1, <2>1, <3>1
        <4> QED  BY <1>4, <4>1
      <3> QED  BY <3>2, <3>3
    <2>3. Len(new) = n + 1 /\ \A i \in 1 .. n + 1 : new[i] = more[i]
      <3>1. Len(new) = n + 1  BY <1>1, <1>5, <2>1
      <3>2. ASSUME NEW i \in 1 .. n + 1  PROVE new[i] = more[i]
        <4>1. i \in 1 .. (n + 1) - then + 1 /\ then + i - 1 = i
          BY <1>1, <2>1
        <4> QED  BY <1>5, <4>1
      <3> QED  BY <3>1, <3>2
    <2>4. Ring(old, row) = Append(old, row)  BY <1>6, <2>2 DEF Ring
    <2>5. /\ Append(old, row) \in Seq(Rows) /\ Len(Append(old, row)) = n + 1
          /\ \A i \in 1 .. n : Append(old, row)[i] = old[i]
          /\ Append(old, row)[n + 1] = row
      BY <1>4, <2>2, AppendProperties
    <2>6. ASSUME NEW i \in 1 .. n + 1  PROVE Append(old, row)[i] = new[i]
      <3>1. i \in 1 .. n \/ i = n + 1  BY <1>1
      <3> QED  BY <1>2, <2>2, <2>3, <2>5, <3>1
    <2>7. Append(old, row) = new
      BY <1>5, <2>3, <2>5, <2>6, SeqEqual
    <2> QED  BY <1>3, <2>4, <2>7 DEF n, more
  <1>7. CASE ~(n < Cap)
    <2>1. first = n - Cap + 1 /\ then = n - Cap + 2  BY <1>1, <1>7
    <2> HIDE DEF n, first, more, then, old, new
    <2>2. Len(old) = Cap /\ \A i \in 1 .. Cap : old[i] = all[n - Cap + i]
      <3>1. n - first + 1 = Cap /\ first <= n  BY <1>1, <1>7, <2>1
      <3>2. Len(old) = Cap  BY <1>4, <3>1
      <3>3. ASSUME NEW i \in 1 .. Cap  PROVE old[i] = all[n - Cap + i]
        <4>1. i \in 1 .. n - first + 1 /\ first + i - 1 = n - Cap + i
          BY <1>1, <2>1, <3>1
        <4> QED  BY <1>4, <4>1
      <3> QED  BY <3>2, <3>3
    <2>3. Len(new) = Cap /\ \A i \in 1 .. Cap : new[i] = more[n - Cap + i + 1]
      <3>1. (n + 1) - then + 1 = Cap  BY <1>1, <2>1
      <3>2. Len(new) = Cap  BY <1>1, <1>5, <3>1
      <3>3. ASSUME NEW i \in 1 .. Cap  PROVE new[i] = more[n - Cap + i + 1]
        <4>1. i \in 1 .. (n + 1) - then + 1 /\ then + i - 1 = n - Cap + i + 1
          BY <1>1, <2>1, <3>1
        <4> QED  BY <1>5, <4>1
      <3> QED  BY <3>2, <3>3
    <2>4. Ring(old, row) = Append(Tail(old), row)
      BY <1>1, <2>2 DEF Ring
    <2>5. /\ Tail(old) \in Seq(Rows) /\ Len(Tail(old)) = Cap - 1
          /\ \A i \in 1 .. Cap - 1 : Tail(old)[i] = old[i + 1]
      <3>1. old # <<>>  BY <1>1, <2>2
      <3> QED  BY <1>1, <1>4, <2>2, <3>1, HeadTailProperties
    <2>6. /\ Append(Tail(old), row) \in Seq(Rows)
          /\ Len(Append(Tail(old), row)) = Cap
          /\ \A i \in 1 .. Cap - 1 : Append(Tail(old), row)[i] = old[i + 1]
          /\ Append(Tail(old), row)[Cap] = row
      <3>1. (Cap - 1) + 1 = Cap  BY <1>1
      <3> QED  BY <2>5, <3>1, AppendProperties
    <2>7. ASSUME NEW i \in 1 .. Cap  PROVE Append(Tail(old), row)[i] = new[i]
      <3>1. CASE i < Cap
        <4>1. /\ i \in 1 .. Cap - 1 /\ i + 1 \in 1 .. Cap
              /\ n - Cap + (i + 1) = n - Cap + i + 1
              /\ n - Cap + i + 1 \in 1 .. n
          BY <1>1, <1>7, <3>1
        <4>2. Append(Tail(old), row)[i] = old[i + 1]  BY <2>6, <4>1
        <4>3. old[i + 1] = all[n - Cap + i + 1]
          <5>1. old[i + 1] = all[n - Cap + (i + 1)]  BY <2>2, <4>1
          <5> QED  BY <4>1, <5>1
        <4>4. more[n - Cap + i + 1] = all[n - Cap + i + 1]  BY <1>2, <4>1
        <4> QED  BY <2>3, <4>2, <4>3, <4>4
      <3>2. CASE ~(i < Cap)
        <4>1. i = Cap /\ n - Cap + i + 1 = n + 1  BY <1>1, <3>2
        <4>2. new[i] = more[n - Cap + i + 1]  BY <2>3
        <4>3. new[i] = row  BY <1>2, <4>1, <4>2
        <4> QED  BY <2>6, <4>1, <4>3
      <3> QED  BY <3>1, <3>2
    <2>8. Append(Tail(old), row) = new
      BY <1>5, <2>3, <2>6, <2>7, SeqEqual
    <2> QED  BY <1>3, <2>4, <2>8 DEF n, more
  <1> QED  BY <1>6, <1>7

LEMMA NextRecorded == Typed /\ Recorded /\ [Next]_vars => Recorded'
  <1> SUFFICES ASSUME Typed, Recorded, [Next]_vars  PROVE Recorded'
    OBVIOUS
  <1>1. CASE PushAnalysis
    <2> DEFINE row == [n |-> cur.n, kind |-> sent]
    <2>1. /\ pc = "work" /\ sent \in Kinds
          /\ store' = [store EXCEPT ![cur.sid] = Ring(@, row)]
          /\ record' = [record EXCEPT ![cur.sid] = Append(@, row)]
      BY <1>1 DEF PushAnalysis, Push, Ring, Typed, TaskTyped
    <2>2. row \in Rows  BY <2>1, WorkTyped DEF Rows
    <2> HIDE DEF row
    <2> SUFFICES ASSUME NEW s \in Sessions
                 PROVE  store'[s] = Feed!Window(record'[s], Len(record'[s]))
      BY DEF Recorded, Feed!Window
    <2>3. /\ store[s] = Feed!Window(record[s], Len(record[s]))
          /\ record[s] \in Seq(Rows)
      BY DEF Recorded, Typed, StoreTyped
    <2>4. CASE s = cur.sid
      <3>1. store'[s] = Ring(store[s], row) /\ record'[s] = Append(record[s], row)
        BY <2>1, <2>4 DEF Typed, StoreTyped
      <3>2. Ring(Feed!Window(record[s], Len(record[s])), row)
              = Feed!Window(Append(record[s], row), Len(Append(record[s], row)))
        BY <2>2, <2>3, RingIsWindow
      <3> QED  BY <2>3, <3>1, <3>2
    <2>5. CASE s # cur.sid
      <3>1. store'[s] = store[s] /\ record'[s] = record[s]
        BY <2>1, <2>5 DEF Typed, StoreTyped
      <3> QED  BY <2>3, <3>1
    <2> QED  BY <2>4, <2>5
  <1>2. CASE UNCHANGED <<store, record>>
    BY <1>2 DEF Recorded, Feed!Window
  <1>3. CASE Next
    <2> USE DEF history
    <2>1. ASSUME NEW s \in Sessions, Post(s)  PROVE Recorded'
      BY <1>2, <2>1 DEF Post
    <2>2. ASSUME NEW c \in Conns, Tick(c) \/ SendReport(c)  PROVE Recorded'
      BY <1>2, <2>2 DEF Tick, SendReport
    <2>3. CASE Drop \/ TokenExpires \/ Connect \/ ConnectFails \/ ReaderEnds
      BY <1>2, <2>3 DEF Drop, TokenExpires, Connect, ConnectFails, ReaderEnds
    <2>4. CASE TakeEOF \/ Handle \/ Infer \/ Transcribe \/ SendAnalysis
      BY <1>2, <2>4 DEF TakeEOF, Handle, Infer, Transcribe, SendAnalysis
    <2>5. CASE Interrupt \/ CloseFails \/ Close \/ Gathered
      BY <1>2, <2>5 DEF Interrupt, CloseFails, Close, Gathered
    <2> QED
      BY <1>1, <1>3, <2>1, <2>2, <2>3, <2>4, <2>5 DEF Next, Run, MainStep
  <1>4. CASE UNCHANGED vars
    BY <1>2, <1>4 DEF vars, history
  <1> QED  BY <1>3, <1>4

\* While the cancelled loop of an open connection is awaited, every room has
\* its final report or is one the loop still has to serve, and no row is
\* pushed: the main task is waiting.
Farewell(s) == [rows |-> store[s], final |-> TRUE, conn |-> conn]

Parting ==
    pc = "gather" /\ link = "open" =>
        /\ loop[conn].pc \in {"send", "ended"}
        /\ loop[conn].pc = "send" =>
             loop[conn].final /\ loop[conn].rows = store[loop[conn].sid]
        /\ \A s \in Targets : Enabled(s, "report") =>
             \/ report[s] = Farewell(s)
             \/ /\ loop[conn].pc = "send"
                /\ s = loop[conn].sid \/ s \in loop[conn].todo

\* The cancelled loop goes on to the next room, or has served the last.
LEMMA ServeParting ==
    ASSUME NEW rooms \in SUBSET Sessions, NEW now \in [Metrics -> Nat],
           Typed, conn \in Conns, Serve(conn, rooms, TRUE, now),
           UNCHANGED <<home, conn, store, off>>,
           \A s \in Targets : Enabled(s, "report") =>
               report'[s] = Farewell(s) \/ s \in rooms
    PROVE  Parting'
  <1>1. /\ Targets' = Targets
        /\ \A s \in Sessions : /\ Enabled(s, "report")' <=> Enabled(s, "report")
                               /\ Farewell(s)' = Farewell(s)
    BY DEF Targets, session_ids, Enabled, Farewell
  <1>2. Targets \in SUBSET Sessions  BY TargetsAreRooms
  <1>3. CASE \A s \in rooms : ~Enabled(s, "report")
    <2>1. loop' = [loop EXCEPT ![conn] = Rested(TRUE)]
      BY <1>3, ServeNone
    <2>2. loop'[conn] = Rested(TRUE)  BY <2>1 DEF Typed, LoopsTyped
    <2>3. loop'[conn'].pc = "ended"  BY <2>2 DEF Rested, Nobody
    <2>4. ASSUME NEW s \in Targets, Enabled(s, "report")
          PROVE  report'[s] = Farewell(s)
      BY <1>3, <2>4
    <2> QED  BY <1>1, <1>2, <2>3, <2>4 DEF Parting
  <1>4. CASE \E s \in rooms : Enabled(s, "report")
    <2> DEFINE first == FirstOn(rooms)
    <2>1. /\ first \in rooms /\ \A x \in rooms : Enabled(x, "report") => first <= x
          /\ loop' = [loop EXCEPT ![conn] = Sending(first, rooms, TRUE, now)]
      BY <1>4, ServeFirst
    <2> HIDE DEF first
    <2>2. loop'[conn] = Sending(first, rooms, TRUE, now)
      BY <2>1 DEF Typed, LoopsTyped
    <2>3. /\ loop'[conn'].pc = "send" /\ loop'[conn'].final
          /\ loop'[conn'].sid = first /\ loop'[conn'].rows = store[first]
          /\ loop'[conn'].todo = {x \in rooms : first < x}
      BY <2>2 DEF Sending
    <2>4. ASSUME NEW s \in Targets, Enabled(s, "report")
          PROVE  \/ report'[s] = Farewell(s)
                 \/ s = first \/ s \in {x \in rooms : first < x}
      <3>1. CASE s \in rooms
        <4>1. first <= s /\ first \in Nat /\ s \in Nat
          BY <2>1, <2>4, <3>1, SessionsPositive
        <4>2. s = first \/ first < s  BY <4>1
        <4> QED  BY <3>1, <4>2
      <3> QED  BY <2>4, <3>1
    <2> QED  BY <1>1, <1>2, <2>3, <2>4 DEF Parting
  <1> QED  BY <1>3, <1>4

LEMMA NextParting == Typed /\ Parting /\ [Next]_vars => Parting'
  <1> SUFFICES ASSUME Typed, Parting, [Next]_vars  PROVE Parting'
    OBVIOUS
  <1>1. CASE Close
    <2>1. /\ conn \in Conns /\ Serve(conn, Targets, TRUE, count)
          /\ UNCHANGED <<home, conn, store, off>>
      <3>1. pc = "close"  BY <1>1 DEF Close
      <3>2. conn \in Conns  BY <3>1 DEF Typed, NetTyped, Conns
      <3>3. CancelLoop /\ UNCHANGED <<home, conn, store, off>>
        BY <1>1 DEF Close
      <3>4. Serve(conn, Targets, TRUE, count)  BY <3>3 DEF CancelLoop
      <3> QED  BY <3>2, <3>3, <3>4
    <2>2. Targets \in SUBSET Sessions /\ count \in [Metrics -> Nat]
      BY TargetsAreRooms DEF Typed, CountTyped
    <2> QED  BY <2>1, <2>2, ServeParting
  <1>2. CASE pc' # "gather" \/ link' # "open"  BY <1>2 DEF Parting
  <1>3. CASE /\ UNCHANGED <<home, pc, link, conn, store, off, report>>
             /\ conn \in Conns => loop'[conn] = loop[conn]
    <2>1. pc = "gather" /\ link = "open" => conn \in Conns
      BY DEF Typed, NetTyped, Conns
    <2> QED
      BY <1>3, <2>1 DEF Parting, Farewell, Targets, session_ids, Enabled
  <1>4. ASSUME NEW c \in Conns, SendReport(c), pc = "gather", link = "open"
        PROVE  Parting'
    <2>1. /\ loop[c].pc = "send" /\ loop[c] \in LoopState
          /\ loop[c].sid \in Sessions
      BY <1>4 DEF SendReport, Typed, LoopsTyped
    <2>2. loop[c].todo \in SUBSET Sessions /\ loop[c].final \in BOOLEAN
      BY <2>1 DEF LoopState
    <2>3. /\ Serve(c, loop[c].todo, loop[c].final, count')
          /\ UNCHANGED <<home, pc, link, conn, store, off>>
      BY <1>4 DEF SendReport, net, task
    <2>4. count' \in [Metrics -> Nat] /\ Counted(prev, count')
      <3>1. CASE Holds(c)  BY <1>4, <3>1 DEF SendReport, Typed, CountTyped
      <3>2. CASE ~Holds(c)
        <4>1. "report" \in Metrics  BY DEF Metrics
        <4> QED  BY <1>4, <3>2, <4>1, RaisedTyped DEF SendReport, Typed
      <3> QED  BY <3>1, <3>2
    <2>5. CASE c = conn
      <3>1. loop[c].final = TRUE /\ loop[c].rows = store[loop[c].sid]
        BY <1>4, <2>1, <2>5 DEF Parting
      <3>2. report' = [report EXCEPT ![loop[c].sid] =
                         [rows |-> loop[c].rows, final |-> loop[c].final,
                          conn |-> c]]
        BY <1>4, <2>5 DEF SendReport, Holds, Deliver
      <3>3. [rows |-> loop[c].rows, final |-> loop[c].final, conn |-> c]
              = Farewell(loop[c].sid)
        BY <2>5, <3>1 DEF Farewell
      <3>4. ASSUME NEW s \in Targets, Enabled(s, "report")
            PROVE  report'[s] = Farewell(s) \/ s \in loop[c].todo
        <4>1. s \in Sessions  BY TargetsAreRooms
        <4>2. CASE s = loop[c].sid
          BY <3>2, <3>3, <4>1, <4>2 DEF Typed, HistoryTyped
        <4>3. CASE s # loop[c].sid
          <5>1. report'[s] = report[s]
            BY <3>2, <4>1, <4>3 DEF Typed, HistoryTyped
          <5> QED  BY <1>4, <2>5, <3>4, <4>3, <5>1 DEF Parting
        <4> QED  BY <4>2, <4>3
      <3>5. Serve(conn, loop[c].todo, TRUE, count')  BY <2>3, <2>5, <3>1
      <3> QED  BY <2>2, <2>3, <2>4, <2>5, <3>4, <3>5, ServeParting
    <2>6. CASE c # conn
      <3>1. report' = report  BY <1>4, <2>6 DEF SendReport, Holds
      <3>2. \A d \in Conns : d # c => loop'[d] = loop[d]
        BY <2>2, <2>3, <2>4, ServeTyped DEF Typed
      <3> QED  BY <1>3, <2>3, <2>6, <3>1, <3>2
    <2> QED  BY <2>5, <2>6
  <1>5. ASSUME NEW c \in Conns, Tick(c), pc = "gather", link = "open"
        PROVE  Parting'
    <2>1. c # conn  BY <1>5 DEF Tick, Parting
    <2>2. \A d \in Conns : d # c => loop'[d] = loop[d]
      BY <1>5, ServeTyped, TargetsAreRooms DEF Tick, Typed, CountTyped
    <2> QED  BY <1>3, <1>5, <2>1, <2>2 DEF Tick, net, task, history
  <1>6. CASE Next
    <2>1. ASSUME NEW s \in Sessions, Post(s)  PROVE Parting'
      BY <1>3, <2>1 DEF Post, net, task
    <2>2. ASSUME NEW c \in Conns, Tick(c) \/ SendReport(c)  PROVE Parting'
      <3>1. UNCHANGED <<pc, link>>
        BY <2>2 DEF Tick, SendReport, net, task
      <3> QED  BY <1>2, <1>4, <1>5, <2>2, <3>1
    <2>3. CASE Drop \/ TokenExpires \/ Connect \/ ConnectFails \/ ReaderEnds
      BY <1>2, <2>3
      DEF Drop, TokenExpires, Connect, ConnectFails, ReaderEnds, task
    <2>4. CASE TakeEOF \/ Handle \/ Infer \/ Transcribe \/ SendAnalysis
               \/ PushAnalysis
      <3>1. pc' \in {"take", "work", "close"}
        BY <2>4 DEF TakeEOF, Handle, Infer, Transcribe, SendAnalysis,
                    PushAnalysis, Raise, Leave, Continue
      <3> QED  BY <1>2, <3>1
    <2>5. CASE Interrupt \/ CloseFails \/ Gathered
      BY <1>2, <2>5 DEF Interrupt, CloseFails, Gathered, Leave
    <2> QED
      BY <1>1, <1>6, <2>1, <2>2, <2>3, <2>4, <2>5 DEF Next, Run, MainStep
  <1>7. CASE UNCHANGED vars
    BY <1>3, <1>7 DEF vars, net, task, history
  <1> QED  BY <1>6, <1>7

(* report_loop, the handler of CancelledError: whatever the loop was doing *)
(* when it was cancelled, whichever rooms were served and in whatever      *)
(* moment, a connection that is left while it is open has sent each of its *)
(* rooms a final report of the latest rows of all that were ever pushed.   *)
THEOREM FinalReportsOnLeave == Spec => []FinalOnLeave
  <1>1. Init => Recorded
    <2> SUFFICES ASSUME Init, NEW s \in Sessions
                 PROVE  store[s] = Feed!Window(record[s], Len(record[s]))
      BY DEF Recorded, Feed!Window
    <2>1. store[s] = <<>> /\ record[s] = <<>>  BY DEF Init
    <2>2. SubSeq(<<>>, 1, 0) = <<>>  BY SubSeqEmpty
    <2>3. Len(<<>>) = 0 /\ ~(0 > Cap)  BY CapPositive
    <2> QED  BY <2>1, <2>2, <2>3 DEF Feed!Window
  <1>2. Init => Parting  BY DEF Init, Parting
  <1>3. Typed /\ Recorded /\ Parting => FinalOnLeave
    <2> SUFFICES ASSUME Typed, Recorded, Parting,
                        pc = "gather", link = "open", loop[conn].pc = "ended",
                        NEW s \in Targets, Enabled(s, "report")
                 PROVE  report[s] =
                          [rows |-> Feed!Window(record[s], Len(record[s])),
                           final |-> TRUE, conn |-> conn]
      BY DEF FinalOnLeave
    <2>1. report[s] = Farewell(s)  BY DEF Parting
    <2>2. s \in Sessions  BY TargetsAreRooms
    <2> QED  BY <2>1, <2>2 DEF Recorded, Farewell
  <1> QED
    BY <1>1, <1>2, <1>3, InitTyped, NextTyped, NextRecorded, NextParting, PTL
    DEF Spec

-----------------------------------------------------------------------------
(* Joins.  What each room has asked for changes with the joins that are    *)
(* still in the queue: wish[k] is what will be off when k messages of the  *)
(* queue have been handled, off at first and asked at the end.             *)

Wish == [Sessions -> SUBSET Modules]

Follows(m, before, after) ==
    /\ after = IF m.type = "join" THEN [before EXCEPT ![m.sid] = m.off]
                                  ELSE before
    /\ m.type \in {"frame", "audio"} => m.off = before[m.sid]

Wished(wish) ==
    /\ wish[0] = off /\ wish[Len(queue)] = asked
    /\ \A k \in 1 .. Len(queue) : Follows(queue[k], wish[k - 1], wish[k])

Wishes == link # "none" => \E wish \in [Nat -> Wish] : Wished(wish)

\* What is left to do for the message at hand is not of a module it had off.
ItemModule(item) ==
    CASE item \in {"infer", "emotion", "face", "face_debug"} -> "face"
      [] item = "asr" -> "text"
      [] OTHER -> item

Allowed(items) == \A k \in 1 .. Len(items) : ItemModule(items[k]) \notin cur.off

Respected ==
    pc = "work" => /\ Allowed(plan)
                   /\ sent # "nothing" => ItemModule(sent) \notin cur.off

\* A message is put at the end of the queue.
LEMMA QueueGrows ==
    ASSUME NEW wish \in [Nat -> Wish], Wished(wish), Typed, NEW m \in Received,
           queue' = Append(queue, m), Follows(m, asked, asked'), off' = off,
           asked' \in Wish
    PROVE  \E next \in [Nat -> Wish] : Wished(next)'
  <1> DEFINE n == Len(queue)
             next == [wish EXCEPT ![n + 1] = asked']
  <1>1. queue \in Seq(Received) /\ n \in Nat  BY DEF Typed, TaskTyped
  <1>2. next \in [Nat -> Wish]  BY <1>1
  <1>3. /\ Len(queue') = n + 1 /\ queue'[n + 1] = m
        /\ \A k \in 1 .. n : queue'[k] = queue[k]
    BY <1>1
  <1>4. next[0] = off' /\ next[n + 1] = asked' /\ next[n] = asked
    BY <1>1 DEF Wished
  <1>5. ASSUME NEW k \in 1 .. n + 1
        PROVE  Follows(queue'[k], next[k - 1], next[k])
    <2>1. CASE k = n + 1
      <3>1. k - 1 = n  BY <1>1, <2>1
      <3> QED  BY <1>3, <1>4, <2>1, <3>1
    <2>2. CASE k \in 1 .. n
      <3>1. next[k - 1] = wish[k - 1] /\ next[k] = wish[k]  BY <1>1, <2>2
      <3>2. Follows(queue[k], wish[k - 1], wish[k])  BY <2>2 DEF Wished
      <3> QED  BY <1>3, <2>2, <3>1, <3>2
    <2> QED  BY <1>1, <1>5, <2>1, <2>2
  <1> HIDE DEF next, n
  <1> QED  BY <1>2, <1>3, <1>4, <1>5 DEF Wished, Follows

\* The first message is taken from the queue.
LEMMA QueueShrinks ==
    ASSUME NEW wish \in [Nat -> Wish], Wished(wish), Typed,
           queue # <<>>, queue' = Tail(queue), off' = wish[1], asked' = asked
    PROVE  \E next \in [Nat -> Wish] : Wished(next)'
  <1> DEFINE n == Len(queue)
             next == [k \in Nat |-> wish[k + 1]]
  <1>1. queue \in Seq(Received) /\ n \in Nat \ {0}
    BY EmptySeq DEF Typed, TaskTyped
  <1>2. next \in [Nat -> Wish]  OBVIOUS
  <1>3. /\ Len(queue') = n - 1
        /\ \A k \in 1 .. n - 1 : queue'[k] = queue[k + 1]
    BY <1>1
  <1>4. next[0] = off' /\ next[n - 1] = asked'
    <2>1. n - 1 \in Nat /\ (n - 1) + 1 = n  BY <1>1
    <2> QED  BY <2>1 DEF Wished
  <1>5. ASSUME NEW k \in 1 .. n - 1
        PROVE  Follows(queue'[k], next[k - 1], next[k])
    <2>1. /\ k - 1 \in Nat /\ k \in Nat /\ k + 1 \in 1 .. n
          /\ (k - 1) + 1 = k /\ (k + 1) - 1 = k
      BY <1>1
    <2>2. next[k - 1] = wish[k] /\ next[k] = wish[k + 1]  BY <2>1
    <2>3. Follows(queue[k + 1], wish[(k + 1) - 1], wish[k + 1])
      BY <2>1 DEF Wished
    <2> QED  BY <1>3, <2>1, <2>2, <2>3
  <1> HIDE DEF next, n
  <1> QED  BY <1>2, <1>3, <1>4, <1>5 DEF Wished, Follows

\* A join counts for its room alone, from the message after it on.
LEMMA PostWishes ==
    ASSUME Typed, Wishes, NEW s \in Sessions, Post(s)
    PROVE  Wishes'
  <1>1. PICK wish \in [Nat -> Wish] : Wished(wish)  BY DEF Post, Wishes
  <1>2. PICK type \in {"frame", "audio", "join"}, request \in SUBSET Modules :
          /\ queue' = Append(queue, [type |-> type, sid |-> s,
                                     n |-> posted + 1, off |-> request])
          /\ asked' = [asked EXCEPT ![s] = request]
          /\ type # "join" => request = asked[s]
    <2>1. asked[s] \in SUBSET Modules  BY DEF Typed, HistoryTyped
    <2> QED  BY <2>1, AskedModules DEF Post
  <1> DEFINE m == [type |-> type, sid |-> s, n |-> posted + 1, off |-> request]
  <1>3. m \in Received
    <2>1. posted + 1 \in 1 .. MaxMsgs
      BY BoundsNatural DEF Post, Typed, HistoryTyped
    <2> QED  BY <2>1 DEF Received, Message
  <1>4. asked \in Wish /\ asked' \in Wish /\ off' = off
    BY <1>2 DEF Post, Typed, HistoryTyped, Wish
  <1>5. Follows(m, asked, asked')
    <2>1. CASE type = "join"  BY <1>2, <2>1 DEF Follows
    <2>2. CASE type # "join"
      <3>1. asked' = asked  BY <1>2, <1>4, <2>2 DEF Wish
      <3> QED  BY <1>2, <2>2, <3>1 DEF Follows
    <2> QED  BY <2>1, <2>2
  <1>6. queue' = Append(queue, m)  BY <1>2
  <1> HIDE DEF m
  <1>7. \E next \in [Nat -> Wish] : Wished(next)'
    BY <1>1, <1>3, <1>4, <1>5, <1>6, QueueGrows
  <1> QED  BY <1>7 DEF Wishes

\* The next message is handled with the modules it was sent with in mind.
LEMMA HandleWishes ==
    ASSUME Typed, Wishes, Handle
    PROVE  /\ Wishes'
           /\ Head(queue).type \in {"frame", "audio"} =>
                Head(queue).off = off[Head(queue).sid]
  <1>1. PICK wish \in [Nat -> Wish] : Wished(wish)
    BY DEF Handle, Typed, NetTyped, Wishes
  <1>2. /\ queue # <<>> /\ queue' = Tail(queue) /\ asked' = asked
        /\ off' = IF Head(queue).type = "join"
                  THEN [off EXCEPT ![Head(queue).sid] = Head(queue).off]
                  ELSE off
    BY DEF Handle, history
  <1>3. Follows(Head(queue), off, wish[1])
    <2>1. 1 \in 1 .. Len(queue) /\ queue[1] = Head(queue)
      BY <1>2, EmptySeq DEF Typed, TaskTyped
    <2>2. Follows(queue[1], wish[1 - 1], wish[1])  BY <1>1, <2>1 DEF Wished
    <2> QED  BY <1>1, <2>1, <2>2 DEF Wished
  <1>4. off' = wish[1]  BY <1>2, <1>3 DEF Follows
  <1>5. \E next \in [Nat -> Wish] : Wished(next)'
    BY <1>1, <1>2, <1>4, QueueShrinks
  <1> QED  BY <1>3, <1>5 DEF Follows, Wishes

LEMMA NextWishes == Typed /\ Wishes /\ [Next]_vars => Wishes'
  <1> SUFFICES ASSUME Typed, Wishes, [Next]_vars  PROVE Wishes'
    OBVIOUS
  <1>1. CASE UNCHANGED <<queue, off, asked>> /\ (link' # "none" => link # "none")
    BY <1>1 DEF Wishes, Wished, Follows
  <1>2. CASE link' = "none"  BY <1>2 DEF Wishes
  <1>3. CASE Connect
    <2>1. /\ queue' = <<>> /\ asked' = off /\ off' = off /\ off \in Wish
      BY <1>3 DEF Connect, Typed, StoreTyped, Wish
    <2>2. PICK wish : wish = [k \in Nat |-> off]  OBVIOUS
    <2>3. wish \in [Nat -> Wish] /\ wish[0] = off  BY <2>1, <2>2
    <2>4. Wished(wish)'  BY <2>1, <2>3 DEF Wished
    <2> QED  BY <2>3, <2>4 DEF Wishes
  <1>4. CASE ReaderEnds
    <2>1. PICK wish \in [Nat -> Wish] : Wished(wish)
      BY <1>4 DEF ReaderEnds, Wishes
    <2>2. /\ queue' = Append(queue, EOF) /\ off' = off /\ asked' = asked
          /\ asked \in Wish
      BY <1>4 DEF ReaderEnds, history, Typed, HistoryTyped, Wish
    <2>3. EOF \in Received /\ Follows(EOF, asked, asked')
      BY <2>2 DEF Received, Follows, EOF
    <2>4. \E next \in [Nat -> Wish] : Wished(next)'
      BY <2>1, <2>2, <2>3, QueueGrows
    <2> QED  BY <2>4 DEF Wishes
  <1>5. CASE TakeEOF
    <2>1. PICK wish \in [Nat -> Wish] : Wished(wish)
      BY <1>5 DEF TakeEOF, Typed, NetTyped, Wishes
    <2>2. /\ queue # <<>> /\ Head(queue) = EOF /\ queue' = Tail(queue)
          /\ off' = off /\ asked' = asked
      BY <1>5 DEF TakeEOF, history
    <2>3. wish[1] = off
      <3>1. 1 \in 1 .. Len(queue) /\ queue[1] = EOF
        BY <2>2, EmptySeq DEF Typed, TaskTyped
      <3>2. Follows(queue[1], wish[1 - 1], wish[1])  BY <2>1, <3>1 DEF Wished
      <3> QED  BY <2>1, <3>1, <3>2 DEF Wished, Follows, EOF
    <2>4. \E next \in [Nat -> Wish] : Wished(next)'
      BY <2>1, <2>2, <2>3, QueueShrinks
    <2> QED  BY <2>4 DEF Wishes
  <1> USE DEF net, task, history
  <1>6. CASE Next
    <2>1. ASSUME NEW c \in Conns, Tick(c) \/ SendReport(c)  PROVE Wishes'
      BY <1>1, <2>1 DEF Tick, SendReport
    <2>2. CASE Drop \/ TokenExpires \/ ConnectFails
      BY <1>1, <2>2 DEF Drop, TokenExpires, ConnectFails
    <2>3. CASE Infer \/ Transcribe \/ SendAnalysis \/ PushAnalysis
      BY <1>1, <2>3 DEF Infer, Transcribe, SendAnalysis, PushAnalysis
    <2>4. CASE Interrupt \/ Close
      BY <1>1, <2>4 DEF Interrupt, Close
    <2>5. CASE CloseFails \/ Gathered
      BY <1>2, <2>5 DEF CloseFails, Gathered
    <2> QED
      BY <1>3, <1>4, <1>5, <1>6, <2>1, <2>2, <2>3, <2>4, <2>5, PostWishes,
         HandleWishes DEF Next, Run, MainStep
  <1>7. CASE UNCHANGED vars  BY <1>1, <1>7 DEF vars
  <1> QED  BY <1>6, <1>7

\* The plugins look at off before they begin.
LEMMA PlanAllowed ==
    ASSUME Typed, NEW m \in Message, NEW k \in 1 .. Len(Plan(m)),
           m.type \in {"frame", "audio"} => m.off = off[m.sid]
    PROVE  ItemModule(Plan(m)[k]) \notin m.off
  <1> DEFINE a == IF Enabled(m.sid, "audio") THEN <<"audio">> ELSE <<>>
             b == IF Enabled(m.sid, "text") THEN <<"asr">> ELSE <<>>
  <1>1. CASE m.type = "frame" /\ Enabled(m.sid, "face")
    <2>1. Plan(m) = <<"infer">>  BY <1>1 DEF Plan
    <2>2. Plan(m)[k] = "infer"  BY <2>1
    <2> QED  BY <1>1, <2>2 DEF ItemModule, Enabled
  <1>2. CASE m.type = "audio"
    <2>1. Plan(m) = a \o b  BY <1>2 DEF Plan
    <2>2. \/ Plan(m)[k] = "audio" /\ Enabled(m.sid, "audio")
          \/ Plan(m)[k] = "asr" /\ Enabled(m.sid, "text")
      <3>1. CASE Enabled(m.sid, "audio") /\ Enabled(m.sid, "text")
        <4>1. Plan(m) = <<"audio">> \o <<"asr">>  BY <2>1, <3>1
        <4> QED  BY <3>1, <4>1
      <3>2. CASE Enabled(m.sid, "audio") /\ ~Enabled(m.sid, "text")
        <4>1. Plan(m) = <<"audio">> \o <<>>  BY <2>1, <3>2
        <4> QED  BY <3>2, <4>1
      <3>3. CASE ~Enabled(m.sid, "audio") /\ Enabled(m.sid, "text")
        <4>1. Plan(m) = <<>> \o <<"asr">>  BY <2>1, <3>3
        <4> QED  BY <3>3, <4>1
      <3>4. CASE ~Enabled(m.sid, "audio") /\ ~Enabled(m.sid, "text")
        <4>1. Plan(m) = <<>> \o <<>>  BY <2>1, <3>4
        <4> QED  BY <4>1
      <3> QED  BY <3>1, <3>2, <3>3, <3>4
    <2> QED  BY <1>2, <2>2 DEF ItemModule, Enabled
  <1>3. CASE ~(m.type = "frame" /\ Enabled(m.sid, "face")) /\ m.type # "audio"
    <2>1. Plan(m) = <<>>  BY <1>3, Zenon DEF Plan
    <2> QED  BY <2>1
  <1> QED  BY <1>1, <1>2, <1>3

\* Going on with the same message, with items of the same modules.
LEMMA StillAllowed ==
    ASSUME NEW rest \in Seq(PlanItems), NEW unpushed, Allowed(rest),
           unpushed # "nothing" => ItemModule(unpushed) \notin cur.off,
           Continue(cur, rest, unpushed)
    PROVE  Respected'
  BY DEF Continue, Respected, Allowed

LEMMA NextRespected == Typed /\ Wishes /\ Respected /\ [Next]_vars => Respected'
  <1> SUFFICES ASSUME Typed, Wishes, Respected, [Next]_vars  PROVE Respected'
    OBVIOUS
  <1>1. CASE UNCHANGED task  BY <1>1 DEF task, Respected, Allowed
  <1>2. CASE pc' # "work"  BY <1>2 DEF Respected
  <1>3. CASE Handle
    <2> DEFINE m == Head(queue)
    <2>1. m \in Message
      <3>1. m \in Received /\ m # EOF
        BY <1>3, EmptySeq DEF Handle, Typed, TaskTyped
      <3> QED  BY <3>1 DEF Received
    <2>2. m.type \in {"frame", "audio"} => m.off = off[m.sid]
      BY <1>3, HandleWishes
    <2>3. Leave("raised") \/ Continue(m, Plan(m), "nothing")
      BY <1>3 DEF Handle, Raise
    <2> HIDE DEF m
    <2>4. CASE Leave("raised")  BY <1>2, <2>4 DEF Leave
    <2>5. CASE Continue(m, Plan(m), "nothing") /\ pc' = "work"
      <3>1. cur' = m /\ plan' = Plan(m) /\ sent' = "nothing"
        BY <2>5 DEF Continue
      <3>2. \A k \in 1 .. Len(Plan(m)) : ItemModule(Plan(m)[k]) \notin m.off
        BY <2>1, <2>2, PlanAllowed
      <3> QED  BY <3>1, <3>2 DEF Respected, Allowed
    <2> QED  BY <1>2, <2>3, <2>4, <2>5
  <1>4. CASE Infer
    <2>1. /\ plan = <<"infer">> /\ pc = "work"
          /\ \E rest \in {<<>>, <<"face">>, <<"face_debug">>,
                          <<"face_debug", "face", "emotion">>} :
               Continue(cur, rest, "nothing")
      BY <1>4 DEF Infer
    <2>2. "face" \notin cur.off
      BY <2>1 DEF Respected, Allowed, ItemModule
    <2>3. PICK rest \in {<<>>, <<"face">>, <<"face_debug">>,
                         <<"face_debug", "face", "emotion">>} :
            Continue(cur, rest, "nothing")
      BY <2>1
    <2>4. /\ rest \in Seq(PlanItems)
          /\ \A k \in 1 .. Len(rest) : rest[k] \in {"face", "face_debug", "emotion"}
      <3>1. {"face", "face_debug", "emotion"} \subseteq PlanItems
        BY DEF PlanItems, Kinds
      <3>2. CASE rest = <<>>  BY <3>2
      <3>3. CASE rest = <<"face">>  BY <3>1, <3>3
      <3>4. CASE rest = <<"face_debug">>  BY <3>1, <3>4
      <3>5. CASE rest = <<"face_debug", "face", "emotion">>  BY <3>1, <3>5
      <3> QED  BY <2>3, <3>2, <3>3, <3>4, <3>5
    <2>5. Allowed(rest)  BY <2>2, <2>4 DEF Allowed, ItemModule
    <2> QED  BY <2>3, <2>4, <2>5, StillAllowed
  <1>5. CASE Transcribe
    <2>1. /\ plan = <<"asr">> /\ pc = "work"
          /\ \/ Leave("raised")
             \/ \E rest \in {<<>>, <<"text">>} : Continue(cur, rest, "nothing")
      BY <1>5 DEF Transcribe, Raise
    <2>2. "text" \notin cur.off
      BY <2>1 DEF Respected, Allowed, ItemModule
    <2>3. CASE Leave("raised")  BY <1>2, <2>3 DEF Leave
    <2> SUFFICES ASSUME NEW rest \in {<<>>, <<"text">>},
                        Continue(cur, rest, "nothing")
                 PROVE  Respected'
      BY <2>1, <2>3
    <2>4. /\ rest \in Seq(PlanItems)
          /\ \A k \in 1 .. Len(rest) : rest[k] = "text"
      <3>1. "text" \in PlanItems  BY DEF PlanItems, Kinds
      <3>2. CASE rest = <<>>  BY <3>2
      <3>3. CASE rest = <<"text">>  BY <3>1, <3>3
      <3> QED  BY <3>2, <3>3
    <2>5. Allowed(rest)  BY <2>2, <2>4 DEF Allowed, ItemModule
    <2> QED  BY <2>1, <2>4, <2>5, StillAllowed
  <1>6. CASE SendAnalysis
    <2>1. /\ pc = "work" /\ plan # <<>>
          /\ \/ Leave("raised")
             \/ Continue(cur, <<>>, "nothing")
             \/ Continue(cur, Tail(plan), "nothing")
             \/ Continue(cur, Tail(plan), Head(plan))
      BY <1>6 DEF SendAnalysis
    <2>2. Allowed(plan) /\ plan \in Seq(PlanItems)
      BY <2>1 DEF Respected, Typed, TaskTyped
    <2>3. /\ ItemModule(Head(plan)) \notin cur.off
          /\ Tail(plan) \in Seq(PlanItems) /\ Allowed(Tail(plan))
      <3>1. 1 \in 1 .. Len(plan) /\ Head(plan) = plan[1]
        BY <2>1, <2>2, EmptySeq
      <3>2. ASSUME NEW k \in 1 .. Len(Tail(plan))
            PROVE  k + 1 \in 1 .. Len(plan) /\ Tail(plan)[k] = plan[k + 1]
        BY <2>1, <2>2, EmptySeq
      <3>3. Tail(plan) \in Seq(PlanItems)  BY <2>1, <2>2, EmptySeq
      <3> QED  BY <2>2, <3>1, <3>2, <3>3 DEF Allowed
    <2>4. <<>> \in Seq(PlanItems) /\ Allowed(<<>>)  BY DEF Allowed
    <2>5. CASE Leave("raised")  BY <1>2, <2>5 DEF Leave
    <2> QED  BY <2>1, <2>3, <2>4, <2>5, StillAllowed
  <1>7. CASE PushAnalysis
    <2>1. /\ pc = "work" /\ Continue(cur, plan, "nothing")
          /\ plan \in Seq(PlanItems)
      BY <1>7 DEF PushAnalysis, Typed, TaskTyped
    <2> QED  BY <2>1, StillAllowed DEF Respected
  <1>8. CASE Next
    <2>1. ASSUME NEW s \in Sessions, Post(s)  PROVE Respected'
      BY <1>1, <2>1 DEF Post
    <2>2. ASSUME NEW c \in Conns, Tick(c) \/ SendReport(c)  PROVE Respected'
      BY <1>1, <2>2 DEF Tick, SendReport
    <2>3. CASE Drop \/ TokenExpires \/ ConnectFails \/ ReaderEnds
      BY <1>1, <2>3 DEF Drop, TokenExpires, ConnectFails, ReaderEnds
    <2>4. CASE Connect \/ TakeEOF \/ Interrupt \/ CloseFails \/ Close \/ Gathered
      BY <1>2, <2>4
      DEF Connect, TakeEOF, Interrupt, CloseFails, Close, Gathered, Leave
    <2> QED
      BY <1>3, <1>4, <1>5, <1>6, <1>7, <1>8, <2>1, <2>2, <2>3, <2>4
      DEF Next, Run, MainStep
  <1>9. CASE UNCHANGED vars  BY <1>1, <1>9 DEF vars
  <1> QED  BY <1>8, <1>9

(* handlers.py: nothing is sent of a message that was sent after its room  *)
(* switched the module off, however long the queue and the inference.      *)
THEOREM JoinsRespected == Spec => []JoinRespected
  <1>1. Init => Wishes /\ Respected  BY DEF Init, Wishes, Respected
  <1>2. Typed /\ Respected => JoinRespected
    BY DEF Typed, TaskTyped, Kinds, Respected, JoinRespected, ModuleOf, ItemModule
  <1> QED
    BY <1>1, <1>2, InitTyped, NextTyped, NextWishes, NextRespected, PTL DEF Spec

-----------------------------------------------------------------------------
(* What reports tell of failures.  Of what has been told or is held by a   *)
(* loop that sends, a loop at most adds what it has just taken from the    *)
(* counters.  sums[k] is no less than what has been told and what the      *)
(* first k loops hold.                                                     *)

Seen(m) == IF prev = <<>> THEN 0 ELSE prev[m]

Bounded(m, sums) ==
    /\ noted[m] <= sums[0]
    /\ \A c \in Conns : sums[c - 1] + loop[c].delta[m] <= sums[c]
    /\ \A j, k \in 0 .. MaxConns : j <= k => sums[j] <= sums[k]
    /\ sums[MaxConns] <= Seen(m)

Told == \A m \in Metrics : \E sums \in [0 .. MaxConns -> Nat] : Bounded(m, sums)

LEMMA SeenTyped ==
    ASSUME Typed, NEW m \in Metrics
    PROVE  Seen(m) \in Nat /\ Seen(m) <= count[m]
  BY DEF Typed, CountTyped, Counted, Seen

\* A loop takes no more than what was not told of before.
LEMMA ServeTakes ==
    ASSUME NEW c \in Conns, NEW rooms \in SUBSET Sessions,
           NEW final \in BOOLEAN, NEW now \in [Metrics -> Nat], NEW m \in Metrics,
           Typed, Counted(prev, now), Serve(c, rooms, final, now)
    PROVE  /\ loop'[c].delta[m] \in Nat
           /\ Seen(m) + loop'[c].delta[m] <= Seen(m)'
           /\ \A d \in Conns : d # c => loop'[d] = loop[d]
  <1>1. Seen(m) \in Nat /\ loop \in [Conns -> LoopState]
    BY SeenTyped DEF Typed, LoopsTyped
  <1>2. CASE \A s \in rooms : ~Enabled(s, "report")
    <2>1. loop' = [loop EXCEPT ![c] = Rested(final)] /\ prev' = prev
      BY <1>2, ServeNone
    <2>2. Rested(final).delta[m] = 0  BY DEF Rested, Nobody
    <2> QED  BY <1>1, <2>1, <2>2 DEF Seen
  <1>3. CASE \E s \in rooms : Enabled(s, "report")
    <2>0. PICK s : /\ s = FirstOn(rooms) /\ prev' = now
                   /\ loop' = [loop EXCEPT ![c] = Sending(s, rooms, final, now)]
      BY <1>3, ServeFirst
    <2> DEFINE next == Sending(s, rooms, final, now)
    <2>1. loop' = [loop EXCEPT ![c] = next] /\ prev' = now
      BY <2>0
    <2>2. next.delta[m] = IF prev = <<>> THEN 0 ELSE now[m] - prev[m]
      BY DEF Sending, Delta
    <2>3. /\ now[m] \in Nat /\ now # <<>>
          /\ prev # <<>> => prev[m] \in Nat /\ prev[m] <= now[m]
      BY DEF Counted, Metrics
    <2> HIDE DEF next
    <2>4. loop'[c].delta[m] = IF prev = <<>> THEN 0 ELSE now[m] - prev[m]
      BY <1>1, <2>1, <2>2
    <2>5. Seen(m)' = now[m]  BY <2>1, <2>3 DEF Seen
    <2>6. \A d \in Conns : d # c => loop'[d] = loop[d]  BY <1>1, <2>1
    <2> QED  BY <2>3, <2>4, <2>5, <2>6 DEF Seen
  <1> QED  BY <1>2, <1>3

\* What it held is told of or is dropped; nothing is counted twice.
LEMMA ServeTold ==
    ASSUME NEW c \in Conns, NEW rooms \in SUBSET Sessions,
           NEW final \in BOOLEAN, NEW now \in [Metrics -> Nat],
           Typed, Told, Counted(prev, now), Serve(c, rooms, final, now),
           \/ noted' = noted
           \/ noted' = [m \in Metrics |-> noted[m] + loop[c].delta[m]]
    PROVE  Told'
  <1> SUFFICES ASSUME NEW m \in Metrics
               PROVE  \E sums \in [0 .. MaxConns -> Nat] : Bounded(m, sums)'
    BY DEF Told
  <1>1. PICK sums \in [0 .. MaxConns -> Nat] : Bounded(m, sums)  BY DEF Told
  <1>2. PICK out \in {0, loop[c].delta[m]} : noted'[m] = noted[m] + out
    BY DEF Typed, HistoryTyped
  <1>3. PICK d \in Nat : d = loop'[c].delta[m]  BY ServeTakes
  <1>4. Seen(m) + d <= Seen(m)' /\ \A e \in Conns : e # c => loop'[e] = loop[e]
    BY <1>3, ServeTakes
  <1>5. /\ \A e \in Conns : loop[e].delta[m] \in Nat
        /\ out \in Nat /\ out <= loop[c].delta[m] /\ noted[m] \in Nat
    BY <1>2 DEF Typed, LoopsTyped, LoopState, HistoryTyped
  <1>6. Seen(m) \in Nat /\ Seen(m)' \in Nat
    BY SeenTyped, <1>3, <1>4, ServeTyped
    DEF Typed, Seen, Counted
  <1> DEFINE next == [k \in 0 .. MaxConns |->
                        IF k < c THEN sums[k] + out ELSE sums[k] + d]
  <1>7. /\ c \in 1 .. MaxConns /\ MaxConns \in Nat
        /\ \A k \in 0 .. MaxConns : sums[k] \in Nat /\ k \in Int
    BY BoundsNatural DEF Conns
  <1>8. next \in [0 .. MaxConns -> Nat]  BY <1>5, <1>7
  <1>9. sums[c - 1] + out <= sums[c]
    BY <1>1, <1>5, <1>7 DEF Bounded
  <1>10. noted'[m] <= next[0]
    BY <1>1, <1>2, <1>5, <1>7 DEF Bounded
  <1>11. ASSUME NEW e \in Conns
         PROVE  next[e - 1] + loop'[e].delta[m] <= next[e]
    <2>1. /\ e \in 1 .. MaxConns /\ e - 1 \in 0 .. MaxConns /\ e \in 0 .. MaxConns
          /\ sums[e - 1] + loop[e].delta[m] <= sums[e]
          /\ sums[e - 1] <= sums[e]
      BY <1>1, <1>7 DEF Bounded, Conns
    <2>2. CASE e = c
      <3>1. next[e - 1] = sums[e - 1] + out /\ next[e] = sums[e] + d
        BY <1>7, <2>1, <2>2
      <3> QED  BY <1>3, <1>5, <1>7, <1>9, <2>1, <2>2, <3>1
    <2>3. CASE e < c
      <3>1. next[e - 1] = sums[e - 1] + out /\ next[e] = sums[e] + out
        BY <1>7, <2>1, <2>3
      <3>2. loop'[e] = loop[e]  BY <1>4, <1>7, <2>1, <2>3
      <3>3. /\ sums[e - 1] \in Nat /\ sums[e] \in Nat
            /\ loop[e].delta[m] \in Nat /\ out \in Nat
        BY <1>3, <1>5, <1>7, <2>1
      <3>4. (sums[e - 1] + out) + loop[e].delta[m] <= sums[e] + out
        BY <2>1, <3>3
      <3> QED  BY <3>1, <3>2, <3>4
    <2>4. CASE e > c
      <3>1. next[e - 1] = sums[e - 1] + d /\ next[e] = sums[e] + d
        BY <1>7, <2>1, <2>4
      <3>2. loop'[e] = loop[e]  BY <1>4, <1>7, <2>1, <2>4
      <3>3. /\ sums[e - 1] \in Nat /\ sums[e] \in Nat
            /\ loop[e].delta[m] \in Nat /\ d \in Nat
        BY <1>3, <1>5, <1>7, <2>1
      <3>4. (sums[e - 1] + d) + loop[e].delta[m] <= sums[e] + d
        BY <2>1, <3>3
      <3> QED  BY <3>1, <3>2, <3>4
    <2> QED  BY <1>7, <2>1, <2>2, <2>3, <2>4
  <1>12. ASSUME NEW j \in 0 .. MaxConns, NEW k \in 0 .. MaxConns, j <= k
         PROVE  next[j] <= next[k]
    <2>1. sums[j] <= sums[k]  BY <1>1, <1>12 DEF Bounded
    <2>2. CASE j < c /\ k >= c
      <3>1. next[j] = sums[j] + out /\ next[k] = sums[k] + d  BY <1>7, <2>2
      <3>2. sums[j] <= sums[c - 1] /\ sums[c] <= sums[k]
        BY <1>1, <1>7, <2>2 DEF Bounded
      <3> QED  BY <1>5, <1>7, <1>9, <3>1, <3>2
    <2>3. CASE ~(j < c /\ k >= c)
      <3>1. \/ next[j] = sums[j] + out /\ next[k] = sums[k] + out
            \/ next[j] = sums[j] + d /\ next[k] = sums[k] + d
        BY <1>7, <1>12, <2>3
      <3> QED  BY <1>5, <1>7, <2>1, <3>1
    <2> QED  BY <2>2, <2>3
  <1>13. next[MaxConns] <= Seen(m)'
    <2>1. next[MaxConns] = sums[MaxConns] + d  BY <1>7
    <2> QED  BY <1>1, <1>4, <1>6, <1>7, <2>1 DEF Bounded
  <1>14. PICK after : after = next  OBVIOUS
  <1> HIDE DEF next
  <1>15. Bounded(m, after)'
    BY <1>10, <1>11, <1>12, <1>13, <1>14 DEF Bounded
  <1> QED  BY <1>8, <1>14, <1>15

LEMMA NextTold == Typed /\ Told /\ [Next]_vars => Told'
  <1> SUFFICES ASSUME Typed, Told, [Next]_vars  PROVE Told'
    OBVIOUS
  <1>1. CASE UNCHANGED <<loop, noted, prev>>
    BY <1>1 DEF Told, Bounded, Seen
  <1>2. ASSUME NEW c \in Conns, Tick(c)  PROVE Told'
    BY <1>2, ServeTold, TargetsAreRooms
    DEF Tick, history, Typed, CountTyped
  <1>3. ASSUME NEW c \in Conns, SendReport(c)  PROVE Told'
    <2>1. /\ loop[c].todo \in SUBSET Sessions /\ loop[c].final \in BOOLEAN
      BY DEF Typed, LoopsTyped, LoopState
    <2>2. count' \in [Metrics -> Nat] /\ Counted(prev, count')
      <3>1. CASE Holds(c)  BY <1>3, <3>1 DEF SendReport, Typed, CountTyped
      <3>2. CASE ~Holds(c)
        <4>1. "report" \in Metrics  BY DEF Metrics
        <4> QED  BY <1>3, <3>2, <4>1, RaisedTyped DEF SendReport, Typed
      <3> QED  BY <3>1, <3>2
    <2>3. \/ noted' = noted
          \/ noted' = [m \in Metrics |-> noted[m] + loop[c].delta[m]]
      BY <1>3 DEF SendReport, Deliver
    <2>4. Serve(c, loop[c].todo, loop[c].final, count')
      BY <1>3 DEF SendReport
    <2> QED  BY <2>1, <2>2, <2>3, <2>4, ServeTold
  <1>4. CASE Close
    <2>1. conn \in Conns
      <3>1. pc = "close"  BY <1>4 DEF Close
      <3> QED  BY <3>1 DEF Typed, NetTyped, Conns
    <2>2. CancelLoop  BY <1>4 DEF Close
    <2>3. \/ noted' = noted
          \/ noted' = [m \in Metrics |-> noted[m] + loop[conn].delta[m]]
      BY <2>2 DEF CancelLoop, Deliver
    <2>4. Serve(conn, Targets, TRUE, count)  BY <2>2 DEF CancelLoop
    <2> QED
      BY <2>1, <2>3, <2>4, ServeTold, TargetsAreRooms DEF Typed, CountTyped
  <1>5. CASE Connect
    <2>1. /\ conn + 1 \in Conns /\ noted' = noted /\ prev' = prev
          /\ loop' = [loop EXCEPT ![conn + 1] = [Nobody EXCEPT !.pc = "sleep"]]
      BY <1>5, BoundsNatural DEF Connect, Typed, NetTyped, Conns
    <2> SUFFICES ASSUME NEW m \in Metrics
                 PROVE  \E sums \in [0 .. MaxConns -> Nat] : Bounded(m, sums)'
      BY DEF Told
    <2>2. PICK sums \in [0 .. MaxConns -> Nat] : Bounded(m, sums)  BY DEF Told
    <2>3. ASSUME NEW c \in Conns
          PROVE  sums[c - 1] + loop'[c].delta[m] <= sums[c]
      <3>1. CASE c = conn + 1
        <4>1. loop'[c].delta[m] = 0
          BY <2>1, <3>1 DEF Nobody, Typed, LoopsTyped
        <4>2. /\ c - 1 \in 0 .. MaxConns /\ c \in 0 .. MaxConns /\ c - 1 <= c
          BY BoundsNatural DEF Conns
        <4>3. sums[c - 1] <= sums[c] /\ sums[c - 1] \in Nat
          BY <2>2, <4>2 DEF Bounded
        <4> QED  BY <4>1, <4>3
      <3>2. CASE c # conn + 1
        <4>1. loop'[c] = loop[c]  BY <2>1, <3>2 DEF Typed, LoopsTyped
        <4> QED  BY <2>2, <4>1 DEF Bounded
      <3> QED  BY <3>1, <3>2
    <2>4. Bounded(m, sums)'  BY <2>1, <2>2, <2>3 DEF Bounded, Seen
    <2> QED  BY <2>4
  <1> USE DEF net, task, history
  <1>6. CASE Next
    <2>1. ASSUME NEW s \in Sessions, Post(s)  PROVE Told'
      BY <1>1, <2>1 DEF Post
    <2>2. CASE Drop \/ TokenExpires \/ ConnectFails \/ ReaderEnds
      BY <1>1, <2>2 DEF Drop, TokenExpires, ConnectFails, ReaderEnds
    <2>3. CASE TakeEOF \/ Handle \/ Infer \/ Transcribe
      BY <1>1, <2>3 DEF TakeEOF, Handle, Infer, Transcribe
    <2>4. CASE SendAnalysis \/ PushAnalysis
      BY <1>1, <2>4 DEF SendAnalysis, PushAnalysis
    <2>5. CASE Interrupt \/ CloseFails \/ Gathered
      BY <1>1, <2>5 DEF Interrupt, CloseFails, Gathered
    <2> QED
      BY <1>2, <1>3, <1>4, <1>5, <1>6, <2>1, <2>2, <2>3, <2>4, <2>5
      DEF Next, Run, MainStep
  <1>7. CASE UNCHANGED vars  BY <1>1, <1>7 DEF vars
  <1> QED  BY <1>6, <1>7

(* report_loop, data_quality: however many report loops share the record   *)
(* of what was told, and however their sends overlap or fail, the reports  *)
(* that arrive tell of no failure twice.                                   *)
THEOREM FailuresNotedOnce == Spec => []NotedOnce
  <1>1. Init => Told
    <2> SUFFICES ASSUME Init, NEW m \in Metrics
                 PROVE  \E sums \in [0 .. MaxConns -> Nat] : Bounded(m, sums)
      BY DEF Told
    <2>1. PICK sums : sums = [k \in 0 .. MaxConns |-> 0]  OBVIOUS
    <2>2. /\ noted[m] = 0 /\ Seen(m) = 0
          /\ \A c \in Conns : loop[c].delta[m] = 0
      BY DEF Init, Seen, Nobody
    <2>3. /\ sums \in [0 .. MaxConns -> Nat]
          /\ \A k \in 0 .. MaxConns : sums[k] = 0
          /\ 0 \in 0 .. MaxConns /\ MaxConns \in 0 .. MaxConns
          /\ \A c \in Conns : c - 1 \in 0 .. MaxConns /\ c \in 0 .. MaxConns
      BY <2>1, BoundsNatural DEF Conns
    <2>4. Bounded(m, sums)  BY <2>2, <2>3 DEF Bounded
    <2> QED  BY <2>3, <2>4
  <1>2. Typed /\ Told => NotedOnce
    <2> SUFFICES ASSUME Typed, Told, NEW m \in Metrics
                 PROVE  noted[m] <= count[m]
      BY DEF NotedOnce
    <2>1. PICK sums \in [0 .. MaxConns -> Nat] : Bounded(m, sums)  BY DEF Told
    <2>2. /\ 0 \in 0 .. MaxConns /\ MaxConns \in 0 .. MaxConns /\ 0 <= MaxConns
      BY BoundsNatural
    <2>3. /\ noted[m] <= sums[0] /\ sums[0] <= sums[MaxConns]
          /\ sums[MaxConns] <= Seen(m)
      BY <2>1, <2>2 DEF Bounded
    <2>4. /\ noted[m] \in Nat /\ sums[0] \in Nat /\ sums[MaxConns] \in Nat
          /\ Seen(m) \in Nat /\ Seen(m) <= count[m] /\ count[m] \in Nat
      BY <2>2, SeenTyped DEF Typed, HistoryTyped, CountTyped
    <2> QED  BY <2>3, <2>4
  <1> QED
    BY <1>1, <1>2, InitTyped, NextTyped, NextTold, PTL DEF Spec
=============================================================================
