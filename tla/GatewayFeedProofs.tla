------------------------- MODULE GatewayFeedProofs -------------------------
(***************************************************************************)
(* Gateway implements ReportFeed, for any rooms, any ring, and any number  *)
(* of messages, connections and report loops.                              *)
(*                                                                         *)
(* Three facts carry the refinement.  Messages are handled in the order of *)
(* their numbers (InOrder), so the record of a room is in that order.  No  *)
(* message yields the same analysis twice (AllNew), so the rows of a record*)
(* are distinct (Distinct) and a report tells how much of the record it was*)
(* made from.  And a loop that is sending holds a moment of the record no  *)
(* older than the one the last report showed (Shows): only the newest loop *)
(* can deliver, and it reads the ring when it turns to a room.             *)
(***************************************************************************)
EXTENDS GatewayProofs

\* Messages wait in the order of their numbers, after the one handled last.
InOrderFrom(last) ==
    /\ pc = "work" => cur.n = last
    /\ \A s \in Sessions : \A i \in 1 .. Len(record[s]) : record[s][i].n <= last
    /\ \A k \in 1 .. Len(queue) : queue[k] \in Message =>
         /\ last < queue[k].n /\ queue[k].n <= posted
         /\ \A j \in 1 .. k - 1 :
              queue[j] \in Message => queue[j].n < queue[k].n

InOrder == \E last \in 0 .. posted : InOrderFrom(last)

\* The analyses an item of the plan may still send.
Yields(item) ==
    CASE item = "infer"   -> {"face", "face_debug"}
      [] item = "asr"     -> {"text"}
      [] item = "emotion" -> {}
      [] OTHER            -> {item}

\* The message at hand has no such analysis in the record yet.
Unrecorded(kind) ==
    \A i \in 1 .. Len(record[cur.sid]) :
        record[cur.sid][i] # [n |-> cur.n, kind |-> kind]

\* No analysis is left to do twice, or done already.
Fresh(items, unpushed) ==
    \A k \in 1 .. Len(items) : \A kind \in Yields(items[k]) :
        /\ Unrecorded(kind) /\ kind # unpushed
        /\ \A j \in 1 .. Len(items) : j # k => kind \notin Yields(items[j])

AllNew ==
    pc = "work" => /\ Fresh(plan, sent)
                   /\ sent # "nothing" => Unrecorded(sent)

AllDistinct(rows) ==
    \A i, j \in 1 .. Len(rows) : i # j => rows[i] # rows[j]
Distinct == \A s \in Sessions : AllDistinct(record[s])

\* Inference is what a message begins with.
InferFirst ==
    pc = "work" => \A k \in 1 .. Len(plan) :
                       plan[k] = "infer" => k = 1 /\ sent = "nothing"

\* What the room was sent and the store has not is what the task has at hand.
InHand(s) == pc = "work" /\ sent # "nothing" /\ cur.sid = s

Pending ==
    told = [s \in Sessions |-> IF InHand(s) THEN [n |-> cur.n, kind |-> sent]
                                            ELSE NoFact]

\* The rows a report or a loop holds are a moment of the record.
InFlight(s) == conn \in Conns /\ loop[conn].pc = "send" /\ loop[conn].sid = s

ShowsFrom(s, k) ==
    /\ report[s].rows = Feed!Window(record[s], k)
    /\ InFlight(s) => \E m \in k .. Len(record[s]) :
                        loop[conn].rows = Feed!Window(record[s], m)

Shows == \A s \in Sessions : \E k \in 0 .. Len(record[s]) : ShowsFrom(s, k)

FeedIInv ==
    /\ Recorded /\ InOrder /\ AllNew /\ Distinct
    /\ InferFirst /\ Pending /\ Shows
-----------------------------------------------------------------------------
(* Windows of a record.                                                    *)

\* What the window shows: nothing at the beginning, and the row it ends with.
LEMMA WindowEnd ==
    ASSUME NEW all \in Seq(Rows), NEW k \in 0 .. Len(all)
    PROVE  /\ k = 0 => Feed!Window(all, k) = <<>>
           /\ k # 0 => /\ Feed!Window(all, k) # <<>>
                       /\ Feed!Window(all, k)[Len(Feed!Window(all, k))] = all[k]
  <1> DEFINE first == IF k > Cap THEN k - Cap + 1 ELSE 1
             rows  == SubSeq(all, first, k)
  <1>1. /\ k \in Nat /\ Cap \in Nat /\ Cap >= 1 /\ Len(all) \in Nat
        /\ first \in Int /\ 1 <= first /\ k <= Len(all)
        /\ k # 0 => first <= k
    BY CapPositive, LenProperties
  <1>2. Feed!Window(all, k) = rows  BY DEF Feed!Window
  <1>3. /\ rows \in Seq(Rows)
        /\ Len(rows) = IF first <= k THEN k - first + 1 ELSE 0
        /\ \A i \in 1 .. k - first + 1 : rows[i] = all[first + i - 1]
    <2>1. \A i \in first .. k : all[i] \in Rows
      <3>1. \A i \in first .. k : i \in 1 .. Len(all)  BY <1>1
      <3> QED  BY <3>1, ElementOfSeq
    <2>2. k \in Int  BY <1>1
    <2> HIDE DEF first
    <2> QED  BY <1>1, <2>1, <2>2, SubSeqProperties
  <1>4. CASE k = 0
    <2>1. first = 1  BY <1>1, <1>4
    <2>2. SubSeq(all, 1, 0) = <<>>  BY SubSeqEmpty
    <2> QED  BY <1>2, <1>4, <2>1, <2>2
  <1>5. CASE k # 0
    <2> HIDE DEF first, rows
    <2>1. Len(rows) = k - first + 1 /\ Len(rows) \in 1 .. k - first + 1
      BY <1>1, <1>3, <1>5
    <2>2. rows[Len(rows)] = all[first + Len(rows) - 1]  BY <1>3, <2>1
    <2>3. first + Len(rows) - 1 = k  BY <1>1, <2>1
    <2>4. rows # <<>>  BY <1>1, <1>3, <2>1, EmptySeq
    <2> QED  BY <1>2, <1>5, <2>2, <2>3, <2>4
  <1> QED  BY <1>4, <1>5

\* A moment of the record stays what it was when rows are added.
LEMMA WindowStays ==
    ASSUME NEW all \in Seq(Rows), NEW row \in Rows, NEW k \in 0 .. Len(all)
    PROVE  Feed!Window(Append(all, row), k) = Feed!Window(all, k)
  <1> DEFINE first == IF k > Cap THEN k - Cap + 1 ELSE 1
             more  == Append(all, row)
             old   == SubSeq(all, first, k)
             new   == SubSeq(more, first, k)
  <1>1. /\ k \in Nat /\ Cap \in Nat /\ Cap >= 1 /\ Len(all) \in Nat
        /\ first \in Int /\ 1 <= first /\ k <= Len(all)
    BY CapPositive, LenProperties
  <1>2. /\ more \in Seq(Rows) /\ Len(more) = Len(all) + 1
        /\ \A i \in 1 .. Len(all) : more[i] = all[i]
    BY AppendProperties
  <1>3. Feed!Window(all, k) = old /\ Feed!Window(more, k) = new
    BY DEF Feed!Window
  <1>4. /\ \A i \in first .. k : i \in 1 .. Len(all)
        /\ \A i \in first .. k : i \in 1 .. Len(more)
    BY <1>1, <1>2
  <1> HIDE DEF first, more
  <1>5. /\ old \in Seq(Rows)
        /\ Len(old) = IF first <= k THEN k - first + 1 ELSE 0
        /\ \A i \in 1 .. k - first + 1 : old[i] = all[first + i - 1]
    <2>1. \A i \in first .. k : all[i] \in Rows  BY <1>4, ElementOfSeq
    <2>2. k \in Int  BY <1>1
    <2> QED  BY <1>1, <2>1, <2>2, SubSeqProperties
  <1>6. /\ new \in Seq(Rows)
        /\ Len(new) = IF first <= k THEN k - first + 1 ELSE 0
        /\ \A i \in 1 .. k - first + 1 : new[i] = more[first + i - 1]
    <2>1. \A i \in first .. k : more[i] \in Rows  BY <1>2, <1>4, ElementOfSeq
    <2>2. k \in Int  BY <1>1
    <2> QED  BY <1>1, <2>1, <2>2, SubSeqProperties
  <1> HIDE DEF old, new
  <1>7. ASSUME NEW i \in 1 .. Len(old)  PROVE old[i] = new[i]
    <2>1. i \in 1 .. k - first + 1 /\ first + i - 1 \in 1 .. Len(all)
      BY <1>1, <1>5
    <2> QED  BY <1>2, <1>5, <1>6, <2>1
  <1>8. Len(old) = Len(new)  BY <1>5, <1>6
  <1>9. old = new  BY <1>5, <1>6, <1>7, <1>8, SeqEqual
  <1> QED  BY <1>3, <1>9 DEF more
-----------------------------------------------------------------------------
(* The order of messages.                                                  *)

LEMMA PostInOrder ==
    ASSUME Typed, NEW last \in 0 .. posted, InOrderFrom(last),
           NEW s \in Sessions, Post(s)
    PROVE  InOrder'
  <1>1. PICK m : /\ queue' = Append(queue, m) /\ m.n = posted + 1
                 /\ posted' = posted + 1 /\ record' = record
                 /\ pc' = pc /\ cur' = cur
    BY DEF Post, task
  <1>2. /\ queue \in Seq(Received) /\ Len(queue) \in Nat
        /\ posted \in Nat /\ last \in Nat /\ last <= posted
    BY DEF Typed, TaskTyped, HistoryTyped
  <1>3. /\ Len(queue') = Len(queue) + 1 /\ queue'[Len(queue) + 1] = m
        /\ \A k \in 1 .. Len(queue) : queue'[k] = queue[k]
    BY <1>1, <1>2
  <1>4. ASSUME NEW k \in 1 .. Len(queue'), queue'[k] \in Message
        PROVE  /\ last < queue'[k].n /\ queue'[k].n <= posted'
               /\ \A j \in 1 .. k - 1 :
                    queue'[j] \in Message => queue'[j].n < queue'[k].n
    <2>1. CASE k \in 1 .. Len(queue)
      <3>1. /\ last < queue[k].n /\ queue[k].n <= posted
            /\ \A j \in 1 .. k - 1 :
                 queue[j] \in Message => queue[j].n < queue[k].n
        BY <1>3, <1>4, <2>1 DEF InOrderFrom
      <3>2. queue'[k] = queue[k] /\ queue[k].n \in Nat
        BY <1>3, <1>4, <2>1 DEF Message
      <3>3. \A j \in 1 .. k - 1 : queue'[j] = queue[j]  BY <1>2, <1>3, <2>1
      <3> QED  BY <1>1, <1>2, <3>1, <3>2, <3>3
    <2>2. CASE k = Len(queue) + 1
      <3>1. queue'[k].n = posted + 1  BY <1>1, <1>3, <2>2
      <3>2. ASSUME NEW j \in 1 .. k - 1, queue'[j] \in Message
            PROVE  queue'[j].n < queue'[k].n
        <4>1. j \in 1 .. Len(queue) /\ queue'[j] = queue[j]
          BY <1>2, <1>3, <2>2
        <4>2. queue[j].n <= posted /\ queue[j].n \in Nat
          BY <3>2, <4>1 DEF InOrderFrom, Message
        <4> QED  BY <1>2, <3>1, <4>1, <4>2
      <3> QED  BY <1>1, <1>2, <3>1, <3>2
    <2> QED  BY <1>2, <1>3, <2>1, <2>2
  <1>5. last \in 0 .. posted'  BY <1>1, <1>2
  <1>6. InOrderFrom(last)'  BY <1>1, <1>4 DEF InOrderFrom
  <1> QED  BY <1>5, <1>6 DEF InOrder

\* The first message is taken: it may be handled now.
LEMMA TakeInOrder ==
    ASSUME Typed, NEW last \in 0 .. posted, InOrderFrom(last),
           queue # <<>>, queue' = Tail(queue), posted' = posted,
           record' = record,
           pc' = "work" => Head(queue) \in Message /\ cur' = Head(queue)
    PROVE  InOrder'
  <1>1. /\ queue \in Seq(Received) /\ Len(queue) \in Nat \ {0}
        /\ last \in Nat /\ posted \in Nat
        /\ Head(queue) = queue[1] /\ 1 \in 1 .. Len(queue)
    BY EmptySeq DEF Typed, TaskTyped, HistoryTyped
  <1>2. /\ Len(queue') = Len(queue) - 1
        /\ \A k \in 1 .. Len(queue) - 1 : queue'[k] = queue[k + 1]
    BY <1>1
  <1>3. ASSUME NEW k \in 1 .. Len(queue'), queue'[k] \in Message
        PROVE  /\ k + 1 \in 1 .. Len(queue) /\ queue'[k] = queue[k + 1]
               /\ last < queue[k + 1].n /\ queue[k + 1].n <= posted
               /\ queue[1] \in Message => queue[1].n < queue[k + 1].n
               /\ \A j \in 1 .. k - 1 :
                    queue'[j] \in Message => queue'[j].n < queue'[k].n
    <2>1. /\ k + 1 \in 1 .. Len(queue) /\ queue'[k] = queue[k + 1]
          /\ 1 \in 1 .. (k + 1) - 1
      BY <1>1, <1>2
    <2>2. /\ last < queue[k + 1].n /\ queue[k + 1].n <= posted
          /\ \A j \in 1 .. (k + 1) - 1 :
               queue[j] \in Message => queue[j].n < queue[k + 1].n
      BY <1>3, <2>1 DEF InOrderFrom
    <2>3. ASSUME NEW j \in 1 .. k - 1
          PROVE  queue'[j] = queue[j + 1] /\ j + 1 \in 1 .. (k + 1) - 1
      BY <1>1, <1>2
    <2> QED  BY <2>1, <2>2, <2>3
  <1>4. CASE Head(queue) \in Message
    <2>0. PICK next : next = Head(queue).n  OBVIOUS
    <2>1. last < next /\ next <= posted /\ next \in Nat
      <3>1. queue[1] \in Message /\ next = queue[1].n  BY <1>1, <1>4, <2>0
      <3>2. last < queue[1].n /\ queue[1].n <= posted
        BY <1>1, <3>1 DEF InOrderFrom
      <3>3. queue[1].n \in Nat  BY <3>1 DEF Message
      <3> QED  BY <3>1, <3>2, <3>3
    <2>2. next \in 0 .. posted'  BY <1>1, <2>1
    <2>3. ASSUME NEW s \in Sessions, NEW i \in 1 .. Len(record[s])
          PROVE  record[s][i].n <= next
      <3>1. record[s][i].n <= last  BY DEF InOrderFrom
      <3>2. record[s][i].n \in Nat
        <4>1. record[s] \in Seq(Rows)  BY DEF Typed, StoreTyped
        <4>2. record[s][i] \in Rows  BY <4>1, ElementOfSeq
        <4> QED  BY <4>2 DEF Rows
      <3> QED  BY <1>1, <2>1, <3>1, <3>2
    <2>4. \A k \in 1 .. Len(queue') : queue'[k] \in Message =>
             /\ next < queue'[k].n /\ queue'[k].n <= posted'
             /\ \A j \in 1 .. k - 1 :
                  queue'[j] \in Message => queue'[j].n < queue'[k].n
      BY <1>1, <1>3, <1>4, <2>0
    <2>5. InOrderFrom(next)'  BY <1>4, <2>0, <2>3, <2>4 DEF InOrderFrom
    <2> QED  BY <2>2, <2>5 DEF InOrder
  <1>5. CASE Head(queue) \notin Message
    <2>1. InOrderFrom(last)'  BY <1>3, <1>5 DEF InOrderFrom
    <2> QED  BY <2>1 DEF InOrder
  <1> QED  BY <1>4, <1>5

LEMMA PushRecords ==
    ASSUME Typed, PushAnalysis
    PROVE  /\ pc = "work" /\ sent \in Kinds /\ cur \in Message
           /\ cur.sid \in Sessions /\ [n |-> cur.n, kind |-> sent] \in Rows
           /\ record' = [record EXCEPT ![cur.sid] =
                           Append(@, [n |-> cur.n, kind |-> sent])]
  <1>1. pc = "work" /\ sent \in Kinds
    BY DEF PushAnalysis, Typed, TaskTyped
  <1>2. cur \in Message /\ cur.sid \in Sessions /\ cur.n \in 1 .. MaxMsgs
    BY <1>1 DEF Typed, TaskTyped, Message
  <1> QED  BY <1>1, <1>2 DEF PushAnalysis, Push, Rows

LEMMA PushInOrder ==
    ASSUME Typed, NEW last \in 0 .. posted, InOrderFrom(last), PushAnalysis
    PROVE  InOrder'
  <1> DEFINE row == [n |-> cur.n, kind |-> sent]
  <1>1. /\ pc = "work" /\ cur.sid \in Sessions /\ row \in Rows
        /\ record' = [record EXCEPT ![cur.sid] = Append(@, row)]
        /\ posted' = posted /\ queue' = queue
        /\ pc' = "work" => cur' = cur
    BY PushRecords DEF PushAnalysis, Continue, bounds
  <1>2. row.n = last  BY <1>1 DEF InOrderFrom
  <1>3. last \in Nat  OBVIOUS
  <1> HIDE DEF row
  <1>4. ASSUME NEW s \in Sessions, NEW i \in 1 .. Len(record'[s])
        PROVE  record'[s][i].n <= last
    <2>1. record[s] \in Seq(Rows) /\ Len(record[s]) \in Nat
      BY DEF Typed, StoreTyped
    <2>2. CASE s = cur.sid
      <3>1. record'[s] = Append(record[s], row)
        BY <1>1, <2>2 DEF Typed, StoreTyped
      <3>2. \/ i \in 1 .. Len(record[s]) /\ record'[s][i] = record[s][i]
            \/ record'[s][i] = row
        BY <2>1, <3>1
      <3> QED  BY <1>2, <1>3, <3>2 DEF InOrderFrom
    <2>3. CASE s # cur.sid
      <3>1. record'[s] = record[s]  BY <1>1, <2>3 DEF Typed, StoreTyped
      <3> QED  BY <3>1 DEF InOrderFrom
    <2> QED  BY <2>2, <2>3
  <1>5. InOrderFrom(last)'  BY <1>1, <1>4 DEF InOrderFrom
  <1> QED  BY <1>1, <1>5 DEF InOrder

LEMMA NextInOrder == Typed /\ InOrder /\ [Next]_vars => InOrder'
  <1> SUFFICES ASSUME Typed, InOrder, [Next]_vars  PROVE InOrder'
    OBVIOUS
  <1>1. PICK last \in 0 .. posted : InOrderFrom(last)  BY DEF InOrder
  <1>2. CASE /\ UNCHANGED <<queue, posted, record>>
             /\ pc' = "work" => pc = "work" /\ cur' = cur
    <2>1. InOrderFrom(last)'  BY <1>1, <1>2 DEF InOrderFrom
    <2> QED  BY <1>2, <2>1 DEF InOrder
  <1>3. CASE queue' = <<>> /\ pc' # "work" /\ UNCHANGED <<posted, record>>
    <2>1. \A k \in 1 .. Len(queue') : FALSE  BY <1>3
    <2>2. InOrderFrom(last)'  BY <1>1, <1>3, <2>1 DEF InOrderFrom
    <2> QED  BY <1>3, <2>2 DEF InOrder
  <1>4. CASE ReaderEnds
    <2>1. /\ queue' = Append(queue, EOF) /\ EOF \notin Message
          /\ UNCHANGED <<posted, record, pc, cur>>
      BY <1>4 DEF ReaderEnds, EOF, Message, task, bounds, history
    <2>2. queue \in Seq(Received) /\ Len(queue) \in Nat
      BY DEF Typed, TaskTyped
    <2>3. ASSUME NEW k \in 1 .. Len(queue'), queue'[k] \in Message
          PROVE  /\ k \in 1 .. Len(queue) /\ queue'[k] = queue[k]
                 /\ \A j \in 1 .. k - 1 : queue'[j] = queue[j]
      <3>1. k \in 1 .. Len(queue)  BY <2>1, <2>2, <2>3
      <3> QED  BY <2>1, <2>2, <3>1
    <2>4. InOrderFrom(last)'  BY <1>1, <2>1, <2>3 DEF InOrderFrom
    <2> QED  BY <2>1, <2>4 DEF InOrder
  <1> USE DEF net, task, bounds, history
  <1>5. CASE TakeEOF
    BY <1>1, <1>5, TakeInOrder DEF TakeEOF, Leave
  <1>6. CASE Handle
    <2>1. Head(queue) \in Message
      <3>1. queue \in Seq(Received) /\ queue # <<>> /\ Head(queue) # EOF
        BY <1>6 DEF Handle, Typed, TaskTyped
      <3> QED  BY <3>1 DEF Received
    <2> QED
      BY <1>1, <1>6, <2>1, TakeInOrder DEF Handle, Raise, Leave, Continue
  <1>7. CASE Next
    <2>1. ASSUME NEW c \in Conns, Tick(c) \/ SendReport(c)  PROVE InOrder'
      BY <1>2, <2>1 DEF Tick, SendReport
    <2>2. CASE Drop \/ TokenExpires \/ ConnectFails
      BY <1>2, <2>2 DEF Drop, TokenExpires, ConnectFails
    <2>3. CASE Infer \/ Transcribe \/ SendAnalysis
      BY <1>2, <2>3
      DEF Infer, Transcribe, SendAnalysis, Continue, Raise, Leave
    <2>4. CASE Interrupt \/ Close
      BY <1>2, <2>4 DEF Interrupt, Close, Leave
    <2>5. CASE Connect \/ CloseFails \/ Gathered
      BY <1>3, <2>5 DEF Connect, CloseFails, Gathered
    <2>6. ASSUME NEW s \in Sessions, Post(s)  PROVE InOrder'
      BY <1>1, <2>6, PostInOrder
    <2>7. CASE PushAnalysis  BY <1>1, <2>7, PushInOrder
    <2> QED
      BY <1>4, <1>5, <1>6, <1>7, <2>1, <2>2, <2>3, <2>4, <2>5, <2>6, <2>7
      DEF Next, Run, MainStep
  <1>8. CASE UNCHANGED vars  BY <1>2, <1>8 DEF vars
  <1> QED  BY <1>7, <1>8
-----------------------------------------------------------------------------
(* No analysis of a message is made twice.                                 *)

LEMMA YieldsOf ==
    /\ Yields("infer") = {"face", "face_debug"} /\ Yields("asr") = {"text"}
    /\ Yields("emotion") = {}
    /\ \A item \in Kinds : Yields(item) = {item}
  BY DEF Yields, Kinds

\* What the plugins begin with, and what inference leaves them to do.
Begun   == {<<>>, <<"infer">>, <<"audio">>, <<"asr">>, <<"audio", "asr">>}
Outputs == {<<>>, <<"face">>, <<"face_debug">>, <<"face_debug", "face", "emotion">>,
            <<"text">>}

LEMMA PlanBegun ==
    ASSUME NEW m
    PROVE  Plan(m) \in Begun
  <1> DEFINE a == IF Enabled(m.sid, "audio") THEN <<"audio">> ELSE <<>>
             b == IF Enabled(m.sid, "text") THEN <<"asr">> ELSE <<>>
  <1>1. CASE m.type = "frame" /\ Enabled(m.sid, "face")
    BY <1>1 DEF Plan, Begun
  <1>2. CASE m.type = "audio"
    <2>1. Plan(m) = a \o b  BY <1>2 DEF Plan
    <2>2. /\ <<>> \o <<>> = <<>> /\ <<"audio">> \o <<>> = <<"audio">>
          /\ <<>> \o <<"asr">> = <<"asr">>
          /\ <<"audio">> \o <<"asr">> = <<"audio", "asr">>
      <3>1. /\ <<>> \in Seq(PlanItems) /\ <<"audio">> \in Seq(PlanItems)
            /\ <<"asr">> \in Seq(PlanItems) /\ <<"audio", "asr">> \in Seq(PlanItems)
        <4>1. "audio" \in PlanItems /\ "asr" \in PlanItems
          BY DEF PlanItems, Kinds
        <4> QED  BY <4>1
      <3>2. <<"audio">> \o <<"asr">> = <<"audio", "asr">>
        <4> DEFINE two == <<"audio">> \o <<"asr">>
        <4>1. two \in Seq(PlanItems) /\ Len(two) = 2 /\ Len(<<"audio", "asr">>) = 2
          BY <3>1
        <4>2. two[1] = "audio" /\ two[2] = "asr"  OBVIOUS
        <4> HIDE DEF two
        <4>3. \A i \in 1 .. Len(two) : two[i] = <<"audio", "asr">>[i]
          BY <4>1, <4>2
        <4> QED  BY <3>1, <4>1, <4>3, SeqEqual DEF two
      <3> QED  BY <3>1, <3>2, ConcatEmptySeq
    <2> QED  BY <2>1, <2>2 DEF Begun
  <1>3. CASE ~(m.type = "frame" /\ Enabled(m.sid, "face")) /\ m.type # "audio"
    <2>1. Plan(m) = <<>>  BY <1>3, Zenon DEF Plan
    <2> QED  BY <2>1 DEF Begun
  <1> QED  BY <1>1, <1>2, <1>3

\* No two items of these yield the same analysis.
Disjoint(items) ==
    \A k \in 1 .. Len(items) : \A kind \in Yields(items[k]) :
        /\ kind \in Kinds
        /\ \A j \in 1 .. Len(items) : j # k => kind \notin Yields(items[j])

LEMMA PlansDisjoint ==
    ASSUME NEW items \in Begun \cup Outputs
    PROVE  Disjoint(items)
  <1>1. /\ Yields("audio") = {"audio"} /\ Yields("face") = {"face"}
        /\ Yields("face_debug") = {"face_debug"} /\ Yields("text") = {"text"}
    BY YieldsOf DEF Kinds
  <1>2. CASE items = <<>>  BY <1>2 DEF Disjoint
  <1>3. CASE Len(items) = 1 /\ Yields(items[1]) \subseteq Kinds
    BY <1>3 DEF Disjoint
  <1>4. CASE items = <<"audio", "asr">>
    <2>1. /\ Len(items) = 2 /\ Yields(items[1]) = {"audio"}
          /\ Yields(items[2]) = {"text"}
      BY <1>1, <1>4, YieldsOf
    <2> QED  BY <2>1 DEF Disjoint, Kinds
  <1>5. CASE items = <<"face_debug", "face", "emotion">>
    <2>1. /\ Len(items) = 3 /\ Yields(items[1]) = {"face_debug"}
          /\ Yields(items[2]) = {"face"} /\ Yields(items[3]) = {}
      BY <1>1, <1>5, YieldsOf
    <2> QED  BY <2>1 DEF Disjoint, Kinds
  <1>6. CASE items \in {<<"infer">>, <<"audio">>, <<"asr">>, <<"face">>,
                        <<"face_debug">>, <<"text">>}
    <2>1. Len(items) = 1  BY <1>6
    <2>2. items[1] \in {"infer", "audio", "asr", "face", "face_debug", "text"}
      BY <1>6
    <2>3. Yields(items[1]) \subseteq Kinds  BY <1>1, <2>2, YieldsOf DEF Kinds
    <2> QED  BY <1>3, <2>1, <2>3
  <1> QED  BY <1>2, <1>4, <1>5, <1>6 DEF Begun, Outputs

\* A message that was still waiting has nothing in the record.
LEMMA HandleNew ==
    ASSUME Typed, InOrder, Handle
    PROVE  AllNew'
  <1> SUFFICES ASSUME pc' = "work"  PROVE Fresh(plan, sent)' /\ sent' = "nothing"
    BY DEF AllNew
  <1> DEFINE m == Head(queue)
  <1>1. /\ queue # <<>> /\ Head(queue) # EOF /\ record' = record
        /\ cur' = m /\ plan' = Plan(m) /\ sent' = "nothing"
    BY DEF Handle, Continue, Raise, Leave, history
  <1>2. PICK last \in 0 .. posted : InOrderFrom(last)  BY DEF InOrder
  <1>3. m \in Message /\ last < m.n
    <2>1. /\ queue \in Seq(Received) /\ 1 \in 1 .. Len(queue)
          /\ m = queue[1]
      BY <1>1, EmptySeq DEF Typed, TaskTyped
    <2>2. m \in Message  BY <1>1, <2>1 DEF Received
    <2> QED  BY <1>2, <2>1, <2>2 DEF InOrderFrom
  <1>4. m.sid \in Sessions /\ m.n \in Nat  BY <1>3 DEF Message
  <1> HIDE DEF m
  <1>5. ASSUME NEW kind  PROVE Unrecorded(kind)'
    <2>1. record[m.sid] \in Seq(Rows)  BY <1>4 DEF Typed, StoreTyped
    <2>2. ASSUME NEW i \in 1 .. Len(record[m.sid])
          PROVE  record[m.sid][i] # [n |-> m.n, kind |-> kind]
      <3>1. record[m.sid][i].n <= last  BY <1>2, <1>4 DEF InOrderFrom
      <3>2. record[m.sid][i] \in Rows  BY <2>1, ElementOfSeq
      <3>3. record[m.sid][i].n \in Nat  BY <3>2 DEF Rows
      <3>4. record[m.sid][i].n # m.n  BY <1>2, <1>3, <1>4, <3>1, <3>3
      <3> QED  BY <3>4
    <2> QED  BY <1>1, <2>2 DEF Unrecorded
  <1>6. Disjoint(Plan(m))  BY PlanBegun, PlansDisjoint
  <1>7. "nothing" \notin Kinds  BY DEF Kinds
  <1> QED  BY <1>1, <1>5, <1>6, <1>7 DEF Fresh, Disjoint

\* What inference finds is of the kinds it was to yield.
LEMMA OutputsNew ==
    ASSUME Typed, AllNew, NEW item, pc = "work", plan = <<item>>,
           NEW outputs \in Outputs, record' = record,
           Continue(cur, outputs, "nothing"),
           \A k \in 1 .. Len(outputs) : Yields(outputs[k]) \subseteq Yields(item)
    PROVE  AllNew'
  <1> SUFFICES ASSUME pc' = "work"  PROVE Fresh(plan, sent)' /\ sent' = "nothing"
    BY DEF AllNew
  <1>1. cur' = cur /\ plan' = outputs /\ sent' = "nothing"
    BY DEF Continue
  <1>2. \A kind \in Yields(item) : Unrecorded(kind)
    <2>1. 1 \in 1 .. Len(plan) /\ plan[1] = item  OBVIOUS
    <2> QED  BY <2>1 DEF AllNew, Fresh
  <1>3. \A kind : Unrecorded(kind)' <=> Unrecorded(kind)
    BY <1>1 DEF Unrecorded
  <1>4. Disjoint(outputs)  BY PlansDisjoint
  <1>5. ASSUME NEW k \in 1 .. Len(outputs), NEW kind \in Yields(outputs[k])
        PROVE  /\ Unrecorded(kind)' /\ kind # "nothing"
               /\ \A j \in 1 .. Len(outputs) :
                    j # k => kind \notin Yields(outputs[j])
    <2>1. Unrecorded(kind)'  BY <1>2, <1>3
    <2>2. kind \in Kinds  BY <1>4 DEF Disjoint
    <2> QED  BY <1>4, <2>1, <2>2 DEF Disjoint, Kinds
  <1> QED  BY <1>1, <1>5 DEF Fresh

\* The first item is sent: the rest yields other analyses.
LEMMA SendNew ==
    ASSUME Typed, AllNew, SendAnalysis
    PROVE  AllNew'
  <1>1. /\ pc = "work" /\ plan # <<>> /\ Head(plan) \notin {"infer", "asr"}
        /\ sent = "nothing" /\ record' = record
        /\ \/ Leave("raised")
           \/ Continue(cur, <<>>, "nothing")
           \/ Head(plan) = "emotion" /\ Continue(cur, Tail(plan), "nothing")
           \/ Head(plan) # "emotion" /\ Continue(cur, Tail(plan), Head(plan))
    BY DEF SendAnalysis
  <1>2. /\ plan \in Seq(PlanItems) /\ 1 \in 1 .. Len(plan) /\ Head(plan) = plan[1]
        /\ Len(plan) \in Nat /\ Len(Tail(plan)) = Len(plan) - 1
        /\ \A k \in 1 .. Len(plan) - 1 : Tail(plan)[k] = plan[k + 1]
    BY <1>1, EmptySeq DEF Typed, TaskTyped
  <1>3. Fresh(plan, "nothing")  BY <1>1 DEF AllNew
  <1>4. ASSUME NEW k \in 1 .. Len(Tail(plan)), NEW kind \in Yields(Tail(plan)[k])
        PROVE  /\ Unrecorded(kind) /\ kind # "nothing"
               /\ kind \notin Yields(Head(plan))
               /\ \A j \in 1 .. Len(Tail(plan)) :
                    j # k => kind \notin Yields(Tail(plan)[j])
    <2>1. k + 1 \in 1 .. Len(plan) /\ kind \in Yields(plan[k + 1]) /\ 1 # k + 1
      BY <1>2
    <2>2. /\ Unrecorded(kind) /\ kind # "nothing"
          /\ \A j \in 1 .. Len(plan) : j # k + 1 => kind \notin Yields(plan[j])
      BY <1>3, <2>1 DEF Fresh
    <2>3. ASSUME NEW j \in 1 .. Len(Tail(plan)), j # k
          PROVE  j + 1 \in 1 .. Len(plan) /\ Tail(plan)[j] = plan[j + 1] /\ j + 1 # k + 1
      BY <1>2, <2>3
    <2> QED  BY <1>2, <2>1, <2>2, <2>3
  <1>5. ASSUME cur' = cur  PROVE \A kind : Unrecorded(kind)' <=> Unrecorded(kind)
    BY <1>1, <1>5 DEF Unrecorded
  <1>6. CASE Leave("raised")  BY <1>6 DEF Leave, AllNew
  <1>7. CASE Continue(cur, <<>>, "nothing")
    BY <1>7 DEF Continue, AllNew, Fresh
  <1>8. CASE Continue(cur, Tail(plan), "nothing") /\ pc' = "work"
    BY <1>4, <1>5, <1>8 DEF Continue, AllNew, Fresh
  <1>9. CASE /\ Head(plan) # "emotion" /\ pc' = "work"
             /\ Continue(cur, Tail(plan), Head(plan))
    <2>1. Head(plan) \in Kinds /\ Yields(Head(plan)) = {Head(plan)}
      <3>1. Head(plan) \in Kinds
        BY <1>1, <1>2, <1>9, ElementOfSeq DEF PlanItems
      <3> QED  BY <3>1, YieldsOf
    <2>2. Unrecorded(Head(plan))  BY <1>2, <1>3, <2>1 DEF Fresh
    <2>3. cur' = cur /\ plan' = Tail(plan) /\ sent' = Head(plan)
      BY <1>9 DEF Continue
    <2>4. Fresh(plan, sent)'  BY <1>4, <1>5, <2>1, <2>3 DEF Fresh
    <2> QED  BY <1>5, <2>2, <2>3, <2>4 DEF AllNew
  <1>10. CASE pc' # "work"  BY <1>10 DEF AllNew
  <1> QED  BY <1>1, <1>6, <1>7, <1>8, <1>9, <1>10

\* What has been sent is recorded, and is none of what is left.
LEMMA PushNew ==
    ASSUME Typed, AllNew, PushAnalysis
    PROVE  AllNew'
  <1> SUFFICES ASSUME pc' = "work"  PROVE Fresh(plan, sent)' /\ sent' = "nothing"
    BY DEF AllNew
  <1> DEFINE row == [n |-> cur.n, kind |-> sent]
  <1>1. /\ pc = "work" /\ cur.sid \in Sessions
        /\ record' = [record EXCEPT ![cur.sid] = Append(@, row)]
        /\ cur' = cur /\ plan' = plan /\ sent' = "nothing"
    BY PushRecords DEF PushAnalysis, Continue
  <1>2. record'[cur.sid] = Append(record[cur.sid], row)
    BY <1>1 DEF Typed, StoreTyped
  <1>3. record[cur.sid] \in Seq(Rows)  BY <1>1 DEF Typed, StoreTyped
  <1>4. ASSUME NEW kind, Unrecorded(kind), kind # sent
        PROVE  Unrecorded(kind)'
    <2>1. ASSUME NEW i \in 1 .. Len(record'[cur.sid])
          PROVE  record'[cur.sid][i] # [n |-> cur.n, kind |-> kind]
      <3>1. row # [n |-> cur.n, kind |-> kind]  BY <1>4
      <3> HIDE DEF row
      <3>2. \/ i \in 1 .. Len(record[cur.sid])
               /\ record'[cur.sid][i] = record[cur.sid][i]
            \/ record'[cur.sid][i] = row
        BY <1>2, <1>3
      <3> QED  BY <1>4, <3>1, <3>2 DEF Unrecorded
    <2> QED  BY <1>1, <2>1 DEF Unrecorded
  <1>5. Fresh(plan, sent) /\ plan \in Seq(PlanItems)
    BY <1>1 DEF AllNew, Typed, TaskTyped
  <1>6. ASSUME NEW k \in 1 .. Len(plan), NEW kind \in Yields(plan[k])
        PROVE  kind # "nothing"
    <2>1. plan[k] \in PlanItems  BY <1>5, ElementOfSeq
    <2>2. Yields(plan[k]) \subseteq Kinds
      BY <2>1, YieldsOf DEF PlanItems, Kinds
    <2> QED  BY <2>2 DEF Kinds
  <1>7. ASSUME NEW k \in 1 .. Len(plan), NEW kind \in Yields(plan[k])
        PROVE  /\ Unrecorded(kind)' /\ kind # "nothing"
               /\ \A j \in 1 .. Len(plan) : j # k => kind \notin Yields(plan[j])
    <2>1. /\ Unrecorded(kind) /\ kind # sent
          /\ \A j \in 1 .. Len(plan) : j # k => kind \notin Yields(plan[j])
      BY <1>5 DEF Fresh
    <2> QED  BY <1>4, <1>6, <2>1
  <1>8. plan' = plan /\ sent' = "nothing"  BY <1>1
  <1> HIDE DEF row
  <1>9. Fresh(plan, sent)'  BY ONLY <1>7, <1>8 DEF Fresh
  <1> QED  BY <1>8, <1>9

LEMMA NextAllNew == Typed /\ InOrder /\ AllNew /\ [Next]_vars => AllNew'
  <1> SUFFICES ASSUME Typed, InOrder, AllNew, [Next]_vars  PROVE AllNew'
    OBVIOUS
  <1>1. CASE UNCHANGED <<task, record>>
    BY <1>1 DEF task, AllNew, Fresh, Unrecorded
  <1>2. CASE pc' # "work"  BY <1>2 DEF AllNew
  <1> USE DEF history
  <1>3. CASE Infer
    <2>1. /\ pc = "work" /\ plan = <<"infer">> /\ record' = record
          /\ \E outputs \in {<<>>, <<"face">>, <<"face_debug">>,
                             <<"face_debug", "face", "emotion">>} :
               Continue(cur, outputs, "nothing")
      BY <1>3 DEF Infer
    <2>2. PICK outputs \in {<<>>, <<"face">>, <<"face_debug">>,
                            <<"face_debug", "face", "emotion">>} :
            Continue(cur, outputs, "nothing")
      BY <2>1
    <2>3. \A k \in 1 .. Len(outputs) :
            outputs[k] \in {"face", "face_debug", "emotion"}
      OBVIOUS
    <2>4. \A item \in {"face", "face_debug", "emotion"} :
            Yields(item) \subseteq Yields("infer")
      BY YieldsOf DEF Kinds
    <2>5. outputs \in Outputs  BY DEF Outputs
    <2> QED  BY <2>1, <2>2, <2>3, <2>4, <2>5, OutputsNew
  <1>4. CASE Transcribe
    <2>1. /\ pc = "work" /\ plan = <<"asr">> /\ record' = record
          /\ \/ pc' # "work"
             \/ \E outputs \in {<<>>, <<"text">>} :
                  Continue(cur, outputs, "nothing")
      BY <1>4 DEF Transcribe, Raise, Leave
    <2>2. SUFFICES ASSUME NEW outputs \in {<<>>, <<"text">>},
                          Continue(cur, outputs, "nothing")
                   PROVE  AllNew'
      BY <1>2, <2>1
    <2>3. \A k \in 1 .. Len(outputs) : outputs[k] = "text"  OBVIOUS
    <2>4. Yields("text") \subseteq Yields("asr")  BY YieldsOf DEF Kinds
    <2>5. outputs \in Outputs  BY DEF Outputs
    <2> QED  BY <2>1, <2>2, <2>3, <2>4, <2>5, OutputsNew
  <1>5. CASE Next
    <2>1. ASSUME NEW s \in Sessions, Post(s)  PROVE AllNew'
      BY <1>1, <2>1 DEF Post
    <2>2. ASSUME NEW c \in Conns, Tick(c) \/ SendReport(c)  PROVE AllNew'
      BY <1>1, <2>2 DEF Tick, SendReport
    <2>3. CASE Drop \/ TokenExpires \/ ConnectFails \/ ReaderEnds
      BY <1>1, <2>3 DEF Drop, TokenExpires, ConnectFails, ReaderEnds
    <2>4. CASE Connect \/ TakeEOF \/ Interrupt \/ CloseFails \/ Close \/ Gathered
      BY <1>2, <2>4
      DEF Connect, TakeEOF, Interrupt, CloseFails, Close, Gathered, Leave
    <2> QED
      BY <1>3, <1>4, <1>5, <2>1, <2>2, <2>3, <2>4, HandleNew, SendNew, PushNew
      DEF Next, Run, MainStep
  <1>6. CASE UNCHANGED vars  BY <1>1, <1>6 DEF vars
  <1> QED  BY <1>5, <1>6

\* So the rows of a record are distinct.
LEMMA NextDistinct ==
    Typed /\ AllNew /\ Distinct /\ [Next]_vars => Distinct'
  <1> SUFFICES ASSUME Typed, AllNew, Distinct, [Next]_vars  PROVE Distinct'
    OBVIOUS
  <1>1. CASE UNCHANGED record  BY <1>1 DEF Distinct, AllDistinct
  <1>2. CASE PushAnalysis
    <2> SUFFICES ASSUME NEW s \in Sessions  PROVE AllDistinct(record'[s])
      BY DEF Distinct, AllDistinct
    <2> DEFINE row == [n |-> cur.n, kind |-> sent]
    <2>1. /\ cur.sid \in Sessions
          /\ record' = [record EXCEPT ![cur.sid] = Append(@, row)]
          /\ \A i \in 1 .. Len(record[cur.sid]) : record[cur.sid][i] # row
      BY <1>2, PushRecords DEF AllNew, Unrecorded, PushAnalysis
    <2> HIDE DEF row
    <2>2. record[s] \in Seq(Rows) /\ AllDistinct(record[s])
      BY DEF Typed, StoreTyped, Distinct
    <2>3. CASE s = cur.sid
      <3>1. record'[s] = Append(record[s], row)
        BY <2>1, <2>3 DEF Typed, StoreTyped
      <3>2. ASSUME NEW i \in 1 .. Len(record'[s])
            PROVE  \/ /\ i \in 1 .. Len(record[s])
                      /\ record'[s][i] = record[s][i] /\ record'[s][i] # row
                   \/ i = Len(record[s]) + 1 /\ record'[s][i] = row
        BY <2>1, <2>2, <2>3, <3>1
      <3> QED  BY <2>2, <3>2 DEF AllDistinct
    <2>4. CASE s # cur.sid
      <3>1. record'[s] = record[s]  BY <2>1, <2>4 DEF Typed, StoreTyped
      <3> QED  BY <2>2, <3>1
    <2> QED  BY <2>3, <2>4
  <1> USE DEF history
  <1>3. CASE Next
    <2>1. ASSUME NEW s \in Sessions, Post(s)  PROVE Distinct'
      BY <1>1, <2>1 DEF Post
    <2>2. ASSUME NEW c \in Conns, Tick(c) \/ SendReport(c)  PROVE Distinct'
      BY <1>1, <2>2 DEF Tick, SendReport
    <2>3. CASE Drop \/ TokenExpires \/ Connect \/ ConnectFails \/ ReaderEnds
      BY <1>1, <2>3 DEF Drop, TokenExpires, Connect, ConnectFails, ReaderEnds
    <2>4. CASE TakeEOF \/ Handle \/ Infer \/ Transcribe \/ SendAnalysis
      BY <1>1, <2>4 DEF TakeEOF, Handle, Infer, Transcribe, SendAnalysis
    <2>5. CASE Interrupt \/ CloseFails \/ Close \/ Gathered
      BY <1>1, <2>5 DEF Interrupt, CloseFails, Close, Gathered
    <2> QED
      BY <1>2, <1>3, <2>1, <2>2, <2>3, <2>4, <2>5 DEF Next, Run, MainStep
  <1>4. CASE UNCHANGED vars  BY <1>1, <1>4 DEF vars
  <1> QED  BY <1>3, <1>4
-----------------------------------------------------------------------------
(* What has been sent and not recorded.                                    *)

LEMMA NextInferFirst == Typed /\ InferFirst /\ [Next]_vars => InferFirst'
  <1> SUFFICES ASSUME Typed, InferFirst, [Next]_vars  PROVE InferFirst'
    OBVIOUS
  <1>1. CASE UNCHANGED task  BY <1>1 DEF task, InferFirst
  <1>2. CASE pc' # "work"  BY <1>2 DEF InferFirst
  <1>3. ASSUME NEW items \in Begun \cup Outputs, plan' = items, sent' = "nothing"
        PROVE  InferFirst'
    <2>1. \A k \in 1 .. Len(items) : items[k] = "infer" => k = 1
      BY DEF Begun, Outputs
    <2> QED  BY <1>3, <2>1 DEF InferFirst
  <1> USE DEF history
  <1>4. CASE Handle
    <2>1. \/ plan' = Plan(Head(queue)) /\ sent' = "nothing"
          \/ pc' # "work"
      BY <1>4 DEF Handle, Continue, Raise, Leave
    <2> QED  BY <1>2, <1>3, <2>1, PlanBegun
  <1>5. CASE Infer \/ Transcribe
    <2>1. \/ sent' = "nothing" /\ plan' \in Outputs
          \/ pc' # "work"
      BY <1>5 DEF Infer, Transcribe, Continue, Raise, Leave, Outputs
    <2> QED  BY <1>2, <1>3, <2>1
  <1>6. CASE SendAnalysis
    <2>1. /\ pc = "work" /\ plan # <<>>
          /\ \/ pc' # "work"
             \/ plan' = <<>> /\ sent' = "nothing"
             \/ plan' = Tail(plan)
      BY <1>6 DEF SendAnalysis, Continue, Leave
    <2>2. CASE plan' = Tail(plan)
      <3>1. /\ plan \in Seq(PlanItems) /\ Len(plan) \in Nat
            /\ Len(plan') = Len(plan) - 1
            /\ \A k \in 1 .. Len(plan) - 1 : plan'[k] = plan[k + 1]
        BY <2>1, <2>2, EmptySeq DEF Typed, TaskTyped
      <3>2. ASSUME NEW k \in 1 .. Len(plan')  PROVE plan'[k] # "infer"
        <4>1. k + 1 \in 1 .. Len(plan) /\ k + 1 # 1 /\ plan'[k] = plan[k + 1]
          BY <3>1
        <4> QED  BY <2>1, <4>1 DEF InferFirst
      <3> QED  BY <3>2 DEF InferFirst
    <2>3. CASE plan' = <<>> /\ sent' = "nothing"
      BY <1>3, <2>3 DEF Outputs
    <2> QED  BY <1>2, <2>1, <2>2, <2>3
  <1>7. CASE PushAnalysis
    <2>1. pc = "work" /\ plan' = plan /\ sent' = "nothing"
      BY <1>7 DEF PushAnalysis, Continue
    <2> QED  BY <2>1 DEF InferFirst
  <1>8. CASE Next
    <2>1. ASSUME NEW s \in Sessions, Post(s)  PROVE InferFirst'
      BY <1>1, <2>1 DEF Post
    <2>2. ASSUME NEW c \in Conns, Tick(c) \/ SendReport(c)  PROVE InferFirst'
      BY <1>1, <2>2 DEF Tick, SendReport
    <2>3. CASE Drop \/ TokenExpires \/ ConnectFails \/ ReaderEnds
      BY <1>1, <2>3 DEF Drop, TokenExpires, ConnectFails, ReaderEnds
    <2>4. CASE Connect \/ TakeEOF \/ Interrupt \/ CloseFails \/ Close \/ Gathered
      BY <1>2, <2>4
      DEF Connect, TakeEOF, Interrupt, CloseFails, Close, Gathered, Leave
    <2> QED
      BY <1>4, <1>5, <1>6, <1>7, <1>8, <2>1, <2>2, <2>3, <2>4
      DEF Next, Run, MainStep
  <1>9. CASE UNCHANGED vars  BY <1>1, <1>9 DEF vars
  <1> QED  BY <1>8, <1>9

LEMMA NextPending == Typed /\ InferFirst /\ Pending /\ [Next]_vars => Pending'
  <1> SUFFICES ASSUME Typed, InferFirst, Pending, [Next]_vars  PROVE Pending'
    OBVIOUS
  <1> DEFINE nothing == [s \in Sessions |-> NoFact]
  <1>1. pc # "work" \/ sent = "nothing" => told = nothing
    BY DEF Pending, InHand
  <1>2. CASE (pc' # "work" \/ sent' = "nothing") /\ told' = nothing
    BY <1>2 DEF Pending, InHand
  <1> HIDE DEF nothing
  <1>3. CASE UNCHANGED <<task, told>>
    BY <1>3 DEF task, Pending, InHand
  <1> USE DEF history
  <1>4. CASE SendAnalysis
    <2>1. pc = "work" /\ sent = "nothing" /\ told = nothing
      BY <1>1, <1>4 DEF SendAnalysis
    <2>2. \/ Leave("raised") /\ told' = told
          \/ Continue(cur, <<>>, "nothing") /\ told' = told
          \/ Continue(cur, Tail(plan), "nothing") /\ told' = told
          \/ /\ Continue(cur, Tail(plan), Head(plan)) /\ Head(plan) # "nothing"
             /\ told' = [told EXCEPT ![cur.sid] =
                           [n |-> cur.n, kind |-> Head(plan)]]
      <3>1. plan # <<>> => Head(plan) # "nothing"
        BY EmptySeq, HeadTailProperties DEF Typed, TaskTyped, PlanItems, Kinds
      <3> QED  BY <1>4, <3>1 DEF SendAnalysis
    <2>3. CASE told' = told /\ sent' = "nothing"
      BY <1>2, <2>1, <2>3
    <2>4. CASE /\ Continue(cur, Tail(plan), Head(plan)) /\ Head(plan) # "nothing"
               /\ told' = [told EXCEPT ![cur.sid] =
                             [n |-> cur.n, kind |-> Head(plan)]]
      <3>1. pc' = "work" /\ cur' = cur /\ sent' = Head(plan)
        BY <2>4 DEF Continue
      <3>2. told' = [s \in Sessions |->
                       IF s = cur.sid THEN [n |-> cur.n, kind |-> Head(plan)]
                                      ELSE NoFact]
        BY <2>1, <2>4 DEF nothing
      <3> QED  BY <2>4, <3>1, <3>2 DEF Pending, InHand
    <2> QED  BY <2>2, <2>3, <2>4 DEF Leave, Continue
  <1>5. CASE PushAnalysis
    <2>1. /\ told' = [told EXCEPT ![cur.sid] = NoFact] /\ sent' = "nothing"
          /\ pc = "work" /\ sent # "nothing"
      BY <1>5 DEF PushAnalysis, Continue
    <2>2. told' = nothing  BY <2>1 DEF Pending, InHand, nothing
    <2> QED  BY <1>2, <2>1, <2>2
  <1>6. CASE Interrupt
    <2>1. CASE pc \in {"take", "work"}
      BY <1>2, <1>6, <2>1 DEF Interrupt, Leave, nothing
    <2>2. CASE pc = "dial"
      BY <1>1, <1>2, <1>6, <2>2 DEF Interrupt
    <2> QED  BY <1>6, <2>1, <2>2 DEF Interrupt
  <1>7. CASE Infer \/ Transcribe
    <2>1. /\ pc = "work" /\ told' = told
          /\ sent' = "nothing" \/ pc' # "work"
          /\ plan = <<"infer">> \/ sent = "nothing"
      BY <1>7 DEF Infer, Transcribe, Continue, Raise, Leave
    <2>2. plan = <<"infer">> => 1 \in 1 .. Len(plan) /\ plan[1] = "infer"
      OBVIOUS
    <2>3. sent = "nothing"  BY <2>1, <2>2 DEF InferFirst
    <2> QED  BY <1>1, <1>2, <2>1, <2>3
  <1>8. CASE Next
    <2>1. ASSUME NEW s \in Sessions, Post(s)  PROVE Pending'
      BY <1>3, <2>1 DEF Post
    <2>2. ASSUME NEW c \in Conns, Tick(c) \/ SendReport(c)  PROVE Pending'
      BY <1>3, <2>2 DEF Tick, SendReport, task
    <2>3. CASE Drop \/ TokenExpires \/ ConnectFails \/ ReaderEnds
      BY <1>3, <2>3 DEF Drop, TokenExpires, ConnectFails, ReaderEnds
    <2>4. CASE Connect \/ TakeEOF \/ CloseFails \/ Close \/ Gathered
      BY <1>1, <1>2, <2>4
      DEF Connect, TakeEOF, CloseFails, Close, Gathered, Leave
    <2>5. CASE Handle
      BY <1>1, <1>2, <2>5 DEF Handle, Raise, Leave, Continue
    <2> QED
      BY <1>4, <1>5, <1>6, <1>7, <1>8, <2>1, <2>2, <2>3, <2>4, <2>5
      DEF Next, Run, MainStep
  <1>9. CASE UNCHANGED vars  BY <1>3, <1>9 DEF vars
  <1> QED  BY <1>8, <1>9
-----------------------------------------------------------------------------
(* What reports show.                                                      *)

Moments ==
    \A s \in Sessions : \E k \in 0 .. Len(record[s]) :
        report[s].rows = Feed!Window(record[s], k)

LEMMA RecordLengths ==
    ASSUME Typed, NEW s \in Sessions
    PROVE  /\ record[s] \in Seq(Rows) /\ Len(record[s]) \in Nat
           /\ Len(record[s]) \in 0 .. Len(record[s])
  BY DEF Typed, StoreTyped

\* A loop that turns to a room reads the latest moment of its record.
LEMMA ServeShows ==
    ASSUME Typed, Recorded, conn \in Conns, NEW rooms \in SUBSET Sessions,
           NEW final \in BOOLEAN, NEW now \in [Metrics -> Nat],
           Serve(conn, rooms, final, now), Moments',
           UNCHANGED <<record, conn>>
    PROVE  Shows'
  <1> SUFFICES ASSUME NEW s \in Sessions
               PROVE  \E k \in 0 .. Len(record'[s]) : ShowsFrom(s, k)'
    BY DEF Shows
  <1>1. PICK k \in 0 .. Len(record[s]) :
          report'[s].rows = Feed!Window(record[s], k)
    BY DEF Moments, Feed!Window
  <1>2. loop \in [Conns -> LoopState]  BY DEF Typed, LoopsTyped
  <1>3. CASE \E r \in rooms : Enabled(r, "report")
    <2>1. /\ FirstOn(rooms) \in rooms
          /\ loop'[conn] = Sending(FirstOn(rooms), rooms, final, now)
      BY <1>2, <1>3, ServeFirst
    <2>2. /\ loop'[conn].sid = FirstOn(rooms)
          /\ loop'[conn].rows = store[FirstOn(rooms)]
      BY <2>1 DEF Sending
    <2>3. InFlight(s)' => /\ loop'[conn].rows = Feed!Window(record[s], Len(record[s]))
                          /\ Len(record[s]) \in k .. Len(record[s])
      BY <2>2, RecordLengths DEF InFlight, Recorded
    <2> QED  BY <1>1, <2>3 DEF ShowsFrom, Feed!Window
  <1>4. CASE \A r \in rooms : ~Enabled(r, "report")
    <2>1. loop'[conn] = Rested(final)  BY <1>2, <1>4, ServeNone
    <2>2. ~InFlight(s)'  BY <2>1 DEF InFlight, Rested, Nobody
    <2> QED  BY <1>1, <2>2 DEF ShowsFrom, Feed!Window
  <1> QED  BY <1>3, <1>4

\* The report that is delivered is of a moment no older than the last.
LEMMA DeliverShows ==
    ASSUME Typed, Shows, conn \in Conns, loop[conn].pc = "send", Deliver(conn)
    PROVE  \E k \in 0 .. Len(record[loop[conn].sid]) :
             \E m \in k .. Len(record[loop[conn].sid]) :
               /\ loop[conn].sid \in Sessions
               /\ report[loop[conn].sid].rows
                    = Feed!Window(record[loop[conn].sid], k)
               /\ report'[loop[conn].sid].rows
                    = Feed!Window(record[loop[conn].sid], m)
               /\ \A s \in Sessions \ {loop[conn].sid} : report'[s] = report[s]
  <1> DEFINE s == loop[conn].sid
  <1>1. s \in Sessions /\ InFlight(s)
    BY DEF Typed, LoopsTyped, InFlight
  <1>2. PICK k \in 0 .. Len(record[s]) : ShowsFrom(s, k)  BY <1>1 DEF Shows
  <1>3. PICK m \in k .. Len(record[s]) : loop[conn].rows = Feed!Window(record[s], m)
    BY <1>1, <1>2 DEF ShowsFrom
  <1>4. /\ report'[s].rows = loop[conn].rows
        /\ \A r \in Sessions \ {s} : report'[r] = report[r]
    BY <1>1 DEF Deliver, Typed, HistoryTyped
  <1> QED  BY <1>1, <1>2, <1>3, <1>4 DEF ShowsFrom

LEMMA DeliverMoments ==
    ASSUME Typed, Shows, conn \in Conns, UNCHANGED record,
           \/ UNCHANGED report
           \/ loop[conn].pc = "send" /\ Deliver(conn)
    PROVE  Moments'
  <1> SUFFICES ASSUME NEW s \in Sessions
               PROVE  \E k \in 0 .. Len(record[s]) :
                        report'[s].rows = Feed!Window(record[s], k)
    BY DEF Moments, Feed!Window
  <1>1. PICK k \in 0 .. Len(record[s]) : report[s].rows = Feed!Window(record[s], k)
    BY DEF Shows, ShowsFrom
  <1>2. CASE report'[s] = report[s]  BY <1>1, <1>2
  <1>3. CASE loop[conn].pc = "send" /\ Deliver(conn) /\ s = loop[conn].sid
    <2>1. PICK n \in 0 .. Len(record[s]) : \E m \in n .. Len(record[s]) :
            report'[s].rows = Feed!Window(record[s], m)
      BY <1>3, DeliverShows
    <2>2. n .. Len(record[s]) \subseteq 0 .. Len(record[s])  BY RecordLengths
    <2> QED  BY <2>1, <2>2
  <1>4. CASE loop[conn].pc = "send" /\ Deliver(conn) /\ s # loop[conn].sid
    BY <1>2, <1>4, DeliverShows
  <1> QED  BY <1>2, <1>3, <1>4

LEMMA NextShows ==
    Typed /\ Recorded /\ Shows /\ [Next]_vars => Shows'
  <1> SUFFICES ASSUME Typed, Recorded, Shows, [Next]_vars  PROVE Shows'
    OBVIOUS
  <1>1. CASE /\ UNCHANGED <<record, report, conn>>
             /\ conn \in Conns => loop'[conn] = loop[conn]
    <2>1. \A s \in Sessions : \A k : ShowsFrom(s, k) => ShowsFrom(s, k)'
      BY <1>1 DEF ShowsFrom, InFlight, Feed!Window
    <2> QED  BY <1>1, <2>1 DEF Shows
  <1> USE DEF net, task, history
  <1>2. CASE Connect
    <2>1. /\ loop' = [loop EXCEPT ![conn + 1] = [Nobody EXCEPT !.pc = "sleep"]]
          /\ conn' = conn + 1 /\ UNCHANGED <<record, report>>
      BY <1>2 DEF Connect
    <2>2. conn' \in Conns => loop'[conn'].pc = "sleep"
      BY <2>1 DEF Typed, LoopsTyped, Nobody
    <2>3. \A s \in Sessions : ~InFlight(s)'  BY <2>2 DEF InFlight
    <2>4. \A s \in Sessions : \A k : ShowsFrom(s, k) => ShowsFrom(s, k)'
      BY <2>1, <2>3 DEF ShowsFrom, Feed!Window
    <2> QED  BY <2>1, <2>4 DEF Shows
  <1>3. CASE PushAnalysis
    <2> SUFFICES ASSUME NEW s \in Sessions
                 PROVE  \E k \in 0 .. Len(record'[s]) : ShowsFrom(s, k)'
      BY DEF Shows
    <2> DEFINE row == [n |-> cur.n, kind |-> sent]
    <2>1. /\ cur.sid \in Sessions /\ row \in Rows
          /\ record' = [record EXCEPT ![cur.sid] = Append(@, row)]
          /\ UNCHANGED <<report, conn, loop>>
      BY <1>3, PushRecords DEF PushAnalysis
    <2> HIDE DEF row
    <2>2. PICK k \in 0 .. Len(record[s]) : ShowsFrom(s, k)  BY DEF Shows
    <2>3. record[s] \in Seq(Rows) /\ Len(record[s]) \in Nat  BY RecordLengths
    <2>4. /\ Len(record'[s]) >= Len(record[s]) /\ Len(record'[s]) \in Nat
          /\ \A j \in 0 .. Len(record[s]) :
               Feed!Window(record'[s], j) = Feed!Window(record[s], j)
      <3>1. CASE s = cur.sid
        <4>1. record'[s] = Append(record[s], row)
          BY <2>1, <3>1 DEF Typed, StoreTyped
        <4> QED  BY <2>1, <2>3, <4>1, WindowStays
      <3>2. CASE s # cur.sid
        <4>1. record'[s] = record[s]
          BY <2>1, <3>2 DEF Typed, StoreTyped
        <4> QED  BY <2>3, <4>1
      <3> QED  BY <3>1, <3>2
    <2>5. k \in 0 .. Len(record'[s])  BY <2>3, <2>4
    <2>6. report'[s].rows = Feed!Window(record'[s], k)
      BY <2>1, <2>2, <2>4 DEF ShowsFrom
    <2>7. InFlight(s)' => \E m \in k .. Len(record'[s]) :
                            loop'[conn'].rows = Feed!Window(record'[s], m)
      <3> SUFFICES ASSUME InFlight(s)'
                   PROVE  \E m \in k .. Len(record'[s]) :
                            loop'[conn'].rows = Feed!Window(record'[s], m)
        OBVIOUS
      <3>1. InFlight(s)  BY <2>1 DEF InFlight
      <3>2. PICK m \in k .. Len(record[s]) :
              loop[conn].rows = Feed!Window(record[s], m)
        BY <2>2, <3>1 DEF ShowsFrom
      <3>3. m \in 0 .. Len(record[s]) /\ m \in k .. Len(record'[s])
        BY <2>3, <2>4
      <3> QED  BY <2>1, <2>4, <3>2, <3>3
    <2> QED  BY <2>5, <2>6, <2>7 DEF ShowsFrom, Feed!Window
  <1>4. ASSUME NEW c \in Conns, Tick(c)  PROVE Shows'
    <2>1. /\ Serve(c, Targets, FALSE, count) /\ UNCHANGED <<record, report, conn>>
          /\ Targets \in SUBSET Sessions /\ count \in [Metrics -> Nat]
      BY <1>4, TargetsAreRooms DEF Tick, Typed, CountTyped
    <2>2. CASE c = conn
      <3>1. Moments'  BY <2>1, <2>2, DeliverMoments
      <3> QED  BY <2>1, <2>2, <3>1, ServeShows
    <2>3. CASE c # conn
      <3>1. \A d \in Conns : d # c => loop'[d] = loop[d]
        BY <2>1, ServeTyped DEF Typed, CountTyped
      <3> QED  BY <1>1, <2>1, <2>3, <3>1
    <2> QED  BY <2>2, <2>3
  <1>5. ASSUME NEW c \in Conns, SendReport(c)  PROVE Shows'
    <2>1. /\ Serve(c, loop[c].todo, loop[c].final, count')
          /\ UNCHANGED <<record, conn>>
          /\ loop[c].todo \in SUBSET Sessions /\ loop[c].final \in BOOLEAN
          /\ \/ c = conn /\ loop[c].pc = "send" /\ Deliver(c)
             \/ UNCHANGED report
      BY <1>5 DEF SendReport, Holds, Typed, LoopsTyped, LoopState
    <2>2. count' \in [Metrics -> Nat] /\ Counted(prev, count')
      BY <1>5, RaisedTyped DEF SendReport, Typed, CountTyped, Metrics
    <2>3. CASE c = conn
      <3>1. Moments'  BY <2>1, <2>3, DeliverMoments
      <3> QED  BY <2>1, <2>2, <2>3, <3>1, ServeShows
    <2>4. CASE c # conn
      <3>1. \A d \in Conns : d # c => loop'[d] = loop[d]
        BY <2>1, <2>2, ServeTyped DEF Typed
      <3> QED  BY <1>1, <2>1, <2>4, <3>1
    <2> QED  BY <2>3, <2>4
  <1>6. CASE Close
    <2>1. /\ Serve(conn, Targets, TRUE, count) /\ UNCHANGED <<record, conn>>
          /\ \/ UNCHANGED report
             \/ loop[conn].pc = "send" /\ Deliver(conn)
          /\ conn \in Conns
      <3>1. conn \in Conns
        BY <1>6, BoundsNatural DEF Close, Typed, NetTyped, Conns
      <3> QED  BY <1>6, <3>1 DEF Close, CancelLoop
    <2>2. Targets \in SUBSET Sessions /\ count \in [Metrics -> Nat]
      BY TargetsAreRooms DEF Typed, CountTyped
    <2>3. Moments'  BY <2>1, DeliverMoments
    <2> QED  BY <2>1, <2>2, <2>3, ServeShows
  <1>7. CASE Next
    <2>1. ASSUME NEW s \in Sessions, Post(s)  PROVE Shows'
      BY <1>1, <2>1 DEF Post
    <2>2. CASE Drop \/ TokenExpires \/ ConnectFails \/ ReaderEnds
      BY <1>1, <2>2 DEF Drop, TokenExpires, ConnectFails, ReaderEnds
    <2>3. CASE TakeEOF \/ Handle \/ Infer \/ Transcribe \/ SendAnalysis
      BY <1>1, <2>3 DEF TakeEOF, Handle, Infer, Transcribe, SendAnalysis
    <2>4. CASE Interrupt \/ CloseFails \/ Gathered
      BY <1>1, <2>4 DEF Interrupt, CloseFails, Gathered
    <2> QED
      BY <1>2, <1>3, <1>4, <1>5, <1>6, <1>7, <2>1, <2>2, <2>3, <2>4
      DEF Next, Run, MainStep
  <1>8. CASE UNCHANGED vars  BY <1>1, <1>8 DEF vars
  <1> QED  BY <1>7, <1>8
-----------------------------------------------------------------------------
(* The refinement.                                                         *)

LEMMA InitFeed == Init => FeedIInv
  <1> SUFFICES ASSUME Init  PROVE FeedIInv
    OBVIOUS
  <1>1. ASSUME NEW s \in Sessions  PROVE record[s] = <<>> /\ Len(record[s]) = 0
    BY DEF Init
  <1>2. Recorded
    <2> SUFFICES ASSUME NEW s \in Sessions
                 PROVE  store[s] = Feed!Window(record[s], Len(record[s]))
      BY DEF Recorded, Feed!Window
    <2>1. <<>> \in Seq(Rows) /\ 0 \in 0 .. Len(<<>>)  OBVIOUS
    <2>2. Feed!Window(<<>>, 0) = <<>>  BY <2>1, WindowEnd
    <2> QED  BY <1>1, <2>2 DEF Init
  <1>3. InOrder
    <2>1. posted = 0 /\ pc # "work" /\ Len(queue) = 0  BY DEF Init
    <2>2. InOrderFrom(0)  BY <1>1, <2>1 DEF InOrderFrom
    <2> QED  BY <2>1, <2>2 DEF InOrder
  <1>4. AllNew /\ InferFirst /\ Pending
    BY DEF Init, AllNew, InferFirst, Pending, InHand
  <1>5. Distinct  BY <1>1 DEF Distinct, AllDistinct
  <1>6. Shows
    <2> SUFFICES ASSUME NEW s \in Sessions
                 PROVE  \E k \in 0 .. Len(record[s]) : ShowsFrom(s, k)
      BY DEF Shows
    <2>1. report[s].rows = store[s]  BY DEF Init, NoReport
    <2>2. report[s].rows = Feed!Window(record[s], 0)
      BY <1>1, <1>2, <2>1 DEF Recorded
    <2>3. ~InFlight(s)  BY DEF Init, InFlight, Nobody
    <2> QED  BY <1>1, <2>2, <2>3 DEF ShowsFrom
  <1> QED  BY <1>2, <1>3, <1>4, <1>5, <1>6 DEF FeedIInv

LEMMA NextFeed == Typed /\ FeedIInv /\ [Next]_vars => FeedIInv'
  BY NextRecorded, NextInOrder, NextAllNew, NextDistinct, NextInferFirst,
     NextPending, NextShows DEF FeedIInv

\* How much of a record a report was made from, as Gateway maps it.
ShownOf(rows, all) ==
    IF rows = <<>> THEN 0
    ELSE CHOOSE k \in DOMAIN all : all[k] = rows[Len(rows)]

LEMMA ShownIs ==
    ASSUME NEW all \in Seq(Rows), AllDistinct(all), NEW k \in 0 .. Len(all),
           NEW rows, rows = Feed!Window(all, k)
    PROVE  ShownOf(rows, all) = k
  <1>1. CASE k = 0  BY <1>1, WindowEnd DEF ShownOf
  <1>2. CASE k # 0
    <2>1. rows # <<>> /\ rows[Len(rows)] = all[k]  BY <1>2, WindowEnd
    <2>2. k \in DOMAIN all /\ DOMAIN all = 1 .. Len(all)  BY <1>2
    <2>3. \A j \in DOMAIN all : all[j] = all[k] => j = k
      BY <2>2 DEF AllDistinct
    <2> QED  BY <2>1, <2>2, <2>3 DEF ShownOf
  <1> QED  BY <1>1, <1>2

FeedShown == [s \in Sessions |-> ShownOf(report[s].rows, record[s])]
FeedBody  == [s \in Sessions |-> report[s].rows]

LEMMA InitMaps == Init => Feed!Init
  <1> SUFFICES ASSUME Init  PROVE Feed!Init
    OBVIOUS
  <1>1. \A s \in Sessions : report[s].rows = <<>>  BY DEF Init, NoReport
  <1>2. told = [s \in Sessions |-> NoFact] /\ record = [s \in Sessions |-> <<>>]
    BY DEF Init
  <1> QED  BY <1>1, <1>2 DEF Feed!Init

\* Rows are recorded under a report that is out: it shows the same moment.
LEMMA PushMaps ==
    ASSUME Typed, FeedIInv, FeedIInv', PushAnalysis
    PROVE  Feed!Record(cur.sid) /\ cur.sid \in Sessions
  <1> DEFINE row == [n |-> cur.n, kind |-> sent]
  <1>1. /\ pc = "work" /\ sent \in Kinds /\ cur.sid \in Sessions /\ row \in Rows
        /\ record' = [record EXCEPT ![cur.sid] = Append(@, row)]
        /\ told' = [told EXCEPT ![cur.sid] = NoFact] /\ report' = report
    BY PushRecords DEF PushAnalysis
  <1>2. told[cur.sid] = row /\ row # NoFact
    BY <1>1 DEF FeedIInv, Pending, InHand, Kinds, NoFact
  <1> HIDE DEF row
  <1>3. ASSUME NEW s \in Sessions
        PROVE  ShownOf(report'[s].rows, record'[s]) = ShownOf(report[s].rows, record[s])
    <2>1. record[s] \in Seq(Rows) /\ Len(record[s]) \in Nat  BY RecordLengths
    <2>2. PICK k \in 0 .. Len(record[s]) :
            report[s].rows = Feed!Window(record[s], k)
      BY DEF FeedIInv, Shows, ShowsFrom
    <2>3. CASE s = cur.sid
      <3>1. record'[s] = Append(record[s], row)
        BY <1>1, <2>3 DEF Typed, StoreTyped
      <3>2. /\ record'[s] \in Seq(Rows) /\ k \in 0 .. Len(record'[s])
            /\ report'[s].rows = Feed!Window(record'[s], k)
        BY <1>1, <2>1, <2>2, <3>1, WindowStays
      <3>3. AllDistinct(record[s]) /\ AllDistinct(record'[s])
        BY DEF FeedIInv, Distinct, AllDistinct
      <3>4. ShownOf(report[s].rows, record[s]) = k
        BY <2>1, <2>2, <3>3, ShownIs
      <3>5. ShownOf(report'[s].rows, record'[s]) = k
        BY <3>2, <3>3, ShownIs
      <3> QED  BY <3>4, <3>5
    <2>4. CASE s # cur.sid
      <3>1. record'[s] = record[s]  BY <1>1, <2>4 DEF Typed, StoreTyped
      <3> QED  BY <1>1, <3>1
    <2> QED  BY <2>3, <2>4
  <1>4. FeedShown' = FeedShown /\ FeedBody' = FeedBody
    BY <1>1, <1>3 DEF FeedShown, FeedBody
  <1> QED
    BY <1>1, <1>2, <1>4 DEF Feed!Record, FeedShown, FeedBody, ShownOf, LastRow

\* A report is delivered.
LEMMA DeliverMaps ==
    ASSUME Typed, FeedIInv, conn \in Conns, loop[conn].pc = "send",
           Deliver(conn), UNCHANGED <<told, record>>
    PROVE  \E s \in Sessions : Feed!Publish(s)
  <1>0. PICK s : s = loop[conn].sid  OBVIOUS
  <1>1. PICK k \in 0 .. Len(record[s]) : \E m \in k .. Len(record[s]) :
               /\ s \in Sessions
               /\ report[s].rows = Feed!Window(record[s], k)
               /\ report'[s].rows = Feed!Window(record[s], m)
               /\ \A r \in Sessions \ {s} : report'[r] = report[r]
    BY <1>0, DeliverShows DEF FeedIInv
  <1>2. PICK m \in k .. Len(record[s]) :
               /\ s \in Sessions
               /\ report[s].rows = Feed!Window(record[s], k)
               /\ report'[s].rows = Feed!Window(record[s], m)
               /\ \A r \in Sessions \ {s} : report'[r] = report[r]
    BY <1>1
  <1>3. /\ record[s] \in Seq(Rows) /\ AllDistinct(record[s])
        /\ m \in 0 .. Len(record[s])
    BY <1>2, RecordLengths DEF FeedIInv, Distinct
  <1>4. ShownOf(report[s].rows, record[s]) = k
    BY <1>2, <1>3, ShownIs
  <1>5. ShownOf(report'[s].rows, record[s]) = m
    BY <1>2, <1>3, ShownIs
  <1>6. FeedShown' = [FeedShown EXCEPT ![s] = m]
    BY <1>2, <1>5 DEF FeedShown
  <1>7. FeedBody' = [FeedBody EXCEPT ![s] = Feed!Window(record[s], m)]
    BY <1>2 DEF FeedBody
  <1>8. m \in FeedShown[s] .. Len(record[s])  BY <1>2, <1>4 DEF FeedShown
  <1>9. Feed!Publish(s)
    BY <1>2, <1>6, <1>7, <1>8
    DEF Feed!Publish, FeedShown, FeedBody, ShownOf, LastRow
  <1> QED  BY <1>2, <1>9

\* Nothing the feed sees has changed.
LEMMA StutterMaps ==
    ASSUME UNCHANGED <<told, record, report>>
    PROVE  UNCHANGED Feed!feedVars
  BY DEF Feed!feedVars, LastRow

\* An analysis is sent: it is of the message at hand, the last so far.
LEMMA SendMaps ==
    ASSUME Typed, FeedIInv, SendAnalysis
    PROVE  \/ UNCHANGED <<told, record, report>>
           \/ cur.sid \in Sessions /\ Feed!Announce(cur.sid)
  <1>1. /\ pc = "work" /\ sent = "nothing" /\ UNCHANGED <<record, report>>
        /\ \/ UNCHANGED told
           \/ /\ plan # <<>> /\ Head(plan) \notin {"infer", "asr", "emotion"}
              /\ told' = [told EXCEPT ![cur.sid] =
                            [n |-> cur.n, kind |-> Head(plan)]]
    BY DEF SendAnalysis
  <1> SUFFICES ASSUME plan # <<>>, Head(plan) \notin {"infer", "asr", "emotion"},
                      told' = [told EXCEPT ![cur.sid] =
                                 [n |-> cur.n, kind |-> Head(plan)]]
               PROVE  cur.sid \in Sessions /\ Feed!Announce(cur.sid)
    BY <1>1
  <1> DEFINE row == [n |-> cur.n, kind |-> Head(plan)]
  <1>2. cur.sid \in Sessions /\ cur.n \in 1 .. MaxMsgs /\ plan \in Seq(PlanItems)
    BY <1>1, WorkTyped
  <1>3. row \in Rows
    <2>1. Head(plan) \in PlanItems  BY <1>2, EmptySeq, HeadTailProperties
    <2> QED  BY <1>2, <2>1 DEF PlanItems, Rows
  <1>4. told[cur.sid] = NoFact
    BY <1>1, <1>2 DEF FeedIInv, Pending, InHand
  <1>5. record[cur.sid] # <<>> => record[cur.sid][Len(record[cur.sid])].n <= row.n
    <2>1. PICK last \in 0 .. posted : InOrderFrom(last)
      BY DEF FeedIInv, InOrder
    <2>2. record[cur.sid] \in Seq(Rows)  BY <1>2, RecordLengths
    <2>3. record[cur.sid] # <<>> =>
            Len(record[cur.sid]) \in 1 .. Len(record[cur.sid])
      BY <2>2, EmptySeq
    <2> QED  BY <1>1, <1>2, <2>1, <2>3 DEF InOrderFrom
  <1> HIDE DEF row
  <1>6. /\ told' = [told EXCEPT ![cur.sid] = row]
        /\ FeedShown' = FeedShown /\ FeedBody' = FeedBody
    BY <1>1 DEF row, FeedShown, FeedBody
  <1> QED
    BY <1>1, <1>2, <1>3, <1>4, <1>5, <1>6
    DEF Feed!Announce, FeedShown, FeedBody, ShownOf, LastRow

\* The main task is cancelled, perhaps between the sending and the store.
LEMMA InterruptMaps ==
    ASSUME Typed, FeedIInv, Interrupt
    PROVE  \/ UNCHANGED <<told, record, report>>
           \/ cur.sid \in Sessions /\ Feed!Forget(cur.sid)
  <1>1. /\ UNCHANGED <<record, report>>
        /\ UNCHANGED told \/ told' = [s \in Sessions |-> NoFact]
    BY DEF Interrupt
  <1>2. ASSUME told' = [s \in Sessions |-> NoFact]
        PROVE  \/ told' = told
               \/ /\ cur.sid \in Sessions
                  /\ told' = [told EXCEPT ![cur.sid] = NoFact]
    <2>1. CASE pc = "work"
      <3>1. cur.sid \in Sessions  BY <2>1, WorkTyped
      <3> QED  BY <1>2, <3>1 DEF FeedIInv, Pending, InHand
    <2>2. CASE pc # "work"
      BY <1>2, <2>2 DEF FeedIInv, Pending, InHand
    <2> QED  BY <2>1, <2>2
  <1>3. FeedShown' = FeedShown /\ FeedBody' = FeedBody
    BY <1>1 DEF FeedShown, FeedBody
  <1> QED
    BY <1>1, <1>2, <1>3
    DEF Feed!Forget, FeedShown, FeedBody, ShownOf, LastRow

LEMMA NextMaps ==
    Typed /\ FeedIInv /\ FeedIInv' /\ [Next]_vars => [Feed!Next]_(Feed!feedVars)
  <1> SUFFICES ASSUME Typed, FeedIInv, FeedIInv', [Next]_vars
               PROVE  Feed!Next \/ UNCHANGED Feed!feedVars
    OBVIOUS
  <1>1. CASE UNCHANGED <<told, record, report>>  BY <1>1, StutterMaps
  <1> USE DEF history
  <1>2. CASE PushAnalysis  BY <1>2, PushMaps DEF Feed!Next
  <1>3. CASE SendAnalysis  BY <1>1, <1>3, SendMaps DEF Feed!Next
  <1>4. CASE Interrupt  BY <1>1, <1>4, InterruptMaps DEF Feed!Next
  <1>5. ASSUME NEW c \in Conns, SendReport(c)
        PROVE  Feed!Next \/ UNCHANGED Feed!feedVars
    <2>1. \/ UNCHANGED <<told, record, report>>
          \/ /\ c = conn /\ loop[c].pc = "send" /\ Deliver(c)
             /\ UNCHANGED <<told, record>>
      BY <1>5 DEF SendReport, Holds
    <2>2. CASE /\ c = conn /\ loop[c].pc = "send" /\ Deliver(c)
               /\ UNCHANGED <<told, record>>
      <3>1. \E s \in Sessions : Feed!Publish(s)  BY <2>2, DeliverMaps
      <3> QED  BY <3>1 DEF Feed!Next
    <2> QED  BY <1>1, <2>1, <2>2
  <1>6. CASE Close
    <2>1. \/ UNCHANGED <<told, record, report>>
          \/ /\ loop[conn].pc = "send" /\ Deliver(conn)
             /\ UNCHANGED <<told, record>>
      BY <1>6 DEF Close, CancelLoop
    <2>2. conn \in Conns
      BY <1>6, BoundsNatural DEF Close, Typed, NetTyped, Conns
    <2>3. CASE /\ loop[conn].pc = "send" /\ Deliver(conn)
               /\ UNCHANGED <<told, record>>
      <3>1. \E s \in Sessions : Feed!Publish(s)  BY <2>2, <2>3, DeliverMaps
      <3> QED  BY <3>1 DEF Feed!Next
    <2> QED  BY <1>1, <2>1, <2>3
  <1>7. CASE Next
    <2>1. ASSUME NEW s \in Sessions, Post(s)
          PROVE  Feed!Next \/ UNCHANGED Feed!feedVars
      BY <1>1, <2>1 DEF Post
    <2>2. ASSUME NEW c \in Conns, Tick(c)
          PROVE  Feed!Next \/ UNCHANGED Feed!feedVars
      BY <1>1, <2>2 DEF Tick
    <2>3. CASE Drop \/ TokenExpires \/ Connect \/ ConnectFails \/ ReaderEnds
      BY <1>1, <2>3 DEF Drop, TokenExpires, Connect, ConnectFails, ReaderEnds
    <2>4. CASE TakeEOF \/ Handle \/ Infer \/ Transcribe
      BY <1>1, <2>4 DEF TakeEOF, Handle, Infer, Transcribe
    <2>5. CASE CloseFails \/ Gathered
      BY <1>1, <2>5 DEF CloseFails, Gathered
    <2> QED
      BY <1>2, <1>3, <1>4, <1>5, <1>6, <1>7, <2>1, <2>2, <2>3, <2>4, <2>5
      DEF Next, Run, MainStep
  <1>8. CASE UNCHANGED vars  BY <1>1, <1>8 DEF vars
  <1> QED  BY <1>7, <1>8

(* FeedIInv is inductive: order of messages, novelty and distinctness of   *)
(* rows, and the moments of the record that reports and loops hold.        *)
THEOREM FeedInvariance == Spec => [](Typed /\ FeedIInv)
  BY InitTyped, InitFeed, NextTyped, NextFeed, PTL DEF Spec

(* report_loop.py, feature_store.py, handlers.py: over all connections,    *)
(* lost and cancelled report loops included, a room is shown in order only *)
(* analyses it was sent first, and never an older moment than before.      *)
THEOREM GatewayImplementsFeed == Spec => ImplementsFeed
  <1>1. Typed /\ FeedIInv /\ [Next]_vars => [Feed!Next]_(Feed!feedVars)
    BY NextMaps, NextFeed
  <1> QED
    BY <1>1, FeedInvariance, InitMaps, PTL DEF Spec, ImplementsFeed, Feed!Spec
=============================================================================
