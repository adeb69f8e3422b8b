-------------------------- MODULE SpeechPathProofs --------------------------
(***************************************************************************)
(* What SpeechPath promises for every length of slices, windows and        *)
(* segments, every breaker and every number of faults.  Four invariants    *)
(* are kept apart: CircuitInv, about calls and the breaker; OrderInv,      *)
(* about the order in which a pool of one thread works; TypeInv, which     *)
(* counts the requests of the pool; and HeardInv, about what the texts of  *)
(* a segment cover so far.  TypeInv uses CircuitInv, HeardInv uses both.   *)
(***************************************************************************)
EXTENDS SpeechPath, SequenceTheorems, FiniteSetTheorems, TLAPS

(* Nobody but the call at hand waits for an answer, and no call is under   *)
(* way while the circuit is open: so it is opened by the failure that ends *)
(* a call, and its age is the time since then.                             *)
Awaited ==
    /\ \A i \in 1 .. Len(jobs) : jobs[i].live => call.pc = "wait"
    /\ \A i, j \in 1 .. Len(jobs) : jobs[i].live /\ jobs[j].live => i = j

Breaker ==
    /\ fails \in Nat /\ open \in Nat /\ streak \in Nat /\ age \in Nat
    /\ fails <= streak
    /\ open > 0 => streak >= Threshold /\ open + age = OpenFor
    /\ call.pc # "idle" => open = 0

CircuitInv ==
    /\ jobs \in Seq(Job) /\ chunk \in Chunk
    /\ Awaited /\ Breaker

(* One thread runs the oldest request.  Once the final chunk of a segment  *)
(* is in the pool only final chunks follow it, so that when it has been    *)
(* transcribed nothing is left that would save a state.                    *)
OneThread == \A i \in 1 .. Len(jobs) : jobs[i].running => i = 1

FinalOfThis(i) == jobs[i].chunk.seg = chunk.seg /\ jobs[i].chunk.final

InOrder ==
    \A i \in 1 .. Len(jobs) :
        /\ jobs[i].chunk.seg <= chunk.seg
        /\ FinalOfThis(i) => chunk.final
        /\ \A j \in 1 .. Len(jobs) :
             i < j /\ FinalOfThis(i) => jobs[j].chunk.final

Tidied ==
    tidy => /\ chunk.final /\ stream = NoState
            /\ \A i \in 1 .. Len(jobs) : jobs[i].chunk.final

OrderInv ==
    /\ jobs \in Seq(Job) /\ chunk \in Chunk /\ tidy \in BOOLEAN
    /\ OneThread /\ InOrder /\ Tidied
-----------------------------------------------------------------------------
(* The pool as a sequence.                                                 *)

\* What is left when a job leaves the pool: the others, in their order.
LEMMA WithoutJob ==
    ASSUME jobs \in Seq(Job), NEW i \in 1 .. Len(jobs)
    PROVE  /\ Without(i) \in Seq(Job) /\ Len(Without(i)) = Len(jobs) - 1
           /\ \A k \in 1 .. Len(Without(i)) :
                Without(i)[k] = IF k < i THEN jobs[k] ELSE jobs[k + 1]
  <1> DEFINE front == SubSeq(jobs, 1, i - 1)
             back  == SubSeq(jobs, i + 1, Len(jobs))
  <1>1. i \in Int /\ Len(jobs) \in Nat /\ 1 <= i /\ i <= Len(jobs)
    BY LenProperties
  <1>2. \A k \in 1 .. Len(jobs) : jobs[k] \in Job  BY ElementOfSeq
  <1>3. /\ front \in Seq(Job) /\ Len(front) = i - 1
        /\ \A k \in 1 .. i - 1 : front[k] = jobs[k]
    <2>1. 1 \in Int /\ i - 1 \in Int /\ \A k \in 1 .. i - 1 : jobs[k] \in Job
      BY <1>1, <1>2
    <2>2. /\ front \in Seq(Job)
          /\ Len(front) = IF 1 <= i - 1 THEN (i - 1) - 1 + 1 ELSE 0
          /\ \A k \in 1 .. (i - 1) - 1 + 1 : front[k] = jobs[1 + k - 1]
      BY <2>1, SubSeqProperties
    <2>3. ASSUME NEW k \in 1 .. i - 1  PROVE front[k] = jobs[k]
      <3>1. k \in 1 .. (i - 1) - 1 + 1 /\ 1 + k - 1 = k  BY <1>1
      <3> HIDE DEF front
      <3> QED  BY <2>2, <3>1
    <2> HIDE DEF front
    <2> QED  BY <1>1, <2>2, <2>3
  <1>4. /\ back \in Seq(Job) /\ Len(back) = Len(jobs) - i
        /\ \A k \in 1 .. Len(jobs) - i : back[k] = jobs[i + k]
    <2>1. i + 1 \in Int /\ Len(jobs) \in Int
          /\ \A k \in i + 1 .. Len(jobs) : jobs[k] \in Job
      BY <1>1, <1>2
    <2>2. /\ back \in Seq(Job)
          /\ Len(back) = IF i + 1 <= Len(jobs) THEN Len(jobs) - (i + 1) + 1 ELSE 0
          /\ \A k \in 1 .. Len(jobs) - (i + 1) + 1 : back[k] = jobs[(i + 1) + k - 1]
      BY <2>1, SubSeqProperties
    <2>3. ASSUME NEW k \in 1 .. Len(jobs) - i  PROVE back[k] = jobs[i + k]
      <3>1. /\ k \in 1 .. Len(jobs) - (i + 1) + 1 /\ (i + 1) + k - 1 = i + k
        BY <1>1
      <3> HIDE DEF back
      <3> QED  BY <2>2, <3>1
    <2> HIDE DEF back
    <2>4. Len(back) = IF i + 1 <= Len(jobs) THEN Len(jobs) - (i + 1) + 1 ELSE 0
      BY <2>2
    <2>5. Len(back) = Len(jobs) - i  BY <1>1, <2>4
    <2> QED  BY <2>2, <2>3, <2>5, Zenon
  <1>5. Without(i) = front \o back  BY DEF Without
  <1> HIDE DEF front, back
  <1>6. /\ Without(i) \in Seq(Job) /\ Len(Without(i)) = Len(front) + Len(back)
        /\ \A k \in 1 .. Len(front) + Len(back) :
             Without(i)[k] = IF k <= Len(front) THEN front[k] ELSE back[k - Len(front)]
    <2>1. front \in Seq(Job) /\ back \in Seq(Job)  BY <1>3, <1>4
    <2> QED  BY <2>1, <1>5, ConcatProperties
  <1>7. Len(front) = i - 1 /\ Len(back) = Len(jobs) - i  BY <1>3, <1>4
  <1>8. (i - 1) + (Len(jobs) - i) = Len(jobs) - 1  BY <1>1
  <1>9. Len(Without(i)) = Len(jobs) - 1
    <2>1. Len(Without(i)) = Len(front) + Len(back)  BY <1>6
    <2> QED  BY <2>1, <1>7, <1>8
  <1>10. ASSUME NEW k \in 1 .. Len(Without(i))
         PROVE  Without(i)[k] = IF k < i THEN jobs[k] ELSE jobs[k + 1]
    <2>1. k \in Int /\ 1 <= k /\ k <= Len(jobs) - 1  BY <1>1, <1>9
    <2>2. Without(i)[k] = IF k <= Len(front) THEN front[k] ELSE back[k - Len(front)]
      BY <1>6
    <2>3. CASE k < i
      <3>1. k \in 1 .. i - 1 /\ k <= i - 1  BY <1>1, <2>1, <2>3
      <3>2. Without(i)[k] = front[k]  BY <1>7, <2>2, <3>1
      <3> QED  BY <1>3, <2>3, <3>1, <3>2
    <2>4. CASE ~(k < i)
      <3>1. /\ k - (i - 1) \in 1 .. Len(jobs) - i /\ ~(k <= i - 1)
            /\ i + (k - (i - 1)) = k + 1
        BY <1>1, <2>1, <2>4
      <3>2. Without(i)[k] = back[k - (i - 1)]  BY <1>7, <2>2, <3>1
      <3>3. back[k - (i - 1)] = jobs[i + (k - (i - 1))]  BY <1>4, <3>1
      <3> QED  BY <2>4, <3>1, <3>2, <3>3
    <2> QED  BY <2>3, <2>4
  <1> QED  BY <1>6, <1>9, <1>10

\* A change of flags keeps the pool a sequence of jobs.
LEMMA GivenUp ==
    ASSUME jobs \in Seq(Job), NEW pool, pool = Unawaited
    PROVE  /\ pool \in Seq(Job) /\ Len(pool) = Len(jobs)
           /\ \A i \in 1 .. Len(jobs) :
                ~pool[i].live /\ pool[i].chunk = jobs[i].chunk
                              /\ pool[i].running = jobs[i].running
  <1>1. DOMAIN jobs = 1 .. Len(jobs) /\ Len(jobs) \in Nat
    BY LenProperties
  <1>2. ASSUME NEW i \in 1 .. Len(jobs)
        PROVE  /\ [jobs[i] EXCEPT !.live = FALSE] \in Job
               /\ ~[jobs[i] EXCEPT !.live = FALSE].live
               /\ [jobs[i] EXCEPT !.live = FALSE].chunk = jobs[i].chunk
               /\ [jobs[i] EXCEPT !.live = FALSE].running = jobs[i].running
    <2>1. jobs[i] \in Job  BY ElementOfSeq
    <2> QED  BY <2>1 DEF Job
  <1>3. pool = [i \in 1 .. Len(jobs) |-> [jobs[i] EXCEPT !.live = FALSE]]
    BY <1>1 DEF Unawaited
  <1>4. pool \in [1 .. Len(jobs) -> Job]  BY <1>2, <1>3, Zenon
  <1>5. pool \in Seq(Job) /\ Len(pool) = Len(jobs)  BY <1>1, <1>4
  <1> QED  BY <1>2, <1>3, <1>5

LEMMA Started ==
    ASSUME jobs \in Seq(Job), NEW i \in 1 .. Len(jobs),
           jobs' = [jobs EXCEPT ![i].running = TRUE]
    PROVE  /\ jobs' \in Seq(Job) /\ Len(jobs') = Len(jobs) /\ jobs'[i].running
           /\ \A j \in 1 .. Len(jobs) :
                /\ jobs'[j].live = jobs[j].live /\ jobs'[j].chunk = jobs[j].chunk
                /\ j # i => jobs'[j].running = jobs[j].running
  <1> DEFINE job == [jobs[i] EXCEPT !.running = TRUE]
  <1>1. /\ job \in Job /\ job.running /\ job.live = jobs[i].live
        /\ job.chunk = jobs[i].chunk
    <2>1. jobs[i] \in Job  BY ElementOfSeq
    <2> QED  BY <2>1 DEF Job
  <1> HIDE DEF job
  <1>2. jobs' = [jobs EXCEPT ![i] = job]  BY DEF job
  <1>3. job \in Job  BY <1>1
  <1>4. /\ jobs' \in Seq(Job) /\ Len(jobs') = Len(jobs)
        /\ \A j \in 1 .. Len(jobs) : jobs'[j] = IF j = i THEN job ELSE jobs[j]
    <2> DEFINE changed == [jobs EXCEPT ![i] = job]
    <2>1. /\ changed \in Seq(Job) /\ Len(changed) = Len(jobs)
          /\ \A j \in 1 .. Len(jobs) : changed[j] = IF j = i THEN job ELSE jobs[j]
      BY <1>3, ExceptSeq
    <2> HIDE DEF changed
    <2>2. jobs' = changed  BY <1>2 DEF changed
    <2> QED  BY <2>1, <2>2
  <1> QED  BY <1>1, <1>4

LEMMA Appended ==
    ASSUME jobs \in Seq(Job), chunk \in Chunk,
           NEW job, job = [chunk |-> chunk, live |-> TRUE, running |-> FALSE]
    PROVE  /\ Append(jobs, job) \in Seq(Job)
           /\ Len(Append(jobs, job)) = Len(jobs) + 1
           /\ Append(jobs, job)[Len(jobs) + 1] = job
           /\ \A i \in 1 .. Len(jobs) : Append(jobs, job)[i] = jobs[i]
  <1>1. job \in Job  BY DEF Job
  <1> QED  BY <1>1, AppendProperties

LEMMA RecordTyped ==
    ASSUME chunk \in Chunk, Record
    PROVE  chunk' \in Chunk
  <1>1. ASSUME NEW s \in Slices, Grow(s)  PROVE chunk' \in Chunk
    <2>1. chunk.dur + s \in Nat  BY SlicesType DEF Chunk
    <2>2. chunk' = [chunk EXCEPT !.dur = chunk.dur + s,
                                 !.final = chunk.dur + s >= SegMax]
      BY <1>1 DEF Grow
    <2>3. (chunk.dur + s >= SegMax) \in BOOLEAN  OBVIOUS
    <2> QED  BY <2>1, <2>2, <2>3 DEF Chunk
  <1>2. ASSUME NEW s \in Slices, NewSegment(s)  PROVE chunk' \in Chunk
    BY <1>2, SlicesType, SpeechParams DEF NewSegment, Chunk
  <1>3. CASE Trailer  BY <1>3 DEF Trailer, Chunk
  <1> QED  BY <1>1, <1>2, <1>3 DEF Record
-----------------------------------------------------------------------------
(* The circuit.                                                            *)

Quiet(pool) == \A i \in 1 .. Len(pool) : ~pool[i].live

LEMMA InitCircuit == Init => CircuitInv
  BY SpeechParams DEF Init, CircuitInv, Awaited, Breaker, Chunk, Idle

\* The call goes on to its next attempt, or ends and is counted.
LEMMA FailedCall ==
    ASSUME CircuitInv, AttemptFails, call.pc # "idle",
           jobs' \in Seq(Job), Quiet(jobs'), chunk' = chunk
    PROVE  CircuitInv'
  <1>1. Awaited'  BY DEF Awaited, Quiet
  <1>2. Breaker'
    <2> USE SpeechParams DEF CircuitInv, Breaker
    <2>1. CASE call.attempt < Retries
      BY <2>1 DEF AttemptFails, circuit
    <2>2. CASE ~(call.attempt < Retries)
      <3>1. /\ call' = Idle /\ streak' = streak + 1 /\ age' = 0
            /\ IF fails + 1 >= Threshold
               THEN fails' = 0 /\ open' = OpenFor
               ELSE fails' = fails + 1 /\ UNCHANGED open
        BY <2>2 DEF AttemptFails
      <3>2. call'.pc = "idle"  BY <3>1 DEF Idle
      <3>3. CASE fails + 1 >= Threshold  BY <3>1, <3>2, <3>3
      <3>4. CASE ~(fails + 1 >= Threshold)  BY <3>1, <3>2, <3>4
      <3> QED  BY <3>3, <3>4
    <2> QED  BY <2>1, <2>2
  <1> QED  BY <1>1, <1>2 DEF CircuitInv

\* The call ends and is not counted.
LEMMA RaisedCall ==
    ASSUME CircuitInv, Raises, jobs' \in Seq(Job), Quiet(jobs'), chunk' = chunk
    PROVE  CircuitInv'
  BY DEF CircuitInv, Awaited, Breaker, Raises, Quiet, Idle, circuit

LEMMA SucceededCall ==
    ASSUME CircuitInv, NEW outcome, Succeed(outcome),
           jobs' \in Seq(Job), Quiet(jobs'), chunk' = chunk
    PROVE  CircuitInv'
  BY DEF CircuitInv, Awaited, Breaker, Succeed, Quiet, Idle

\* A job leaves: nobody else waits if somebody waited for it.
LEMMA JobLeaves ==
    ASSUME CircuitInv, NEW i \in 1 .. Len(jobs), jobs' = Without(i)
    PROVE  /\ jobs' \in Seq(Job)
           /\ jobs[i].live => Quiet(jobs')
           /\ UNCHANGED call => Awaited'
  <1>1. /\ jobs' \in Seq(Job) /\ Len(jobs') = Len(jobs) - 1
        /\ \A k \in 1 .. Len(jobs') :
             jobs'[k] = IF k < i THEN jobs[k] ELSE jobs[k + 1]
    BY WithoutJob DEF CircuitInv
  <1>2. Len(jobs) \in Nat  BY LenProperties DEF CircuitInv
  <1> DEFINE Old(k) == IF k < i THEN k ELSE k + 1
  <1>3. \A k \in 1 .. Len(jobs') :
          /\ Old(k) \in 1 .. Len(jobs) /\ Old(k) # i /\ jobs'[k] = jobs[Old(k)]
    BY <1>1, <1>2
  <1>4. \A k, l \in 1 .. Len(jobs') : Old(k) = Old(l) => k = l
    BY <1>1, <1>2
  <1> HIDE DEF Old
  <1>5. jobs[i].live => Quiet(jobs')
    BY <1>3 DEF CircuitInv, Awaited, Quiet
  <1>6. UNCHANGED call => Awaited'
    <2> SUFFICES ASSUME UNCHANGED call  PROVE Awaited'
      OBVIOUS
    <2>1. \A k \in 1 .. Len(jobs') : jobs'[k].live => call'.pc = "wait"
      BY <1>3 DEF CircuitInv, Awaited
    <2>2. ASSUME NEW k \in 1 .. Len(jobs'), NEW l \in 1 .. Len(jobs'),
                 jobs'[k].live, jobs'[l].live
          PROVE  k = l
      <3>1. /\ Old(k) \in 1 .. Len(jobs) /\ jobs[Old(k)].live
            /\ Old(l) \in 1 .. Len(jobs) /\ jobs[Old(l)].live
        BY <1>3, <2>2
      <3>2. Old(k) = Old(l)  BY <3>1 DEF CircuitInv, Awaited
      <3> QED  BY <1>4, <3>2
    <2> QED  BY <2>1, <2>2 DEF Awaited
  <1> QED  BY <1>1, <1>5, <1>6

LEMMA ReturnCircuit ==
    ASSUME CircuitInv, NEW i \in 1 .. Len(jobs), NEW outcome,
           Return(i, outcome), chunk' = chunk
    PROVE  CircuitInv'
  <1>1. /\ jobs' \in Seq(Job) /\ (jobs[i].live => Quiet(jobs'))
        /\ (UNCHANGED call => Awaited')
    BY JobLeaves DEF Return
  <1>2. CASE jobs[i].live
    BY <1>1, <1>2, SucceededCall DEF Return
  <1>3. CASE ~jobs[i].live
    <2>1. UNCHANGED <<call, circuit>>  BY <1>3 DEF Return
    <2> QED  BY <1>1, <2>1 DEF CircuitInv, Breaker, circuit
  <1> QED  BY <1>2, <1>3

LEMMA NextCircuit == CircuitInv /\ [Next]_vars => CircuitInv'
  <1> SUFFICES ASSUME CircuitInv, [Next]_vars  PROVE CircuitInv'
    OBVIOUS
  <1>0. DOMAIN jobs = 1 .. Len(jobs)  BY LenProperties DEF CircuitInv
  <1>1. CASE BeginCall
    <2>1. chunk' \in Chunk  BY <1>1, RecordTyped DEF BeginCall, CircuitInv
    <2> QED  BY <1>1, <2>1 DEF BeginCall, CircuitInv, Awaited, Breaker, circuit
  <1>2. CASE Refuse
    <2>1. chunk' \in Chunk  BY <1>2, RecordTyped DEF Refuse, CircuitInv
    <2> QED  BY <1>2, <2>1 DEF Refuse, CircuitInv, Awaited, Breaker, circuit
  <1>3. CASE LoseChunk
    <2>1. chunk' \in Chunk  BY <1>3, RecordTyped DEF LoseChunk, CircuitInv
    <2> QED  BY <1>3, <2>1 DEF LoseChunk, CircuitInv, Awaited, Breaker, circuit
  <1>4. CASE Attempt
    <2> DEFINE job == [chunk |-> chunk, live |-> TRUE, running |-> FALSE]
    <2>1. jobs' = Append(jobs, job)  BY <1>4 DEF Attempt
    <2>2. /\ Append(jobs, job) \in Seq(Job)
          /\ Len(Append(jobs, job)) = Len(jobs) + 1
          /\ \A i \in 1 .. Len(jobs) : Append(jobs, job)[i] = jobs[i]
      BY Appended DEF CircuitInv
    <2> HIDE DEF job
    <2>3. \A i \in 1 .. Len(jobs) : ~jobs[i].live
      BY <1>4 DEF Attempt, CircuitInv, Awaited
    <2>4. \A i \in 1 .. Len(jobs') : jobs'[i].live => i = Len(jobs) + 1
      <3>1. Len(jobs) \in Nat  BY LenProperties DEF CircuitInv
      <3> QED  BY <2>1, <2>2, <2>3, <3>1
    <2>5. call' = [call EXCEPT !.pc = "wait"] /\ UNCHANGED <<chunk, circuit>>
          /\ call.pc = "try"
      BY <1>4 DEF Attempt
    <2>6. Awaited'
      <3>1. call'.pc = "wait"  BY <2>5
      <3> QED  BY <2>4, <3>1 DEF Awaited
    <2> QED  BY <2>1, <2>2, <2>5, <2>6 DEF CircuitInv, Breaker, circuit
  <1>5. CASE Unreachable
    <2>1. Quiet(jobs')  BY <1>5 DEF Unreachable, CircuitInv, Awaited, Quiet
    <2> QED  BY <1>5, <2>1, FailedCall DEF Unreachable, CircuitInv
  <1>6. CASE Timeout \/ Reset
    <2>1. jobs' \in Seq(Job) /\ Quiet(jobs')
      BY <1>6, GivenUp DEF Timeout, Reset, CircuitInv, Quiet
    <2>2. CASE Timeout  BY <2>1, <2>2, FailedCall DEF Timeout
    <2>3. CASE Reset  BY <2>1, <2>3, RaisedCall DEF Reset
    <2> QED  BY <1>6, <2>2, <2>3
  <1>7. CASE Tick
    BY <1>7, SpeechParams DEF Tick, CircuitInv, Awaited, Breaker
  <1>8. ASSUME NEW i \in 1 .. Len(jobs), Service(i)  PROVE CircuitInv'
    <2>1. CASE Start(i)
      <3>1. CASE ShouldRun(jobs[i].chunk)
        <4>1. /\ jobs' = [jobs EXCEPT ![i].running = TRUE]
              /\ UNCHANGED <<call, circuit, chunk>>
          BY <2>1, <3>1 DEF Start
        <4>2. /\ jobs' \in Seq(Job) /\ Len(jobs') = Len(jobs)
              /\ \A j \in 1 .. Len(jobs) : jobs'[j].live = jobs[j].live
          BY <4>1, Started DEF CircuitInv
        <4> QED  BY <4>1, <4>2 DEF CircuitInv, Awaited, Breaker, circuit
      <3>2. CASE ~ShouldRun(jobs[i].chunk)
        BY <2>1, <3>2, ReturnCircuit DEF Start
      <3> QED  BY <3>1, <3>2
    <2>2. CASE DecodeFails(i)  BY <2>2, ReturnCircuit DEF DecodeFails
    <2>3. CASE Finish(i)  BY <2>3, ReturnCircuit DEF Finish
    <2>4. CASE FinishWithError(i)  BY <2>4, ReturnCircuit DEF FinishWithError
    <2>5. CASE Crash(i)
      <3>1. jobs' = Without(i) /\ chunk' = chunk  BY <2>5 DEF Crash
      <3>2. /\ jobs' \in Seq(Job) /\ (jobs[i].live => Quiet(jobs'))
            /\ (UNCHANGED call => Awaited')
        BY <3>1, JobLeaves
      <3>3. CASE jobs[i].live
        <4>1. call.pc = "wait"  BY <3>3 DEF CircuitInv, Awaited
        <4> QED  BY <2>5, <3>1, <3>2, <3>3, <4>1, FailedCall DEF Crash
      <3>4. CASE ~jobs[i].live
        <4>1. UNCHANGED <<call, circuit>>  BY <2>5, <3>4 DEF Crash
        <4> QED  BY <3>1, <3>2, <4>1 DEF CircuitInv, Breaker, circuit
      <3> QED  BY <3>3, <3>4
    <2> QED  BY <1>8, <2>1, <2>2, <2>3, <2>4, <2>5 DEF Service
  <1>9. CASE Restart
    <2>1. jobs' = <<>> /\ chunk' = chunk  BY <1>9 DEF Restart
    <2>2. jobs' \in Seq(Job) /\ Quiet(jobs') /\ Awaited'
      BY <2>1 DEF Quiet, Awaited
    <2>3. CASE call.pc = "wait"
      BY <1>9, <2>1, <2>2, <2>3, RaisedCall DEF Restart
    <2>4. CASE call.pc # "wait"
      <3>1. UNCHANGED <<call, circuit>>  BY <1>9, <2>4 DEF Restart
      <3> QED  BY <2>1, <2>2, <3>1 DEF CircuitInv, Breaker, circuit
    <2> QED  BY <2>3, <2>4
  <1>10. CASE UNCHANGED vars
    BY <1>10 DEF vars, circuit, CircuitInv, Awaited, Breaker
  <1> QED
    BY <1>0, <1>1, <1>2, <1>3, <1>4, <1>5, <1>6, <1>7, <1>8, <1>9, <1>10
    DEF Next

(* speech adapter, transcribe_audio_chunk: a call is refused only after    *)
(* circuit_failure_threshold calls were given up after their last attempt, *)
(* with no answer between them, the last of them within circuit_open_sec,  *)
(* whatever threads, retries, answers that come too late and calls that    *)
(* raise on a reset connection do in between.                              *)
THEOREM RefusalsAreJustified == Spec => RefusalJustified
  <1>1. CircuitInv /\ [Next]_vars
          => [Refuse => streak >= Threshold /\ age < OpenFor]_vars
    BY SpeechParams DEF CircuitInv, Breaker, Refuse
  <1> QED  BY <1>1, InitCircuit, NextCircuit, PTL DEF Spec, RefusalJustified
-----------------------------------------------------------------------------
(* The order of the pool.                                                  *)

LEMMA InitOrder == Init => OrderInv
  BY SpeechParams
  DEF Init, OrderInv, OneThread, InOrder, Tidied, FinalOfThis, Chunk

\* The oldest request that waits is the first of the pool, and no other
\* request runs.
LEMMA OldestIsFirst ==
    ASSUME OrderInv, Workers = 1, NEW i \in 1 .. Len(jobs), Oldest(i)
    PROVE  i = 1 /\ \A j \in 1 .. Len(jobs) : ~jobs[j].running
  <1> DEFINE R == {j \in DOMAIN jobs : jobs[j].running}
  <1>1. DOMAIN jobs = 1 .. Len(jobs) /\ Len(jobs) \in Nat
    BY LenProperties DEF OrderInv
  <1>2. IsFiniteSet(R)
    <2>1. IsFiniteSet(1 .. Len(jobs))  BY <1>1, FS_Interval
    <2>2. R \subseteq 1 .. Len(jobs)  BY <1>1
    <2> QED  BY <2>1, <2>2, FS_Subset
  <1>3. Cardinality(R) < 1  BY DEF Oldest
  <1>4. Cardinality(R) \in Nat  BY <1>2, FS_CardinalityType
  <1> HIDE DEF R
  <1>5. Cardinality(R) = 0  BY <1>3, <1>4
  <1>6. R = {}  BY <1>2, <1>5, FS_EmptySet
  <1>7. \A j \in 1 .. Len(jobs) : ~jobs[j].running  BY <1>1, <1>6 DEF R
  <1>8. \A j \in 1 .. i - 1 : jobs[j].running  BY DEF Oldest
  <1>9. i = 1
    <2> SUFFICES ASSUME i # 1  PROVE FALSE
      OBVIOUS
    <2>1. 1 \in 1 .. i - 1 /\ 1 \in 1 .. Len(jobs)  BY <1>1
    <2> QED  BY <1>7, <1>8, <2>1
  <1> QED  BY <1>7, <1>9

\* The first request leaves, and the others keep their order.
LEMMA FirstLeaves ==
    ASSUME OrderInv, 1 \in 1 .. Len(jobs), jobs' = Without(1), chunk' = chunk
    PROVE  /\ jobs' \in Seq(Job) /\ OneThread' /\ InOrder'
           /\ \A k \in 1 .. Len(jobs') :
                k + 1 \in 1 .. Len(jobs) /\ jobs'[k] = jobs[k + 1]
  <1>1. /\ jobs' \in Seq(Job) /\ Len(jobs') = Len(jobs) - 1
        /\ \A k \in 1 .. Len(jobs') :
             jobs'[k] = IF k < 1 THEN jobs[k] ELSE jobs[k + 1]
    BY WithoutJob DEF OrderInv
  <1>2. Len(jobs) \in Nat  BY LenProperties DEF OrderInv
  <1>3. \A k \in 1 .. Len(jobs') :
          k + 1 \in 1 .. Len(jobs) /\ jobs'[k] = jobs[k + 1]
    BY <1>1, <1>2
  <1>4. OneThread'
    <2> SUFFICES ASSUME NEW k \in 1 .. Len(jobs')  PROVE ~jobs'[k].running
      BY DEF OneThread
    <2>1. k + 1 \in 1 .. Len(jobs) /\ jobs'[k] = jobs[k + 1] /\ k + 1 # 1
      BY <1>1, <1>2, <1>3
    <2> QED  BY <2>1 DEF OrderInv, OneThread
  <1>5. InOrder'
    <2> SUFFICES ASSUME NEW k \in 1 .. Len(jobs')
                 PROVE  /\ jobs'[k].chunk.seg <= chunk'.seg
                        /\ FinalOfThis(k)' => chunk'.final
                        /\ \A l \in 1 .. Len(jobs') :
                             k < l /\ FinalOfThis(k)' => jobs'[l].chunk.final
      BY DEF InOrder
    <2>1. k + 1 \in 1 .. Len(jobs) /\ jobs'[k] = jobs[k + 1]  BY <1>3
    <2>2. FinalOfThis(k)' <=> FinalOfThis(k + 1)  BY <2>1 DEF FinalOfThis
    <2>3. /\ jobs[k + 1].chunk.seg <= chunk.seg
          /\ FinalOfThis(k + 1) => chunk.final
          /\ \A l \in 1 .. Len(jobs) :
               k + 1 < l /\ FinalOfThis(k + 1) => jobs[l].chunk.final
      BY <2>1 DEF OrderInv, InOrder
    <2>4. ASSUME NEW l \in 1 .. Len(jobs'), k < l, FinalOfThis(k + 1)
          PROVE  jobs'[l].chunk.final
      <3>1. l + 1 \in 1 .. Len(jobs) /\ jobs'[l] = jobs[l + 1] /\ k + 1 < l + 1
        BY <1>1, <1>2, <1>3, <2>4
      <3> QED  BY <2>3, <2>4, <3>1
    <2> QED  BY <2>1, <2>2, <2>3, <2>4
  <1> QED  BY <1>1, <1>3, <1>4, <1>5

\* What a request leaves behind when it is answered without a transcription.
LEMMA LeavesOrder ==
    ASSUME OrderInv, 1 \in 1 .. Len(jobs), jobs' = Without(1),
           UNCHANGED <<chunk, tidy, stream>>
    PROVE  OrderInv'
  BY FirstLeaves DEF OrderInv, Tidied

\* What it leaves behind when it is transcribed.
LEMMA SavesOrder ==
    ASSUME OrderInv, 1 \in 1 .. Len(jobs), jobs' = Without(1), chunk' = chunk,
           SaveState(jobs[1].chunk), MarkTidy(jobs[1].chunk)
    PROVE  OrderInv'
  <1>1. /\ jobs' \in Seq(Job) /\ OneThread' /\ InOrder'
        /\ \A k \in 1 .. Len(jobs') :
             k + 1 \in 1 .. Len(jobs) /\ jobs'[k] = jobs[k + 1]
    BY FirstLeaves
  <1>2. tidy' \in BOOLEAN  BY DEF MarkTidy
  <1>3. Tidied'
    <2> SUFFICES ASSUME tidy'
                 PROVE  /\ chunk'.final /\ stream' = NoState
                        /\ \A k \in 1 .. Len(jobs') : jobs'[k].chunk.final
      BY DEF Tidied
    <2>1. /\ chunk.final /\ jobs[1].chunk.final
          /\ \A k \in 1 .. Len(jobs) : jobs[k].chunk.final
      <3>1. CASE tidy  BY <3>1 DEF OrderInv, Tidied
      <3>2. CASE ~tidy
        <4>1. FinalOfThis(1)  BY <3>2 DEF MarkTidy, FinalOfThis
        <4>2. /\ chunk.final
              /\ \A k \in 1 .. Len(jobs) : 1 < k => jobs[k].chunk.final
          BY <4>1 DEF OrderInv, InOrder
        <4>3. \A k \in 1 .. Len(jobs) : k = 1 \/ 1 < k  OBVIOUS
        <4> QED  BY <4>1, <4>2, <4>3 DEF FinalOfThis
      <3> QED  BY <3>1, <3>2
    <2>2. stream' = NoState  BY <2>1 DEF SaveState
    <2> QED  BY <1>1, <2>1, <2>2
  <1> QED  BY <1>1, <1>2, <1>3 DEF OrderInv

\* A new chunk: the segment grows, a new one begins, or it is sent again.
LEMMA RecordOrder ==
    ASSUME OrderInv, Record, UNCHANGED <<jobs, stream>>
    PROVE  OrderInv'
  <1>1. chunk' \in Chunk  BY RecordTyped DEF OrderInv
  <1>2. Len(jobs) \in Nat /\ \A i \in 1 .. Len(jobs) : jobs[i].chunk \in Chunk
    <2>1. \A i \in 1 .. Len(jobs) : jobs[i] \in Job
      BY ElementOfSeq DEF OrderInv
    <2> QED  BY <2>1, LenProperties DEF OrderInv, Job
  <1> USE DEF OrderInv, OneThread, InOrder, Tidied, FinalOfThis
  <1>3. ASSUME NEW s \in Slices, Grow(s)  PROVE OrderInv'
    <2>1. ~chunk.final /\ chunk'.seg = chunk.seg /\ tidy' = tidy
      BY <1>3 DEF Grow, Chunk
    <2> QED  BY <1>1, <2>1
  <1>4. ASSUME NEW s \in Slices, NewSegment(s)  PROVE OrderInv'
    <2>1. chunk'.seg = chunk.seg + 1 /\ tidy' = FALSE
      BY <1>4 DEF NewSegment
    <2>2. chunk.seg \in Nat /\ \A i \in 1 .. Len(jobs) : jobs[i].chunk.seg \in Nat
      BY <1>2, SpeechParams DEF Chunk
    <2>3. \A i \in 1 .. Len(jobs) : jobs[i].chunk.seg < chunk'.seg
      BY <2>1, <2>2
    <2>4. InOrder'
      <3>1. chunk'.seg \in Nat  BY <1>1, SpeechParams DEF Chunk
      <3>2. ASSUME NEW i \in 1 .. Len(jobs)
            PROVE  jobs[i].chunk.seg <= chunk'.seg /\ jobs[i].chunk.seg # chunk'.seg
        BY <2>2, <2>3, <3>1
      <3> QED  BY <3>2
    <2>5. OneThread' /\ Tidied'  BY <2>1
    <2> QED  BY <1>1, <2>1, <2>4, <2>5
  <1>5. CASE Trailer
    <2>1. chunk'.final = chunk.final /\ chunk'.seg = chunk.seg /\ tidy' = tidy
      BY <1>5 DEF Trailer, Chunk
    <2> QED  BY <1>1, <2>1
  <1> QED  BY <1>3, <1>4, <1>5 DEF Record

LEMMA NextOrder == Workers = 1 /\ OrderInv /\ [Next]_vars => OrderInv'
  <1> SUFFICES ASSUME Workers = 1, OrderInv, [Next]_vars  PROVE OrderInv'
    OBVIOUS
  <1>0. DOMAIN jobs = 1 .. Len(jobs)  BY LenProperties DEF OrderInv
  <1>1. CASE BeginCall \/ Refuse \/ LoseChunk
    BY <1>1, RecordOrder DEF BeginCall, Refuse, LoseChunk
  <1>2. CASE Attempt
    <2> DEFINE job == [chunk |-> chunk, live |-> TRUE, running |-> FALSE]
    <2>1. jobs' = Append(jobs, job) /\ UNCHANGED <<chunk, stream, tidy>>
      BY <1>2 DEF Attempt
    <2>2. /\ Append(jobs, job) \in Seq(Job)
          /\ Len(Append(jobs, job)) = Len(jobs) + 1
          /\ Append(jobs, job)[Len(jobs) + 1] = job
          /\ \A i \in 1 .. Len(jobs) : Append(jobs, job)[i] = jobs[i]
      BY Appended DEF OrderInv
    <2>3. job.chunk = chunk /\ ~job.running  OBVIOUS
    <2> HIDE DEF job
    <2>4. Len(jobs) \in Nat  BY LenProperties DEF OrderInv
    <2>5. \A i \in 1 .. Len(jobs') :
            \/ i \in 1 .. Len(jobs) /\ jobs'[i] = jobs[i]
            \/ i = Len(jobs) + 1 /\ jobs'[i].chunk = chunk /\ ~jobs'[i].running
      BY <2>1, <2>2, <2>3, <2>4
    <2>6. OneThread'  BY <2>5 DEF OneThread, OrderInv
    <2>7. InOrder'
      <3>1. chunk.seg \in Nat  BY SpeechParams DEF OrderInv, Chunk
      <3>2. \A i, j \in 1 .. Len(jobs') : i < j => i \in 1 .. Len(jobs)
        BY <2>1, <2>2, <2>4
      <3>3. ASSUME NEW i \in 1 .. Len(jobs')
            PROVE  /\ jobs'[i].chunk.seg <= chunk'.seg
                   /\ FinalOfThis(i)' => chunk'.final
        BY <2>1, <2>5, <3>1 DEF OrderInv, InOrder, FinalOfThis
      <3>4. ASSUME NEW i \in 1 .. Len(jobs'), NEW j \in 1 .. Len(jobs'),
                   i < j, FinalOfThis(i)'
            PROVE  jobs'[j].chunk.final
        <4>1. i \in 1 .. Len(jobs) /\ FinalOfThis(i)
          BY <2>1, <2>2, <3>2, <3>4 DEF FinalOfThis
        <4>2. CASE j \in 1 .. Len(jobs) /\ jobs'[j] = jobs[j]
          BY <3>4, <4>1, <4>2 DEF OrderInv, InOrder
        <4>3. CASE jobs'[j].chunk = chunk
          BY <4>1, <4>3 DEF OrderInv, InOrder
        <4> QED  BY <2>5, <4>2, <4>3
      <3> QED  BY <3>3, <3>4 DEF InOrder
    <2>8. Tidied'  BY <2>1, <2>5 DEF OrderInv, Tidied
    <2> QED  BY <2>1, <2>2, <2>6, <2>7, <2>8 DEF OrderInv
  <1>3. CASE Unreachable
    BY <1>3 DEF Unreachable, OrderInv, OneThread, InOrder, Tidied, FinalOfThis
  <1>4. CASE Timeout \/ Reset
    <2>1. UNCHANGED <<chunk, stream, tidy>>  BY <1>4 DEF Timeout, Reset
    <2>2. /\ jobs' \in Seq(Job) /\ Len(jobs') = Len(jobs)
          /\ \A i \in 1 .. Len(jobs) : /\ jobs'[i].chunk = jobs[i].chunk
                                       /\ jobs'[i].running = jobs[i].running
      BY <1>4, GivenUp DEF Timeout, Reset, OrderInv
    <2> QED
      BY <2>1, <2>2 DEF OrderInv, OneThread, InOrder, Tidied, FinalOfThis
  <1>5. CASE Tick
    BY <1>5 DEF Tick, OrderInv, OneThread, InOrder, Tidied, FinalOfThis
  <1>6. ASSUME NEW i \in 1 .. Len(jobs), Service(i)  PROVE OrderInv'
    <2>1. CASE Start(i)
      <3>1. i = 1 /\ \A j \in 1 .. Len(jobs) : ~jobs[j].running
        BY <2>1, OldestIsFirst DEF Start
      <3>2. UNCHANGED <<chunk, stream, tidy>>  BY <2>1 DEF Start
      <3>3. CASE ShouldRun(jobs[i].chunk)
        <4>1. jobs' = [jobs EXCEPT ![i].running = TRUE]
          BY <2>1, <3>3 DEF Start
        <4>2. /\ jobs' \in Seq(Job) /\ Len(jobs') = Len(jobs)
              /\ \A j \in 1 .. Len(jobs) :
                   /\ jobs'[j].chunk = jobs[j].chunk
                   /\ j # i => jobs'[j].running = jobs[j].running
          BY <4>1, Started DEF OrderInv
        <4>3. OneThread'  BY <3>1, <4>2 DEF OneThread
        <4> QED
          BY <3>2, <4>2, <4>3 DEF OrderInv, InOrder, Tidied, FinalOfThis
      <3>4. CASE ~ShouldRun(jobs[i].chunk)
        <4>1. jobs' = Without(1)  BY <2>1, <3>1, <3>4 DEF Start, Return
        <4> QED  BY <3>1, <3>2, <4>1, LeavesOrder
      <3> QED  BY <3>3, <3>4
    <2>2. CASE DecodeFails(i)
      <3>1. i = 1  BY <2>2, OldestIsFirst DEF DecodeFails
      <3> QED  BY <2>2, <3>1, LeavesOrder DEF DecodeFails, Return
    <2>3. CASE Finish(i) \/ FinishWithError(i)
      <3>1. i = 1
        BY <2>3 DEF Finish, FinishWithError, OrderInv, OneThread
      <3> QED  BY <2>3, <3>1, SavesOrder DEF Finish, FinishWithError, Return
    <2>4. CASE Crash(i)
      <3>1. i = 1  BY <2>4 DEF Crash, OrderInv, OneThread
      <3> QED  BY <2>4, <3>1, LeavesOrder DEF Crash
    <2> QED  BY <1>6, <2>1, <2>2, <2>3, <2>4 DEF Service
  <1>7. CASE Restart
    <2>1. jobs' = <<>> /\ stream' = NoState /\ UNCHANGED <<chunk, tidy>>
      BY <1>7 DEF Restart
    <2> QED
      BY <2>1 DEF OrderInv, OneThread, InOrder, Tidied, FinalOfThis
  <1>8. CASE UNCHANGED vars
    BY <1>8 DEF vars, OrderInv, OneThread, InOrder, Tidied, FinalOfThis
  <1> QED
    BY <1>0, <1>1, <1>2, <1>3, <1>4, <1>5, <1>6, <1>7, <1>8 DEF Next

(* speech-service: with one thread, requests of calls that were given up   *)
(* run on and save their state, but never after the final chunk of their   *)
(* segment; so a segment that follows a final chunk that was transcribed   *)
(* is not compared with an old duration, for any timing of timeouts,       *)
(* retries, crashes and restarts.                                          *)
THEOREM StateNeverStale == Spec => []NoStaleState
  <1>1. CASE Workers = 1
    <2>1. OrderInv => NoStaleState  BY DEF OrderInv, Tidied, NoStaleState
    <2>2. OrderInv /\ [Next]_vars => OrderInv'  BY <1>1, NextOrder
    <2> QED  BY <2>1, <2>2, InitOrder, PTL DEF Spec
  <1>2. CASE Workers # 1
    <2>1. NoStaleState  BY <1>2 DEF NoStaleState
    <2> QED  BY <2>1, PTL
  <1> QED  BY <1>1, <1>2
-----------------------------------------------------------------------------
(* Type correctness.  An answer is awaited of one request, which is of the *)
(* chunk at hand: there is a live request while a call waits (Expected),   *)
(* and Awaited says that there is no other.                                *)

Running(pool) == {i \in DOMAIN pool : pool[i].running}

CallTyped ==
    /\ call \in [pc : {"idle", "try", "wait"}, attempt : 0 .. Retries]
    /\ fails \in 0 .. Threshold - 1 /\ open \in 0 .. OpenFor
    /\ streak \in Nat /\ age \in 0 .. OpenFor
    /\ result \in {"none", "text", "empty", "failed", "raised", "refused", "lost"}

Expected ==
    /\ call.pc = "wait" => \E i \in 1 .. Len(jobs) : jobs[i].live
    /\ \A i \in 1 .. Len(jobs) : jobs[i].live => jobs[i].chunk = chunk

Busy == Cardinality(Running(jobs)) <= Workers

HeardTyped ==
    /\ stream \in [seg : 0 .. MaxSegs, dur : Nat]
    /\ heard \subseteq 1 .. chunk.dur /\ before \in Nat
    /\ calm \in BOOLEAN /\ tidy \in BOOLEAN

TypeInv == CallTyped /\ Expected /\ Busy /\ HeardTyped

\* The call and the circuit.
LEMMA FailTyped == CallTyped /\ AttemptFails => CallTyped'
  <1> SUFFICES ASSUME CallTyped, AttemptFails  PROVE CallTyped'
    OBVIOUS
  <1> USE SpeechParams
  <1>1. CASE call.attempt < Retries
    <2>1. /\ call' = [pc |-> "try", attempt |-> call.attempt + 1]
          /\ UNCHANGED <<circuit, result>>
      BY <1>1 DEF AttemptFails
    <2>2. call.attempt + 1 \in 0 .. Retries  BY <1>1 DEF CallTyped
    <2> QED  BY <2>1, <2>2 DEF CallTyped, circuit
  <1>2. CASE ~(call.attempt < Retries)
    <2>1. /\ call' = Idle /\ result' = "failed" /\ streak' = streak + 1 /\ age' = 0
          /\ IF fails + 1 >= Threshold
             THEN fails' = 0 /\ open' = OpenFor
             ELSE fails' = fails + 1 /\ open' = open
      BY <1>2 DEF AttemptFails
    <2>2. fails' \in 0 .. Threshold - 1 /\ open' \in 0 .. OpenFor
      BY <2>1 DEF CallTyped
    <2> QED  BY <2>1, <2>2 DEF CallTyped, Idle
  <1> QED  BY <1>1, <1>2

LEMMA RaiseTyped == CallTyped /\ Raises => CallTyped'
  BY SpeechParams DEF CallTyped, Raises, Idle, circuit

LEMMA SucceedTyped ==
    ASSUME CallTyped, NEW outcome \in {"text", "empty"}, Succeed(outcome)
    PROVE  CallTyped'
  BY SpeechParams DEF CallTyped, Succeed, Idle

LEMMA ServiceCallTyped ==
    ASSUME CallTyped, NEW i \in 1 .. Len(jobs), Service(i)
    PROVE  CallTyped'
  <1>1. CASE UNCHANGED <<call, circuit, result>>
    BY <1>1 DEF CallTyped, circuit
  <1>2. ASSUME NEW outcome \in {"text", "empty"}, Return(i, outcome)
        PROVE  CallTyped'
    BY <1>1, <1>2, SucceedTyped DEF Return
  <1>3. CASE Crash(i)  BY <1>1, <1>3, FailTyped DEF Crash
  <1>4. CASE Start(i)  BY <1>1, <1>2, <1>4 DEF Start
  <1>5. CASE DecodeFails(i) \/ FinishWithError(i)
    BY <1>2, <1>5 DEF DecodeFails, FinishWithError
  <1>6. CASE Finish(i)  BY <1>2, <1>6 DEF Finish
  <1> QED  BY <1>3, <1>4, <1>5, <1>6 DEF Service

LEMMA NextCallTyped == CircuitInv /\ CallTyped /\ [Next]_vars => CallTyped'
  <1> SUFFICES ASSUME CircuitInv, CallTyped, [Next]_vars  PROVE CallTyped'
    OBVIOUS
  <1> USE SpeechParams
  <1>1. CASE BeginCall \/ Refuse \/ LoseChunk
    BY <1>1 DEF BeginCall, Refuse, LoseChunk, CallTyped, circuit
  <1>2. CASE Attempt  BY <1>2 DEF Attempt, CallTyped, circuit
  <1>3. CASE Unreachable \/ Timeout
    BY <1>3, FailTyped DEF Unreachable, Timeout
  <1>r. CASE Reset  BY <1>r, RaiseTyped DEF Reset
  <1>4. CASE Tick  BY <1>4 DEF Tick, CallTyped
  <1>5. ASSUME NEW i \in DOMAIN jobs, Service(i)  PROVE CallTyped'
    <2>1. i \in 1 .. Len(jobs)  BY LenProperties DEF CircuitInv
    <2> QED  BY <1>5, <2>1, ServiceCallTyped
  <1>6. CASE Restart
    BY <1>6, RaiseTyped DEF Restart, CallTyped, circuit
  <1>7. CASE UNCHANGED vars  BY <1>7 DEF vars, CallTyped, circuit
  <1> QED  BY <1>r, <1>1, <1>2, <1>3, <1>4, <1>5, <1>6, <1>7 DEF Next

\* The requests: only the answer of the live one ends the waiting.
LEMMA OthersStay ==
    ASSUME CircuitInv, Expected, NEW i \in 1 .. Len(jobs), jobs' = Without(i),
           chunk' = chunk, call'.pc = "wait" => ~jobs[i].live /\ call.pc = "wait"
    PROVE  Expected'
  <1>1. /\ Len(jobs') = Len(jobs) - 1 /\ Len(jobs) \in Nat
        /\ \A k \in 1 .. Len(jobs') :
             jobs'[k] = IF k < i THEN jobs[k] ELSE jobs[k + 1]
    BY WithoutJob, LenProperties DEF CircuitInv
  <1>2. ASSUME NEW k \in 1 .. Len(jobs'), jobs'[k].live
        PROVE  jobs'[k].chunk = chunk
    <2>1. k \in 1 .. Len(jobs) /\ k + 1 \in 1 .. Len(jobs)  BY <1>1
    <2> QED  BY <1>1, <1>2, <2>1 DEF Expected
  <1>3. ASSUME call'.pc = "wait"  PROVE \E k \in 1 .. Len(jobs') : jobs'[k].live
    <2>1. PICK j \in 1 .. Len(jobs) : jobs[j].live  BY <1>3 DEF Expected
    <2>2. j # i  BY <1>3, <2>1
    <2>3. CASE j < i
      <3>1. j \in 1 .. Len(jobs')  BY <1>1, <2>3
      <3> QED  BY <1>1, <2>1, <2>3, <3>1
    <2>4. CASE j > i
      <3>1. j - 1 \in 1 .. Len(jobs') /\ ~(j - 1 < i) /\ (j - 1) + 1 = j
        BY <1>1, <2>4
      <3> QED  BY <1>1, <2>1, <3>1
    <2> QED  BY <2>2, <2>3, <2>4
  <1> QED  BY <1>2, <1>3 DEF Expected

LEMMA ReturnExpected ==
    ASSUME CircuitInv, Expected, NEW i \in 1 .. Len(jobs), NEW outcome,
           Return(i, outcome), chunk' = chunk
    PROVE  Expected'
  BY OthersStay DEF Return, Succeed, Idle

LEMMA NextExpected == CircuitInv /\ Expected /\ [Next]_vars => Expected'
  <1> SUFFICES ASSUME CircuitInv, Expected, [Next]_vars  PROVE Expected'
    OBVIOUS
  <1>0. DOMAIN jobs = 1 .. Len(jobs) /\ Len(jobs) \in Nat
    BY LenProperties DEF CircuitInv
  \* no request is live while no call waits
  <1>1. ASSUME call.pc # "wait", jobs' = jobs, call'.pc # "wait"
        PROVE  Expected'
    BY <1>1 DEF CircuitInv, Awaited, Expected
  <1>2. ASSUME jobs' \in Seq(Job), Quiet(jobs'), call'.pc # "wait"
        PROVE  Expected'
    BY <1>2 DEF Expected, Quiet
  <1>3. AttemptFails \/ Raises => call'.pc # "wait"
    BY DEF AttemptFails, Raises, Idle
  <1>4. CASE BeginCall \/ Refuse \/ LoseChunk
    BY <1>1, <1>4 DEF BeginCall, Refuse, LoseChunk
  <1>5. CASE Attempt
    <2> DEFINE job == [chunk |-> chunk, live |-> TRUE, running |-> FALSE]
    <2>1. jobs' = Append(jobs, job) /\ chunk' = chunk  BY <1>5 DEF Attempt
    <2>2. /\ Len(Append(jobs, job)) = Len(jobs) + 1
          /\ Append(jobs, job)[Len(jobs) + 1] = job
          /\ \A i \in 1 .. Len(jobs) : Append(jobs, job)[i] = jobs[i]
      BY Appended DEF CircuitInv
    <2>3. job.live /\ job.chunk = chunk  OBVIOUS
    <2> HIDE DEF job
    <2>4. Len(jobs) + 1 \in 1 .. Len(jobs')  BY <1>0, <2>1, <2>2
    <2>5. \A i \in 1 .. Len(jobs') :
            \/ i \in 1 .. Len(jobs) /\ jobs'[i] = jobs[i]
            \/ jobs'[i] = job
      BY <1>0, <2>1, <2>2
    <2> QED  BY <2>1, <2>2, <2>3, <2>4, <2>5 DEF Expected
  <1>6. CASE Unreachable
    BY <1>1, <1>3, <1>6 DEF Unreachable
  <1>7. CASE Timeout \/ Reset
    <2>1. jobs' \in Seq(Job) /\ Quiet(jobs')
      BY <1>7, GivenUp DEF Timeout, Reset, CircuitInv, Quiet
    <2> QED  BY <1>2, <1>3, <1>7, <2>1 DEF Timeout, Reset
  <1>8. CASE Tick  BY <1>8 DEF Tick, Expected
  <1>9. ASSUME NEW i \in 1 .. Len(jobs), Service(i)  PROVE Expected'
    <2>1. CASE Start(i)
      <3>1. CASE ShouldRun(jobs[i].chunk)
        <4>1. /\ jobs' = [jobs EXCEPT ![i].running = TRUE]
              /\ UNCHANGED <<call, chunk>>
          BY <2>1, <3>1 DEF Start
        <4>2. /\ Len(jobs') = Len(jobs)
              /\ \A j \in 1 .. Len(jobs) : /\ jobs'[j].live = jobs[j].live
                                           /\ jobs'[j].chunk = jobs[j].chunk
          BY <4>1, Started DEF CircuitInv
        <4> QED  BY <4>1, <4>2 DEF Expected
      <3>2. CASE ~ShouldRun(jobs[i].chunk)
        BY <2>1, <3>2, ReturnExpected DEF Start
      <3> QED  BY <3>1, <3>2
    <2>2. CASE DecodeFails(i) \/ Finish(i) \/ FinishWithError(i)
      BY <2>2, ReturnExpected DEF DecodeFails, Finish, FinishWithError
    <2>3. CASE Crash(i)
      BY <1>3, <2>3, OthersStay DEF Crash
    <2> QED  BY <1>9, <2>1, <2>2, <2>3 DEF Service
  <1>10. CASE Restart
    <2>1. jobs' = <<>> /\ call'.pc # "wait"
      BY <1>3, <1>10 DEF Restart
    <2> QED  BY <2>1 DEF Expected
  <1>11. CASE UNCHANGED vars  BY <1>11 DEF vars, Expected
  <1> QED
    BY <1>0, <1>4, <1>5, <1>6, <1>7, <1>8, <1>9, <1>10, <1>11 DEF Next

\* The threads.
LEMMA RunningFinite ==
    ASSUME NEW pool \in Seq(Job)
    PROVE  /\ Running(pool) = {i \in 1 .. Len(pool) : pool[i].running}
           /\ IsFiniteSet(Running(pool)) /\ Cardinality(Running(pool)) \in Nat
  <1>1. DOMAIN pool = 1 .. Len(pool) /\ Len(pool) \in Nat  BY LenProperties
  <1>2. IsFiniteSet(1 .. Len(pool))  BY <1>1, FS_Interval
  <1>3. Running(pool) \in SUBSET (1 .. Len(pool))  BY <1>1 DEF Running
  <1>4. IsFiniteSet(Running(pool))  BY <1>2, <1>3, FS_Subset
  <1> QED  BY <1>1, <1>4, FS_CardinalityType DEF Running

\* A request that leaves gives up a thread, or none.
LEMMA FewerRun ==
    ASSUME jobs \in Seq(Job), NEW i \in 1 .. Len(jobs)
    PROVE  Cardinality(Running(Without(i))) <= Cardinality(Running(jobs))
  <1> DEFINE left == Without(i)
             old  == [k \in Running(left) |-> IF k < i THEN k ELSE k + 1]
  <1>1. /\ left \in Seq(Job) /\ Len(left) = Len(jobs) - 1 /\ Len(jobs) \in Nat
        /\ \A k \in 1 .. Len(left) :
             left[k] = IF k < i THEN jobs[k] ELSE jobs[k + 1]
    BY WithoutJob, LenProperties
  <1> HIDE DEF left
  <1>2. /\ Running(left) = {k \in 1 .. Len(left) : left[k].running}
        /\ Running(jobs) = {k \in 1 .. Len(jobs) : jobs[k].running}
        /\ IsFiniteSet(Running(jobs))
    BY <1>1, RunningFinite
  <1>3. old \in [Running(left) -> Running(jobs)]
    <2> SUFFICES ASSUME NEW k \in Running(left)
                 PROVE  (IF k < i THEN k ELSE k + 1) \in Running(jobs)
      OBVIOUS
    <2>1. k \in 1 .. Len(left) /\ left[k].running  BY <1>2
    <2>2. k \in 1 .. Len(jobs) /\ k + 1 \in 1 .. Len(jobs)  BY <1>1, <2>1
    <2> QED  BY <1>1, <1>2, <2>1, <2>2
  <1>4. \A k, l \in Running(left) : old[k] = old[l] => k = l
    BY <1>1, <1>2
  <1>5. old \in Injection(Running(left), Running(jobs))
    BY <1>3, <1>4 DEF Injection, IsInjective
  <1> QED  BY <1>2, <1>5, FS_Injection DEF left

LEMMA NextBusy == CircuitInv /\ Busy /\ [Next]_vars => Busy'
  <1> SUFFICES ASSUME CircuitInv, Busy, [Next]_vars  PROVE Busy'
    OBVIOUS
  <1>0. /\ jobs \in Seq(Job) /\ DOMAIN jobs = 1 .. Len(jobs) /\ Len(jobs) \in Nat
        /\ Running(jobs) = {i \in 1 .. Len(jobs) : jobs[i].running}
        /\ IsFiniteSet(Running(jobs)) /\ Cardinality(Running(jobs)) \in Nat
    BY LenProperties, RunningFinite DEF CircuitInv
  <1>1. ASSUME Running(jobs') = Running(jobs)  PROVE Busy'
    BY <1>1 DEF Busy
  <1>2. ASSUME NEW i \in 1 .. Len(jobs), jobs' = Without(i)  PROVE Busy'
    <2>1. Cardinality(Running(jobs')) <= Cardinality(Running(jobs))
      BY <1>0, <1>2, FewerRun
    <2>2. Cardinality(Running(jobs')) \in Nat
      BY <1>0, <1>2, WithoutJob, RunningFinite
    <2> QED  BY <1>0, <2>1, <2>2, SpeechParams DEF Busy
  <1>3. CASE Attempt
    <2> DEFINE job == [chunk |-> chunk, live |-> TRUE, running |-> FALSE]
    <2>1. jobs' = Append(jobs, job)  BY <1>3 DEF Attempt
    <2>2. /\ Append(jobs, job) \in Seq(Job)
          /\ Len(Append(jobs, job)) = Len(jobs) + 1
          /\ Append(jobs, job)[Len(jobs) + 1] = job
          /\ \A i \in 1 .. Len(jobs) : Append(jobs, job)[i] = jobs[i]
      BY Appended DEF CircuitInv
    <2>3. ~job.running  OBVIOUS
    <2> HIDE DEF job
    <2>4. Running(jobs') = {i \in 1 .. Len(jobs') : jobs'[i].running}
      BY <2>1, <2>2, RunningFinite
    <2>5. Running(jobs') = Running(jobs)  BY <1>0, <2>1, <2>2, <2>3, <2>4
    <2> QED  BY <1>1, <2>5
  <1>4. CASE Timeout \/ Reset
    <2>1. /\ jobs' \in Seq(Job) /\ Len(jobs') = Len(jobs)
          /\ \A i \in 1 .. Len(jobs) : jobs'[i].running = jobs[i].running
      BY <1>4, GivenUp DEF Timeout, Reset, CircuitInv
    <2>2. Running(jobs') = {i \in 1 .. Len(jobs') : jobs'[i].running}
      BY <2>1, RunningFinite
    <2>3. Running(jobs') = Running(jobs)  BY <1>0, <2>1, <2>2
    <2> QED  BY <1>1, <2>3
  <1>5. ASSUME NEW i \in 1 .. Len(jobs), Start(i), ShouldRun(jobs[i].chunk)
        PROVE  Busy'
    <2>1. /\ jobs' = [jobs EXCEPT ![i].running = TRUE] /\ ~jobs[i].running
          /\ Cardinality(Running(jobs)) < Workers
      BY <1>5 DEF Start, Oldest, Running
    <2>2. /\ jobs' \in Seq(Job) /\ Len(jobs') = Len(jobs) /\ jobs'[i].running
          /\ \A j \in 1 .. Len(jobs) : j # i => jobs'[j].running = jobs[j].running
      BY <1>0, <2>1, Started
    <2>3. Running(jobs') = {j \in 1 .. Len(jobs') : jobs'[j].running}
      BY <2>2, RunningFinite
    <2>4. Running(jobs') = Running(jobs) \cup {i} /\ i \notin Running(jobs)
      BY <1>0, <2>1, <2>2, <2>3
    <2>5. Cardinality(Running(jobs')) = Cardinality(Running(jobs)) + 1
      BY <1>0, <2>4, FS_AddElement
    <2> QED  BY <1>0, <2>1, <2>5, SpeechParams DEF Busy
  <1>6. ASSUME NEW i \in 1 .. Len(jobs), Service(i)  PROVE Busy'
    BY <1>2, <1>5, <1>6
    DEF Service, Start, DecodeFails, Finish, FinishWithError, Crash, Return
  <1>7. CASE Restart
    <2>1. Running(jobs') = {}  BY <1>7 DEF Restart, Running
    <2> QED  BY <2>1, FS_EmptySet, SpeechParams DEF Busy
  <1>8. CASE jobs' = jobs  BY <1>1, <1>8
  <1> QED
    BY <1>0, <1>3, <1>4, <1>6, <1>7, <1>8
    DEF Next, BeginCall, Refuse, LoseChunk, Unreachable, Tick, vars

\* What is heard is of the chunk at hand, which only grows in a segment.
LEMMA RecordHeard ==
    ASSUME CircuitInv, HeardTyped, Record
    PROVE  heard' \subseteq 1 .. chunk'.dur /\ before' \in Nat /\ tidy' \in BOOLEAN
  <1>1. ASSUME NEW s \in Slices, Grow(s)  PROVE heard' \subseteq 1 .. chunk'.dur
    <2>1. chunk'.dur = chunk.dur + s /\ heard' = heard /\ chunk.dur \in Nat
      BY <1>1 DEF Grow, CircuitInv, Chunk
    <2> QED  BY <2>1, SlicesType DEF HeardTyped
  <1>2. ASSUME NEW s \in Slices, NewSegment(s)
        PROVE  heard' \subseteq 1 .. chunk'.dur
    BY <1>2 DEF NewSegment
  <1>3. CASE Trailer
    BY <1>3 DEF Trailer, HeardTyped, CircuitInv, Chunk
  <1>4. before' \in Nat /\ tidy' \in BOOLEAN
    BY DEF Record, Grow, NewSegment, Trailer, HeardTyped
  <1> QED  BY <1>1, <1>2, <1>3, <1>4 DEF Record

LEMMA SaveTyped ==
    ASSUME CircuitInv, NEW i \in 1 .. Len(jobs), SaveState(jobs[i].chunk)
    PROVE  stream' \in [seg : 0 .. MaxSegs, dur : Nat]
  <1>1. jobs[i].chunk \in Chunk
    <2>1. jobs[i] \in Job  BY ElementOfSeq DEF CircuitInv
    <2> QED  BY <2>1 DEF Job
  <1> QED  BY <1>1, SpeechParams DEF SaveState, NoState, Chunk

LEMMA NextHeardTyped ==
    CircuitInv /\ Expected /\ HeardTyped /\ [Next]_vars => HeardTyped'
  <1> SUFFICES ASSUME CircuitInv, Expected, HeardTyped, [Next]_vars
               PROVE  HeardTyped'
    OBVIOUS
  <1>0. DOMAIN jobs = 1 .. Len(jobs)  BY LenProperties DEF CircuitInv
  <1>1. CASE BeginCall \/ Refuse \/ LoseChunk
    <2>1. Record /\ stream' = stream /\ calm' \in BOOLEAN
      BY <1>1 DEF BeginCall, Refuse, LoseChunk, HeardTyped
    <2> QED  BY <2>1, RecordHeard DEF HeardTyped
  <1>2. CASE UNCHANGED <<chunk, stream, heard, before, tidy>> /\ calm' \in BOOLEAN
    BY <1>2 DEF HeardTyped
  <1>3. CASE Attempt \/ Unreachable \/ Timeout \/ Reset \/ Tick
    BY <1>2, <1>3 DEF Attempt, Unreachable, Timeout, Reset, Tick, HeardTyped
  <1>4. CASE Restart
    <2>1. stream' = NoState /\ calm' = FALSE
          /\ UNCHANGED <<chunk, heard, before, tidy>>
      BY <1>4 DEF Restart
    <2>2. NoState \in [seg : 0 .. MaxSegs, dur : Nat]
      BY SpeechParams DEF NoState
    <2> QED  BY <2>1, <2>2 DEF HeardTyped
  <1>5. ASSUME NEW i \in 1 .. Len(jobs), Service(i)  PROVE HeardTyped'
    <2>1. CASE Start(i) \/ DecodeFails(i) \/ Crash(i)
      BY <1>2, <2>1 DEF Start, DecodeFails, Crash, HeardTyped
    <2>2. CASE FinishWithError(i)
      BY <2>2, SaveTyped DEF FinishWithError, MarkTidy, HeardTyped
    <2>3. CASE Finish(i)
      <3>1. jobs[i].live => Units(jobs[i].chunk) \subseteq 1 .. chunk.dur
        <4> SUFFICES ASSUME jobs[i].live
                     PROVE  Units(chunk) \subseteq 1 .. chunk.dur
          BY DEF Expected
        <4>1. chunk.dur \in Nat  BY DEF CircuitInv, Chunk
        <4> QED  BY <4>1, SpeechParams DEF Units
      <3> QED  BY <2>3, <3>1, SaveTyped DEF Finish, MarkTidy, HeardTyped
    <2> QED  BY <1>5, <2>1, <2>2, <2>3 DEF Service
  <1>6. CASE UNCHANGED vars  BY <1>2, <1>6 DEF vars, HeardTyped
  <1> QED  BY <1>0, <1>1, <1>3, <1>4, <1>5, <1>6 DEF Next

LEMMA InitTypeInv == Init => TypeInv
  <1> SUFFICES ASSUME Init  PROVE TypeInv
    OBVIOUS
  <1>1. CallTyped /\ HeardTyped
    BY SpeechParams DEF Init, CallTyped, HeardTyped, Idle, NoState
  <1>2. Expected  BY DEF Init, Expected, Idle
  <1>3. Running(jobs) = {}  BY DEF Init, Running
  <1>4. Busy  BY <1>3, FS_EmptySet, SpeechParams DEF Busy
  <1> QED  BY <1>1, <1>2, <1>4 DEF TypeInv

\* One live request while a call waits, none otherwise.
LEMMA OneAnswer ==
    ASSUME CircuitInv, Expected
    PROVE  Cardinality({i \in DOMAIN jobs : jobs[i].live})
             = (IF call.pc = "wait" THEN 1 ELSE 0)
  <1>1. DOMAIN jobs = 1 .. Len(jobs)  BY LenProperties DEF CircuitInv
  <1>2. CASE call.pc = "wait"
    <2>1. PICK i \in 1 .. Len(jobs) : jobs[i].live  BY <1>2 DEF Expected
    <2>2. {j \in DOMAIN jobs : jobs[j].live} = {i}
      BY <1>1, <2>1 DEF CircuitInv, Awaited
    <2> QED  BY <1>2, <2>2, FS_Singleton
  <1>3. CASE call.pc # "wait"
    <2>1. {j \in DOMAIN jobs : jobs[j].live} = {}
      BY <1>1, <1>3 DEF CircuitInv, Awaited
    <2> QED  BY <1>3, <2>1, FS_EmptySet
  <1> QED  BY <1>2, <1>3

(* Type correctness for any pool, breaker and number of faults: the        *)
(* service never runs more requests than it has threads, and an answer is  *)
(* awaited of exactly one request while a call waits (speech adapter,      *)
(* transcribe_audio_chunk).                                                *)
THEOREM TypeCorrect == Spec => []SpeechTypeOK
  <1>1. CircuitInv /\ TypeInv => SpeechTypeOK
    BY OneAnswer
    DEF TypeInv, CallTyped, Expected, Busy, HeardTyped, CircuitInv, Breaker,
        Running, SpeechTypeOK
  <1>2. CircuitInv /\ TypeInv /\ [Next]_vars => TypeInv'
    BY NextCallTyped, NextExpected, NextBusy, NextHeardTyped DEF TypeInv
  <1> QED
    BY <1>1, <1>2, InitCircuit, InitTypeInv, NextCircuit, PTL DEF Spec
-----------------------------------------------------------------------------
(* The texts of a segment.  They leave no gap where a slice of the         *)
(* recorder and a step fit into a window: a chunk that has to wait is less *)
(* than a step longer than what is covered, and the next one is a slice    *)
(* longer still.                                                           *)

SlicesFit == \A s \in Slices : s + Step <= Window

Bounded ==
    /\ ~chunk.final => chunk.dur < SegMax
    /\ chunk.dur <= SegMax + Window

\* What is transcribed is a final chunk or fills a window.
LongEnough ==
    \A i \in 1 .. Len(jobs) :
        jobs[i].running => jobs[i].chunk.final \/ jobs[i].chunk.dur >= Window

\* The texts cover the segment up to h, but for its start.
Covered(h) ==
    \E first \in 0 .. SegMax :
        /\ heard = first + 1 .. h
        /\ first = 0 \/ first + Window <= h
        /\ \E s \in Slices : first + Window < FirstRun + s

\* Nothing has been transcribed of this segment.
Untouched == heard = {} /\ stream.dur = before

\* The last call has been answered: the chunk was too short for a first
\* text, or waits for a step, or is covered, or there has been no call yet.
Told ==
    \/ Untouched /\ ~chunk.final /\ chunk.dur < FirstRun
    \/ \E h \in 0 .. chunk.dur :
         /\ Covered(h) /\ stream.dur <= h
         /\ h = chunk.dur \/ chunk.dur < h + Step
         /\ IF chunk.final THEN h = chunk.dur ELSE Window <= h
    \/ result = "none" /\ chunk.final /\ chunk.again

\* A call is under way: the window of the chunk begins no later than what is
\* covered ends.
Due ==
    \/ Untouched /\ \E s \in Slices : chunk.dur < FirstRun + s
    \/ \E h \in 0 .. chunk.dur :
         /\ Covered(h) /\ stream.dur <= h
         /\ \/ h = chunk.dur /\ chunk.final
            \/ Window <= h /\ chunk.dur <= h + Window

\* While nothing goes wrong there is no request that nobody waits for.
Gapless ==
    calm => /\ IF call.pc = "idle" THEN Told ELSE Due
            /\ \A i \in 1 .. Len(jobs) : jobs[i].live

NoAnswerYet == call.pc # "idle" => result = "none"

HeardInv == Bounded /\ LongEnough /\ Gapless /\ NoAnswerYet

LEMMA SliceFits ==
    ASSUME SlicesFit, NEW s \in Slices
    PROVE  s \in Nat \ {0} /\ s + Step <= Window /\ s <= Window
  <1>1. s \in Nat \ {0}  BY SlicesType
  <1>2. s + Step <= Window  BY DEF SlicesFit
  <1> QED  BY <1>1, <1>2, SpeechParams

LEMMA RecordBounded ==
    ASSUME SlicesFit, chunk \in Chunk, Bounded, Record
    PROVE  Bounded'
  <1> USE SpeechParams DEF Bounded, Chunk
  <1>1. ASSUME NEW s \in Slices, Grow(s)  PROVE Bounded'
    <2>1. /\ s \in Nat /\ s <= Window /\ chunk.dur < SegMax /\ chunk.dur \in Nat
          /\ chunk'.dur = chunk.dur + s
          /\ chunk'.final <=> chunk.dur + s >= SegMax
      BY <1>1, SliceFits DEF Grow
    <2>2. chunk'.dur <= SegMax + Window  BY <2>1
    <2>3. ~chunk'.final => chunk'.dur < SegMax  BY <2>1
    <2> QED  BY <2>2, <2>3
  <1>2. ASSUME NEW s \in Slices, NewSegment(s)  PROVE Bounded'
    <2>1. /\ s \in Nat /\ s <= Window
          /\ chunk'.dur = s /\ (chunk'.final <=> s >= SegMax)
      BY <1>2, SliceFits DEF NewSegment
    <2>2. chunk'.dur <= SegMax + Window  BY <2>1
    <2>3. ~chunk'.final => chunk'.dur < SegMax  BY <2>1
    <2> QED  BY <2>2, <2>3
  <1>3. CASE Trailer  BY <1>3 DEF Trailer
  <1> QED  BY <1>1, <1>2, <1>3 DEF Record

LEMMA CoveredStays ==
    ASSUME UNCHANGED <<heard, before>>, NEW h
    PROVE  Covered(h)' <=> Covered(h)
  BY DEF Covered, FirstRun

LEMMA FirstRunType ==
    ASSUME HeardTyped
    PROVE  FirstRun \in Nat /\ FirstRun >= Window /\ FirstRun >= before + Step
  BY SpeechParams DEF HeardTyped, FirstRun

LEMMA AtLeastWindow ==
    ASSUME NEW b \in Nat
    PROVE  \E f \in Nat :
             /\ f = IF b + Step > Window THEN b + Step ELSE Window
             /\ f >= Window
  BY SpeechParams

\* The next chunk begins where the texts so far end, or earlier.
LEMMA RecordDue ==
    ASSUME SlicesFit, CircuitInv, HeardTyped, Gapless,
           call.pc = "idle", Record, UNCHANGED stream,
           calm' = (IF chunk'.seg = chunk.seg THEN calm ELSE jobs = <<>>), calm'
    PROVE  Due' /\ \A i \in 1 .. Len(jobs) : jobs[i].live
  <1> USE SpeechParams
  <1>0. /\ chunk \in Chunk /\ chunk.dur \in Nat /\ chunk.seg \in Nat
        /\ stream.dur \in Nat /\ FirstRun \in Nat
    BY FirstRunType DEF CircuitInv, Chunk, HeardTyped
  <1>1. ASSUME calm  PROVE Told /\ \A i \in 1 .. Len(jobs) : jobs[i].live
    BY <1>1 DEF Gapless
  <1>2. ASSUME NEW s \in Slices, Grow(s)
        PROVE  Due' /\ \A i \in 1 .. Len(jobs) : jobs[i].live
    <2>1. /\ ~chunk.final /\ chunk'.dur = chunk.dur + s /\ chunk'.seg = chunk.seg
          /\ UNCHANGED <<heard, before>>
      BY <1>0, <1>2 DEF Grow, Chunk
    <2>2. Told /\ \A i \in 1 .. Len(jobs) : jobs[i].live
      BY <1>1, <2>1
    <2>3. s \in Nat \ {0} /\ s + Step <= Window  BY SliceFits
    <2>4. CASE Untouched /\ chunk.dur < FirstRun
      <3>1. chunk'.dur < FirstRun + s  BY <1>0, <2>1, <2>3, <2>4
      <3>2. FirstRun' = FirstRun  BY <2>1 DEF FirstRun
      <3> QED  BY <2>1, <2>2, <2>4, <3>1, <3>2 DEF Due, Untouched
    <2>5. ASSUME NEW h \in 0 .. chunk.dur, Covered(h), stream.dur <= h,
                 h = chunk.dur \/ chunk.dur < h + Step, Window <= h
          PROVE  Due'
      <3>1. h \in 0 .. chunk'.dur /\ chunk'.dur <= h + Window
        BY <1>0, <2>1, <2>3, <2>5
      <3>2. Covered(h)' /\ stream'.dur <= h
        BY <2>1, <2>5, CoveredStays
      <3> QED  BY <2>5, <3>1, <3>2 DEF Due
    <2> QED  BY <2>1, <2>2, <2>4, <2>5 DEF Told
  <1>3. ASSUME NEW s \in Slices, NewSegment(s)
        PROVE  Due' /\ \A i \in 1 .. Len(jobs) : jobs[i].live
    <2>1. /\ chunk'.dur = s /\ chunk'.seg = chunk.seg + 1 /\ heard' = {}
          /\ before' = stream.dur /\ s \in Nat
      BY <1>3, SlicesType DEF NewSegment
    <2>2. jobs = <<>>
      <3>1. chunk'.seg # chunk.seg  BY <1>0, <2>1
      <3>2. calm' = (jobs = <<>>)  BY <3>1
      <3> QED  BY <3>2
    <2>3. PICK f \in Nat : f = FirstRun' /\ f >= Window
      <3>1. PICK b \in Nat : b = before'  BY <1>0, <2>1
      <3>2. PICK f \in Nat :
              /\ f = IF b + Step > Window THEN b + Step ELSE Window
              /\ f >= Window
        BY AtLeastWindow
      <3>3. f = FirstRun'  BY <3>1, <3>2, Zenon DEF FirstRun
      <3> QED  BY <3>2, <3>3
    <2>4. chunk'.dur < FirstRun' + s
      <3>1. s \in Nat /\ f >= Window  BY <2>1, <2>3
      <3>2. s < f + s  BY <3>1
      <3>3. chunk'.dur < f + s  BY <2>1, <3>2
      <3> QED  BY <2>3, <3>3, Zenon
    <2>5. Untouched'  BY <2>1 DEF Untouched
    <2> QED  BY <2>2, <2>4, <2>5 DEF Due
  <1>4. CASE Trailer
    <2>1. /\ chunk.final /\ ~chunk.again /\ chunk'.final
          /\ UNCHANGED <<heard, before>>
          /\ chunk'.dur = chunk.dur /\ chunk'.seg = chunk.seg
      BY <1>0, <1>4 DEF Trailer, Chunk
    <2>2. Told /\ \A i \in 1 .. Len(jobs) : jobs[i].live
      BY <1>1, <2>1
    <2>3. PICK h \in 0 .. chunk.dur :
            Covered(h) /\ stream.dur <= h /\ h = chunk.dur
      BY <2>1, <2>2 DEF Told
    <2>4. Covered(h)' /\ stream'.dur <= h /\ h \in 0 .. chunk'.dur
      BY <1>0, <2>1, <2>3, CoveredStays
    <2> QED  BY <2>1, <2>2, <2>3, <2>4 DEF Due
  <1> QED  BY <1>2, <1>3, <1>4 DEF Record

\* A window that is transcribed joins what is covered.
LEMMA UnitsJoin ==
    ASSUME chunk \in Chunk, Bounded, HeardTyped, Due,
           heard' = heard \cup Units(chunk), UNCHANGED <<chunk, before>>
    PROVE  Covered(chunk.dur)'
  <1> USE SpeechParams
  <1> DEFINE dur   == chunk.dur
             start == IF dur > Window THEN dur - Window ELSE 0
  <1>0. dur \in Nat /\ start \in Nat /\ chunk'.dur = dur
        /\ FirstRun' = FirstRun /\ FirstRun \in Nat /\ FirstRun >= Window
    BY FirstRunType DEF Chunk, FirstRun
  <1>1. Units(chunk) = start + 1 .. dur  BY <1>0 DEF Units
  <1>2. CASE heard = {} /\ \E s \in Slices : dur < FirstRun + s
    <2>1. PICK s \in Slices : dur < FirstRun + s  BY <1>2
    <2>2. s \in Nat \ {0}  BY SlicesType
    <2>3. /\ start \in 0 .. SegMax /\ start + Window < FirstRun' + s
          /\ start = 0 \/ start + Window <= dur
      BY <1>0, <2>1, <2>2 DEF Bounded
    <2>4. heard' = start + 1 .. dur  BY <1>1, <1>2
    <2> HIDE DEF start
    <2> QED  BY <1>0, <2>3, <2>4 DEF Covered
  <1>3. ASSUME NEW h \in 0 .. dur, Covered(h), h = dur \/ dur <= h + Window
        PROVE  Covered(chunk.dur)'
    <2>1. PICK first \in 0 .. SegMax :
            /\ heard = first + 1 .. h
            /\ first = 0 \/ first + Window <= h
            /\ \E s \in Slices : first + Window < FirstRun + s
      BY <1>3 DEF Covered
    <2>2. first \in Nat /\ h \in Nat /\ h <= dur /\ first <= start /\ start <= h
      BY <1>0, <1>3, <2>1
    <2> HIDE DEF start
    <2>3. heard' = first + 1 .. dur
      <3>1. heard' = (first + 1 .. h) \cup (start + 1 .. dur)  BY <1>1, <2>1
      <3> QED  BY <1>0, <2>2, <3>1
    <2>4. first = 0 \/ first + Window <= dur  BY <1>0, <2>1, <2>2
    <2> QED  BY <1>0, <2>1, <2>3, <2>4 DEF Covered
  <1> QED  BY <1>2, <1>3 DEF Due, Untouched

LEMMA NextBounded ==
    SlicesFit /\ CircuitInv /\ Bounded /\ [Next]_vars => Bounded'
  <1> SUFFICES ASSUME SlicesFit, CircuitInv, Bounded, [Next]_vars
               PROVE  Bounded'
    OBVIOUS
  <1>0. DOMAIN jobs = 1 .. Len(jobs)  BY LenProperties DEF CircuitInv
  <1>1. CASE BeginCall \/ Refuse \/ LoseChunk
    BY <1>1, RecordBounded DEF BeginCall, Refuse, LoseChunk, CircuitInv
  <1>2. CASE UNCHANGED chunk  BY <1>2 DEF Bounded
  <1>3. CASE Attempt \/ Unreachable \/ Timeout \/ Reset \/ Tick \/ Restart
    BY <1>2, <1>3 DEF Attempt, Unreachable, Timeout, Reset, Tick, Restart
  <1>4. ASSUME NEW i \in 1 .. Len(jobs), Service(i)  PROVE Bounded'
    BY <1>2, <1>4
    DEF Service, Start, DecodeFails, Finish, FinishWithError, Crash
  <1>5. CASE UNCHANGED vars  BY <1>2, <1>5 DEF vars
  <1> QED  BY <1>0, <1>1, <1>3, <1>4, <1>5 DEF Next

LEMMA NextNoAnswerYet ==
    CircuitInv /\ NoAnswerYet /\ [Next]_vars => NoAnswerYet'
  <1> SUFFICES ASSUME CircuitInv, NoAnswerYet, [Next]_vars
               PROVE  NoAnswerYet'
    OBVIOUS
  <1>0. DOMAIN jobs = 1 .. Len(jobs)  BY LenProperties DEF CircuitInv
  <1> USE DEF NoAnswerYet, Idle
  <1>1. CASE BeginCall \/ Refuse \/ LoseChunk \/ Tick
    BY <1>1 DEF BeginCall, Refuse, LoseChunk, Tick
  <1>2. ASSUME call.pc # "idle", AttemptFails \/ Raises  PROVE NoAnswerYet'
    BY <1>2 DEF AttemptFails, Raises
  <1>3. CASE Attempt \/ Unreachable \/ Timeout \/ Reset
    BY <1>2, <1>3 DEF Attempt, Unreachable, Timeout, Reset
  <1>4. ASSUME NEW i, NEW outcome, Return(i, outcome)  PROVE NoAnswerYet'
    BY <1>4 DEF Return, Succeed
  <1>5. CASE UNCHANGED <<call, circuit, result>>  BY <1>5
  <1>6. CASE Restart
    <2>1. CASE call.pc = "wait"  BY <1>2, <1>6, <2>1 DEF Restart
    <2> QED  BY <1>5, <1>6, <2>1 DEF Restart
  <1>7. ASSUME NEW i \in DOMAIN jobs, Service(i)  PROVE NoAnswerYet'
    <2>1. CASE Start(i)  BY <1>4, <1>5, <2>1 DEF Start
    <2>2. CASE DecodeFails(i)  BY <1>4, <2>2 DEF DecodeFails
    <2>3. CASE Finish(i)  BY <1>4, <2>3 DEF Finish
    <2>4. CASE FinishWithError(i)  BY <1>4, <2>4 DEF FinishWithError
    <2>5. CASE Crash(i)
      <3>1. CASE ~jobs[i].live  BY <1>5, <2>5, <3>1 DEF Crash
      <3>2. CASE jobs[i].live
        <4>1. call.pc = "wait"  BY <1>0, <3>2 DEF CircuitInv, Awaited
        <4> QED  BY <1>2, <2>5, <3>2, <4>1 DEF Crash
      <3> QED  BY <3>1, <3>2
    <2> QED  BY <1>7, <2>1, <2>2, <2>3, <2>4, <2>5 DEF Service
  <1>8. CASE UNCHANGED vars  BY <1>5, <1>8 DEF vars
  <1> QED  BY <1>1, <1>3, <1>6, <1>7, <1>8 DEF Next

LEMMA NextLongEnough ==
    CircuitInv /\ LongEnough /\ [Next]_vars => LongEnough'
  <1> SUFFICES ASSUME CircuitInv, LongEnough, [Next]_vars  PROVE LongEnough'
    OBVIOUS
  <1>0. DOMAIN jobs = 1 .. Len(jobs) /\ jobs \in Seq(Job) /\ Len(jobs) \in Nat
    BY LenProperties DEF CircuitInv
  <1>1. CASE UNCHANGED jobs  BY <1>1 DEF LongEnough
  <1>2. CASE BeginCall \/ Refuse \/ LoseChunk \/ Unreachable \/ Tick
    BY <1>1, <1>2 DEF BeginCall, Refuse, LoseChunk, Unreachable, Tick
  <1>3. CASE Attempt
    <2> DEFINE job == [chunk |-> chunk, live |-> TRUE, running |-> FALSE]
    <2>1. jobs' = Append(jobs, job) /\ ~job.running  BY <1>3 DEF Attempt
    <2>2. /\ Len(Append(jobs, job)) = Len(jobs) + 1
          /\ Append(jobs, job)[Len(jobs) + 1] = job
          /\ \A i \in 1 .. Len(jobs) : Append(jobs, job)[i] = jobs[i]
      BY Appended DEF CircuitInv
    <2> HIDE DEF job
    <2>3. ASSUME NEW i \in 1 .. Len(jobs'), jobs'[i].running
          PROVE  jobs'[i].chunk.final \/ jobs'[i].chunk.dur >= Window
      <3>1. i \in 1 .. Len(jobs)  BY <1>0, <2>1, <2>2, <2>3
      <3>2. jobs'[i] = jobs[i]  BY <2>1, <2>2, <3>1
      <3> QED  BY <2>3, <3>1, <3>2 DEF LongEnough
    <2> QED  BY <2>3 DEF LongEnough
  <1>4. CASE Timeout \/ Reset
    <2>1. jobs' = Unawaited  BY <1>4 DEF Timeout, Reset
    <2>2. /\ Len(jobs') = Len(jobs)
          /\ \A i \in 1 .. Len(jobs) :
               jobs'[i].chunk = jobs[i].chunk /\ jobs'[i].running = jobs[i].running
      BY <1>0, <2>1, GivenUp
    <2> QED  BY <2>2 DEF LongEnough
  <1>5. CASE Restart
    BY <1>5 DEF Restart, LongEnough
  <1>6. ASSUME NEW i \in 1 .. Len(jobs), jobs' = Without(i)
        PROVE  LongEnough'
    <2>1. /\ Len(jobs') = Len(jobs) - 1
          /\ \A k \in 1 .. Len(jobs') :
               jobs'[k] = IF k < i THEN jobs[k] ELSE jobs[k + 1]
      BY <1>0, <1>6, WithoutJob
    <2>2. ASSUME NEW k \in 1 .. Len(jobs'), jobs'[k].running
          PROVE  jobs'[k].chunk.final \/ jobs'[k].chunk.dur >= Window
      <3>1. PICK l \in 1 .. Len(jobs) : jobs'[k] = jobs[l]
        BY <1>0, <2>1
      <3> QED  BY <2>2, <3>1 DEF LongEnough
    <2> QED  BY <2>2 DEF LongEnough
  <1>7. ASSUME NEW i \in 1 .. Len(jobs), Service(i)  PROVE LongEnough'
    <2>1. CASE DecodeFails(i) \/ Finish(i) \/ FinishWithError(i) \/ Crash(i)
      BY <1>6, <2>1 DEF DecodeFails, Finish, FinishWithError, Crash, Return
    <2>2. CASE Start(i)
      <3>1. CASE ~ShouldRun(jobs[i].chunk)
        BY <1>6, <2>2, <3>1 DEF Start, Return
      <3>2. CASE ShouldRun(jobs[i].chunk)
        <4>1. jobs' = [jobs EXCEPT ![i].running = TRUE]
          BY <2>2, <3>2 DEF Start
        <4>2. /\ Len(jobs') = Len(jobs)
              /\ \A j \in 1 .. Len(jobs) :
                   /\ jobs'[j].chunk = jobs[j].chunk
                   /\ j # i => jobs'[j].running = jobs[j].running
          BY <1>0, <4>1, Started
        <4>3. jobs[i].chunk.final \/ jobs[i].chunk.dur >= Window
          BY <3>2 DEF ShouldRun
        <4> QED  BY <4>2, <4>3 DEF LongEnough
      <3> QED  BY <3>1, <3>2
    <2> QED  BY <1>7, <2>1, <2>2 DEF Service
  <1>8. CASE UNCHANGED vars  BY <1>1, <1>8 DEF vars
  <1> QED  BY <1>0, <1>2, <1>3, <1>4, <1>5, <1>7, <1>8 DEF Next

LEMMA NextGapless ==
    SlicesFit /\ CircuitInv /\ TypeInv /\ HeardInv /\ [Next]_vars => Gapless'
  <1> SUFFICES ASSUME SlicesFit, CircuitInv, TypeInv, HeardInv, [Next]_vars,
                      calm'
               PROVE  /\ IF call'.pc = "idle" THEN Told' ELSE Due'
                      /\ \A i \in 1 .. Len(jobs') : jobs'[i].live
    BY DEF Gapless
  <1> DEFINE Same == UNCHANGED <<chunk, stream, heard, before, result>>
             Kept == \A i \in 1 .. Len(jobs') : jobs'[i].live
  <1>0. /\ DOMAIN jobs = 1 .. Len(jobs) /\ Len(jobs) \in Nat
        /\ jobs \in Seq(Job) /\ chunk \in Chunk /\ HeardTyped
        /\ chunk.dur \in Nat /\ stream.dur \in Nat
    BY LenProperties DEF CircuitInv, TypeInv, HeardTyped, Chunk
  <1>s. Same => (Told <=> Told') /\ (Due <=> Due')
    BY DEF Told, Due, Covered, Untouched, FirstRun
  <1>c. calm => /\ IF call.pc = "idle" THEN Told ELSE Due
                /\ \A i \in 1 .. Len(jobs) : jobs[i].live
    BY DEF HeardInv, Gapless
  <1>1. CASE BeginCall
    <2>1. Due' /\ \A i \in 1 .. Len(jobs) : jobs[i].live
      BY <1>0, <1>1, RecordDue DEF BeginCall, HeardInv
    <2>2. call'.pc # "idle" /\ UNCHANGED jobs  BY <1>1 DEF BeginCall
    <2> QED  BY <2>1, <2>2
  <1>2. CASE Attempt
    <2>1. /\ calm /\ call.pc = "try" /\ call'.pc = "wait" /\ Same
      <3>1. call \in [pc : {"idle", "try", "wait"}, attempt : 0 .. Retries]
        BY DEF TypeInv, CallTyped
      <3> QED  BY <1>2, <3>1 DEF Attempt
    <2>2. Due'  BY <1>c, <1>s, <2>1
    <2> DEFINE job == [chunk |-> chunk, live |-> TRUE, running |-> FALSE]
    <2>3. jobs' = Append(jobs, job) /\ job.live  BY <1>2 DEF Attempt
    <2>4. /\ Len(Append(jobs, job)) = Len(jobs) + 1
          /\ Append(jobs, job)[Len(jobs) + 1] = job
          /\ \A i \in 1 .. Len(jobs) : Append(jobs, job)[i] = jobs[i]
      BY <1>0, Appended
    <2> HIDE DEF job, Same
    <2>5. ASSUME NEW i \in 1 .. Len(jobs')  PROVE jobs'[i].live
      <3>1. i = Len(jobs) + 1 \/ i \in 1 .. Len(jobs)  BY <1>0, <2>3, <2>4
      <3> QED  BY <1>c, <2>1, <2>3, <2>4, <3>1
    <2> QED  BY <2>1, <2>2, <2>5
  <1>3. CASE Tick
    <2>1. Same /\ UNCHANGED <<calm, call, jobs>>  BY <1>3 DEF Tick
    <2> QED  BY <1>c, <1>s, <2>1
  <1>4. ASSUME NEW i \in 1 .. Len(jobs), calm, jobs' = Without(i)
        PROVE  Kept
    <2>1. /\ Len(jobs') = Len(jobs) - 1
          /\ \A k \in 1 .. Len(jobs') :
               jobs'[k] = IF k < i THEN jobs[k] ELSE jobs[k + 1]
      BY <1>0, <1>4, WithoutJob
    <2>2. \A k \in 1 .. Len(jobs') : \E l \in 1 .. Len(jobs) : jobs'[k] = jobs[l]
      BY <1>0, <2>1
    <2> QED  BY <1>4, <1>c, <2>2
  \* every request is of the chunk at hand, and its answer ends the call
  <1>l. ASSUME NEW i \in 1 .. Len(jobs), calm
        PROVE  /\ jobs[i].live /\ jobs[i].chunk = chunk /\ call.pc = "wait" /\ Due
               /\ \A outcome : Return(i, outcome) => call'.pc = "idle"
    <2>1. jobs[i].live  BY <1>c, <1>l
    <2>2. jobs[i].chunk = chunk /\ call.pc = "wait"
      BY <2>1 DEF TypeInv, Expected, CircuitInv, Awaited
    <2>3. Due  BY <1>c, <1>l, <2>2
    <2>4. \A outcome : Return(i, outcome) => call'.pc = "idle"
      BY <2>1 DEF Return, Succeed, Idle
    <2> QED  BY <2>1, <2>2, <2>3, <2>4
  <1>5. ASSUME NEW i \in 1 .. Len(jobs), Start(i)
        PROVE  (IF call'.pc = "idle" THEN Told' ELSE Due') /\ Kept
    <2>1. UNCHANGED <<chunk, stream, heard, before, calm>> /\ calm
      BY <1>5 DEF Start
    <2>2. CASE ShouldRun(jobs[i].chunk)
      <3>1. jobs' = [jobs EXCEPT ![i].running = TRUE] /\ Same /\ UNCHANGED call
        BY <1>5, <2>1, <2>2 DEF Start
      <3>2. /\ Len(jobs') = Len(jobs)
            /\ \A j \in 1 .. Len(jobs) : jobs'[j].live = jobs[j].live
        BY <1>0, <3>1, Started
      <3>3. Kept  BY <1>c, <2>1, <3>2
      <3> QED  BY <1>c, <1>s, <2>1, <3>1, <3>3
    <2>3. CASE ~ShouldRun(jobs[i].chunk)
      <3>1. Return(i, "empty")  BY <1>5, <2>3 DEF Start
      <3>2. jobs[i].chunk = chunk /\ Due /\ call'.pc = "idle"
        BY <1>l, <2>1, <3>1
      <3>3. Kept  BY <1>4, <2>1, <3>1 DEF Return
      <3>4. /\ ~chunk.final
            /\ ~(chunk.dur >= Window /\ chunk.dur >= stream.dur + Step)
        BY <2>3, <3>2 DEF ShouldRun
      <3>5. FirstRun' = FirstRun  BY <2>1 DEF FirstRun
      <3>6. CASE Untouched
        <4>1. chunk.dur < FirstRun
          BY <1>0, <3>4, <3>6, SpeechParams DEF Untouched, FirstRun
        <4>2. Told'  BY <2>1, <3>4, <3>5, <3>6, <4>1 DEF Told, Untouched
        <4> QED  BY <3>2, <3>3, <4>2
      <3>7. ASSUME NEW h \in 0 .. chunk.dur, Covered(h), stream.dur <= h,
                   Window <= h
            PROVE  Told'
        <4>1. chunk.dur < h + Step  BY <1>0, <3>4, <3>7, SpeechParams
        <4>2. Covered(h)'  BY <2>1, <3>7, CoveredStays
        <4> QED  BY <2>1, <3>4, <3>7, <4>1, <4>2 DEF Told
      <3> QED  BY <3>2, <3>3, <3>4, <3>6, <3>7 DEF Due
    <2> QED  BY <2>2, <2>3
  <1>6. ASSUME NEW i \in 1 .. Len(jobs), Finish(i)
        PROVE  (IF call'.pc = "idle" THEN Told' ELSE Due') /\ Kept
    <2>1. jobs[i].running /\ UNCHANGED <<chunk, before, calm>> /\ calm
      BY <1>6 DEF Finish
    <2>2. PICK outcome \in {"text", "empty"} : Return(i, outcome)
      BY <1>6 DEF Finish
    <2>3. Kept  BY <1>4, <2>1, <2>2 DEF Return
    <2>4. /\ jobs[i].live /\ jobs[i].chunk = chunk /\ Due /\ call'.pc = "idle"
      BY <1>l, <2>1, <2>2
    <2>5. heard' = heard \cup Units(chunk)  BY <1>6, <2>4 DEF Finish
    <2>6. Covered(chunk.dur)'
      BY <1>0, <2>1, <2>4, <2>5, UnitsJoin DEF HeardInv
    <2>7. PICK h \in 0 .. chunk.dur : h = chunk.dur  BY <1>0
    <2>8. Covered(h)'
      <3>1. chunk'.dur = h  BY <2>1, <2>7
      <3> QED  BY <2>6, <3>1 DEF Covered
    <2>9. stream'.dur <= h
      <3>1. stream'.dur = 0 \/ stream'.dur = chunk.dur
        BY <1>6, <2>4 DEF Finish, SaveState, NoState
      <3> QED  BY <1>0, <2>7, <3>1
    <2>10. chunk.final \/ Window <= h
      <3>1. chunk.final \/ chunk.dur >= Window
        BY <2>1, <2>4 DEF HeardInv, LongEnough
      <3> QED  BY <1>0, <2>7, <3>1, SpeechParams
    <2>11. Told'  BY <2>1, <2>7, <2>8, <2>9, <2>10 DEF Told
    <2> QED  BY <2>3, <2>4, <2>11
  <1>7. CASE UNCHANGED vars
    <2>1. Same /\ UNCHANGED <<calm, call, jobs>>  BY <1>7 DEF vars
    <2> QED  BY <1>c, <1>s, <2>1
  <1>8. ~(Refuse \/ LoseChunk \/ Unreachable \/ Timeout \/ Reset \/ Restart)
    BY DEF Refuse, LoseChunk, Unreachable, Timeout, Reset, Restart
  <1>9. \A i \in 1 .. Len(jobs) :
          ~(DecodeFails(i) \/ FinishWithError(i) \/ Crash(i))
    BY DEF DecodeFails, FinishWithError, Crash
  <1> HIDE DEF Kept
  <1>10. \/ BeginCall \/ Attempt \/ Tick \/ UNCHANGED vars
         \/ \E i \in 1 .. Len(jobs) : Start(i) \/ Finish(i)
    BY <1>0, <1>8, <1>9 DEF Next, Service
  <1> QED  BY <1>1, <1>2, <1>3, <1>5, <1>6, <1>7, <1>10 DEF Kept

LEMMA InitHeardInv == Init => HeardInv
  <1> SUFFICES ASSUME Init  PROVE HeardInv
    OBVIOUS
  <1> USE DEF Init
  <1>1. Bounded  BY SpeechParams DEF Bounded
  <1>2. LongEnough  BY DEF LongEnough
  <1>3. Gapless  BY DEF Gapless, Told, Idle
  <1>4. NoAnswerYet  BY DEF NoAnswerYet
  <1> QED  BY <1>1, <1>2, <1>3, <1>4 DEF HeardInv

(* Where a slice of the recorder and WHISPER_STEP_SECONDS fit into         *)
(* WHISPER_WINDOW_SECONDS (the page records slices of one second, steps    *)
(* are two and windows four), the texts of a segment in which nothing goes *)
(* wrong cover it up to its end, for any number of threads, although       *)
(* chunks wait for the step.  What is lost at its start is less than a     *)
(* slice, and what the duration of a segment without a transcribed final   *)
(* chunk delays (should_run and the window of _whisper_sync).              *)
THEOREM TextsLeaveNoGap ==
    ASSUME SlicesFit
    PROVE  Spec => []HeardFromFirstWindow
  <1>1. HeardInv => HeardFromFirstWindow
    <2> SUFFICES ASSUME HeardInv, calm, chunk.final,
                        result \in {"text", "empty"}
                 PROVE  \E first \in 0 .. SegMax :
                          /\ heard = first + 1 .. chunk.dur
                          /\ \E s \in Slices : first + Window < FirstRun + s
      BY DEF HeardFromFirstWindow
    <2>1. call.pc = "idle"  BY DEF HeardInv, NoAnswerYet
    <2>2. Told  BY <2>1 DEF HeardInv, Gapless
    <2>3. Covered(chunk.dur)  BY <2>2 DEF Told
    <2> QED  BY <2>3 DEF Covered
  <1>2. /\ CircuitInv /\ TypeInv /\ HeardInv /\ [Next]_vars
        => CircuitInv' /\ TypeInv' /\ HeardInv'
    <2> SUFFICES ASSUME CircuitInv, TypeInv, HeardInv, [Next]_vars
                 PROVE  CircuitInv' /\ TypeInv' /\ HeardInv'
      OBVIOUS
    <2>1. CircuitInv'  BY NextCircuit
    <2>2. TypeInv'
      BY NextCallTyped, NextExpected, NextBusy, NextHeardTyped DEF TypeInv
    <2>3. Bounded'  BY NextBounded DEF HeardInv
    <2>4. LongEnough'  BY NextLongEnough DEF HeardInv
    <2>5. NoAnswerYet'  BY NextNoAnswerYet DEF HeardInv
    <2>6. Gapless'  BY NextGapless
    <2> QED  BY <2>1, <2>2, <2>3, <2>4, <2>5, <2>6 DEF HeardInv
  <1>3. Init => CircuitInv /\ TypeInv /\ HeardInv
    BY InitCircuit, InitTypeInv, InitHeardInv
  <1> QED  BY <1>1, <1>2, <1>3, PTL DEF Spec
=============================================================================
