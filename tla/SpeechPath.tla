----------------------------- MODULE SpeechPath -----------------------------
(***************************************************************************)
(* How the voice of one participant becomes text: the recorder of the page *)
(* (useMeetingAudioChunks.ts) sends a growing segment again and again, the *)
(* ai-gateway passes one chunk at a time to transcribe_audio_chunk         *)
(* (retries, circuit breaker), and the speech service transcribes the last *)
(* window of it on a pool of threads, with a state per stream.             *)
(*                                                                         *)
(* Abstracted: audio is a number of time units (its duration, and the time *)
(* since the segment began, are the same), a text is the window it was     *)
(* made from; a chunk is recorded when the gateway is ready for it (its    *)
(* queue is FIFO and the page does not wait for it); a sleep between       *)
(* attempts takes no step; the engine is whisper.  A call that raises ends *)
(* the connection of the gateway (Gateway, Transcribe): the chunks of the  *)
(* time until it is connected again are lost.                              *)
(***************************************************************************)
EXTENDS Naturals, Sequences, FiniteSets

CONSTANTS
    Slices,      \* how long a slice of the recorder may be
    SegMax,      \* SEGMENT_MAX_MS: the chunk that reaches it is the final one
    Window,      \* WHISPER_WINDOW_SECONDS
    Step,        \* WHISPER_STEP_SECONDS
    Workers,     \* SPEECH_ASR_WORKERS
    Retries,     \* attempts after the first
    Threshold,   \* circuit_failure_threshold
    OpenFor,     \* circuit_open_sec, in ticks
    MaxSegs,     \* bound: segments
    MaxFaults    \* bound: everything that goes wrong

ASSUME SlicesType == Slices \subseteq Nat \ {0}
ASSUME SpeechParams ==
    /\ Window \in Nat \ {0} /\ Step \in Nat
    /\ Workers \in Nat \ {0} /\ Retries \in Nat
    /\ Threshold \in Nat \ {0} /\ OpenFor \in Nat \ {0}
    /\ SegMax \in Nat /\ MaxSegs \in Nat /\ MaxFaults \in Nat

VARIABLES
    chunk,       \* the chunk at hand: what of which segment, and whether final
    call,        \* the call about it: where it is, and the attempt
    fails,       \* _circuit: consecutive failures since it last opened
    open,        \* _circuit: ticks until it closes
    jobs,        \* the pool: waiting and running requests, oldest first
    stream,      \* _stream_state of the participant
    faults,      \* bound
    result,      \* history: how the last call ended
    heard,       \* history: the units of this segment whose text was told
    before,      \* history: the duration stream held when it began
    calm,        \* history: nothing has gone wrong in this segment, and no
                 \*          request that was given up ran on when it began
    tidy,        \* history: the service has transcribed the final chunk of
                 \*          this segment
    streak, age  \* history: calls that were given up and counted with no
                 \*          answer between them, and the age of the last

circuit == <<fails, open, streak, age>>
vars    == <<chunk, call, circuit, jobs, stream, faults, result, heard,
             before, calm, tidy>>

Chunk     == [seg : 0 .. MaxSegs, dur : Nat, final : BOOLEAN,
              again : BOOLEAN]
Job       == [chunk : Chunk, live : BOOLEAN, running : BOOLEAN]
NoState   == [seg |-> 0, dur |-> 0]
Idle      == [pc |-> "idle", attempt |-> 0]

SpeechTypeOK ==
    /\ chunk \in Chunk
    /\ call \in [pc : {"idle", "try", "wait"}, attempt : 0 .. Retries]
    /\ fails \in 0 .. Threshold - 1 /\ open \in 0 .. OpenFor
    /\ stream \in [seg : 0 .. MaxSegs, dur : Nat]
    /\ heard \subseteq 1 .. chunk.dur
    /\ before \in Nat
    /\ result \in {"none", "text", "empty", "failed", "raised", "refused",
                   "lost"}
    /\ calm \in BOOLEAN /\ tidy \in BOOLEAN
    /\ streak \in Nat /\ age \in 0 .. OpenFor
    /\ jobs \in Seq(Job)
    \* an answer is awaited of one job at most, and exactly while waiting
    /\ Cardinality({i \in DOMAIN jobs : jobs[i].live})
         = (IF call.pc = "wait" THEN 1 ELSE 0)
    /\ Cardinality({i \in DOMAIN jobs : jobs[i].running}) <= Workers

Init ==
    /\ chunk = [seg |-> 0, dur |-> 0, final |-> TRUE, again |-> TRUE]
    /\ call = Idle
    /\ fails = 0 /\ open = 0 /\ streak = 0 /\ age = OpenFor
    /\ jobs = <<>> /\ stream = NoState
    /\ faults = 0 /\ result = "none"
    /\ heard = {} /\ before = 0 /\ calm = TRUE /\ tidy = TRUE

(* What goes wrong is bounded.                                             *)
Fault == faults < MaxFaults /\ faults' = faults + 1
-----------------------------------------------------------------------------
(* The recorder.                                                           *)

Grow(s) ==
    /\ ~chunk.final
    /\ chunk' = [chunk EXCEPT !.dur = @ + s, !.final = chunk.dur + s >= SegMax]
    /\ UNCHANGED <<heard, before, tidy>>

(* After the final chunk, or without one when the microphone was muted.    *)
NewSegment(s) ==
    /\ chunk.seg < MaxSegs
    /\ chunk' = [seg |-> chunk.seg + 1, dur |-> s, final |-> s >= SegMax,
                 again |-> FALSE]
    /\ heard' = {} /\ before' = stream.dur /\ tidy' = FALSE

(* The recorder flushes a last piece when it is stopped: if it gets in     *)
(* before the restart, the segment is sent once more as final.             *)
Trailer ==
    /\ chunk.final /\ ~chunk.again
    /\ chunk' = [chunk EXCEPT !.again = TRUE]
    /\ UNCHANGED <<heard, before, tidy>>

Record == (\E s \in Slices : Grow(s) \/ NewSegment(s)) \/ Trailer
-----------------------------------------------------------------------------
(* transcribe_audio_chunk.                                                 *)

(* The next chunk: the circuit is looked at when its call starts.          *)
BeginCall ==
    /\ call.pc = "idle" /\ open = 0
    /\ Record
    /\ call' = [pc |-> "try", attempt |-> 0] /\ result' = "none"
    /\ calm' = IF chunk'.seg = chunk.seg THEN calm ELSE jobs = <<>>
    /\ UNCHANGED <<circuit, jobs, stream, faults>>

Refuse ==
    /\ call.pc = "idle" /\ open > 0
    /\ Record
    /\ result' = "refused" /\ calm' = FALSE
    /\ UNCHANGED <<call, circuit, jobs, stream, faults>>

(* A chunk that does not reach the gateway.                                *)
LoseChunk ==
    /\ call.pc = "idle" /\ Record /\ Fault
    /\ result' = "lost" /\ calm' = FALSE
    /\ UNCHANGED <<call, circuit, jobs, stream>>

Attempt ==
    /\ call.pc = "try"
    /\ call' = [call EXCEPT !.pc = "wait"]
    /\ jobs' = Append(jobs, [chunk |-> chunk, live |-> TRUE,
                             running |-> FALSE])
    /\ UNCHANGED <<chunk, circuit, stream, faults, result, heard, before,
                   calm, tidy>>

(* An attempt has failed: try again, or count a failure.                   *)
AttemptFails ==
    IF call.attempt < Retries
    THEN /\ call' = [pc |-> "try", attempt |-> call.attempt + 1]
         /\ UNCHANGED <<circuit, result>>
    ELSE /\ call' = Idle
         /\ result' = "failed"
         /\ streak' = streak + 1 /\ age' = 0
         /\ IF fails + 1 >= Threshold
            THEN fails' = 0 /\ open' = OpenFor
            ELSE fails' = fails + 1 /\ UNCHANGED open

Unreachable ==
    /\ call.pc = "try"
    /\ Fault /\ AttemptFails /\ calm' = FALSE
    /\ UNCHANGED <<chunk, jobs, stream, heard, before, tidy>>

(* Nobody waits for an answer any more; the service does not know.         *)
Unawaited == [i \in DOMAIN jobs |-> [jobs[i] EXCEPT !.live = FALSE]]

Timeout ==
    /\ call.pc = "wait"
    /\ Fault /\ AttemptFails /\ calm' = FALSE
    /\ jobs' = Unawaited
    /\ UNCHANGED <<chunk, stream, heard, before, tidy>>

(* The connection is reset while the answer is awaited.  urllib wraps only *)
(* what happens before in a URLError, so no handler of the adapter catches *)
(* it: the call is not repeated and not counted, it raises.                *)
Raises ==
    /\ call' = Idle /\ result' = "raised"
    /\ UNCHANGED circuit

Reset ==
    /\ call.pc = "wait"
    /\ Fault /\ Raises /\ calm' = FALSE
    /\ jobs' = Unawaited
    /\ UNCHANGED <<chunk, stream, heard, before, tidy>>

Succeed_KeepsCount(outcome) ==
    /\ call' = Idle /\ result' = outcome
    /\ open' = 0 /\ streak' = 0 /\ UNCHANGED <<fails, age>>

(* Any JSON answer closes the circuit, whatever it says.                   *)
Succeed(outcome) ==
    /\ call' = Idle /\ result' = outcome
    /\ fails' = 0 /\ open' = 0 /\ streak' = 0 /\ UNCHANGED age

Tick ==
    /\ age < OpenFor
    /\ age' = age + 1
    /\ open' = IF open > 0 THEN open - 1 ELSE 0
    /\ UNCHANGED <<chunk, call, fails, streak, jobs, stream, faults, result,
                   heard, before, calm, tidy>>
-----------------------------------------------------------------------------
(* The speech service.                                                     *)

Without(i) == SubSeq(jobs, 1, i - 1) \o SubSeq(jobs, i + 1, Len(jobs))

(* Job i leaves the pool: its answer is for a caller that still waits.     *)
Return(i, outcome) ==
    /\ jobs' = Without(i)
    /\ IF jobs[i].live THEN Succeed(outcome)
                       ELSE UNCHANGED <<call, circuit, result>>

Oldest_NoLimit(i) ==
    ~jobs[i].running /\ \A j \in 1 .. i - 1 : jobs[j].running

(* The oldest request that waits gets a free thread.                       *)
Oldest(i) ==
    /\ ~jobs[i].running /\ \A j \in 1 .. i - 1 : jobs[j].running
    /\ Cardinality({j \in DOMAIN jobs : jobs[j].running}) < Workers

ShouldRun_Swapped(c) ==
    c.final \/ (c.dur >= Step /\ c.dur >= stream.dur + Window)

(* It decodes its audio and reads the state of the stream: is there enough *)
(* that is new?                                                            *)
ShouldRun(c) ==
    c.final \/ (c.dur >= Window /\ c.dur >= stream.dur + Step)

Start(i) ==
    /\ Oldest(i)
    /\ IF ShouldRun(jobs[i].chunk)
       THEN /\ jobs' = [jobs EXCEPT ![i].running = TRUE]
            /\ UNCHANGED <<call, circuit, result>>
       ELSE Return(i, "empty")
    /\ UNCHANGED <<chunk, stream, faults, heard, before, calm, tidy>>

(* A chunk that cannot be decoded is answered before the state is looked   *)
(* at, also when it is final.                                              *)
DecodeFails(i) ==
    /\ Oldest(i)
    /\ Fault /\ calm' = FALSE
    /\ Return(i, "empty")
    /\ UNCHANGED <<chunk, stream, heard, before, tidy>>

Units(c) == (IF c.dur > Window THEN c.dur - Window + 1 ELSE 1) .. c.dur

SaveState_NeverForgets(c) == stream' = [seg |-> c.seg, dur |-> c.dur]

SaveState(c) ==
    stream' = IF c.final THEN NoState ELSE [seg |-> c.seg, dur |-> c.dur]

MarkTidy(c) == tidy' = (tidy \/ (c.final /\ c.seg = chunk.seg))

(* The window is transcribed.  "empty": silence, or the words told before, *)
(* which are not sent twice in a row.                                      *)
Finish(i) ==
    /\ jobs[i].running
    /\ \E outcome \in {"text", "empty"} : Return(i, outcome)
    /\ SaveState(jobs[i].chunk) /\ MarkTidy(jobs[i].chunk)
    /\ heard' = IF jobs[i].live THEN heard \cup Units(jobs[i].chunk) ELSE heard
    /\ UNCHANGED <<chunk, faults, before, calm>>

(* The model raises when it is called: the answer has no text, the state   *)
(* goes on.                                                                *)
FinishWithError(i) ==
    /\ jobs[i].running
    /\ Fault /\ calm' = FALSE
    /\ Return(i, "empty")
    /\ SaveState(jobs[i].chunk) /\ MarkTidy(jobs[i].chunk)
    /\ UNCHANGED <<chunk, heard, before>>

Crash_Unanswered(i) ==
    /\ jobs[i].running
    /\ Fault /\ calm' = FALSE
    /\ jobs' = Without(i)
    /\ UNCHANGED <<call, circuit, result, chunk, stream, heard, before, tidy>>

(* The model raises while its segments are read, or cannot be loaded: 500. *)
Crash(i) ==
    /\ jobs[i].running
    /\ Fault /\ calm' = FALSE
    /\ jobs' = Without(i)
    /\ IF jobs[i].live THEN AttemptFails ELSE UNCHANGED <<call, circuit, result>>
    /\ UNCHANGED <<chunk, stream, heard, before, tidy>>

(* The service restarts: pool and states are gone, connections are reset.  *)
Restart ==
    /\ jobs # <<>>
    /\ Fault /\ calm' = FALSE
    /\ jobs' = <<>> /\ stream' = NoState
    /\ IF call.pc = "wait" THEN Raises
                           ELSE UNCHANGED <<call, circuit, result>>
    /\ UNCHANGED <<chunk, heard, before, tidy>>
-----------------------------------------------------------------------------
Service(i) ==
    Start(i) \/ DecodeFails(i) \/ Finish(i) \/ FinishWithError(i) \/ Crash(i)

Next ==
    \/ BeginCall \/ Refuse \/ LoseChunk
    \/ Attempt \/ Unreachable \/ Timeout \/ Reset \/ Tick
    \/ \E i \in DOMAIN jobs : Service(i)
    \/ Restart

Spec == Init /\ [][Next]_vars

(* The adapter goes on and the pool serves its requests; nobody has to     *)
(* speak and nothing has to go wrong.                                      *)
FairSpec ==
    /\ Spec
    /\ WF_vars(Attempt)
    /\ WF_vars(\E i \in DOMAIN jobs : Start(i) \/ Finish(i))
-----------------------------------------------------------------------------
(* The circuit refuses a call only after Threshold calls that were given   *)
(* up after their last attempt, with no answer between them, the last of   *)
(* them no longer ago than circuit_open_sec.  A call that raised neither   *)
(* counts nor breaks such a row.                                           *)
RefusalJustified ==
    [][Refuse => streak >= Threshold /\ age < OpenFor]_vars

(* One thread: once the final chunk of a segment is transcribed, no state  *)
(* is left that the next segment could be compared with, although requests *)
(* of calls that were given up run on.  (A segment that is muted or lost   *)
(* before leaves its state: see the next property.)                        *)
NoStaleState == Workers = 1 /\ tidy => stream = NoState

(* In a segment in which nothing goes wrong the first transcription is due *)
(* when the segment fills a window and is a step longer than the state     *)
(* that an earlier segment, muted or cut off, has left behind.             *)
FirstRun == IF before + Step > Window THEN before + Step ELSE Window

(* If nothing goes wrong from its first chunk on, the texts of a segment   *)
(* cover it up to its end without a gap, however often the step makes a    *)
(* chunk wait.  What is never transcribed is its start: less than a slice  *)
(* and, after a segment without a transcribed final chunk, what its old    *)
(* duration delays the first transcription by.                             *)
HeardFromFirstWindow ==
    calm /\ chunk.final /\ result \in {"text", "empty"} =>
        \E first \in 0 .. SegMax :
            /\ heard = first + 1 .. chunk.dur
            /\ \E s \in Slices : first + Window < FirstRun + s

(* Every call ends.                                                        *)
CallsEnd == (call.pc # "idle") ~> (call.pc = "idle")
=============================================================================
