# Verification of the e-meeting system

TLA+ models of the parts of this repository whose correctness depends on the order in which
goroutines, asyncio tasks, threads, connections, browsers and database statements happen to run. TLC checks them on small
instances; TLAPS proves the main results for every value of the constants.

Paths below are relative to `src/code/`.

## 1. The system

| Component | State | Operations | Talks to |
|---|---|---|---|
| **Meeting service** `emeeting-backend/internal/meeting` | tables `session.meeting_*`, `meeting_participant`, `meeting_events` | GetStatus, StartMeeting, EndMeeting, Join, Leave, RequireRole; one to three SQL statements each, no transaction | PostgreSQL; called by the room |
| **Meeting room** `internal/session/ws_handler.go`, `meeting_wire.go` | per connection: participant id, name, role; `Handler.connRoles` | join, leave, end_meeting, chat, media, signalling; deferred exit with the automatic end of the meeting | meeting service, hub, chat, analysis |
| **Session hub** `internal/session/hub.go` | connections, join metadata, write locks, analysis subscribers | Add, SetJoinMeta, ParticipantSnapshot, RemoveConnJoinMeta, Broadcast, BroadcastMedia, Remove, Add/RemoveAnalysisSubscriber | every WebSocket |
| **Meeting client** `emeeting-ui/src` (VideoMeet, handleMeetingEvent, useMeetingStore, useSessionWS) | tiles, toasts, socket, reconnect timer | join on open, leave, end, reconnect with back-off, upsert from analysis results | the room |
| **Auth** `internal/auth`, `middleware` | `auth_user` counters, `refresh_tokens`, `auth_events`, rate-limit map | login, token, refresh with rotation, logout, lock, rate limit | PostgreSQL, browser |
| **API client** `emeeting-ui/src/api/http.ts` | cookie jar shared by all tabs | fetch, refresh on 401, retry | auth |
| **Analysis ingestion** `internal/analysis` | `analysis_event`, `analysis_report` | RecordInbound, latest report, event lists, transcription, stub report | AI gateway via AnalysisWS |
| **Chat** `internal/chat` | `session_chat_message` | AppendMessage with duplicate detection, ListRecent | the room |
| **Sessions, configs, reports** `internal/session`, `internal/reports` | `session`, `analysis_configs`, report tables | CRUD, read-only aggregation | PostgreSQL |
| **AI gateway, tasks** `ai-gateway/ws_client.py`, `handlers.py`, `report_loop.py`, `feature_store.py` | websocket and token of the newest connection, inbound queue, what joins switched off, ring of 512 rows for each room, counters and what was last told of them | connect with retries, read, handle one message, report every few seconds, reload the modules file, final report when cancelled | AnalysisWS; speech and report services |
| **AI gateway, analyses and reports** `modules/*` | runtime parameters, last box of each participant | gates for a face, smoothed box, envelopes; the local report from the rows of the ring; choice between local and remote report | feature store |
| **AI gateway, speech adapter** `adapters/speech_service.py` | circuit breaker | one call with retries for each chunk | speech service |
| **Speech service** `speech-service` | pool of threads; last text and duration of each stream | transcribe the last window of a growing segment | AI gateway |
| **Audio recorder** `emeeting-ui/.../useMeetingAudioChunks.ts` | segment being recorded | slices, final chunk, restart | the room, then the gateway |

What is hard: a WebSocket connection is a goroutine, and everything it does to the database is a
sequence of statements without a transaction, so two connections of one session interleave
between the check and the write. The hub is protected by a mutex, but a broadcast writes to its
recipients after releasing it, and a handler uses the hub several times. Participants have several
identities: a user (database), a connection (hub), a participant id (tiles). Browsers reconnect
by themselves, so an old and a new connection of one participant overlap. Token rotation is a
read, an insert and an update, raced by the tabs of one browser.

The gateway is one process of asyncio tasks. Each connection has a reader and a report loop, and the
main task handles messages one at a time; any of them may run whenever another one awaits. Socket,
counters and feature store are shared, the loops of two connections can overlap, a loop can be
cancelled in the middle of a send, and every clause of `connect` can raise. Behind it, a chunk of
speech passes retries, a breaker and a pool of threads: a caller that has given up leaves a request
running, which still writes the state of its stream. Reports are counted from a ring that drops its
oldest rows, in several passes that must tell one story. The `hazards` list of
`PROJECT.json` names each place with its line.

What makes each part correct:

* service: the status only moves along the allowed transitions; stamps agree with the status and
  are set once; one active row per user; the audit log records what happened and nothing else;
* room: hub and database agree on who is there; nobody's row is orphaned; everybody connected
  learns that the meeting has ended; an empty meeting does not stay active;
* hub: its four tables agree; clients show exactly those who are present;
* tokens: a logged-in browser never loses its session to an interleaving or a failing statement; a
  token is exchanged once; every request is answered;
* gateway: it always connects again; a report shows only what the room was sent, in order, and never
  an older moment than the report before; a connection that is left in good order has sent final
  reports; no failure is told of twice; a module that was switched off stays silent;
* analyses and reports: the box stays in the frame; the sections of one report agree with one another
  and with the gates, whatever the ring has dropped;
* speech: the breaker refuses only after the failures it is configured for; a segment that was
  transcribed to its end leaves no state to compare the next one with; an undisturbed segment is
  transcribed without gaps, and what it loses of its start is bounded, also after a segment that did leave
  its state; every call ends.

## 2. Modules

| Module | Models | Extends / composes |
|---|---|---|
| `MeetingLifecycle` | abstract specification: a transition is granted to a caller when it is legal and takes effect at most once for each grant | |
| `MeetingService` | `service.go`, `repository.go`, migrations 003 and 004, one SQL statement per step | implements `MeetingLifecycle` (`ImplementsLifecycle`) |
| `MeetingServiceProofs` | theorems about `MeetingService` | `MeetingService`, TLAPS |
| `MeetingRoom` | `ws_handler.go`, `meeting_wire.go` | composes connections with `MeetingService` |
| `MeetingRoomProofs` | theorems about `MeetingRoom` | `MeetingRoom`, `MeetingServiceProofs` |
| `SessionHub` | `hub.go`, its callers in `ws_handler.go`, the tiles of the client | |
| `SessionHubProofs` | theorems about `SessionHub` | `SessionHub`, TLAPS |
| `TokenRotation` | `auth/service.go`, `auth/handler.go`, `api/http.ts` | |
| `TokenRotationProofs` | theorems about `TokenRotation` | `TokenRotation`, TLAPS |
| `ReportFeed` | abstract specification: what the report stream of the gateway promises a room | |
| `Gateway` | `ws_client.py`, `handlers.py`, `report_loop.py`, `feature_store.py`, `session_modules.py`, `data_quality.py`, the plugins as far as they await | implements `ReportFeed` (`ImplementsFeed`) |
| `GatewayProofs` | theorems about `Gateway` | `Gateway`, TLAPS |
| `GatewayFeedProofs` | that `Gateway` implements `ReportFeed` | `GatewayProofs` |
| `ReportBuilder` | `modules/report`: the local report as a pure function of the rows, the choice of the remote one | |
| `AnalysisPath` | `modules/face`, `modules/audio`, `modules/text`: from a frame or a chunk to rows | `ReportBuilder`, over whose rows it computes a report in every state |
| `AnalysisPathProofs` | theorems about `AnalysisPath` | `AnalysisPath`, TLAPS |
| `SpeechPath` | `useMeetingAudioChunks.ts`, `adapters/speech_service.py`, `speech-service/main.py`, `asr_whisper.py` | composes recorder, adapter and service |
| `SpeechPathProofs` | theorems about `SpeechPath` | `SpeechPath`, TLAPS |
| `MCMeetingRoom`, `MCSessionHub`, `MCGateway`, `MCAnalysisPath` | instances for TLC: who may connect, and as what; symmetry; what joins ask for; settings of the face module | the module they name |

### MeetingService

`pc[c]` is the place of goroutine `c` inside a service call; `seen[c]` is the status its GetStatus
returned, which it goes on to use however old it has become; `arg[c]` holds the arguments. A step is
one SQL statement with the Go code up to the next. A statement may fail (`DBErrors`); the errors of
`AppendEvent` are dropped as in the code. The partial unique index of migration 004 is the guard of
`InsertRow`: a loser of the race gets an error. `status` uses the five status codes, the time
stamps are members of `Times`.

`MeetingLifecycle` is what callers may rely on. The refinement mapping reads the grants off the
program counters: a call between the check of the status and the UPDATE (`start_write`, `end_write`)
holds a grant. The abstract specification does not promise that a transition is still legal when it
takes effect. Callers that do not overlap get that too (theorem `SerialReadsAreFresh`); for others the
run `meeting_revived` shows that they do not.

### MeetingRoom

`stage[c]` is the place of a connection's goroutine in the read loop, a handler or the deferred exit.
The calls it makes of the service are the calls of `MeetingService`, so the statements of all
connections interleave. `pid`, `role` and `remaining` are the local variables of `WS` that the
deferred exit reads. Clients do what the UI does: join when the socket opens, then leave or end, or lose
the connection. A reconnect or a second tab is another connection of the same user. `told`, `late`
and `spared` are history: who was sent meeting_ended, who connected after the end, and whether a
host has used the leave button or gone while a co-host was there. In those last two cases the code
does not end the meeting when the room empties (a leave message clears `participantID`,
`ws_handler.go:399`, so the exit skips the automatic end; a co-host's exit never ends a meeting), and
`EmptyRoomEnded` makes an exception of them. `HubMatchesDb` makes an exception of users with two
connections, because `LeaveParticipant` deactivates the row of the user, not of the connection: the
tab that stays is in the hub without a row.

### SessionHub

`sessions`, `joinMeta`, `connLocks` and `analysisConns` are the maps of the hub, restricted to one
session. A critical section is one step. `Broadcast` collects `targets[g]` in one step and writes to
them one at a time, in any order, as Go iterates a map. A client's `tiles` are updated when the
frame is written: frames of one socket arrive in order, and nobody else reads the tiles. `early[c]`
and `apart` are history: who had joined when `c` joined, and whether every join, leave and exit
handler so far had the hub to itself, with no frame still to be answered. `TilesExact` is about those
histories. Without the condition it fails in two ways: a snapshot taken during an exit contains the
departed (`hub_ghost`), and the answer to a frame of somebody who has gone brings the tile back
(`VideoMeet.tsx:434`). `LateSeesEarly` is checked and proved for connections with a participant id
of their own: leave messages name the participant id, so the exit of an old connection removes the
tile of a participant who has reconnected under the same id (`handleMeetingEvent.ts:38`).

### TokenRotation

`row` and `heir` are the table `refresh_tokens`; `cookie` and `access` are the browser's jar. A call
sends what the jar holds when it is sent and changes the jar when its answer arrives, so answers of
different tabs overtake each other. `Lose` drops a request or an answer after the server has done
the work. `parent`, `lost` and `calm` are history: what each token was exchanged for, which answers
were lost, and whether requests have overlapped or statements failed. `RotatedOnce` and
`RefusedOnlyIfDead` are about calm histories: two refreshes that overlap can both pass the check of
`revoked_at` and mint a successor each, or the second is refused (`tokens_two_tabs`). Logout needs
a valid access token and apiFetch does not refresh for `/auth/` paths, so an idle tab's logout gets a
401 and clears nothing (`SendLogout`); no property is stated about that.

### Gateway

An action is what one task does from one await to the next. `pc` is the main task: it dials
(`Connect`, `ConnectFails`), takes a message (`TakeEOF`, `Handle`), works on it (`Infer`,
`Transcribe`, `SendAnalysis`, `PushAnalysis`), and leaves the loop through the finally clause
(`CloseFails`, `Close`, `Gathered`). `plan` is what the plugins still have to do for the message
`cur`; `sent` is the analysis that was sent and is not in the feature store yet. `loop[c]` is the
report loop of connection `c`: asleep, or sending a report it built from the rows and counters of an
earlier moment; `todo` are the rooms it serves next. `Serve` is a run of that loop, used by the wake-up
(`Tick`), after a send (`SendReport`) and by the handler of the cancellation (`CancelLoop`), as in the
code.

The order of the finally clause matters: `await reader_task` expects a cancellation only, so the
exception of a reader that failed (a connection lost without a close frame) leaves the clause before
the report loop is cancelled (`CloseFails`). That is the finding of `gateway_stale_loop`, and
`LeakOnlyAfterLoss` says it is the only way a loop can leak. An error in a handler, a modules file that
is parsed half, a call of the speech service that raises (`Raise`, bounded by `MaxBroken`) and Ctrl-C all go
through `Close`. "Lost" means without a normal close frame: the reader ends quietly on codes 1000 and 1001
only.

`asked`, `told`, `record`, `report`, `noted` and `dropped` are history: the wishes of a room's joins,
the analysis it was sent last, everything ever pushed, the last report it received, the failures
reports told of, the connections that were lost. `ReportFeed` is the promise to a room: an analysis is
announced before it is recorded, and each report shows the last `Cap` records of a moment no older than
that of the report before (`Announce`, `Record`, `Forget`, `Publish`). The mapping takes `pending` from
`told`, `body` from the last report, and `shown` from the place of its last row in the record.

### AnalysisPath and ReportBuilder

A handler fills `todo` with the rows it will send; `Emit` sends one and pushes it, `SendFails` meets a
closed socket and drops the rest, as the exception does. `Face` has the gates, the contract of an
envelope and the box of `region_util.py` with its rounding: a half may go either way, because the
product of two floats decides. `ReportBuilder` is written without state; `build_stub_report(store)` can
be evaluated in any state, since the report loop may run between any two steps. Each section is
counted the way its function in the code counts, from the rows or from another section, with its own
caps and tie-breaks; `SectionsAgree` compares them.

### SpeechPath

`chunk` is the chunk at hand; `call` is the call of the adapter about it, `fails` and `open` its
breaker. `jobs` is the pool of the service, oldest request first; a job is `live` while its caller
waits. `Timeout` leaves a job running without a caller. `Start` reads `stream`, the state of the voice,
and `Finish` writes it, with no lock in between, as in `main.py`.

A call can fail in two ways, and the difference matters for the breaker. A refused connection, a timeout
and an error of the service are caught, repeated and, after the last attempt, counted (`AttemptFails`).
A connection that is reset while the answer is awaited (`Reset`, or `Restart` of the service) is none of
the exceptions that `speech_service.py:84` and `:110` name, because `urllib` wraps in a `URLError` only
what happens up to the sending of the request: it leaves the adapter without a retry and without a
count (`Raises`) and ends the connection of the gateway (`Transcribe` in `Gateway`).

`heard`, `before`, `calm`, `tidy`, `streak` and `age` are history. A segment is `calm` if nothing has gone
wrong since its first chunk and no request that was given up still ran then; segments before it may
have been muted or lost. Those had no final chunk transcribed, so their duration stays in `stream` and
the next segment is compared with it: it has to be a step longer than that before it is
transcribed (`FirstRun`, from `before`). `HeardFromFirstWindow` says what that costs: the texts reach
the end of a calm segment without a gap, and they begin less than a slice after the first window that
was due. `NoStaleState` is about segments whose final chunk was transcribed, which leave no state.

## 3. Runs

Passing runs:

| Run | Properties | Shows | Instance |
|---|---|---|---|
| `meeting_service` | TypeOK, OneActiveRow, StampsAgree, AuditSound, LeavesAccounted, StampsSetOnce, EndedIsFinal, ImplementsLifecycle, CallsReturn | rows, stamps and audit log stay consistent while calls race and statements fail; every UPDATE of the status uses one grant; every call returns | 2 goroutines, 1 user, 2 instants, 2 rows, 2 events |
| `room` | RoomTypeOK, NoOrphanRow, HubMatchesDb, EveryoneTold, EmptyRoomEnded, ExitCompletes | nobody's row is orphaned, hub and table agree, everybody hears of the end, an empty meeting has ended, a lost connection leaves the hub | a host and a second connection of either user in any role |
| `hub` | TypeOK, TablesTogether, LateSeesEarly, TilesExact | the tables agree; later clients see the earlier ones whatever overlaps; handlers that never overlapped leave exact tiles | 2 clients, 1 gateway, 1 frame each |
| `tokens` | TypeOK, SessionSurvives, RotatedOnce, RefusedOnlyIfDead, Answered | no interleaving or failure costs the session, except a lost answer; calm histories rotate once and refuse no live session; every fetch returns | 2 calls, 3 tokens, failing database and network |
| `gateway` | GatewayTypeOK, LeakOnlyAfterLoss, NotedOnce, JoinRespected, FinalOnLeave, ComesBack, ImplementsFeed | report loops leak only after a lost connection; reports implement `ReportFeed` over all connections and loops; final reports, joins and counters survive every interleaving; the gateway connects again | 2 rooms or one, ring of 2, 2 messages, 2 connections, 2 wake-ups, 1 exception out of a handler |
| `reports` | AnalysisTypeOK, BoxInFrame, TrackingMatchesEmotions, SectionsAgree | every report that could be built agrees with itself and with the gates; the smoothed box stays in the frame | 2 people, 1 emotion, ring of 3, 3 messages, 2 windows, 1 closed socket, 3 settings |
| `speech` | SpeechTypeOK, NoStaleState, HeardFromFirstWindow, RefusalJustified, CallsEnd | refusals are justified, a segment transcribed to its end leaves no state, calm segments have no gap and lose a bounded start, every call ends | 1 voice, 2 segments, 1 thread, 1 retry, breaker of 2 failures and 2 ticks, 4 faults |

`reports` also evaluates the assumption `SilentRemoteFallsBack` over all answers of the remote report
service: an object hides the local report exactly if it says something.

Runs that find a violation; each contradicts a sentence of the repository, quoted in `findings`:

| Run | What happens |
|---|---|
| `meeting_revived` | StartMeeting reads the status, another connection ends the meeting, StartMeeting writes "active" |
| `room_host_returns` | the exit of the host's old connection ends the meeting the host has already rejoined |
| `hub_ghost` | a client that joins during an exit gets the departed in its snapshot, after the farewell |
| `tokens_two_tabs` | two tabs refresh at once: the slower one gets a 401 although the session is alive |
| `gateway_stale_loop` | a connection is lost without a close frame: its report loop runs on with the dead socket, beside that of the next connection (`report_loop.py:289` says the holder is the active one) |

### Bounds

Two goroutines are enough for every race between a check and a write here, because each operation
has one such pair. One user is enough for the service, whose calls touch the rows of one user only;
two instants tell whether a stamp moved. `MaxRows`, `MaxEvents`, `Tokens` and `MaxFrames` cap what
only grows. A statement that fails leaves no event, so two events still leave room for a user to join,
leave and join again and for leaves to race over one row; two transitions are enough to revive a
meeting; three tokens for a login and two refreshes of it, overlapping or one after the loss of the
other's answer. In the room connections and users are interchangeable, and a meeting no host joins is
never started, so the first connection may be taken to be a host's. A client's tile of a participant
depends only on the messages about that participant, so two clients show every disagreement.

Gateway: two connections are an old and a new one; two messages of two rooms, or of one, make an
analysis, a join before it or after it, and (a frame gives two rows) a ring that overflows; two
wake-ups let two loops overlap or one loop report twice; the homes are "all rooms" and one room, the
two ways the gateway serves. Reports: three rows and two windows fill the ring and make every tie, cap
(`MaxBuckets`, `MaxTextEvents` are 1) and partly dropped pair of rows. The boxes reach up to the edge of
the frame or over it, are cut below the side the gate asks for or dropped, and the widths change; with left
edges ten apart, edge and side of the smoothed box can both be rounded up from a half, so the box reaches
the one pixel beyond the frame that `BoxInFrame` allows.

Speech: a time unit is a second. The window of four and the step of two are the defaults of the service. The
page records slices of one second (`VideoMeet.tsx:566`); a slice of two is one the browser delivers a slice
late. So every other chunk waits for a step, which is the case that could leave a gap. A segment of eight
stands for the recorder's limit; segments end by length, or earlier by a muted microphone. Two
segments are one that leaves its state behind, at any length, and one that is compared with it. Four
faults open the breaker (two calls of two attempts); a call that raises between two counted failures, before a
refusal, needs a fifth and is left to the theorem.

Bounded runs come to a stop when the bound is reached, and the clients of MeetingRoom and SessionHub
stop for good once they have gone; the gateway stops at Ctrl-C, and nobody has to speak. These models
may stop, so deadlock is not checked, and "does not hang" is stated by `CallsReturn`, `ExitCompletes`,
`Answered`, `ComesBack` and `CallsEnd` instead. `room` is checked with a database that answers, because
its invariants are about that case; failing statements are the business of `meeting_service`. Symmetry is used for the clients of the hub, who have a participant id
each and are otherwise alike; no run with a liveness property uses it.

### Fairness

Gateway: weak fairness of `Run`, everything the event loop can do when nothing happens outside: it is
never idle while a task can run. Wake-ups are not in it, nor messages, lost connections, expiring
tokens or Ctrl-C. A stopped backend is outside: of the attempts to connect with a fresh token one
succeeds. `ComesBack` would fail if an attempt kept a token that was refused. Speech: weak fairness of
`Attempt` (the adapter is a plain loop) and of the pool (its threads take and finish requests); a
timeout, an error and a restart need not happen.

Elsewhere: weak fairness of each call, handler or fetch that has begun: a goroutine whose statement
has returned is scheduled, the database driver returns (with an error if need be), a browser runs the promise
that has settled. Nothing is assumed of users and the network: nobody has to connect, press a button
or lose a connection, and `Lose` is one of the ways a fetch goes on. A write that blocks for
ever on a stalled peer is outside these assumptions (hazard at `hub.go:213`).

## 4. Proofs

`MeetingServiceProofs`, for any goroutines, users and instants, with or without failing statements:

* `Invariance`: `IInv` is inductive. Beyond the types it says what a goroutine in flight may rely
  on: which arguments belong to each place, that a stamp it is about to log has been set, and that
  the entry it is about to append records a change that has happened. Without these `AuditSound` and
  `StampsAgree` are not preserved.
* `TypeCorrect`, `StampsAlwaysAgree`, `AuditAlwaysSound`, `OneActiveRowAlways`: invariants.
* `StampsNeverMove`, `EndedStaysEnded`: action properties. The second is as strong as the code
  allows: an ended meeting becomes active only by a start whose read is older than the end.
* `ServiceImplements`: every step of every call is a step of `MeetingLifecycle` or a stutter.
  `ReadGrants` shows that a status check grants or refuses, `WriteUsesGrant` that an UPDATE carries a
  grant out or gives it up, `OthersStutter` that nothing else touches statuses, stamps or grants.
* `SerialReadsAreFresh`: with at most one caller the status that was checked is still the status at
  the UPDATE, so a transition is legal when it takes effect.
* `LeavesAreAccounted`: a leave that is about to log has deactivated a row of its own (`Counted`: a
  step that adds to the entries and the leaves under way adds as many inactive rows). The set of leaves
  under way stays finite (`LeavesInv`), so nothing is assumed of the number of goroutines.

`MeetingRoomProofs`, for any connections, users and roles:

* `RoomIsCaller`: every step of the room is a call of the service by a goroutine that is not in it, the
  next statement of a call, or no step of the service at all (`GoroutineCalls`). So everything proved
  of `MeetingService` holds under the room, and `IInv` and `RoomIInv` are inductive together
  (`RoomInvariance`). `RolesMapped` is assumed: `MapRole` gives a role the service accepts.
* `RoomIInv` has the typing, the place of each goroutine in the service by its place in the room
  (`CallsPlaced`) and in the tables and locals (`Places`), and four parts that the invariants of the run
  need to be inductive. `JoinedHaveRow`: while no user has two connections, a connection that has joined
  has an active row, from the statement that found or inserted it to the leave. `EndAnnounced`: an ended
  meeting is known to everybody connected, or the goroutine that ended it is about to announce it.
  `HostAnswers`: until a host is spared, an active meeting has a host whose departure will still end it.
  And `NoOrphanRow` itself.
* `RoomTypeCorrect`, `NoRowIsOrphaned`, `HubAlwaysMatches`, `EveryoneIsTold`, `EmptyRoomHasEnded`: the
  invariants of the run `room`. Each but the first is about a database that answers, as it states.

`SessionHubProofs`, for any clients, gateways and frames:

* `Invariance`: `IInv` ties the place of each goroutine to the life of its connection, the tables to
  the lives of the connections, and a departure on the wire to the connection it is about.
* `TypeCorrect`, `TablesStayTogether`.
* `LateTabsSeeEarly`: under `OwnPids`, no two connections share a participant id. `Owed` follows a
  join from metadata to snapshot to tiles. The assumption is needed: with a shared id the exit of
  one connection removes the tile of the other.
* `TilesAreExact`, also under `OwnPids`, about histories in which handlers never overlapped (`apart`).
  Then one handler is at work at a time (`OneHandler`), so the metadata lists who is there but for the
  one it is about (`Known`), a snapshot is sent unchanged (`SnapExact`), and frames and their answers are
  of people who are there (`Echoes`). A tile is of somebody who is there or whose departure is still to
  be written to this client (`Sound`), and nobody who is there is missing, but for a newcomer whose
  announcement is still to be written (`Complete`). The exceptions are empty once nothing is under way.

`TokenRotationProofs`, for any calls and tokens, with failing statements and lost messages:

* `Invariance`: a minted token is live (`MintedLive`) and known to nobody (`MintedFresh`) until its
  answer arrives, so no other call can revoke it; a rotated-out token in the jar has a replacement
  on its way or lost (`JarGood`).
* `TypeCorrect`, `SessionNeverRotatedAway`.
* `EachTokenRotatedOnce`: while `calm`, one call is in flight at a time (`OneAtATime`), so the token
  it checked is still live when its replacement is inserted (`StillLive`), and a token that has a
  successor is revoked or is about to be by that call (`Spent`). It holds whatever answers are lost.
* `LiveSessionNotRefused`: while `calm`, what a call knows of the jar stays true until it acts on it
  (`JarKnown`): a refused refresh carried the token the jar still holds, which is not usable, and a
  retried request carries an access token.

`AnalysisPathProofs`, for any people, frames, boxes, smoothing factor and ring:

* `BoxStaysInFrame`. A box is smoothed as a pair of rounded averages, left edge and side apart, so the
  right edge could drift. Each rounding is off by at most a half, and the average of an edge inside the
  frame and one at most a pixel beyond it is beyond it by less than a pixel: so two roundings end at
  most one whole pixel beyond (`SmoothRightEdge`, `BoxInv`), and the errors do not add up.
* `TypeCorrect`: the ring is bounded, and a message leaves at most two rows.
* `SectionsAlwaysAgree`: the report of any rows agrees with itself. The sums of the report are folds over
  finite sets. That such a fold is the size of a union of disjoint sets (`SumCounts`) would be an
  induction; it is shown by taking a smallest set for which it fails (`Smallest`: inclusion on a set of
  finite sets is well founded, so a set of them has a minimal member). After that each section is a
  partition of places in the store (`EmotionsOfAll`, `FusionComplete`, `TimelineShows`, `ReasonsCounted`),
  and the two rankings pick different people because they break ties from opposite ends (`Topmost`,
  `TwoAreRanked`). Of the rows it needs only that each has a value of its kind (`WellInv`).
* `TrackingAlwaysMatches`, from `PairInv`: a stored face comes right after the debug row that let it pass
  (`StorePaired`), what is still to be sent is in the same order (`TodoPaired`), and the debug rows that
  no face follows are as many as the faces on their way and torn off (`FewLone`). Both bounds are then
  injections between the places of the two kinds of row (`PassedHaveFaces`, `FacesHavePassed`); the ring
  can part only the first pair (`LoneTail`).
  Assumed are finitely many labels, none of them the value of a row without a face (`FiniteLabels`), and
  that the limits of the report are numbers (`LimitsPositive`): 30 and 20 in `stub_builder.py`.

`SpeechPathProofs`, for any slices, window, step, retries, breaker and faults:

* `RefusalsAreJustified`, from `CircuitInv`: only the call at hand awaits an answer (`Awaited`), so no
  late answer can touch the breaker; while the circuit is open no call is under way, `fails` is never
  more than the calls given up with no answer between them, and `open` and `age` add up to the open time
  (`Breaker`). Calls that raise leave all of these alone.
* `StateNeverStale`, for one thread: only the oldest job runs (`OneThread`), nothing but final chunks
  follows the final chunk of the segment at hand in the pool (`InOrder`), and once that one is
  transcribed the state is empty and every job that is left is of a final chunk, which saves none
  (`Tidied`). With more threads the state may well be stale, which is why the property names `Workers = 1`,
  the default of the service. A segment that is muted or lost before its final chunk leaves a state:
  that case is the next theorem's.
* `TypeCorrect`, from `TypeInv`: what is in the pool is counted, the requests awaited (`Expected`) and
  those that run (`Busy`), through the shift of the sequence when one of them is taken out.
* `TextsLeaveNoGap`: the texts of a calm segment leave no gap and lose a bounded start, for any number of
  threads, if a slice and a step fit into a window (`SlicesFit`: one, two and four seconds in the
  program). Then a chunk that waits is less than a step and a slice longer than the one before it that was
  transcribed, so the next window still meets the text. `HeardInv` follows a slice from the recorder
  to the text: between calls the texts cover the chunk but for what waits (`Told`), during a call the
  window of the chunk begins no later than they end (`Due`), and every request in the pool is awaited,
  so nobody else writes the state (`Gapless`).

`GatewayProofs`, for any rooms, ring, messages, connections, wake-ups and exceptions:

* `TypeCorrect`, from `Typed`.
* `LoopsLeakOnlyAfterLoss`, from `Accounted`: the reader fails only on a lost link, and the loops of
  all connections but the newest have ended or belong to a lost one.
* `FinalReportsOnLeave`: the ring is the last `Cap` rows of the record (`RingIsWindow`, `Recorded`), and
  while a cancelled loop is awaited each of its rooms has its final report or is still to be served
  (`Parting`).
* `JoinsRespected`, from `Wishes`: there is a sequence of wishes, one for each place in the queue, that
  begins with what is off, changes at each join and ends with what the room asked for last; every
  message was sent with the wish at its place in mind.
* `FailuresNotedOnce`, from `Told`: what reports have told plus what the loops hold is never more than
  what the counters showed when a loop last looked. The sum over the loops is stated as the existence
  of a non-decreasing sequence of partial sums, so no induction over the loops is needed.

`GatewayFeedProofs`, for the same constants:

* `GatewayImplementsFeed`, from `FeedInvariance`: every step is an `Announce`, `Record`, `Forget` or
  `Publish` of the room it is about, or a stutter. The mapping reads `shown` off the last row of the last
  report, so the rows of a record must be distinct (`Distinct`). They are, because messages are handled
  in the order of their numbers (`InOrder`) and no message yields the same analysis twice (`AllNew`,
  which needs that inference comes first, `InferFirst`). `Pending` says what was sent and not yet stored.
  `Shows` is the heart: the last report of a room is a window of its record, and a loop that is sending
  holds the window of a later moment or the same. Loops of old connections also send, but only the newest
  connection delivers, and it built its report when it turned to the room.

The assumptions are the named `ASSUME`s of the modules (null values differ from values, flags are
Booleans, identities are functions); TLC evaluates them in every run.

Model-checked only: all liveness (`CallsReturn`, `ExitCompletes`, `Answered`, `ComesBack`,
`CallsEnd`), which is beyond the prover. Every safety and action property of the passing runs is a
theorem.

## 5. Not modelled, and the plan

Not modelled: signalling and media relay (no state), rendering, signal and image processing, read-only
aggregation, CRUD of single rows, server assembly. `PROJECT.json` lists each with its reason.

Abstracted in the models of the gateway and the speech path:

* `Gateway`: the content of an analysis; the counters, one for failed analyses and one for failed
  reports; lengths of sleeps and back-off; the content of a reloaded configuration; the remote report
  service (off); pings and messages that are no JSON. A termination by signal other than Ctrl-C and a
  second cancellation during the finally clause are not modelled.
* `AnalysisPath`: what models find is chosen; frames that are throttled, blurred, cannot be decoded or
  give no emotion change nothing; of a box the horizontal axis, whose arithmetic the vertical one
  repeats.
* `ReportBuilder`: averages, confidences, trace ids, recent events and texts are left out; a ratio is
  the pair of its terms.
* `SpeechPath`: a text is the window it was made from; the duration of the audio and the time since the
  segment began are the same; a chunk is recorded when the gateway takes it, because the queue in between
  is FIFO; one voice and one call at a time, as the gateway makes them.

The code differs from its documents, or from what one would expect, in places the models reproduce and
no property speaks of:

* a box that `clamp_face_region` drops has no side, so the gate for small faces lets the face pass
  (`analysis.py:345`);
* `docs/ANALYSIS_WS_CONTRACTS.md:93` says a face that failed a gate is still emitted as `face_behavior`
  with a `guard_reason`; the handler returns before it emits anything but the debug frame;
* a blank schema version makes every `face_analysis` fail its contract and be dropped, while the legacy
  emotion message is sent;
* a remote report that is no object is replaced by the local report of no rows and sent as "remote"
  (`report_loop.py:169`).

Planned, in this order:

1. `ReportStore`: RecordInbound and LatestReport of the backend, fed by `Gateway`. Abstract
   specification: the report a reader gets for an ended connection is the final one. Runs: a partial
   report after the final one, two gateways, the limit of the transcript query.
2. `ChatLog`: AppendMessage with its look-up of the message id, the broadcast after it and the client's
   duplicate filter. Properties: stored once, shown once, same order for all who were there.
3. `LoginAttempts`: failure counter, lock and rate window with an explicit clock. Properties: a lock
   follows ten failures since the last success; a correct password works once the lock is over.
4. Several voices in `SpeechPath`: two streams and more threads, with the bound of the pool.
5. Proofs: which failures `LeakOnlyAfterLoss` rules out one by one, and the choice between the local and
   the remote report (`resolve_report_body`) for every answer.
6. A hub whose writes may block, to state what a stalled client does to the others.
