---------------------------- MODULE AnalysisPath ----------------------------
(***************************************************************************)
(* How the messages of one session become rows of the feature store: the   *)
(* plugins for frames (modules/face/analysis.py) and for audio             *)
(* (modules/audio/pipeline.py), and the smoothed box of a face.  The       *)
(* gateway handles one message at a time; it sends an analysis and then    *)
(* pushes its row, so a report (ReportBuilder) can be built in any state.  *)
(*                                                                         *)
(* Abstracted: pixels and models (what they find is chosen), the vertical  *)
(* axis of a box (the same arithmetic as the horizontal one), the area of  *)
(* a box (whether it is too large is chosen).  A frame that is throttled,  *)
(* blurred or cannot be decoded changes nothing that is modelled here, and *)
(* neither does one on which the model fails or finds no emotion.          *)
(***************************************************************************)
EXTENDS Integers, ReportBuilder

CONSTANTS
    Settings,     \* parameters of the face module, see FaceRuntimeParams
    Widths,       \* widths of frames
    Lefts, Sides, \* left edges and widths of the boxes the detector returns
    MinSide,      \* min_side_px of clamp_face_region (8)
    MinFace,      \* min_face_side_px
    Alpha,        \* debug_bbox_smooth_alpha in percent (35)
    Cap,          \* deque(maxlen=512)
    MaxMsgs,      \* bound: messages handled
    MaxBucket,    \* bound: windows of 30 s
    MaxFails      \* bound: sends that meet a closed socket

ASSUME WidthsPositive  == Widths \subseteq Nat \ {0}
ASSUME SidesNumbered   == Lefts \subseteq Int /\ Sides \subseteq Nat
ASSUME AlphaPercent    == Alpha \in 1 .. 100
ASSUME MinSidePositive == MinSide \in Nat \ {0}
ASSUME CapPositive     == Cap \in Nat \ {0}
ASSUME BoundsNatural   ==
    MaxMsgs \in Nat /\ MaxBucket \in Nat /\ MaxFails \in Nat

Config == [debug : BOOLEAN, behavior : BOOLEAN, no_face : BOOLEAN,
           version : {"v1", "blank"}]

ASSUME SettingsTyped == Settings \subseteq Config

VARIABLES
    fp,       \* FaceRuntimeParams
    bucket,   \* the window of now
    box,      \* _last_debug_bbox of each participant: left edge and width
    store,    \* the rows of the session
    todo,     \* what the handler of the message at hand still has to send
    msgs, fails,
    widest,   \* history: the widest frame with a box of each participant
    torn      \* history: faces that passed the gates and were never sent

vars == <<fp, bucket, box, store, todo, msgs, fails, widest, torn>>

NoBox   == <<>>
Boxes   == [left : Int, side : Int]
Row(kind, p, value, behavior) ==
    [kind |-> kind, pid |-> p, value |-> value, behavior |-> behavior,
     bucket |-> 0]

Init ==
    /\ fp \in Settings
    /\ bucket = 0 /\ store = <<>> /\ todo = <<>>
    /\ box = [p \in People |-> NoBox]
    /\ msgs = 0 /\ fails = 0
    /\ widest = [p \in People |-> 0] /\ torn = [p \in People |-> 0]
-----------------------------------------------------------------------------
(* Boxes.                                                                  *)

Least(a, b)    == IF a < b THEN a ELSE b
Greatest(a, b) == IF a > b THEN a ELSE b

clamp_face_region_KeepsSide(x, w, width) ==
    LET left == Least(Greatest(0, x), width - 1) IN
    IF w < MinSide THEN NoBox ELSE [left |-> left, side |-> w]

(* Intersect with the frame; a box that is left too small is dropped.      *)
clamp_face_region(x, w, width) ==
    LET left == Least(Greatest(0, x), width - 1)
        side == Least(w, width - left)
    IN  IF side < MinSide THEN NoBox ELSE [left |-> left, side |-> side]

(* round(0.35 * cur + 0.65 * prev): a half may go either way, the product  *)
(* of floats decides.                                                      *)
Smooth(prev, cur) ==
    LET exact == Alpha * cur + (100 - Alpha) * prev
        below == exact \div 100
    IN  {n \in {below, below + 1} :
            100 * n - exact <= 50 /\ exact - 100 * n <= 50}

ema_bbox(prev, cur) ==
    IF prev = NoBox THEN {cur}
    ELSE {[left |-> l, side |-> s] :
            l \in Smooth(prev.left, cur.left), s \in Smooth(prev.side, cur.side)}
-----------------------------------------------------------------------------
(* Frames.                                                                 *)

(* The gates.  A box that clamp_face_region has dropped is not too small.  *)
skip_reason(confident, region) ==
    IF ~confident THEN "low_confidence"
    ELSE IF region # NoBox /\ region.side < MinFace THEN "small_region"
    ELSE "none"

(* quality of a face_behavior; the two builders, from the probabilities of *)
(* the emotion model and from MediaPipe, agree on it.                      *)
Quality(skip) == IF skip = "none" THEN "trackable" ELSE skip

Behavior(skip) == IF fp.behavior THEN Quality(skip) ELSE "none"

(* has_required_envelope_fields: all that can be wrong with a behavior that *)
(* was built is what the configuration gives it, a schema version (or a    *)
(* provider) of spaces.                                                    *)
ContractHolds(row) == row.behavior = "none" \/ fp.version # "blank"

face_debug_PassesSmall(p, skip) ==
    Row("face_debug", p, IF skip = "low_confidence" THEN skip ELSE "passed",
        "none")

face_debug(p, skip) ==
    Row("face_debug", p, IF skip = "none" THEN "passed" ELSE skip, "none")

(* What a detected face gives, in the order in which it is sent.           *)
Outputs(p, emotion, skip) ==
    LET face == Row("face", p, emotion, Behavior(skip)) IN
    (IF fp.debug THEN <<face_debug(p, skip)>> ELSE <<>>)
    \o (IF skip = "none" /\ ContractHolds(face) THEN <<face>> ELSE <<>>)

Take == todo = <<>> /\ msgs < MaxMsgs /\ msgs' = msgs + 1

(* What the model can find, after normalize_deepface_result.               *)
Normalized == [emotion : Emotions, confident : BOOLEAN,
               left : Lefts, side : Sides]

(* No face: told only if the configuration asks for it.                    *)
NoFace(p) ==
    /\ Take /\ fp.no_face
    /\ todo' = <<Row("face", p, "guard", "none")>>
    /\ UNCHANGED <<fp, bucket, box, store, fails, widest, torn>>

Face(p) ==
    /\ Take
    /\ \E width \in Widths, norm \in Normalized, plausible \in BOOLEAN :
         LET region == IF plausible
                       THEN clamp_face_region(norm.left, norm.side, width)
                       ELSE NoBox
         IN  /\ todo' = Outputs(p, norm.emotion,
                                skip_reason(norm.confident, region))
             /\ IF fp.debug /\ region # NoBox
                THEN /\ \E b \in ema_bbox(box[p], region) :
                          box' = [box EXCEPT ![p] = b]
                     /\ widest' = [widest EXCEPT ![p] = Greatest(@, width)]
                ELSE UNCHANGED <<box, widest>>
    /\ UNCHANGED <<fp, bucket, store, fails, torn>>
-----------------------------------------------------------------------------
(* Audio: the features of a chunk and, when speech was recognised, a text. *)

(* speech_activity_proxy, above or below what the report calls speech.     *)
Activity == {"speech", "silence"}

(* has_transcript_content of the answer of the speech service.             *)
HasText == BOOLEAN

Chunk(p) ==
    /\ Take
    /\ \E activity \in Activity, text \in HasText :
         todo' = <<Row("audio", p, activity, "none")>>
                 \o (IF text THEN <<Row("text", p, "text", "none")>>
                             ELSE <<>>)
    /\ UNCHANGED <<fp, bucket, box, store, fails, widest, torn>>
-----------------------------------------------------------------------------
(* Sending and pushing.                                                    *)

Push_Unbounded(row) == store' = Append(store, row)

(* FeatureStore.push: stamped now, and the oldest row goes.                *)
Push(row) ==
    store' = IF Len(store) < Cap THEN Append(store, row)
                                 ELSE Append(Tail(store), row)

Emit ==
    /\ todo # <<>>
    /\ Push([Head(todo) EXCEPT !.bucket = bucket])
    /\ todo' = Tail(todo)
    /\ UNCHANGED <<fp, bucket, box, msgs, fails, widest, torn>>

(* The socket is closed: the exception leaves the handler.                 *)
SendFails ==
    /\ todo # <<>> /\ fails < MaxFails
    /\ fails' = fails + 1 /\ todo' = <<>>
    /\ torn' = LET row == Head(todo) IN
               IF row.kind = "face" /\ row.value \in Emotions /\ fp.debug
               THEN [torn EXCEPT ![row.pid] = @ + 1] ELSE torn
    /\ UNCHANGED <<fp, bucket, box, store, msgs, widest>>

NextWindow ==
    /\ bucket < MaxBucket /\ bucket' = bucket + 1
    /\ UNCHANGED <<fp, box, store, todo, msgs, fails, widest, torn>>

Next ==
    \/ \E p \in People : NoFace(p) \/ Face(p) \/ Chunk(p)
    \/ Emit \/ SendFails \/ NextWindow

Spec == Init /\ [][Next]_vars
-----------------------------------------------------------------------------
(* Properties.                                                             *)

Rows == [kind : Sections, pid : People,
         value : Emotions \cup Reasons \cup {"guard", "passed", "text",
                                             "speech", "silence"},
         behavior : {"none", "trackable"} \cup Reasons, bucket : 0 .. MaxBucket]

(* The store is the ring of FeatureStore: it never holds more than its     *)
(* limit.                                                                  *)
AnalysisTypeOK ==
    /\ fp \in Config /\ bucket \in 0 .. MaxBucket
    /\ box \in [People -> {NoBox} \cup Boxes]
    /\ store \in Seq(Rows) /\ Len(store) <= Cap
    /\ todo \in Seq(Rows) /\ Len(todo) <= 2
    /\ msgs \in 0 .. MaxMsgs /\ fails \in 0 .. MaxFails
    /\ widest \in [People -> Nat] /\ torn \in [People -> Nat]

(* region_util: a smoothed box starts inside the frame, is never smaller   *)
(* than a box that is dropped, and never reaches further than one pixel    *)
(* beyond the widest frame it was taken from: the roundings of left edge   *)
(* and side do not add up over a long sequence of frames, nor when the     *)
(* frames become narrower.                                                 *)
BoxInFrame ==
    \A p \in People : box[p] # NoBox =>
        /\ 0 <= box[p].left /\ MinSide <= box[p].side
        /\ box[p].left + box[p].side <= widest[p] + 1

(* analysis.py process: a face that passed the gates leaves two rows, its  *)
(* face_debug and its face.  In every report, at whatever moment it is     *)
(* built and whatever the ring has dropped, the gates passed and the       *)
(* emotions of a participant differ only by the face that is being sent,   *)
(* by faces whose sending met a closed socket, and by one face whose       *)
(* face_debug was the last row to be dropped.                              *)
TrackingMatchesEmotions ==
    fp.debug /\ (fp.behavior => fp.version # "blank") =>
    \A p \in People :
        LET r      == build_stub_report(store)
            passed == IF p \in DOMAIN r.tracking THEN r.tracking[p].passed ELSE 0
            faces  == IF p \in DOMAIN r.tiles THEN r.tiles[p].emotions ELSE 0
            IsFace(row) == /\ row.kind = "face" /\ row.pid = p
                           /\ row.value \in Emotions
            Heads(rows) == IF rows # <<>> /\ IsFace(Head(rows)) THEN 1 ELSE 0
        IN  /\ passed <= faces + Heads(todo) + torn[p]
            /\ faces <= passed + Heads(store)

(* stub_builder: the sections of one report are counted separately, some   *)
(* from the rows and some from other sections, and must tell one story:    *)
(* no row is counted twice or lost, everybody who is ranked or has a       *)
(* timeline has a tile, a frame that did not pass has one reason, and two  *)
(* people are never both the most and the least verbal.                    *)
SectionsAgree ==
    LET r == build_stub_report(store)
        k == r.feature_counts
        guards == {i \in DOMAIN store : store[i].value = "guard"}
    IN  /\ SumFunction(r.distribution) = k["face"] - Cardinality(guards)
        /\ SumFunction([p \in DOMAIN r.tiles |-> r.tiles[p].emotions])
              = k["face"] - Cardinality(guards)
        /\ SumFunction([key \in DOMAIN r.fusion |-> SumFunction(r.fusion[key])])
              = Len(store)
        /\ \A p \in DOMAIN r.timelines :
             /\ p \in DOMAIN r.tiles
             /\ LET shown == SumFunction([b \in DOMAIN r.timelines[p] |->
                                  SumFunction(r.timelines[p][b])])
                IN  /\ shown > 0 /\ shown <= r.tiles[p].emotions
                    /\ Cardinality({store[i].bucket : i \in Emotional(store, p)})
                         <= MaxBuckets => shown = r.tiles[p].emotions
        /\ \A p \in DOMAIN r.tracking :
             r.tracking[p].passed
               + SumFunction(r.tracking[p].reasons)
               = r.tracking[p].events
        /\ Cardinality(r.verbal) = Least(2, Cardinality(DOMAIN r.tiles))
        /\ (r.pipeline_stage = "idle") <=> (r.tiles = <<>> /\ k["face"] = 0)
=============================================================================
