--------------------------- MODULE ReportBuilder ---------------------------
(***************************************************************************)
(* The local report of the ai-gateway (modules/report): how the rows the   *)
(* feature store holds for one session are counted into the sections of a  *)
(* report, and how that report and the answer of the remote report service *)
(* are made into the one that is sent.                                     *)
(*                                                                         *)
(* Abstracted: a row keeps what is counted (kind, participant, window of   *)
(* 30 s, one value, the face_behavior that came with a face); averages,    *)
(* confidences, trace ids, regions, texts and wording are left out.        *)
(* Participants are numbers: the code sorts their ids as strings, and any  *)
(* total order will do.  A ratio is the pair of its terms, not rounded.     *)
(***************************************************************************)
EXTENDS Naturals, Sequences, FiniteSets, FiniteSetsExt

CONSTANTS
    People,          \* participant ids, in their order
    Emotions,        \* the labels of the emotion model
    MaxTextEvents,   \* _MAX_TEXT_EVENTS (30)
    MaxBuckets       \* _MAX_BUCKETS (20)

ASSUME PeopleNumbered == People \subseteq Nat
(* The labels of the model and the value of a row without a face differ.   *)
ASSUME FiniteLabels   == IsFiniteSet(Emotions) /\ "guard" \notin Emotions
ASSUME LimitsPositive == MaxTextEvents \in Nat /\ MaxBuckets \in Nat \ {0}

Reasons == {"low_confidence", "small_region"}

Sections == {"audio", "text", "face", "face_debug"}

Less(a, b) == a[1] * b[2] < b[1] * a[2]
-----------------------------------------------------------------------------
(* The single pass over the rows.                                          *)

Of(features, kind, p) ==
    {i \in DOMAIN features : features[i].kind = kind /\ features[i].pid = p}

kinds(features) ==
    [k \in Sections |->
        Cardinality({i \in DOMAIN features : features[i].kind = k})]

Valued(features, kind, p, v) ==
    {i \in Of(features, kind, p) : features[i].value = v}

(* Rows of a face with an emotion: guard rows (no face) are passed over.   *)
Emotional(features, p) ==
    {i \in Of(features, "face", p) : features[i].value \in Emotions}

emotion_counts(features, p) ==
    [e \in Emotions |-> Cardinality(Valued(features, "face", p, e))]

participants(features) ==
    {p \in People : \/ Of(features, "audio", p) # {}
                    \/ Of(features, "text", p) # {}
                    \/ Emotional(features, p) # {}}

(* Transcripts are counted by the list that keeps the first thirty.        *)
transcript_events(features, p) ==
    Min({MaxTextEvents, Cardinality(Of(features, "text", p))})

speech_ratio(features) ==
    <<Cardinality({i \in DOMAIN features :
                    features[i].kind = "audio" /\ features[i].value = "speech"}),
      kinds(features)["audio"]>>

pipeline_stage(features) ==
    LET k == kinds(features) IN
    CASE k["text"] > 0  -> "transcribing"
      [] k["text"] = 0 /\ k["audio"] > 0 -> "listening"
      [] k["text"] = 0 /\ k["audio"] = 0 /\ k["face"] > 0 -> "visual_only"
      [] OTHER -> "idle"
-----------------------------------------------------------------------------
(* Sections that are counted again, from the rows or from other sections.  *)

tracking(features, p) ==
    LET rows == Of(features, "face_debug", p) IN
    [events  |-> Cardinality(rows),
     passed  |-> Cardinality(Valued(features, "face_debug", p, "passed")),
     reasons |-> [r \in Reasons |->
                    Cardinality(Valued(features, "face_debug", p, r))]]

tracked(features) == {p \in People : tracking(features, p).events > 0}

(* build_face_behavior_summary.                                            *)
behaved(features, p) ==
    {i \in Of(features, "face", p) : features[i].behavior # "none"}

face_behavior(features, p) ==
    [events    |-> Cardinality(behaved(features, p)),
     trackable |-> Cardinality({i \in behaved(features, p) :
                                  features[i].behavior = "trackable"})]

(* The windows of a participant: the last twenty with an emotion, and what *)
(* was counted in each.  A window is a bucket number.                      *)
Newest(S, n) == {b \in S : Cardinality({c \in S : c > b}) < n}

timeline(features, p) ==
    LET rows    == Emotional(features, p)
        buckets == Newest({features[i].bucket : i \in rows}, MaxBuckets)
    IN  [b \in buckets |-> [e \in Emotions |->
            Cardinality({i \in rows :
                features[i].bucket = b /\ features[i].value = e})]]

(* compute_fusion_meta: the kinds of every participant and window.         *)
fusion(features) ==
    LET keys == {<<features[i].pid, features[i].bucket>> : i \in DOMAIN features}
    IN  [key \in keys |-> [k \in Sections |->
            Cardinality({i \in Of(features, k, key[1]) :
                features[i].bucket = key[2]})]]

(* participant_tiles: one for each of participants.                        *)
tile(features, p) ==
    LET gate == tracking(features, p) IN
    [emotions    |-> SumFunction(emotion_counts(features, p)),
     transcripts |-> transcript_events(features, p),
     chunks      |-> Cardinality(Of(features, "audio", p)),
     gate        |-> IF gate.events > 0 THEN <<gate.passed, gate.events>>
                                        ELSE <<>>]

tiles(features) == [p \in participants(features) |-> tile(features, p)]

emotion_distribution(features) ==
    [e \in Emotions |->
        SumFunction([p \in participants(features) |->
                        emotion_counts(features, p)[e]])]

observations(features) ==
    LET global == emotion_distribution(features)
        seen   == {e \in Emotions : global[e] > 0}
    IN  [top_emotions |-> {e \in seen : \A d \in seen : global[d] <= global[e]},
         no_transcript |-> kinds(features)["text"] = 0,
         hint_debug_face |-> /\ kinds(features)["face_debug"] = 0
                             /\ kinds(features)["face"] > 0]
-----------------------------------------------------------------------------
(* The rankings of meeting_summary.  sorted is stable, also with reverse,  *)
(* so a tie is broken by the order of the tiles.                           *)

MoreVerbal(t, u) ==
    \/ t.transcripts > u.transcripts
    \/ t.transcripts = u.transcripts /\ t.chunks > u.chunks

most_verbal(t) ==
    Min({p \in DOMAIN t : \A q \in DOMAIN t : ~MoreVerbal(t[q], t[p])})

least_verbal_BreaksTiesAlike(t) ==
    Min({p \in DOMAIN t : \A q \in DOMAIN t : ~MoreVerbal(t[p], t[q])})

least_verbal(t) ==
    Max({p \in DOMAIN t : \A q \in DOMAIN t : ~MoreVerbal(t[p], t[q])})

weakest_tracking(t) ==
    LET ranked == {p \in DOMAIN t : t[p].gate # <<>>} IN
    Min({p \in ranked : \A q \in ranked : ~Less(t[q].gate, t[p].gate)})

strongest_tracking(t) ==
    LET ranked == {p \in DOMAIN t : t[p].gate # <<>>} IN
    Min({p \in ranked : \A q \in ranked : ~Less(t[p].gate, t[q].gate)})

\* in hundredths
participation_score(t) == 200 * t.transcripts + 12 * t.chunks + 35 * t.emotions

build_stub_report(features) ==
    LET t == tiles(features) IN
    [summary        |-> "pipeline",
     pipeline_stage |-> pipeline_stage(features),
     speech_ratio   |-> speech_ratio(features),
     feature_counts |-> kinds(features),
     people   |-> participants(features),
     tiles    |-> t,
     tracking |-> [p \in tracked(features) |-> tracking(features, p)],
     behavior |-> [p \in People |-> face_behavior(features, p)],
     timelines |-> [p \in {q \in People : Emotional(features, q) # {}} |->
                      timeline(features, p)],
     distribution |-> emotion_distribution(features),
     observations |-> observations(features),
     verbal   |-> IF DOMAIN t = {} THEN {}
                  ELSE {most_verbal(t)} \cup
                       (IF Cardinality(DOMAIN t) > 1 THEN {least_verbal(t)}
                                                     ELSE {}),
     ranked   |-> IF \A p \in DOMAIN t : t[p].gate = <<>> THEN <<>>
                  ELSE <<weakest_tracking(t), strongest_tracking(t)>>,
     scores   |-> [p \in DOMAIN t |-> participation_score(t[p])],
     fusion   |-> fusion(features)]
-----------------------------------------------------------------------------
(* The remote report service.  Of its answer only what decides is kept:    *)
(* an answer without a report, a report that is no object, or an object    *)
(* whose fields are missing, say nothing, or say something.                *)

Replies ==
    [form    : {"none", "no object", "object"},
     summary : {"missing", "report generated", "own"},
     stage   : {"missing", "unknown", "transcribing"},
     counts  : {"missing", "zero", "some"},
     people  : {"missing", "silent", "heard"},
     fusion  : {"missing", "no window", "windows"}]

sanitize_report_shape_OtherDefault(raw) ==
    [raw EXCEPT
        !.summary = IF @ = "missing" THEN "no summary" ELSE @,
        !.stage   = IF @ = "transcribing" THEN @ ELSE "idle",
        !.counts  = IF @ = "missing" THEN "zero" ELSE @]

(* What sanitize_report_shape keeps of an object, and its defaults.        *)
sanitize_report_shape(raw) ==
    [raw EXCEPT
        !.summary = IF @ = "missing" THEN "report generated" ELSE @,
        !.stage   = IF @ = "transcribing" THEN @ ELSE "idle",
        !.counts  = IF @ = "missing" THEN "zero" ELSE @]

is_report_substantial(report) ==
    \/ report.summary # "report generated"
    \/ report.counts = "some"
    \/ report.people = "heard"
    \/ report.fusion = "windows"

(* The source of the report that is sent.  A report that is no object is   *)
(* replaced by the local report of no rows at all, and that one counts as  *)
(* substantial: its summary is not the default one.                        *)
report_source(reply) ==
    IF reply.form = "none" THEN "local_stub"
    ELSE IF reply.form = "no object" THEN "remote"
    ELSE IF is_report_substantial(sanitize_report_shape(reply)) THEN "remote"
    ELSE "local_fallback"

resolve_report_body(features, reply) ==
    IF report_source(reply) # "remote" THEN build_stub_report(features)
    ELSE IF reply.form = "no object" THEN build_stub_report(<<>>)
    ELSE LET body == sanitize_report_shape(reply) IN
         [body EXCEPT !.fusion = IF @ = "missing" THEN fusion(features) ELSE @]
=============================================================================
