-------------------------- MODULE AnalysisPathProofs --------------------------
(***************************************************************************)
(* The smoothed box of a face stays in the frame, for every size of frame, *)
(* every box the detector may return, every alpha and any number of frames *)
(* and participants.                                                       *)
(*                                                                         *)
(* Smoothing rounds left edge and side apart, so one step may lift their   *)
(* sum by one pixel over the exact mean.  The bound is inductive because   *)
(* the mean of a sum of at most W (the new box) and one of at most W + 1   *)
(* (the old one) is below W + 1 by alpha, which leaves the rounding less   *)
(* than one pixel.                                                         *)
(*                                                                         *)
(* The report of any rows agrees with itself: each section is a sum of     *)
(* sizes of disjoint sets of places in the store (SumCounts), and the      *)
(* sections count the same places.  Of the rows it needs only that each    *)
(* has a value of its kind (WellInv).                                      *)
(*                                                                         *)
(* Tracking and emotions differ by little because a stored face comes      *)
(* right after the debug row that let it pass, through sends, torn sends   *)
(* and the rows the ring drops (PairInv).                                  *)
(***************************************************************************)
EXTENDS AnalysisPath, FiniteSetTheorems, SequenceTheorems, TLAPS

\* What is preserved: the bound, and that boxes and widths are numbers.
BoxInv ==
    /\ widest \in [People -> Nat]
    /\ box \in [People -> {NoBox} \cup Boxes]
    /\ BoxInFrame

\* A product with a factor that is not negative is monotonic.
LEMMA Monotonic ==
    ASSUME NEW k \in Nat, NEW a \in Int, NEW b \in Int, a <= b
    PROVE  k * a <= k * b
  <1>1. (b - a) \in Nat  OBVIOUS
  <1>2. k * (b - a) >= 0  BY <1>1, SMT
  <1>3. k * (b - a) = k * b - k * a  BY SMT
  <1> QED  BY <1>2, <1>3

\* round(): the result is a whole number at most a half away.
LEMMA SmoothIsClose ==
    ASSUME NEW prev \in Int, NEW cur \in Int, NEW n \in Smooth(prev, cur)
    PROVE  /\ n \in Int
           /\ 100 * n <= (Alpha * cur + (100 - Alpha) * prev) + 50
           /\ 100 * n >= (Alpha * cur + (100 - Alpha) * prev) - 50
  <1>1. Alpha \in Int  BY AlphaPercent
  <1>2. PICK exact \in Int : exact = Alpha * cur + (100 - Alpha) * prev
    BY <1>1
  <1>3. /\ n \in {exact \div 100, exact \div 100 + 1}
        /\ 100 * n - exact <= 50 /\ exact - 100 * n <= 50
    BY <1>2, Zenon DEF Smooth
  <1>4. n \in Int  BY <1>2, <1>3
  <1>5. 100 * n <= exact + 50 /\ 100 * n >= exact - 50
    BY <1>3, <1>4
  <1> QED  BY <1>2, <1>4, <1>5

\* Smoothing never goes below a common lower bound.
LEMMA SmoothAtLeast ==
    ASSUME NEW prev \in Int, NEW cur \in Int, NEW n \in Smooth(prev, cur),
           NEW m \in Int, m <= prev, m <= cur
    PROVE  m <= n
  <1>1. Alpha \in Nat /\ 100 - Alpha \in Nat  BY AlphaPercent
  <1>2. Alpha * m <= Alpha * cur  BY <1>1, Monotonic
  <1>3. (100 - Alpha) * m <= (100 - Alpha) * prev  BY <1>1, Monotonic
  <1>4. Alpha * m + (100 - Alpha) * m = 100 * m  BY <1>1
  <1>5. n \in Int /\ 100 * n >= (Alpha * cur + (100 - Alpha) * prev) - 50
    BY SmoothIsClose
  <1>6. 100 * n >= 100 * m - 50  BY <1>1, <1>2, <1>3, <1>4, <1>5
  <1> QED  BY <1>5, <1>6

\* The right edge of a smoothed box: one pixel of rounding, never two.
LEMMA SmoothRightEdge ==
    ASSUME NEW p1 \in Int, NEW c1 \in Int, NEW n1 \in Smooth(p1, c1),
           NEW p2 \in Int, NEW c2 \in Int, NEW n2 \in Smooth(p2, c2),
           NEW W \in Int, c1 + c2 <= W, p1 + p2 <= W + 1
    PROVE  n1 + n2 <= W + 1
  <1>1. /\ Alpha \in Nat /\ 100 - Alpha \in Nat /\ Alpha >= 1
    BY AlphaPercent
  <1>2. Alpha * (c1 + c2) <= Alpha * W  BY <1>1, Monotonic
  <1>3. (100 - Alpha) * (p1 + p2) <= (100 - Alpha) * (W + 1)
    BY <1>1, Monotonic
  <1>4. /\ n1 \in Int /\ 100 * n1 <= Alpha * c1 + (100 - Alpha) * p1 + 50
        /\ n2 \in Int /\ 100 * n2 <= Alpha * c2 + (100 - Alpha) * p2 + 50
    BY SmoothIsClose
  <1>5. /\ Alpha * (c1 + c2) = Alpha * c1 + Alpha * c2
        /\ (100 - Alpha) * (p1 + p2) = (100 - Alpha) * p1 + (100 - Alpha) * p2
    BY <1>1
  <1>6. Alpha * W + (100 - Alpha) * (W + 1) = 100 * W + 100 - Alpha
    BY <1>1
  <1> DEFINE a1 == Alpha * c1  a2 == Alpha * c2  aW == Alpha * W
             b1 == (100 - Alpha) * p1  b2 == (100 - Alpha) * p2
             bW == (100 - Alpha) * (W + 1)
  <1>7. a1 \in Int /\ a2 \in Int /\ b1 \in Int /\ b2 \in Int
        /\ aW \in Int /\ bW \in Int
    BY <1>1
  <1>8. /\ a1 + a2 <= aW /\ b1 + b2 <= bW
        /\ 100 * n1 <= a1 + b1 + 50 /\ 100 * n2 <= a2 + b2 + 50
        /\ aW + bW = 100 * W + 100 - Alpha
    BY <1>2, <1>3, <1>4, <1>5, <1>6
  <1> HIDE DEF a1, a2, aW, b1, b2, bW
  <1>9. 100 * (n1 + n2) <= 100 * W + 200 - Alpha
    BY <1>1, <1>4, <1>7, <1>8
  <1> QED  BY <1>1, <1>4, <1>9

\* A box that clamp_face_region lets pass lies in its frame.
LEMMA ClampedInFrame ==
    ASSUME NEW x \in Int, NEW w \in Nat, NEW width \in Nat \ {0},
           NEW region, region = clamp_face_region(x, w, width),
           region # NoBox
    PROVE  /\ region \in Boxes
           /\ 0 <= region.left /\ MinSide <= region.side
           /\ region.left + region.side <= width
  <1> DEFINE left == Least(Greatest(0, x), width - 1)
             side == Least(w, width - left)
  <1>1. left \in Int /\ 0 <= left /\ left <= width - 1
    BY DEF Least, Greatest
  <1>2. side \in Int /\ side <= width - left
    BY <1>1 DEF Least
  <1>3. region = [left |-> left, side |-> side] /\ ~(side < MinSide)
    BY DEF clamp_face_region
  <1> HIDE DEF left, side
  <1>4. region.left = left /\ region.side = side  BY <1>3
  <1>5. region \in Boxes  BY <1>1, <1>2, <1>3 DEF Boxes
  <1>6. MinSide <= side  BY <1>2, <1>3, MinSidePositive
  <1> QED  BY <1>1, <1>2, <1>4, <1>5, <1>6

\* ema_bbox keeps the bound, relative to any width that covers both boxes.
LEMMA SmoothedInFrame ==
    ASSUME NEW prev \in {NoBox} \cup Boxes, NEW region \in Boxes,
           NEW W \in Nat, NEW b \in ema_bbox(prev, region),
           0 <= region.left, MinSide <= region.side,
           region.left + region.side <= W,
           prev # NoBox => /\ 0 <= prev.left /\ MinSide <= prev.side
                           /\ prev.left + prev.side <= W + 1
    PROVE  /\ b \in Boxes
           /\ 0 <= b.left /\ MinSide <= b.side
           /\ b.left + b.side <= W + 1
  <1>0. region.left \in Int /\ region.side \in Int /\ MinSide \in Int
    BY MinSidePositive DEF Boxes
  <1>1. CASE prev = NoBox
    <2>1. b = region  BY <1>1 DEF ema_bbox
    <2> QED  BY <1>0, <2>1
  <1>2. CASE prev # NoBox
    <2>1. prev \in Boxes /\ prev.left \in Int /\ prev.side \in Int
      BY <1>2 DEF Boxes
    <2>2. PICK l \in Smooth(prev.left, region.left),
               s \in Smooth(prev.side, region.side) :
                 b = [left |-> l, side |-> s]
      BY <1>2 DEF ema_bbox
    <2>3. l \in Int /\ s \in Int  BY <1>0, <2>1, SmoothIsClose
    <2>4. 0 <= l  BY <1>0, <1>2, <2>1, SmoothAtLeast
    <2>5. MinSide <= s  BY <1>0, <1>2, <2>1, SmoothAtLeast
    <2>6. l + s <= W + 1  BY <1>0, <1>2, <2>1, SmoothRightEdge
    <2>7. b.left = l /\ b.side = s /\ b \in Boxes
      BY <2>2, <2>3 DEF Boxes
    <2> QED  BY <2>4, <2>5, <2>6, <2>7
  <1> QED  BY <1>1, <1>2

LEMMA InitBox == Init => BoxInv
  BY DEF Init, BoxInv, BoxInFrame

\* A frame with a face: only the box and the width of its participant move.
LEMMA FaceBox ==
    ASSUME BoxInv, NEW p \in People, Face(p)
    PROVE  BoxInv'
  <1>1. PICK width \in Widths, norm \in Normalized, plausible \in BOOLEAN :
          LET region == IF plausible
                        THEN clamp_face_region(norm.left, norm.side, width)
                        ELSE NoBox
          IN  IF fp.debug /\ region # NoBox
              THEN /\ \E b \in ema_bbox(box[p], region) :
                         box' = [box EXCEPT ![p] = b]
                   /\ widest' = [widest EXCEPT ![p] = Greatest(@, width)]
              ELSE UNCHANGED <<box, widest>>
    BY DEF Face
  <1> DEFINE region == IF plausible
                       THEN clamp_face_region(norm.left, norm.side, width)
                       ELSE NoBox
             W == Greatest(widest[p], width)
  <1>2. width \in Nat \ {0} /\ norm.left \in Int /\ norm.side \in Nat
    BY WidthsPositive, SidesNumbered DEF Normalized
  <1>3. W \in Nat /\ widest[p] <= W /\ width <= W
    BY <1>2 DEF BoxInv, Greatest
  <1>4. box[p] \in {NoBox} \cup Boxes  BY DEF BoxInv
  <1>5. box[p] # NoBox => /\ 0 <= box[p].left /\ MinSide <= box[p].side
                          /\ box[p].left + box[p].side <= W + 1
    <2>1. SUFFICES ASSUME box[p] # NoBox
                   PROVE  /\ 0 <= box[p].left /\ MinSide <= box[p].side
                          /\ box[p].left + box[p].side <= W + 1
      OBVIOUS
    <2>2. box[p].left \in Int /\ box[p].side \in Int
      BY <1>4, <2>1 DEF Boxes
    <2>3. /\ 0 <= box[p].left /\ MinSide <= box[p].side
          /\ box[p].left + box[p].side <= widest[p] + 1
      BY <2>1 DEF BoxInv, BoxInFrame
    <2>4. widest[p] \in Nat  BY DEF BoxInv
    <2> QED  BY <1>3, <2>2, <2>3, <2>4
  <1>6. CASE fp.debug /\ region # NoBox
    <2>1. widest' = [widest EXCEPT ![p] = W]  BY <1>1, <1>6
    <2>2. widest' \in [People -> Nat]  BY <1>3, <2>1 DEF BoxInv
    <2>3. widest'[p] = W /\ \A q \in People \ {p} : widest'[q] = widest[q]
      BY <2>1 DEF BoxInv
    <2>4. PICK b \in ema_bbox(box[p], region) :
            box' = [box EXCEPT ![p] = b]
      BY <1>1, <1>6
    <2>5. region = clamp_face_region(norm.left, norm.side, width)
      BY <1>6
    <2>6. /\ region \in Boxes
          /\ 0 <= region.left /\ MinSide <= region.side
          /\ region.left + region.side <= width
      BY <1>2, <1>6, <2>5, ClampedInFrame
    <2> HIDE DEF region, W
    <2>7. region.left + region.side <= W
      BY <1>2, <1>3, <2>6 DEF Boxes
    <2>8. /\ b \in Boxes
          /\ 0 <= b.left /\ MinSide <= b.side
          /\ b.left + b.side <= W + 1
      BY <1>3, <1>4, <1>5, <2>6, <2>7, SmoothedInFrame
    <2>9. box'[p] = b /\ \A q \in People \ {p} : box'[q] = box[q]
      BY <2>4 DEF BoxInv
    <2>10. box' \in [People -> {NoBox} \cup Boxes]
      BY <2>4, <2>8 DEF BoxInv
    <2>11. BoxInFrame'
      BY <2>3, <2>8, <2>9 DEF BoxInv, BoxInFrame
    <2> QED  BY <2>2, <2>10, <2>11 DEF BoxInv
  <1>7. CASE ~(fp.debug /\ region # NoBox)
    <2>1. UNCHANGED <<box, widest>>  BY <1>1, <1>7
    <2> HIDE DEF region, W
    <2> QED  BY <2>1 DEF BoxInv, BoxInFrame
  <1> QED  BY <1>6, <1>7

LEMMA NextBox == BoxInv /\ [Next]_vars => BoxInv'
  <1> SUFFICES ASSUME BoxInv, [Next]_vars  PROVE BoxInv'
    OBVIOUS
  <1>1. ASSUME NEW p \in People, NoFace(p)  PROVE BoxInv'
    BY <1>1 DEF NoFace, BoxInv, BoxInFrame
  <1>2. ASSUME NEW p \in People, Face(p)  PROVE BoxInv'
    BY <1>2, FaceBox
  <1>3. ASSUME NEW p \in People, Chunk(p)  PROVE BoxInv'
    BY <1>3 DEF Chunk, BoxInv, BoxInFrame
  <1>4. CASE Emit
    BY <1>4 DEF Emit, BoxInv, BoxInFrame
  <1>5. CASE SendFails
    BY <1>5 DEF SendFails, BoxInv, BoxInFrame
  <1>6. CASE NextWindow
    BY <1>6 DEF NextWindow, BoxInv, BoxInFrame
  <1>7. CASE UNCHANGED vars
    BY <1>7 DEF vars, BoxInv, BoxInFrame
  <1> QED  BY <1>1, <1>2, <1>3, <1>4, <1>5, <1>6, <1>7 DEF Next

\* The box that is drawn over the picture of a participant never leaves the
\* frame by more than a pixel, however long the meeting and whatever the
\* detector returns.
THEOREM BoxStaysInFrame == Spec => []BoxInFrame
  <1>1. BoxInv => BoxInFrame  BY DEF BoxInv
  <1> QED  BY <1>1, InitBox, NextBox, PTL DEF Spec
-----------------------------------------------------------------------------
(* Typing.                                                                 *)

\* A row just built, before it is stamped.
LEMMA RowTyped ==
    ASSUME NEW kind \in Sections, NEW p \in People,
           NEW value \in Emotions \cup Reasons \cup
                         {"guard", "passed", "text", "speech", "silence"},
           NEW behavior \in {"none", "trackable"} \cup Reasons
    PROVE  Row(kind, p, value, behavior) \in Rows
  BY BoundsNatural DEF Row, Rows

LEMMA InitTyped == Init => AnalysisTypeOK
  BY SettingsTyped, BoundsNatural, CapPositive
  DEF Init, AnalysisTypeOK, Boxes

\* What a detected face gives is at most two rows.
LEMMA OutputsTyped ==
    ASSUME NEW p \in People, NEW emotion \in Emotions,
           NEW confident \in BOOLEAN, NEW region, AnalysisTypeOK
    PROVE  LET rows == Outputs(p, emotion, skip_reason(confident, region))
           IN  rows \in Seq(Rows) /\ Len(rows) <= 2
  <1> DEFINE skip == skip_reason(confident, region)
             dbg  == face_debug(p, skip)
             face == Row("face", p, emotion, Behavior(skip))
  <1>1. skip \in Reasons \cup {"none"}  BY DEF skip_reason, Reasons
  <1> HIDE DEF skip
  <1>2. dbg \in Rows
    <2>1. "face_debug" \in Sections  BY DEF Sections
    <2>2. (IF skip = "none" THEN "passed" ELSE skip) \in
            Emotions \cup Reasons \cup
              {"guard", "passed", "text", "speech", "silence"}
      BY <1>1
    <2> QED  BY <2>1, <2>2, RowTyped DEF face_debug
  <1>3. face \in Rows
    <2>1. "face" \in Sections  BY DEF Sections
    <2>2. Behavior(skip) \in {"none", "trackable"} \cup Reasons
      BY <1>1 DEF Behavior, Quality
    <2> QED  BY <2>1, <2>2, RowTyped
  <1> HIDE DEF dbg, face
  <1> DEFINE first  == IF fp.debug THEN <<dbg>> ELSE <<>>
             second == IF skip = "none" /\ ContractHolds(face)
                       THEN <<face>> ELSE <<>>
  <1>4. first \in Seq(Rows) /\ Len(first) <= 1  BY <1>2
  <1>5. second \in Seq(Rows) /\ Len(second) <= 1  BY <1>3
  <1>6. Outputs(p, emotion, skip) = first \o second
    BY DEF Outputs, dbg, face
  <1> HIDE DEF first, second
  <1>7. (first \o second) \in Seq(Rows) /\ Len(first \o second) <= 2
    BY <1>4, <1>5
  <1> QED  BY <1>6, <1>7 DEF skip

LEMMA FaceTyped ==
    ASSUME AnalysisTypeOK, BoxInv, NEW p \in People, Face(p)
    PROVE  AnalysisTypeOK'
  <1>1. /\ widest' \in [People -> Nat]
        /\ box' \in [People -> {NoBox} \cup Boxes]
    BY FaceBox DEF BoxInv
  <1>2. todo' \in Seq(Rows) /\ Len(todo') <= 2
    <2>1. PICK emotion \in Emotions, confident \in BOOLEAN :
            \E region : todo' = Outputs(p, emotion,
                                       skip_reason(confident, region))
      BY DEF Face, Normalized
    <2>2. PICK region : todo' = Outputs(p, emotion,
                                       skip_reason(confident, region))
      BY <2>1
    <2> QED  BY <2>2, OutputsTyped
  <1>3. msgs' \in 0 .. MaxMsgs
    BY BoundsNatural DEF Face, Take, AnalysisTypeOK
  <1> QED  BY <1>1, <1>2, <1>3 DEF Face, AnalysisTypeOK

LEMMA EmitTyped ==
    ASSUME AnalysisTypeOK, Emit
    PROVE  AnalysisTypeOK'
  <1> DEFINE row == [Head(todo) EXCEPT !.bucket = bucket]
  <1>1. row \in Rows
    <2>1. Head(todo) \in Rows  BY DEF AnalysisTypeOK, Emit
    <2> QED  BY <2>1 DEF AnalysisTypeOK, Rows
  <1>2. store' = IF Len(store) < Cap THEN Append(store, row)
                                     ELSE Append(Tail(store), row)
    BY DEF Emit, Push
  <1> HIDE DEF row
  <1>3. store \in Seq(Rows) /\ Len(store) <= Cap  BY DEF AnalysisTypeOK
  <1>4. store' \in Seq(Rows) /\ Len(store') <= Cap
    <2>1. CASE Len(store) < Cap  BY <1>1, <1>2, <1>3, <2>1, CapPositive
    <2>2. CASE ~(Len(store) < Cap)
      <3>1. store # <<>> /\ Len(store) = Cap
        BY <1>3, <2>2, CapPositive
      <3>2. Tail(store) \in Seq(Rows) /\ Len(Tail(store)) = Cap - 1
        BY <1>3, <3>1
      <3> QED  BY <1>1, <1>2, <2>2, <3>2, CapPositive
    <2> QED  BY <2>1, <2>2
  <1>5. todo' \in Seq(Rows) /\ Len(todo') <= 2
    BY DEF AnalysisTypeOK, Emit
  <1> QED  BY <1>4, <1>5 DEF Emit, AnalysisTypeOK

LEMMA ChunkTyped ==
    ASSUME AnalysisTypeOK, NEW p \in People, Chunk(p)
    PROVE  AnalysisTypeOK'
  <1>1. PICK activity \in Activity, heard \in HasText :
          todo' = <<Row("audio", p, activity, "none")>>
                  \o (IF heard THEN <<Row("text", p, "text", "none")>>
                               ELSE <<>>)
    BY DEF Chunk
  <1> DEFINE audio == Row("audio", p, activity, "none")
             text  == Row("text", p, "text", "none")
  <1>2. audio \in Rows /\ text \in Rows  BY RowTyped DEF Sections, Activity
  <1> HIDE DEF audio, text
  <1>3. todo' = IF heard THEN <<audio>> \o <<text>> ELSE <<audio>> \o <<>>
    BY <1>1 DEF audio, text
  <1>4. todo' \in Seq(Rows) /\ Len(todo') <= 2  BY <1>2, <1>3
  <1>5. msgs' \in 0 .. MaxMsgs
    BY BoundsNatural DEF Chunk, Take, AnalysisTypeOK
  <1> QED  BY <1>4, <1>5 DEF Chunk, AnalysisTypeOK

LEMMA NextTyped == AnalysisTypeOK /\ BoxInv /\ [Next]_vars => AnalysisTypeOK'
  <1> SUFFICES ASSUME AnalysisTypeOK, BoxInv, [Next]_vars
               PROVE  AnalysisTypeOK'
    OBVIOUS
  <1>1. ASSUME NEW p \in People, NoFace(p)  PROVE AnalysisTypeOK'
    <2>1. Row("face", p, "guard", "none") \in Rows
      BY RowTyped DEF Sections
    <2>2. todo' \in Seq(Rows) /\ Len(todo') <= 2
      BY <1>1, <2>1 DEF NoFace
    <2>3. msgs' \in 0 .. MaxMsgs
      BY <1>1, BoundsNatural DEF NoFace, Take, AnalysisTypeOK
    <2> QED  BY <1>1, <2>2, <2>3 DEF NoFace, AnalysisTypeOK
  <1>2. ASSUME NEW p \in People, Face(p)  PROVE AnalysisTypeOK'
    BY <1>2, FaceTyped
  <1>3. ASSUME NEW p \in People, Chunk(p)  PROVE AnalysisTypeOK'
    BY <1>3, ChunkTyped
  <1>4. CASE Emit  BY <1>4, EmitTyped
  <1>5. CASE SendFails
    <2>1. fails' \in 0 .. MaxFails
      BY <1>5, BoundsNatural DEF SendFails, AnalysisTypeOK
    <2>2. torn' \in [People -> Nat]
      <3>1. torn \in [People -> Nat]  BY DEF AnalysisTypeOK
      <3>2. \A q \in People :
              [torn EXCEPT ![q] = @ + 1] \in [People -> Nat]
        BY <3>1
      <3>3. Head(todo) \in Rows  BY <1>5 DEF SendFails, AnalysisTypeOK
      <3>4. Head(todo).pid \in People  BY <3>3 DEF Rows
      <3>5. torn' = torn \/ torn' = [torn EXCEPT ![Head(todo).pid] = @ + 1]
        BY <1>5 DEF SendFails
      <3> QED  BY <3>1, <3>2, <3>4, <3>5
    <2>3. todo' \in Seq(Rows) /\ Len(todo') <= 2
      BY <1>5 DEF SendFails
    <2> QED  BY <1>5, <2>1, <2>2, <2>3 DEF SendFails, AnalysisTypeOK
  <1>6. CASE NextWindow
    BY <1>6, BoundsNatural DEF NextWindow, AnalysisTypeOK
  <1>7. CASE UNCHANGED vars
    BY <1>7 DEF vars, AnalysisTypeOK
  <1> QED  BY <1>1, <1>2, <1>3, <1>4, <1>5, <1>6, <1>7 DEF Next

\* The feature store never holds more than its limit, and a message leaves at
\* most two rows to send, in every reachable state.
THEOREM TypeCorrect == Spec => []AnalysisTypeOK
  BY InitBox, NextBox, InitTyped, NextTyped, PTL DEF Spec
-----------------------------------------------------------------------------
(* Sums.  A sum over a finite set is defined by recursion over its subsets *)
(* (MapThenFoldSet).  That the recursion defines a function, and what it   *)
(* adds up to, is shown by looking at a smallest subset for which it fails: *)
(* a set of subsets has a minimal one.                                     *)

\* The element that the recursion takes next.
Pick(U) == CHOOSE x \in U : TRUE
IsSum(f, T, h) ==
    h = [U \in SUBSET T |->
            IF U = {} THEN 0 ELSE f[Pick(U)] + h[U \ {Pick(U)}]]

\* The sum is that of a function that satisfies the recursion.
LEMMA SumIs ==
    ASSUME NEW f, NEW T
    PROVE  SumFunctionOnSet(f, T) = (CHOOSE h : IsSum(f, T, h))[T]
  BY DEF SumFunctionOnSet, FoldFunctionOnSet, MapThenFoldSet, IsSum, Pick

\* Induction over finite sets, by the absence of a smallest counterexample.
LEMMA Smallest ==
    ASSUME NEW S, IsFiniteSet(S), NEW Bad \in SUBSET (SUBSET S), Bad # {}
    PROVE  \E T \in Bad : \A U \in SUBSET T : U # T => U \notin Bad
  <1>1. Bad \subseteq FiniteSubsetsOf(S)
    BY FS_Subset DEF FiniteSubsetsOf
  <1>2. \E T \in Bad : \A U \in Bad : <<U, T>> \notin StrictSubsetOrdering(S)
    BY <1>1, FS_StrictSubsetOrderingWellFounded, WFMin
  <1> QED BY <1>2 DEF StrictSubsetOrdering

\* The functions that satisfy the recursion agree.
LEMMA SumUnique ==
    ASSUME NEW f, NEW S, IsFiniteSet(S), NEW T, NEW U, S = T \cap U,
           NEW g, IsSum(f, T, g), NEW h, IsSum(f, U, h)
    PROVE  \A V \in SUBSET S : g[V] = h[V]
  <1> DEFINE Bad == {V \in SUBSET S : g[V] # h[V]}
  <1> SUFFICES ASSUME Bad # {}  PROVE FALSE
    OBVIOUS
  <1>1. PICK V \in Bad : \A W \in SUBSET V : W # V => W \notin Bad
    <2>1. Bad \in SUBSET (SUBSET S)  OBVIOUS
    <2> HIDE DEF Bad
    <2> QED  BY <2>1, Smallest
  <1>2. V \in SUBSET T /\ V \in SUBSET U /\ V \in SUBSET S
    BY <1>1
  <1>3. /\ g[V] = IF V = {} THEN 0 ELSE f[Pick(V)] + g[V \ {Pick(V)}]
        /\ h[V] = IF V = {} THEN 0 ELSE f[Pick(V)] + h[V \ {Pick(V)}]
    BY <1>2 DEF IsSum
  <1>4. V # {} => g[V \ {Pick(V)}] = h[V \ {Pick(V)}]
    <2> SUFFICES ASSUME V # {}  PROVE g[V \ {Pick(V)}] = h[V \ {Pick(V)}]
      OBVIOUS
    <2>1. Pick(V) \in V  BY DEF Pick
    <2>2. V \ {Pick(V)} # V /\ V \ {Pick(V)} \in SUBSET V  BY <2>1
    <2> QED  BY <1>1, <1>2, <2>2
  <1> QED  BY <1>1, <1>3, <1>4

\* There is one for each set: the sums of the smaller sets give the next.
LEMMA SumExists ==
    ASSUME NEW f, NEW S, IsFiniteSet(S)
    PROVE  \A T \in SUBSET S : \E h : IsSum(f, T, h)
  <1> DEFINE Bad == {T \in SUBSET S : ~ \E h : IsSum(f, T, h)}
  <1> SUFFICES ASSUME Bad # {}  PROVE FALSE
    OBVIOUS
  <1>1. PICK T \in Bad : \A U \in SUBSET T : U # T => U \notin Bad
    <2>1. Bad \in SUBSET (SUBSET S)  OBVIOUS
    <2> HIDE DEF Bad
    <2> QED  BY <2>1, Smallest
  <1> DEFINE G(U)  == (CHOOSE h : IsSum(f, U, h))[U]
             sum   == [U \in SUBSET T |->
                         IF U = {} THEN 0
                         ELSE f[Pick(U)] + G(U \ {Pick(U)})]
  <1>2. ASSUME NEW U \in SUBSET T, U # T
        PROVE  IsSum(f, U, CHOOSE h : IsSum(f, U, h))
    BY <1>1, <1>2
  <1>3. ASSUME NEW U \in SUBSET T, U # {}, U # T  PROVE G(U) = f[Pick(U)] + G(U \ {Pick(U)})
    <2> DEFINE V == U \ {Pick(U)}
               g == CHOOSE h : IsSum(f, U, h)
               k == CHOOSE h : IsSum(f, V, h)
    <2>1. Pick(U) \in U  BY <1>3 DEF Pick
    <2>2. V \in SUBSET T /\ V # T /\ V = U \cap V /\ V \in SUBSET V  BY <2>1
    <2>3. IsSum(f, U, g) /\ IsSum(f, V, k)  BY <1>2, <1>3, <2>2
    <2>4. IsFiniteSet(V)  BY <1>1, <2>2, FS_Subset
    <2> HIDE DEF g, k
    <2>5. g[U] = f[Pick(U)] + g[V]  BY <1>3, <2>3 DEF IsSum
    <2> HIDE DEF V
    <2>6. g[V] = k[V]  BY <2>2, <2>3, <2>4, SumUnique
    <2> QED  BY <2>5, <2>6 DEF V, g, k
  <1>4. ASSUME NEW U \in SUBSET T, U # T  PROVE G(U) = sum[U]
    <2>1. CASE U = {}
      <3> DEFINE g == CHOOSE h : IsSum(f, U, h)
      <3>1. IsSum(f, U, g)  BY <1>2, <1>4
      <3> HIDE DEF g
      <3>2. g[U] = 0  BY <2>1, <3>1 DEF IsSum
      <3> QED  BY <2>1, <3>2 DEF g
    <2>2. CASE U # {}
      <3> HIDE DEF G
      <3> QED  BY <1>3, <1>4, <2>2
    <2> QED  BY <2>1, <2>2
  <1> HIDE DEF G
  <1>5. \A U \in SUBSET T : U # {} =>
            G(U \ {Pick(U)}) = sum[U \ {Pick(U)}]
    <2> SUFFICES ASSUME NEW U \in SUBSET T, U # {}
                 PROVE  G(U \ {Pick(U)}) = sum[U \ {Pick(U)}]
      OBVIOUS
    <2>1. Pick(U) \in U  BY DEF Pick
    <2>2. U \ {Pick(U)} \in SUBSET T /\ U \ {Pick(U)} # T  BY <2>1
    <2> HIDE DEF sum
    <2> QED  BY <1>4, <2>2
  <1>6. IsSum(f, T, sum)
    <2>1. sum = [U \in SUBSET T |-> IF U = {} THEN 0
                                    ELSE f[Pick(U)] + sum[U \ {Pick(U)}]]
      BY <1>5
    <2> QED  BY <2>1 DEF IsSum
  <1> QED  BY <1>1, <1>6

\* What the recursion computes.
LEMMA SumStep ==
    ASSUME NEW f, NEW T, IsFiniteSet(T)
    PROVE  SumFunctionOnSet(f, T) =
               IF T = {} THEN 0
               ELSE f[Pick(T)] + SumFunctionOnSet(f, T \ {Pick(T)})
  <1> DEFINE V == T \ {Pick(T)}
             g == CHOOSE h : IsSum(f, T, h)
             k == CHOOSE h : IsSum(f, V, h)
  <1>1. T \in SUBSET T /\ V \in SUBSET T /\ V = T \cap V /\ V \in SUBSET V
    OBVIOUS
  <1>2. IsSum(f, T, g) /\ IsSum(f, V, k)  BY <1>1, SumExists
  <1>3. IsFiniteSet(V)  BY <1>1, FS_Subset
  <1>4. SumFunctionOnSet(f, T) = g[T] /\ SumFunctionOnSet(f, V) = k[V]
    BY SumIs
  <1> HIDE DEF g, k
  <1>5. g[T] = IF T = {} THEN 0 ELSE f[Pick(T)] + g[V]
    BY <1>1, <1>2 DEF IsSum
  <1> HIDE DEF V
  <1>6. g[V] = k[V]  BY <1>1, <1>2, <1>3, SumUnique
  <1> QED  BY <1>4, <1>5, <1>6 DEF V

\* Where f counts sets that are apart, its sum counts their union.
Union(A, T) == UNION {A[d] : d \in T}

LEMMA SumOfDisjoint ==
    ASSUME NEW D, IsFiniteSet(D), NEW f, NEW A,
           \A d \in D : IsFiniteSet(A[d]) /\ f[d] = Cardinality(A[d]),
           \A d, e \in D : d # e => A[d] \cap A[e] = {}
    PROVE  /\ IsFiniteSet(Union(A, D))
           /\ SumFunctionOnSet(f, D) = Cardinality(Union(A, D))
  <1> DEFINE Good(T) == /\ IsFiniteSet(Union(A, T))
                        /\ SumFunctionOnSet(f, T) = Cardinality(Union(A, T))
             Bad == {T \in SUBSET D : ~Good(T)}
  <1> SUFFICES ASSUME Bad # {}  PROVE FALSE
    OBVIOUS
  <1>1. PICK T \in Bad : \A U \in SUBSET T : U # T => U \notin Bad
    <2>1. Bad \in SUBSET (SUBSET D)  OBVIOUS
    <2> HIDE DEF Bad
    <2> QED  BY <2>1, Smallest
  <1>2. T \in SUBSET D /\ ~Good(T) /\ IsFiniteSet(T)
    BY <1>1, FS_Subset
  <1>3. CASE T = {}
    <2>1. Union(A, T) = {}  BY <1>3 DEF Union
    <2> QED  BY <1>2, <1>3, <2>1, SumStep, FS_EmptySet
  <1>4. CASE T # {}
    <2> DEFINE c == Pick(T)
               V == T \ {c}
    <2>1. c \in T /\ c \in D  BY <1>2, <1>4 DEF Pick
    <2>2. V \in SUBSET T /\ V # T /\ V \in SUBSET D  BY <1>2, <2>1
    <2>3. Good(V)  BY <1>1, <2>2
    <2>4. SumFunctionOnSet(f, T) = f[c] + SumFunctionOnSet(f, V)
      BY <1>2, <1>4, SumStep
    <2> HIDE DEF c
    <2>5. /\ Union(A, T) = A[c] \cup Union(A, V)
          /\ A[c] \cap Union(A, V) = {}
      BY <1>2, <2>1 DEF Union
    <2> HIDE DEF V
    <2>6. Cardinality(A[c]) \in Nat /\ Cardinality(Union(A, V)) \in Nat
      BY <2>1, <2>3, FS_CardinalityType
    <2>7. /\ IsFiniteSet(Union(A, T))
          /\ Cardinality(Union(A, T)) =
                 Cardinality(A[c]) + Cardinality(Union(A, V)) - Cardinality({})
      <3>1. IsFiniteSet(A[c]) /\ IsFiniteSet(Union(A, V))  BY <2>1, <2>3
      <3>2. /\ IsFiniteSet(A[c] \cup Union(A, V))
            /\ Cardinality(A[c] \cup Union(A, V)) =
                   Cardinality(A[c]) + Cardinality(Union(A, V))
                     - Cardinality(A[c] \cap Union(A, V))
        BY <3>1, FS_Union
      <3> HIDE DEF Good, Bad
      <3> QED  BY <2>5, <3>2
    <2>8. Cardinality({}) = 0  BY FS_EmptySet
    <2> QED  BY <1>2, <2>1, <2>3, <2>4, <2>6, <2>7, <2>8
  <1> QED  BY <1>3, <1>4

\* What f says of each d in D is the size of A[d], and these are apart.
Counts(f, D, A) ==
    /\ DOMAIN f = D
    /\ \A d \in D : f[d] = Cardinality(A[d])
    /\ \A d, e \in D : d # e => A[d] \cap A[e] = {}

LEMMA SumCounts ==
    ASSUME NEW I, IsFiniteSet(I), NEW D, IsFiniteSet(D),
           NEW A \in [D -> SUBSET I], NEW f, Counts(f, D, A)
    PROVE  SumFunction(f) = Cardinality(Union(A, D))
  <1>1. \A d \in D : IsFiniteSet(A[d])  BY FS_Subset
  <1>2. SumFunctionOnSet(f, D) = Cardinality(Union(A, D))
    BY <1>1, SumOfDisjoint DEF Counts
  <1> QED  BY <1>2 DEF SumFunction, Counts
-----------------------------------------------------------------------------
(* The sections of a report of any rows.                                   *)

\* The rows of a report are counted by their places.
LEMMA PlacesFinite ==
    ASSUME NEW rows \in Seq(Rows)
    PROVE  /\ IsFiniteSet(DOMAIN rows) /\ Cardinality(DOMAIN rows) = Len(rows)
           /\ \A I \in SUBSET DOMAIN rows :
                IsFiniteSet(I) /\ Cardinality(I) \in Nat
  <1>1. DOMAIN rows = 1 .. Len(rows) /\ Len(rows) \in Nat  BY LenProperties
  <1>2. IsFiniteSet(1 .. Len(rows)) /\ Cardinality(1 .. Len(rows)) = Len(rows)
    BY <1>1, FS_Interval
  <1> QED  BY <1>1, <1>2, FS_Subset, FS_CardinalityType

LEMMA RowOfRows ==
    ASSUME NEW rows \in Seq(Rows), NEW i \in DOMAIN rows
    PROVE  rows[i] \in Rows
  BY ElementOfSeq

\* The emotions of one participant, and of all.
EmotionRows(rows) ==
    {i \in DOMAIN rows : rows[i].kind = "face" /\ rows[i].value \in Emotions}

LEMMA EmotionsOfOne ==
    ASSUME NEW rows \in Seq(Rows), NEW p
    PROVE  SumFunction(emotion_counts(rows, p)) = Cardinality(Emotional(rows, p))
  <1> DEFINE A == [e \in Emotions |-> Valued(rows, "face", p, e)]
             f == emotion_counts(rows, p)
  <1>1. A \in [Emotions -> SUBSET DOMAIN rows]  BY DEF Valued, Of
  <1>2. Counts(f, Emotions, A)  BY DEF Counts, emotion_counts, Valued
  <1>3. Union(A, Emotions) = Emotional(rows, p)
    BY DEF Union, Emotional, Valued
  <1>4. IsFiniteSet(DOMAIN rows) /\ IsFiniteSet(Emotions)
    BY PlacesFinite, FiniteLabels
  <1> HIDE DEF A, f
  <1>5. SumFunction(f) = Cardinality(Union(A, Emotions))
    BY <1>1, <1>2, <1>4, SumCounts
  <1> QED  BY <1>3, <1>5 DEF f

\* Finitely many participants have rows.
LEMMA PeopleFinite ==
    ASSUME NEW rows \in Seq(Rows)
    PROVE  IsFiniteSet(participants(rows))
  <1> DEFINE T == {rows[i].pid : i \in DOMAIN rows}
             g == [i \in DOMAIN rows |-> rows[i].pid]
  <1>1. g \in Surjection(DOMAIN rows, T)  BY DEF Surjection
  <1>2. IsFiniteSet(DOMAIN rows)  BY PlacesFinite
  <1> HIDE DEF T, g
  <1>3. IsFiniteSet(T)  BY <1>1, <1>2, FS_Surjection
  <1>4. participants(rows) \in SUBSET T
    BY DEF participants, Of, Emotional, T
  <1> QED  BY <1>3, <1>4, FS_Subset

LEMMA EmotionsOfTiles ==
    ASSUME NEW rows \in Seq(Rows)
    PROVE  SumFunction([p \in DOMAIN tiles(rows) |-> tiles(rows)[p].emotions])
             = Cardinality(EmotionRows(rows))
  <1> DEFINE P == participants(rows)
             A == [p \in P |-> Emotional(rows, p)]
             f == [p \in DOMAIN tiles(rows) |-> tiles(rows)[p].emotions]
  <1>1. A \in [P -> SUBSET DOMAIN rows]  BY DEF Emotional, Of
  <1>2. DOMAIN tiles(rows) = P
        /\ \A p \in P : tiles(rows)[p].emotions = Cardinality(Emotional(rows, p))
    BY EmotionsOfOne DEF tiles, tile
  <1>3. Counts(f, P, A)  BY <1>2 DEF Counts, Emotional, Of
  <1>4. Union(A, P) = EmotionRows(rows)
    <2>1. \A i \in EmotionRows(rows) :
             i \in Emotional(rows, rows[i].pid) /\ rows[i].pid \in P
      BY RowOfRows DEF EmotionRows, Emotional, Of, participants, Rows
    <2>2. \A p \in P : Emotional(rows, p) \subseteq EmotionRows(rows)
      BY DEF EmotionRows, Emotional, Of
    <2> HIDE DEF P
    <2> QED  BY <2>1, <2>2 DEF Union
  <1>5. IsFiniteSet(DOMAIN rows) /\ IsFiniteSet(P)
    BY PlacesFinite, PeopleFinite
  <1> HIDE DEF A, f, P
  <1>6. SumFunction(f) = Cardinality(Union(A, P))
    BY <1>1, <1>3, <1>5, SumCounts
  <1> QED  BY <1>4, <1>6 DEF f

LEMMA EmotionsOfAll ==
    ASSUME NEW rows \in Seq(Rows)
    PROVE  SumFunction(emotion_distribution(rows)) = Cardinality(EmotionRows(rows))
  <1> DEFINE P == participants(rows)
             With(e) == {i \in DOMAIN rows : rows[i].kind = "face" /\ rows[i].value = e}
             f == emotion_distribution(rows)
  <1>0. IsFiniteSet(DOMAIN rows) /\ IsFiniteSet(P) /\ IsFiniteSet(Emotions)
    BY PlacesFinite, PeopleFinite, FiniteLabels
  <1>1. ASSUME NEW e \in Emotions  PROVE f[e] = Cardinality(With(e))
    <2> DEFINE A == [p \in P |-> Valued(rows, "face", p, e)]
               g == [p \in P |-> emotion_counts(rows, p)[e]]
    <2>1. A \in [P -> SUBSET DOMAIN rows]  BY DEF Valued, Of
    <2>2. Counts(g, P, A)  BY DEF Counts, emotion_counts, Valued, Of
    <2>3. Union(A, P) = With(e)
      <3>1. ASSUME NEW i \in With(e)
            PROVE  i \in Valued(rows, "face", rows[i].pid, e) /\ rows[i].pid \in P
        <4>1. rows[i].pid \in People  BY RowOfRows DEF Rows
        <4>2. i \in Valued(rows, "face", rows[i].pid, e)  BY DEF Valued, Of
        <4>3. i \in Emotional(rows, rows[i].pid)  BY DEF Emotional, Of
        <4> QED  BY <4>1, <4>2, <4>3 DEF participants
      <3>2. \A p \in P : Valued(rows, "face", p, e) \subseteq With(e)
        BY DEF Valued, Of
      <3> HIDE DEF P, With
      <3> QED  BY <3>1, <3>2 DEF Union
    <2>4. f[e] = SumFunction(g)  BY DEF emotion_distribution
    <2> HIDE DEF A, g, P, f, With
    <2>5. SumFunction(g) = Cardinality(Union(A, P))
      BY <1>0, <2>1, <2>2, SumCounts
    <2> QED  BY <2>3, <2>4, <2>5
  <1> DEFINE B == [e \in Emotions |-> With(e)]
  <1>2. B \in [Emotions -> SUBSET DOMAIN rows]  OBVIOUS
  <1>3. Counts(f, Emotions, B)
    <2>1. DOMAIN f = Emotions  BY DEF emotion_distribution
    <2>2. \A d, e \in Emotions : d # e => With(d) \cap With(e) = {}  OBVIOUS
    <2> HIDE DEF f, With
    <2> QED  BY <1>1, <2>1, <2>2 DEF Counts
  <1>4. Union(B, Emotions) = EmotionRows(rows)  BY DEF Union, EmotionRows
  <1> HIDE DEF B, f, P
  <1>5. SumFunction(f) = Cardinality(Union(B, Emotions))
    BY <1>0, <1>2, <1>3, SumCounts
  <1> QED  BY <1>4, <1>5 DEF f

\* What the value of a row may be, by its kind: a face has an emotion or is a
\* guard row, a debug frame passed or has the reason why it did not.
WellValued(row) ==
    /\ row.kind = "face" => row.value \in Emotions \cup {"guard"}
    /\ row.kind = "face_debug" => row.value \in Reasons \cup {"passed"}
    /\ row.value = "guard" => row.kind = "face"

AllWellValued(rows) == \A i \in DOMAIN rows : WellValued(rows[i])

LEMMA FacesCounted ==
    ASSUME NEW rows \in Seq(Rows), AllWellValued(rows)
    PROVE  kinds(rows)["face"]
               - Cardinality({i \in DOMAIN rows : rows[i].value = "guard"})
             = Cardinality(EmotionRows(rows))
  <1> DEFINE faces  == {i \in DOMAIN rows : rows[i].kind = "face"}
             guards == {i \in DOMAIN rows : rows[i].value = "guard"}
  <1>1. faces \ guards = EmotionRows(rows) /\ faces \cap guards = guards
    BY FiniteLabels DEF EmotionRows, AllWellValued, WellValued
  <1>2. IsFiniteSet(faces)  BY PlacesFinite
  <1>3. kinds(rows)["face"] = Cardinality(faces)  BY DEF kinds, Sections
  <1> HIDE DEF faces, guards
  <1>4. Cardinality(faces \ guards)
          = Cardinality(faces) - Cardinality(faces \cap guards)
    BY <1>2, FS_Difference
  <1> QED  BY <1>1, <1>3, <1>4 DEF guards

LEMMA ReasonsCounted ==
    ASSUME NEW rows \in Seq(Rows), AllWellValued(rows), NEW p
    PROVE  LET t == tracking(rows, p) IN
           t.passed + SumFunction(t.reasons) = t.events
  <1> DEFINE debug  == Of(rows, "face_debug", p)
             passed == Valued(rows, "face_debug", p, "passed")
             A == [r \in Reasons |-> Valued(rows, "face_debug", p, r)]
             f == tracking(rows, p).reasons
  <1>1. A \in [Reasons -> SUBSET DOMAIN rows] /\ Counts(f, Reasons, A)
    BY DEF Counts, tracking, Valued, Of
  <1>2. Union(A, Reasons) = debug \ passed /\ passed = debug \cap passed
    BY DEF Union, Valued, Of, AllWellValued, WellValued, Reasons
  <1>3. IsFiniteSet(Reasons)
    <2>1. Reasons = {"low_confidence"} \cup {"small_region"}  BY DEF Reasons
    <2> QED  BY <2>1, FS_Singleton, FS_Union
  <1>4. debug \in SUBSET DOMAIN rows /\ passed \in SUBSET DOMAIN rows
    BY DEF Valued, Of
  <1>5. /\ tracking(rows, p).passed = Cardinality(passed)
        /\ tracking(rows, p).events = Cardinality(debug)
    BY DEF tracking
  <1> HIDE DEF A, f, debug, passed
  <1>6. SumFunction(f) = Cardinality(debug \ passed)
    BY <1>1, <1>2, <1>3, PlacesFinite, SumCounts
  <1>7. /\ Cardinality(debug \ passed)
             = Cardinality(debug) - Cardinality(passed)
        /\ Cardinality(debug) \in Nat /\ Cardinality(passed) \in Nat
    <2>1. IsFiniteSet(debug)  BY <1>4, PlacesFinite
    <2>2. Cardinality(debug \ passed)
            = Cardinality(debug) - Cardinality(debug \cap passed)
      BY <2>1, FS_Difference
    <2> QED  BY <1>2, <1>4, <2>2, PlacesFinite
  <1> QED  BY <1>5, <1>6, <1>7 DEF f

\* Every row is in one section of one key of the fusion.
LEMMA FusionComplete ==
    ASSUME NEW rows \in Seq(Rows)
    PROVE  SumFunction([key \in DOMAIN fusion(rows) |->
                          SumFunction(fusion(rows)[key])]) = Len(rows)
  <1> DEFINE Key(i) == <<rows[i].pid, rows[i].bucket>>
             keys   == {Key(i) : i \in DOMAIN rows}
             At(key) == {i \in DOMAIN rows : Key(i) = key}
             In(key, k) == {i \in Of(rows, k, key[1]) : rows[i].bucket = key[2]}
  <1>1. /\ DOMAIN fusion(rows) = keys
        /\ \A key \in keys :
             fusion(rows)[key] = [k \in Sections |-> Cardinality(In(key, k))]
    BY DEF fusion
  <1>2. IsFiniteSet(DOMAIN rows)  BY PlacesFinite
  <1>3. IsFiniteSet(keys)
    <2> DEFINE g == [i \in DOMAIN rows |-> Key(i)]
    <2>1. g \in Surjection(DOMAIN rows, keys)  BY DEF Surjection
    <2> HIDE DEF g, keys
    <2> QED  BY <1>2, <2>1, FS_Surjection
  <1>4. IsFiniteSet(Sections)
    <2>1. Sections = {"audio"} \cup {"text"} \cup {"face"} \cup {"face_debug"}
      BY DEF Sections
    <2> QED  BY <2>1, FS_Singleton, FS_Union
  <1>5. ASSUME NEW key \in keys
        PROVE  SumFunction(fusion(rows)[key]) = Cardinality(At(key))
    <2> DEFINE A == [k \in Sections |-> In(key, k)]
               f == [k \in Sections |-> Cardinality(In(key, k))]
    <2>1. A \in [Sections -> SUBSET DOMAIN rows]  BY DEF Of
    <2>2. Counts(f, Sections, A)  BY DEF Counts, Of
    <2>3. Union(A, Sections) = At(key)
      <3>1. PICK j \in DOMAIN rows : key = <<rows[j].pid, rows[j].bucket>>
        OBVIOUS
      <3>2. \A k : In(key, k) = {i \in At(key) : rows[i].kind = k}
        BY <3>1 DEF Of
      <3>3. \A i \in DOMAIN rows : rows[i].kind \in Sections
        BY RowOfRows DEF Rows
      <3> HIDE DEF In
      <3> QED  BY <3>2, <3>3 DEF Union
    <2> HIDE DEF A, f, At, keys
    <2>4. SumFunction(f) = Cardinality(Union(A, Sections))
      BY <1>2, <1>4, <2>1, <2>2, SumCounts
    <2> QED  BY <1>1, <2>3, <2>4 DEF f
  <1> DEFINE B == [key \in keys |-> At(key)]
             g == [key \in DOMAIN fusion(rows) |-> SumFunction(fusion(rows)[key])]
  <1>6. B \in [keys -> SUBSET DOMAIN rows]  OBVIOUS
  <1>7. Counts(g, keys, B)
    <2>1. \A d, e \in keys : d # e => At(d) \cap At(e) = {}  OBVIOUS
    <2> HIDE DEF At, keys
    <2> QED  BY <1>1, <1>5, <2>1 DEF Counts
  <1>8. Union(B, keys) = DOMAIN rows
    <2>1. \A i \in DOMAIN rows : Key(i) \in keys /\ i \in At(Key(i))  OBVIOUS
    <2>2. \A key \in keys : B[key] = At(key) /\ At(key) \subseteq DOMAIN rows
      OBVIOUS
    <2> HIDE DEF B, keys, At, Key
    <2>3. \A i \in DOMAIN rows : i \in B[Key(i)]  BY <2>1, <2>2
    <2> QED  BY <2>1, <2>2, <2>3 DEF Union
  <1> HIDE DEF B, g, keys
  <1>9. SumFunction(g) = Cardinality(Union(B, keys))
    BY <1>2, <1>3, <1>6, <1>7, SumCounts
  <1> QED  BY <1>8, <1>9, PlacesFinite DEF g

\* Something is above everything else in a finite set with a strict order.
LEMMA Topmost ==
    ASSUME NEW S, IsFiniteSet(S), S # {}, NEW R,
           \A x \in S : <<x, x>> \notin R,
           \A x, y, z \in S : <<x, y>> \in R /\ <<y, z>> \in R => <<x, z>> \in R
    PROVE  \E x \in S : \A y \in S : <<x, y>> \notin R
  <1> DEFINE Above(x) == {y \in S : <<x, y>> \in R}
             Sets == {Above(x) : x \in S}
  <1>1. PICK T \in Sets : \A U \in SUBSET T : U # T => U \notin Sets
    <2>1. \A x \in S : Above(x) \in SUBSET S  OBVIOUS
    <2> HIDE DEF Above
    <2>2. Sets \in SUBSET (SUBSET S)  BY <2>1
    <2>3. \A x \in S : Above(x) \in Sets  OBVIOUS
    <2> HIDE DEF Sets
    <2>4. Sets # {}  BY <2>3
    <2> QED  BY <2>2, <2>4, Smallest
  <1>2. PICK x \in S : T = Above(x)  BY <1>1
  <1>3. \A y \in Above(x) : Above(y) \in SUBSET T /\ y \notin Above(y) /\ y \in T
    BY <1>2
  <1>4. \A y \in S : Above(y) \in Sets  OBVIOUS
  <1>5. Above(x) = {}
    <2> SUFFICES ASSUME NEW y \in Above(x)  PROVE FALSE
      OBVIOUS
    <2>1. Above(y) \in SUBSET T /\ Above(y) # T  BY <1>3
    <2>2. Above(y) \in Sets  BY <1>4
    <2> HIDE DEF Above, Sets
    <2> QED  BY <1>1, <2>1, <2>2
  <1> QED  BY <1>5

LEMMA LeastNumber ==
    ASSUME NEW S \in SUBSET Nat, IsFiniteSet(S), S # {}
    PROVE  Min(S) \in S /\ \A x \in S : Min(S) <= x
  <1> DEFINE R == {r \in S \X S : r[2] < r[1]}
  <1>1. \A x, y \in S : <<x, y>> \in R <=> y < x  OBVIOUS
  <1> HIDE DEF R
  <1>2. \E x \in S : \A y \in S : <<x, y>> \notin R
    <2>1. \A x \in S : <<x, x>> \notin R  BY <1>1
    <2>2. \A x, y, z \in S : <<x, y>> \in R /\ <<y, z>> \in R => <<x, z>> \in R
      BY <1>1
    <2> QED  BY <2>1, <2>2, Topmost
  <1>3. \E x \in S : \A y \in S : x =< y
    <2>1. \A x, y \in S : <<x, y>> \notin R => x =< y
      <3> SUFFICES ASSUME NEW x \in S, NEW y \in S, ~(y < x)  PROVE x =< y
        BY <1>1
      <3>1. x \in Nat /\ y \in Nat  OBVIOUS
      <3> QED  BY <3>1
    <2> QED  BY <1>2, <2>1
  <1> QED  BY <1>3 DEF Min

LEMMA GreatestNumber ==
    ASSUME NEW S \in SUBSET Nat, IsFiniteSet(S), S # {}
    PROVE  Max(S) \in S /\ \A x \in S : x <= Max(S)
  <1> DEFINE R == {r \in S \X S : r[1] < r[2]}
  <1>1. \A x, y \in S : <<x, y>> \in R <=> x < y  OBVIOUS
  <1> HIDE DEF R
  <1>2. \E x \in S : \A y \in S : <<x, y>> \notin R
    <2>1. \A x \in S : <<x, x>> \notin R  BY <1>1
    <2>2. \A x, y, z \in S : <<x, y>> \in R /\ <<y, z>> \in R => <<x, z>> \in R
      BY <1>1
    <2> QED  BY <2>1, <2>2, Topmost
  <1>3. \E x \in S : \A y \in S : x >= y
    <2>1. \A x, y \in S : <<x, y>> \notin R => x >= y
      <3> SUFFICES ASSUME NEW x \in S, NEW y \in S, ~(x < y)  PROVE x >= y
        BY <1>1
      <3>1. x \in Nat /\ y \in Nat  OBVIOUS
      <3> QED  BY <3>1
    <2> QED  BY <1>2, <2>1
  <1> QED  BY <1>3 DEF Max

\* The newest windows: some, and all if they are few.
LEMMA NewestWindows ==
    ASSUME NEW S \in SUBSET Nat, IsFiniteSet(S), S # {}
    PROVE  /\ Newest(S, MaxBuckets) \cap S # {}
           /\ Newest(S, MaxBuckets) \subseteq S
           /\ Cardinality(S) <= MaxBuckets => Newest(S, MaxBuckets) = S
  <1> DEFINE Later(b) == {c \in S : c > b}
  <1>0. MaxBuckets \in Nat \ {0}  BY LimitsPositive
  <1>1. Newest(S, MaxBuckets) = {b \in S : Cardinality(Later(b)) < MaxBuckets}
    BY DEF Newest
  <1>2. Newest(S, MaxBuckets) \cap S # {}
    <2>1. Max(S) \in S /\ \A x \in S : x <= Max(S)  BY GreatestNumber
    <2>2. Later(Max(S)) = {}
      <3> SUFFICES ASSUME NEW c \in S, c > Max(S)  PROVE FALSE
        OBVIOUS
      <3>1. c \in Nat /\ Max(S) \in Nat /\ c <= Max(S)  BY <2>1
      <3> QED  BY <3>1
    <2> HIDE DEF Later
    <2> QED  BY <1>0, <1>1, <2>1, <2>2, FS_EmptySet
  <1>3. Cardinality(S) <= MaxBuckets =>
            \A b \in S : Cardinality(Later(b)) < MaxBuckets
    <2> SUFFICES ASSUME Cardinality(S) <= MaxBuckets, NEW b \in S
                 PROVE  Cardinality(Later(b)) < MaxBuckets
      OBVIOUS
    <2>1. Later(b) \in SUBSET S /\ b \notin Later(b)  OBVIOUS
    <2> HIDE DEF Later
    <2>2. /\ IsFiniteSet(Later(b)) /\ Cardinality(Later(b)) <= Cardinality(S)
          /\ Cardinality(S) # Cardinality(Later(b))
      BY <2>1, FS_Subset
    <2>3. Cardinality(S) \in Nat /\ Cardinality(Later(b)) \in Nat
      BY <2>2, FS_CardinalityType
    <2> QED  BY <1>0, <2>2, <2>3
  <1> QED  BY <1>1, <1>2, <1>3

\* A timeline shows the emotions of the newest windows.
LEMMA TimelineShows ==
    ASSUME NEW rows \in Seq(Rows), NEW p \in People, Emotional(rows, p) # {}
    PROVE  LET line  == timeline(rows, p)
               shown == SumFunction([b \in DOMAIN line |-> SumFunction(line[b])])
               all   == Cardinality(Emotional(rows, p))
           IN  /\ shown > 0 /\ shown <= all
               /\ Cardinality({rows[i].bucket : i \in Emotional(rows, p)})
                    <= MaxBuckets => shown = all
  <1> DEFINE mine == Emotional(rows, p)
             seen == {rows[i].bucket : i \in mine}
             last == Newest(seen, MaxBuckets)
             line == timeline(rows, p)
             In(b) == {i \in mine : rows[i].bucket = b}
             f == [b \in DOMAIN line |-> SumFunction(line[b])]
  <1>1. /\ DOMAIN line = last
        /\ \A b \in last : line[b] = [e \in Emotions |->
              Cardinality({i \in In(b) : rows[i].value = e})]
    <2>1. \A b, e : {i \in mine : rows[i].bucket = b /\ rows[i].value = e}
                     = {i \in In(b) : rows[i].value = e}
      OBVIOUS
    <2> HIDE DEF mine
    <2> QED  BY <2>1 DEF timeline, mine
  <1>2. mine \in SUBSET DOMAIN rows /\ \A i \in mine : rows[i].value \in Emotions
    BY DEF Emotional, Of
  <1>3. IsFiniteSet(DOMAIN rows) /\ IsFiniteSet(Emotions)
    BY PlacesFinite, FiniteLabels
  <1>4. seen \in SUBSET Nat /\ IsFiniteSet(seen) /\ seen # {}
    <2>1. seen \in SUBSET (0 .. MaxBucket)
      <3>1. \A i \in mine : rows[i] \in Rows  BY <1>2, RowOfRows
      <3> HIDE DEF mine
      <3> QED  BY <3>1 DEF Rows
    <2>2. IsFiniteSet(0 .. MaxBucket) /\ 0 .. MaxBucket \subseteq Nat
      BY BoundsNatural, FS_Interval
    <2>3. seen # {}  OBVIOUS
    <2> HIDE DEF seen
    <2> QED  BY <2>1, <2>2, <2>3, FS_Subset
  <1>5. /\ last \cap seen # {} /\ last \subseteq seen
        /\ Cardinality(seen) <= MaxBuckets => last = seen
    <2> HIDE DEF seen
    <2> QED  BY <1>4, NewestWindows
  <1>6. ASSUME NEW b \in last  PROVE f[b] = Cardinality(In(b))
    <2> DEFINE A == [e \in Emotions |-> {i \in In(b) : rows[i].value = e}]
               g == [e \in Emotions |->
                       Cardinality({i \in In(b) : rows[i].value = e})]
    <2>1. A \in [Emotions -> SUBSET DOMAIN rows]  BY <1>2
    <2>2. Counts(g, Emotions, A)  BY DEF Counts
    <2>3. Union(A, Emotions) = In(b)  BY <1>2 DEF Union
    <2>4. f[b] = SumFunction(g)  BY <1>1
    <2> HIDE DEF A, g, f, In, last
    <2>5. SumFunction(g) = Cardinality(Union(A, Emotions))
      BY <1>3, <2>1, <2>2, SumCounts
    <2> QED  BY <2>3, <2>4, <2>5
  <1> DEFINE B == [b \in last |-> In(b)]
             there == Union(B, last)
  <1>7. B \in [last -> SUBSET DOMAIN rows]  BY <1>2
  <1>8. Counts(f, last, B)
    <2>1. \A d, e \in last : d # e => In(d) \cap In(e) = {}  OBVIOUS
    <2>2. DOMAIN f = last  BY <1>1
    <2> HIDE DEF f, In, last
    <2> QED  BY <1>6, <2>1, <2>2 DEF Counts
  <1>9. SumFunction(f) = Cardinality(there)
    <2>1. IsFiniteSet(last)
      <3> HIDE DEF last, seen
      <3> QED  BY <1>4, <1>5, FS_Subset
    <2> HIDE DEF f, B, last
    <2> QED  BY <1>3, <1>7, <1>8, <2>1, SumCounts
  <1>10. there = {i \in mine : rows[i].bucket \in last}
    <2> HIDE DEF mine, last
    <2> QED  BY DEF Union
  <1>11. there # {} /\ there \in SUBSET mine /\ (last = seen => there = mine)
    <2>1. PICK b \in last : b \in seen  BY <1>5
    <2>2. PICK i \in mine : rows[i].bucket = b  BY <2>1
    <2> HIDE DEF there, mine, last
    <2> QED  BY <1>10, <2>1, <2>2
  <1>12. /\ IsFiniteSet(mine) /\ IsFiniteSet(there)
         /\ Cardinality(there) <= Cardinality(mine)
         /\ Cardinality(there) \in Nat /\ Cardinality(there) # 0
    <2> HIDE DEF there, mine
    <2>1. IsFiniteSet(mine)  BY <1>2, PlacesFinite
    <2>2. IsFiniteSet(there) /\ Cardinality(there) <= Cardinality(mine)
      BY <1>11, <2>1, FS_Subset
    <2> QED  BY <1>11, <2>1, <2>2, FS_CardinalityType, FS_EmptySet
  <1> HIDE DEF f, there, mine, last, seen
  <1> QED  BY <1>5, <1>9, <1>11, <1>12 DEF f, line, mine, seen

\* Who is ranked: two people, if there are two, because ties are broken the one
\* way for the most and the other way for the least verbal.
LEMMA TilesTyped ==
    ASSUME NEW rows \in Seq(Rows), NEW p \in DOMAIN tiles(rows)
    PROVE  tiles(rows)[p].transcripts \in Nat /\ tiles(rows)[p].chunks \in Nat
  <1> DEFINE texts  == Of(rows, "text", p)
             S == {MaxTextEvents, Cardinality(texts)}
  <1>1. Cardinality(texts) \in Nat /\ Cardinality(Of(rows, "audio", p)) \in Nat
    BY PlacesFinite DEF Of
  <1>2. Min(S) \in S
    <2>1. S \in SUBSET Nat /\ S # {}  BY <1>1, LimitsPositive
    <2>2. IsFiniteSet(S)
      <3>1. S = {MaxTextEvents} \cup {Cardinality(texts)}  OBVIOUS
      <3> HIDE DEF S
      <3> QED  BY <3>1, FS_Singleton, FS_Union
    <2> HIDE DEF S
    <2> QED  BY <2>1, <2>2, LeastNumber
  <1>3. Min(S) \in Nat
    <2>1. S \subseteq Nat  BY <1>1, LimitsPositive
    <2> HIDE DEF S
    <2> QED  BY <1>2, <2>1
  <1>4. /\ tiles(rows)[p].transcripts = Min(S)
        /\ tiles(rows)[p].chunks = Cardinality(Of(rows, "audio", p))
    BY DEF tiles, tile, transcript_events
  <1> HIDE DEF S, texts
  <1> QED  BY <1>1, <1>3, <1>4

LEMMA TwoAreRanked ==
    ASSUME NEW rows \in Seq(Rows)
    PROVE  LET r == build_stub_report(rows) IN
           Cardinality(r.verbal) = Least(2, Cardinality(DOMAIN r.tiles))
  <1> DEFINE t == tiles(rows)
             D == DOMAIN t
             verbal == build_stub_report(rows).verbal
             Best  == {p \in D : \A q \in D : ~MoreVerbal(t[q], t[p])}
             Worst == {p \in D : \A q \in D : ~MoreVerbal(t[p], t[q])}
  <1>1. D \in SUBSET Nat /\ IsFiniteSet(D)
    BY PeopleFinite, PeopleNumbered DEF tiles, participants
  <1>2. build_stub_report(rows).tiles = t
        /\ verbal = IF D = {} THEN {}
                    ELSE {Min(Best)} \cup
                         (IF Cardinality(D) > 1 THEN {Max(Worst)} ELSE {})
    BY DEF build_stub_report, most_verbal, least_verbal
  <1>3. \A p, q \in D : MoreVerbal(t[p], t[q]) <=>
            \/ t[p].transcripts > t[q].transcripts
            \/ t[p].transcripts = t[q].transcripts /\ t[p].chunks > t[q].chunks
    BY DEF MoreVerbal
  <1>4. \A p \in D : t[p].transcripts \in Nat /\ t[p].chunks \in Nat
    BY TilesTyped
  <1> HIDE DEF t, D, verbal
  <1>5. ASSUME D # {}
        PROVE  /\ Min(Best) \in Best /\ \A p \in Best : Min(Best) <= p
               /\ Max(Worst) \in Worst /\ \A p \in Worst : p <= Max(Worst)
    <2> DEFINE R == {r \in D \X D : MoreVerbal(t[r[2]], t[r[1]])}
               Q == {r \in D \X D : MoreVerbal(t[r[1]], t[r[2]])}
    <2>1. \A p, q \in D : /\ <<p, q>> \in R <=> MoreVerbal(t[q], t[p])
                          /\ <<p, q>> \in Q <=> MoreVerbal(t[p], t[q])
      OBVIOUS
    <2> HIDE DEF R, Q
    <2>2. \A p \in D : ~MoreVerbal(t[p], t[p])  BY <1>3, <1>4
    <2>3. \A p, q, u \in D : MoreVerbal(t[p], t[q]) /\ MoreVerbal(t[q], t[u]) =>
                                 MoreVerbal(t[p], t[u])
      BY <1>3, <1>4
    <2>4. \E p \in D : \A q \in D : <<p, q>> \notin R
      <3>1. \A p \in D : <<p, p>> \notin R  BY <2>1, <2>2
      <3>2. \A p, q, u \in D : <<p, q>> \in R /\ <<q, u>> \in R => <<p, u>> \in R
        BY <2>1, <2>3
      <3> QED  BY <1>1, <1>5, <3>1, <3>2, Topmost
    <2>5. \E p \in D : \A q \in D : <<p, q>> \notin Q
      <3>1. \A p \in D : <<p, p>> \notin Q  BY <2>1, <2>2
      <3>2. \A p, q, u \in D : <<p, q>> \in Q /\ <<q, u>> \in Q => <<p, u>> \in Q
        BY <2>1, <2>3
      <3> QED  BY <1>1, <1>5, <3>1, <3>2, Topmost
    <2>6. Best # {} /\ Worst # {}  BY <2>1, <2>4, <2>5
    <2>7. Best \in SUBSET D /\ Worst \in SUBSET D  OBVIOUS
    <2> HIDE DEF Best, Worst
    <2>8. /\ Best \in SUBSET Nat /\ IsFiniteSet(Best)
          /\ Worst \in SUBSET Nat /\ IsFiniteSet(Worst)
      BY <1>1, <2>7, FS_Subset
    <2> QED  BY <2>6, <2>8, LeastNumber, GreatestNumber
  <1>6. ASSUME D # {}, Min(Best) = Max(Worst)
        PROVE  Cardinality(D) = 1
    <2> DEFINE m == Min(Best)
    <2>1. m \in Best /\ m \in Worst /\ m \in D  BY <1>5, <1>6
    <2>2. \A q \in D : t[q].transcripts = t[m].transcripts
                       /\ t[q].chunks = t[m].chunks
      <3> SUFFICES ASSUME NEW q \in D
                   PROVE  t[q].transcripts = t[m].transcripts
                          /\ t[q].chunks = t[m].chunks
        OBVIOUS
      <3>1. ~MoreVerbal(t[q], t[m]) /\ ~MoreVerbal(t[m], t[q])  BY <2>1
      <3> HIDE DEF m, Best, Worst
      <3> QED  BY <1>3, <1>4, <2>1, <3>1
    <2>3. \A p, q \in D : ~MoreVerbal(t[p], t[q])
      <3> HIDE DEF m
      <3> QED  BY <1>3, <1>4, <2>1, <2>2
    <2>4. \A q \in D : q \in Best /\ q \in Worst  BY <2>3
    <2>5. \A q \in D : m <= q /\ q <= m  BY <1>5, <1>6, <2>4
    <2> HIDE DEF m, Best, Worst
    <2>6. D = {m}
      <3>1. \A q \in D : q \in Nat /\ m \in Nat  BY <1>1, <2>1
      <3>2. \A q \in D : q = m  BY <2>5, <3>1
      <3> QED  BY <2>1, <3>2
    <2> QED  BY <2>6, FS_Singleton
  <1>7. Cardinality(D) \in Nat /\ (Cardinality(D) = 0 <=> D = {})
    BY <1>1, FS_CardinalityType, FS_EmptySet
  <1>8. CASE D = {}
    <2>1. verbal = {}  BY <1>2, <1>8
    <2> QED  BY <1>2, <1>7, <1>8, <2>1, FS_EmptySet DEF Least, verbal, D
  <1> HIDE DEF Best, Worst
  <1>9. CASE Cardinality(D) = 1
    <2>1. verbal = {Min(Best)}  BY <1>2, <1>7, <1>9
    <2>2. Cardinality(verbal) = 1  BY <2>1, FS_Singleton
    <2> QED  BY <1>2, <1>9, <2>2 DEF Least, verbal, D
  <1>10. CASE Cardinality(D) > 1
    <2>1. verbal = {Min(Best)} \cup {Max(Worst)} /\ D # {}  BY <1>2, <1>7, <1>10
    <2>2. Min(Best) # Max(Worst)  BY <1>6, <1>7, <1>10, <2>1
    <2>3. Cardinality(verbal) = 2
      <3>1. IsFiniteSet({Min(Best)}) /\ Cardinality({Min(Best)}) = 1
        BY FS_Singleton
      <3>2. Cardinality({Min(Best)} \cup {Max(Worst)}) = 1 + 1
        BY <2>2, <3>1, FS_AddElement
      <3> QED  BY <2>1, <3>2
    <2> QED  BY <1>2, <1>7, <1>10, <2>3 DEF Least, verbal, D
  <1> QED  BY <1>7, <1>8, <1>9, <1>10

\* Nothing was counted exactly if nobody has a tile and there is no guard row.
LEMMA IdleIfNothing ==
    ASSUME NEW rows \in Seq(Rows)
    PROVE  LET r == build_stub_report(rows) IN
           (r.pipeline_stage = "idle")
               <=> (r.tiles = <<>> /\ r.feature_counts["face"] = 0)
  <1> DEFINE k == kinds(rows)
             P == participants(rows)
  <1>1. \A c \in Sections : /\ k[c] \in Nat
                            /\ k[c] = 0 <=> \A i \in DOMAIN rows : rows[i].kind # c
    <2> SUFFICES ASSUME NEW c \in Sections
                 PROVE  /\ k[c] \in Nat
                        /\ k[c] = 0 <=> \A i \in DOMAIN rows : rows[i].kind # c
      OBVIOUS
    <2> DEFINE S == {i \in DOMAIN rows : rows[i].kind = c}
    <2>1. k[c] = Cardinality(S)  BY DEF kinds
    <2>2. S \in SUBSET DOMAIN rows
          /\ (S = {} <=> \A i \in DOMAIN rows : rows[i].kind # c)
      OBVIOUS
    <2> HIDE DEF S, k
    <2> QED  BY <2>1, <2>2, PlacesFinite, FS_EmptySet
  <1>2. "text" \in Sections /\ "audio" \in Sections /\ "face" \in Sections
    BY DEF Sections
  <1>3. pipeline_stage(rows) = "idle" <=> k["text"] = 0 /\ k["audio"] = 0 /\ k["face"] = 0
    BY <1>1, <1>2 DEF pipeline_stage
  <1>4. tiles(rows) = <<>> <=> P = {}
    <2>1. DOMAIN tiles(rows) = P  BY DEF tiles
    <2>2. P = {} => tiles(rows) = <<>>  BY DEF tiles
    <2>3. tiles(rows) = <<>> => P = {}  BY <2>1
    <2> QED  BY <2>2, <2>3
  <1>5. k["face"] = 0 =>
          (P = {} <=> k["text"] = 0 /\ k["audio"] = 0)
    <2> SUFFICES ASSUME k["face"] = 0
                 PROVE  P = {} <=> k["text"] = 0 /\ k["audio"] = 0
      OBVIOUS
    <2> HIDE DEF k
    <2>1. \A i \in DOMAIN rows : rows[i].kind # "face"  BY <1>1, <1>2
    <2>2. P = {p \in People : \E i \in DOMAIN rows :
                  rows[i].kind \in {"audio", "text"} /\ rows[i].pid = p}
      BY <2>1 DEF participants, Emotional, Of
    <2>3. \A i \in DOMAIN rows : rows[i].pid \in People  BY RowOfRows DEF Rows
    <2>4. P = {} <=> \A i \in DOMAIN rows : rows[i].kind \notin {"audio", "text"}
      BY <2>2, <2>3
    <2> QED  BY <1>1, <1>2, <2>4
  <1> HIDE DEF k, P
  <1>6. build_stub_report(rows).pipeline_stage = pipeline_stage(rows)
        /\ build_stub_report(rows).tiles = tiles(rows)
        /\ build_stub_report(rows).feature_counts = k
    BY DEF build_stub_report, k
  <1> QED  BY <1>3, <1>4, <1>5, <1>6

LEMMA SectionsOfRows ==
    ASSUME store \in Seq(Rows), AllWellValued(store)
    PROVE  SectionsAgree
  <1> DEFINE r == build_stub_report(store)
  <1>1. /\ r.feature_counts = kinds(store) /\ r.tiles = tiles(store)
        /\ r.distribution = emotion_distribution(store)
        /\ r.fusion = fusion(store)
        /\ r.tracking = [p \in tracked(store) |-> tracking(store, p)]
        /\ r.timelines = [p \in {q \in People : Emotional(store, q) # {}} |->
                            timeline(store, p)]
    BY DEF build_stub_report
  <1> DEFINE faces == r.feature_counts["face"]
                 - Cardinality({i \in DOMAIN store : store[i].value = "guard"})
  <1> HIDE DEF r
  <1>2. SumFunction(r.distribution) = faces
    BY <1>1, FacesCounted, EmotionsOfAll
  <1>3. SumFunction([p \in DOMAIN r.tiles |-> r.tiles[p].emotions]) = faces
    BY <1>1, FacesCounted, EmotionsOfTiles
  <1>4. SumFunction([key \in DOMAIN r.fusion |-> SumFunction(r.fusion[key])])
          = Len(store)
    BY <1>1, FusionComplete
  <1>5. ASSUME NEW p \in DOMAIN r.timelines
        PROVE  /\ p \in DOMAIN r.tiles
               /\ LET shown == SumFunction([b \in DOMAIN r.timelines[p] |->
                                  SumFunction(r.timelines[p][b])])
                  IN  /\ shown > 0 /\ shown <= r.tiles[p].emotions
                      /\ Cardinality({store[i].bucket : i \in Emotional(store, p)})
                           <= MaxBuckets => shown = r.tiles[p].emotions
    <2>1. p \in People /\ Emotional(store, p) # {}
      BY <1>1
    <2>2. r.timelines[p] = timeline(store, p)
      BY <1>1, <2>1
    <2>3. p \in participants(store) /\ p \in DOMAIN r.tiles
      BY <1>1, <2>1 DEF participants, tiles
    <2>4. r.tiles[p].emotions = Cardinality(Emotional(store, p))
      BY <1>1, <2>3, EmotionsOfOne DEF tiles, tile
    <2> QED  BY <2>1, <2>2, <2>3, <2>4, TimelineShows
  <1>6. ASSUME NEW p \in DOMAIN r.tracking
        PROVE  r.tracking[p].passed + SumFunction(r.tracking[p].reasons)
                 = r.tracking[p].events
    <2>1. r.tracking[p] = tracking(store, p)  BY <1>1
    <2> QED  BY <2>1, ReasonsCounted
  <1>7. Cardinality(r.verbal) = Least(2, Cardinality(DOMAIN r.tiles))
    BY TwoAreRanked DEF r
  <1>8. (r.pipeline_stage = "idle")
            <=> (r.tiles = <<>> /\ r.feature_counts["face"] = 0)
    BY IdleIfNothing DEF r
  <1> QED  BY <1>2, <1>3, <1>4, <1>5, <1>6, <1>7, <1>8 DEF SectionsAgree, r

\* Handlers send nothing but rows with a value of their kind.
WellInv == AllWellValued(store) /\ AllWellValued(todo)

LEMMA PushedRow ==
    ASSUME AnalysisTypeOK, Emit
    PROVE  LET row == [Head(todo) EXCEPT !.bucket = bucket] IN
           /\ row \in Rows
           /\ row.kind = todo[1].kind /\ row.pid = todo[1].pid
           /\ row.value = todo[1].value
           /\ todo \in Seq(Rows) /\ todo # <<>>
           /\ store' = IF Len(store) < Cap THEN Append(store, row)
                                           ELSE Append(Tail(store), row)
           /\ todo' = Tail(todo)
  <1>1. todo \in Seq(Rows) /\ todo # <<>> /\ bucket \in 0 .. MaxBucket
    BY DEF AnalysisTypeOK, Emit
  <1>2. Head(todo) \in Rows /\ Head(todo) = todo[1]  BY <1>1
  <1> QED  BY <1>1, <1>2 DEF Emit, Push, Rows

LEMMA WellStep == AnalysisTypeOK /\ WellInv /\ [Next]_vars => WellInv'
  <1> SUFFICES ASSUME AnalysisTypeOK, WellInv, [Next]_vars  PROVE WellInv'
    OBVIOUS
  <1> USE DEF WellInv, AllWellValued
  <1>1. ASSUME NEW p \in People, NoFace(p)  PROVE WellInv'
    <2>1. WellValued(Row("face", p, "guard", "none"))  BY DEF WellValued, Row
    <2> QED  BY <1>1, <2>1 DEF NoFace
  <1>2. ASSUME NEW p \in People, Face(p)  PROVE WellInv'
    <2>1. PICK emotion \in Emotions, confident \in BOOLEAN :
            \E region : todo' = Outputs(p, emotion,
                                       skip_reason(confident, region))
      BY <1>2 DEF Face, Normalized
    <2>2. PICK region : todo' = Outputs(p, emotion,
                                       skip_reason(confident, region))
      BY <2>1
    <2> DEFINE skip == skip_reason(confident, region)
               face == Row("face", p, emotion, Behavior(skip))
               dbg  == face_debug(p, skip)
               first  == IF fp.debug THEN <<dbg>> ELSE <<>>
               second == IF skip = "none" /\ ContractHolds(face)
                         THEN <<face>> ELSE <<>>
    <2>3. WellValued(face)  BY FiniteLabels DEF WellValued, Row
    <2>4. WellValued(dbg)
      <3>1. skip \in Reasons \cup {"none"}  BY DEF skip_reason, Reasons
      <3> HIDE DEF skip
      <3> QED  BY <3>1 DEF WellValued, Row, face_debug, Reasons
    <2>5. todo' = first \o second  BY <2>2 DEF Outputs
    <2> HIDE DEF face, dbg
    <2>6. \A i \in DOMAIN (first \o second) : WellValued((first \o second)[i])
      BY <2>3, <2>4
    <2> QED  BY <1>2, <2>5, <2>6 DEF Face
  <1>3. ASSUME NEW p \in People, Chunk(p)  PROVE WellInv'
    <2>1. PICK activity \in Activity, heard \in HasText :
            todo' = <<Row("audio", p, activity, "none")>>
                    \o (IF heard THEN <<Row("text", p, "text", "none")>>
                                 ELSE <<>>)
      BY <1>3 DEF Chunk
    <2> DEFINE audio == Row("audio", p, activity, "none")
               text  == Row("text", p, "text", "none")
    <2>2. WellValued(audio) /\ WellValued(text)
      BY DEF WellValued, Row, Activity
    <2> HIDE DEF audio, text
    <2>3. todo' = IF heard THEN <<audio>> \o <<text>> ELSE <<audio>> \o <<>>
      BY <2>1 DEF audio, text
    <2>4. \A i \in DOMAIN todo' : WellValued(todo'[i])  BY <2>2, <2>3
    <2> QED  BY <1>3, <2>4 DEF Chunk
  <1>4. CASE Emit
    <2> DEFINE row == [Head(todo) EXCEPT !.bucket = bucket]
    <2>1. /\ row \in Rows /\ row.kind = todo[1].kind /\ row.value = todo[1].value
          /\ todo \in Seq(Rows) /\ todo # <<>> /\ todo' = Tail(todo)
          /\ store' = IF Len(store) < Cap THEN Append(store, row)
                                          ELSE Append(Tail(store), row)
      BY <1>4, PushedRow
    <2> HIDE DEF row
    <2>2. WellValued(row)  BY <2>1 DEF WellValued
    <2>3. store \in Seq(Rows) /\ Cap \in Nat \ {0}
      BY CapPositive DEF AnalysisTypeOK
    <2>4. \A i \in DOMAIN store' : WellValued(store'[i])
      <3>1. CASE Len(store) < Cap  BY <2>1, <2>2, <2>3, <3>1
      <3>2. CASE ~(Len(store) < Cap)
        <4>1. store # <<>>  BY <2>3, <3>2
        <4>2. \A i \in DOMAIN Tail(store) : WellValued(Tail(store)[i])
          BY <2>3, <4>1, HeadTailProperties
        <4>3. Tail(store) \in Seq(Rows)  BY <2>3, <4>1
        <4> HIDE DEF AllWellValued, WellInv
        <4> QED  BY <2>1, <2>2, <3>2, <4>2, <4>3
      <3> QED  BY <3>1, <3>2
    <2>5. \A i \in DOMAIN todo' : WellValued(todo'[i])
      BY <2>1, HeadTailProperties
    <2> QED  BY <2>4, <2>5
  <1>5. CASE SendFails  BY <1>5 DEF SendFails
  <1>6. CASE NextWindow  BY <1>6 DEF NextWindow
  <1>7. CASE UNCHANGED vars  BY <1>7 DEF vars
  <1> QED  BY <1>1, <1>2, <1>3, <1>4, <1>5, <1>6, <1>7 DEF Next

\* The sections of every report that could be built tell one story, for any
\* rows, ring and limits: stub_builder counts each section by itself.
THEOREM SectionsAlwaysAgree == Spec => []SectionsAgree
  <1>1. Init => WellInv  BY DEF Init, WellInv, AllWellValued
  <1>2. AnalysisTypeOK /\ WellInv => SectionsAgree
    BY SectionsOfRows DEF AnalysisTypeOK, WellInv
  <1> QED  BY <1>1, <1>2, WellStep, TypeCorrect, PTL DEF Spec
-----------------------------------------------------------------------------
(* Tracking and emotions.  With the debug frames on, a stored face comes   *)
(* right after the debug row that let it pass, unless the ring has dropped *)
(* that one; and a debug row that passed is followed by its face, which is *)
(* being sent or was torn off otherwise.                                   *)

Tracks == fp.debug /\ (fp.behavior => fp.version # "blank")

FaceOf(row, p)   == row.kind = "face" /\ row.pid = p /\ row.value \in Emotions
PassedOf(row, p) ==
    row.kind = "face_debug" /\ row.pid = p /\ row.value = "passed"

StorePaired(p) ==
    \A i \in 2 .. Len(store) : FaceOf(store[i], p) => PassedOf(store[i - 1], p)

TodoPaired(p) ==
    \A i \in 1 .. Len(todo) :
        /\ PassedOf(todo[i], p) => i = 1 /\ Len(todo) = 2 /\ FaceOf(todo[2], p)
        /\ FaceOf(todo[i], p) =>
             /\ i = Len(todo)
             /\ IF i = 1 THEN store # <<>> /\ PassedOf(store[Len(store)], p)
                         ELSE PassedOf(todo[1], p)

\* Rows that passed and are not followed by their face.
Lone(rows, p) ==
    {i \in DOMAIN rows : /\ PassedOf(rows[i], p)
                         /\ i = Len(rows) \/ ~FaceOf(rows[i + 1], p)}

NextIs(p)  == IF todo # <<>> /\ FaceOf(todo[1], p) THEN 1 ELSE 0
FewLone(p) == Cardinality(Lone(store, p)) <= NextIs(p) + torn[p]

PairInv ==
    Tracks => \A p \in People : StorePaired(p) /\ TodoPaired(p) /\ FewLone(p)

LEMMA LoneFinite ==
    ASSUME NEW rows \in Seq(Rows), NEW p
    PROVE  IsFiniteSet(Lone(rows, p)) /\ Cardinality(Lone(rows, p)) \in Nat
  BY PlacesFinite DEF Lone

\* The ring drops its oldest row.
LEMMA LoneTail ==
    ASSUME NEW rows \in Seq(Rows), rows # <<>>, NEW p
    PROVE  Cardinality(Lone(Tail(rows), p)) <= Cardinality(Lone(rows, p))
  <1> DEFINE S == Lone(Tail(rows), p)
             T == Lone(rows, p)
             g == [i \in S |-> i + 1]
  <1>1. /\ Len(rows) \in Nat \ {0} /\ DOMAIN rows = 1 .. Len(rows)
        /\ Len(Tail(rows)) = Len(rows) - 1
        /\ DOMAIN Tail(rows) = 1 .. Len(rows) - 1
        /\ \A i \in 1 .. Len(rows) - 1 : Tail(rows)[i] = rows[i + 1]
    BY HeadTailProperties, LenProperties, EmptySeq
  <1>2. ASSUME NEW i \in S  PROVE i \in Nat /\ i + 1 \in T
    <2> DEFINE n    == Len(rows)
               rest == Tail(rows)
    <2>1. /\ n \in Nat \ {0} /\ DOMAIN rows = 1 .. n
          /\ Len(rest) = n - 1 /\ DOMAIN rest = 1 .. n - 1
          /\ \A j \in 1 .. n - 1 : rest[j] = rows[j + 1]
      BY <1>1
    <2>2. i \in Lone(rest, p)  BY <1>2
    <2>3. /\ i \in DOMAIN rest /\ PassedOf(rest[i], p)
          /\ i = Len(rest) \/ ~FaceOf(rest[i + 1], p)
      BY <2>2 DEF Lone
    <2> HIDE DEF n, rest
    <2>4. i \in Nat /\ i + 1 \in 1 .. n /\ i \in 1 .. n - 1  BY <2>1, <2>3
    <2>5. PassedOf(rows[i + 1], p)  BY <2>1, <2>3, <2>4
    <2>6. i + 1 # n => ~FaceOf(rows[(i + 1) + 1], p)
      <3>1. SUFFICES ASSUME i + 1 # n  PROVE ~FaceOf(rows[(i + 1) + 1], p)
        OBVIOUS
      <3>2. i + 1 \in 1 .. n - 1  BY <2>1, <2>4, <3>1
      <3>3. rest[i + 1] = rows[(i + 1) + 1]  BY <2>1, <3>2
      <3>4. i # Len(rest)  BY <2>1, <2>4, <3>1
      <3> QED  BY <2>3, <3>3, <3>4
    <2>7. i + 1 \in DOMAIN rows  BY <2>1, <2>4
    <2> QED  BY <2>4, <2>5, <2>6, <2>7 DEF Lone, n
  <1> HIDE DEF S, T
  <1>3. g \in Injection(S, T)
    <2>1. g \in [S -> T]  BY <1>2
    <2>2. \A i, j \in S : g[i] = g[j] => i = j  BY <1>2
    <2> QED  BY <2>1, <2>2 DEF Injection, IsInjective
  <1>4. IsFiniteSet(T)  BY PlacesFinite DEF Lone, T
  <1> HIDE DEF g
  <1> QED  BY <1>3, <1>4, FS_Injection DEF S, T

\* What a new row does to the rows without a face.
LEMMA LoneAppend ==
    ASSUME NEW rows \in Seq(Rows), NEW row \in Rows, NEW p
    PROVE  LET old == Cardinality(Lone(rows, p))
               new == Cardinality(Lone(Append(rows, row), p))
           IN  /\ old \in Nat
               /\ PassedOf(row, p) => new = old + 1
               /\ FaceOf(row, p) /\ rows # <<>> /\ PassedOf(rows[Len(rows)], p)
                    => new = old - 1
               /\ ~PassedOf(row, p) /\ ~FaceOf(row, p) => new = old
  <1> DEFINE more == Append(rows, row)
             n    == Len(rows)
  <1>1. /\ n \in Nat /\ DOMAIN rows = 1 .. n /\ DOMAIN more = 1 .. n + 1
        /\ Len(more) = n + 1
        /\ \A i \in 1 .. n : more[i] = rows[i]
        /\ more[n + 1] = row
    BY AppendProperties, LenProperties
  <1>2. IsFiniteSet(Lone(rows, p)) /\ Cardinality(Lone(rows, p)) \in Nat
    BY PlacesFinite DEF Lone
  <1> HIDE DEF more
  <1>3. Lone(rows, p) = {i \in 1 .. n : PassedOf(rows[i], p)
                                        /\ (i = n \/ ~FaceOf(rows[i + 1], p))}
    BY <1>1 DEF Lone
  <1>4. Lone(more, p) = {i \in 1 .. n + 1 : PassedOf(more[i], p)
                                        /\ (i = n + 1 \/ ~FaceOf(more[i + 1], p))}
    BY <1>1 DEF Lone
  <1>5. \A i \in 1 .. n : i # n => more[i + 1] = rows[i + 1]
    <2> HIDE DEF n
    <2>1. \A i \in 1 .. n : i # n => i + 1 \in 1 .. n  BY <1>1
    <2> QED  BY <1>1, <2>1
  <1>6. CASE PassedOf(row, p)
    <2>1. ~FaceOf(row, p)  BY <1>6 DEF PassedOf, FaceOf
    <2>2. Lone(more, p) = Lone(rows, p) \cup {n + 1}
      <3> HIDE DEF n
      <3> QED  BY <1>1, <1>3, <1>4, <1>5, <1>6, <2>1
    <2>3. n + 1 \notin Lone(rows, p)
      <3> HIDE DEF n
      <3>1. n + 1 \notin 1 .. n  BY <1>1
      <3> QED  BY <1>3, <3>1
    <2>4. Cardinality(Lone(more, p)) = Cardinality(Lone(rows, p)) + 1
      BY <1>2, <2>2, <2>3, FS_AddElement
    <2> QED  BY <1>2, <1>6, <2>1, <2>4 DEF more
  <1>7. CASE FaceOf(row, p) /\ rows # <<>> /\ PassedOf(rows[n], p)
    <2>1. ~PassedOf(row, p)  BY <1>7 DEF PassedOf, FaceOf
    <2>2. n \in 1 .. n  BY <1>1, <1>7, EmptySeq
    <2>3. Lone(more, p) = Lone(rows, p) \ {n} /\ n \in Lone(rows, p)
      <3> HIDE DEF n
      <3> QED  BY <1>1, <1>3, <1>4, <1>5, <1>7, <2>1, <2>2
    <2>4. Cardinality(Lone(more, p)) = Cardinality(Lone(rows, p)) - 1
      BY <1>2, <2>3, FS_RemoveElement
    <2> QED  BY <1>2, <1>7, <2>1, <2>4 DEF more
  <1>8. CASE ~PassedOf(row, p) /\ ~FaceOf(row, p)
    <2>1. Lone(more, p) = Lone(rows, p)
      <3> HIDE DEF n
      <3> QED  BY <1>1, <1>3, <1>4, <1>5, <1>8
    <2> QED  BY <1>2, <1>8, <2>1 DEF more
  <1> QED  BY <1>2, <1>6, <1>7, <1>8 DEF more, n, PassedOf, FaceOf

\* The rows before the new one, with it, and without the oldest.
LEMMA PushIsTail ==
    ASSUME NEW rows \in Seq(Rows), NEW row \in Rows, rows # <<>>
    PROVE  /\ Append(Tail(rows), row) = Tail(Append(rows, row))
           /\ Append(rows, row) \in Seq(Rows) /\ Append(rows, row) # <<>>
  BY HeadTailAppend, AppendProperties

\* Between two messages nothing waits, so a message that is taken only has
\* to leave its rows in order.
LEMMA TakePairs ==
    ASSUME AnalysisTypeOK, PairInv, todo = <<>>, UNCHANGED <<fp, store, torn>>,
           Tracks => \A p \in People : TodoPaired(p)'
    PROVE  PairInv'
  <1> SUFFICES ASSUME Tracks, NEW p \in People
               PROVE  StorePaired(p)' /\ TodoPaired(p)' /\ FewLone(p)'
    BY DEF PairInv, Tracks
  <1>1. StorePaired(p)'  BY DEF PairInv, StorePaired
  <1>2. TodoPaired(p)'  OBVIOUS
  <1>3. Cardinality(Lone(store, p)) <= 0 + torn[p]
    BY DEF PairInv, FewLone, NextIs
  <1>4. Cardinality(Lone(store, p)) \in Nat /\ torn[p] \in Nat
    BY LoneFinite DEF AnalysisTypeOK
  <1>5. NextIs(p)' \in Nat  BY DEF NextIs
  <1> QED  BY <1>1, <1>2, <1>3, <1>4, <1>5 DEF FewLone

LEMMA FacePairs ==
    ASSUME AnalysisTypeOK, PairInv, NEW q \in People, Face(q)
    PROVE  PairInv'
  <1>1. PICK emotion \in Emotions, confident \in BOOLEAN :
          \E region : todo' = Outputs(q, emotion,
                                     skip_reason(confident, region))
    BY DEF Face, Normalized
  <1>2. PICK region : todo' = Outputs(q, emotion,
                                     skip_reason(confident, region))
    BY <1>1
  <1> DEFINE skip == skip_reason(confident, region)
             face == Row("face", q, emotion, Behavior(skip))
             dbg  == face_debug(q, skip)
  <1>3. ASSUME Tracks, NEW p \in People  PROVE TodoPaired(p)'
    <2>1. ContractHolds(face)  BY <1>3 DEF ContractHolds, Tracks, Behavior, Row
    <2>2. todo' = <<dbg>> \o (IF skip = "none" THEN <<face>> ELSE <<>>)
      BY <1>2, <1>3, <2>1 DEF Outputs, Tracks
    <2>3. ~FaceOf(dbg, p) /\ ~PassedOf(face, p)
      BY DEF FaceOf, PassedOf, Row, face_debug
    <2>4. CASE skip = "none"
      <3>1. PassedOf(dbg, p) <=> FaceOf(face, p)
        BY <2>4 DEF FaceOf, PassedOf, Row, face_debug
      <3> HIDE DEF skip, face, dbg
      <3>2. todo' = <<dbg>> \o <<face>>  BY <2>2, <2>4
      <3>3. /\ Len(<<dbg>> \o <<face>>) = 2
            /\ (<<dbg>> \o <<face>>)[1] = dbg
            /\ (<<dbg>> \o <<face>>)[2] = face
        OBVIOUS
      <3>4. Len(todo') = 2 /\ todo'[1] = dbg /\ todo'[2] = face
        BY <3>2, <3>3
      <3> QED  BY <2>3, <3>1, <3>4 DEF TodoPaired
    <2>5. CASE skip # "none"
      <3>1. skip # "passed"  BY DEF skip_reason
      <3>2. ~PassedOf(dbg, p)  BY <2>5, <3>1 DEF PassedOf, Row, face_debug
      <3> HIDE DEF skip, face, dbg
      <3>3. todo' = <<dbg>>  BY <2>2, <2>5
      <3> QED  BY <2>3, <3>2, <3>3 DEF TodoPaired
    <2> QED  BY <2>4, <2>5
  <1> QED  BY <1>3, TakePairs DEF Face, Take

LEMMA EmitPairs ==
    ASSUME AnalysisTypeOK, PairInv, Emit
    PROVE  PairInv'
  <1> DEFINE row  == [Head(todo) EXCEPT !.bucket = bucket]
             more == Append(store, row)
             n    == Len(store)
  <1>1. /\ row \in Rows /\ row.kind = todo[1].kind /\ row.value = todo[1].value
        /\ row.pid = todo[1].pid
        /\ todo \in Seq(Rows) /\ todo # <<>> /\ todo' = Tail(todo)
        /\ store' = IF Len(store) < Cap THEN Append(store, row)
                                        ELSE Append(Tail(store), row)
    BY PushedRow
  <1> HIDE DEF row
  <1>2. store \in Seq(Rows) /\ n \in Nat /\ Cap \in Nat \ {0}
    BY CapPositive DEF AnalysisTypeOK
  <1>3. store' = more \/ store' = Tail(more)
    <2>1. CASE n < Cap  BY <1>1, <2>1
    <2>2. CASE ~(n < Cap)
      <3>1. store # <<>>  BY <1>2, <2>2
      <3> QED  BY <1>1, <1>2, <2>2, <3>1, PushIsTail
    <2> QED  BY <2>1, <2>2
  <1>4. /\ more \in Seq(Rows) /\ more # <<>> /\ Len(more) = n + 1
        /\ \A i \in 1 .. n : more[i] = store[i]
        /\ more[n + 1] = row
    BY <1>1, <1>2, AppendProperties
  <1>5. /\ Len(store') \in Nat \ {0} /\ store' # <<>>
        /\ store'[Len(store')] = row
    <2>1. store' = Append(store, row) \/ store' = Append(Tail(store), row)
      BY <1>1
    <2>2. Append(store, row)[Len(Append(store, row))] = row
          /\ Len(Append(store, row)) \in Nat \ {0}
      BY <1>1, <1>2, AppendProperties
    <2>3. CASE store' = Append(store, row)  BY <2>2, <2>3, EmptySeq
    <2>4. CASE store' # Append(store, row)
      <3>1. ~(n < Cap) /\ store' = Append(Tail(store), row)  BY <1>1, <2>4
      <3>2. store # <<>>  BY <1>2, <3>1
      <3>3. Tail(store) \in Seq(Rows) /\ Len(Tail(store)) \in Nat
        BY <1>2, <3>2, HeadTailProperties, LenProperties
      <3> HIDE DEF n
      <3>4. /\ Len(store') = Len(Tail(store)) + 1
            /\ store'[Len(Tail(store)) + 1] = row
        BY <1>1, <3>1, <3>3, AppendProperties
      <3> QED  BY <3>3, <3>4, EmptySeq
    <2> QED  BY <2>3, <2>4
  <1>6. Len(todo) \in {1, 2} /\ Len(todo') = Len(todo) - 1
        /\ (Len(todo) = 2 => todo'[1] = todo[2])
    <2>1. Len(todo) \in Nat \ {0} /\ Len(todo) <= 2
      BY <1>1, LenProperties, EmptySeq DEF AnalysisTypeOK
    <2>2. /\ Len(Tail(todo)) = Len(todo) - 1
          /\ \A i \in 1 .. Len(todo) - 1 : Tail(todo)[i] = todo[i + 1]
      BY <1>1, HeadTailProperties
    <2> QED  BY <1>1, <2>1, <2>2
  <1> SUFFICES ASSUME Tracks, NEW p \in People
               PROVE  StorePaired(p)' /\ TodoPaired(p)' /\ FewLone(p)'
    BY DEF PairInv, Tracks, Emit
  <1>7. /\ PassedOf(row, p) <=> PassedOf(todo[1], p)
        /\ FaceOf(row, p) <=> FaceOf(todo[1], p)
    BY <1>1 DEF PassedOf, FaceOf
  <1>8. /\ PassedOf(row, p) => Len(todo) = 2 /\ FaceOf(todo[2], p)
        /\ FaceOf(row, p) => /\ Len(todo) = 1 /\ store # <<>>
                             /\ PassedOf(store[n], p)
    BY <1>6, <1>7 DEF PairInv, TodoPaired
  <1>9. StorePaired(p)'
    <2>1. \A i \in 2 .. n + 1 : FaceOf(more[i], p) => PassedOf(more[i - 1], p)
      <3> HIDE DEF more
      <3>1. ASSUME NEW i \in 2 .. n, FaceOf(more[i], p)
            PROVE  PassedOf(more[i - 1], p)
        <4> HIDE DEF n
        <4>1. i \in 1 .. n /\ i - 1 \in 1 .. n  BY <1>2
        <4>2. more[i] = store[i] /\ more[i - 1] = store[i - 1]  BY <1>4, <4>1
        <4> QED  BY <3>1, <4>2 DEF PairInv, StorePaired, n
      <3>2. ASSUME FaceOf(more[n + 1], p)  PROVE PassedOf(more[(n + 1) - 1], p)
        <4>1. store # <<>> /\ PassedOf(store[n], p)  BY <1>4, <1>8, <3>2
        <4>2. n # 0  BY <1>2, <4>1, EmptySeq
        <4> HIDE DEF n
        <4>3. n \in 1 .. n /\ (n + 1) - 1 = n  BY <1>2, <4>2
        <4> QED  BY <1>4, <4>1, <4>3
      <3> HIDE DEF n
      <3> QED  BY <1>2, <3>1, <3>2
    <2>2. CASE store' = more  BY <1>4, <2>1, <2>2 DEF StorePaired
    <2>3. CASE store' = Tail(more)
      <3>1. /\ Len(Tail(more)) = (n + 1) - 1
            /\ \A i \in 1 .. (n + 1) - 1 : Tail(more)[i] = more[i + 1]
        BY <1>4, HeadTailProperties
      <3> HIDE DEF n, more
      <3>2. Len(store') = n  BY <1>2, <2>3, <3>1
      <3>3. ASSUME NEW i \in 2 .. n, FaceOf(store'[i], p)
            PROVE  PassedOf(store'[i - 1], p)
        <4>1. i \in 1 .. (n + 1) - 1 /\ i - 1 \in 1 .. (n + 1) - 1
              /\ i + 1 \in 2 .. n + 1 /\ (i - 1) + 1 = (i + 1) - 1
          BY <1>2
        <4>2. store'[i] = more[i + 1] /\ store'[i - 1] = more[(i - 1) + 1]
          BY <2>3, <3>1, <4>1
        <4> QED  BY <2>1, <3>3, <4>1, <4>2
      <3> QED  BY <3>2, <3>3 DEF StorePaired
    <2> QED  BY <1>3, <2>2, <2>3
  <1>10. TodoPaired(p)'
    <2>1. CASE Len(todo) = 1  BY <1>6, <2>1 DEF TodoPaired
    <2>2. CASE Len(todo) = 2
      <3>1. ~PassedOf(todo[2], p)  BY <2>2 DEF PairInv, TodoPaired
      <3>2. FaceOf(todo[2], p) => PassedOf(todo[1], p)
        BY <2>2 DEF PairInv, TodoPaired
      <3>3. Len(todo') = 1 /\ todo'[1] = todo[2]  BY <1>6, <2>2
      <3> QED  BY <1>5, <1>7, <3>1, <3>2, <3>3 DEF TodoPaired
    <2> QED  BY <1>6, <2>1, <2>2
  <1>11. FewLone(p)'
    <2> DEFINE old == Cardinality(Lone(store, p))
               new == Cardinality(Lone(more, p))
               now == Cardinality(Lone(store, p))'
    <2>1. /\ old \in Nat
          /\ PassedOf(row, p) => new = old + 1
          /\ FaceOf(row, p) => new = old - 1
          /\ ~PassedOf(row, p) /\ ~FaceOf(row, p) => new = old
      BY <1>1, <1>2, <1>8, LoneAppend
    <2>2. new \in Nat  BY <1>4, LoneFinite
    <2>3. now <= new
      <3>1. CASE store' = more  BY <2>2, <3>1
      <3>2. CASE store' = Tail(more)  BY <1>4, <3>2, LoneTail
      <3> QED  BY <1>3, <3>1, <3>2
    <2>4. now \in Nat
      <3>1. CASE store' = more  BY <2>2, <3>1
      <3>2. CASE store' = Tail(more)
        <4>1. Tail(more) \in Seq(Rows)  BY <1>4, HeadTailProperties
        <4> HIDE DEF more
        <4> QED  BY <3>2, <4>1, LoneFinite
      <3> QED  BY <1>3, <3>1, <3>2
    <2>5. old <= NextIs(p) + torn[p]  BY DEF PairInv, FewLone
    <2>6. NextIs(p) = IF FaceOf(row, p) THEN 1 ELSE 0
      BY <1>1, <1>7 DEF NextIs
    <2>7. NextIs(p)' \in Nat /\ (PassedOf(row, p) => NextIs(p)' = 1)
      <3>1. PassedOf(row, p) => Len(todo') = 1 /\ FaceOf(todo'[1], p)
        BY <1>6, <1>8
      <3>2. Len(todo') = 1 => todo' # <<>>  BY EmptySeq
      <3> QED  BY <3>1, <3>2 DEF NextIs
    <2>8. torn' = torn /\ torn[p] \in Nat  BY DEF Emit, AnalysisTypeOK
    <2>9. ~(PassedOf(row, p) /\ FaceOf(row, p))  BY DEF PassedOf, FaceOf
    <2> HIDE DEF old, new, now
    <2>10. now <= NextIs(p)' + torn[p]
      BY <2>1, <2>2, <2>3, <2>4, <2>5, <2>6, <2>7, <2>8, <2>9
    <2> QED  BY <2>8, <2>10 DEF FewLone, now
  <1> QED  BY <1>9, <1>10, <1>11

LEMMA PairStep == AnalysisTypeOK /\ PairInv /\ [Next]_vars => PairInv'
  <1> SUFFICES ASSUME AnalysisTypeOK, PairInv, [Next]_vars  PROVE PairInv'
    OBVIOUS
  <1>1. ASSUME NEW q \in People, NoFace(q)  PROVE PairInv'
    <2> DEFINE row == Row("face", q, "guard", "none")
    <2>1. todo' = <<row>>  BY <1>1 DEF NoFace
    <2>2. \A p \in People : ~PassedOf(row, p) /\ ~FaceOf(row, p)
      BY FiniteLabels DEF PassedOf, FaceOf, Row
    <2> HIDE DEF row
    <2>3. \A p \in People : TodoPaired(p)'  BY <2>1, <2>2 DEF TodoPaired
    <2> QED  BY <1>1, <2>3, TakePairs DEF NoFace, Take
  <1>2. ASSUME NEW q \in People, Face(q)  PROVE PairInv'
    BY <1>2, FacePairs
  <1>3. ASSUME NEW q \in People, Chunk(q)  PROVE PairInv'
    <2>1. PICK activity \in Activity, heard \in HasText :
            todo' = <<Row("audio", q, activity, "none")>>
                    \o (IF heard THEN <<Row("text", q, "text", "none")>>
                                 ELSE <<>>)
      BY <1>3 DEF Chunk
    <2> DEFINE audio == Row("audio", q, activity, "none")
               text  == Row("text", q, "text", "none")
    <2>2. \A p \in People : /\ ~PassedOf(audio, p) /\ ~FaceOf(audio, p)
                            /\ ~PassedOf(text, p) /\ ~FaceOf(text, p)
      BY DEF PassedOf, FaceOf, Row
    <2>3. todo' = <<audio>> \o (IF heard THEN <<text>> ELSE <<>>)  BY <2>1
    <2> HIDE DEF audio, text
    <2>4. \A i \in 1 .. Len(todo') : todo'[i] \in {audio, text}
      <3>1. CASE heard  BY <2>3, <3>1
      <3>2. CASE ~heard  BY <2>3, <3>2
      <3> QED  BY <3>1, <3>2
    <2>5. \A p \in People : TodoPaired(p)'  BY <2>2, <2>4 DEF TodoPaired
    <2> QED  BY <1>3, <2>5, TakePairs DEF Chunk, Take
  <1>4. CASE Emit  BY <1>4, EmitPairs
  <1>5. CASE SendFails
    <2> SUFFICES ASSUME Tracks, NEW p \in People
                 PROVE  StorePaired(p)' /\ TodoPaired(p)' /\ FewLone(p)'
      BY <1>5 DEF PairInv, Tracks, SendFails
    <2>1. StorePaired(p)'  BY <1>5 DEF SendFails, PairInv, StorePaired
    <2>2. TodoPaired(p)'  BY <1>5 DEF SendFails, TodoPaired
    <2>3. todo # <<>> /\ todo \in Seq(Rows) /\ torn[p] \in Nat
          /\ DOMAIN torn = People
      BY <1>5 DEF SendFails, AnalysisTypeOK
    <2>4. Head(todo) = todo[1]  BY <2>3
    <2>5. torn'[p] \in Nat /\ NextIs(p) + torn[p] <= torn'[p]
      <3>1. CASE FaceOf(todo[1], p)
        <4>1. torn' = [torn EXCEPT ![p] = @ + 1]
          BY <1>5, <2>4, <3>1 DEF SendFails, FaceOf, Tracks
        <4> QED  BY <2>3, <3>1, <4>1 DEF NextIs
      <3>2. CASE ~FaceOf(todo[1], p)
        <4>1. torn' = torn \/ torn' = [torn EXCEPT ![todo[1].pid] = @ + 1]
          BY <1>5, <2>4 DEF SendFails
        <4>2. torn'[p] = torn[p] \/ torn'[p] = torn[p] + 1  BY <2>3, <4>1
        <4>3. NextIs(p) = 0  BY <3>2 DEF NextIs
        <4> QED  BY <2>3, <4>2, <4>3
      <3> QED  BY <3>1, <3>2
    <2>6. store' = store /\ todo' = <<>>  BY <1>5 DEF SendFails
    <2>7. Cardinality(Lone(store, p)) <= NextIs(p) + torn[p]
          /\ Cardinality(Lone(store, p)) \in Nat
      BY LoneFinite DEF PairInv, FewLone, AnalysisTypeOK
    <2>8. NextIs(p) \in Nat /\ NextIs(p)' = 0  BY <2>6 DEF NextIs
    <2>9. Cardinality(Lone(store, p)) <= 0 + torn'[p]
      BY <2>3, <2>5, <2>7, <2>8
    <2>10. FewLone(p)'  BY <2>6, <2>8, <2>9 DEF FewLone
    <2> QED  BY <2>1, <2>2, <2>10
  <1> USE DEF PairInv, Tracks, StorePaired, TodoPaired, FewLone, NextIs
  <1>6. CASE NextWindow  BY <1>6 DEF NextWindow
  <1>7. CASE UNCHANGED vars  BY <1>7 DEF vars
  <1> QED  BY <1>1, <1>2, <1>3, <1>4, <1>5, <1>6, <1>7 DEF Next

\* The places of the gates that were passed, and of the faces.
PassedPlaces(rows, p) == {i \in DOMAIN rows : PassedOf(rows[i], p)}
FacePlaces(rows, p)   == {i \in DOMAIN rows : FaceOf(rows[i], p)}

\* The gates passed that are not alone are each followed by a face of their
\* own.
LEMMA PassedHaveFaces ==
    ASSUME NEW rows \in Seq(Rows), NEW p
    PROVE  Cardinality(PassedPlaces(rows, p))
             <= Cardinality(FacePlaces(rows, p)) + Cardinality(Lone(rows, p))
  <1> DEFINE P == PassedPlaces(rows, p)
             F == FacePlaces(rows, p)
             L == Lone(rows, p)
             S == P \ L
             g == [i \in S |-> i + 1]
             n == Len(rows)
  <1>1. n \in Nat /\ DOMAIN rows = 1 .. n  BY LenProperties
  <1>2. /\ IsFiniteSet(P) /\ IsFiniteSet(F) /\ IsFiniteSet(L)
        /\ Cardinality(P) \in Nat /\ Cardinality(F) \in Nat
        /\ Cardinality(L) \in Nat
    BY PlacesFinite DEF PassedPlaces, FacePlaces, Lone
  <1>3. L \subseteq P  BY DEF Lone, PassedPlaces
  <1>4. ASSUME NEW i \in S  PROVE i \in Nat /\ i + 1 \in F
    <2>1. i \in 1 .. n /\ i # n /\ FaceOf(rows[i + 1], p)
      BY <1>1, <1>4 DEF Lone, PassedPlaces
    <2> HIDE DEF n
    <2>2. i + 1 \in 1 .. n  BY <1>1, <2>1
    <2> QED  BY <1>1, <2>1, <2>2 DEF FacePlaces
  <1> HIDE DEF P, F, L, S
  <1>5. g \in Injection(S, F)
    <2>1. g \in [S -> F]  BY <1>4
    <2>2. \A i, j \in S : g[i] = g[j] => i = j  BY <1>4
    <2> QED  BY <2>1, <2>2 DEF Injection, IsInjective
  <1> HIDE DEF g
  <1>6. Cardinality(S) <= Cardinality(F) /\ IsFiniteSet(S)
    BY <1>2, <1>5, FS_Injection
  <1>7. S \cap L = {} /\ S \cup L = P  BY <1>3 DEF S
  <1>8. Cardinality(P) = Cardinality(S) + Cardinality(L)
    <2>1. Cardinality(S \cap L) = 0  BY <1>7, FS_EmptySet
    <2>2. Cardinality(S) \in Nat  BY <1>6, FS_CardinalityType
    <2>3. Cardinality(S \cup L)
            = Cardinality(S) + Cardinality(L) - Cardinality(S \cap L)
      BY <1>2, <1>6, FS_Union
    <2>4. Cardinality(S \cup L) = Cardinality(P)  BY <1>7
    <2> QED  BY <1>2, <2>1, <2>2, <2>3, <2>4
  <1>9. Cardinality(S) \in Nat  BY <1>6, FS_CardinalityType
  <1> QED  BY <1>2, <1>6, <1>8, <1>9 DEF P, F, L

\* The faces but the first row follow each a gate of their own.
LEMMA FacesHavePassed ==
    ASSUME NEW rows \in Seq(Rows), NEW p,
           \A i \in 2 .. Len(rows) :
              FaceOf(rows[i], p) => PassedOf(rows[i - 1], p)
    PROVE  Cardinality(FacePlaces(rows, p))
             <= Cardinality(PassedPlaces(rows, p))
                + (IF rows # <<>> /\ FaceOf(rows[1], p) THEN 1 ELSE 0)
  <1> DEFINE P == PassedPlaces(rows, p)
             F == FacePlaces(rows, p)
             S == F \ {1}
             g == [i \in S |-> i - 1]
             n == Len(rows)
  <1>1. n \in Nat /\ DOMAIN rows = 1 .. n  BY LenProperties
  <1>2. /\ IsFiniteSet(P) /\ IsFiniteSet(F)
        /\ Cardinality(P) \in Nat /\ Cardinality(F) \in Nat
    BY PlacesFinite DEF PassedPlaces, FacePlaces
  <1>3. ASSUME NEW i \in S  PROVE i \in Nat /\ i - 1 \in P
    <2>1. i \in 1 .. n /\ i # 1 /\ FaceOf(rows[i], p)
      BY <1>1, <1>3 DEF FacePlaces
    <2>2. \A j \in 2 .. n : FaceOf(rows[j], p) => PassedOf(rows[j - 1], p)
      OBVIOUS
    <2> HIDE DEF n
    <2>3. i \in 2 .. n /\ i - 1 \in 1 .. n  BY <1>1, <2>1
    <2> QED  BY <1>1, <2>1, <2>2, <2>3 DEF PassedPlaces
  <1>4. 1 \in F => rows # <<>> /\ FaceOf(rows[1], p)
    BY <1>1, EmptySeq DEF FacePlaces
  <1> HIDE DEF P, F, S
  <1>5. g \in Injection(S, P)
    <2>1. g \in [S -> P]  BY <1>3
    <2>2. \A i, j \in S : g[i] = g[j] => i = j  BY <1>3
    <2> QED  BY <2>1, <2>2 DEF Injection, IsInjective
  <1> HIDE DEF g
  <1>6. Cardinality(S) <= Cardinality(P) /\ IsFiniteSet(S)
    BY <1>2, <1>5, FS_Injection
  <1>7. Cardinality(S) = IF 1 \in F THEN Cardinality(F) - 1 ELSE Cardinality(F)
    BY <1>2, FS_RemoveElement DEF S
  <1> QED  BY <1>2, <1>4, <1>6, <1>7 DEF P, F

\* What the report counts of one participant.
LEMMA CountedOfOne ==
    ASSUME NEW rows \in Seq(Rows), NEW p \in People
    PROVE  LET r == build_stub_report(rows)
           IN  /\ (IF p \in DOMAIN r.tracking THEN r.tracking[p].passed ELSE 0)
                    = Cardinality(PassedPlaces(rows, p))
               /\ (IF p \in DOMAIN r.tiles THEN r.tiles[p].emotions ELSE 0)
                    = Cardinality(FacePlaces(rows, p))
  <1> DEFINE r == build_stub_report(rows)
  <1>1. /\ r.tracking = [q \in tracked(rows) |-> tracking(rows, q)]
        /\ r.tiles = [q \in participants(rows) |-> tile(rows, q)]
    BY DEF build_stub_report, tiles
  <1>2. /\ Valued(rows, "face_debug", p, "passed") = PassedPlaces(rows, p)
        /\ PassedPlaces(rows, p) \subseteq Of(rows, "face_debug", p)
        /\ Emotional(rows, p) = FacePlaces(rows, p)
    BY DEF Valued, Of, PassedPlaces, PassedOf, Emotional, FacePlaces, FaceOf
  <1>3. (IF p \in tracked(rows) THEN tracking(rows, p).passed ELSE 0)
          = Cardinality(PassedPlaces(rows, p))
    <2>1. CASE p \in tracked(rows)  BY <1>2, <2>1 DEF tracking
    <2>2. CASE p \notin tracked(rows)
      <3>1. ~(Cardinality(Of(rows, "face_debug", p)) > 0)
        BY <2>2 DEF tracked, tracking
      <3>2. /\ IsFiniteSet(Of(rows, "face_debug", p))
            /\ Cardinality(Of(rows, "face_debug", p)) \in Nat
        BY PlacesFinite DEF Of
      <3>3. Of(rows, "face_debug", p) = {}  BY <3>1, <3>2, FS_EmptySet
      <3>4. PassedPlaces(rows, p) = {}  BY <1>2, <3>3
      <3> QED  BY <2>2, <3>4, FS_EmptySet
    <2> QED  BY <2>1, <2>2
  <1>4. (IF p \in participants(rows) THEN tile(rows, p).emotions ELSE 0)
          = Cardinality(FacePlaces(rows, p))
    <2>1. CASE p \in participants(rows)
      BY <1>2, <2>1, EmotionsOfOne DEF tile
    <2>2. CASE p \notin participants(rows)
      <3>1. FacePlaces(rows, p) = {}  BY <1>2, <2>2 DEF participants
      <3> QED  BY <2>2, <3>1, FS_EmptySet
    <2> QED  BY <2>1, <2>2
  <1> HIDE DEF r
  <1> QED  BY <1>1, <1>3, <1>4 DEF r

\* In every report, whenever it is built: each emotion that is counted had
\* passed its gates, and each gate that was passed has its emotion, but for
\* what is on its way, was torn off, or has just been dropped.
THEOREM TrackingAlwaysMatches == Spec => []TrackingMatchesEmotions
  <1>1. Init => PairInv
    <2>1. ASSUME Init, NEW p \in People
          PROVE  StorePaired(p) /\ TodoPaired(p) /\ FewLone(p)
      <3>1. store = <<>> /\ todo = <<>> /\ torn[p] = 0  BY <2>1 DEF Init
      <3>2. Lone(store, p) = {}  BY <3>1 DEF Lone
      <3> QED  BY <3>1, <3>2, FS_EmptySet
               DEF StorePaired, TodoPaired, FewLone, NextIs
    <2> QED  BY <2>1 DEF PairInv
  <1>2. AnalysisTypeOK /\ PairInv => TrackingMatchesEmotions
    <2> SUFFICES ASSUME AnalysisTypeOK, PairInv, Tracks, NEW p \in People
                 PROVE
        LET r      == build_stub_report(store)
            passed == IF p \in DOMAIN r.tracking THEN r.tracking[p].passed ELSE 0
            faces  == IF p \in DOMAIN r.tiles THEN r.tiles[p].emotions ELSE 0
            IsFace(row) == /\ row.kind = "face" /\ row.pid = p
                           /\ row.value \in Emotions
            Heads(rows) == IF rows # <<>> /\ IsFace(Head(rows)) THEN 1 ELSE 0
        IN  /\ passed <= faces + Heads(todo) + torn[p]
            /\ faces <= passed + Heads(store)
      BY DEF TrackingMatchesEmotions, Tracks
    <2> DEFINE P == Cardinality(PassedPlaces(store, p))
               F == Cardinality(FacePlaces(store, p))
               L == Cardinality(Lone(store, p))
               first == IF store # <<>> /\ FaceOf(store[1], p) THEN 1 ELSE 0
    <2>1. store \in Seq(Rows) /\ todo \in Seq(Rows) /\ torn[p] \in Nat
      BY DEF AnalysisTypeOK
    <2>2. P \in Nat /\ F \in Nat /\ L \in Nat
      BY <2>1, PlacesFinite DEF PassedPlaces, FacePlaces, Lone
    <2>3. P <= F + L  BY <2>1, PassedHaveFaces
    <2>4. L <= NextIs(p) + torn[p]  BY DEF PairInv, FewLone
    <2>5. F <= P + first  BY <2>1, FacesHavePassed DEF PairInv, StorePaired
    <2>6. NextIs(p) \in Nat  BY DEF NextIs
    <2> HIDE DEF P, F, L, first
    <2>7. P <= F + NextIs(p) + torn[p]  BY <2>1, <2>2, <2>3, <2>4, <2>6
    <2>8. /\ todo # <<>> => Head(todo) = todo[1]
          /\ store # <<>> => Head(store) = store[1]
      BY <2>1
    <2> DEFINE r == build_stub_report(store)
    <2>9. /\ (IF p \in DOMAIN r.tracking THEN r.tracking[p].passed ELSE 0) = P
          /\ (IF p \in DOMAIN r.tiles THEN r.tiles[p].emotions ELSE 0) = F
      BY <2>1, CountedOfOne DEF P, F
    <2> HIDE DEF r
    <2>10. NextIs(p) = IF todo # <<>> /\ FaceOf(Head(todo), p) THEN 1 ELSE 0
      BY <2>8 DEF NextIs
    <2>11. first = IF store # <<>> /\ FaceOf(Head(store), p) THEN 1 ELSE 0
      BY <2>8 DEF first
    <2> QED  BY <2>5, <2>7, <2>9, <2>10, <2>11 DEF FaceOf, r
  <1> QED  BY <1>1, <1>2, PairStep, TypeCorrect, PTL DEF Spec
=============================================================================
