--------------------------- MODULE GeometryProofs ---------------------------
(***************************************************************************)
(* Theorems about module Geometry for a line of any length, any cells and  *)
(* clients that ask for anything at any time.                              *)
(*                                                                         *)
(* Only an arranged window is tracked.  As long as its scene node is where *)
(* its animation is, layout_anim_kick_outputs, which looks at the          *)
(* animation, schedules a frame whenever the node has a way to go; and     *)
(* every action leaves the node there, but for the drag of the window and  *)
(* the request that takes it over.                                         *)
(***************************************************************************)
EXTENDS Geometry, SequenceTheorems, TLAPS

(* layout_anim_tracked is set by an arrangement and cleared by what ends   *)
(* the arranging.                                                          *)
TrackedArranged == tracked => Arranging

IInv == TypeOK /\ TrackedArranged /\ FrameComes

Takeover == grab = "mine" /\ grab' = "taken"

-----------------------------------------------------------------------------
(* Types *)

LEMMA PointTyped ==
  /\ Point \subseteq Int /\ Cells \subseteq Point /\ Origin \in Point
BY PointAssumption DEF Point

LEMMA InitTyped == Init => TypeOK /\ TrackedArranged
<1>1. << >> \in Seq(BOOLEAN)
  BY EmptySeq
<1>2. QED
  BY <1>1 DEF Init, TypeOK, TrackedArranged

LEMMA WindowStepTyped == TypeOK /\ WindowStep => TypeOK'
<1> SUFFICES ASSUME TypeOK, WindowStep PROVE TypeOK'
  OBVIOUS
<1>1. CASE Maximize
  <2>1. sent' \in Seq(BOOLEAN)
    BY <1>1, AppendProperties DEF Maximize, TypeOK
  <2>2. node' \in Point /\ frame' \in {"none", "due", "needed"}
    BY <1>1, PointTyped DEF Maximize, TypeOK, PutAt, Needs
  <2>3. QED
    BY <1>1, <2>1, <2>2 DEF Maximize, TypeOK, scene
<1>2. CASE Unmaximize
  <2>1. sent' \in Seq(BOOLEAN)
    BY <1>2, AppendProperties DEF Unmaximize, TypeOK
  <2>2. node' \in Point /\ frame' \in {"none", "due", "needed"}
    BY <1>2 DEF Unmaximize, TypeOK, PutAt, Needs
  <2>3. QED
    BY <1>2, <2>1, <2>2 DEF Unmaximize, TypeOK, scene
<1>3. CASE AckAndCommit
  <2>1. PICK n \in DOMAIN sent :
          current' = sent[n] /\ sent' = SubSeq(sent, n + 1, Len(sent))
    BY <1>3 DEF AckAndCommit
  <2>2. n \in 1 .. Len(sent) /\ Len(sent) \in Nat /\ sent \in Seq(BOOLEAN)
    BY LenProperties DEF TypeOK
  <2>3. sent' \in Seq(BOOLEAN) /\ current' \in BOOLEAN
    <3>1. \A i \in n + 1 .. Len(sent) : sent[i] \in BOOLEAN
      BY <2>2, ElementOfSeq
    <3>2. n + 1 \in 1 .. Len(sent) + 1
      BY <2>2
    <3>3. QED
      BY <2>1, <2>2, <3>1, <3>2, SubSeqProperties, ElementOfSeq
  <2>4. frame' \in {"none", "due", "needed"}
    BY <1>3 DEF AckAndCommit, Needs, TypeOK
  <2>5. QED
    BY <1>3, <2>3, <2>4 DEF AckAndCommit, TypeOK, scene, place
<1>4. QED
  BY <1>1, <1>2, <1>3 DEF WindowStep

(* What an arrangement does to the window, apart from the frame.           *)
LEMMA ArrangeTyped ==
  ASSUME TypeOK, NEW c \in Point, Arrange(c)
  PROVE  /\ node' \in Point /\ target' \in Point /\ anim' \in Point
         /\ tracked' = TRUE /\ frame' \in {"none", "due", "needed"}
BY DEF TypeOK, Arrange, Ease, Jump, PutAt, Needs

LEMMA OtherStepTyped == TypeOK /\ (UserStep \/ PrimaryFrame \/ OtherDamage) => TypeOK'
<1> SUFFICES ASSUME TypeOK, UserStep \/ PrimaryFrame \/ OtherDamage PROVE TypeOK'
  OBVIOUS
<1> USE DEF scene, place, maximal
<1>1. ASSUME NEW c \in Cells, Rearranged(c) PROVE TypeOK'
  BY <1>1, PointTyped, ArrangeTyped DEF Rearranged, TypeOK
<1>2. ASSUME NEW c \in Cells, ToTile(c) PROVE TypeOK'
  BY <1>2, PointTyped, ArrangeTyped DEF ToTile, TypeOK
<1>3. ASSUME NEW c \in Cells, Return(c) PROVE TypeOK'
  BY <1>3, PointTyped DEF Return, TypeOK
<1>4. ASSUME NEW c \in Cells, Release(c) PROVE TypeOK'
  <2>1. c \in Point
    BY PointTyped
  <2>2. /\ node' \in Point /\ target' \in Point /\ anim' \in Point
        /\ tracked' \in BOOLEAN /\ frame' \in {"none", "due", "needed"}
    BY <1>4, <2>1, ArrangeTyped DEF Release, TypeOK, PutAt, Needs
  <2>3. QED
    BY <1>4, <2>2 DEF Release, TypeOK
<1>5. ASSUME NEW c \in Cells, NEW on \in BOOLEAN, Reload(on, c) PROVE TypeOK'
  <2>1. c \in Point
    BY PointTyped
  <2>2. /\ node' \in Point /\ target' \in Point /\ anim' \in Point
        /\ tracked' \in BOOLEAN /\ frame' \in {"none", "due", "needed"}
    BY <1>5, <2>1, ArrangeTyped DEF Reload, TypeOK, Jump, Ease, PutAt, Needs
  <2>3. QED
    BY <1>5, <2>2 DEF Reload, TypeOK
<1>6. CASE ToStack
  BY <1>6 DEF ToStack, TypeOK
<1>7. CASE Leave
  BY <1>7 DEF Leave, TypeOK
<1>8. ASSUME NEW who \in {"mine", "other"}, BeginMove(who) PROVE TypeOK'
  BY <1>8 DEF BeginMove, TypeOK
<1>9. ASSUME NEW p \in Point, Drag(p) PROVE TypeOK'
  BY <1>9 DEF Drag, PutAt, Needs, TypeOK
<1>10. CASE PrimaryFrame
  <2>1. /\ node' \in Point /\ anim' \in Point /\ ticking' \in BOOLEAN
        /\ frame' \in {"none", "due", "needed"}
    BY <1>10 DEF PrimaryFrame, TickTo, AfterCommit, StartsClock, TypeOK
  <2>2. QED
    BY <1>10, <2>1 DEF PrimaryFrame, TypeOK
<1>11. CASE OtherDamage
  BY <1>11 DEF OtherDamage, TypeOK
<1>12. QED
  BY <1>1, <1>2, <1>3, <1>4, <1>5, <1>6, <1>7, <1>8, <1>9, <1>10, <1>11 DEF UserStep

LEMMA TypesKept == TypeOK /\ [Next]_vars => TypeOK'
<1>1. TypeOK /\ UNCHANGED vars => TypeOK'
  BY DEF TypeOK, vars, scene, place, maximal
<1>2. QED
  BY <1>1, WindowStepTyped, OtherStepTyped DEF Next

LEMMA TrackedKept == TrackedArranged /\ [Next]_vars => TrackedArranged'
<1> SUFFICES ASSUME TrackedArranged, [Next]_vars PROVE TrackedArranged'
  OBVIOUS
<1> USE DEF TrackedArranged, Arranging, scene, place, maximal
<1>1. CASE WindowStep \/ PrimaryFrame \/ OtherDamage \/ UNCHANGED vars
  BY <1>1 DEF WindowStep, Maximize, Unmaximize, AckAndCommit, PrimaryFrame, OtherDamage, vars
<1>2. CASE UserStep
  BY <1>2 DEF UserStep, Rearranged, ToTile, Return, Release, Reload, ToStack, Leave,
     BeginMove, Drag, PutAt, Needs
<1>3. QED
  BY <1>1, <1>2 DEF Next

-----------------------------------------------------------------------------
(* The animation and its frames *)

(* An arrangement that eases schedules a frame by the animation; one that  *)
(* jumps leaves nothing to do.                                             *)
LEMMA ArrangeCalm ==
  ASSUME TypeOK, NEW c \in Point, (tracked /\ Ease(c)) \/ Jump(c),
         grab' = grab \/ grab # "mine"
  PROVE  /\ FrameComes'
         /\ Astray' => Astray
<1>1. CASE Ease(c) /\ tracked
  <2>1. target' = c /\ UNCHANGED << node, anim, tracked >>
    BY <1>1 DEF Ease
  <2>2. OnItsWay' => node = anim /\ grab # "mine"
    BY <1>1, <2>1 DEF OnItsWay, Astray
  <2>3. anim # c /\ grab # "mine" => frame' = "needed"
    BY <1>1 DEF Ease, Needs
  <2>4. FrameComes'
    BY <2>1, <2>2, <2>3 DEF FrameComes
  <2>5. Astray' => Astray
    BY <1>1, <2>1 DEF Astray
  <2>6. QED
    BY <2>4, <2>5
<1>2. CASE Jump(c)
  BY <1>2 DEF Jump, PutAt, FrameComes, Astray
<1>3. QED
  BY <1>1, <1>2

LEMMA UserStepCalm ==
  ASSUME TypeOK, TrackedArranged, FrameComes, UserStep
  PROVE  FrameComes' /\ (Astray' => Astray \/ Takeover)
<1> DEFINE Calm == FrameComes' /\ (Astray' => Astray \/ Takeover)
<1> USE DEF scene, place, maximal
<1>1. \A c \in Cells : c \in Point
  BY PointTyped
<1>2. \A c : Arrange(c) => (tracked /\ Ease(c)) \/ Jump(c)
  BY DEF Arrange
<1>3. ASSUME NEW c \in Cells, (tracked /\ Ease(c)) \/ Jump(c), grab' = grab \/ grab # "mine"
      PROVE  Calm
  BY <1>1, <1>3, ArrangeCalm
<1>4. ASSUME NEW c \in Cells, Rearranged(c) PROVE Calm
  BY <1>2, <1>3, <1>4 DEF Rearranged
<1>5. ASSUME NEW c \in Cells, ToTile(c) PROVE Calm
  <2>1. CASE here
    BY <1>2, <1>3, <1>5, <2>1 DEF ToTile
  <2>2. CASE ~here
    BY <1>5, <2>2 DEF ToTile, FrameComes, OnItsWay, Astray, Arranging
  <2>3. QED
    BY <2>1, <2>2
<1>6. ASSUME NEW c \in Cells, Return(c) PROVE Calm
  BY <1>6 DEF Return, FrameComes, OnItsWay, Astray
<1>7. ASSUME NEW c \in Cells, Release(c) PROVE Calm
  <2>1. CASE ~Arranging
    BY <1>7, <2>1 DEF Release, FrameComes, OnItsWay, Astray, TrackedArranged
  <2>2. CASE Arranging /\ grab = "mine" /\ tracked
    BY <1>7, <2>2 DEF Release, FrameComes, OnItsWay, Astray, PutAt, Needs
  <2>3. CASE Arranging /\ grab = "mine" /\ ~tracked
    BY <1>7, <2>3 DEF Release, Arrange, Jump, PutAt, FrameComes, OnItsWay, Astray
  <2>4. CASE Arranging /\ grab # "mine"
    BY <1>2, <1>3, <1>7, <2>4 DEF Release
  <2>5. QED
    BY <2>1, <2>2, <2>3, <2>4
<1>8. ASSUME NEW c \in Cells, NEW on \in BOOLEAN, Reload(on, c) PROVE Calm
  <2>1. CASE ~Arranging
    BY <1>8, <2>1 DEF Reload, FrameComes, OnItsWay, Astray, TrackedArranged
  <2>2. CASE Arranging
    BY <1>3, <1>8, <2>2 DEF Reload
  <2>3. QED
    BY <2>1, <2>2
<1>9. CASE ToStack \/ Leave
  BY <1>9 DEF ToStack, Leave, FrameComes, OnItsWay, Astray
<1>10. ASSUME NEW who \in {"mine", "other"}, BeginMove(who) PROVE Calm
  <2>1. UNCHANGED << layout, easing, here, ticking, node, target, anim, tracked, frame >>
    BY <1>10 DEF BeginMove
  <2>2. grab' \in {"mine", "other", "taken"}
    BY <1>10 DEF BeginMove
  <2>3. grab' = "other" => grab \in {"none", "other"}
    BY <1>10 DEF BeginMove, TypeOK
  <2>4. grab' = "taken" => grab \in {"mine", "taken"}
    BY <1>10 DEF BeginMove
  <2>5. OnItsWay' => OnItsWay
    BY <2>1, <2>2, <2>3 DEF OnItsWay, Astray, Arranging
  <2>6. FrameComes'
    BY <2>1, <2>5 DEF FrameComes
  <2>7. Astray' => Astray \/ Takeover
    BY <2>1, <2>2, <2>3, <2>4 DEF Astray, Takeover
  <2>8. QED
    BY <2>6, <2>7
<1>11. ASSUME NEW p \in Point, Drag(p) PROVE Calm
  BY <1>11 DEF Drag, FrameComes, OnItsWay, Astray
<1>12. QED
  BY <1>4, <1>5, <1>6, <1>7, <1>8, <1>9, <1>10, <1>11 DEF UserStep

(* A frame that does not move the window starts the clock or repaints; it  *)
(* is the last one only if the window is in its cell.                      *)
LEMMA MotionKept ==
  ASSUME TypeOK, TrackedArranged, FrameComes, [Next]_vars
  PROVE  FrameComes' /\ (Astray' => Astray \/ Takeover)
<1> USE DEF scene, place, maximal
<1>1. CASE Maximize \/ Unmaximize
  <2>1. /\ UNCHANGED << layout, easing, here, ticking, target, anim, tracked, grab >>
        /\ layout # "stack" => UNCHANGED << node, frame >>
    BY <1>1 DEF Maximize, Unmaximize
  <2>2. layout = "stack" => ~tracked
    BY DEF TrackedArranged, Arranging
  <2>3. QED
    BY <2>1, <2>2 DEF FrameComes, OnItsWay, Astray, Arranging
<1>2. CASE AckAndCommit
  BY <1>2 DEF AckAndCommit, Needs, FrameComes, OnItsWay, Astray, Arranging
<1>3. CASE PrimaryFrame
  <2>1. CASE TickMoves
    BY <1>3, <2>1 DEF PrimaryFrame, TickTo, FrameComes, Astray
  <2>2. CASE ~TickMoves
    <3>1. node' = node /\ anim' = anim /\ ticking' = (ticking \/ StartsClock)
          /\ frame' = IF frame = "needed" THEN AfterCommit ELSE "none"
      BY <1>3, <2>2 DEF PrimaryFrame
    <3>2. UNCHANGED << layout, easing, here, target, tracked, grab >>
      BY <1>3 DEF PrimaryFrame
    <3>3. ASSUME OnItsWay, node # target
          PROVE  frame' = "needed" \/ (frame' = "due" /\ ticking')
      <4>1. ~ticking
        BY <2>2, <3>3 DEF TickMoves, OnItsWay, Arranging
      <4>2. frame = "needed"
        BY <3>3, <4>1 DEF FrameComes
      <4>3. StartsClock
        BY <3>3 DEF StartsClock, OnItsWay, Arranging
      <4>4. QED
        BY <3>1, <4>2, <4>3 DEF AfterCommit
    <3>4. OnItsWay' => OnItsWay
      BY <3>1, <3>2 DEF OnItsWay, Astray, Arranging
    <3>5. FrameComes'
      BY <3>1, <3>2, <3>3, <3>4 DEF FrameComes
    <3>6. Astray' => Astray
      BY <3>1, <3>2 DEF Astray
    <3>7. QED
      BY <3>5, <3>6
  <2>3. QED
    BY <2>1, <2>2
<1>4. CASE OtherDamage
  BY <1>4 DEF OtherDamage, FrameComes, OnItsWay, Astray
<1>5. CASE UNCHANGED vars
  BY <1>5 DEF vars, FrameComes, OnItsWay, Astray, Arranging
<1>6. QED
  BY <1>1, <1>2, <1>3, <1>4, <1>5, UserStepCalm DEF Next, WindowStep

-----------------------------------------------------------------------------
(* Theorems *)

LEMMA InitCalm == Init => IInv
<1>1. Init => FrameComes
  BY DEF Init, FrameComes
<1>2. QED
  BY <1>1, InitTyped DEF IInv

LEMMA NextCalm == IInv /\ [Next]_vars => IInv' /\ (Astray' => Astray \/ Takeover)
<1> SUFFICES ASSUME IInv, [Next]_vars PROVE IInv' /\ (Astray' => Astray \/ Takeover)
  OBVIOUS
<1>1. TypeOK' /\ TrackedArranged'
  BY TypesKept, TrackedKept DEF IInv
<1>2. FrameComes' /\ (Astray' => Astray \/ Takeover)
  BY MotionKept DEF IInv
<1>3. QED
  BY <1>1, <1>2 DEF IInv

(* The types, what is tracked, and the frames that are coming.             *)
THEOREM Invariance == Spec => []IInv
<1>1. IInv /\ [Next]_vars => IInv'
  BY NextCalm
<1>2. QED
  BY <1>1, InitCalm, PTL DEF Spec

(* Every variable always holds a value of its kind.                        *)
THEOREM TypeCorrect == Spec => []TypeOK
<1>1. IInv => TypeOK
  BY DEF IInv
<1>2. QED
  BY <1>1, Invariance, PTL

(* Frames never run out while the window is on its way to its cell: with   *)
(* the fairness of frames, this is why it gets there.                      *)
THEOREM FramesCome == Spec => []FrameComes
<1>1. IInv => FrameComes
  BY DEF IInv
<1>2. QED
  BY <1>1, Invariance, PTL

(* Nothing but a move request that takes its drag over leaves a window's   *)
(* scene node away from its animation, where no frame is scheduled for it: *)
(* no layout switch, workspace switch, reload, release, maximize or frame. *)
THEOREM AstrayOnlyByTakeover == Spec => AstrayByTakeover
<1>1. IInv /\ [Next]_vars => [~Astray /\ Astray' => grab = "mine" /\ grab' = "taken"]_vars
  BY NextCalm DEF Takeover
<1>2. QED
  BY <1>1, Invariance, PTL DEF Spec, AstrayByTakeover
=============================================================================
