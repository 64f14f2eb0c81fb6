----------------------------- MODULE SeatProofs -----------------------------
(***************************************************************************)
(* Theorems about the modules of the seat: PointerInput, Keyboards,        *)
(* InputMaps and PointerConstraint, for any devices, fingers, outputs,     *)
(* rules, clients and surfaces.                                            *)
(***************************************************************************)
EXTENDS PointerInput, Keyboards, InputMaps, PointerConstraint, WellFoundedInduction, TLAPS

-----------------------------------------------------------------------------
(* Buttons, fingers and the pen (module PointerInput) *)

(* While the release to come is to be swallowed, a mouse holds the left    *)
(* button whose press was swallowed; if a client was told of a press all   *)
(* the same, another mouse holds that one.                                 *)
SwallowedPressHeld ==
  grab # "none" /\ swallow =>
    \E m \in Mouse : /\ << m, "left" >> \in held
                     /\ << "mouse", "left" >> \in down
                          => \E n \in Mouse \ {m} : << n, "left" >> \in held

ButtonsInv == TypeOK /\ PressesEnd /\ SwallowedPressHeld /\ TouchOwned

(* No device is pressed, no finger on the screen. *)
LEMMA ButtonsInit == Init => ButtonsInv
  BY NoFingerAssumption
     DEF Init, ButtonsInv, TypeOK, PressesEnd, SwallowedPressHeld, TouchOwned

(* Beginning and losing a grab touches no button: only a swallowed press   *)
(* sets the flag.                                                          *)
LEMMA GrabKeeps == ButtonsInv /\ GrabStep => ButtonsInv'
<1> SUFFICES ASSUME ButtonsInv, GrabStep PROVE ButtonsInv'
  OBVIOUS
<1> USE DEF ButtonsInv, mouse, touch, pen
<1>1. CASE RequestMove \/ RequestResize \/ GrabbedGone
  BY <1>1 DEF RequestMove, RequestResize, GrabbedGone, BeginGrab, TypeOK, PressesEnd,
              SwallowedPressHeld, TouchOwned
<1>2. ASSUME NEW m \in Mouse, NEW sort \in {"move", "resize"}, GrabPress(m, sort)
      PROVE  ButtonsInv'
  <2>1. TypeOK' /\ TouchOwned'
    BY <1>2 DEF GrabPress, BeginGrab, TypeOK, TouchOwned, Button
  <2>2. PressesEnd'
    BY <1>2 DEF GrabPress, PressesEnd
  <2>3. << m, "left" >> \in held' /\ << m, "left" >> \notin held
    BY <1>2 DEF GrabPress
  <2>4. << "mouse", "left" >> \in down' => \E n \in Mouse \ {m} : << n, "left" >> \in held'
    BY <1>2, <2>3 DEF GrabPress, PressesEnd, Button
  <2>5. SwallowedPressHeld'
    BY <2>3, <2>4 DEF SwallowedPressHeld
  <2> QED BY <2>1, <2>2, <2>5
<1> QED BY <1>1, <1>2 DEF GrabStep

(* A press forwarded during a grab is by a mouse that did not hold the     *)
(* button; a release ends the grab, and is forwarded unless it ends the    *)
(* swallowed press.                                                        *)
LEMMA MouseKeeps == ButtonsInv /\ MouseStep => ButtonsInv'
<1> SUFFICES ASSUME ButtonsInv, NEW m \in Mouse, NEW b \in Button, Press(m, b) \/ Release(m, b)
             PROVE  ButtonsInv'
  BY DEF MouseStep
<1> USE DEF ButtonsInv, touch, pen
<1>1. CASE Press(m, b)
  <2>1. TypeOK'
    BY <1>1 DEF Press, TypeOK, NotifyPressed, Button, Device
  <2>2. TouchOwned'
    BY <1>1 DEF Press, TouchOwned, NotifyPressed
  <2>3. PressesEnd'
    BY <1>1 DEF Press, PressesEnd, NotifyPressed
  <2>4. SwallowedPressHeld'
    <3> SUFFICES ASSUME grab' # "none", swallow' PROVE SwallowedPressHeld'
      BY DEF SwallowedPressHeld
    <3>1. PICK k \in Mouse : /\ << k, "left" >> \in held
                             /\ << "mouse", "left" >> \in down
                                  => \E n \in Mouse \ {k} : << n, "left" >> \in held
      BY <1>1 DEF Press, SwallowedPressHeld
    <3>2. CASE b = "left"
      BY <1>1, <3>1, <3>2 DEF Press, SwallowedPressHeld
    <3>3. CASE b # "left"
      BY <1>1, <3>1, <3>3 DEF Press, NotifyPressed, SwallowedPressHeld
    <3> QED BY <3>2, <3>3
  <2> QED BY <2>1, <2>2, <2>3, <2>4
<1>2. CASE Release(m, b)
  <2>1. TypeOK'
    BY <1>2 DEF Release, TypeOK, NotifyReleased
  <2>2. TouchOwned'
    BY <1>2 DEF Release, TouchOwned, NotifyReleased
  <2>3. SwallowedPressHeld'
    BY <1>2 DEF Release, SwallowedPressHeld
  <2>4. PressesEnd'
    <3>1. CASE grab # "none" /\ b = "left" /\ swallow
      <4>1. PICK k \in Mouse : /\ << k, "left" >> \in held
                               /\ << "mouse", "left" >> \in down
                                    => \E n \in Mouse \ {k} : << n, "left" >> \in held
        BY <3>1 DEF SwallowedPressHeld
      <4>2. << "mouse", "left" >> \in down' => \E n \in Mouse : << n, "left" >> \in held'
        BY <1>2, <3>1, <4>1 DEF Release
      <4>3. ASSUME NEW c \in Button, c # "left", << "mouse", c >> \in down'
            PROVE  \E n \in Mouse : << n, c >> \in held'
        BY <1>2, <3>1, <4>3 DEF Release, PressesEnd
      <4> QED BY <1>2, <3>1, <4>2, <4>3 DEF Release, PressesEnd
    <3>2. CASE ~(grab # "none" /\ b = "left" /\ swallow)
      BY <1>2, <3>2 DEF Release, PressesEnd, NotifyReleased
    <3> QED BY <3>1, <3>2
  <2> QED BY <2>1, <2>2, <2>3, <2>4
<1> QED BY <1>1, <1>2

(* Touch contacts change no other device's presses, and the emulation ends *)
(* with its contact.                                                       *)
LEMMA TouchKeeps == ButtonsInv /\ TouchStep => ButtonsInv'
<1> SUFFICES ASSUME ButtonsInv, NEW f \in Finger,
                    TouchDownNative(f) \/ TouchDownEmulated(f) \/ TouchUp(f) \/ TouchCancel(f)
             PROVE  ButtonsInv'
  BY DEF TouchStep
<1> USE DEF ButtonsInv, mouse, pen
<1>1. /\ UNCHANGED << mouse, pen >>
      /\ \A b \in Button : << "mouse", b >> \in down' <=> << "mouse", b >> \in down
      /\ << "pen", "left" >> \in down' <=> << "pen", "left" >> \in down
  BY DEF TouchDownNative, TouchDownEmulated, TouchUp, TouchCancel, EndEmulation,
         NotifyPressed, NotifyReleased
<1>2. PressesEnd'
  BY <1>1 DEF PressesEnd
<1>3. SwallowedPressHeld'
  BY <1>1 DEF SwallowedPressHeld, Button
<1>4. CASE TouchDownNative(f)
  BY <1>2, <1>3, <1>4 DEF TouchDownNative, TypeOK, TouchOwned
<1>5. CASE TouchDownEmulated(f)
  BY <1>2, <1>3, <1>5 DEF TouchDownEmulated, NotifyPressed, TypeOK, TouchOwned, Device, Button
<1>6. CASE TouchUp(f)
  BY <1>2, <1>3, <1>6, NoFingerAssumption
     DEF TouchUp, EndEmulation, NotifyReleased, TypeOK, TouchOwned
<1>7. CASE TouchCancel(f)
  <2>1. points' \subseteq points /\ (f # emulated => f \notin points')
    BY <1>7 DEF TouchCancel, CancelPoints
  <2> QED
    BY <1>2, <1>3, <1>7, <2>1, NoFingerAssumption
       DEF TouchCancel, EndEmulation, NotifyReleased, TypeOK, TouchOwned
<1> QED BY <1>4, <1>5, <1>6, <1>7

(* The pen's emulated press is there from its tip's down to its up. *)
LEMMA PenKeeps == ButtonsInv /\ PenStep => ButtonsInv'
<1> SUFFICES ASSUME ButtonsInv, NEW accepts \in BOOLEAN,
                    TipDown(accepts) \/ TipUp \/ TabletButton(accepts)
             PROVE  ButtonsInv'
  BY DEF PenStep
<1> USE DEF ButtonsInv, mouse, touch
<1>1. /\ UNCHANGED << mouse, touch >>
      /\ \A b \in Button : << "mouse", b >> \in down' <=> << "mouse", b >> \in down
      /\ << "touch", "left" >> \in down' <=> << "touch", "left" >> \in down
  BY DEF TipDown, TipUp, TabletButton, NotifyPressed, NotifyReleased
<1>2. TouchOwned'
  BY <1>1 DEF TouchOwned
<1>3. SwallowedPressHeld'
  BY <1>1 DEF SwallowedPressHeld, Button
<1>4. CASE TipDown(accepts)
  <2>1. \/ tip' = "native" /\ down' = down
        \/ tip' = "emulated" /\ down' = down \cup {<< "pen", "left" >>}
    BY <1>4 DEF TipDown, NotifyPressed
  <2>2. tip = "up" /\ penButton' = penButton
    BY <1>4 DEF TipDown
  <2>3. TypeOK'
    BY <1>1, <2>1, <2>2 DEF TypeOK, Device, Button
  <2>4. PressesEnd'
    BY <1>1, <2>1, <2>2 DEF PressesEnd
  <2> QED BY <1>2, <1>3, <2>3, <2>4
<1>5. CASE TipUp
  BY <1>1, <1>2, <1>3, <1>5 DEF TipUp, NotifyReleased, TypeOK, PressesEnd
<1>6. CASE TabletButton(accepts)
  <2>1. /\ penButton' \in BOOLEAN /\ tip' = tip
        /\ down' \subseteq down \cup {<< "pen", "right" >>}
    BY <1>6 DEF TabletButton, NotifyPressed, NotifyReleased
  <2>2. TypeOK'
    BY <1>1, <2>1 DEF TypeOK, Device, Button
  <2>3. PressesEnd'
    BY <1>1, <2>1 DEF PressesEnd
  <2> QED BY <1>2, <1>3, <2>2, <2>3
<1> QED BY <1>4, <1>5, <1>6

(* The inductive invariant holds in every reachable state. *)
THEOREM InputInvariance == Spec => []ButtonsInv
<1>1. ButtonsInv /\ UNCHANGED vars => ButtonsInv'
  <2> SUFFICES ASSUME ButtonsInv, UNCHANGED vars PROVE ButtonsInv'
    OBVIOUS
  <2>1. TypeOK'
    BY DEF vars, ButtonsInv, TypeOK
  <2>2. PressesEnd' /\ TouchOwned'
    BY DEF vars, ButtonsInv, PressesEnd, TouchOwned
  <2>3. SwallowedPressHeld'
    BY DEF vars, ButtonsInv, SwallowedPressHeld
  <2> QED BY <2>1, <2>2, <2>3 DEF ButtonsInv
<1>2. ButtonsInv /\ [Next]_vars => ButtonsInv'
  BY <1>1, GrabKeeps, MouseKeeps, TouchKeeps, PenKeeps DEF Next
<1> QED BY <1>2, ButtonsInit, PTL DEF Spec

(* Every variable keeps its kind of value. *)
THEOREM InputTypeCorrect == Spec => []TypeOK
  BY InputInvariance, PTL DEF ButtonsInv

(* No mouse button or pen stays pressed for a client once it is let go. *)
THEOREM PressesAlwaysEnd == Spec => []PressesEnd
  BY InputInvariance, PTL DEF ButtonsInv

(* A drag that will swallow its release is held by a pressed button. *)
THEOREM DragsAreHeld == Spec => []DragIsHeld
<1>1. ButtonsInv => DragIsHeld
  BY DEF ButtonsInv, SwallowedPressHeld, DragIsHeld
<1> QED BY <1>1, InputInvariance, PTL

(* The emulating contact and the clients' touch points are fingers still   *)
(* on the screen.                                                          *)
THEOREM TouchAlwaysOwned == Spec => []TouchOwned
  BY InputInvariance, PTL DEF ButtonsInv

-----------------------------------------------------------------------------
(* Keys (module Keyboards) *)

(* The seat's keys, the property to be proved with the types it rests on.  *)
KInv == KTypeOK /\ NoStuckKeys

(* Nothing is plugged at the start. *)
LEMMA KeysInit == KInit => KInv
  BY KeyboardAssumption DEF KInit, KInv, KTypeOK, NoStuckKeys

(* Entering a surface tells it only of keys that are held on a plugged     *)
(* keyboard, if the focus changes, and else leaves the told keys.          *)
LEMMA EnterKeeps ==
  ASSUME NEW c \in Client \cup {Nothing}, Enter(c),
         seatKeyboard' \in plugged' \cup {Nothing}, Nothing \notin plugged',
         keycodes' \in [Keyboard -> SUBSET Key], plugged' \in SUBSET Keyboard,
         pressed \in SUBSET Key,
         \A x \in pressed : \E k \in plugged' : x \in keycodes'[k]
  PROVE  /\ focus' \in Client \cup {Nothing} /\ pressed' \in SUBSET Key
         /\ \A x \in pressed' : \E k \in plugged' : x \in keycodes'[k]
<1>1. CASE c = focus \/ c = Nothing
  BY <1>1 DEF Enter, EnterWith
<1>2. CASE c # focus /\ c # Nothing
  <2>1. focus' = c /\ pressed' = IF seatKeyboard' = Nothing THEN {} ELSE keycodes'[seatKeyboard']
    BY <1>2 DEF Enter, EnterWith
  <2>2. CASE seatKeyboard' = Nothing
    BY <2>1, <2>2
  <2>3. CASE seatKeyboard' # Nothing
    <3>1. seatKeyboard' \in plugged' /\ pressed' = keycodes'[seatKeyboard']
      BY <2>1, <2>3
    <3> QED BY <2>1, <3>1
  <2> QED BY <2>2, <2>3
<1> QED BY <1>1, <1>2

(* Plugging, unplugging and a moving focus.  A keyboard that goes takes    *)
(* exactly the keys held on it from the client.                            *)
LEMMA PlugKeeps ==
  ASSUME KInv, NEW k \in Keyboard, Plug(k) \/ Unplug(k)
  PROVE  KInv'
<1> USE KeyboardAssumption DEF KInv, KTypeOK, NoStuckKeys
<1>1. CASE Plug(k)
  BY <1>1 DEF Plug
<1>2. CASE Unplug(k)
  <2>1. KTypeOK'
    <3>1. keycodes' \in [Keyboard -> SUBSET Key] /\ \A j \in Keyboard \ plugged' : keycodes'[j] = {}
      BY <1>2 DEF Unplug
    <3>2. seatKeyboard' \in plugged' \cup {Nothing}
      BY <1>2 DEF Unplug
    <3> QED BY <1>2, <3>1, <3>2 DEF Unplug
  <2>2. ASSUME ~quitting', NEW x \in pressed'
        PROVE  \E j \in plugged' : x \in keycodes'[j]
    <3>1. x \in pressed /\ x \notin keycodes[k]
      BY <1>2, <2>2 DEF Unplug
    <3>2. PICK j \in plugged : x \in keycodes[j]
      BY <1>2, <2>2, <3>1 DEF Unplug
    <3>3. j \in plugged' /\ keycodes'[j] = keycodes[j]
      BY <1>2, <3>1, <3>2 DEF Unplug
    <3> QED BY <3>2, <3>3
  <2> QED BY <2>1, <2>2
<1> QED BY <1>1, <1>2

LEMMA FocusKeeps ==
  ASSUME KInv, NEW c \in Client \cup {Nothing}, FocusMoves(c)
  PROVE  KInv'
<1> USE KeyboardAssumption DEF KInv, KTypeOK, NoStuckKeys
<1>1. UNCHANGED << plugged, keycodes, seatKeyboard, quitting >> /\ Enter(c)
  BY DEF FocusMoves
<1>2. CASE quitting
  <2>1. focus' \in Client \cup {Nothing} /\ pressed' \in SUBSET Key
    BY <1>1 DEF Enter, EnterWith
  <2> QED BY <1>1, <1>2, <2>1
<1>3. CASE ~quitting
  BY <1>1, <1>3, EnterKeeps
<1> QED BY <1>2, <1>3

(* A press adds to the keys of its keyboard before the client is told.     *)
LEMMA PressKeeps ==
  ASSUME KInv, NEW k \in Keyboard, NEW x \in Key, KeyPress(k, x)
  PROVE  KInv'
<1> USE KeyboardAssumption DEF KInv, KTypeOK, NoStuckKeys
<1>1. /\ k \in plugged
      /\ keycodes' = [keycodes EXCEPT ![k] = keycodes[k] \cup {x}]
      /\ keycodes' \in [Keyboard -> SUBSET Key]
  BY DEF KeyPress
<1>2. \A j \in Keyboard : keycodes[j] \subseteq keycodes'[j]
  BY <1>1
<1>3. CASE Ignored
  BY <1>1, <1>3 DEF Ignored
<1>4. CASE ~quitting /\ seatKeyboard' = k /\ UNCHANGED plugged /\ Binding
  <2>1. \A y \in pressed : \E j \in plugged' : y \in keycodes'[j]
    BY <1>2, <1>4
  <2>2. CASE \E c \in Client \cup {Nothing} : Enter(c) /\ quitting' = FALSE
    BY <1>1, <1>4, <2>1, <2>2, EnterKeeps
  <2>3. CASE RequestTerminate /\ UNCHANGED << focus, pressed >>
    BY <1>1, <1>4, <2>3 DEF RequestTerminate
  <2> QED BY <1>4, <2>2, <2>3 DEF Binding
<1>5. CASE ~quitting /\ seatKeyboard' = k /\ UNCHANGED plugged /\ Forward(pressed \cup {x})
  <2>1. x \in keycodes'[k]
    BY <1>1
  <2>2. pressed' \subseteq pressed \cup {x} /\ UNCHANGED << focus, quitting >>
    BY <1>5 DEF Forward
  <2> QED BY <1>1, <1>2, <1>5, <2>1, <2>2
<1> QED BY <1>3, <1>4, <1>5 DEF KeyPress

(* A release is forwarded whichever keyboard the seat had: the key that    *)
(* its keyboard loses is no longer the client's.                           *)
LEMMA ReleaseKeeps ==
  ASSUME KInv, NEW k \in Keyboard, NEW x \in Key, KeyRelease(k, x)
  PROVE  KInv'
<1> USE KeyboardAssumption DEF KInv, KTypeOK, NoStuckKeys
<1>1. /\ k \in plugged
      /\ keycodes' = [keycodes EXCEPT ![k] = keycodes[k] \ {x}]
      /\ keycodes' \in [Keyboard -> SUBSET Key]
  BY DEF KeyRelease
<1>2. \A j \in Keyboard : keycodes'[j] \subseteq keycodes[j] /\ keycodes[j] \ {x} \subseteq keycodes'[j]
  BY <1>1
<1>3. CASE Ignored
  BY <1>1, <1>2, <1>3 DEF Ignored
<1>4. CASE ~quitting /\ seatKeyboard' = k /\ UNCHANGED plugged /\ Forward(pressed \ {x})
  <2>1. pressed' \subseteq pressed \ {x} /\ UNCHANGED << focus, quitting >>
    BY <1>4 DEF Forward
  <2>2. \A y \in pressed' : \E j \in plugged' : y \in keycodes'[j]
    BY <1>2, <1>4, <2>1
  <2> QED BY <1>1, <1>2, <1>4, <2>1, <2>2
<1> QED BY <1>3, <1>4 DEF KeyRelease

LEMMA KeysStep == KInv /\ [KNext]_<< kvars, quitting >> => KInv'
<1> SUFFICES ASSUME KInv, [KNext]_<< kvars, quitting >> PROVE KInv'
  OBVIOUS
<1>1. CASE UNCHANGED << kvars, quitting >>
  BY <1>1 DEF KInv, KTypeOK, NoStuckKeys, kvars
<1>2. CASE KNext
  BY <1>2, FocusKeeps, PlugKeeps, PressKeeps, ReleaseKeeps DEF KNext
<1> QED BY <1>1, <1>2

(* Type correctness of the keyboards: only plugged keyboards have keys     *)
(* down, and the seat's keyboard is one of them (server_new_input).        *)
THEOREM KeysTypeCorrect == KSpec => []KTypeOK
<1>1. KInv => KTypeOK
  BY DEF KInv
<1> QED BY <1>1, KeysInit, KeysStep, PTL DEF KSpec

(* No client keeps a key that nobody holds (keyboard_handle_key).          *)
THEOREM KeysNeverStick == KSpec => []NoStuckKeys
<1>1. KInv => NoStuckKeys
  BY DEF KInv
<1> QED BY <1>1, KeysInit, KeysStep, PTL DEF KSpec

-----------------------------------------------------------------------------
(* Input maps *)

(* A set of numbers that is not empty has a least one. *)
LEMMA LeastExists ==
  ASSUME NEW T \in SUBSET Nat, T # {}
  PROVE  \E i \in T : \A j \in T : i <= j
<1> DEFINE R == {ss \in Nat \X Nat : ss[1] < ss[2]}
<1>1. IsWellFoundedOn(R, Nat)
  BY NatLessThanWellFounded DEF OpToRel
<1>2. \E x \in T : \A y \in T : ~ (<< y, x >> \in R)
  <2> HIDE DEF R
  <2> QED BY <1>1, WFMin
<1>3. PICK x \in T : \A y \in T : ~ (<< y, x >> \in R)
  BY <1>2
<1>4. ASSUME NEW y \in T PROVE x <= y
  <2>1. x \in Nat /\ y \in Nat
    OBVIOUS
  <2>2. << y, x >> \in Nat \X Nat /\ ~(<< y, x >> \in R)
    BY <2>1, <1>3
  <2>3. ~(y < x)
    BY <2>1, <2>2
  <2> QED BY <2>1, <2>3
<1> QED BY <1>4

(* The first rule whose output exists gives a live output, or there is no  *)
(* such rule.                                                              *)
LEMMA WantedIsFirst ==
  ASSUME NEW seq \in Seq(Output), NEW live,
         NEW found, found = {i \in DOMAIN seq : seq[i] \in live}
  PROVE  /\ found = {} => Wanted(seq, live) = Nothing
         /\ found # {} => \E i \in found : /\ Wanted(seq, live) = seq[i]
                                           /\ \A j \in found : i <= j
<1>1. CASE found = {}
  BY <1>1 DEF Wanted
<1>2. CASE found # {}
  <2>1. found \in SUBSET Nat
    BY DOMAIN seq = 1 .. Len(seq)
  <2>2. \E i \in found : \A j \in found : i <= j
    BY <1>2, <2>1, LeastExists
  <2> DEFINE first == CHOOSE i \in found : \A j \in found : i <= j
  <2>3. first \in found /\ \A j \in found : first <= j
    BY <2>2
  <2>4. Wanted(seq, live) = seq[first]
    BY <1>2 DEF Wanted
  <2> QED BY <1>2, <2>3, <2>4
<1> QED BY <1>1, <1>2

LEMMA WantedType ==
  ASSUME NEW seq \in Seq(Output), NEW live
  PROVE  Wanted(seq, live) \in Output \cup {Nothing}
<1> DEFINE found == {i \in DOMAIN seq : seq[i] \in live}
<1>1. /\ found = {} => Wanted(seq, live) = Nothing
      /\ found # {} => \E i \in found : Wanted(seq, live) = seq[i]
  BY WantedIsFirst
<1> QED BY <1>1

LEMMA WantedWithNothing ==
  ASSUME NEW seq \in Seq(Output), NEW live
  PROVE  Wanted(seq, live \cup {Nothing}) = Wanted(seq, live)
<1> DEFINE all == {i \in DOMAIN seq : seq[i] \in live \cup {Nothing}}
           found == {i \in DOMAIN seq : seq[i] \in live}
           first(set) == IF set = {} THEN Nothing
                         ELSE seq[CHOOSE i \in set : \A j \in set : i <= j]
<1>1. all = found
  BY MapAssumption
<1>2. Wanted(seq, live \cup {Nothing}) = first(all) /\ Wanted(seq, live) = first(found)
  BY DEF Wanted
<1> HIDE DEF all, found, first
<1> QED BY <1>1, <1>2

MInv == MTypeOK /\ MapsFollowRules

LEMMA MapsInit == MInit => MInv
  BY DEF MInit, MInv, MTypeOK, MapsFollowRules

(* Applying the maps gives every device the output that its rules want     *)
(* among those in the list: all there are, or one more that is going away. *)
LEMMA ApplyFollows ==
  ASSUME MTypeOK', NEW live, ApplyMaps(live),
         outputs' = live \/ \E gone \in live : gone \in Output /\ outputs' = live \ {gone}
  PROVE  MapsFollowRules'
<1>1. \A d \in devices' : rules'[d] \in Seq(Output) /\ mapping'[d] = Wanted(rules'[d], live)
  BY MapAssumption DEF MTypeOK, ApplyMaps
<1>2. CASE outputs' = live
  <2>1. \A seq \in Seq(Output) : Wanted(seq, live \cup {Nothing}) = Wanted(seq, live)
    BY WantedWithNothing
  <2>2. \A d \in devices' : mapping'[d] = Wanted(rules'[d], outputs' \cup {Nothing})
    BY <1>1, <1>2, <2>1
  <2> QED BY <2>2 DEF MapsFollowRules
<1>3. ASSUME NEW gone \in live, gone \in Output, outputs' = live \ {gone}
      PROVE  MapsFollowRules'
  <2>1. live = outputs' \cup {gone} /\ gone \in Output \ outputs'
    BY <1>3
  <2>2. \A d \in devices' : mapping'[d] = Wanted(rules'[d], outputs' \cup {gone})
    BY <1>1, <2>1
  <2> QED BY <2>1, <2>2 DEF MapsFollowRules
<1> QED BY <1>2, <1>3

LEMMA ApplyType ==
  ASSUME rules' \in RuleSet, NEW live, ApplyMaps(live)
  PROVE  mapping' \in [Input -> Output \cup {Nothing}]
<1>1. rules' \in [Input -> Seq(Output)]
  BY MapAssumption
<1>2. \A d \in Input : Wanted(rules'[d], live) \in Output \cup {Nothing}
  BY <1>1, WantedType
<1> QED BY <1>2 DEF ApplyMaps

LEMMA MapsStep == MInv /\ [MNext]_<< mvars, quitting >> => MInv'
<1> SUFFICES ASSUME MInv, [MNext]_<< mvars, quitting >> PROVE MInv'
  OBVIOUS
<1> USE DEF MInv
<1>1. CASE UNCHANGED << mvars, quitting >>
  BY <1>1 DEF MTypeOK, MapsFollowRules, mvars
<1>2. ASSUME NEW o \in Output, NewOutput(o) PROVE MInv'
  <2>1. MTypeOK'
    BY <1>2, ApplyType DEF NewOutput, MTypeOK
  <2> QED BY <1>2, <2>1, ApplyFollows DEF NewOutput
<1>3. ASSUME NEW o \in Output, OutputGone(o) PROVE MInv'
  <2>1. MTypeOK'
    <3>1. quitting' \in BOOLEAN
      BY <1>3 DEF OutputGone, RequestTerminate, MTypeOK
    <3> QED BY <1>3, <3>1, ApplyType DEF OutputGone, MTypeOK
  <2> QED BY <1>3, <2>1, ApplyFollows DEF OutputGone
<1>4. ASSUME NEW d \in Input, DeviceAdded(d) \/ DeviceGone(d) PROVE MInv'
  <2>1. /\ devices' \in SUBSET Input /\ UNCHANGED << outputs, rules, quitting >>
        /\ ApplyMaps(outputs) /\ canTouch' \in BOOLEAN
    BY <1>4 DEF DeviceAdded, DeviceGone, UpdateCapabilities, MTypeOK
  <2>2. MTypeOK'
    BY <2>1, ApplyType DEF MTypeOK
  <2> QED BY <2>1, <2>2, ApplyFollows
<1>5. ASSUME NEW r \in RuleSet, ReloadRules(r) PROVE MInv'
  <2>1. MTypeOK'
    BY <1>5, ApplyType DEF ReloadRules, MTypeOK
  <2> QED BY <1>5, <2>1, ApplyFollows DEF ReloadRules
<1>6. CASE BackendGone
  BY <1>6 DEF BackendGone, RequestTerminate, MTypeOK, MapsFollowRules, mvars
<1> QED BY <1>1, <1>2, <1>3, <1>4, <1>5, <1>6 DEF MNext

(* Type correctness of the outputs, the devices and their maps.            *)
THEOREM MapsTypeCorrect == MSpec => []MTypeOK
<1>1. MInv => MTypeOK
  BY DEF MInv
<1> QED BY <1>1, MapsInit, MapsStep, PTL DEF MSpec

(* All devices are mapped as the rules say for the outputs there are and   *)
(* at most one that is gone, for any outputs, devices and rules            *)
(* (server_apply_input_device_maps, output_destroy).                       *)
THEOREM MapsAlwaysFollow == MSpec => []MapsFollowRules
<1>1. MInv => MapsFollowRules
  BY DEF MInv
<1> QED BY <1>1, MapsInit, MapsStep, PTL DEF MSpec

-----------------------------------------------------------------------------
(* Pointer constraints *)

(* What ActiveIsPointed says of a record and a pointer focus.              *)
Pointed(s, p) ==
  /\ s.watched = s.active
  /\ s.active # Nothing =>
       /\ s.active = p /\ s.kind[s.active] # "none"
       /\ s.confine = IF s.kind[s.active] \in Confines THEN s.active ELSE Nothing

StateType ==
  [kind : [Surface -> Kind], active : Surface \cup {Nothing}, watched : Surface \cup {Nothing},
   warp : BOOLEAN, confine : Surface \cup {Nothing}, freedTwice : BOOLEAN]

LEMMA CheckRegionKeeps ==
  ASSUME NEW s \in StateType, NEW u \in Surface \cup {Nothing}
  PROVE  /\ CheckRegion(s, u) \in StateType
         /\ CheckRegion(s, u).kind = s.kind /\ CheckRegion(s, u).active = s.active
         /\ CheckRegion(s, u).watched = s.watched
         /\ u # Nothing /\ s.active # Nothing =>
              CheckRegion(s, u).confine =
                IF s.kind[s.active] \in Confines THEN s.active ELSE Nothing
         /\ s.active # Nothing /\ s.confine = (IF s.kind[s.active] \in Confines THEN s.active ELSE Nothing)
              => CheckRegion(s, u).confine = s.confine
  BY DEF CheckRegion, StateType

(* The destroy callback leaves no active constraint of that name.          *)
LEMMA DestroyKeeps ==
  ASSUME NEW s \in StateType, NEW c \in Surface
  PROVE  /\ DestroyConstraint(s, c) \in StateType
         /\ DestroyConstraint(s, c).active # c
         /\ \A p : Pointed(s, p) => Pointed(DestroyConstraint(s, c), p)
<1> DEFINE t == DestroyCallback(s, c)
<1>1. t \in StateType /\ t.kind = s.kind /\ t.active # c
  BY SurfaceAssumption DEF DestroyCallback, StateType
<1>2. /\ DestroyConstraint(s, c) \in StateType
      /\ DestroyConstraint(s, c).active = t.active
      /\ DestroyConstraint(s, c).watched = t.watched
      /\ DestroyConstraint(s, c).confine = t.confine
      /\ \A d \in Surface \ {c} : DestroyConstraint(s, c).kind[d] = s.kind[d]
  BY <1>1 DEF DestroyConstraint, StateType, Kind
<1>3. ASSUME NEW p, Pointed(s, p) PROVE Pointed(DestroyConstraint(s, c), p)
  <2>1. CASE s.active = c
    <3>1. t.active = Nothing /\ t.watched = Nothing
      BY <2>1 DEF DestroyCallback, StateType
    <3> QED BY <1>2, <3>1 DEF Pointed
  <2>2. CASE s.active # c
    <3>1. t = s
      BY <2>2 DEF DestroyCallback
    <3>2. s.active # Nothing => DestroyConstraint(s, c).kind[s.active] = s.kind[s.active]
      BY <1>2, <2>2 DEF StateType
    <3> QED BY <1>2, <1>3, <3>1, <3>2 DEF Pointed
  <2> QED BY <2>1, <2>2
<1> QED BY <1>1, <1>2, <1>3

(* Constraining to a surface's constraint, with a surface under the        *)
(* cursor, or to none: the constraint it was before is deactivated, and if *)
(* it is a oneshot one it is gone.                                         *)
LEMMA ConstrainKeeps ==
  ASSUME NEW s \in StateType, NEW q, Pointed(s, q),
         NEW c \in Surface \cup {Nothing}, NEW u \in Surface \cup {Nothing},
         c # Nothing => s.kind[c] # "none" /\ u # Nothing
  PROVE  /\ CursorConstrain(s, c, u) \in StateType
         /\ Pointed(CursorConstrain(s, c, u), c)
         /\ c = Nothing => \A p : Pointed(CursorConstrain(s, c, u), p)
<1>1. CASE s.active = c
  <2>1. CursorConstrain(s, c, u) = s
    BY <1>1 DEF CursorConstrain
  <2> QED BY <1>1, <2>1 DEF Pointed
<1>2. CASE s.active # c
  <2> DEFINE off == SendDeactivated([s EXCEPT !.watched = Nothing], s.active)
             on  == [off EXCEPT !.active = c, !.warp = TRUE]
  <2>1. /\ off \in StateType /\ off.watched = Nothing
        /\ c # Nothing => off.kind[c] = s.kind[c]
    <3> DEFINE t == [s EXCEPT !.watched = Nothing]
    <3>1. t \in StateType /\ t.watched = Nothing /\ t.kind = s.kind
      BY DEF StateType
    <3>2. CASE s.active # Nothing /\ t.kind[s.active] \in Oneshot
      <4>1. s.active \in Surface /\ off = DestroyConstraint(t, s.active)
        BY <3>2 DEF SendDeactivated, StateType
      <4>2. off \in StateType
        BY <3>1, <4>1, DestroyKeeps
      <4> DEFINE d == DestroyCallback(t, s.active)
      <4>3. d.watched = Nothing /\ d.kind = s.kind /\ d \in StateType
        BY <3>1, <4>1 DEF DestroyCallback, StateType
      <4>4. off = [d EXCEPT !.kind = [d.kind EXCEPT ![s.active] = "none"]]
        BY <4>1 DEF DestroyConstraint
      <4>5. off.watched = d.watched /\ off.kind = [d.kind EXCEPT ![s.active] = "none"]
        <5> HIDE DEF d, off
        <5> QED BY <4>3, <4>4 DEF StateType
      <4>6. c # Nothing => off.kind[c] = s.kind[c]
        <5> HIDE DEF d, off
        <5> QED BY <1>2, <4>3, <4>5 DEF StateType
      <4> QED BY <4>2, <4>3, <4>5, <4>6
    <3>3. CASE ~(s.active # Nothing /\ t.kind[s.active] \in Oneshot)
      BY <3>1, <3>3 DEF SendDeactivated
    <3> QED BY <3>2, <3>3
  <2>2. CASE c = Nothing
    <3> DEFINE new == [off EXCEPT !.active = Nothing]
    <3>1. CursorConstrain(s, c, u) = new
      BY <1>2, <2>2 DEF CursorConstrain
    <3>2. new \in StateType /\ new.active = Nothing /\ new.watched = Nothing
      <4> HIDE DEF off
      <4> QED BY <2>1 DEF StateType
    <3> QED BY <2>2, <3>1, <3>2 DEF Pointed
  <2>3. CASE c # Nothing
    <3> DEFINE chk == CheckRegion(on, u)
               new == [chk EXCEPT !.watched = c]
    <3>1. CursorConstrain(s, c, u) = new
      BY <1>2, <2>3 DEF CursorConstrain
    <3>2. on \in StateType /\ on.active = c /\ on.kind = off.kind
      <4> HIDE DEF off
      <4> QED BY <2>1, <2>3 DEF StateType
    <3>3. /\ chk \in StateType /\ chk.kind = on.kind /\ chk.active = c
          /\ chk.confine = IF on.kind[c] \in Confines THEN c ELSE Nothing
      <4> HIDE DEF on
      <4> QED BY <2>3, <3>2, CheckRegionKeeps
    <3>4. /\ new \in StateType /\ new.watched = c /\ new.active = c
          /\ new.kind = chk.kind /\ new.confine = chk.confine
      <4> HIDE DEF chk
      <4> QED BY <2>3, <3>3 DEF StateType
    <3>5. new.kind[c] = s.kind[c]
      BY <2>1, <2>3, <3>2, <3>3, <3>4
    <3>6. Pointed(new, c)
      <4> HIDE DEF new, chk, on
      <4> QED BY <2>3, <3>2, <3>3, <3>4, <3>5 DEF Pointed
    <3> QED BY <2>3, <3>1, <3>4, <3>6
  <2> QED BY <2>2, <2>3
<1> QED BY <1>1, <1>2

(* A change of the pointer focus constrains to what the new surface has.   *)
LEMMA FocusChangeKeeps ==
  ASSUME NEW s \in StateType, NEW p \in Surface \cup {Nothing},
         NEW u \in Surface \cup {Nothing}, quitting \/ Pointed(s, pointed),
         p \notin {pointed, Nothing} => u # Nothing
  PROVE  /\ FocusChange(s, p, u) \in StateType
         /\ quitting \/ Pointed(FocusChange(s, p, u), p)
<1>1. CASE p = pointed \/ quitting
  BY <1>1 DEF FocusChange
<1>2. CASE ~(p = pointed \/ quitting)
  <2> DEFINE c == ConstraintFor(s, p)
  <2>1. FocusChange(s, p, u) = CursorConstrain(s, c, u)
    BY <1>2 DEF FocusChange
  <2>2. /\ c \in {p, Nothing} /\ c \in Surface \cup {Nothing}
        /\ c # Nothing => s.kind[c] # "none" /\ u # Nothing
    BY <1>2 DEF ConstraintFor
  <2>3. /\ CursorConstrain(s, c, u) \in StateType
        /\ Pointed(CursorConstrain(s, c, u), c)
        /\ c = Nothing => \A r : Pointed(CursorConstrain(s, c, u), r)
    <3> HIDE DEF c
    <3> QED BY <1>2, <2>2, ConstrainKeeps
  <2> QED BY <2>1, <2>2, <2>3
<1> QED BY <1>1, <1>2

PInv == PTypeOK /\ ActiveIsPointed

(* The invariant as a fact about the state record.                         *)
LEMMA Records ==
  /\ PTypeOK => State \in StateType
  /\ ActiveIsPointed <=> quitting \/ Pointed(State, pointed)
  BY DEF PTypeOK, State, StateType, ActiveIsPointed, Pointed

LEMMA BecomesKeeps ==
  ASSUME NEW s \in StateType, Becomes(s), quitting \in BOOLEAN, UNCHANGED quitting,
         resizing' \in BOOLEAN, under' \in Surface \cup {Nothing},
         pointed' \in Surface \cup {Nothing}, quitting \/ Pointed(s, pointed')
  PROVE  PInv'
<1>1. PTypeOK'
  BY DEF Becomes, PTypeOK, StateType
<1>2. ActiveIsPointed'
  BY DEF Becomes, ActiveIsPointed, Pointed
<1> QED BY <1>1, <1>2 DEF PInv

LEMMA ConstraintsInit == PInit => PInv
  BY DEF PInit, PInv, PTypeOK, ActiveIsPointed, Kind

(* The cursor moves: the focus goes to the surface under it, stays or is   *)
(* cleared.                                                                *)
LEMMA CursorKeeps ==
  ASSUME PInv, NEW u \in Surface \cup {Nothing}, Motion(u) \/ Warp(u)
  PROVE  PInv'
<1>1. /\ ~quitting /\ UNCHANGED << resizing, quitting >> /\ Refocus
      /\ under' \in Surface \cup {Nothing}
  BY DEF Motion, Warp, Moves, PInv, PTypeOK
<1>2. PICK p \in Surface \cup {Nothing} :
        Point(p) /\ (p \notin {pointed, Nothing} => under' # Nothing)
  BY <1>1 DEF Refocus, PInv, PTypeOK
<1>3. /\ State \in StateType /\ (quitting \/ Pointed(State, pointed))
      /\ quitting \in BOOLEAN /\ resizing \in BOOLEAN
  BY Records DEF PInv, PTypeOK
<1>4. /\ FocusChange(State, p, under') \in StateType
      /\ quitting \/ Pointed(FocusChange(State, p, under'), p)
  <2>1. PICK v \in Surface \cup {Nothing} : v = under'
    BY <1>1
  <2>2. PICK s \in StateType : s = State
    BY <1>3
  <2>3. /\ FocusChange(s, p, v) \in StateType
        /\ quitting \/ Pointed(FocusChange(s, p, v), p)
    BY <1>2, <1>3, <2>1, <2>2, FocusChangeKeeps
  <2> QED BY <2>1, <2>2, <2>3
<1> QED BY <1>1, <1>2, <1>3, <1>4, BecomesKeeps DEF Point

LEMMA NewConstraintKeeps ==
  ASSUME PInv, NEW t \in Surface, NEW k \in Kind, NewConstraint(t, k)
  PROVE  PInv'
<1> DEFINE made == [State EXCEPT !.kind[t] = k]
<1>1. /\ kind[t] = "none" /\ k # "none" /\ UNCHANGED << under, pointed, resizing, quitting >>
      /\ Becomes(IF ~quitting /\ pointed = t /\ under # Nothing
                 THEN CursorConstrain(made, t, under) ELSE made)
  BY DEF NewConstraint
<1>2. /\ State \in StateType /\ (quitting \/ Pointed(State, pointed))
      /\ quitting \in BOOLEAN /\ resizing \in BOOLEAN
      /\ under \in Surface \cup {Nothing} /\ pointed \in Surface \cup {Nothing}
  BY Records DEF PInv, PTypeOK
<1>3. /\ made \in StateType /\ made.kind = [kind EXCEPT ![t] = k]
      /\ made.active = active /\ made.watched = watched /\ made.confine = confine
  <2>1. /\ made \in StateType /\ made.kind = [State.kind EXCEPT ![t] = k]
        /\ made.active = State.active /\ made.watched = State.watched
        /\ made.confine = State.confine
    BY <1>2 DEF StateType
  <2>2. /\ State.kind = kind /\ State.active = active /\ State.watched = watched
        /\ State.confine = confine
    BY DEF State
  <2> QED BY <2>1, <2>2
<1>4. quitting \/ Pointed(made, pointed)
  <2> HIDE DEF made
  <2>1. ~quitting => active # t
    BY <1>1, <1>2, SurfaceAssumption DEF Pointed, State
  <2>2. ~quitting /\ active # Nothing => made.kind[active] = kind[active]
    BY <1>2, <1>3, <2>1 DEF StateType, State
  <2> QED BY <1>2, <1>3, <2>2 DEF Pointed, State
<1>5. CASE ~quitting /\ pointed = t /\ under # Nothing
  <2>1. made.kind[t] = k
    BY <1>2, <1>3 DEF StateType, State
  <2>2. /\ CursorConstrain(made, t, under) \in StateType
        /\ Pointed(CursorConstrain(made, t, under), t)
    <3> HIDE DEF made
    <3> QED BY <1>1, <1>2, <1>3, <1>4, <1>5, <2>1, ConstrainKeeps
  <2> QED BY <1>1, <1>2, <1>5, <2>2, BecomesKeeps
<1>6. CASE ~(~quitting /\ pointed = t /\ under # Nothing)
  BY <1>1, <1>2, <1>3, <1>4, <1>6, BecomesKeeps
<1> QED BY <1>5, <1>6

(* A constraint or its surface goes away. *)
LEMMA GoneKeeps ==
  ASSUME PInv, NEW t \in Surface, ConstraintGone(t) \/ SurfaceGone(t)
  PROVE  PInv'
<1> DEFINE left == DestroyConstraint(State, t)
<1>1. /\ State \in StateType /\ (quitting \/ Pointed(State, pointed))
      /\ quitting \in BOOLEAN /\ resizing \in BOOLEAN
      /\ under \in Surface \cup {Nothing} /\ pointed \in Surface \cup {Nothing}
  BY Records DEF PInv, PTypeOK
<1>2. left \in StateType /\ (quitting \/ Pointed(left, pointed))
  <2>1. PICK s \in StateType : s = State
    BY <1>1
  <2>2. /\ DestroyConstraint(s, t) \in StateType
        /\ \A p : Pointed(s, p) => Pointed(DestroyConstraint(s, t), p)
    BY DestroyKeeps
  <2> QED BY <1>1, <2>1, <2>2
<1>3. CASE ConstraintGone(t)
  BY <1>1, <1>2, <1>3, BecomesKeeps DEF ConstraintGone
<1>4. CASE SurfaceGone(t)
  <2>1. /\ under' \in Surface \cup {Nothing} /\ pointed' \in {pointed, Nothing}
        /\ Becomes(FocusChange(left, pointed', under')) /\ UNCHANGED << resizing, quitting >>
    BY <1>1, <1>4 DEF SurfaceGone
  <2>2. /\ FocusChange(left, pointed', under') \in StateType
        /\ quitting \/ Pointed(FocusChange(left, pointed', under'), pointed')
    <3> HIDE DEF left
    <3> QED BY <1>1, <1>2, <2>1, FocusChangeKeeps
  <2> QED BY <1>1, <2>1, <2>2, BecomesKeeps
<1> QED BY <1>3, <1>4

LEMMA CommitKeeps ==
  ASSUME PInv, NEW t \in Surface, NEW b \in BOOLEAN, SurfaceCommit(t, b)
  PROVE  PInv'
<1> DEFINE set == [State EXCEPT !.warp = State.warp \/ b]
<1>1. /\ State \in StateType /\ (quitting \/ Pointed(State, pointed))
      /\ quitting \in BOOLEAN /\ resizing \in BOOLEAN
      /\ under \in Surface \cup {Nothing} /\ pointed \in Surface \cup {Nothing}
  BY Records DEF PInv, PTypeOK
<1>2. set \in StateType /\ (quitting \/ Pointed(set, pointed))
  <2>1. /\ set \in StateType /\ set.kind = State.kind /\ set.active = State.active
        /\ set.watched = State.watched /\ set.confine = State.confine
    <3>1. PICK w \in BOOLEAN : w = (State.warp \/ b)
      BY ZenonT(30)
    <3> DEFINE new == [State EXCEPT !.warp = w]
    <3>2. /\ new \in StateType /\ new.kind = State.kind /\ new.active = State.active
          /\ new.watched = State.watched /\ new.confine = State.confine
      BY <1>1 DEF StateType
    <3>3. set = new
      BY <3>1, Zenon
    <3> QED BY <3>2, <3>3
  <2> HIDE DEF set
  <2> QED BY <1>1, <2>1 DEF Pointed
<1>3. CheckRegion(set, under) \in StateType /\ (quitting \/ Pointed(CheckRegion(set, under), pointed))
  <2> HIDE DEF set
  <2>1. /\ CheckRegion(set, under) \in StateType
        /\ CheckRegion(set, under).kind = set.kind /\ CheckRegion(set, under).active = set.active
        /\ CheckRegion(set, under).watched = set.watched
        /\ set.active # Nothing
             /\ set.confine = (IF set.kind[set.active] \in Confines THEN set.active ELSE Nothing)
             => CheckRegion(set, under).confine = set.confine
    BY <1>1, <1>2, CheckRegionKeeps
  <2> QED BY <1>2, <2>1 DEF Pointed
<1>4. /\ Becomes(IF watched = t THEN CheckRegion(set, under) ELSE set)
      /\ UNCHANGED << under, pointed, resizing, quitting >>
  BY DEF SurfaceCommit
<1>5. CASE watched = t
  <2> HIDE DEF set
  <2> QED BY <1>1, <1>3, <1>4, <1>5, BecomesKeeps
<1>6. CASE watched # t
  <2> HIDE DEF set
  <2> QED BY <1>1, <1>2, <1>4, <1>6, BecomesKeeps
<1> QED BY <1>5, <1>6

LEMMA ConstraintsStep ==
  PInv /\ [~freedTwice /\ PNext]_<< pvars, quitting >> => PInv'
<1> SUFFICES ASSUME PInv, [~freedTwice /\ PNext]_<< pvars, quitting >> PROVE PInv'
  OBVIOUS
<1>1. CASE UNCHANGED << pvars, quitting >>
  BY <1>1 DEF PInv, PTypeOK, ActiveIsPointed, pvars
<1>2. ASSUME NEW u \in Surface \cup {Nothing}, SceneChanges(u) PROVE PInv'
  BY <1>2 DEF SceneChanges, PInv, PTypeOK, ActiveIsPointed
<1>3. CASE ResizeGrab
  BY <1>3 DEF ResizeGrab, PInv, PTypeOK, ActiveIsPointed
<1> QED BY <1>1, <1>2, <1>3, CursorKeeps, NewConstraintKeeps, GoneKeeps, CommitKeeps DEF PNext

(* Type correctness of the constraints. *)
THEOREM ConstraintsTypeCorrect == PSpec => []PTypeOK
<1>1. PInv => PTypeOK
  BY DEF PInv
<1> QED BY <1>1, ConstraintsInit, ConstraintsStep, PTL DEF PSpec

(* The active constraint exists, is the pointer-focused surface's, and its *)
(* listener and region are its own (cursor_constrain and its callers), for *)
(* any surfaces.                                                           *)
THEOREM ActiveAlwaysPointed == PSpec => []ActiveIsPointed
<1>1. PInv => ActiveIsPointed
  BY DEF PInv
<1> QED BY <1>1, ConstraintsInit, ConstraintsStep, PTL DEF PSpec
=============================================================================
