--------------------------- MODULE DesktopProofs ---------------------------
(***************************************************************************)
(* Proofs about modules Toplevels and Desktop for every number of windows, *)
(* layer surfaces and workspaces.                                          *)
(*                                                                         *)
(* First the window core.  A callback is a composition of functions on the *)
(* state record, so the argument is one lemma per function: each keeps a   *)
(* record Sound, and the ones that end in ApplyVisibility also make it     *)
(* Exact.  The inductive invariant is that the current state is Sound and  *)
(* Exact.                                                                  *)
(*                                                                         *)
(* Then the composition.  A step of Desktop is a step of Toplevels or      *)
(* leaves its variables alone, so what was shown of the core carries over. *)
(* The inductive invariant adds that both lists hold each window once,     *)
(* that they hold the same windows, and that in the stack layout the       *)
(* focused window is above every window of its workspace, the minimized    *)
(* ones included: one of those may be activated while it already has the   *)
(* focus, and nothing raises it then.                                      *)
(***************************************************************************)
EXTENDS Desktop, SequenceTheorems, WellFoundedInduction, TLAPS

ServerState ==
  [toplevels : Seq(Window), configured : SUBSET Window, mapped : SUBSET Window,
   minimized : SUBSET Window, workspace : [Window -> Workspace], current : Workspace,
   focused : Window \cup {Nobody}, keyboard : Window \cup Layer \cup {Nobody},
   activated : SUBSET Window, advertised : SUBSET Window, shown : SUBSET Window,
   grab : Grab, grabbed : Window \cup {Nobody}, layers : SUBSET Layer]

(* What holds between any two functions of a callback, focus apart. *)
Kept(s) ==
  /\ s \in ServerState
  /\ s.mapped \subseteq s.configured
  /\ s.configured \subseteq Listed(s)
  /\ s.activated \subseteq Listed(s)
  /\ s.advertised \subseteq Listed(s)
  /\ s.keyboard \in Window => s.keyboard = s.focused
  /\ s.grab = "none" <=> s.grabbed = Nobody
  /\ s.grabbed # Nobody => s.grabbed \in Listed(s)

FocusSound(s) ==
  s.focused # Nobody =>
    /\ s.focused \in s.mapped
    /\ s.workspace[s.focused] = s.current
    /\ s.focused \in s.activated
    /\ s.focused \in s.advertised

Sound(s) == Kept(s) /\ FocusSound(s)

Exact(s) == s.shown = OnWorkspace(s, s.current) \ s.minimized

IInv == Sound(Server) /\ Exact(Server)

(* The two records agree on everything the focus functions do not write. *)
SameWindows(r, s) ==
  /\ r.toplevels = s.toplevels /\ r.configured = s.configured
  /\ r.mapped = s.mapped       /\ r.minimized = s.minimized
  /\ r.workspace = s.workspace /\ r.current = s.current
  /\ r.grab = s.grab           /\ r.grabbed = s.grabbed
  /\ r.layers = s.layers       /\ r.shown = s.shown

-----------------------------------------------------------------------------
(* The state as a record *)

LEMMA ServerTyped == TypeOK <=> Server \in ServerState
BY DEF TypeOK, Server, ServerState

LEMMA BecomesServer ==
  ASSUME NEW s \in ServerState, Becomes(s)
  PROVE  Server' = s
BY DEF Becomes, Server, ServerState

LEMMA ListedTyped ==
  ASSUME NEW s \in ServerState
  PROVE  Listed(s) \in SUBSET Window
BY DEF Listed, ToSet, ServerState

LEMMA SameListed ==
  ASSUME NEW r, NEW s, r.toplevels = s.toplevels
  PROVE  Listed(r) = Listed(s)
BY DEF Listed

-----------------------------------------------------------------------------
(* The shared functions keep a record sound *)

LEMMA RefreshTyped ==
  ASSUME NEW s \in ServerState, NEW w \in Window
  PROVE  /\ ForeignRefresh(s, w) \in ServerState
         /\ SameWindows(ForeignRefresh(s, w), s)
         /\ ForeignRefresh(s, w).focused = s.focused
         /\ ForeignRefresh(s, w).keyboard = s.keyboard
         /\ ForeignRefresh(s, w).activated = s.activated
         /\ ForeignRefresh(s, w).advertised =
              IF s.focused = w /\ w \in s.mapped /\ s.workspace[w] = s.current
              THEN s.advertised \cup {w} ELSE s.advertised \ {w}
BY DEF ForeignRefresh, ServerState, SameWindows

LEMMA RefreshKept ==
  ASSUME NEW s, Kept(s), NEW w \in Window
  PROVE  Kept(ForeignRefresh(s, w))
<1> DEFINE r == ForeignRefresh(s, w)
<1>1. s \in ServerState
  BY DEF Kept
<1>2. /\ r \in ServerState /\ SameWindows(r, s)
      /\ r.focused = s.focused /\ r.keyboard = s.keyboard /\ r.activated = s.activated
      /\ r.advertised = IF s.focused = w /\ w \in s.mapped /\ s.workspace[w] = s.current
                        THEN s.advertised \cup {w} ELSE s.advertised \ {w}
  BY <1>1, RefreshTyped
<1>3. Listed(r) = Listed(s)
  BY <1>2, SameListed DEF SameWindows
<1> HIDE DEF r
<1>4. QED
  BY <1>2, <1>3 DEF Kept, SameWindows, r

LEMMA RefreshSound ==
  ASSUME NEW s, Sound(s), NEW w \in Window
  PROVE  Sound(ForeignRefresh(s, w))
<1> DEFINE r == ForeignRefresh(s, w)
<1>1. s \in ServerState
  BY DEF Sound, Kept
<1>2. /\ SameWindows(r, s) /\ r.focused = s.focused /\ r.activated = s.activated
      /\ r.advertised = IF s.focused = w /\ w \in s.mapped /\ s.workspace[w] = s.current
                        THEN s.advertised \cup {w} ELSE s.advertised \ {w}
  BY <1>1, RefreshTyped
<1>3. Kept(r)
  BY RefreshKept DEF Sound
<1> HIDE DEF r
<1>4. FocusSound(r)
  BY <1>2 DEF Sound, FocusSound, SameWindows
<1>5. QED
  BY <1>3, <1>4 DEF Sound, r

LEMMA SyncAllSound ==
  ASSUME NEW s, Sound(s)
  PROVE  Sound(ForeignSyncAll(s)) /\ SameWindows(ForeignSyncAll(s), s)
<1> DEFINE r == ForeignSyncAll(s)
           told == {w \in Listed(s) : s.focused = w /\ w \in s.mapped
                                                    /\ s.workspace[w] = s.current}
<1>1. s \in ServerState /\ told \in SUBSET Window
  BY ListedTyped DEF Sound, Kept
<1>2. /\ r \in ServerState /\ SameWindows(r, s) /\ r.focused = s.focused
      /\ r.keyboard = s.keyboard /\ r.activated = s.activated /\ r.advertised = told
  BY <1>1 DEF ForeignSyncAll, ServerState, SameWindows
<1>3. Listed(r) = Listed(s)
  BY <1>2, SameListed DEF SameWindows
<1> HIDE DEF r
<1>4. Kept(r)
  BY <1>2, <1>3 DEF Sound, Kept, SameWindows
<1>5. FocusSound(r)
  BY <1>2 DEF Sound, Kept, FocusSound, SameWindows
<1>6. QED
  BY <1>2, <1>4, <1>5 DEF Sound, r

(* The bars are told, and nobody else. *)
LEMMA SyncAllFocus ==
  ASSUME NEW s, Sound(s)
  PROVE  /\ ForeignSyncAll(s).focused = s.focused
         /\ ForeignSyncAll(s).keyboard = s.keyboard
BY DEF ForeignSyncAll, Sound, Kept, ServerState

LEMMA VisibilitySound ==
  ASSUME NEW s, Sound(s)
  PROVE  Sound(ApplyVisibility(s)) /\ Exact(ApplyVisibility(s))
<1> DEFINE r == ApplyVisibility(s)
           vis == OnWorkspace(s, s.current) \ s.minimized
<1>1. s \in ServerState /\ vis \in SUBSET Window
  BY ListedTyped DEF Sound, Kept, OnWorkspace
<1>2. r \in ServerState /\ r = [s EXCEPT !.shown = vis]
  BY <1>1 DEF ApplyVisibility, ServerState
<1>3. /\ r.toplevels = s.toplevels /\ r.configured = s.configured /\ r.mapped = s.mapped
      /\ r.minimized = s.minimized /\ r.workspace = s.workspace /\ r.current = s.current
      /\ r.grab = s.grab /\ r.grabbed = s.grabbed /\ r.focused = s.focused
      /\ r.keyboard = s.keyboard /\ r.activated = s.activated
      /\ r.advertised = s.advertised /\ r.shown = vis
  BY <1>1, <1>2 DEF ServerState
<1>4. Listed(r) = Listed(s)
  BY <1>3, SameListed
<1> HIDE DEF r
<1>5. Sound(r)
  BY <1>2, <1>3, <1>4 DEF Sound, Kept, FocusSound
<1>6. Exact(r)
  BY <1>3, <1>4 DEF Exact, OnWorkspace
<1>7. QED
  BY <1>5, <1>6 DEF r

LEMMA ExactFrame ==
  ASSUME NEW r, NEW s, SameWindows(r, s), Exact(s)
  PROVE  Exact(r)
BY SameListed DEF SameWindows, Exact, OnWorkspace

LEMMA ClearSound ==
  ASSUME NEW s, Kept(s)
  PROVE  Sound(ClearFocus(s)) /\ SameWindows(ClearFocus(s), s)
<1> DEFINE r == ClearFocus(s)
<1>1. s \in ServerState
  BY DEF Kept
<1>2. /\ r \in ServerState /\ SameWindows(r, s) /\ r.focused = Nobody
      /\ r.keyboard = Nobody /\ r.activated = s.activated /\ r.advertised = s.advertised
  BY <1>1 DEF ClearFocus, ServerState, SameWindows
<1>3. Listed(r) = Listed(s)
  BY <1>2, SameListed DEF SameWindows
<1> HIDE DEF r
<1>4. Kept(r) /\ FocusSound(r)
  BY <1>2, <1>3, NobodyAssumption DEF Kept, FocusSound, SameWindows
<1>5. QED
  BY <1>2, <1>4 DEF Sound, r

LEMMA DeactivateKept ==
  ASSUME NEW s, Kept(s), NEW S \in SUBSET Window
  PROVE  Kept([s EXCEPT !.activated = @ \ S]) /\ SameWindows([s EXCEPT !.activated = @ \ S], s)
         /\ [s EXCEPT !.activated = @ \ S].focused = s.focused
<1> DEFINE r == [s EXCEPT !.activated = @ \ S]
<1>1. s \in ServerState
  BY DEF Kept
<1>2. /\ r \in ServerState /\ SameWindows(r, s) /\ r.focused = s.focused
      /\ r.keyboard = s.keyboard /\ r.activated = s.activated \ S
      /\ r.advertised = s.advertised
  BY <1>1 DEF ServerState, SameWindows
<1>3. Listed(r) = Listed(s)
  BY <1>2, SameListed DEF SameWindows
<1> HIDE DEF r
<1>4. Kept(r)
  BY <1>2, <1>3 DEF Kept, SameWindows
<1>5. QED
  BY <1>2, <1>4 DEF r

LEMMA LeaveKept ==
  ASSUME NEW s, Kept(s)
  PROVE  Kept(LeaveFocus(s)) /\ SameWindows(LeaveFocus(s), s)
         /\ LeaveFocus(s).focused = s.focused
<1>1. s \in ServerState
  BY DEF Kept
<1>2. CASE s.focused = Nobody
  BY <1>2 DEF LeaveFocus, SameWindows
<1>3. CASE s.focused # Nobody
  <2> DEFINE off == [s EXCEPT !.activated = @ \ {s.focused}]
  <2>1. s.focused \in Window
    BY <1>1, <1>3 DEF ServerState
  <2>2. Kept(off) /\ SameWindows(off, s) /\ off.focused = s.focused
    BY <2>1, DeactivateKept
  <2> HIDE DEF off
  <2>3. off \in ServerState
    BY <2>2 DEF Kept
  <2>4. /\ Kept(ForeignRefresh(off, s.focused))
        /\ SameWindows(ForeignRefresh(off, s.focused), off)
        /\ ForeignRefresh(off, s.focused).focused = off.focused
    BY <2>1, <2>2, <2>3, RefreshKept, RefreshTyped
  <2>5. LeaveFocus(s) = ForeignRefresh(off, s.focused)
    BY <1>3 DEF LeaveFocus, off
  <2>6. QED
    BY <2>2, <2>4, <2>5 DEF SameWindows
<1>4. QED
  BY <1>2, <1>3

(* A window that may take the focus gets it, whatever had it before. *)
LEMMA FocusTakes ==
  ASSUME NEW s, Kept(s), NEW w \in Window, Focusable(s, w)
  PROVE  /\ Sound(FocusToplevel(s, w))
         /\ SameWindows(FocusToplevel(s, w), s)
         /\ FocusToplevel(s, w).focused = w
         /\ FocusToplevel(s, w).keyboard = w
<1> DEFINE left == LeaveFocus(s)
           on   == [left EXCEPT !.activated = @ \cup {w}, !.focused = w]
           gain == ForeignRefresh(on, w)
           r    == [gain EXCEPT !.keyboard = w]
<1>1. Kept(left) /\ SameWindows(left, s)
  BY LeaveKept
<1> HIDE DEF left
<1>2. left \in ServerState
  BY <1>1 DEF Kept
<1>3. /\ on \in ServerState /\ SameWindows(on, s) /\ on.focused = w
      /\ on.activated = left.activated \cup {w} /\ on.advertised = left.advertised
  BY <1>1, <1>2 DEF ServerState, SameWindows
<1> HIDE DEF on
<1>4. w \in on.mapped /\ on.workspace[w] = on.current
  BY <1>3 DEF Focusable, SameWindows
<1>5. /\ gain \in ServerState /\ SameWindows(gain, on) /\ gain.focused = w
      /\ gain.activated = on.activated /\ gain.advertised = on.advertised \cup {w}
  BY <1>3, <1>4, RefreshTyped
<1> HIDE DEF gain
<1>6. /\ r \in ServerState /\ SameWindows(r, s) /\ r.focused = w /\ r.keyboard = w
      /\ r.activated = left.activated \cup {w}
      /\ r.advertised = left.advertised \cup {w}
  BY <1>3, <1>5 DEF ServerState, SameWindows
<1>7. r = FocusToplevel(s, w)
  BY DEF FocusToplevel, TakeFocus, r, gain, on, left
<1> HIDE DEF r
<1>8. Listed(r) = Listed(s) /\ Listed(left) = Listed(s)
  BY <1>1, <1>6, SameListed DEF SameWindows
<1>9. w \in s.mapped /\ s.mapped \subseteq Listed(s)
  BY DEF Focusable, Kept
<1>10. Kept(r)
  BY <1>1, <1>6, <1>8, <1>9 DEF Kept, SameWindows
<1>11. FocusSound(r)
  BY <1>6 DEF FocusSound, Focusable, SameWindows
<1>12. QED
  BY <1>6, <1>7, <1>10, <1>11 DEF Sound

LEMMA FocusSoundly ==
  ASSUME NEW s, Sound(s), NEW w \in Window
  PROVE  Sound(FocusToplevel(s, w)) /\ SameWindows(FocusToplevel(s, w), s)
<1>1. CASE Focusable(s, w)
  BY <1>1, FocusTakes DEF Sound
<1>2. CASE ~ Focusable(s, w)
  BY <1>2 DEF FocusToplevel, SameWindows
<1>3. QED
  BY <1>1, <1>2

LEMMA FirstListedIsCandidate ==
  ASSUME NEW s, NEW S
  PROVE  FirstListed(s, S) \in S \cup {Nobody}
BY DEF FirstListed

LEMMA MinimizedSound ==
  ASSUME NEW s, Sound(s), Exact(s), NEW w \in Window, NEW min \in BOOLEAN
  PROVE  /\ Sound(SetMinimized(s, w, min))
         /\ Exact(SetMinimized(s, w, min))
<1>1. CASE min <=> w \in s.minimized
  BY <1>1 DEF SetMinimized
<1>2. CASE ~ (min <=> w \in s.minimized)
  <2> DEFINE flip == [s EXCEPT !.minimized = IF min THEN @ \cup {w} ELSE @ \ {w}]
             drop == IF min /\ s.focused = w THEN ClearFocus(flip) ELSE flip
             seen == ApplyVisibility(drop)
  <2>1. s \in ServerState
    BY DEF Sound, Kept
  <2>2. /\ flip \in ServerState
        /\ flip.toplevels = s.toplevels /\ flip.configured = s.configured
        /\ flip.mapped = s.mapped /\ flip.workspace = s.workspace
        /\ flip.current = s.current /\ flip.focused = s.focused
        /\ flip.keyboard = s.keyboard /\ flip.activated = s.activated
        /\ flip.advertised = s.advertised /\ flip.grab = s.grab
        /\ flip.grabbed = s.grabbed
    BY <2>1 DEF ServerState
  <2>3. Listed(flip) = Listed(s)
    BY <2>2, SameListed
  <2> HIDE DEF flip
  <2>4. Sound(flip)
    BY <2>2, <2>3 DEF Sound, Kept, FocusSound
  <2>5. Sound(drop)
    BY <2>4, ClearSound DEF Sound
  <2> HIDE DEF drop
  <2>6. Sound(seen) /\ Exact(seen)
    BY <2>5, VisibilitySound
  <2> HIDE DEF seen
  <2>7. Sound(ForeignRefresh(seen, w)) /\ SameWindows(ForeignRefresh(seen, w), seen)
    <3>1. seen \in ServerState
      BY <2>6 DEF Sound, Kept
    <3>2. QED
      BY <2>6, <3>1, RefreshSound, RefreshTyped
  <2>8. SetMinimized(s, w, min) = ForeignRefresh(seen, w)
    BY <1>2 DEF SetMinimized, seen, drop, flip
  <2>9. QED
    BY <2>6, <2>7, <2>8, ExactFrame
<1>3. QED
  BY <1>1, <1>2

LEMMA ClampTyped ==
  ASSUME NEW i \in Int
  PROVE  Clamp(i) \in Workspace
BY CountAssumption DEF Clamp, Workspace

LEMMA EnterSound ==
  ASSUME NEW s, Sound(s), NEW i \in Workspace
  PROVE  Sound(EnterWorkspace(s, i))
<1> DEFINE goto == [s EXCEPT !.current = i]
<1>1. s \in ServerState
  BY DEF Sound, Kept
<1>2. /\ goto \in ServerState /\ goto.current = i
      /\ goto.toplevels = s.toplevels /\ goto.configured = s.configured
      /\ goto.mapped = s.mapped /\ goto.workspace = s.workspace
      /\ goto.focused = s.focused /\ goto.keyboard = s.keyboard
      /\ goto.activated = s.activated /\ goto.advertised = s.advertised
      /\ goto.grab = s.grab /\ goto.grabbed = s.grabbed
  BY <1>1 DEF ServerState
<1>3. Listed(goto) = Listed(s)
  BY <1>2, SameListed
<1> HIDE DEF goto
<1>4. Kept(goto)
  BY <1>2, <1>3 DEF Sound, Kept
<1>5. CASE s.focused # Nobody /\ s.workspace[s.focused] # i
  BY <1>4, <1>5, ClearSound DEF EnterWorkspace, goto
<1>6. CASE ~ (s.focused # Nobody /\ s.workspace[s.focused] # i)
  <2>1. FocusSound(goto)
    BY <1>2, <1>6 DEF Sound, FocusSound
  <2>2. EnterWorkspace(s, i) = goto
    BY <1>6 DEF EnterWorkspace, goto
  <2>3. QED
    BY <1>4, <2>1, <2>2 DEF Sound
<1>7. QED
  BY <1>5, <1>6

LEMMA PickSound ==
  ASSUME NEW s, Sound(s), NEW pick \in Window \cup {Nobody}
  PROVE  Sound(FocusPick(s, pick))
BY FocusSoundly DEF FocusPick

(* Both workspace operations end with apply_visibility and a full sync. *)
LEMMA FinishSound ==
  ASSUME NEW s, Sound(s)
  PROVE  /\ Sound(ForeignSyncAll(ApplyVisibility(s)))
         /\ Exact(ForeignSyncAll(ApplyVisibility(s)))
<1>1. Sound(ApplyVisibility(s)) /\ Exact(ApplyVisibility(s))
  BY VisibilitySound
<1>2. QED
  BY <1>1, SyncAllSound, ExactFrame

LEMMA GoSound ==
  ASSUME NEW s, Sound(s), Exact(s), NEW idx \in Int
  PROVE  Sound(Go(s, idx)) /\ Exact(Go(s, idx))
<1> DEFINE there == EnterWorkspace(s, Clamp(idx))
           pick  == FirstListed(there, OnWorkspace(there, there.current) \ there.minimized)
           on    == FocusPick(there, pick)
<1>1. Sound(there)
  BY ClampTyped, EnterSound
<1> HIDE DEF there
<1>2. OnWorkspace(there, there.current) \in SUBSET Window
  BY <1>1, ListedTyped DEF OnWorkspace, Sound, Kept
<1>3. pick \in Window \cup {Nobody}
  BY <1>2, FirstListedIsCandidate
<1> HIDE DEF pick
<1>4. Sound(on)
  BY <1>1, <1>3, PickSound
<1> HIDE DEF on
<1>5. Go(s, idx) = IF Clamp(idx) = s.current THEN s
                   ELSE ForeignSyncAll(ApplyVisibility(on))
  BY DEF Go, on, pick, there
<1>6. QED
  BY <1>4, <1>5, FinishSound

(* The window on its way out still has the focus when the pick takes it,   *)
(* so the state in between is Kept but its focus is not sound.             *)
LEMMA MoveSound ==
  ASSUME NEW s, Sound(s), Exact(s), NEW target \in Int
  PROVE  Sound(MoveFocused(s, target)) /\ Exact(MoveFocused(s, target))
<1> DEFINE f    == s.focused
           sent == [s EXCEPT !.workspace[f] = target]
           pick == FirstListed(sent, OnWorkspace(sent, s.current) \ {f})
           left == IF target = s.current THEN sent ELSE Refocus(sent, pick)
           stay == \/ f = Nobody \/ f \notin s.mapped
                   \/ target \notin Workspace \/ s.workspace[f] = target
<1>1. CASE stay
  BY <1>1 DEF MoveFocused
<1>2. CASE ~ stay
  <2>1. s \in ServerState /\ f \in Window /\ target \in Workspace
    BY <1>2 DEF Sound, Kept, ServerState
  <2>2. target # s.current
    BY <1>2 DEF Sound, FocusSound
  <2>3. /\ sent \in ServerState /\ sent.current = s.current
        /\ sent.toplevels = s.toplevels /\ sent.configured = s.configured
        /\ sent.mapped = s.mapped /\ sent.focused = f
        /\ sent.keyboard = s.keyboard /\ sent.activated = s.activated
        /\ sent.advertised = s.advertised
        /\ sent.grab = s.grab /\ sent.grabbed = s.grabbed
    BY <2>1 DEF ServerState
  <2>4. Listed(sent) = Listed(s)
    BY <2>3, SameListed
  <2> HIDE DEF sent
  <2>5. Kept(sent)
    BY <2>3, <2>4 DEF Sound, Kept
  <2>6. pick \in (OnWorkspace(sent, s.current) \ {f}) \cup {Nobody}
    BY FirstListedIsCandidate
  <2> HIDE DEF pick
  <2>7. CASE pick = Nobody
    <3>1. left = ClearFocus(sent)
      BY <2>2, <2>7 DEF Refocus
    <3>2. QED
      BY <2>5, <3>1, <1>2, ClearSound, FinishSound DEF MoveFocused, sent, pick
  <2>8. CASE pick # Nobody
    <3>1. pick \in Window /\ Focusable(sent, pick)
      BY <2>3, <2>6, <2>8, <2>4, ListedTyped, <2>1 DEF OnWorkspace, Focusable
    <3>2. left = FocusToplevel(sent, pick)
      BY <2>2, <2>8 DEF Refocus
    <3>3. Sound(left)
      BY <2>5, <3>1, <3>2, FocusTakes
    <3>4. QED
      BY <3>3, <1>2, FinishSound DEF MoveFocused, sent, pick
  <2>9. QED
    BY <2>7, <2>8
<1>3. QED
  BY <1>1, <1>2

LEMMA DropGrabSound ==
  ASSUME NEW s, Sound(s), Exact(s), NEW w \in Window
  PROVE  Sound(DropGrab(s, w)) /\ Exact(DropGrab(s, w))
<1>1. CASE s.grabbed = w
  <2> DEFINE r == [s EXCEPT !.grabbed = Nobody, !.grab = "none"]
  <2>1. s \in ServerState
    BY DEF Sound, Kept
  <2>2. /\ r \in ServerState /\ r.grabbed = Nobody /\ r.grab = "none"
        /\ r.toplevels = s.toplevels /\ r.configured = s.configured /\ r.mapped = s.mapped
        /\ r.minimized = s.minimized /\ r.workspace = s.workspace /\ r.current = s.current
        /\ r.focused = s.focused /\ r.keyboard = s.keyboard /\ r.activated = s.activated
        /\ r.advertised = s.advertised /\ r.shown = s.shown
    BY <2>1 DEF ServerState, Grab
  <2>3. Listed(r) = Listed(s)
    BY <2>2, SameListed
  <2> HIDE DEF r
  <2>4. Sound(r)
    BY <2>2, <2>3 DEF Sound, Kept, FocusSound
  <2>5. Exact(r)
    BY <2>2, <2>3 DEF Exact, OnWorkspace
  <2>6. QED
    BY <1>1, <2>4, <2>5 DEF DropGrab, r
<1>2. CASE s.grabbed # w
  BY <1>2 DEF DropGrab
<1>3. QED
  BY <1>1, <1>2

LEMMA BeginGrabSound ==
  ASSUME NEW s, Sound(s), Exact(s), NEW w \in Listed(s), NEW mode \in Grab \ {"none"}
  PROVE  Sound(BeginGrab(s, w, mode)) /\ Exact(BeginGrab(s, w, mode))
<1> DEFINE r == BeginGrab(s, w, mode)
<1>1. s \in ServerState /\ w \in Window
  BY ListedTyped DEF Sound, Kept
<1>2. /\ r \in ServerState /\ r.grabbed = w /\ r.grab = mode
      /\ r.toplevels = s.toplevels /\ r.configured = s.configured /\ r.mapped = s.mapped
      /\ r.minimized = s.minimized /\ r.workspace = s.workspace /\ r.current = s.current
      /\ r.focused = s.focused /\ r.keyboard = s.keyboard /\ r.activated = s.activated
      /\ r.advertised = s.advertised /\ r.shown = s.shown
  BY <1>1 DEF BeginGrab, ServerState
<1>3. Listed(r) = Listed(s)
  BY <1>2, SameListed
<1>4. r.grabbed # Nobody /\ r.grab # "none"
  BY <1>1, <1>2, NobodyAssumption
<1> HIDE DEF r
<1>5. Sound(r)
  BY <1>2, <1>3, <1>4 DEF Sound, Kept, FocusSound
<1>6. Exact(r)
  BY <1>2, <1>3 DEF Exact, OnWorkspace
<1>7. QED
  BY <1>5, <1>6 DEF r

(* Linking a window at the end adds it to the list. *)
LEMMA AppendListed ==
  ASSUME NEW seq \in Seq(Window), NEW w \in Window
  PROVE  ToSet(Append(seq, w)) = ToSet(seq) \cup {w}
<1> DEFINE more == Append(seq, w)
           n    == Len(seq)
<1>1. n \in Nat /\ DOMAIN seq = 1 .. n
  BY LenProperties
<1>2. /\ more \in Seq(Window) /\ Len(more) = n + 1
      /\ \A i \in 1 .. n : more[i] = seq[i]
      /\ more[n + 1] = w
  BY AppendProperties
<1> HIDE DEF more
<1>3. DOMAIN more = 1 .. n + 1
  BY <1>2, LenProperties
<1> HIDE DEF n
<1>4. ToSet(seq) = {seq[i] : i \in 1 .. n} /\ ToSet(more) = {more[i] : i \in 1 .. n + 1}
  BY <1>1, <1>3 DEF ToSet
<1>5. 1 .. n + 1 = (1 .. n) \cup {n + 1}
  BY <1>1
<1>6. ToSet(more) = ToSet(seq) \cup {w}
  BY <1>2, <1>4, <1>5
<1>7. QED
  BY <1>6 DEF more

(* Unlinking closes the gap the first occurrence of the window leaves. *)
LEMMA UnlinkElements ==
  ASSUME NEW seq \in Seq(Window), NEW w \in ToSet(seq)
  PROVE  /\ Unlink(seq, w) \in Seq(Window)
         /\ Len(Unlink(seq, w)) = Len(seq) - 1
         /\ \E k \in 1 .. Len(seq) :
              /\ seq[k] = w
              /\ \A i \in 1 .. Len(seq) - 1 :
                    Unlink(seq, w)[i] = IF i < k THEN seq[i] ELSE seq[i + 1]
<1> DEFINE k == CHOOSE i \in DOMAIN seq : seq[i] = w
           a == SubSeq(seq, 1, k - 1)
           b == SubSeq(seq, k + 1, Len(seq))
<1>1. DOMAIN seq = 1 .. Len(seq) /\ Len(seq) \in Nat /\ \A i \in 1 .. Len(seq) : seq[i] \in Window
  BY LenProperties, ElementOfSeq
<1>2. k \in 1 .. Len(seq) /\ seq[k] = w
  BY <1>1 DEF ToSet
<1> HIDE DEF k
<1>3. /\ a \in Seq(Window) /\ Len(a) = k - 1
      /\ \A i \in 1 .. k - 1 : a[i] = seq[i]
  BY <1>1, <1>2, SubSeqProperties
<1>4. /\ b \in Seq(Window) /\ Len(b) = Len(seq) - k
      /\ \A i \in 1 .. Len(seq) - k : b[i] = seq[k + i]
  <2>1. /\ k + 1 \in Int /\ Len(seq) \in Int
        /\ \A i \in k + 1 .. Len(seq) : seq[i] \in Window
    BY <1>1, <1>2
  <2>2. /\ b \in Seq(Window)
        /\ Len(b) = IF k + 1 <= Len(seq) THEN Len(seq) - (k + 1) + 1 ELSE 0
        /\ \A i \in 1 .. Len(seq) - (k + 1) + 1 : b[i] = seq[(k + 1) + i - 1]
    BY <2>1, SubSeqProperties
  <2> HIDE DEF b
  <2>3. Len(b) = Len(seq) - k
    <3> DEFINE n == Len(seq)
    <3>1. n \in Nat /\ k \in 1 .. n
      BY <1>1, <1>2
    <3>2. Len(b) = IF k + 1 <= n THEN n - (k + 1) + 1 ELSE 0
      BY <2>2
    <3> HIDE DEF n
    <3>3. (IF k + 1 <= n THEN n - (k + 1) + 1 ELSE 0) = n - k
      BY <3>1
    <3>4. QED
      BY <3>2, <3>3 DEF n
  <2>4. ASSUME NEW i \in 1 .. Len(seq) - k
        PROVE  b[i] = seq[k + i]
    <3>1. i \in 1 .. Len(seq) - (k + 1) + 1 /\ (k + 1) + i - 1 = k + i
      BY <1>1, <1>2
    <3>2. QED
      BY <2>2, <3>1
  <2>5. QED
    BY <2>2, <2>3, <2>4
<1> HIDE DEF a, b
<1>5. /\ a \o b \in Seq(Window) /\ Len(a \o b) = Len(seq) - 1
      /\ \A i \in 1 .. Len(seq) - 1 : (a \o b)[i] = IF i <= k - 1 THEN a[i] ELSE b[i - (k - 1)]
  <2>1. /\ a \o b \in Seq(Window) /\ Len(a \o b) = Len(a) + Len(b)
        /\ \A i \in 1 .. Len(a) + Len(b) :
             (a \o b)[i] = IF i <= Len(a) THEN a[i] ELSE b[i - Len(a)]
    BY <1>3, <1>4, ConcatProperties
  <2>2. Len(a) + Len(b) = Len(seq) - 1
    BY <1>1, <1>2, <1>3, <1>4
  <2>3. QED
    BY <1>3, <2>1, <2>2
<1>6. Unlink(seq, w) = a \o b
  BY DEF Unlink, RemoveAt, a, b, k
<1>7. ASSUME NEW i \in 1 .. Len(seq) - 1
      PROVE  Unlink(seq, w)[i] = IF i < k THEN seq[i] ELSE seq[i + 1]
  <2>1. CASE i < k
    <3>1. i \in 1 .. k - 1 /\ i <= k - 1
      BY <1>1, <1>2, <2>1
    <3>2. QED
      BY <1>3, <1>5, <1>6, <2>1, <3>1
  <2>2. CASE ~ (i < k)
    <3>1. /\ i - (k - 1) \in 1 .. Len(seq) - k /\ ~ (i <= k - 1)
          /\ k + (i - (k - 1)) = i + 1
      BY <1>1, <1>2, <2>2
    <3>2. (a \o b)[i] = b[i - (k - 1)]
      BY <1>5, <3>1
    <3>3. b[i - (k - 1)] = seq[i + 1]
      BY <1>4, <3>1
    <3>4. QED
      BY <1>6, <2>2, <3>2, <3>3
  <2>3. QED
    BY <2>1, <2>2
<1>8. QED
  BY <1>2, <1>5, <1>6, <1>7

(* Unlinking takes at most the given window out of the list. *)
LEMMA UnlinkListed ==
  ASSUME NEW seq \in Seq(Window), NEW w \in ToSet(seq)
  PROVE  /\ Unlink(seq, w) \in Seq(Window)
         /\ ToSet(seq) \ {w} \subseteq ToSet(Unlink(seq, w))
<1> DEFINE r == Unlink(seq, w)
           n == Len(seq)
<1>1. PICK k \in 1 .. n : /\ seq[k] = w
                          /\ \A i \in 1 .. n - 1 : r[i] = IF i < k THEN seq[i] ELSE seq[i + 1]
  BY UnlinkElements
<1>2. /\ r \in Seq(Window) /\ Len(r) = n - 1 /\ n \in Nat
      /\ DOMAIN r = 1 .. n - 1 /\ DOMAIN seq = 1 .. n
  BY UnlinkElements, LenProperties
<1> HIDE DEF r, n
<1>3. ASSUME NEW v \in ToSet(seq) \ {w}
      PROVE  v \in ToSet(r)
  <2>1. PICK i \in 1 .. n : seq[i] = v /\ i # k
    BY <1>1, <1>2 DEF ToSet
  <2>2. CASE i < k
    <3>1. i \in 1 .. n - 1 /\ r[i] = v
      BY <1>1, <1>2, <2>1, <2>2
    <3>2. QED
      BY <1>2, <3>1 DEF ToSet
  <2>3. CASE i > k
    <3>1. i - 1 \in 1 .. n - 1 /\ r[i - 1] = v
      <4>1. i - 1 \in 1 .. n - 1 /\ ~ (i - 1 < k) /\ (i - 1) + 1 = i
        BY <1>1, <1>2, <2>1, <2>3
      <4>2. QED
        BY <1>1, <2>1, <4>1
    <3>2. QED
      BY <1>2, <3>1 DEF ToSet
  <2>4. QED
    BY <1>1, <1>2, <2>1, <2>2, <2>3
<1>4. QED
  BY <1>2, <1>3 DEF r

-----------------------------------------------------------------------------
(* The callbacks *)

(* A callback that installs a sound and exact record keeps the invariant. *)
LEMMA Installed ==
  ASSUME NEW s, Sound(s), Exact(s), Becomes(s)
  PROVE  IInv'
<1>1. Server' = s
  BY BecomesServer DEF Sound, Kept
<1>2. QED
  BY <1>1 DEF IInv, Sound, Kept, FocusSound, Exact, Listed, OnWorkspace, ServerState

(* A new toplevel joins the end of the list and is in nothing else. *)
LEMMA NewToplevelSound ==
  ASSUME IInv, NEW w \in Window, NewToplevel(w)
  PROVE  IInv'
<1> DEFINE s == Server
           r == [s EXCEPT !.toplevels = Append(@, w), !.workspace[w] = current]
<1>1. Sound(s) /\ Exact(s) /\ s \in ServerState
  BY DEF IInv, Sound, Kept
<1>2. current = s.current /\ w \notin Listed(s)
  BY DEF Server, NewToplevel
<1> HIDE DEF s
<1>3. /\ r \in ServerState /\ r.toplevels = Append(s.toplevels, w)
      /\ r.workspace = [s.workspace EXCEPT ![w] = s.current]
      /\ r.configured = s.configured /\ r.mapped = s.mapped
      /\ r.minimized = s.minimized /\ r.current = s.current
      /\ r.focused = s.focused /\ r.keyboard = s.keyboard /\ r.activated = s.activated
      /\ r.advertised = s.advertised /\ r.shown = s.shown
      /\ r.grab = s.grab /\ r.grabbed = s.grabbed
  <2>1. Append(s.toplevels, w) \in Seq(Window)
    BY <1>1, AppendProperties DEF ServerState
  <2>2. [s.workspace EXCEPT ![w] = s.current] \in [Window -> Workspace]
    BY <1>1 DEF ServerState
  <2>3. r = [s EXCEPT !.toplevels = Append(s.toplevels, w),
                      !.workspace = [s.workspace EXCEPT ![w] = s.current]]
    BY <1>1, <1>2 DEF ServerState
  <2> HIDE DEF r
  <2>4. QED
    BY <1>1, <2>1, <2>2, <2>3 DEF ServerState
<1>4. Listed(r) = Listed(s) \cup {w}
  <2>1. s.toplevels \in Seq(Window)
    BY <1>1 DEF ServerState
  <2>2. QED
    BY <1>3, <2>1, AppendListed DEF Listed
<1> HIDE DEF r
<1>5. Kept(r)
  BY <1>1, <1>3, <1>4 DEF Sound, Kept
<1>6. w \notin s.mapped /\ s.mapped \subseteq Window
  BY <1>1, <1>2 DEF Sound, Kept, ServerState
<1>7. FocusSound(r)
  BY <1>1, <1>3, <1>6 DEF Sound, FocusSound, ServerState
<1>8. Exact(r)
  <2>1. OnWorkspace(r, r.current) = OnWorkspace(s, s.current)
    BY <1>1, <1>3, <1>4, <1>6 DEF OnWorkspace, ServerState
  <2>2. QED
    BY <1>1, <1>3, <2>1 DEF Exact
<1>9. Sound(ForeignRefresh(r, w)) /\ Exact(ForeignRefresh(r, w))
  BY <1>3, <1>5, <1>7, <1>8, RefreshSound, RefreshTyped, ExactFrame DEF Sound
<1>10. Becomes(ForeignRefresh(r, w))
  BY DEF NewToplevel, r, s
<1>11. QED
  BY <1>9, <1>10, Installed

(* The acknowledged configure only marks a listed window. *)
LEMMA ConfigureAckedSound ==
  ASSUME IInv, NEW w \in Window, ConfigureAcked(w)
  PROVE  IInv'
<1> DEFINE s == Server
           r == [s EXCEPT !.configured = @ \cup {w}]
<1>1. Sound(s) /\ Exact(s) /\ s \in ServerState /\ w \in Listed(s)
  BY DEF IInv, Sound, Kept, ConfigureAcked
<1> HIDE DEF s
<1>2. /\ r \in ServerState /\ r.configured = s.configured \cup {w}
      /\ r.toplevels = s.toplevels /\ r.mapped = s.mapped
      /\ r.minimized = s.minimized /\ r.workspace = s.workspace /\ r.current = s.current
      /\ r.focused = s.focused /\ r.keyboard = s.keyboard /\ r.activated = s.activated
      /\ r.advertised = s.advertised /\ r.shown = s.shown
      /\ r.grab = s.grab /\ r.grabbed = s.grabbed
  BY <1>1 DEF ServerState
<1>3. Listed(r) = Listed(s)
  BY <1>2, SameListed
<1> HIDE DEF r
<1>4. Sound(r)
  BY <1>1, <1>2, <1>3 DEF Sound, Kept, FocusSound
<1>5. Exact(r)
  BY <1>1, <1>2, <1>3 DEF Exact, OnWorkspace
<1>6. Becomes(r)
  BY DEF ConfigureAcked, r, s
<1>7. QED
  BY <1>4, <1>5, <1>6, Installed

(* Mapping ends with apply_visibility, so only soundness needs an argument. *)
LEMMA MapSound ==
  ASSUME IInv, NEW w \in Window, Map(w)
  PROVE  IInv'
<1> DEFINE s  == Server
           up == [s EXCEPT !.mapped = @ \cup {w}, !.minimized = @ \ {w}]
           on == FocusToplevel(ForeignRefresh(up, w), w)
<1>1. Sound(s) /\ s \in ServerState /\ w \in s.configured
  BY DEF IInv, Sound, Kept, Map, Server
<1> HIDE DEF s
<1>2. /\ up \in ServerState /\ up.mapped = s.mapped \cup {w}
      /\ up.configured = s.configured /\ up.toplevels = s.toplevels
      /\ up.workspace = s.workspace /\ up.current = s.current
      /\ up.focused = s.focused /\ up.keyboard = s.keyboard /\ up.activated = s.activated
      /\ up.advertised = s.advertised /\ up.grab = s.grab /\ up.grabbed = s.grabbed
  BY <1>1 DEF ServerState
<1>3. Listed(up) = Listed(s)
  BY <1>2, SameListed
<1> HIDE DEF up
<1>4. Sound(up)
  BY <1>1, <1>2, <1>3 DEF Sound, Kept, FocusSound
<1>5. Sound(on)
  BY <1>4, RefreshSound, FocusSoundly
<1>6. Sound(ApplyVisibility(on)) /\ Exact(ApplyVisibility(on))
  BY <1>5, VisibilitySound
<1>7. Becomes(ApplyVisibility(on))
  BY DEF Map, on, up, s
<1>8. QED
  BY <1>6, <1>7, Installed

(* An unmapped window loses the focus, the keyboard and the grab. *)
LEMMA UnmapSound ==
  ASSUME IInv, NEW w \in Window, Unmap(w)
  PROVE  IInv'
<1> DEFINE s    == Server
           down == [s EXCEPT !.mapped = @ \ {w}, !.configured = @ \ {w}, !.shown = @ \ {w}]
           free == IF s.focused = w THEN ClearFocus(down) ELSE down
           drop == DropGrab(free, w)
<1>1. Sound(s) /\ Exact(s) /\ s \in ServerState
  BY DEF IInv, Sound, Kept
<1>2. Becomes(ForeignRefresh(drop, w))
  BY DEF Unmap, drop, free, down, Server
<1> HIDE DEF s
<1>3. /\ down \in ServerState /\ down.mapped = s.mapped \ {w}
      /\ down.configured = s.configured \ {w} /\ down.shown = s.shown \ {w}
      /\ down.toplevels = s.toplevels /\ down.minimized = s.minimized
      /\ down.workspace = s.workspace /\ down.current = s.current
      /\ down.focused = s.focused /\ down.keyboard = s.keyboard
      /\ down.activated = s.activated /\ down.advertised = s.advertised
      /\ down.grab = s.grab /\ down.grabbed = s.grabbed
  BY <1>1 DEF ServerState
<1>4. Listed(down) = Listed(s)
  BY <1>3, SameListed
<1> HIDE DEF down
<1>5. Kept(down)
  BY <1>1, <1>3, <1>4 DEF Sound, Kept
<1>6. Exact(down)
  BY <1>1, <1>3, <1>4 DEF Exact, OnWorkspace
<1>7. Sound(free) /\ Exact(free)
  <2>1. CASE s.focused = w
    BY <1>5, <1>6, <2>1, ClearSound, ExactFrame
  <2>2. CASE s.focused # w
    <3>1. FocusSound(down)
      BY <1>1, <1>3, <2>2 DEF Sound, FocusSound
    <3>2. QED
      BY <1>5, <1>6, <2>2, <3>1 DEF Sound
  <2>3. QED
    BY <2>1, <2>2
<1> HIDE DEF free
<1>8. Sound(drop) /\ Exact(drop)
  BY <1>7, DropGrabSound
<1> HIDE DEF drop
<1>9. Sound(ForeignRefresh(drop, w)) /\ Exact(ForeignRefresh(drop, w))
  <2>1. drop \in ServerState
    BY <1>8 DEF Sound, Kept
  <2>2. SameWindows(ForeignRefresh(drop, w), drop)
    BY <2>1, RefreshTyped
  <2>3. QED
    BY <1>8, <2>2, RefreshSound, ExactFrame
<1>10. QED
  BY <1>2, <1>9, Installed

(* An unmapped window has no focus to lose, but it may still be grabbed. *)
LEMMA DestroySound ==
  ASSUME IInv, NEW w \in Window, Destroy(w)
  PROVE  IInv'
<1> DEFINE s    == Server
           gone == [s EXCEPT
                      !.toplevels = Unlink(@, w),  !.configured = @ \ {w},
                      !.minimized = @ \ {w},       !.workspace[w] = 0,
                      !.activated = @ \ {w},       !.advertised = @ \ {w},
                      !.focused = IF @ = w THEN Nobody ELSE @]
           r    == DropGrab(gone, w)
<1>1. /\ Sound(s) /\ Exact(s) /\ s \in ServerState
      /\ w \in Listed(s) /\ w \notin s.mapped
  BY DEF IInv, Sound, Kept, Destroy, Server
<1>2. Becomes(r)
  BY DEF Destroy, r, gone
<1> HIDE DEF s
<1>3. /\ Unlink(s.toplevels, w) \in Seq(Window)
      /\ Listed(s) \ {w} \subseteq ToSet(Unlink(s.toplevels, w))
  BY <1>1, UnlinkListed DEF ServerState, Listed
<1>4. [s.workspace EXCEPT ![w] = 0] \in [Window -> Workspace]
  BY <1>1, CountAssumption DEF ServerState, Workspace
<1>5. s.focused # w
  BY <1>1, NobodyAssumption DEF Sound, FocusSound
<1>6. gone = [s EXCEPT
                !.toplevels = Unlink(s.toplevels, w),
                !.configured = s.configured \ {w},
                !.minimized = s.minimized \ {w},
                !.workspace = [s.workspace EXCEPT ![w] = 0],
                !.activated = s.activated \ {w},
                !.advertised = s.advertised \ {w},
                !.focused = s.focused]
  BY <1>1, <1>5 DEF ServerState
<1> HIDE DEF gone
<1>7. /\ gone \in ServerState /\ gone.toplevels = Unlink(s.toplevels, w)
      /\ gone.configured = s.configured \ {w} /\ gone.mapped = s.mapped
      /\ gone.minimized = s.minimized \ {w}
      /\ gone.workspace = [s.workspace EXCEPT ![w] = 0] /\ gone.current = s.current
      /\ gone.focused = s.focused /\ gone.keyboard = s.keyboard
      /\ gone.activated = s.activated \ {w} /\ gone.advertised = s.advertised \ {w}
      /\ gone.shown = s.shown /\ gone.grab = s.grab /\ gone.grabbed = s.grabbed
  BY <1>1, <1>3, <1>4, <1>6 DEF ServerState
<1>8. /\ r \in ServerState /\ r.toplevels = gone.toplevels
      /\ r.configured = gone.configured /\ r.mapped = gone.mapped
      /\ r.minimized = gone.minimized /\ r.workspace = gone.workspace
      /\ r.current = gone.current /\ r.focused = gone.focused
      /\ r.keyboard = gone.keyboard /\ r.activated = gone.activated
      /\ r.advertised = gone.advertised /\ r.shown = gone.shown
      /\ r.grabbed = (IF s.grabbed = w THEN Nobody ELSE s.grabbed)
      /\ r.grab = (IF s.grabbed = w THEN "none" ELSE s.grab)
  BY <1>7 DEF DropGrab, ServerState, Grab
<1>9. Listed(s) \ {w} \subseteq Listed(r)
  BY <1>3, <1>7, <1>8 DEF Listed
<1> HIDE DEF r
<1>10. Kept(r)
  BY <1>1, <1>5, <1>7, <1>8, <1>9 DEF Sound, Kept
<1>11. FocusSound(r)
  BY <1>1, <1>5, <1>7, <1>8 DEF Sound, FocusSound, ServerState
<1>12. Exact(r)
  <2>1. s.mapped \subseteq Listed(r) /\ s.mapped \subseteq Listed(s)
    BY <1>1, <1>9 DEF Sound, Kept
  <2>2. \A v \in s.mapped : r.workspace[v] = s.workspace[v]
    BY <1>1, <1>7, <1>8 DEF ServerState
  <2>3. r.shown = s.shown /\ r.mapped = s.mapped /\ r.current = s.current
        /\ r.minimized = s.minimized \ {w}
    BY <1>7, <1>8
  <2>4. QED
    BY <1>1, <2>1, <2>2, <2>3 DEF Exact, OnWorkspace
<1>13. QED
  BY <1>2, <1>10, <1>11, <1>12, Installed DEF Sound

(* Requests about a window: to minimize, to be described, to be dragged. *)
LEMMA RequestSound ==
  ASSUME IInv, NEW w \in Window,
         \/ RequestMinimize(w) \/ MetadataChanged(w)
         \/ RequestMove(w) \/ RequestResize(w)
  PROVE  IInv'
<1>1. /\ Sound(Server) /\ Exact(Server) /\ Server \in ServerState
      /\ Server.configured = configured /\ Server.mapped = mapped
  BY DEF IInv, Sound, Kept, Server
<1>2. configured \subseteq Listed(Server) /\ mapped \subseteq Listed(Server)
  BY <1>1 DEF Sound, Kept
<1>3. CASE RequestMinimize(w)
  BY <1>1, <1>3, MinimizedSound, Installed DEF RequestMinimize
<1>4. CASE MetadataChanged(w)
  <2>1. Sound(ForeignRefresh(Server, w)) /\ SameWindows(ForeignRefresh(Server, w), Server)
    BY <1>1, RefreshSound, RefreshTyped
  <2>2. QED
    BY <1>1, <1>4, <2>1, ExactFrame, Installed DEF MetadataChanged
<1>5. CASE RequestMove(w)
  BY <1>1, <1>2, <1>5, BeginGrabSound, Installed DEF RequestMove, Grab
<1>6. CASE RequestResize(w)
  <2> DEFINE on == FocusToplevel(Server, w)
  <2>1. Sound(on) /\ SameWindows(on, Server)
    BY <1>1, FocusSoundly
  <2>2. Exact(on) /\ w \in Listed(on)
    BY <1>1, <1>2, <1>6, <2>1, ExactFrame, SameListed DEF SameWindows, RequestResize
  <2> HIDE DEF on
  <2>3. Sound(BeginGrab(on, w, "resize")) /\ Exact(BeginGrab(on, w, "resize"))
    BY <2>1, <2>2, BeginGrabSound DEF Grab
  <2>4. QED
    BY <1>6, <2>3, Installed DEF RequestResize, on
<1>7. QED
  BY <1>3, <1>4, <1>5, <1>6

(* A bar's request composes a switch, an unminimize and a focus. *)
LEMMA ForeignActivateSound ==
  ASSUME IInv, NEW w \in Window, ForeignActivate(w)
  PROVE  IInv'
<1> DEFINE there == IF workspace[w] # current THEN Go(Server, workspace[w]) ELSE Server
           back  == SetMinimized(there, w, FALSE)
           on    == FocusToplevel(back, w)
<1>1. Sound(Server) /\ Exact(Server) /\ workspace[w] \in Int
  BY CountAssumption DEF IInv, Sound, Kept, Server, ServerState, Workspace
<1>2. Sound(there) /\ Exact(there)
  BY <1>1, GoSound
<1> HIDE DEF there
<1>3. Sound(back) /\ Exact(back)
  BY <1>2, MinimizedSound
<1> HIDE DEF back
<1>4. Sound(on) /\ SameWindows(on, back)
  BY <1>3, FocusSoundly
<1> HIDE DEF on
<1>5. Sound(ForeignSyncAll(on)) /\ Exact(ForeignSyncAll(on))
  <2>1. Exact(on)
    BY <1>3, <1>4, ExactFrame
  <2>2. QED
    BY <1>4, <2>1, SyncAllSound, ExactFrame
<1>6. Becomes(ForeignSyncAll(on))
  BY DEF ForeignActivate, on, back, there
<1>7. QED
  BY <1>5, <1>6, Installed

(* Switching, cycling and moving are the two workspace operations. *)
LEMMA WorkspaceSound ==
  ASSUME IInv, WorkspaceStep
  PROVE  IInv'
<1>1. Sound(Server) /\ Exact(Server) /\ current \in Workspace
  BY DEF IInv, Sound, Kept, Server, ServerState
<1>2. \A i \in Workspace : i \in Int
  BY CountAssumption DEF Workspace
<1>3. ASSUME NEW i \in Workspace, WorkspaceGo(i)
      PROVE  IInv'
  BY <1>1, <1>2, <1>3, GoSound, Installed DEF WorkspaceGo
<1>4. ASSUME NEW d \in {-1, 1}, WorkspaceRelative(d)
      PROVE  IInv'
  <2>1. (current + d) % WorkspaceCount \in Int
    <3>1. current + d \in Int /\ WorkspaceCount \in Nat \ {0}
      BY <1>1, <1>2, CountAssumption
    <3>2. QED
      BY <3>1
  <2>2. QED
    BY <1>1, <1>4, <2>1, GoSound, Installed DEF WorkspaceRelative
<1>5. ASSUME NEW i \in Workspace, WorkspaceMove(i)
      PROVE  IInv'
  BY <1>1, <1>2, <1>5, MoveSound, Installed DEF WorkspaceMove
<1>6. QED
  BY <1>3, <1>4, <1>5 DEF WorkspaceStep

(* The pointer hits a shown window, which is a listed one. *)
LEMMA PointerSound ==
  ASSUME IInv, NEW w \in Window, PointerStep(w)
  PROVE  IInv'
<1>1. Sound(Server) /\ Exact(Server) /\ Server.shown = shown
  BY DEF IInv, Server
<1>2. w \in shown => w \in Listed(Server)
  BY <1>1 DEF Exact, OnWorkspace
<1>3. ASSUME NEW s, Sound(s), Exact(s)
      PROVE  /\ Sound(FocusToplevel(s, w)) /\ Exact(FocusToplevel(s, w))
             /\ Listed(FocusToplevel(s, w)) = Listed(s)
  BY <1>3, FocusSoundly, ExactFrame, SameListed DEF SameWindows
<1>4. CASE Press(w)
  BY <1>1, <1>3, <1>4, Installed DEF Press
<1>5. CASE SuperPress(w)
  <2>1. w \in shown /\ Becomes(FocusToplevel(BeginGrab(Server, w, "move"), w))
    BY <1>5 DEF SuperPress
  <2>2. Sound(BeginGrab(Server, w, "move")) /\ Exact(BeginGrab(Server, w, "move"))
    BY <1>1, <1>2, <2>1, BeginGrabSound DEF Grab
  <2>3. QED
    BY <1>3, <2>1, <2>2, Installed
<1>6. CASE EdgePress(w)
  <2>1. w \in shown /\ Becomes(BeginGrab(FocusToplevel(Server, w), w, "resize"))
    BY <1>6 DEF EdgePress
  <2>2. /\ Sound(FocusToplevel(Server, w)) /\ Exact(FocusToplevel(Server, w))
        /\ w \in Listed(FocusToplevel(Server, w))
    BY <1>1, <1>2, <1>3, <2>1
  <2>3. QED
    BY <2>1, <2>2, BeginGrabSound, Installed DEF Grab
<1>7. QED
  BY <1>4, <1>5, <1>6 DEF PointerStep

(* A record that differs from a sound one only in who has the keyboard,    *)
(* when that is no window, and in the layer surfaces that are mapped.      *)
LEMMA LayersSound ==
  ASSUME NEW s, Sound(s), Exact(s), NEW k \in Layer \cup {Nobody} \cup {s.keyboard},
         NEW L \in SUBSET Layer
  PROVE  /\ Sound([s EXCEPT !.keyboard = k, !.layers = L])
         /\ Exact([s EXCEPT !.keyboard = k, !.layers = L])
<1> DEFINE r == [s EXCEPT !.keyboard = k, !.layers = L]
<1>1. s \in ServerState
  BY DEF Sound, Kept
<1>2. /\ r \in ServerState /\ r.keyboard = k
      /\ r.toplevels = s.toplevels /\ r.configured = s.configured /\ r.mapped = s.mapped
      /\ r.minimized = s.minimized /\ r.workspace = s.workspace /\ r.current = s.current
      /\ r.focused = s.focused /\ r.activated = s.activated
      /\ r.advertised = s.advertised /\ r.shown = s.shown
      /\ r.grab = s.grab /\ r.grabbed = s.grabbed
  BY <1>1 DEF ServerState
<1>3. Listed(r) = Listed(s)
  BY <1>2, SameListed
<1>4. r.keyboard \in Window => r.keyboard = s.keyboard
  BY <1>2, KindAssumption, NobodyAssumption
<1> HIDE DEF r
<1>5. Sound(r)
  BY <1>2, <1>3, <1>4 DEF Sound, Kept, FocusSound
<1>6. Exact(r)
  BY <1>2, <1>3 DEF Exact, OnWorkspace
<1>7. QED
  BY <1>5, <1>6 DEF r

(* Layer surfaces take the keyboard away from windows, never give it. *)
LEMMA LayerStepSound ==
  ASSUME IInv, NEW l \in Layer, LayerStep(l)
  PROVE  IInv'
<1> DEFINE s == Server
<1>1. Sound(s) /\ Exact(s) /\ s \in ServerState
  BY DEF IInv, Sound, Kept
<1>2. layers = s.layers /\ s.layers \in SUBSET Layer
  BY <1>1 DEF Server, ServerState
<1>3. /\ LayerPress(l) => Becomes([s EXCEPT !.keyboard = l])
      /\ LayerMap(l) => Becomes(ApplyVisibility([s EXCEPT !.layers = @ \cup {l}]))
      /\ LayerUnmap(l) => Becomes(ApplyVisibility([s EXCEPT !.layers = @ \ {l}]))
      /\ LayerSurfaceGone(l) => Becomes([s EXCEPT !.keyboard = Nobody])
  BY DEF LayerPress, LayerMap, LayerUnmap, LayerSurfaceGone
<1> HIDE DEF s
<1>4. ASSUME NEW k \in Layer \cup {Nobody}
      PROVE  Sound([s EXCEPT !.keyboard = k]) /\ Exact([s EXCEPT !.keyboard = k])
  <2>1. [s EXCEPT !.keyboard = k] = [s EXCEPT !.keyboard = k, !.layers = s.layers]
    BY <1>1 DEF ServerState
  <2>2. QED
    BY <1>1, <1>2, <2>1, LayersSound
<1>5. ASSUME NEW L \in SUBSET Layer
      PROVE  /\ Sound(ApplyVisibility([s EXCEPT !.layers = L]))
             /\ Exact(ApplyVisibility([s EXCEPT !.layers = L]))
  <2>1. [s EXCEPT !.layers = L] = [s EXCEPT !.keyboard = s.keyboard, !.layers = L]
    BY <1>1 DEF ServerState
  <2>2. Sound([s EXCEPT !.layers = L])
    BY <1>1, <2>1, LayersSound
  <2>3. QED
    BY <2>2, VisibilitySound
<1>6. CASE LayerPress(l)
  BY <1>3, <1>4, <1>6, Installed
<1>7. CASE LayerMap(l)
  BY <1>2, <1>3, <1>5, <1>7, Installed
<1>8. CASE LayerUnmap(l)
  BY <1>2, <1>3, <1>5, <1>8, Installed
<1>9. CASE LayerSurfaceGone(l)
  BY <1>3, <1>4, <1>9, Installed
<1>10. QED
  BY <1>6, <1>7, <1>8, <1>9 DEF LayerStep

(* Ending the grab is dropping the grab of whichever window it was on. *)
LEMMA ReleaseSound ==
  ASSUME IInv, Release
  PROVE  IInv'
<1> DEFINE s == Server
<1>1. /\ Sound(s) /\ Exact(s) /\ s \in ServerState
      /\ s.grab # "none" /\ Becomes([s EXCEPT !.grab = "none", !.grabbed = Nobody])
  BY DEF IInv, Sound, Kept, Release, Server
<1> HIDE DEF s
<1>2. s.grabbed \in Window
  BY <1>1 DEF Sound, Kept, ServerState
<1>3. [s EXCEPT !.grab = "none", !.grabbed = Nobody] = DropGrab(s, s.grabbed)
  BY <1>1 DEF DropGrab, ServerState
<1>4. QED
  BY <1>1, <1>2, <1>3, DropGrabSound, Installed

-----------------------------------------------------------------------------
(* The inductive invariant and what follows from it *)

(* The compositor starts with no window, no focus and no grab. *)
LEMMA InitSound == Init => IInv
<1> SUFFICES ASSUME Init PROVE IInv
  OBVIOUS
<1> DEFINE s == Server
<1>1. /\ s.toplevels = <<>> /\ s.configured = {} /\ s.mapped = {} /\ s.minimized = {}
      /\ s.workspace = [w \in Window |-> 0] /\ s.current = 0
      /\ s.focused = Nobody /\ s.keyboard = Nobody /\ s.activated = {}
      /\ s.advertised = {} /\ s.shown = {} /\ s.grab = "none" /\ s.grabbed = Nobody
      /\ s.layers = {}
  BY DEF Init, Server
<1>2. TypeOK
  <2>1. toplevels \in Seq(Window)
    BY EmptySeq DEF Init
  <2>2. 0 \in Workspace
    BY CountAssumption DEF Workspace
  <2>3. QED
    BY <2>1, <2>2 DEF Init, TypeOK, Grab
<1>3. s \in ServerState
  BY <1>2, ServerTyped
<1> HIDE DEF s
<1>4. Sound(s)
  BY <1>1, <1>3, NobodyAssumption DEF Sound, Kept, FocusSound
<1>5. Exact(s)
  BY <1>1 DEF Exact, OnWorkspace
<1>6. QED
  BY <1>4, <1>5 DEF IInv, s

(* Every callback, and a step that changes nothing, keeps the invariant. *)
LEMMA NextSound == IInv /\ [Next]_vars => IInv'
<1> SUFFICES ASSUME IInv, [Next]_vars PROVE IInv'
  OBVIOUS
<1>1. ASSUME NEW w \in Window, ClientStep(w)
      PROVE  IInv'
  BY <1>1, NewToplevelSound, ConfigureAckedSound, MapSound, UnmapSound, DestroySound,
     RequestSound, ForeignActivateSound DEF ClientStep
<1>2. ASSUME NEW w \in Window, PointerStep(w)
      PROVE  IInv'
  BY <1>2, PointerSound
<1>3. ASSUME NEW l \in Layer, LayerStep(l)
      PROVE  IInv'
  BY <1>3, LayerStepSound
<1>4. CASE WorkspaceStep
  BY <1>4, WorkspaceSound
<1>5. CASE Release
  BY <1>5, ReleaseSound
<1>6. CASE UNCHANGED vars
  <2>1. Server' = Server
    BY <1>6 DEF vars, Server
  <2>2. QED
    BY <2>1 DEF IInv, Sound, Kept, FocusSound, Exact, Listed, OnWorkspace, ServerState
<1>7. QED
  BY <1>1, <1>2, <1>3, <1>4, <1>5, <1>6 DEF Next

(* The inductive invariant holds in every reachable state. *)
THEOREM Invariance == Spec => []IInv
BY InitSound, NextSound, PTL DEF Spec

(* Every variable always holds a value of its kind. *)
THEOREM TypeCorrect == Spec => []TypeOK
<1>1. IInv => TypeOK
  BY ServerTyped DEF IInv, Sound, Kept
<1>2. QED
  BY <1>1, Invariance, PTL

(* The focused toplevel is always a mapped window of the current workspace. *)
THEOREM FocusLive == Spec => []FocusedIsLive
<1>1. IInv => FocusedIsLive
  BY DEF IInv, Sound, FocusSound, FocusedIsLive, Server
<1>2. QED
  BY <1>1, Invariance, PTL

(* A window with the keyboard is always the focused one. *)
THEOREM KeyboardSafe == Spec => []KeyboardFollowsFocus
<1>1. IInv => KeyboardFollowsFocus
  BY DEF IInv, Sound, Kept, KeyboardFollowsFocus, Server
<1>2. QED
  BY <1>1, Invariance, PTL

(* The shown windows are always exactly those the workspace should show. *)
THEOREM VisibilityExact == Spec => []ShownExactly
<1>1. IInv => ShownExactly
  BY DEF IInv, Exact, ShownExactly, Server
<1>2. QED
  BY <1>1, Invariance, PTL

(* A grab is always on exactly when a window is grabbed. *)
THEOREM GrabSound == Spec => []GrabHasWindow
<1>1. IInv => GrabHasWindow
  BY DEF IInv, Sound, Kept, GrabHasWindow, Server
<1>2. QED
  BY <1>1, Invariance, PTL

(* No reference and no per-window fact ever outlives its window. *)
THEOREM NoDangling == Spec => []NothingDangles
<1>1. IInv => NothingDangles
  <2> DEFINE s == Server
  <2> SUFFICES ASSUME Sound(s), Exact(s) PROVE NothingDangles
    BY DEF IInv
  <2>1. /\ s.focused \in Window => s.focused \in Listed(s)
        /\ s.keyboard \in Window => s.keyboard \in Listed(s)
        /\ s.grabbed \in Window => s.grabbed \in Listed(s)
    BY NobodyAssumption DEF Sound, Kept, FocusSound
  <2>2. s.configured \cup s.activated \cup s.advertised \cup s.shown \subseteq Listed(s)
    BY DEF Sound, Kept, Exact, OnWorkspace
  <2>3. s.mapped \subseteq s.configured
    BY DEF Sound, Kept
  <2>4. /\ focused = s.focused /\ keyboard = s.keyboard /\ grabbed = s.grabbed
        /\ configured = s.configured /\ activated = s.activated
        /\ advertised = s.advertised /\ shown = s.shown /\ mapped = s.mapped
    BY DEF Server
  <2> HIDE DEF s
  <2>5. QED
    BY <2>1, <2>2, <2>3, <2>4 DEF NothingDangles, s
<1>2. QED
  BY <1>1, Invariance, PTL

(* The focused window has always been told, and so have the bars. *)
THEOREM FocusTold == Spec => []FocusedIsTold
<1>1. IInv => FocusedIsTold
  BY DEF IInv, Sound, FocusSound, FocusedIsTold, Server
<1>2. QED
  BY <1>1, Invariance, PTL

-----------------------------------------------------------------------------
(* What the callbacks leave alone *)

SameMembers(r, s) ==
  /\ r.toplevels = s.toplevels /\ r.configured = s.configured
  /\ r.mapped = s.mapped       /\ r.grab = s.grab

LEMMA VisibilityFrame ==
  ASSUME NEW s \in ServerState
  PROVE  /\ SameMembers(ApplyVisibility(s), s)
         /\ ApplyVisibility(s).minimized = s.minimized
         /\ ApplyVisibility(s).workspace = s.workspace
         /\ ApplyVisibility(s).current = s.current
         /\ ApplyVisibility(s).focused = s.focused
BY DEF ApplyVisibility, SameMembers, ServerState

LEMMA FinishFrame ==
  ASSUME NEW s, Sound(s)
  PROVE  LET r == ForeignSyncAll(ApplyVisibility(s))
         IN  /\ SameMembers(r, s) /\ r.minimized = s.minimized
             /\ r.workspace = s.workspace /\ r.current = s.current
<1> DEFINE seen == ApplyVisibility(s)
<1>1. Sound(seen) /\ SameMembers(seen, s) /\ seen.minimized = s.minimized
      /\ seen.workspace = s.workspace /\ seen.current = s.current
  BY VisibilitySound, VisibilityFrame DEF Sound, Kept
<1> HIDE DEF seen
<1>2. SameWindows(ForeignSyncAll(seen), seen)
  BY <1>1, SyncAllSound
<1>3. QED
  BY <1>1, <1>2 DEF SameMembers, SameWindows, seen

LEMMA PickFrame ==
  ASSUME NEW s, Sound(s), NEW pick \in Window \cup {Nobody}
  PROVE  SameWindows(FocusPick(s, pick), s)
BY FocusSoundly DEF FocusPick, SameWindows

LEMMA EnterFrame ==
  ASSUME NEW s \in ServerState, NEW i \in Workspace
  PROVE  LET r == EnterWorkspace(s, i)
         IN  /\ SameMembers(r, s) /\ r.minimized = s.minimized
             /\ r.workspace = s.workspace /\ r.current = i
BY DEF EnterWorkspace, ClearFocus, SameMembers, ServerState

(* A switch changes the workspace and the focus, and no window.            *)
LEMMA GoFrame ==
  ASSUME NEW s, Sound(s), NEW idx \in Int
  PROVE  LET r == Go(s, idx)
         IN  /\ SameMembers(r, s) /\ r.minimized = s.minimized
             /\ r.workspace = s.workspace /\ r.current = Clamp(idx)
<1> DEFINE there == EnterWorkspace(s, Clamp(idx))
           pick  == FirstListed(there, OnWorkspace(there, there.current) \ there.minimized)
           on    == FocusPick(there, pick)
<1>1. Sound(there) /\ Clamp(idx) \in Workspace
  BY ClampTyped, EnterSound
<1>2. /\ SameMembers(there, s) /\ there.minimized = s.minimized
      /\ there.workspace = s.workspace /\ there.current = Clamp(idx)
  BY <1>1, EnterFrame DEF Sound, Kept
<1> HIDE DEF there
<1>3. OnWorkspace(there, there.current) \in SUBSET Window
  BY <1>1, ListedTyped DEF OnWorkspace, Sound, Kept
<1>4. pick \in Window \cup {Nobody}
  BY <1>3, FirstListedIsCandidate
<1> HIDE DEF pick
<1>5. Sound(on) /\ SameWindows(on, there)
  BY <1>1, <1>4, PickSound, PickFrame
<1> HIDE DEF on
<1>6. Go(s, idx) = IF Clamp(idx) = s.current THEN s
                   ELSE ForeignSyncAll(ApplyVisibility(on))
  BY DEF Go, on, pick, there
<1>7. CASE Clamp(idx) = s.current
  BY <1>6, <1>7 DEF SameMembers
<1>8. CASE Clamp(idx) # s.current
  <2>1. /\ SameMembers(Go(s, idx), on) /\ Go(s, idx).minimized = on.minimized
        /\ Go(s, idx).workspace = on.workspace /\ Go(s, idx).current = on.current
    BY <1>5, <1>6, <1>8, FinishFrame
  <2>2. QED
    BY <1>2, <1>5, <2>1 DEF SameMembers, SameWindows
<1>9. QED
  BY <1>7, <1>8

LEMMA MinimizedFrame ==
  ASSUME NEW s \in ServerState, NEW w \in Window, NEW min \in BOOLEAN
  PROVE  LET r == SetMinimized(s, w, min)
         IN  /\ SameMembers(r, s) /\ r.workspace = s.workspace /\ r.current = s.current
             /\ r.minimized = IF min THEN s.minimized \cup {w} ELSE s.minimized \ {w}
<1>1. CASE min <=> w \in s.minimized
  <2>1. s.minimized = IF min THEN s.minimized \cup {w} ELSE s.minimized \ {w}
    BY <1>1
  <2>2. QED
    BY <1>1, <2>1 DEF SetMinimized, SameMembers
<1>2. CASE ~ (min <=> w \in s.minimized)
  <2> DEFINE flip == [s EXCEPT !.minimized = IF min THEN @ \cup {w} ELSE @ \ {w}]
             drop == IF min /\ s.focused = w THEN ClearFocus(flip) ELSE flip
             seen == ApplyVisibility(drop)
  <2>1. /\ flip \in ServerState /\ SameMembers(flip, s)
        /\ flip.minimized = (IF min THEN s.minimized \cup {w} ELSE s.minimized \ {w})
        /\ flip.workspace = s.workspace /\ flip.current = s.current
    BY DEF ServerState, SameMembers
  <2> HIDE DEF flip
  <2>2. /\ drop \in ServerState /\ SameMembers(drop, s) /\ drop.minimized = flip.minimized
        /\ drop.workspace = s.workspace /\ drop.current = s.current
    BY <2>1 DEF ClearFocus, ServerState, SameMembers
  <2> HIDE DEF drop
  <2>3. /\ SameMembers(seen, drop) /\ seen.minimized = drop.minimized
        /\ seen.workspace = drop.workspace /\ seen.current = drop.current
    BY <2>2, VisibilityFrame
  <2>4. seen \in ServerState
    <3>1. OnWorkspace(drop, drop.current) \in SUBSET Window
      BY <2>2, ListedTyped DEF OnWorkspace
    <3>2. QED
      BY <2>2, <3>1 DEF ApplyVisibility, ServerState
  <2> HIDE DEF seen
  <2>5. SameWindows(ForeignRefresh(seen, w), seen)
    BY <2>4, RefreshTyped
  <2>6. SetMinimized(s, w, min) = ForeignRefresh(seen, w)
    BY <1>2 DEF SetMinimized, seen, drop, flip
  <2>7. QED
    BY <2>1, <2>2, <2>3, <2>5, <2>6 DEF SameMembers, SameWindows
<1>3. QED
  BY <1>1, <1>2

(* A move takes the focused window elsewhere, and no other.                *)
LEMMA MoveFrame ==
  ASSUME NEW s, Sound(s), NEW target \in Int
  PROVE  LET r == MoveFocused(s, target)
         IN  /\ SameMembers(r, s) /\ r.minimized = s.minimized /\ r.current = s.current
             /\ \A v \in Window : v # s.focused => r.workspace[v] = s.workspace[v]
<1> DEFINE f    == s.focused
           sent == [s EXCEPT !.workspace[f] = target]
           pick == FirstListed(sent, OnWorkspace(sent, s.current) \ {f})
           left == IF target = s.current THEN sent ELSE Refocus(sent, pick)
           stay == \/ f = Nobody \/ f \notin s.mapped
                   \/ target \notin Workspace \/ s.workspace[f] = target
<1>1. CASE stay
  BY <1>1 DEF MoveFocused, SameMembers
<1>2. CASE ~ stay
  <2>1. s \in ServerState /\ f \in Window /\ target \in Workspace /\ target # s.current
    BY <1>2 DEF Sound, Kept, FocusSound, ServerState
  <2>2. /\ sent \in ServerState /\ SameMembers(sent, s) /\ sent.current = s.current
        /\ sent.minimized = s.minimized /\ sent.grabbed = s.grabbed
        /\ sent.focused = f /\ sent.keyboard = s.keyboard
        /\ sent.activated = s.activated /\ sent.advertised = s.advertised
        /\ \A v \in Window : v # f => sent.workspace[v] = s.workspace[v]
    BY <2>1 DEF ServerState, SameMembers
  <2>3. Listed(sent) = Listed(s)
    BY <2>2, SameListed DEF SameMembers
  <2> HIDE DEF sent
  <2>4. Kept(sent)
    BY <2>2, <2>3 DEF Sound, Kept, SameMembers
  <2>5. pick \in (OnWorkspace(sent, s.current) \ {f}) \cup {Nobody}
    BY FirstListedIsCandidate
  <2>6. left = Refocus(sent, pick)
    BY <2>1
  <2> HIDE DEF pick
  <2>7. Sound(left) /\ SameWindows(left, sent)
    <3>1. CASE pick = Nobody
      BY <2>4, <2>6, <3>1, ClearSound DEF Refocus
    <3>2. CASE pick # Nobody
      <4>1. pick \in Window /\ Focusable(sent, pick)
        BY <2>1, <2>2, <2>3, <2>5, <3>2, ListedTyped DEF OnWorkspace, Focusable
      <4>2. QED
        BY <2>4, <2>6, <3>2, <4>1, FocusTakes DEF Refocus
    <3>3. QED
      BY <3>1, <3>2
  <2>8. MoveFocused(s, target) = ForeignSyncAll(ApplyVisibility(left))
    BY <1>2 DEF MoveFocused, left, pick, sent
  <2> HIDE DEF left
  <2>9. LET r == MoveFocused(s, target)
        IN  /\ SameMembers(r, left) /\ r.minimized = left.minimized
            /\ r.workspace = left.workspace /\ r.current = left.current
    BY <2>7, <2>8, FinishFrame
  <2>10. QED
    BY <2>2, <2>7, <2>9 DEF SameMembers, SameWindows
<1>3. QED
  BY <1>1, <1>2

(* The variables a step installs are the fields of the record. *)
LEMMA Fields ==
  ASSUME NEW s, Becomes(s)
  PROVE  /\ toplevels' = s.toplevels /\ configured' = s.configured /\ mapped' = s.mapped
         /\ minimized' = s.minimized /\ workspace' = s.workspace /\ current' = s.current
         /\ focused' = s.focused /\ grab' = s.grab
BY DEF Becomes

Steady == UNCHANGED << toplevels, mapped, workspace, current >>

GrabGoesOn == grab' = "none" => grab = "none"

(* Most callbacks change neither which windows there are nor where.        *)
LEMMA WindowSteady ==
  ASSUME IInv, NEW w \in Window,
         \/ ConfigureAcked(w) \/ MetadataChanged(w) \/ RequestMove(w)
         \/ RequestResize(w) \/ PointerStep(w)
  PROVE  Steady /\ GrabGoesOn /\ minimized' = minimized
<1> DEFINE Holds(r) == /\ r.toplevels = toplevels /\ r.mapped = mapped
                       /\ r.workspace = workspace /\ r.current = current
                       /\ r.grab = "none" => grab = "none"
<1>1. Sound(Server) /\ Server \in ServerState
  BY DEF IInv, Sound, Kept
<1>2. /\ Server.toplevels = toplevels /\ Server.mapped = mapped
      /\ Server.workspace = workspace /\ Server.current = current
      /\ Server.minimized = minimized /\ Server.grab = grab
  BY DEF Server
<1>3. ASSUME NEW r, Becomes(r), Holds(r)
      PROVE  Steady /\ GrabGoesOn /\ minimized' = r.minimized
  BY <1>3, Fields DEF Steady, GrabGoesOn
<1>4. PICK s : s = Server
  OBVIOUS
<1>5. ASSUME NEW r, SameWindows(r, s)
      PROVE  Holds(r) /\ r.minimized = minimized
  BY <1>2, <1>4, <1>5 DEF SameWindows
<1>6. SameWindows(FocusToplevel(s, w), s)
  BY <1>1, <1>4, FocusSoundly
<1>7. CASE ConfigureAcked(w)
  <2>1. Holds([s EXCEPT !.configured = @ \cup {w}])
        /\ [s EXCEPT !.configured = @ \cup {w}].minimized = minimized
    BY <1>1, <1>2, <1>4 DEF ServerState
  <2>2. QED
    BY <1>3, <1>4, <1>7, <2>1 DEF ConfigureAcked
<1>8. CASE MetadataChanged(w)
  <2>1. SameWindows(ForeignRefresh(s, w), s)
    BY <1>1, <1>4, RefreshTyped
  <2>2. QED
    BY <1>3, <1>4, <1>5, <1>8, <2>1 DEF MetadataChanged
<1>9. CASE RequestMove(w)
  <2>1. Holds(BeginGrab(s, w, "move")) /\ BeginGrab(s, w, "move").minimized = minimized
    BY <1>1, <1>2, <1>4 DEF BeginGrab, ServerState
  <2>2. QED
    BY <1>3, <1>4, <1>9, <2>1 DEF RequestMove
<1>10. ASSUME NEW r \in ServerState, SameWindows(r, s)
       PROVE  Holds(BeginGrab(r, w, "resize")) /\ BeginGrab(r, w, "resize").minimized = minimized
  BY <1>5, <1>10 DEF BeginGrab, ServerState
<1>11. FocusToplevel(s, w) \in ServerState
  BY <1>1, <1>4, FocusSoundly DEF Sound, Kept
<1>12. CASE RequestResize(w)
  BY <1>3, <1>4, <1>6, <1>10, <1>11, <1>12 DEF RequestResize
<1>13. CASE Press(w)
  BY <1>3, <1>4, <1>5, <1>6, <1>13 DEF Press
<1>14. CASE EdgePress(w)
  BY <1>3, <1>4, <1>6, <1>10, <1>11, <1>14 DEF EdgePress
<1>15. CASE SuperPress(w)
  <2> DEFINE held == BeginGrab(s, w, "move")
  <2>1. w \in Listed(s) /\ Exact(s)
    BY <1>2, <1>4, <1>15 DEF IInv, Exact, OnWorkspace, SuperPress, Server
  <2>2. Sound(held)
    BY <1>1, <1>4, <2>1, BeginGrabSound DEF Grab
  <2>3. Holds(held) /\ held.minimized = minimized
    BY <1>1, <1>2, <1>4 DEF BeginGrab, ServerState
  <2>4. Becomes(FocusToplevel(held, w))
    BY <1>4, <1>15 DEF SuperPress
  <2> HIDE DEF held
  <2>5. SameWindows(FocusToplevel(held, w), held)
    BY <2>2, FocusSoundly
  <2>6. Holds(FocusToplevel(held, w)) /\ FocusToplevel(held, w).minimized = minimized
    BY <2>3, <2>5 DEF SameWindows
  <2>7. QED
    BY <1>3, <2>4, <2>6
<1>16. QED
  BY <1>7, <1>8, <1>9, <1>12, <1>13, <1>14, <1>15 DEF PointerStep

LEMMA MinimizeSteady ==
  ASSUME IInv, NEW w \in Window, RequestMinimize(w)
  PROVE  Steady /\ GrabGoesOn /\ minimized' = minimized \cup {w}
<1>1. PICK s \in ServerState : s = Server
  BY DEF IInv, Sound, Kept
<1> DEFINE r == SetMinimized(s, w, TRUE)
<1>2. /\ SameMembers(r, s) /\ r.workspace = s.workspace /\ r.current = s.current
      /\ r.minimized = s.minimized \cup {w}
  BY MinimizedFrame
<1>3. Becomes(r)
  BY <1>1 DEF RequestMinimize
<1>4. /\ s.toplevels = toplevels /\ s.mapped = mapped /\ s.workspace = workspace
      /\ s.current = current /\ s.grab = grab /\ s.minimized = minimized
  BY <1>1 DEF Server
<1> HIDE DEF r
<1>5. QED
  BY <1>2, <1>3, <1>4, Fields DEF SameMembers, Steady, GrabGoesOn

LEMMA LayerSteady ==
  ASSUME IInv, NEW l \in Layer, LayerStep(l)
  PROVE  /\ Steady /\ GrabGoesOn /\ minimized' = minimized
         /\ LayerPress(l) \/ LayerSurfaceGone(l) => focused' = focused
<1> DEFINE Holds(r) == /\ r.toplevels = toplevels /\ r.mapped = mapped
                       /\ r.workspace = workspace /\ r.current = current
                       /\ r.grab = grab /\ r.minimized = minimized
<1>1. PICK s \in ServerState : s = Server
  BY DEF IInv, Sound, Kept
<1>2. Holds(s) /\ s.focused = focused
  BY <1>1 DEF Server
<1>3. ASSUME NEW r, Becomes(r), Holds(r)
      PROVE  Steady /\ GrabGoesOn /\ minimized' = minimized
  BY <1>3, Fields DEF Steady, GrabGoesOn
<1>4. ASSUME NEW L
      PROVE  Holds(ApplyVisibility([s EXCEPT !.layers = L]))
  BY <1>2 DEF ApplyVisibility, ServerState
<1>5. ASSUME NEW k
      PROVE  Holds([s EXCEPT !.keyboard = k]) /\ [s EXCEPT !.keyboard = k].focused = focused
  BY <1>2 DEF ServerState
<1> HIDE DEF Holds
<1>6. CASE LayerPress(l)
  BY <1>1, <1>3, <1>5, <1>6, Fields DEF LayerPress
<1>7. CASE LayerSurfaceGone(l)
  BY <1>1, <1>3, <1>5, <1>7, Fields DEF LayerSurfaceGone
<1>8. CASE LayerMap(l)
  <2>1. Becomes(ApplyVisibility([s EXCEPT !.layers = s.layers \cup {l}])) /\ l \notin layers
    BY <1>1, <1>8 DEF LayerMap
  <2>2. ~ LayerPress(l)
    BY <2>1 DEF LayerPress
  <2>3. Steady /\ GrabGoesOn /\ minimized' = minimized
    BY <1>3, <1>4, <2>1
  <2>4. LayerSurfaceGone(l) => focused' = focused
    BY <1>1, <1>5, Fields DEF LayerSurfaceGone
  <2>5. QED
    BY <2>2, <2>3, <2>4
<1>9. CASE LayerUnmap(l)
  <2>1. Becomes(ApplyVisibility([s EXCEPT !.layers = s.layers \ {l}])) /\ l \in layers
    BY <1>1, <1>9 DEF LayerUnmap
  <2>2. ~ LayerSurfaceGone(l)
    BY <2>1 DEF LayerSurfaceGone
  <2>3. Steady /\ GrabGoesOn /\ minimized' = minimized
    BY <1>3, <1>4, <2>1
  <2>4. LayerPress(l) => focused' = focused
    BY <1>1, <1>5, Fields DEF LayerPress
  <2>5. QED
    BY <2>2, <2>3, <2>4
<1>10. QED
  BY <1>6, <1>7, <1>8, <1>9 DEF LayerStep

LEMMA NewFrame ==
  ASSUME IInv, NEW w \in Window, NewToplevel(w)
  PROVE  /\ toplevels' = Append(toplevels, w) /\ w \notin mapped
         /\ UNCHANGED << mapped, minimized, current, focused, grab >>
         /\ \A v \in Window : v # w => workspace'[v] = workspace[v]
<1>1. PICK s \in ServerState : s = Server
  BY DEF IInv, Sound, Kept
<1> DEFINE r == [s EXCEPT !.toplevels = Append(@, w), !.workspace[w] = current]
<1>2. /\ s.toplevels = toplevels /\ s.mapped = mapped /\ s.workspace = workspace
      /\ s.current = current /\ s.minimized = minimized /\ s.focused = focused
      /\ s.grab = grab /\ s.toplevels \in Seq(Window)
  BY <1>1 DEF Server, ServerState
<1>3. w \notin mapped
  BY <1>1, <1>2 DEF IInv, Sound, Kept, NewToplevel
<1>4. /\ r \in ServerState /\ r.toplevels = Append(toplevels, w) /\ r.mapped = mapped
      /\ r.current = current /\ r.minimized = minimized /\ r.focused = focused
      /\ r.grab = grab /\ \A v \in Window : v # w => r.workspace[v] = workspace[v]
  <2>1. Append(toplevels, w) \in Seq(Window) /\ current \in Workspace
    BY <1>1, <1>2, AppendProperties DEF ServerState
  <2>2. QED
    BY <1>1, <1>2, <2>1 DEF ServerState
<1>5. Becomes(ForeignRefresh(r, w))
  BY <1>1 DEF NewToplevel
<1> HIDE DEF r
<1>6. SameWindows(ForeignRefresh(r, w), r) /\ ForeignRefresh(r, w).focused = r.focused
  BY <1>4, RefreshTyped
<1>7. QED
  BY <1>3, <1>4, <1>5, <1>6, Fields DEF SameWindows

(* A window that maps gets the focus if it is on the current workspace.    *)
LEMMA MapFrame ==
  ASSUME IInv, NEW w \in Window, Map(w)
  PROVE  /\ UNCHANGED << toplevels, workspace, current, grab >>
         /\ mapped' = mapped \cup {w} /\ w \in Listed(Server) /\ w \notin mapped
         /\ minimized' = minimized \ {w}
         /\ focused' = IF workspace[w] = current THEN w ELSE focused
<1>1. PICK s \in ServerState : s = Server
  BY DEF IInv, Sound, Kept
<1> DEFINE up == [s EXCEPT !.mapped = @ \cup {w}, !.minimized = @ \ {w}]
           at == ForeignRefresh(up, w)
           on == FocusToplevel(at, w)
<1>2. /\ s.toplevels = toplevels /\ s.mapped = mapped /\ s.workspace = workspace
      /\ s.current = current /\ s.focused = focused /\ s.configured = configured
      /\ s.grab = grab /\ s.minimized = minimized /\ Sound(s)
  BY <1>1 DEF IInv, Server
<1>3. w \in configured /\ w \notin mapped /\ Becomes(ApplyVisibility(on))
  BY <1>1 DEF Map
<1>4. /\ up \in ServerState /\ up.toplevels = toplevels /\ up.mapped = mapped \cup {w}
      /\ up.configured = s.configured /\ up.workspace = workspace
      /\ up.current = current /\ up.focused = focused /\ up.keyboard = s.keyboard
      /\ up.activated = s.activated /\ up.advertised = s.advertised
      /\ up.grab = s.grab /\ up.grabbed = s.grabbed
      /\ up.minimized = minimized \ {w}
  BY <1>2 DEF ServerState
<1>5. Listed(up) = Listed(s)
  BY <1>2, <1>4, SameListed
<1> HIDE DEF up
<1>6. Sound(up)
  BY <1>2, <1>3, <1>4, <1>5 DEF Sound, Kept, FocusSound
<1>7. Sound(at) /\ SameWindows(at, up) /\ at.focused = focused
  BY <1>4, <1>6, RefreshSound, RefreshTyped
<1> HIDE DEF at
<1>8. Sound(on) /\ SameWindows(on, at)
  BY <1>7, FocusSoundly
<1>9. focused # w
  BY <1>2, <1>3, NobodyAssumption DEF Sound, FocusSound
<1>10. on.focused = IF workspace[w] = current THEN w ELSE focused
  <2>1. Focusable(at, w) <=> workspace[w] = current
    BY <1>4, <1>7, <1>9 DEF Focusable, SameWindows
  <2>2. CASE Focusable(at, w)
    BY <1>7, <2>1, <2>2, FocusTakes DEF Sound
  <2>3. CASE ~ Focusable(at, w)
    BY <1>7, <2>1, <2>3 DEF FocusToplevel
  <2>4. QED
    BY <2>2, <2>3
<1> HIDE DEF on
<1>11. /\ SameMembers(ApplyVisibility(on), on)
       /\ ApplyVisibility(on).workspace = on.workspace
       /\ ApplyVisibility(on).current = on.current
       /\ ApplyVisibility(on).focused = on.focused
       /\ ApplyVisibility(on).minimized = on.minimized
  BY <1>8, VisibilityFrame DEF Sound, Kept
<1>12. w \in Listed(Server)
  BY <1>1, <1>2, <1>3 DEF Sound, Kept
<1>13. QED
  BY <1>2, <1>3, <1>4, <1>7, <1>8, <1>10, <1>11, <1>12, Fields DEF SameMembers, SameWindows

LEMMA DropGrabFrame ==
  ASSUME NEW s \in ServerState, NEW w \in Window
  PROVE  LET r == DropGrab(s, w)
         IN  /\ r \in ServerState
             /\ r.toplevels = s.toplevels /\ r.mapped = s.mapped /\ r.focused = s.focused
             /\ r.minimized = s.minimized /\ r.workspace = s.workspace
             /\ r.current = s.current
BY DEF DropGrab, ServerState, Grab

LEMMA UnmapFrame ==
  ASSUME IInv, NEW w \in Window, Unmap(w)
  PROVE  /\ UNCHANGED << toplevels, workspace, current, minimized >>
         /\ mapped' = mapped \ {w}
         /\ focused' \in {focused, Nobody}
<1>1. PICK s \in ServerState : s = Server
  BY DEF IInv, Sound, Kept
<1> DEFINE down == [s EXCEPT !.mapped = @ \ {w}, !.configured = @ \ {w}, !.shown = @ \ {w}]
           free == IF s.focused = w THEN ClearFocus(down) ELSE down
           drop == DropGrab(free, w)
<1>2. /\ s.toplevels = toplevels /\ s.mapped = mapped /\ s.workspace = workspace
      /\ s.current = current /\ s.focused = focused /\ s.minimized = minimized
  BY <1>1 DEF Server
<1>3. Becomes(ForeignRefresh(drop, w))
  BY <1>1, <1>2 DEF Unmap
<1>4. /\ down \in ServerState /\ down.toplevels = toplevels /\ down.mapped = mapped \ {w}
      /\ down.workspace = workspace /\ down.current = current
      /\ down.focused = focused /\ down.minimized = minimized
  BY <1>2 DEF ServerState
<1> HIDE DEF down
<1>5. /\ free \in ServerState /\ free.toplevels = toplevels /\ free.mapped = mapped \ {w}
      /\ free.workspace = workspace /\ free.current = current
      /\ free.focused \in {focused, Nobody} /\ free.minimized = minimized
  BY <1>4 DEF ClearFocus, ServerState
<1> HIDE DEF free
<1>6. /\ drop \in ServerState /\ drop.toplevels = toplevels /\ drop.mapped = mapped \ {w}
      /\ drop.workspace = workspace /\ drop.current = current
      /\ drop.focused \in {focused, Nobody} /\ drop.minimized = minimized
  BY <1>5, DropGrabFrame
<1> HIDE DEF drop
<1>7. SameWindows(ForeignRefresh(drop, w), drop)
      /\ ForeignRefresh(drop, w).focused = drop.focused
  BY <1>6, RefreshTyped
<1>8. QED
  BY <1>3, <1>6, <1>7, Fields DEF SameWindows

LEMMA DestroyFrame ==
  ASSUME IInv, NEW w \in Window, Destroy(w)
  PROVE  /\ toplevels' = Unlink(toplevels, w) /\ w \in Listed(Server) /\ w \notin mapped
         /\ UNCHANGED << mapped, current, focused >>
         /\ minimized' = minimized \ {w}
         /\ \A v \in Window : v # w => workspace'[v] = workspace[v]
<1>1. PICK s \in ServerState : s = Server
  BY DEF IInv, Sound, Kept
<1> DEFINE gone == [s EXCEPT
             !.toplevels = Unlink(@, w),  !.configured = @ \ {w},
             !.minimized = @ \ {w},       !.workspace[w] = 0,
             !.activated = @ \ {w},       !.advertised = @ \ {w},
             !.focused = IF @ = w THEN Nobody ELSE @]
<1>2. /\ s.toplevels = toplevels /\ s.mapped = mapped /\ s.workspace = workspace
      /\ s.current = current /\ s.focused = focused /\ s.minimized = minimized
  BY <1>1 DEF Server
<1>3. w \in Listed(s) /\ w \notin mapped /\ Becomes(DropGrab(gone, w))
  BY <1>1 DEF Destroy
<1>4. focused # w
  BY <1>1, <1>2, <1>3, NobodyAssumption DEF IInv, Sound, FocusSound
<1>5. gone \in ServerState
  <2>1. Unlink(s.toplevels, w) \in Seq(Window)
    BY <1>3, UnlinkListed DEF ServerState, Listed
  <2>2. [s.workspace EXCEPT ![w] = 0] \in [Window -> Workspace]
    BY CountAssumption DEF ServerState, Workspace
  <2>3. gone = [s EXCEPT
                  !.toplevels = Unlink(s.toplevels, w),
                  !.configured = s.configured \ {w}, !.minimized = s.minimized \ {w},
                  !.workspace = [s.workspace EXCEPT ![w] = 0],
                  !.activated = s.activated \ {w}, !.advertised = s.advertised \ {w},
                  !.focused = s.focused]
    BY <1>2, <1>4 DEF ServerState
  <2> HIDE DEF gone
  <2>4. QED
    BY <2>1, <2>2, <2>3 DEF ServerState
<1>6. /\ gone.toplevels = Unlink(toplevels, w) /\ gone.mapped = mapped
      /\ gone.current = current /\ gone.focused = focused
      /\ gone.minimized = minimized \ {w}
      /\ \A v \in Window : v # w => gone.workspace[v] = workspace[v]
  BY <1>2, <1>4 DEF ServerState
<1> HIDE DEF gone
<1>7. LET r == DropGrab(gone, w)
      IN  /\ r.toplevels = gone.toplevels /\ r.mapped = gone.mapped
          /\ r.focused = gone.focused /\ r.minimized = gone.minimized
          /\ r.workspace = gone.workspace /\ r.current = gone.current
  BY <1>5, DropGrabFrame
<1>8. QED
  BY <1>1, <1>3, <1>6, <1>7, Fields

(* A bar that asks for a window gets it focused on its own workspace.      *)
LEMMA ActivateFrame ==
  ASSUME IInv, NEW w \in Window, ForeignActivate(w)
  PROVE  /\ UNCHANGED << toplevels, mapped, workspace, grab >>
         /\ focused' = w /\ current' = workspace[w]
         /\ minimized' = minimized \ {w}
<1>1. PICK s \in ServerState : s = Server
  BY DEF IInv, Sound, Kept
<1> DEFINE there == IF workspace[w] # current THEN Go(s, workspace[w]) ELSE s
           back  == SetMinimized(there, w, FALSE)
           on    == FocusToplevel(back, w)
<1>2. /\ s.toplevels = toplevels /\ s.mapped = mapped /\ s.workspace = workspace
      /\ s.current = current /\ s.minimized = minimized /\ s.grab = grab
      /\ Sound(s) /\ Exact(s)
  BY <1>1 DEF Server, IInv
<1>3. w \in mapped /\ Becomes(ForeignSyncAll(on))
  BY <1>1 DEF ForeignActivate
<1>4. workspace[w] \in Workspace /\ workspace[w] \in Int /\ Clamp(workspace[w]) = workspace[w]
  BY <1>1, <1>2, CountAssumption DEF ServerState, Workspace, Clamp
<1>5. /\ Sound(there) /\ Exact(there) /\ SameMembers(there, s)
      /\ there.workspace = workspace /\ there.current = workspace[w]
      /\ there.minimized = minimized
  <2>1. CASE workspace[w] = current
    BY <1>2, <2>1 DEF SameMembers
  <2>2. CASE workspace[w] # current
    <3>1. there = Go(s, workspace[w])
      BY <2>2
    <3> HIDE DEF there
    <3>2. QED
      BY <1>2, <1>4, <3>1, GoSound, GoFrame
  <2>3. QED
    BY <2>1, <2>2
<1> HIDE DEF there
<1>6. /\ Sound(back) /\ SameMembers(back, there) /\ back.workspace = workspace
      /\ back.current = workspace[w]
      /\ back.minimized = minimized \ {w}
  BY <1>5, MinimizedSound, MinimizedFrame DEF Sound, Kept
<1> HIDE DEF back
<1>8. w \in back.mapped
  BY <1>2, <1>3, <1>5, <1>6 DEF SameMembers
<1>9. Sound(on) /\ SameWindows(on, back) /\ on.focused = w
  <2>1. CASE Focusable(back, w)
    BY <1>6, <2>1, FocusTakes DEF Sound
  <2>2. CASE ~ Focusable(back, w)
    BY <1>6, <1>8, <2>2 DEF Focusable, FocusToplevel, SameWindows
  <2>3. QED
    BY <2>1, <2>2
<1> HIDE DEF on
<1>10. SameWindows(ForeignSyncAll(on), on) /\ ForeignSyncAll(on).focused = w
  BY <1>9, SyncAllSound DEF ForeignSyncAll, Sound, Kept, ServerState
<1>11. QED
  BY <1>2, <1>3, <1>5, <1>6, <1>9, <1>10, Fields DEF SameMembers, SameWindows

(* Workspace commands move nothing, or the focused window and no other.    *)
LEMMA WorkspaceFrame ==
  ASSUME IInv, WorkspaceStep
  PROVE  /\ UNCHANGED << toplevels, mapped, minimized, grab >>
         /\ \/ workspace' = workspace
            \/ current' = current /\ \A v \in Window : v # focused => workspace'[v] = workspace[v]
<1>1. PICK s \in ServerState : s = Server
  BY DEF IInv, Sound, Kept
<1>2. /\ s.toplevels = toplevels /\ s.mapped = mapped /\ s.workspace = workspace
      /\ s.current = current /\ s.minimized = minimized /\ s.grab = grab
      /\ s.focused = focused /\ Sound(s) /\ current \in Workspace
  BY <1>1 DEF Server, IInv, ServerState
<1>3. \A i \in Workspace : i \in Int
  BY CountAssumption DEF Workspace
<1>4. ASSUME NEW i \in Int, Becomes(Go(s, i))
      PROVE  UNCHANGED << toplevels, mapped, minimized, grab, workspace >>
  <2>1. /\ SameMembers(Go(s, i), s) /\ Go(s, i).minimized = s.minimized
        /\ Go(s, i).workspace = s.workspace
    BY <1>2, GoFrame
  <2>2. QED
    BY <1>2, <1>4, <2>1, Fields DEF SameMembers
<1>5. ASSUME NEW i \in Int, Becomes(MoveFocused(s, i))
      PROVE  /\ UNCHANGED << toplevels, mapped, minimized, grab, current >>
             /\ \A v \in Window : v # focused => workspace'[v] = workspace[v]
  <2>1. /\ SameMembers(MoveFocused(s, i), s) /\ MoveFocused(s, i).minimized = s.minimized
        /\ MoveFocused(s, i).current = s.current
        /\ \A v \in Window : v # s.focused => MoveFocused(s, i).workspace[v] = s.workspace[v]
    BY <1>2, MoveFrame
  <2>2. QED
    BY <1>2, <1>5, <2>1, Fields DEF SameMembers
<1>6. \A d \in {-1, 1} : (current + d) % WorkspaceCount \in Int
  BY <1>2, <1>3, CountAssumption
<1>7. QED
  BY <1>1, <1>3, <1>4, <1>5, <1>6 DEF WorkspaceStep, WorkspaceGo, WorkspaceRelative, WorkspaceMove

LEMMA ReleaseFrame ==
  ASSUME IInv, Release
  PROVE  Steady /\ UNCHANGED << minimized, focused >>
<1>1. PICK s \in ServerState : s = Server
  BY DEF IInv, Sound, Kept
<1> DEFINE r == [s EXCEPT !.grab = "none", !.grabbed = Nobody]
<1>2. /\ r.toplevels = toplevels /\ r.mapped = mapped /\ r.workspace = workspace
      /\ r.current = current /\ r.minimized = minimized /\ r.focused = focused
  BY <1>1 DEF Server, ServerState
<1>3. Becomes(r)
  BY <1>1 DEF Release
<1>4. QED
  BY <1>2, <1>3, Fields DEF Steady

-----------------------------------------------------------------------------
(* What a step may never do *)

(* Windows of any workspace that are mapped before and after a step keep   *)
(* their minimized flag, but for the one a client minimizes and the one a  *)
(* bar asks for.                                                           *)
LEMMA UnminimizedStep ==
  ASSUME IInv, [Next]_vars, NEW w \in mapped \cap mapped',
         w \in minimized, w \notin minimized'
  PROVE  focused' = w
<1>1. ASSUME NEW v \in Window, ClientStep(v)
      PROVE  focused' = w
  <2>1. CASE NewToplevel(v) \/ Unmap(v)
    BY <2>1, NewFrame, UnmapFrame
  <2>2. CASE Map(v) \/ Destroy(v)
    BY <2>2, MapFrame, DestroyFrame
  <2>3. CASE RequestMinimize(v)
    BY <2>3, MinimizeSteady
  <2>4. CASE ForeignActivate(v)
    BY <2>4, ActivateFrame
  <2>5. CASE \/ ConfigureAcked(v) \/ MetadataChanged(v) \/ RequestMove(v)
             \/ RequestResize(v)
    BY <2>5, WindowSteady
  <2>6. QED
    BY <1>1, <2>1, <2>2, <2>3, <2>4, <2>5 DEF ClientStep
<1>2. ASSUME NEW v \in Window
      PROVE  ~ PointerStep(v)
  BY WindowSteady
<1>3. ASSUME NEW l \in Layer
      PROVE  ~ LayerStep(l)
  BY LayerSteady
<1>4. ~ WorkspaceStep /\ ~ Release /\ ~ UNCHANGED vars
  BY WorkspaceFrame, ReleaseFrame DEF vars
<1>5. QED
  BY <1>1, <1>2, <1>3, <1>4 DEF Next

(* Nothing but a workspace command moves a window, and it moves only the   *)
(* focused one; the invariant after the step says that a window of another *)
(* workspace has no focus and is not shown.                                *)
LEMMA MovedStep ==
  ASSUME IInv, IInv', [Next]_vars, NEW w \in mapped \cap mapped',
         workspace'[w] # workspace[w]
  PROVE  focused = w /\ focused' # w /\ w \notin shown'
<1>1. w \in Window
  BY DEF IInv, Sound, Kept, ServerState, Server
<1>2. ASSUME NEW v \in Window
      PROVE  ~ ClientStep(v)
  <2>1. ~ NewToplevel(v) /\ ~ Destroy(v)
    BY <1>1, NewFrame, DestroyFrame
  <2>2. ~ Map(v) /\ ~ Unmap(v) /\ ~ RequestMinimize(v) /\ ~ ForeignActivate(v)
    BY MapFrame, UnmapFrame, MinimizeSteady, ActivateFrame DEF Steady
  <2>3. /\ ~ ConfigureAcked(v) /\ ~ MetadataChanged(v) /\ ~ RequestMove(v)
        /\ ~ RequestResize(v)
    BY WindowSteady DEF Steady
  <2>4. QED
    BY <2>1, <2>2, <2>3 DEF ClientStep
<1>3. ASSUME NEW v \in Window
      PROVE  ~ PointerStep(v)
  BY WindowSteady DEF Steady
<1>4. ASSUME NEW l \in Layer
      PROVE  ~ LayerStep(l)
  BY LayerSteady DEF Steady
<1>5. ~ Release /\ ~ UNCHANGED vars
  BY ReleaseFrame DEF vars, Steady
<1>6. WorkspaceStep
  BY <1>2, <1>3, <1>4, <1>5 DEF Next
<1>7. current' = current /\ w = focused
  BY <1>1, <1>6, WorkspaceFrame
<1>8. w # Nobody
  BY <1>1, NobodyAssumption
<1>9. workspace[w] = current
  BY <1>7, <1>8 DEF IInv, Sound, FocusSound, Server
<1>10. workspace'[w] # current'
  BY <1>7, <1>9
<1>11. focused' # w
  BY <1>8, <1>10 DEF IInv, Sound, FocusSound, Server
<1>12. w \notin shown'
  BY <1>10 DEF IInv, Exact, OnWorkspace, Server
<1>13. QED
  BY <1>7, <1>11, <1>12

(* A set of numbers that is not empty has a least one. *)
LEMMA LeastNumber ==
  ASSUME NEW T \in SUBSET Nat, T # {}
  PROVE  \E i \in T : \A j \in T : i <= j
<1> DEFINE R == {ss \in Nat \X Nat : ss[1] < ss[2]}
<1>1. IsWellFoundedOn(R, Nat)
  BY NatLessThanWellFounded DEF OpToRel
<1>2. PICK i \in T : \A j \in T : ~ (<< j, i >> \in R)
  <2> HIDE DEF R
  <2>1. QED
    BY <1>1, WFMin
<1>3. \A j \in T : i <= j
  <2>1. \A j \in T : i \in Nat /\ j \in Nat /\ ~ (j < i)
    BY <1>2
  <2>2. QED
    BY <2>1
<1>4. QED
  BY <1>3

(* Walking the list finds a candidate if there is one. *)
LEMMA PickExists ==
  ASSUME NEW s \in ServerState, NEW C \in SUBSET Listed(s), C # {}
  PROVE  FirstListed(s, C) \in C
<1> DEFINE seq   == s.toplevels
           T     == {i \in DOMAIN seq : seq[i] \in C}
           first == {w \in C : \A v \in C \ {w} : Precedes(seq, w, v)}
<1>1. DOMAIN seq \subseteq Nat /\ \A v \in C : \E j \in T : seq[j] = v
  BY DEF Listed, ToSet, ServerState
<1>2. T \in SUBSET Nat /\ T # {}
  BY <1>1
<1>3. PICK i \in T : \A j \in T : i <= j
  <2> HIDE DEF T
  <2>1. QED
    BY <1>2, LeastNumber
<1>4. ASSUME NEW v \in C \ {seq[i]}
      PROVE  Precedes(seq, seq[i], v)
  <2>1. PICK j \in T : seq[j] = v
    BY <1>1
  <2>2. i <= j /\ i # j /\ i \in DOMAIN seq /\ j \in DOMAIN seq
    BY <1>3, <2>1
  <2>3. i < j
    BY <1>1, <2>2
  <2>4. QED
    BY <2>1, <2>2, <2>3 DEF Precedes
<1>5. seq[i] \in first
  BY <1>3, <1>4
<1>6. FirstListed(s, C) = CHOOSE w \in first : TRUE
  BY <1>5 DEF FirstListed
<1>7. QED
  BY <1>5, <1>6

(* A switch from a sound state gives the focus, keyboard included, to one  *)
(* of the windows it shows, and to nobody only when it shows none.         *)
LEMMA GoFocuses ==
  ASSUME NEW s, Sound(s), NEW idx \in Int, Clamp(idx) # s.current
  PROVE  LET r == Go(s, idx)
         IN  IF r.shown = {} THEN r.focused = Nobody
             ELSE r.focused \in r.shown /\ r.keyboard = r.focused
<1> DEFINE there == EnterWorkspace(s, Clamp(idx))
           vis   == OnWorkspace(there, there.current) \ there.minimized
           pick  == FirstListed(there, vis)
           on    == FocusPick(there, pick)
           seen  == ApplyVisibility(on)
           r     == ForeignSyncAll(seen)
<1>1. Sound(there) /\ there \in ServerState
  BY ClampTyped, EnterSound DEF Sound, Kept
<1>2. there.focused = Nobody
  BY DEF EnterWorkspace, ClearFocus, Sound, Kept, FocusSound, ServerState
<1>3. Go(s, idx) = r
  BY DEF Go
<1> HIDE DEF there
<1>4. vis \subseteq Listed(there) /\ vis \subseteq Window
      /\ \A w \in vis : w \in there.mapped /\ there.workspace[w] = there.current
  BY <1>1, ListedTyped DEF OnWorkspace
<1> HIDE DEF vis
<1>5. CASE vis = {}
  <2>1. pick = Nobody
    BY <1>5 DEF FirstListed
  <2>2. on = there
    BY <2>1 DEF FocusPick
  <2>3. seen.shown = {} /\ seen.focused = Nobody
    BY <1>1, <1>2, <1>5, <2>2 DEF ApplyVisibility, ServerState, vis
  <2> HIDE DEF seen
  <2>4. r.shown = seen.shown /\ r.focused = seen.focused
    BY <1>1, <2>2, VisibilitySound, SyncAllSound, SyncAllFocus DEF SameWindows, seen
  <2>5. QED
    BY <1>3, <2>3, <2>4
<1>6. CASE vis # {}
  <2>1. pick \in vis
    BY <1>1, <1>4, <1>6, PickExists
  <2> HIDE DEF pick
  <2>2. pick \in Window /\ pick # Nobody
    BY <1>4, <2>1, NobodyAssumption
  <2>3. Focusable(there, pick)
    BY <1>2, <1>4, <2>1, <2>2 DEF Focusable
  <2>4. on = FocusToplevel(there, pick)
    BY <2>2 DEF FocusPick
  <2>5. /\ Sound(on) /\ SameWindows(on, there) /\ on.focused = pick
        /\ on.keyboard = pick
    BY <1>1, <2>2, <2>3, <2>4, FocusTakes DEF Sound
  <2> HIDE DEF on
  <2>6. on \in ServerState /\ OnWorkspace(on, on.current) \ on.minimized = vis
    BY <2>5 DEF Sound, Kept, SameWindows, OnWorkspace, Listed, vis
  <2>7. seen.shown = vis /\ seen.focused = pick /\ seen.keyboard = pick
    BY <2>5, <2>6 DEF ApplyVisibility, ServerState
  <2>8. Sound(seen)
    BY <2>5, VisibilitySound
  <2> HIDE DEF seen
  <2>9. r.shown = vis /\ r.focused = pick /\ r.keyboard = pick
    BY <2>7, <2>8, SyncAllSound, SyncAllFocus DEF SameWindows
  <2> HIDE DEF r
  <2>10. QED
    BY <1>3, <2>1, <2>9
<1>7. QED
  BY <1>5, <1>6

(* Bringing a window back touches neither the focus nor the keyboard. *)
LEMMA RestoreFocus ==
  ASSUME NEW s \in ServerState, NEW w \in Window
  PROVE  LET r == SetMinimized(s, w, FALSE)
         IN  r.focused = s.focused /\ r.keyboard = s.keyboard
<1> DEFINE back == [s EXCEPT !.minimized = @ \ {w}]
           seen == ApplyVisibility(back)
<1>1. seen.focused = s.focused /\ seen.keyboard = s.keyboard
  BY DEF ApplyVisibility, ServerState
<1>2. seen \in ServerState
  <2>1. back \in ServerState
    BY DEF ServerState
  <2> HIDE DEF back
  <2>2. OnWorkspace(back, back.current) \in SUBSET Window
    BY <2>1, ListedTyped DEF OnWorkspace
  <2>3. QED
    BY <2>1, <2>2 DEF ApplyVisibility, ServerState
<1>3. SetMinimized(s, w, FALSE) \in {s, ForeignRefresh(seen, w)}
  BY DEF SetMinimized
<1> HIDE DEF seen
<1>4. /\ ForeignRefresh(seen, w).focused = seen.focused
      /\ ForeignRefresh(seen, w).keyboard = seen.keyboard
  BY <1>2 DEF ForeignRefresh, ServerState
<1>5. QED
  BY <1>1, <1>3, <1>4

(* The workspace changes by a switch, or by a switch that goes on to focus *)
(* the window a bar asked for, and that one is shown.                      *)
LEMMA SwitchStep ==
  ASSUME IInv, IInv', [Next]_vars, current' # current
  PROVE  IF shown' = {} THEN focused' = Nobody
         ELSE focused' \in shown' /\ keyboard' = focused'
<1>1. PICK s \in ServerState : s = Server /\ Sound(s) /\ Exact(s)
  BY DEF IInv, Sound, Kept
<1>2. /\ s.workspace = workspace /\ s.current = current /\ s.mapped = mapped
      /\ current \in Workspace /\ workspace \in [Window -> Workspace]
  BY <1>1 DEF Server, ServerState
<1>3. \A i \in Workspace : i \in Int /\ Clamp(i) = i
  BY CountAssumption DEF Workspace, Clamp
<1>4. ASSUME NEW i \in Int, Becomes(Go(s, i))
      PROVE  IF shown' = {} THEN focused' = Nobody
             ELSE focused' \in shown' /\ keyboard' = focused'
  <2>1. Clamp(i) # s.current
    BY <1>1, <1>2, <1>4, GoFrame, Fields
  <2>2. /\ focused' = Go(s, i).focused /\ keyboard' = Go(s, i).keyboard
        /\ shown' = Go(s, i).shown
    BY <1>4 DEF Becomes
  <2>3. QED
    BY <1>1, <2>1, <2>2, GoFocuses
<1>5. ASSUME NEW w \in Window, ForeignActivate(w)
      PROVE  focused' = w /\ w \in shown' /\ keyboard' = w
  <2> DEFINE there == Go(s, workspace[w])
             back  == SetMinimized(there, w, FALSE)
             on    == FocusToplevel(back, w)
  <2>1. /\ UNCHANGED << toplevels, mapped, workspace >> /\ focused' = w
        /\ current' = workspace[w] /\ minimized' = minimized \ {w}
    BY <1>5, ActivateFrame
  <2>2. w \in mapped /\ Becomes(ForeignSyncAll(on))
    BY <1>1, <1>5, <2>1 DEF ForeignActivate
  <2>3. w \in shown'
    BY <2>1, <2>2 DEF IInv, Exact, Sound, Kept, OnWorkspace, Listed, Server
  <2>4. workspace[w] \in Int /\ Clamp(workspace[w]) = workspace[w] /\ workspace[w] # current
    BY <1>2, <1>3, <2>1
  <2>5. /\ Sound(there) /\ Exact(there) /\ SameMembers(there, s)
        /\ there.workspace = workspace /\ there.current = workspace[w]
    BY <1>1, <1>2, <2>4, GoSound, GoFrame
  <2>6. there.focused = w => there.keyboard = w
    BY <1>1, <1>2, <2>4, GoFocuses, NobodyAssumption
  <2> HIDE DEF there
  <2>7. /\ Sound(back) /\ SameMembers(back, there) /\ back.workspace = workspace
        /\ back.current = workspace[w]
        /\ back.focused = there.focused /\ back.keyboard = there.keyboard
    BY <2>5, MinimizedSound, MinimizedFrame, RestoreFocus DEF Sound, Kept
  <2> HIDE DEF back
  <2>8. w \in back.mapped
    BY <1>2, <2>2, <2>5, <2>7 DEF SameMembers
  <2>9. Sound(on) /\ on.keyboard = w
    <3>1. CASE Focusable(back, w)
      BY <2>7, <3>1, FocusTakes DEF Sound
    <3>2. CASE ~ Focusable(back, w)
      BY <2>6, <2>7, <2>8, <3>2 DEF Focusable, FocusToplevel
    <3>3. QED
      BY <3>1, <3>2
  <2> HIDE DEF on
  <2>10. keyboard' = w
    BY <2>2, <2>9, SyncAllFocus DEF Becomes
  <2>11. QED
    BY <2>1, <2>3, <2>10
<1>6. ASSUME NEW v \in Window, ~ ForeignActivate(v)
      PROVE  ~ ClientStep(v) /\ ~ PointerStep(v)
  <2>1. ~ NewToplevel(v) /\ ~ Destroy(v) /\ ~ Map(v) /\ ~ Unmap(v)
    BY NewFrame, DestroyFrame, MapFrame, UnmapFrame
  <2>2. /\ ~ ConfigureAcked(v) /\ ~ MetadataChanged(v) /\ ~ RequestMove(v)
        /\ ~ RequestResize(v) /\ ~ PointerStep(v) /\ ~ RequestMinimize(v)
    BY WindowSteady, MinimizeSteady DEF Steady
  <2>3. QED
    BY <1>6, <2>1, <2>2 DEF ClientStep
<1>7. ASSUME NEW l \in Layer
      PROVE  ~ LayerStep(l)
  BY LayerSteady DEF Steady
<1>8. ~ Release /\ ~ UNCHANGED vars
  BY ReleaseFrame DEF vars, Steady
<1>9. CASE WorkspaceStep
  <2>1. ASSUME NEW i \in Workspace
        PROVE  ~ WorkspaceMove(i)
    BY <1>1, <1>2, <1>3, MoveFrame, Fields DEF WorkspaceMove
  <2>2. \A d \in {-1, 1} : (current + d) % WorkspaceCount \in Int
    BY <1>2, <1>3, CountAssumption
  <2>3. QED
    BY <1>1, <1>3, <1>4, <1>9, <2>1, <2>2 DEF WorkspaceStep, WorkspaceGo, WorkspaceRelative
<1>10. QED
  BY <1>5, <1>6, <1>7, <1>8, <1>9 DEF Next

(* A mapped window that was minimized reappears only with the focus, or    *)
(* not before it has been unmapped.                                        *)
THEOREM MinimizedStays == Spec => MinimizedUntilActivated
<1>1. IInv /\ [Next]_vars =>
        [\A w \in mapped \cap mapped' :
            w \in minimized /\ w \notin minimized' => focused' = w]_vars
  BY UnminimizedStep
<1>2. QED
  BY <1>1, Invariance, PTL DEF Spec, MinimizedUntilActivated

(* No callback moves a living window to another workspace but the command  *)
(* that moves the focused one, and that one goes out of sight unfocused.   *)
THEOREM MovesOnlyFocused == Spec => OnlyFocusedMoves
<1>1. IInv /\ IInv' /\ [Next]_vars =>
        [\A w \in mapped \cap mapped' :
            workspace'[w] # workspace[w] =>
              focused = w /\ focused' # w /\ w \notin shown']_vars
  BY MovedStep
<1>2. QED
  BY <1>1, Invariance, PTL DEF Spec, OnlyFocusedMoves

(* Whichever callback switches the workspace, the focus and the keyboard   *)
(* end on a window the user can see, if the workspace shows one.           *)
THEOREM SwitchesFocusShown == Spec => SwitchFocusesShown
<1>1. IInv /\ IInv' /\ [Next]_vars =>
        [current' # current =>
            IF shown' = {} THEN focused' = Nobody
            ELSE focused' \in shown' /\ keyboard' = focused']_vars
  BY SwitchStep
<1>2. QED
  BY <1>1, Invariance, PTL DEF Spec, SwitchFocusesShown

-----------------------------------------------------------------------------
(* Desktop implements Toplevels *)

LEMMA DeskStepIsStep == [DeskNext]_dvars => [Next]_vars
<1> SUFFICES ASSUME [DeskNext]_dvars PROVE [Next]_vars
  OBVIOUS
<1>1. ASSUME NEW w \in Window, DeskClientStep(w)
      PROVE  ClientStep(w)
  BY <1>1 DEF DeskClientStep, ClientStep, DeskNew, DeskMap, TitleChanged, DeskUnmap,
     DeskDestroy, DeskResize, DeskActivate
<1>2. ASSUME NEW w \in Window, DeskPointerStep(w)
      PROVE  PointerStep(w)
  BY <1>2 DEF DeskPointerStep, PointerStep, DeskEdgePress
<1>3. ASSUME NEW l \in Layer, DeskLayerStep(l)
      PROVE  LayerStep(l)
  BY <1>3 DEF DeskLayerStep, LayerStep
<1>4. DeskWorkspaceStep => WorkspaceStep
  BY DEF DeskWorkspaceStep
<1>5. DeskRelease => Release
  BY DEF DeskRelease
<1>6. ASSUME \/ GrabMotion \/ OutputCommit
             \/ \E F \in SUBSET Listed(Server) :
                   Reload(F) \/ \E l \in {"stack", "tile"} : SetLayout(l, F)
             \/ UNCHANGED dvars
      PROVE  UNCHANGED vars
  BY <1>6 DEF GrabMotion, OutputCommit, Reload, SetLayout, dvars
<1>7. QED
  BY <1>1, <1>2, <1>3, <1>4, <1>5, <1>6 DEF DeskNext, Next

(* Whatever the compositor does with layouts and stacking order, its       *)
(* window core behaves as Toplevels says.                                  *)
THEOREM DesktopImplementsToplevels == DeskSpec => Spec
<1>1. DeskInit => Init
  BY DEF DeskInit
<1>2. QED
  BY <1>1, DeskStepIsStep, PTL DEF DeskSpec, Spec

-----------------------------------------------------------------------------
(* Lists that hold each window once *)

Once(seq) == seq \in Seq(Window) /\ IsInjective(seq)

(* Unlinking takes the window out and leaves the others in their order.    *)
LEMMA UnlinkOnce ==
  ASSUME NEW seq, Once(seq), NEW w \in ToSet(seq)
  PROVE  /\ Once(Unlink(seq, w))
         /\ Len(Unlink(seq, w)) = Len(seq) - 1
         /\ ToSet(Unlink(seq, w)) = ToSet(seq) \ {w}
         /\ \A u, v : u # w /\ v # w /\ Precedes(seq, u, v) => Precedes(Unlink(seq, w), u, v)
<1> DEFINE r == Unlink(seq, w)
           n == Len(seq)
           At(i, k) == IF i < k THEN i ELSE i - 1
<1>1. seq \in Seq(Window) /\ IsInjective(seq)
  BY DEF Once
<1>2. PICK k \in 1 .. n : /\ seq[k] = w
                          /\ \A i \in 1 .. n - 1 : r[i] = IF i < k THEN seq[i] ELSE seq[i + 1]
  BY <1>1, UnlinkElements
<1>3. /\ r \in Seq(Window) /\ Len(r) = n - 1 /\ n \in Nat
      /\ DOMAIN r = 1 .. n - 1 /\ DOMAIN seq = 1 .. n
  BY <1>1, UnlinkElements, LenProperties
<1> HIDE DEF r, n
<1>4. \A i, j \in 1 .. n : seq[i] = seq[j] => i = j
  BY <1>1, <1>3 DEF IsInjective
<1>5. ASSUME NEW i \in 1 .. n, i # k
      PROVE  At(i, k) \in 1 .. n - 1 /\ r[At(i, k)] = seq[i]
  <2>1. CASE i < k
    <3>1. i \in 1 .. n - 1 /\ At(i, k) = i
      BY <1>3, <2>1
    <3>2. QED
      BY <1>2, <2>1, <3>1
  <2>2. CASE i > k
    <3>1. i - 1 \in 1 .. n - 1 /\ ~ (i - 1 < k) /\ (i - 1) + 1 = i /\ At(i, k) = i - 1
      BY <1>3, <2>2
    <3>2. QED
      BY <1>2, <3>1
  <2>3. QED
    BY <1>3, <1>5, <2>1, <2>2
<1>6. ASSUME NEW i \in 1 .. n - 1
      PROVE  \E j \in 1 .. n : j # k /\ r[i] = seq[j] /\ At(j, k) = i
  <2>1. CASE i < k
    <3>1. i \in 1 .. n /\ i # k /\ At(i, k) = i
      BY <1>3, <2>1
    <3>2. QED
      BY <1>2, <2>1, <3>1
  <2>2. CASE ~ (i < k)
    <3>1. i + 1 \in 1 .. n /\ i + 1 # k /\ At(i + 1, k) = i
      BY <1>3, <2>2
    <3>2. QED
      BY <1>2, <2>2, <3>1
  <2>3. QED
    BY <2>1, <2>2
<1>7. IsInjective(r)
  BY <1>3, <1>4, <1>6 DEF IsInjective
<1>8. ToSet(r) = ToSet(seq) \ {w}
  <2>1. ASSUME NEW v \in ToSet(seq), v # w
        PROVE  v \in ToSet(r)
    <3>1. PICK i \in 1 .. n : seq[i] = v /\ i # k
      BY <1>2, <1>3, <2>1 DEF ToSet
    <3>2. QED
      BY <1>3, <1>5, <3>1 DEF ToSet
  <2>2. ASSUME NEW v \in ToSet(r)
        PROVE  v \in ToSet(seq) /\ v # w
    <3>1. PICK i \in 1 .. n - 1 : r[i] = v
      BY <1>3 DEF ToSet
    <3>2. PICK j \in 1 .. n : j # k /\ v = seq[j]
      BY <1>6, <3>1
    <3>3. QED
      BY <1>2, <1>3, <1>4, <3>2 DEF ToSet
  <2>3. QED
    BY <2>1, <2>2
<1>9. ASSUME NEW u, NEW v, u # w, v # w, Precedes(seq, u, v)
      PROVE  Precedes(r, u, v)
  <2>1. PICK i, j \in 1 .. n : i < j /\ seq[i] = u /\ seq[j] = v
    BY <1>3, <1>9 DEF Precedes
  <2>2. i # k /\ j # k
    BY <1>2, <1>9, <2>1
  <2>3. At(i, k) < At(j, k)
    BY <1>3, <2>1, <2>2
  <2> HIDE DEF At
  <2>4. QED
    BY <1>3, <1>5, <2>1, <2>2, <2>3 DEF Precedes
<1>10. QED
  BY <1>3, <1>7, <1>8, <1>9 DEF Once, r, n

(* Appending puts a window that was not in the list after all the others.  *)
LEMMA AppendOnce ==
  ASSUME NEW seq, Once(seq), NEW w \in Window \ ToSet(seq)
  PROVE  /\ Once(Append(seq, w))
         /\ Len(Append(seq, w)) = Len(seq) + 1
         /\ ToSet(Append(seq, w)) = ToSet(seq) \cup {w}
         /\ \A u, v : Precedes(seq, u, v) => Precedes(Append(seq, w), u, v)
         /\ \A u \in ToSet(seq) : Precedes(Append(seq, w), u, w)
<1> DEFINE r == Append(seq, w)
           n == Len(seq)
<1>1. seq \in Seq(Window) /\ IsInjective(seq)
  BY DEF Once
<1>2. /\ r \in Seq(Window) /\ Len(r) = n + 1 /\ n \in Nat
      /\ \A i \in 1 .. n : r[i] = seq[i]
      /\ r[n + 1] = w
      /\ DOMAIN r = 1 .. n + 1 /\ DOMAIN seq = 1 .. n
  BY <1>1, AppendProperties, LenProperties
<1>3. ToSet(r) = ToSet(seq) \cup {w}
  BY <1>1, AppendListed
<1> HIDE DEF r, n
<1>4. IsInjective(r)
  <2>1. \A i \in 1 .. n : r[i] # w
    BY <1>2 DEF ToSet
  <2>2. \A i, j \in 1 .. n : r[i] = r[j] => i = j
    BY <1>1, <1>2 DEF IsInjective
  <2>3. \A i \in 1 .. n + 1 : i \in 1 .. n \/ i = n + 1
    BY <1>2
  <2>4. QED
    BY <1>2, <2>1, <2>2, <2>3 DEF IsInjective
<1>5. \A i \in 1 .. n : i \in 1 .. n + 1 /\ i < n + 1
  BY <1>2
<1>6. n + 1 \in 1 .. n + 1
  BY <1>2
<1>7. \A u, v : Precedes(seq, u, v) => Precedes(r, u, v)
  BY <1>2, <1>5 DEF Precedes
<1>8. \A u \in ToSet(seq) : Precedes(r, u, w)
  BY <1>2, <1>5, <1>6 DEF Precedes, ToSet
<1>9. QED
  BY <1>2, <1>3, <1>4, <1>7, <1>8 DEF Once, r, n

(* Raising a node puts it above all the others and changes nothing else.   *)
LEMMA RaiseOnce ==
  ASSUME NEW seq, Once(seq), NEW w \in ToSet(seq)
  PROVE  /\ Once(Raise(seq, w))
         /\ Len(Raise(seq, w)) = Len(seq)
         /\ ToSet(Raise(seq, w)) = ToSet(seq)
         /\ \A u, v : u # w /\ v # w /\ Precedes(seq, u, v) => Precedes(Raise(seq, w), u, v)
         /\ \A u \in ToSet(seq) \ {w} : Precedes(Raise(seq, w), u, w)
<1> DEFINE r == Unlink(seq, w)
<1>1. w \in Window
  <2>1. PICK i \in DOMAIN seq : seq[i] = w
    BY DEF ToSet
  <2>2. QED
    BY <2>1, LenProperties, ElementOfSeq DEF Once
<1>2. /\ Once(r) /\ Len(r) = Len(seq) - 1 /\ ToSet(r) = ToSet(seq) \ {w}
      /\ \A u, v : u # w /\ v # w /\ Precedes(seq, u, v) => Precedes(r, u, v)
  BY UnlinkOnce
<1>3. Raise(seq, w) = Append(r, w)
  BY DEF Raise
<1>4. Len(seq) \in Nat
  BY LenProperties DEF Once
<1> HIDE DEF r
<1>5. /\ Once(Append(r, w)) /\ Len(Append(r, w)) = Len(r) + 1
      /\ ToSet(Append(r, w)) = ToSet(r) \cup {w}
      /\ \A u, v : Precedes(r, u, v) => Precedes(Append(r, w), u, v)
      /\ \A u \in ToSet(r) : Precedes(Append(r, w), u, w)
  BY <1>1, <1>2, AppendOnce
<1>6. QED
  BY <1>2, <1>3, <1>4, <1>5

-----------------------------------------------------------------------------
(* The inductive invariant *)

(* In the stack layout the focused window is above all of its workspace's. *)
FocusCovers ==
  layout = "stack" /\ focused # Nobody =>
    \A w \in OnWorkspace(Server, current) \ {focused} : Precedes(order, w, focused)

SceneSound ==
  /\ Once(toplevels) /\ Once(order)
  /\ ToSet(order) = Listed(Server) /\ Len(order) = Len(toplevels)
  /\ layout \in {"stack", "tile"}
  /\ floats \in SUBSET Listed(Server)
  /\ stale \in BOOLEAN

DInv == IInv /\ SceneSound /\ FocusCovers

LEMMA ListedIs == Listed(Server) = ToSet(toplevels) /\ Listed(Server)' = ToSet(toplevels')
BY DEF Listed, Server

LEMMA TiledIs == Tiled = {w \in ToSet(toplevels) : w \in mapped /\ workspace[w] = current}
                           \ (minimized \cup floats)
BY DEF Tiled, OnWorkspace, Listed, Server

(* What every kind of step shares, and what only some steps do to a scene. *)
LEMMA SameScene ==
  ASSUME SceneSound, UNCHANGED << toplevels, order, floats, layout >>, stale' \in BOOLEAN
  PROVE  SceneSound'
BY DEF SceneSound, Once, Listed, Server

LEMMA ArrangedIsBoolean ==
  ASSUME NEW c, ArrangesIf(c)
  PROVE  stale' \in BOOLEAN
BY DEF ArrangesIf

(* A focus that changes in the stack layout raises, so it covers; one that *)
(* stays covers as long as its workspace gained no window.                 *)
LEMMA FocusRaisesCovers ==
  ASSUME DInv, IInv', FocusRaises, UNCHANGED << toplevels, layout >>,
         focused' = focused /\ focused # Nobody =>
           OnWorkspace(Server, current)' \subseteq OnWorkspace(Server, current) \cup {focused}
  PROVE  /\ Once(order') /\ ToSet(order') = ToSet(order) /\ Len(order') = Len(order)
         /\ FocusCovers'
<1>1. Once(order) /\ ToSet(order) = ToSet(toplevels)
  BY ListedIs DEF DInv, SceneSound
<1>2. focused' # Nobody => focused' \in ToSet(order)
  BY <1>1, ListedIs DEF IInv, Sound, Kept, FocusSound, Server
<1>3. OnWorkspace(Server, current)' \subseteq ToSet(order)
  BY <1>1, ListedIs DEF OnWorkspace
<1>4. CASE focused' \notin {focused, Nobody} /\ Free(focused')
  <2>1. order' = Raise(order, focused')
    BY <1>4 DEF FocusRaises
  <2>2. /\ Once(Raise(order, focused')) /\ Len(Raise(order, focused')) = Len(order)
        /\ ToSet(Raise(order, focused')) = ToSet(order)
        /\ \A u \in ToSet(order) \ {focused'} : Precedes(Raise(order, focused'), u, focused')
    BY <1>1, <1>2, <1>4, RaiseOnce
  <2>3. QED
    BY <1>3, <2>1, <2>2 DEF FocusCovers
<1>5. CASE ~ (focused' \notin {focused, Nobody} /\ Free(focused'))
  <2>1. order' = order
    BY <1>5 DEF FocusRaises
  <2>2. FocusCovers'
    <3> SUFFICES ASSUME layout' = "stack", focused' # Nobody,
                        NEW w \in OnWorkspace(Server, current)' \ {focused'}
                 PROVE  Precedes(order', w, focused')
      BY DEF FocusCovers
    <3>1. focused' = focused
      BY <1>5 DEF Free
    <3>2. w \in OnWorkspace(Server, current) \ {focused}
      BY <3>1
    <3>3. QED
      BY <2>1, <3>1, <3>2 DEF DInv, FocusCovers
  <2>3. QED
    BY <1>1, <2>1, <2>2
<1>6. QED
  BY <1>4, <1>5

LEMMA QuietFocus ==
  ASSUME IInv, NEW w \in Window,
         ConfigureAcked(w) \/ MetadataChanged(w) \/ RequestMove(w)
  PROVE  focused' = focused
<1>1. PICK s \in ServerState : s = Server
  BY DEF IInv, Sound, Kept
<1>2. s.focused = focused
  BY <1>1 DEF Server
<1>3. ForeignRefresh(s, w).focused = focused
  BY <1>2, RefreshTyped
<1>4. /\ [s EXCEPT !.configured = @ \cup {w}].focused = focused
      /\ BeginGrab(s, w, "move").focused = focused
  BY <1>2 DEF BeginGrab, ServerState
<1>5. QED
  BY <1>1, <1>3, <1>4, Fields DEF ConfigureAcked, MetadataChanged, RequestMove

(* The windows of the workspace are the same if no callback touched them.  *)
LEMMA SteadyWorkspace ==
  ASSUME Steady
  PROVE  OnWorkspace(Server, current)' = OnWorkspace(Server, current)
BY DEF Steady, OnWorkspace, Listed, Server

(* Steps that may change the focus and raise for it. *)
LEMMA FocusStepKeeps ==
  ASSUME DInv, IInv', FocusRaises, UNCHANGED << toplevels, layout, floats >>,
         stale' \in BOOLEAN,
         focused' = focused /\ focused # Nobody =>
           OnWorkspace(Server, current)' \subseteq OnWorkspace(Server, current) \cup {focused}
  PROVE  DInv'
<1>1. /\ Once(order') /\ ToSet(order') = ToSet(order) /\ Len(order') = Len(order)
      /\ FocusCovers'
  BY FocusRaisesCovers
<1>2. SceneSound'
  BY <1>1, ListedIs DEF DInv, SceneSound, Once
<1>3. QED
  BY <1>1, <1>2 DEF DInv

(* Steps that leave the focus and the nodes as they are. *)
LEMMA QuietStepKeeps ==
  ASSUME DInv, IInv', UNCHANGED << toplevels, layout, order, focused >>,
         floats' \in SUBSET Listed(Server), stale' \in BOOLEAN,
         OnWorkspace(Server, current)' \subseteq OnWorkspace(Server, current)
  PROVE  DInv'
<1>1. SceneSound'
  BY ListedIs DEF DInv, SceneSound, Once
<1>2. FocusCovers'
  BY DEF DInv, FocusCovers
<1>3. QED
  BY <1>1, <1>2 DEF DInv

LEMMA NewKeeps ==
  ASSUME DInv, IInv', NEW w \in Window, DeskNew(w)
  PROVE  DInv'
<1>1. /\ toplevels' = Append(toplevels, w) /\ w \notin mapped
      /\ UNCHANGED << mapped, current, focused >>
      /\ \A v \in Window : v # w => workspace'[v] = workspace[v]
  BY NewFrame DEF DeskNew, DInv
<1>2. w \notin ToSet(toplevels) /\ w \notin ToSet(order)
  BY ListedIs DEF DeskNew, NewToplevel, DInv, SceneSound
<1>3. /\ order' = Append(order, w) /\ UNCHANGED << layout, floats, stale >>
  BY DEF DeskNew
<1>4. /\ Once(Append(toplevels, w)) /\ Len(Append(toplevels, w)) = Len(toplevels) + 1
      /\ ToSet(Append(toplevels, w)) = ToSet(toplevels) \cup {w}
  BY <1>2, AppendOnce DEF DInv, SceneSound
<1>5. /\ Once(Append(order, w)) /\ Len(Append(order, w)) = Len(order) + 1
      /\ ToSet(Append(order, w)) = ToSet(order) \cup {w}
      /\ \A u, v : Precedes(order, u, v) => Precedes(Append(order, w), u, v)
  BY <1>2, AppendOnce DEF DInv, SceneSound
<1>6. SceneSound'
  BY <1>1, <1>3, <1>4, <1>5, ListedIs DEF DInv, SceneSound
<1>7. OnWorkspace(Server, current)' \subseteq OnWorkspace(Server, current)
  <2>1. mapped \subseteq Window
    BY DEF DInv, IInv, Sound, Kept, Server, ServerState
  <2>2. SUFFICES ASSUME NEW v \in OnWorkspace(Server, current)'
                 PROVE  v \in OnWorkspace(Server, current)
    OBVIOUS
  <2>3. v \in ToSet(toplevels') /\ v \in mapped' /\ workspace'[v] = current'
    BY ListedIs DEF OnWorkspace, Server
  <2>4. v \in mapped /\ v # w /\ v \in Window
    BY <1>1, <2>1, <2>3
  <2>5. v \in ToSet(toplevels) /\ workspace[v] = current
    BY <1>1, <1>4, <2>3, <2>4
  <2>6. QED
    BY <2>4, <2>5, ListedIs DEF OnWorkspace, Server
<1>8. FocusCovers'
  BY <1>1, <1>3, <1>5, <1>7 DEF DInv, FocusCovers
<1>9. QED
  BY <1>6, <1>8 DEF DInv

(* A window that maps elsewhere is raised, but not over anything shown.    *)
LEMMA MapKeeps ==
  ASSUME DInv, IInv', NEW w \in Window, NEW float \in BOOLEAN, DeskMap(w, float)
  PROVE  DInv'
<1>1. /\ UNCHANGED << toplevels, workspace, current >>
      /\ mapped' = mapped \cup {w} /\ w \in Listed(Server)
      /\ focused' = IF workspace[w] = current THEN w ELSE focused
  BY MapFrame DEF DeskMap, DInv
<1>2. /\ order' = (IF layout = "stack" \/ float THEN Raise(order, w) ELSE order)
      /\ layout' = layout /\ stale' \in BOOLEAN
      /\ floats' \subseteq floats \cup {w}
  BY ArrangedIsBoolean DEF DeskMap
<1>3. /\ Once(Raise(order, w)) /\ Len(Raise(order, w)) = Len(order)
      /\ ToSet(Raise(order, w)) = ToSet(order)
      /\ \A u, v : u # w /\ v # w /\ Precedes(order, u, v) => Precedes(Raise(order, w), u, v)
      /\ \A u \in ToSet(order) \ {w} : Precedes(Raise(order, w), u, w)
  BY <1>1, RaiseOnce DEF DInv, SceneSound
<1>4. SceneSound'
  BY <1>1, <1>2, <1>3, ListedIs DEF DInv, SceneSound, Once
<1>5. FocusCovers'
  <2> SUFFICES ASSUME layout = "stack", focused' # Nobody,
                      NEW v \in OnWorkspace(Server, current)' \ {focused'}
               PROVE  Precedes(order', v, focused')
    BY <1>2 DEF FocusCovers
  <2>1. order' = Raise(order, w)
    BY <1>2
  <2>2. v \in ToSet(order)
    BY <1>1, ListedIs DEF OnWorkspace, DInv, SceneSound
  <2>3. CASE workspace[w] = current
    BY <1>1, <1>3, <2>1, <2>2, <2>3
  <2>4. CASE workspace[w] # current
    <3>1. v # w /\ v \in OnWorkspace(Server, current)
      BY <1>1, <2>4, ListedIs DEF OnWorkspace, Server
    <3>2. focused' = focused /\ focused # w
      BY <1>1, <2>4 DEF DInv, IInv, Sound, FocusSound, Server
    <3>3. Precedes(order, v, focused)
      BY <3>1, <3>2 DEF DInv, FocusCovers
    <3>4. QED
      BY <1>3, <2>1, <3>1, <3>2, <3>3
  <2>5. QED
    BY <2>3, <2>4
<1>6. QED
  BY <1>4, <1>5 DEF DInv

LEMMA UnmapKeeps ==
  ASSUME DInv, IInv', NEW w \in Window, DeskUnmap(w)
  PROVE  DInv'
<1>1. /\ UNCHANGED << toplevels, workspace, current >> /\ mapped' = mapped \ {w}
      /\ focused' \in {focused, Nobody}
  BY UnmapFrame DEF DeskUnmap, DInv
<1>2. UNCHANGED << layout, floats, order >> /\ stale' \in BOOLEAN
  BY ArrangedIsBoolean DEF DeskUnmap
<1>3. SceneSound'
  BY <1>1, <1>2, SameScene DEF DInv
<1>4. OnWorkspace(Server, current)' \subseteq OnWorkspace(Server, current)
  BY <1>1, ListedIs DEF OnWorkspace, Server
<1>5. FocusCovers'
  BY <1>1, <1>2, <1>4 DEF DInv, FocusCovers
<1>6. QED
  BY <1>3, <1>5 DEF DInv

LEMMA DestroyKeeps ==
  ASSUME DInv, IInv', NEW w \in Window, DeskDestroy(w)
  PROVE  DInv'
<1>1. /\ toplevels' = Unlink(toplevels, w) /\ w \in Listed(Server) /\ w \notin mapped
      /\ UNCHANGED << mapped, current, focused >>
      /\ \A v \in Window : v # w => workspace'[v] = workspace[v]
  BY DestroyFrame DEF DeskDestroy, DInv
<1>2. /\ order' = Unlink(order, w) /\ floats' = floats \ {w} /\ layout' = layout
      /\ stale' \in BOOLEAN
  BY ArrangedIsBoolean DEF DeskDestroy
<1>3. w \in ToSet(toplevels) /\ w \in ToSet(order)
  BY <1>1, ListedIs DEF DInv, SceneSound
<1>4. /\ Once(Unlink(toplevels, w)) /\ Len(Unlink(toplevels, w)) = Len(toplevels) - 1
      /\ ToSet(Unlink(toplevels, w)) = ToSet(toplevels) \ {w}
  BY <1>3, UnlinkOnce DEF DInv, SceneSound
<1>5. /\ Once(Unlink(order, w)) /\ Len(Unlink(order, w)) = Len(order) - 1
      /\ ToSet(Unlink(order, w)) = ToSet(order) \ {w}
      /\ \A u, v : u # w /\ v # w /\ Precedes(order, u, v) => Precedes(Unlink(order, w), u, v)
  BY <1>3, UnlinkOnce DEF DInv, SceneSound
<1>6. SceneSound'
  BY <1>1, <1>2, <1>4, <1>5, ListedIs DEF DInv, SceneSound
<1>7. /\ OnWorkspace(Server, current)' \subseteq OnWorkspace(Server, current)
      /\ w \notin OnWorkspace(Server, current)'
  <2>1. mapped \subseteq Window
    BY DEF DInv, IInv, Sound, Kept, Server, ServerState
  <2>2. SUFFICES ASSUME NEW v \in OnWorkspace(Server, current)'
                 PROVE  v \in OnWorkspace(Server, current) /\ v # w
    OBVIOUS
  <2>3. v \in ToSet(toplevels') /\ v \in mapped' /\ workspace'[v] = current'
    BY ListedIs DEF OnWorkspace, Server
  <2>4. v \in mapped /\ v # w /\ v \in Window
    BY <1>1, <2>1, <2>3
  <2>5. v \in ToSet(toplevels) /\ workspace[v] = current
    BY <1>1, <1>4, <2>3, <2>4
  <2>6. QED
    BY <2>4, <2>5, ListedIs DEF OnWorkspace, Server
<1>8. focused # w
  BY <1>1, NobodyAssumption DEF DInv, IInv, Sound, FocusSound, Server
<1>9. FocusCovers'
  BY <1>1, <1>2, <1>5, <1>7, <1>8 DEF DInv, FocusCovers
<1>10. QED
  BY <1>6, <1>9 DEF DInv

(* An activated window ends above the others: it is raised on the way, or  *)
(* it already has the focus and is above them all.                         *)
LEMMA ActivateKeeps ==
  ASSUME DInv, IInv', NEW w \in Window, DeskActivate(w)
  PROVE  DInv'
<1> DEFINE pick  == IF workspace[w] # current THEN Go(Server, workspace[w]).focused ELSE focused
           first == IF pick \notin {focused, Nobody} /\ Free(pick) THEN Raise(order, pick)
                    ELSE order
<1>1. /\ UNCHANGED << toplevels, mapped, workspace >>
      /\ focused' = w /\ current' = workspace[w]
  BY ActivateFrame DEF DeskActivate, DInv
<1>2. /\ order' = (IF pick # w /\ Free(w) THEN Raise(first, w) ELSE first)
      /\ UNCHANGED << layout, floats >> /\ stale' \in BOOLEAN
  BY ArrangedIsBoolean DEF DeskActivate
<1>3. Once(order) /\ ToSet(order) = ToSet(toplevels) /\ Listed(Server)' = ToSet(toplevels)
      /\ Listed(Server) = ToSet(toplevels)
  BY <1>1, ListedIs DEF DInv, SceneSound
<1>4. w \in ToSet(order)
  BY <1>1, <1>3, NobodyAssumption DEF IInv, Sound, Kept, FocusSound, Server
<1>5. pick \in ToSet(order) \cup {Nobody}
  <2>1. ASSUME NEW s, Sound(s), Listed(s) = Listed(Server)
        PROVE  s.focused \in ToSet(order) \cup {Nobody}
    BY <1>3, <2>1 DEF Sound, Kept, FocusSound
  <2>2. Sound(Server) /\ Exact(Server) /\ workspace[w] \in Int /\ Server.focused = focused
    <3>1. Sound(Server) /\ Exact(Server) /\ Server.focused = focused
      BY DEF DInv, IInv, Server
    <3>2. workspace[w] \in Workspace
      BY <3>1, ServerTyped DEF Sound, Kept, TypeOK
    <3>3. QED
      BY <3>1, <3>2, CountAssumption DEF Workspace
  <2>3. Sound(Go(Server, workspace[w])) /\ Listed(Go(Server, workspace[w])) = Listed(Server)
    BY <2>2, GoSound, GoFrame, SameListed DEF SameMembers
  <2>4. QED
    BY <2>1, <2>2, <2>3
<1> HIDE DEF pick
<1>6. /\ Once(first) /\ Len(first) = Len(order) /\ ToSet(first) = ToSet(order)
      /\ pick \notin {focused, Nobody} /\ Free(pick) =>
           \A u \in ToSet(order) \ {pick} : Precedes(first, u, pick)
  BY <1>3, <1>5, RaiseOnce
<1>7. pick = focused => first = order
  OBVIOUS
<1> HIDE DEF first
<1>8. /\ Once(Raise(first, w)) /\ Len(Raise(first, w)) = Len(first)
      /\ ToSet(Raise(first, w)) = ToSet(first)
      /\ \A u \in ToSet(first) \ {w} : Precedes(Raise(first, w), u, w)
  BY <1>4, <1>6, RaiseOnce
<1>9. SceneSound'
  BY <1>1, <1>2, <1>3, <1>6, <1>8 DEF DInv, SceneSound, Once
<1>10. FocusCovers'
  <2> SUFFICES ASSUME layout = "stack", NEW v \in OnWorkspace(Server, current)' \ {w}
               PROVE  Precedes(order', v, w)
    BY <1>1, <1>2 DEF FocusCovers
  <2>1. v \in ToSet(order) \ {w}
    BY <1>3 DEF OnWorkspace
  <2>2. Free(w) /\ Free(pick)
    BY DEF Free
  <2>3. CASE pick # w
    BY <1>2, <1>6, <1>8, <2>1, <2>2, <2>3
  <2>4. CASE pick = w /\ workspace[w] # current
    <3>1. focused # w /\ w # Nobody
      BY <2>4, NobodyAssumption DEF DInv, IInv, Sound, FocusSound, Server
    <3>2. QED
      BY <1>2, <1>6, <2>1, <2>2, <2>4, <3>1
  <2>5. CASE pick = w /\ workspace[w] = current
    <3>1. w = focused /\ w # Nobody
      BY <2>5, NobodyAssumption DEF pick
    <3>2. order' = order
      BY <1>2, <1>7, <2>5, <3>1
    <3>3. v \in OnWorkspace(Server, current) \ {focused}
      BY <1>1, <2>5, <3>1, ListedIs DEF OnWorkspace, Server
    <3>4. QED
      BY <3>1, <3>2, <3>3 DEF DInv, FocusCovers
  <2>6. QED
    BY <2>3, <2>4, <2>5
<1>11. QED
  BY <1>9, <1>10 DEF DInv

LEMMA LayoutKeeps ==
  ASSUME DInv, IInv', NEW F \in SUBSET Listed(Server), NEW l \in {"stack", "tile"},
         SetLayout(l, F)
  PROVE  DInv'
<1>1. /\ UNCHANGED vars /\ layout' = l /\ floats' \in SUBSET Listed(Server)
      /\ order' = (IF l = "stack" /\ focused # Nobody THEN Raise(order, focused) ELSE order)
      /\ stale' \in BOOLEAN
  BY ArrangedIsBoolean DEF SetLayout, DInv, SceneSound
<1>2. UNCHANGED << toplevels, mapped, workspace, current, focused >>
  BY <1>1 DEF vars
<1>3. Once(order) /\ ToSet(order) = ToSet(toplevels) /\ Listed(Server)' = ToSet(toplevels)
      /\ Listed(Server) = ToSet(toplevels)
  BY <1>2, ListedIs DEF DInv, SceneSound
<1>4. focused # Nobody => focused \in ToSet(order)
  BY <1>3 DEF DInv, IInv, Sound, Kept, FocusSound, Server
<1>5. focused # Nobody =>
        /\ Once(Raise(order, focused)) /\ Len(Raise(order, focused)) = Len(order)
        /\ ToSet(Raise(order, focused)) = ToSet(order)
        /\ \A u \in ToSet(order) \ {focused} : Precedes(Raise(order, focused), u, focused)
  BY <1>3, <1>4, RaiseOnce
<1>6. SceneSound'
  BY <1>1, <1>2, <1>3, <1>5 DEF DInv, SceneSound, Once
<1>7. FocusCovers'
  BY <1>1, <1>2, <1>3, <1>5 DEF FocusCovers, OnWorkspace
<1>8. QED
  BY <1>6, <1>7 DEF DInv

(* A workspace command leaves the focus where it is only if no window came *)
(* to the focused one's workspace.                                         *)
LEMMA WorkspaceKeeps ==
  ASSUME DInv, IInv', DeskWorkspaceStep
  PROVE  DInv'
<1>1. /\ UNCHANGED << toplevels, mapped >>
      /\ \/ workspace' = workspace
         \/ current' = current /\ \A v \in Window : v # focused => workspace'[v] = workspace[v]
  BY WorkspaceFrame DEF DeskWorkspaceStep, DInv
<1>2. FocusRaises /\ UNCHANGED << layout, floats >> /\ stale' \in BOOLEAN
  BY ArrangedIsBoolean DEF DeskWorkspaceStep, FocusAndLayOut
<1>3. ASSUME focused' = focused, focused # Nobody
      PROVE  OnWorkspace(Server, current)' \subseteq OnWorkspace(Server, current) \cup {focused}
  <2>1. workspace[focused] = current /\ workspace'[focused] = current'
    BY <1>3 DEF DInv, IInv, Sound, FocusSound, Server
  <2>2. mapped \subseteq Window
    BY DEF DInv, IInv, Sound, Kept, Server, ServerState
  <2>3. QED
    BY <1>1, <2>1, <2>2, ListedIs DEF OnWorkspace, Server
<1>4. QED
  BY <1>1, <1>2, <1>3, FocusStepKeeps

LEMMA InitDInv == DeskInit => DInv
<1> SUFFICES ASSUME DeskInit PROVE DInv
  OBVIOUS
<1>1. IInv
  BY InitSound DEF DeskInit
<1>2. Once(<<>>) /\ ToSet(<<>>) = {}
  BY EmptySeq DEF Once, IsInjective, ToSet
<1>3. QED
  BY <1>1, <1>2, ListedIs DEF DeskInit, Init, DInv, SceneSound, FocusCovers

LEMMA NextDInv == DInv /\ [DeskNext]_dvars => DInv'
<1> SUFFICES ASSUME DInv, [DeskNext]_dvars PROVE DInv'
  OBVIOUS
<1>1. IInv'
  BY DeskStepIsStep, NextSound DEF DInv
<1>2. ASSUME FocusRaises, UNCHANGED << layout, floats >>, stale' \in BOOLEAN, Steady
      PROVE  DInv'
  BY <1>1, <1>2, FocusStepKeeps, SteadyWorkspace DEF Steady
<1>3. ASSUME UNCHANGED << layout, order, focused >>, Steady,
             floats' \in SUBSET Listed(Server), stale' \in BOOLEAN
      PROVE  DInv'
  BY <1>1, <1>3, QuietStepKeeps, SteadyWorkspace DEF Steady
<1>4. ASSUME SceneUntouched
      PROVE  UNCHANGED << layout, order >> /\ floats' \in SUBSET Listed(Server)
             /\ stale' \in BOOLEAN
  BY <1>4 DEF SceneUntouched, desk, DInv, SceneSound
<1>5. ASSUME NEW c, FocusAndLayOut(c)
      PROVE  FocusRaises /\ UNCHANGED << layout, floats >> /\ stale' \in BOOLEAN
  BY <1>5, ArrangedIsBoolean DEF FocusAndLayOut
<1>6. ASSUME FocusOnly
      PROVE  FocusRaises /\ UNCHANGED << layout, floats >> /\ stale' \in BOOLEAN
  BY <1>6, ArrangedIsBoolean DEF FocusOnly
<1>7. ASSUME UNCHANGED vars
      PROVE  Steady /\ focused' = focused
  BY <1>7 DEF vars, Steady
<1>8. ASSUME NEW w \in Window, DeskClientStep(w)
      PROVE  DInv'
  <2>1. CASE DeskNew(w) \/ DeskUnmap(w) \/ DeskDestroy(w) \/ DeskActivate(w)
    BY <1>1, <2>1, NewKeeps, UnmapKeeps, DestroyKeeps, ActivateKeeps
  <2>2. ASSUME NEW float \in BOOLEAN, DeskMap(w, float)
        PROVE  DInv'
    BY <1>1, <2>2, MapKeeps
  <2>3. ASSUME NEW float \in BOOLEAN, TitleChanged(w, float)
        PROVE  DInv'
    <3>1. /\ MetadataChanged(w) /\ UNCHANGED << layout, order >>
          /\ stale' \in BOOLEAN /\ floats' \subseteq floats \cup {w}
          /\ w \in Listed(Server)
      BY <2>3, ArrangedIsBoolean DEF TitleChanged, MetadataChanged
    <3>2. Steady /\ focused' = focused
      BY <3>1, WindowSteady, QuietFocus DEF DInv
    <3>3. QED
      BY <1>3, <3>1, <3>2 DEF DInv, SceneSound
  <2>4. CASE (ConfigureAcked(w) \/ RequestMove(w)) /\ SceneUntouched
    BY <1>3, <1>4, <2>4, WindowSteady, QuietFocus DEF DInv
  <2>5. CASE \/ RequestMinimize(w) /\ FocusAndLayOut(minimized' # minimized)
             \/ DeskResize(w)
    BY <1>2, <1>5, <1>6, <2>5, WindowSteady, MinimizeSteady DEF DInv, DeskResize
  <2>6. QED
    BY <1>8, <2>1, <2>2, <2>3, <2>4, <2>5 DEF DeskClientStep
<1>9. ASSUME NEW w \in Window, DeskPointerStep(w)
      PROVE  DInv'
  BY <1>2, <1>6, <1>9, WindowSteady DEF DInv, DeskPointerStep, DeskEdgePress, PointerStep
<1>10. ASSUME NEW l \in Layer, DeskLayerStep(l)
       PROVE  DInv'
  BY <1>2, <1>3, <1>4, <1>5, <1>10, LayerSteady DEF DInv, DeskLayerStep, LayerStep
<1>11. CASE DeskWorkspaceStep
  BY <1>1, <1>11, WorkspaceKeeps
<1>12. CASE DeskRelease
  BY <1>3, <1>12, ReleaseFrame, ArrangedIsBoolean DEF DeskRelease, DInv, SceneSound
<1>13. CASE GrabMotion \/ OutputCommit \/ UNCHANGED dvars
  <2>1. /\ UNCHANGED vars /\ UNCHANGED << layout, order, floats >> /\ stale' \in BOOLEAN
    BY <1>13, ArrangedIsBoolean DEF GrabMotion, OutputCommit, dvars, desk, DInv, SceneSound
  <2>2. QED
    BY <1>3, <1>7, <2>1 DEF DInv, SceneSound
<1>14. ASSUME NEW F \in SUBSET Listed(Server), Reload(F)
       PROVE  DInv'
  <2>1. /\ UNCHANGED vars /\ UNCHANGED << layout, order >> /\ floats' = F
        /\ stale' \in BOOLEAN
    BY <1>14, ArrangedIsBoolean DEF Reload
  <2>2. QED
    BY <1>3, <1>7, <2>1
<1>15. ASSUME NEW F \in SUBSET Listed(Server), NEW l \in {"stack", "tile"}, SetLayout(l, F)
       PROVE  DInv'
  BY <1>1, <1>15, LayoutKeeps
<1>16. QED
  BY <1>8, <1>9, <1>10, <1>11, <1>12, <1>13, <1>14, <1>15 DEF DeskNext

-----------------------------------------------------------------------------
(* What follows from the invariant *)

(* The inductive invariant holds in every reachable state. *)
THEOREM DeskInvariance == DeskSpec => []DInv
BY InitDInv, NextDInv, PTL DEF DeskSpec

(* Every variable always holds a value of its kind, and the scene always   *)
(* has one node for each toplevel.                                         *)
THEOREM DeskTypeCorrect == DeskSpec => []DeskTypeOK
<1>1. DInv => DeskTypeOK
  BY ServerTyped DEF DInv, IInv, Sound, Kept, SceneSound, Once, DeskTypeOK
<1>2. QED
  BY <1>1, DeskInvariance, PTL

(* In the stack layout nothing shown ever covers the focused window. *)
THEOREM FocusNeverCovered == DeskSpec => []FocusedOnTop
<1>1. DInv => FocusedOnTop
  BY NobodyAssumption DEF DInv, IInv, Exact, Sound, Kept, Server, ServerState, FocusCovers,
     FocusedOnTop
<1>2. QED
  BY <1>1, DeskInvariance, PTL

(* Everything ToplevelsProofs shows of the window core holds of the        *)
(* compositor with its layouts.                                            *)
THEOREM CoreCarriesOver ==
  DeskSpec => [](/\ TypeOK /\ FocusedIsLive /\ KeyboardFollowsFocus /\ ShownExactly
                 /\ GrabHasWindow /\ NothingDangles /\ FocusedIsTold)
BY DesktopImplementsToplevels, TypeCorrect, FocusLive, KeyboardSafe, VisibilityExact,
   GrabSound, NoDangling, FocusTold, PTL

(* So does what a step of the window core may never do. *)
THEOREM CoreStepsCarryOver ==
  DeskSpec => MinimizedUntilActivated /\ OnlyFocusedMoves /\ SwitchFocusesShown
BY DesktopImplementsToplevels, MinimizedStays, MovesOnlyFocused, SwitchesFocusShown, PTL

LEMMA NothingNewToTile ==
  ASSUME Steady, UNCHANGED << minimized, floats >>
  PROVE  Tiled' = Tiled
BY TiledIs DEF Steady, Tiled, OnWorkspace, Listed, Server

LEMMA Arranges ==
  ASSUME NEW c, ArrangesIf(c), c \/ (~stale /\ Tiled' = Tiled)
  PROVE  ~stale'
BY DEF ArrangesIf

(* The step that ends a move arranges, whichever callback makes it. *)
LEMMA MoveEndStep ==
  ASSUME DInv, [DeskNext]_dvars, grab = "move", grab' = "none"
  PROVE  ~stale'
<1>1. ~ GrabGoesOn /\ grab' # grab /\ NotMoving
  BY DEF GrabGoesOn, NotMoving
<1>2. ASSUME NEW w \in Window, DeskClientStep(w)
      PROVE  ~stale'
  <2>1. CASE DeskUnmap(w) \/ DeskDestroy(w)
    BY <1>1, <2>1, Arranges DEF DeskUnmap, DeskDestroy
  <2>2. ~ DeskNew(w) /\ ~ DeskActivate(w) /\ \A float \in BOOLEAN : ~ DeskMap(w, float)
    BY <1>1, NewFrame, ActivateFrame, MapFrame DEF DInv, DeskNew, DeskActivate, DeskMap
  <2>3. /\ ~ ConfigureAcked(w) /\ ~ MetadataChanged(w) /\ ~ RequestMinimize(w)
        /\ ~ RequestMove(w) /\ ~ RequestResize(w)
    BY <1>1, WindowSteady, MinimizeSteady DEF DInv
  <2>4. QED
    BY <1>2, <2>1, <2>2, <2>3 DEF DeskClientStep, TitleChanged, DeskResize
<1>3. ASSUME NEW w \in Window
      PROVE  ~ DeskPointerStep(w)
  BY <1>1, WindowSteady DEF DInv, DeskPointerStep, DeskEdgePress, PointerStep
<1>4. ASSUME NEW l \in Layer
      PROVE  ~ DeskLayerStep(l)
  BY <1>1, LayerSteady DEF DInv, DeskLayerStep, LayerStep
<1>5. ~ DeskWorkspaceStep
  BY <1>1, WorkspaceFrame DEF DInv, DeskWorkspaceStep
<1>6. DeskRelease => ~stale'
  BY Arranges DEF DeskRelease
<1>7. /\ ~ GrabMotion /\ ~ OutputCommit /\ ~ UNCHANGED dvars
      /\ \A F \in SUBSET Listed(Server) :
           ~ Reload(F) /\ \A l \in {"stack", "tile"} : ~ SetLayout(l, F)
  BY <1>1 DEF GrabMotion, OutputCommit, Reload, SetLayout, dvars, vars
<1>8. QED
  BY <1>2, <1>3, <1>4, <1>5, <1>6, <1>7 DEF DeskNext

(* However a move ends, the arranging that was put off is made up for. *)
THEOREM MovesEndArranged == DeskSpec => MoveEndsArranged
<1>1. DInv /\ [DeskNext]_dvars => [grab = "move" /\ grab' = "none" => ~stale']_dvars
  BY MoveEndStep
<1>2. QED
  BY <1>1, DeskInvariance, PTL DEF DeskSpec, MoveEndsArranged

(* With no grab left after it, a step lays out whatever it changed. *)
LEMMA UndisturbedStep ==
  ASSUME DInv, [DeskNext]_dvars, ~stale, grab' = "none"
  PROVE  ~stale'
<1>1. NotMoving
  BY DEF NotMoving
<1>2. ASSUME SceneUntouched
      PROVE  ~stale'
  BY <1>2 DEF SceneUntouched, desk
<1>3. ASSUME Steady, UNCHANGED << minimized, floats >>, NEW c, ArrangesIf(c)
      PROVE  ~stale'
  BY <1>3, NothingNewToTile, Arranges
<1>4. ASSUME NEW w \in Window, DeskClientStep(w)
      PROVE  ~stale'
  <2>1. CASE DeskNew(w)
    BY <2>1 DEF DeskNew
  <2>2. CASE DeskUnmap(w) \/ DeskDestroy(w)
    BY <1>1, <2>2, Arranges DEF DeskUnmap, DeskDestroy
  <2>3. ASSUME NEW float \in BOOLEAN, DeskMap(w, float)
        PROVE  ~stale'
    BY <2>3, Arranges DEF DeskMap
  <2>4. ASSUME NEW float \in BOOLEAN, TitleChanged(w, float)
        PROVE  ~stale'
    <3>1. Steady /\ minimized' = minimized
      BY <2>4, WindowSteady DEF DInv, TitleChanged
    <3>2. floats' \ {w} = floats \ {w}
      BY <2>4 DEF TitleChanged
    <3>3. w \notin mapped => Tiled' = Tiled
      BY <3>1, <3>2 DEF Steady, Tiled, OnWorkspace, Listed, Server
    <3>4. QED
      BY <2>4, <3>3, Arranges DEF TitleChanged
  <2>5. CASE (ConfigureAcked(w) \/ RequestMove(w)) /\ SceneUntouched
    BY <1>2, <2>5
  <2>6. CASE RequestMinimize(w) /\ FocusAndLayOut(minimized' # minimized)
    <3>1. Steady
      BY <2>6, MinimizeSteady DEF DInv
    <3>2. minimized' = minimized => Tiled' = Tiled
      BY <2>6, <3>1, NothingNewToTile DEF FocusAndLayOut
    <3>3. QED
      BY <1>1, <2>6, <3>2, Arranges DEF FocusAndLayOut
  <2>7. CASE DeskResize(w)
    BY <1>3, <2>7, WindowSteady DEF DInv, DeskResize, FocusOnly
  <2>8. CASE DeskActivate(w)
    <3>1. /\ UNCHANGED << toplevels, mapped, workspace >> /\ current' = workspace[w]
          /\ workspace[w] = current /\ w \notin minimized => minimized' = minimized
      BY <2>8, ActivateFrame DEF DInv, DeskActivate
    <3>2. floats' = floats /\ ArrangesIf((workspace[w] # current \/ w \in minimized) /\ NotMoving)
      BY <2>8 DEF DeskActivate
    <3>3. ~ (workspace[w] # current \/ w \in minimized) => Tiled' = Tiled
      BY <3>1, <3>2, NothingNewToTile DEF Steady
    <3>4. QED
      BY <1>1, <3>2, <3>3, Arranges
  <2>9. QED
    BY <1>4, <2>1, <2>2, <2>3, <2>4, <2>5, <2>6, <2>7, <2>8 DEF DeskClientStep
<1>5. ASSUME NEW w \in Window, DeskPointerStep(w)
      PROVE  ~stale'
  BY <1>3, <1>5, WindowSteady DEF DInv, DeskPointerStep, DeskEdgePress, PointerStep, FocusOnly
<1>6. ASSUME NEW l \in Layer, DeskLayerStep(l)
      PROVE  ~stale'
  BY <1>1, <1>2, <1>6, Arranges DEF DeskLayerStep, FocusAndLayOut
<1>7. CASE DeskWorkspaceStep
  <2>1. UNCHANGED << toplevels, mapped, minimized >>
    BY <1>7, WorkspaceFrame DEF DInv, DeskWorkspaceStep
  <2>2. UNCHANGED << current, workspace >> => Tiled' = Tiled
    BY <1>7, <2>1, NothingNewToTile DEF DeskWorkspaceStep, FocusAndLayOut, Steady
  <2>3. QED
    BY <1>1, <1>7, <2>2, Arranges DEF DeskWorkspaceStep, FocusAndLayOut
<1>8. CASE DeskRelease
  BY <1>3, <1>8, ReleaseFrame DEF DInv, DeskRelease
<1>9. CASE GrabMotion
  BY <1>9 DEF GrabMotion, vars
<1>10. CASE OutputCommit \/ \E F \in SUBSET Listed(Server) :
              Reload(F) \/ \E l \in {"stack", "tile"} : SetLayout(l, F)
  <2>1. \E c \in BOOLEAN : ArrangesIf(c) /\ (c \/ UNCHANGED << vars, floats >>)
    BY <1>10 DEF OutputCommit, Reload, SetLayout
  <2>2. UNCHANGED << vars, floats >> => Tiled' = Tiled
    BY NothingNewToTile DEF vars, Steady
  <2>3. QED
    BY <2>1, <2>2, Arranges
<1>11. CASE UNCHANGED dvars
  BY <1>11 DEF dvars, desk
<1>12. QED
  BY <1>4, <1>5, <1>6, <1>7, <1>8, <1>9, <1>10, <1>11 DEF DeskNext

(* Only a grab ever leaves the tiled windows out of their arrangement. *)
THEOREM OnlyGrabsDisturb == DeskSpec => DisturbedOnlyByGrab
<1>1. DInv /\ [DeskNext]_dvars => [~stale /\ stale' => grab' # "none"]_dvars
  BY UndisturbedStep
<1>2. QED
  BY <1>1, DeskInvariance, PTL DEF DeskSpec, DisturbedOnlyByGrab
=============================================================================
