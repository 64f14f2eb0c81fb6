----------------------------- MODULE PanelView -----------------------------
(***************************************************************************)
(* What the compositor promises to workspace panels: a panel that listens  *)
(* is told of every switch in order, shows one workspace at a time, and    *)
(* comes to show the one it was told of last.  A panel may ask not to hear *)
(* of a workspace any more; it then shows none in its place.               *)
(***************************************************************************)
EXTENDS Sequences

CONSTANTS Panel, Workspace, None

VARIABLES
  current,    \* the workspace the user is on
  listening,  \* the panels that are told of switches
  watched,    \* the workspaces each panel wants to hear of
  pending,    \* what each panel has been told and does not show yet
  shows       \* the workspace each panel shows, or None

vars == << current, listening, watched, pending, shows >>

AsSeenBy(p, i) == IF i \in watched[p] THEN i ELSE None

Join(p) ==
  /\ p \notin listening /\ watched[p] = {}
  /\ listening' = listening \cup {p}
  /\ watched' = [watched EXCEPT ![p] = Workspace]
  /\ pending' = [pending EXCEPT ![p] = << current >>]
  /\ UNCHANGED << current, shows >>

Switch(i) ==
  /\ i # current /\ current' = i
  /\ pending' = [p \in Panel |-> IF p \in listening
                                 THEN Append(pending[p], AsSeenBy(p, i))
                                 ELSE pending[p]]
  /\ UNCHANGED << listening, watched, shows >>

Refresh(p) ==
  /\ pending[p] # <<>>
  /\ shows' = [shows EXCEPT ![p] = Head(pending[p])]
  /\ pending' = [pending EXCEPT ![p] = Tail(@)]
  /\ UNCHANGED << current, listening, watched >>

Forget(p, i) ==
  /\ i \in watched[p]
  /\ watched' = [watched EXCEPT ![p] = @ \ {i}]
  /\ pending' = [pending EXCEPT ![p] =
                   [k \in DOMAIN @ |-> IF @[k] = i THEN None ELSE @[k]]]
  /\ shows' = [shows EXCEPT ![p] = IF @ = i THEN None ELSE @]
  /\ UNCHANGED << current, listening >>

(* The panel hears of no more switches, but still shows what it was told.  *)
Quit(p) ==
  /\ p \in listening
  /\ listening' = listening \ {p}
  /\ UNCHANGED << current, watched, pending, shows >>

Vanish(p) ==
  /\ listening' = listening \ {p}
  /\ watched' = [watched EXCEPT ![p] = {}]
  /\ pending' = [pending EXCEPT ![p] = <<>>]
  /\ shows' = [shows EXCEPT ![p] = None]
  /\ UNCHANGED current

Init ==
  /\ current \in Workspace
  /\ listening = {}
  /\ watched = [p \in Panel |-> {}]
  /\ pending = [p \in Panel |-> <<>>]
  /\ shows = [p \in Panel |-> None]

Next ==
  \/ \E i \in Workspace : Switch(i)
  \/ \E p \in Panel : Join(p) \/ Refresh(p) \/ Quit(p) \/ Vanish(p)
  \/ \E p \in Panel, i \in Workspace : Forget(p, i)

Spec == Init /\ [][Next]_vars /\ \A p \in Panel : WF_vars(Refresh(p))
=============================================================================
