---------------------------- MODULE ExtWorkspace ----------------------------
(***************************************************************************)
(* ext_workspace_manager_v1 (src/ext_workspace.c): the sessions of panels, *)
(* their workspace handles, and the events and requests in flight between  *)
(* the compositor and the panels.                                          *)
(*                                                                         *)
(* Requests and events of one client travel in order.  A panel is a client *)
(* that keeps to the protocol: it applies what it was told when done       *)
(* arrives, and makes no request on an object it destroyed.  The group and *)
(* its outputs are left out, and so is a bind that runs out of memory: the *)
(* session is not listed then and the client is disconnected.              *)
(***************************************************************************)
EXTENDS Integers, FiniteSets, SequencesExt

CONSTANTS
  Panel,
  WorkspaceCount,  \* COMP_WORKSPACE_COUNT
  None,
  QueueBound,      \* events in flight to one panel (bound of the model)
  RequestBound     \* requests in flight of one panel (bound of the model)

ASSUME CountAssumption == WorkspaceCount \in Nat \ {0}
ASSUME BoundAssumption == RequestBound \in Nat /\ QueueBound \in Nat /\ QueueBound > WorkspaceCount

Workspace == 0 .. WorkspaceCount - 1

ASSUME NoneAssumption == None \notin Workspace

VARIABLES
  current,    \* server->current_workspace
  sessions,   \* panels whose session is on the list sessions
  handles,    \* the workspaces a session has handles of
  toClient,   \* events in flight
  toServer,   \* requests in flight
  panel,      \* what a panel is doing: away, bound, ready or stopping
  kept,       \* the handles a panel has not destroyed
  staged,     \* the handles whose latest state event said active
  showing     \* staged as it was when done last arrived

client == << panel, kept, staged, showing >>
vars == << current, sessions, handles, toClient, toServer, panel, kept, staged, showing >>

State(i, cur) == [kind |-> "state", ws |-> i, active |-> i = cur]
Done     == [kind |-> "done"]
Finished == [kind |-> "finished"]

(* The elements of a set of numbers from the least to the greatest, which  *)
(* is the order the loop over a session's handles takes.                   *)
InOrder(set) ==
  [k \in 1 .. Cardinality(set) |->
     CHOOSE i \in set : Cardinality({j \in set : j < i}) = k - 1]

(* Mutants: done comes first, or after each handle's state. *)
StatesAfterDone(hs, cur) ==
  LET order == InOrder(hs)
  IN  << Done >> \o [k \in DOMAIN order |-> State(order[k], cur)]

StatesEachDone(hs, cur) ==
  LET order == InOrder(hs)
  IN  FlattenSeq([k \in DOMAIN order |-> << State(order[k], cur), Done >>])

(* session_send_workspace_states, and the end of send_session_initial *)
States(hs, cur) ==
  LET order == InOrder(hs)
  IN  Append([k \in DOMAIN order |-> State(order[k], cur)], Done)

Room(p) == Len(toClient[p]) + WorkspaceCount + 1 <= QueueBound

-----------------------------------------------------------------------------
(* The compositor *)

(* ext_workspace_bind *)
Bind(p) ==
  /\ panel[p] = "away"
  /\ panel' = [panel EXCEPT ![p] = "bound"]
  /\ kept' = [kept EXCEPT ![p] = Workspace]
  /\ sessions' = sessions \cup {p}
  /\ handles' = [handles EXCEPT ![p] = Workspace]
  /\ toClient' = [toClient EXCEPT ![p] = States(Workspace, current)]
  /\ UNCHANGED << current, toServer, staged, showing >>

(* Mutant: panels without a handle of the new workspace are passed over. *)
NotifyHolders(i) ==
  toClient' = [p \in Panel |-> IF p \in sessions /\ i \in handles[p]
                               THEN toClient[p] \o States(handles[p], i) ELSE toClient[p]]

(* ext_workspace_notify *)
Notify(i) ==
  toClient' = [p \in Panel |-> IF p \in sessions
                               THEN toClient[p] \o States(handles[p], i) ELSE toClient[p]]

(* server_workspace_go, as far as panels see it *)
Go(i) ==
  IF i = current THEN UNCHANGED << current, toClient >>
  ELSE /\ \A p \in sessions : Room(p)
       /\ current' = i
       /\ Notify(i)

(* A key binding or an IPC command. *)
LocalSwitch(i) ==
  /\ i # current
  /\ Go(i)
  /\ UNCHANGED << sessions, handles, toServer, panel, kept, staged, showing >>

DropSession(p) ==
  /\ sessions' = sessions \ {p}
  /\ handles' = [handles EXCEPT ![p] = {}]

HandleActivate(p, i) ==
  /\ i \in handles[p]
  /\ Go(i)
  /\ UNCHANGED << sessions, handles >>

(* Mutant: the finalizer clears the next slot. *)
HandleDestroyNext(p, i) ==
  /\ handles' = [handles EXCEPT ![p] = @ \ {i + 1}]
  /\ UNCHANGED << current, sessions, toClient >>

HandleDestroy(p, i) ==
  /\ handles' = [handles EXCEPT ![p] = @ \ {i}]
  /\ UNCHANGED << current, sessions, toClient >>

(* manager_stop and manager_destroy *)
ManagerStop(p) ==
  /\ DropSession(p)
  /\ toClient' = [toClient EXCEPT ![p] = Append(@, Finished)]
  /\ UNCHANGED current

Dispatch(p) ==
  /\ toServer[p] # <<>>
  /\ toServer' = [toServer EXCEPT ![p] = Tail(@)]
  /\ LET r == Head(toServer[p])
     IN  \/ r.kind = "activate" /\ HandleActivate(p, r.ws)
         \/ r.kind = "destroy"  /\ HandleDestroy(p, r.ws)
         \/ r.kind = "stop"     /\ ManagerStop(p)
  /\ UNCHANGED client

-----------------------------------------------------------------------------
(* The panels *)

Request(p, r) ==
  /\ panel[p] = "ready" /\ Len(toServer[p]) < RequestBound
  /\ toServer' = [toServer EXCEPT ![p] = Append(@, r)]
  /\ UNCHANGED << current, sessions, handles, toClient >>

AskActivate(p, i) ==
  /\ i \in kept[p]
  /\ Request(p, [kind |-> "activate", ws |-> i])
  /\ UNCHANGED client

AskDestroy(p, i) ==
  /\ i \in kept[p]
  /\ Request(p, [kind |-> "destroy", ws |-> i])
  /\ kept' = [kept EXCEPT ![p] = @ \ {i}]
  /\ staged' = [staged EXCEPT ![p] = @ \ {i}]
  /\ showing' = [showing EXCEPT ![p] = @ \ {i}]
  /\ UNCHANGED panel

AskStop(p) ==
  /\ Request(p, [kind |-> "stop"])
  /\ panel' = [panel EXCEPT ![p] = "stopping"]
  /\ UNCHANGED << kept, staged, showing >>

ForgetAll(p) ==
  /\ panel' = [panel EXCEPT ![p] = "away"]
  /\ kept' = [kept EXCEPT ![p] = {}]
  /\ staged' = [staged EXCEPT ![p] = {}]
  /\ showing' = [showing EXCEPT ![p] = {}]

ReadState(p, m) ==
  /\ staged' = [staged EXCEPT ![p] =
                  IF m.active /\ m.ws \in kept[p] THEN @ \cup {m.ws} ELSE @ \ {m.ws}]
  /\ UNCHANGED << panel, kept, showing >>

ReadDone(p) ==
  /\ showing' = [showing EXCEPT ![p] = staged[p]]
  /\ panel' = [panel EXCEPT ![p] = IF @ = "bound" THEN "ready" ELSE @]
  /\ UNCHANGED << kept, staged >>

Read(p) ==
  /\ toClient[p] # <<>>
  /\ toClient' = [toClient EXCEPT ![p] = Tail(@)]
  /\ LET m == Head(toClient[p])
     IN  \/ m.kind = "state"    /\ ReadState(p, m)
         \/ m.kind = "done"     /\ ReadDone(p)
         \/ m.kind = "finished" /\ ForgetAll(p)
  /\ UNCHANGED << current, sessions, handles, toServer >>

(* The connection ends: the compositor destroys the client's objects.      *)
Disconnect(p) ==
  /\ panel[p] # "away"
  /\ DropSession(p)
  /\ ForgetAll(p)
  /\ toClient' = [toClient EXCEPT ![p] = <<>>]
  /\ toServer' = [toServer EXCEPT ![p] = <<>>]
  /\ UNCHANGED current

-----------------------------------------------------------------------------

Init ==
  /\ current = 0
  /\ sessions = {}
  /\ handles = [p \in Panel |-> {}]
  /\ toClient = [p \in Panel |-> <<>>] /\ toServer = [p \in Panel |-> <<>>]
  /\ panel = [p \in Panel |-> "away"]
  /\ kept = [p \in Panel |-> {}]
  /\ staged = [p \in Panel |-> {}] /\ showing = [p \in Panel |-> {}]

Next ==
  \/ \E i \in Workspace : LocalSwitch(i)
  \/ \E p \in Panel : Bind(p) \/ Dispatch(p) \/ Read(p) \/ AskStop(p) \/ Disconnect(p)
  \/ \E p \in Panel, i \in Workspace : AskActivate(p, i) \/ AskDestroy(p, i)

(* Panels read their events: a client that does not is disconnected by     *)
(* libwayland once its socket is full.                                     *)
Fairness == \A p \in Panel : WF_vars(Read(p))

Spec == Init /\ [][Next]_vars /\ Fairness

-----------------------------------------------------------------------------
(* Properties *)

(* Every variable holds a value of its kind. *)
TypeOK ==
  /\ current \in Workspace
  /\ sessions \subseteq Panel
  /\ handles \in [Panel -> SUBSET Workspace] /\ kept \in [Panel -> SUBSET Workspace]
  /\ staged \in [Panel -> SUBSET Workspace]  /\ showing \in [Panel -> SUBSET Workspace]
  /\ panel \in [Panel -> {"away", "bound", "ready", "stopping"}]
  /\ \A p \in Panel : Len(toClient[p]) <= QueueBound + 1 /\ Len(toServer[p]) <= RequestBound

(* No panel ever shows two workspaces as active, however its requests and  *)
(* other panels' switches interleave: the states of one switch arrive      *)
(* under one done (session_send_workspace_states).                         *)
OneShown == \A p \in Panel : \A i, j \in showing[p] : i = j

(* A request that arrives finds its object: no handle is destroyed while a *)
(* request of a panel that keeps to the protocol may still name it.        *)
RequestsFindHandles ==
  \A p \in Panel : \A k \in DOMAIN toServer[p] :
     LET r == toServer[p][k]
     IN  /\ p \in sessions
         /\ r.kind # "stop" => r.ws \in handles[p]

(* A panel that keeps listening while the user stays on a workspace it     *)
(* kept the handle of comes to show that workspace for good.               *)
CatchesUp ==
  \A p \in Panel, i \in Workspace :
     <>[](p \in sessions /\ i \in kept[p] /\ current = i) => <>[](showing[p] = {i})

Only(set) == IF set = {} THEN None ELSE CHOOSE i \in set : TRUE

(* Whether a handle is staged once the first k of the events have been     *)
(* read: what the last of them about it says, if there is one.             *)
WillStage(events, set, i, k) ==
  LET told == {n \in 1 .. k : events[n].kind = "state" /\ events[n].ws = i}
  IN  IF told = {} THEN i \in set
      ELSE \E n \in told : events[n].active /\ \A m \in told : m <= n

(* What each done in flight will make the panel show. *)
Coming(p) ==
  LET done == InOrder({k \in DOMAIN toClient[p] : toClient[p][k].kind = "done"})
  IN  [n \in DOMAIN done |->
         Only({i \in kept[p] : WillStage(toClient[p], staged[p], i, done[n])})]

View == INSTANCE PanelView WITH
  listening <- sessions,
  watched   <- kept,
  pending   <- [p \in Panel |-> Coming(p)],
  shows     <- [p \in Panel |-> Only(showing[p])]

(* The messages implement what PanelView promises: every listening panel   *)
(* sees every switch, in order, whole, and without end.                    *)
ImplementsView == View!Spec
=============================================================================
