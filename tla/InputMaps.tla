------------------------------ MODULE InputMaps ------------------------------
(***************************************************************************)
(* Outputs that come and go, the devices that are mapped to them by the    *)
(* [input_map] rules, and what the seat says it can do (src/main.c).       *)
(*                                                                         *)
(* An output is its connector name; a device is mapped to an output        *)
(* object, which may be gone (wlr_cursor keeps the pointer).  The patterns *)
(* of a device's name and type are resolved: a rule set gives the outputs  *)
(* of the rules that match each device, in file order.                     *)
(***************************************************************************)
EXTENDS Integers, Sequences, Quitting

CONSTANTS
  Output,   \* connector names
  Input,    \* pointers, touch screens and tablets
  Touch,    \* those that are touch screens
  RuleSet,  \* what configurations may say: [Input -> Seq(Output)]
  Nested    \* the backend has no session, it runs inside another compositor

ASSUME MapAssumption ==
  /\ Touch \subseteq Input /\ Nothing \notin Output /\ Nested \in BOOLEAN
  /\ RuleSet \subseteq [Input -> Seq(Output)]

VARIABLES
  outputs,   \* server->outputs
  devices,   \* server->tracked_inputs
  rules,     \* config->input_map_rules, resolved
  mapping,   \* the output each tracked device is mapped to
  canTouch   \* WL_SEAT_CAPABILITY_TOUCH

mvars == << outputs, devices, rules, mapping, canTouch >>

-----------------------------------------------------------------------------

(* The output of the first rule whose output exists.                       *)
Wanted(seq, live) ==
  LET found == {i \in DOMAIN seq : seq[i] \in live}
  IN  IF found = {} THEN Nothing
      ELSE seq[CHOOSE i \in found : \A j \in found : i <= j]

(* server_apply_input_device_maps, with the outputs in the list meanwhile  *)
ApplyMaps(live) ==
  mapping' = [d \in Input |-> IF d \in devices' THEN Wanted(rules'[d], live) ELSE Nothing]

(* server_update_seat_capabilities *)
UpdateCapabilities(tracked) == canTouch' = (tracked \cap Touch # {})

(* Mutant: the maps are applied before the output is in the list. *)
NewOutputLate(o) ==
  /\ o \notin outputs
  /\ outputs' = outputs \cup {o}
  /\ UNCHANGED << devices, rules, canTouch, quitting >>
  /\ ApplyMaps(outputs)

NewOutput(o) ==
  /\ o \notin outputs
  /\ outputs' = outputs \cup {o}
  /\ UNCHANGED << devices, rules, canTouch, quitting >>
  /\ ApplyMaps(outputs')

(* output_destroy: the maps are applied while the output is still listed.  *)
OutputGone(o) ==
  /\ o \in outputs
  /\ outputs' = outputs \ {o}
  /\ IF Nested /\ outputs' = {} THEN RequestTerminate ELSE UNCHANGED quitting
  /\ UNCHANGED << devices, rules, canTouch >>
  /\ ApplyMaps(outputs)

(* track_input_device *)
DeviceAdded(d) ==
  /\ d \notin devices
  /\ devices' = devices \cup {d}
  /\ UNCHANGED << outputs, rules, quitting >>
  /\ UpdateCapabilities(devices') /\ ApplyMaps(outputs)

(* tracked_input_destroy *)
DeviceGone(d) ==
  /\ d \in devices
  /\ devices' = devices \ {d}
  /\ UNCHANGED << outputs, rules, quitting >>
  /\ UpdateCapabilities(devices') /\ ApplyMaps(outputs)

(* server_reload_config *)
ReloadRules(r) ==
  /\ rules' = r
  /\ UNCHANGED << outputs, devices, canTouch, quitting >>
  /\ ApplyMaps(outputs)

(* server_backend_destroy *)
BackendGone == RequestTerminate /\ UNCHANGED mvars

-----------------------------------------------------------------------------

MInit ==
  /\ outputs = {} /\ devices = {} /\ rules \in RuleSet
  /\ mapping = [d \in Input |-> Nothing] /\ canTouch = FALSE
  /\ quitting = FALSE

MNext ==
  \/ \E o \in Output : NewOutput(o) \/ OutputGone(o)
  \/ \E d \in Input : DeviceAdded(d) \/ DeviceGone(d)
  \/ \E r \in RuleSet : ReloadRules(r)
  \/ BackendGone

MSpec == MInit /\ [][MNext]_<< mvars, quitting >>

-----------------------------------------------------------------------------
(* Properties *)

(* Every variable holds a value of its kind. *)
MTypeOK ==
  /\ outputs \in SUBSET Output /\ devices \in SUBSET Input
  /\ rules \in RuleSet
  /\ mapping \in [Input -> Output \cup {Nothing}]
  /\ canTouch \in BOOLEAN /\ quitting \in BOOLEAN

(* Whatever is plugged, pulled out or reloaded, in any order, the devices  *)
(* are mapped as the rules say for the outputs there are, and possibly one *)
(* more: output_destroy maps them before its output leaves the list, so    *)
(* they may follow that one until the next callback that maps them.  Older *)
(* outputs that are gone are never pointed at, nor a live output that a    *)
(* rule before would replace (server_apply_input_device_maps).             *)
MapsFollowRules ==
  \E gone \in (Output \ outputs) \cup {Nothing} :
    \A d \in devices : mapping[d] = Wanted(rules[d], outputs \cup {gone})
=============================================================================
