----------------------------- MODULE ConfigFile -----------------------------
(***************************************************************************)
(* The configuration file: what comp_config_load makes of its lines, and   *)
(* which rule a window matches (src/config.c).                             *)
(*                                                                         *)
(* A line is a blank or comment, a [section] header, a key=value pair, or  *)
(* junk.  Aliases of keys and values are not told apart, "bad" stands for  *)
(* a value its key does not take (or a regular expression that does not    *)
(* compile), "any" for an expression that matches everything; any other    *)
(* expression matches the string it is.                                    *)
(***************************************************************************)
EXTENDS Integers, SequencesExt

Header(name)   == [kind |-> "section", name |-> name]
Pair(key, val) == [kind |-> "pair", key |-> key, value |-> val]
Junk           == [kind |-> "junk"]
Blank          == [kind |-> "blank"]

(* The keys of the sections.  Those of BlockSection describe one rule or   *)
(* binding per section header.                                             *)
Keys == [
  bind            |-> {"mods", "key", "action", "command", "when"},
  tile_rule       |-> {"app_id", "title", "mode", "order"},
  decoration_rule |-> {"app_id", "title", "strip"},
  input_map       |-> {"match", "output", "type"},
  hooks           |-> {"startup", "shutdown", "reload"},
  layout_anim     |-> {"enabled", "lambda", "epsilon"},
  decoration      |-> {"strip"},
  pointer         |-> {"resize_border_px"}]

Section      == DOMAIN Keys
BlockSection == {"bind", "tile_rule", "decoration_rule", "input_map"}

(* Keys whose value is parsed when the line is read.  The others are taken *)
(* as they are, or looked at when the block ends.                          *)
ParsedKey == {"mods", "key", "action", "mode", "order", "strip", "enabled", "lambda", "epsilon"}

Accepts(section, key, value) ==
  key \in Keys[section] /\ (key \in ParsedKey => value # "bad")

Get(block, key) == IF key \in DOMAIN block THEN block[key] ELSE ""

(* The command= an action needs.  "3" is a workspace, "99" another number, *)
(* "up" a direction.                                                       *)
CommandFits(action, command) ==
  CASE action = "exec"           -> command # ""
    [] action = "tile_move"      -> command \in {"", "3", "99"}
    [] action = "tile_grid_move" -> command \in {"3", "99", "up"}
    [] action \in {"workspace", "workspace_move"} -> command = "3"
    [] OTHER -> TRUE

(* What becomes of a block when it ends (the flush functions).             *)
BindVerdict(b) ==
  IF Get(b, "key") = ""
  THEN IF Get(b, "mods") # "" \/ DOMAIN b \cap {"command", "when"} # {} THEN "fail" ELSE "skip"
  ELSE IF Get(b, "action") # "" /\ CommandFits(b.action, Get(b, "command"))
       THEN "append" ELSE "fail"

RuleVerdict(b) ==
  LET patterns == {Get(b, "app_id"), Get(b, "title")}
  IN  IF patterns = {""} THEN "skip" ELSE IF "bad" \in patterns THEN "fail" ELSE "append"

MapVerdict(b) ==
  LET needed == {Get(b, "match"), Get(b, "output")}
  IN  IF needed = {""} THEN "skip"
      ELSE IF "" \in needed \/ Get(b, "type") = "bad" \/ Get(b, "match") = "bad"
           THEN "fail" ELSE "append"

Verdict(section, b) ==
  CASE section = "bind" -> BindVerdict(b)
    [] section = "input_map" -> MapVerdict(b)
    [] OTHER -> RuleVerdict(b)

-----------------------------------------------------------------------------
(* The parser *)

Put(f, key, value) == [k \in DOMAIN f \cup {key} |-> IF k = key THEN value ELSE f[k]]

(* The parser has one unfinished rule for each section that has blocks.    *)
Start ==
  [ok |-> TRUE, section |-> "", blocks |-> [s \in BlockSection |-> << >>],
   rules |-> [s \in BlockSection |-> << >>], settings |-> << >>]

(* The end of a section, by the next header or the end of the file.  The   *)
(* flush functions clear their rule, flush_bind only when it is appended.  *)
Flush(st) ==
  LET verdict == Verdict(st.section, st.blocks[st.section])
  IN  IF ~st.ok \/ st.section \notin BlockSection THEN st
      ELSE CASE verdict = "fail" -> [st EXCEPT !.ok = FALSE]
             [] verdict = "append" ->
                  [st EXCEPT !.rules[st.section] = Append(@, st.blocks[st.section]),
                             !.blocks[st.section] = << >>]
             [] verdict = "skip" /\ st.section # "bind" -> [st EXCEPT !.blocks[st.section] = << >>]
             [] OTHER -> st

(* Mutant: a header clears the rules that are not yet finished, but not    *)
(* the binding.                                                            *)
EnterKeepingBind(st, name) ==
  IF st.ok THEN [st EXCEPT !.section = name, !.ok = name \in Section,
                   !.blocks.tile_rule = << >>, !.blocks.decoration_rule = << >>]
           ELSE st

(* A header clears the unfinished rules, but for that of input_map.        *)
Enter(st, name) ==
  IF st.ok THEN [st EXCEPT !.section = name, !.ok = name \in Section,
                   !.blocks.bind = << >>, !.blocks.tile_rule = << >>, !.blocks.decoration_rule = << >>]
           ELSE st

Assign(st, key, value) ==
  IF st.section \notin Section \/ ~Accepts(st.section, key, value) THEN [st EXCEPT !.ok = FALSE]
  ELSE IF st.section \in BlockSection THEN [st EXCEPT !.blocks[st.section] = Put(@, key, value)]
  ELSE IF st.section = "pointer" THEN st
  ELSE [st EXCEPT !.settings = Put(@, << st.section, key >>, value)]

(* One pass of the loop.  Once ok is false the file is lost, whether the   *)
(* loop breaks or, after an unknown section, goes on.                      *)
Step(st, line) ==
  CASE ~st.ok \/ line.kind = "blank" -> st
    [] st.ok /\ line.kind = "section" -> Enter(Flush(st), line.name)
    [] st.ok /\ line.kind = "pair" -> Assign(st, line.key, line.value)
    [] OTHER -> [st EXCEPT !.ok = FALSE]

DefaultBinds == << [action |-> "exec"], [action |-> "close"], [action |-> "quit"],
                   [action |-> "layout_toggle"] >>

WithDefaults(rules) == IF rules.bind = << >> THEN [rules EXCEPT !.bind = DefaultBinds] ELSE rules

Rejected == [ok |-> FALSE]

(* The end of the file *)
Finish(st) ==
  LET end == Flush(st)
  IN  IF end.ok THEN [ok |-> TRUE, rules |-> WithDefaults(end.rules), settings |-> end.settings]
                ELSE Rejected

(* comp_config_load of a file with these lines *)
Load(file) == Finish(FoldLeft(Step, Start, file))

(* ... and of a file that is not there *)
BuiltIn == [ok |-> TRUE, rules |-> WithDefaults(Start.rules), settings |-> << >>]

-----------------------------------------------------------------------------
(* Looking up a window's rules *)

Fits(pattern, string) == pattern \in {"", "any", string}

(* The first rule that matches, 0 if there is none *)
FirstMatch(rules, app, title) ==
  LET hits == {i \in DOMAIN rules : Fits(Get(rules[i], "app_id"), app)
                                    /\ Fits(Get(rules[i], "title"), title)}
  IN  IF hits = {} THEN 0 ELSE CHOOSE i \in hits : \A j \in hits : i <= j

(* comp_config_tile_props_for_toplevel, its float half *)
FloatInTile(config, app, title) ==
  LET i == FirstMatch(config.rules.tile_rule, app, title)
  IN  i # 0 /\ Get(config.rules.tile_rule[i], "mode") = "float"

(* comp_config_decoration_prefer_server_side_tile_scroll *)
PreferServerSide(config, app, title) ==
  LET i == FirstMatch(config.rules.decoration_rule, app, title)
  IN  IF i # 0 THEN Get(config.rules.decoration_rule[i], "strip") # "no"
               ELSE Get(config.settings, << "decoration", "strip" >>) # "no"

=============================================================================
