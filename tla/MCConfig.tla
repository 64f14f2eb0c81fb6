------------------------------ MODULE MCConfig ------------------------------
(***************************************************************************)
(* An instance of modules ConfigReader and WindowRules for the model       *)
(* checker.  A behaviour reads a file or moves the windows, as chosen at   *)
(* the start; the properties are each about one of the two.                *)
(***************************************************************************)
EXTENDS ConfigReader, WindowRules

VARIABLE part

(* Four small vocabularies, each with a mistake or two *)
BindLines ==
  {Header("bind"), Pair("key", "q"), Pair("action", "exec"), Pair("action", "workspace"),
   Pair("command", "3"), Pair("command", "foot"), Pair("mods", "super"), Pair("key", "bad")}

RuleLines ==
  {Header("tile_rule"), Header("decoration_rule"), Pair("app_id", "a"), Pair("title", "any"),
   Pair("app_id", "bad"), Pair("mode", "float"), Pair("strip", "no"), Blank}

MapLines ==
  {Header("input_map"), Header("tile_rule"), Pair("match", "any"), Pair("output", "o"),
   Pair("type", "bad"), Pair("app_id", "a"), Header("other")}

SettingLines ==
  {Header("decoration"), Header("hooks"), Header("pointer"), Pair("strip", "no"), Pair("strip", "yes"),
   Pair("startup", "x"), Pair("resize_border_px", "1"), Junk}

Vocabularies == {BindLines, RuleLines, MapLines, SettingLines}

(* A window called "t" is tiled, another of application "a" floats. *)
FloatRules ==
  << Header("tile_rule"), Pair("title", "t"), Pair("mode", "tile"),
     Header("tile_rule"), Pair("app_id", "a"), Pair("mode", "float") >>

StripRule == << Header("decoration_rule"), Pair("app_id", "a"), Pair("strip", "no") >>
NoStrip   == << Header("decoration"), Pair("strip", "no") >>
BadRule   == << Header("tile_rule"), Pair("app_id", "bad") >>

DiskFiles == {FloatRules, StripRule, NoStrip, BadRule}

ConfigInit ==
  /\ ReadInit /\ Init
  /\ part \in {"reader", "windows"}
  /\ part = "reader" => config = BuiltIn

ConfigNext ==
  /\ UNCHANGED part
  /\ \/ part = "reader" /\ ReadNext /\ UNCHANGED vars
     \/ part = "windows" /\ Next /\ UNCHANGED rvars

ConfigSpec == ConfigInit /\ [][ConfigNext]_<< rvars, vars, part >> /\ Fairness
=============================================================================
