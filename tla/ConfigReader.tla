---------------------------- MODULE ConfigReader ----------------------------
(***************************************************************************)
(* comp_config_load reads a configuration file line by line with a single  *)
(* parser state for all of its sections (src/config.c).  A state of this   *)
(* module is the file read so far and what the parser made of it; every    *)
(* file may end after every line.                                          *)
(***************************************************************************)
EXTENDS ConfigFile

CONSTANTS
  Vocabulary,  \* sets of lines that occur together in a file (bound of the model)
  LineBound    \* lines in a file (bound of the model)

ASSUME VocabularyAssumption ==
  \A line \in UNION Vocabulary : line.kind \in {"blank", "section", "pair", "junk"}
ASSUME LineBoundAssumption == LineBound \in Nat

VARIABLES
  file,    \* the lines read
  parser   \* the local variables of comp_config_load

rvars == << file, parser >>

ReadInit == file = << >> /\ parser = Start

(* One pass of the fgets loop *)
ReadLine(line) ==
  /\ Len(file) < LineBound
  /\ \E words \in Vocabulary : ToSet(file) \cup {line} \subseteq words
  /\ file' = Append(file, line)
  /\ parser' = Step(parser, line)

ReadNext == \E line \in UNION Vocabulary : ReadLine(line)

ReadSpec == ReadInit /\ [][ReadNext]_rvars

-----------------------------------------------------------------------------
(* What the lines f of a file say, read as a whole *)

Heads(f) == {i \in DOMAIN f : f[i].kind = "section"}
Pairs(f) == {j \in DOMAIN f : f[j].kind = "pair"}

(* The section line j belongs to, 0 if it is above all of them *)
HeadOf(f, j) == Max({0} \cup {i \in Heads(f) : i <= j})

(* The values of lines that have a name each: the last of several lines    *)
(* with the same name counts.                                              *)
Table(f, name) ==
  [n \in {name[j] : j \in DOMAIN name} |-> f[Max({j \in DOMAIN name : name[j] = n})].value]

BlockAt(f, head) == Table(f, [j \in {i \in Pairs(f) : HeadOf(f, i) = head} |-> f[j].key])

(* The blocks of some sections, in the order of the file *)
Nth(heads, k) == CHOOSE i \in {h \in heads : Cardinality({j \in heads : j <= h}) = k} : TRUE
BlocksAt(f, heads) == [k \in 1 .. Cardinality(heads) |-> BlockAt(f, Nth(heads, k))]

WellFormed(f) ==
  /\ \A i \in Heads(f) :
        /\ f[i].name \in Section
        /\ f[i].name \in BlockSection => Verdict(f[i].name, BlockAt(f, i)) # "fail"
  /\ \A j \in DOMAIN f : f[j].kind # "junk"
  /\ \A j \in Pairs(f) :
        HeadOf(f, j) # 0 /\ Accepts(f[HeadOf(f, j)].name, f[j].key, f[j].value)

Settings(f) ==
  LET set == {j \in Pairs(f) : f[HeadOf(f, j)].name \in {"hooks", "layout_anim", "decoration"}}
  IN  Table(f, [j \in set |-> << f[HeadOf(f, j)].name, f[j].key >>])

Declared(f) ==
  LET complete(s) == {i \in Heads(f) : f[i].name = s /\ Verdict(s, BlockAt(f, i)) = "append"}
  IN  [ok |-> TRUE,
       rules |-> WithDefaults([s \in BlockSection |-> BlocksAt(f, complete(s))]),
       settings |-> Settings(f)]

-----------------------------------------------------------------------------
(* Properties *)

(* The state has its kind, and the unfinished rule of the open section has *)
(* only keys of that section.                                              *)
ReaderTypeOK ==
  /\ parser.ok \in BOOLEAN
  /\ parser.ok => parser.section \in Section \cup {""}
  /\ parser.ok /\ parser.section \in BlockSection =>
       DOMAIN parser.blocks[parser.section] \subseteq Keys[parser.section]

(* Every stanza of a file stands for itself: no field of one block gets    *)
(* into another, though the parser keeps one unfinished rule per section,  *)
(* cleared by hand, in the flush functions or at the next header; rules    *)
(* keep the file's order, the last of a repeated key counts, the block at  *)
(* the end of the file counts, and a bad line or an incomplete block       *)
(* anywhere rejects the file (comp_config_load).                           *)
LoadIsDeclared ==
  Finish(parser) = IF WellFormed(file) THEN Declared(file) ELSE Rejected
=============================================================================
