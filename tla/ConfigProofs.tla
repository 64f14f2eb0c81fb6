---------------------------- MODULE ConfigProofs ----------------------------
(***************************************************************************)
(* Theorems about modules ConfigReader, for files of any lines and any     *)
(* length, and WindowRules, for any windows, names, files and bound.       *)
(*                                                                         *)
(* The first part says what the parser's state is after the lines f of a   *)
(* file: Parsed(f) as long as nothing is wrong with them (SoFar), lost     *)
(* afterwards.  That is the inductive invariant ReadInv, and there is one  *)
(* lemma for what each notion of it (the open section, its block, the      *)
(* lists of closed blocks, the settings) becomes with one more line.       *)
(*                                                                         *)
(* The second part shows that every callback leaves each window Right:     *)
(* floating and decorated as the rules in force say.                       *)
(***************************************************************************)
EXTENDS ConfigReader, WindowRules, FiniteSetTheorems, SequenceTheorems, WellFoundedInduction, TLAPS

-----------------------------------------------------------------------------
(* The greatest of a set of numbers *)

LEMMA MaxIs ==
  ASSUME NEW set \in SUBSET Nat, NEW m \in set, \A k \in set : k <= m
  PROVE  Max(set) = m
<1>1. Max(set) \in set /\ \A y \in set : Max(set) >= y
  BY DEF Max
<1>2. Max(set) \in Nat /\ m \in Nat /\ Max(set) >= m /\ Max(set) <= m
  BY <1>1
<1>3. QED
  BY <1>2

(* A bounded set of numbers that is not empty has a greatest one: the      *)
(* least of its bounds.                                                    *)
LEMMA MaxExists ==
  ASSUME NEW n \in Nat, NEW set \in SUBSET (0 .. n), set # {}
  PROVE  Max(set) \in set /\ \A k \in set : k <= Max(set)
<1> DEFINE R == {ss \in Nat \X Nat : ss[1] < ss[2]}
           bounds == {b \in Nat : \A k \in set : k <= b}
<1>1. IsWellFoundedOn(R, Nat)
  BY NatLessThanWellFounded DEF OpToRel
<1>2. n \in bounds /\ bounds \subseteq Nat
  OBVIOUS
<1>3. PICK b \in bounds : \A c \in bounds : ~ (<< c, b >> \in R)
  <2> HIDE DEF R
  <2>1. QED
    BY <1>1, <1>2, WFMin
<1>4. b \in Nat /\ \A k \in set : k \in Nat /\ k <= b
  BY <1>3
<1>5. b \in set
  <2> SUFFICES ASSUME b \notin set PROVE FALSE
    OBVIOUS
  <2>1. \A k \in set : k < b
    BY <1>4
  <2>2. b - 1 \in bounds
    <3>1. PICK k \in set : k \in Nat /\ k < b
      BY <1>4, <2>1
    <3>2. b - 1 \in Nat /\ \A i \in set : i <= b - 1
      BY <1>4, <2>1, <3>1
    <3>3. QED
      BY <3>2
  <2>3. << b - 1, b >> \in R
    BY <1>4, <2>2
  <2>4. QED
    BY <1>3, <2>2, <2>3
<1>6. Max(set) = b
  BY <1>4, <1>5, MaxIs
<1>7. QED
  BY <1>4, <1>5, <1>6

-----------------------------------------------------------------------------
(* Tables *)

(* What is appended to a file changes no table of the lines before.        *)
LEMMA TableStays ==
  ASSUME NEW L, NEW f \in Seq(L), NEW line \in L,
         NEW name, DOMAIN name \subseteq DOMAIN f
  PROVE  Table(Append(f, line), name) = Table(f, name)
<1> DEFINE g == Append(f, line)
           last(n) == Max({j \in DOMAIN name : name[j] = n})
<1>1. \A i \in DOMAIN f : g[i] = f[i]
  BY AppendProperties
<1>2. DOMAIN f \subseteq 0 .. Len(f) /\ Len(f) \in Nat
  OBVIOUS
<1>3. ASSUME NEW n \in {name[j] : j \in DOMAIN name}
      PROVE  last(n) \in DOMAIN f
  BY <1>2, MaxExists
<1> HIDE DEF last, g
<1>4. [n \in {name[j] : j \in DOMAIN name} |-> g[last(n)].value]
        = [n \in {name[j] : j \in DOMAIN name} |-> f[last(n)].value]
  BY <1>1, <1>3
<1>5. QED
  BY <1>4 DEF Table, last, g

(* A line of its own adds an entry, or replaces the one of its name.       *)
LEMMA TableGrows ==
  ASSUME NEW L, NEW f \in Seq(L), NEW line \in L,
         NEW name, DOMAIN name \subseteq DOMAIN f,
         NEW more, DOMAIN more = DOMAIN name \cup {Len(f) + 1},
         \A j \in DOMAIN name : more[j] = name[j]
  PROVE  Table(Append(f, line), more) = Put(Table(f, name), more[Len(f) + 1], line.value)
<1> DEFINE g == Append(f, line)
           key == more[Len(f) + 1]
           old == {name[j] : j \in DOMAIN name}
           new == {more[j] : j \in DOMAIN more}
           was(n) == {j \in DOMAIN name : name[j] = n}
           is(n) == {j \in DOMAIN more : more[j] = n}
<1>1. PICK m \in Nat : m = Len(f) /\ DOMAIN f = 1 .. m
  OBVIOUS
<1>2. g[m + 1] = line /\ \A i \in 1 .. m : g[i] = f[i]
  BY <1>1, AppendProperties
<1>3. new = old \cup {key}
  BY <1>1
<1>4. DOMAIN name \subseteq 1 .. m /\ DOMAIN more = DOMAIN name \cup {m + 1}
  BY <1>1
<1>5. Max(is(key)) = m + 1
  <2>1. is(key) \subseteq 1 .. m + 1 /\ m + 1 \in is(key)
    BY <1>1, <1>4
  <2>2. is(key) \in SUBSET Nat /\ \A k \in is(key) : k <= m + 1
    BY <2>1
  <2> HIDE DEF is
  <2>3. QED
    BY <2>1, <2>2, MaxIs
<1>6. ASSUME NEW n \in old, n # key
      PROVE  Max(is(n)) = Max(was(n)) /\ Max(was(n)) \in 1 .. m
  <2>1. is(n) = was(n)
    BY <1>1, <1>4, <1>6
  <2>2. was(n) # {} /\ was(n) \subseteq 1 .. m
    BY <1>4
  <2>3. was(n) \in SUBSET (0 .. m)
    BY <2>2
  <2> HIDE DEF is, was
  <2>4. QED
    BY <2>1, <2>2, <2>3, MaxExists
<1> DEFINE after == [n \in new |-> g[Max(is(n))].value]
           before == [n \in old |-> f[Max(was(n))].value]
<1>7. Table(g, more) = after /\ Table(f, name) = before
  BY DEF Table
<1> HIDE DEF g, is, was, new, old
<1>8. after[key] = line.value /\ \A n \in old \ {key} : after[n] = before[n]
  BY <1>2, <1>3, <1>5, <1>6
<1>9. after = Put(before, key, line.value)
  BY <1>3, <1>8 DEF Put
<1>10. QED
  BY <1>7, <1>9 DEF g

(* Of no lines there is the empty table. *)
LEMMA TableOfNone ==
  ASSUME NEW f, NEW name, DOMAIN name = {}
  PROVE  Table(f, name) = << >>
<1>1. {name[j] : j \in DOMAIN name} = {}
  OBVIOUS
<1>2. QED
  BY <1>1 DEF Table

-----------------------------------------------------------------------------
(* Lists of blocks *)

(* The head with k heads up to it *)
Ranked(heads, k) == {h \in heads : Cardinality({j \in heads : j <= h}) = k}

(* Every place of the list is some head's. *)
Ordered(heads) == \A k \in 1 .. Cardinality(heads) : Ranked(heads, k) # {}

LEMMA NoBlocks == ASSUME NEW f PROVE BlocksAt(f, {}) = << >> /\ Ordered({})
<1>1. Cardinality({}) = 0
  BY FS_EmptySet
<1>2. QED
  BY <1>1 DEF BlocksAt, Ordered

(* A head below the others takes the place after theirs. *)
LEMMA RanksGrow ==
  ASSUME NEW heads \in SUBSET Nat, IsFiniteSet(heads), NEW n \in Nat, \A i \in heads : i < n
  PROVE  LET c == Cardinality(heads)
         IN  /\ c \in Nat /\ Cardinality(heads \cup {n}) = c + 1
             /\ \A k \in 1 .. c : Ranked(heads \cup {n}, k) = Ranked(heads, k)
             /\ Ranked(heads \cup {n}, c + 1) = {n}
<1> DEFINE more == heads \cup {n}
           c == Cardinality(heads)
           to(h) == {j \in heads : j <= h}
           upto(h) == {j \in more : j <= h}
<1>1. n \notin heads /\ c \in Nat /\ Cardinality(more) = c + 1
  BY FS_AddElement, FS_CardinalityType
<1>2. \A h \in heads : upto(h) = to(h)
  OBVIOUS
<1>3. upto(n) = more
  <2>1. \A j \in more : j \in Nat /\ j <= n
    OBVIOUS
  <2>2. QED
    BY <2>1
<1>4. ASSUME NEW h \in heads PROVE Cardinality(to(h)) \in Nat /\ Cardinality(to(h)) <= c
  <2>1. to(h) \subseteq heads
    OBVIOUS
  <2> HIDE DEF to
  <2>2. QED
    BY <2>1, FS_Subset, FS_CardinalityType
<1> HIDE DEF to, upto
<1>5. PICK a : \A h \in heads : a[h] = Cardinality(to(h))
  <2>1. \A h \in heads : [i \in heads |-> Cardinality(to(i))][h] = Cardinality(to(h))
    OBVIOUS
  <2>2. QED
    BY <2>1
<1>6. /\ \A h \in heads : h # n /\ Cardinality(upto(h)) = a[h] /\ a[h] \in Nat /\ a[h] <= c
      /\ Cardinality(upto(n)) = c + 1
  BY <1>1, <1>2, <1>3, <1>4, <1>5
<1> DEFINE R(k) == {h \in more : Cardinality(upto(h)) = k}
           Q(k) == {h \in heads : Cardinality(to(h)) = k}
<1> HIDE DEF c
<1>7. \A k \in 1 .. c : R(k) = Q(k)
  <2> SUFFICES ASSUME NEW k \in 1 .. c PROVE R(k) = Q(k)
    OBVIOUS
  <2>1. Q(k) = {h \in heads : a[h] = k}
    BY <1>5
  <2>2. \A h \in more : Cardinality(upto(h)) = k <=> h \in heads /\ a[h] = k
    <3>1. k # c + 1
      BY <1>1
    <3>2. QED
      BY <1>1, <1>6, <3>1
  <2>3. QED
    BY <2>1, <2>2
<1>8. R(c + 1) = {n}
  <2>1. \A h \in more : Cardinality(upto(h)) = c + 1 <=> h = n
    <3>1. \A h \in heads : a[h] # c + 1
      BY <1>1, <1>6
    <3>2. QED
      BY <1>6, <3>1
  <2>2. QED
    BY <2>1
<1>9. \A k : R(k) = Ranked(more, k) /\ Q(k) = Ranked(heads, k)
  BY DEF Ranked, upto, to
<1> HIDE DEF R, Q, c
<1>10. QED
  BY <1>1, <1>7, <1>8, <1>9 DEF c

LEMMA NthIs == \A heads, k : Nth(heads, k) = CHOOSE i \in Ranked(heads, k) : TRUE
BY DEF Nth, Ranked

(* A place of an ordered list is one of its heads. *)
LEMMA NthAmong ==
  ASSUME NEW heads, Ordered(heads), NEW k \in 1 .. Cardinality(heads)
  PROVE  Nth(heads, k) \in heads
<1>1. Ranked(heads, k) # {} /\ Ranked(heads, k) \subseteq heads
  BY DEF Ordered, Ranked
<1>2. QED
  BY <1>1, NthIs

(* The block of a head below the others is appended to the list. *)
LEMMA BlocksGrow ==
  ASSUME NEW f, NEW heads \in SUBSET Nat, IsFiniteSet(heads), Ordered(heads),
         NEW n \in Nat, \A i \in heads : i < n
  PROVE  /\ Ordered(heads \cup {n})
         /\ BlocksAt(f, heads \cup {n}) = Append(BlocksAt(f, heads), BlockAt(f, n))
<1> DEFINE more == heads \cup {n}
<1>1. PICK c \in Nat : c = Cardinality(heads)
  BY RanksGrow
<1>2. /\ Cardinality(more) = c + 1
      /\ \A k \in 1 .. c : Ranked(more, k) = Ranked(heads, k)
      /\ Ranked(more, c + 1) = {n}
  BY <1>1, RanksGrow
<1> HIDE DEF more
<1>3. \A k \in 1 .. c + 1 : k \in 1 .. c \/ k = c + 1
  OBVIOUS
<1>4. Ordered(more)
  BY <1>1, <1>2, <1>3 DEF Ordered
<1>5. Nth(more, c + 1) = n /\ \A k \in 1 .. c : Nth(more, k) = Nth(heads, k)
  BY <1>2, NthIs
<1> DEFINE q == [k \in 1 .. c |-> BlockAt(f, Nth(heads, k))]
           r == [k \in 1 .. c + 1 |-> BlockAt(f, Nth(more, k))]
           X == {BlockAt(f, Nth(heads, k)) : k \in 1 .. c} \cup {BlockAt(f, n)}
<1>6. BlocksAt(f, heads) = q /\ BlocksAt(f, more) = r
  BY <1>1, <1>2 DEF BlocksAt
<1>7. q \in Seq(X) /\ Len(q) = c
  OBVIOUS
<1>8. r = Append(q, BlockAt(f, n))
  BY <1>3, <1>5, <1>7
<1>9. QED
  BY <1>4, <1>6, <1>8 DEF more

(* A list of blocks is the same in two files if each block is. *)
LEMMA BlocksStay ==
  ASSUME NEW f, NEW g, NEW heads, Ordered(heads), \A h \in heads : BlockAt(g, h) = BlockAt(f, h)
  PROVE  BlocksAt(g, heads) = BlocksAt(f, heads)
BY NthAmong DEF BlocksAt

-----------------------------------------------------------------------------
(* One more line *)

LEMMA HeadOfIs ==
  ASSUME NEW L, NEW f \in Seq(L), NEW j \in Nat
  PROVE  /\ HeadOf(f, j) \in {0} \cup Heads(f)
         /\ HeadOf(f, j) \in Nat /\ HeadOf(f, j) <= j
         /\ \A i \in Heads(f) : i <= j => i <= HeadOf(f, j)
<1> DEFINE set == {0} \cup {i \in Heads(f) : i <= j}
<1>1. Heads(f) \subseteq Nat
  BY DEF Heads
<1>2. set \in SUBSET (0 .. j) /\ set # {}
  BY <1>1
<1>3. Max(set) \in set /\ \A k \in set : k <= Max(set)
  <2> HIDE DEF set
  <2>1. QED
    BY <1>2, MaxExists
<1>4. HeadOf(f, j) = Max(set)
  BY DEF HeadOf
<1> DEFINE m == Max(set)
<1>5. m \in set /\ \A k \in set : k <= m
  BY <1>3
<1> HIDE DEF m
<1>6. m \in {0} \cup Heads(f) /\ m \in Nat /\ m <= j /\ \A i \in Heads(f) : i <= j => i <= m
  BY <1>1, <1>5
<1>7. QED
  BY <1>4, <1>6 DEF m

(* What appending does to the lines and their kinds. *)
LEMMA LinesBefore ==
  ASSUME NEW L, NEW f \in Seq(L), NEW line \in L
  PROVE  LET g == Append(f, line)
             n == Len(f)
         IN  /\ n \in Nat /\ Len(g) = n + 1 /\ g \in Seq(L)
             /\ DOMAIN f = 1 .. n /\ DOMAIN g = 1 .. n + 1
             /\ g[n + 1] = line /\ \A i \in 1 .. n : g[i] = f[i]
             /\ Heads(f) \subseteq 1 .. n /\ Pairs(f) \subseteq 1 .. n
             /\ Heads(g) = Heads(f) \cup (IF line.kind = "section" THEN {n + 1} ELSE {})
             /\ Pairs(g) = Pairs(f) \cup (IF line.kind = "pair" THEN {n + 1} ELSE {})
<1> DEFINE g == Append(f, line)
<1>1. PICK n \in Nat : n = Len(f) /\ DOMAIN f = 1 .. n
  OBVIOUS
<1>2. /\ Len(g) = n + 1 /\ g \in Seq(L) /\ DOMAIN g = 1 .. n + 1
      /\ g[n + 1] = line /\ \A i \in 1 .. n : g[i] = f[i]
  BY <1>1, AppendProperties
<1> HIDE DEF g
<1>3. \A i \in 1 .. n + 1 : i \in 1 .. n \/ i = n + 1
  OBVIOUS
<1>4. Heads(f) \subseteq 1 .. n /\ Pairs(f) \subseteq 1 .. n
  BY <1>1 DEF Heads, Pairs
<1>5. Heads(g) = Heads(f) \cup (IF line.kind = "section" THEN {n + 1} ELSE {})
  BY <1>1, <1>2, <1>3 DEF Heads
<1>6. Pairs(g) = Pairs(f) \cup (IF line.kind = "pair" THEN {n + 1} ELSE {})
  BY <1>1, <1>2, <1>3 DEF Pairs
<1>7. QED
  BY <1>1, <1>2, <1>4, <1>5, <1>6 DEF g

(* The header of the section that is open *)
OpenHead(f) == HeadOf(f, Len(f))

(* A line belongs to the section that is open, or opens one. *)
LEMMA HeadAfter ==
  ASSUME NEW L, NEW f \in Seq(L), NEW line \in L
  PROVE  LET g == Append(f, line)
             n == Len(f)
         IN  /\ \A j \in 0 .. n : HeadOf(g, j) = HeadOf(f, j)
             /\ OpenHead(g) = HeadOf(g, n + 1)
             /\ OpenHead(g) = IF line.kind = "section" THEN n + 1 ELSE OpenHead(f)
<1> DEFINE g == Append(f, line)
<1>1. PICK n \in Nat : n = Len(f) /\ Len(g) = n + 1 /\ Heads(f) \subseteq 1 .. n
  BY LinesBefore
<1>2. Heads(g) = Heads(f) \cup (IF line.kind = "section" THEN {n + 1} ELSE {})
  BY <1>1, LinesBefore
<1> HIDE DEF g
<1>3. \A j \in 0 .. n : HeadOf(g, j) = HeadOf(f, j)
  <2>1. ASSUME NEW j \in 0 .. n
        PROVE  {i \in Heads(g) : i <= j} = {i \in Heads(f) : i <= j}
    BY <1>1, <1>2
  <2>2. QED
    BY <2>1 DEF HeadOf
<1>4. OpenHead(g) = HeadOf(g, n + 1)
  BY <1>1 DEF OpenHead
<1>5. CASE line.kind = "section"
  <2> DEFINE set == {0} \cup {i \in Heads(g) : i <= n + 1}
  <2>1. n + 1 \in set /\ set \in SUBSET Nat /\ \A k \in set : k <= n + 1
    BY <1>1, <1>2, <1>5
  <2> HIDE DEF set
  <2>2. Max(set) = n + 1
    BY <2>1, MaxIs
  <2>3. QED
    BY <1>1, <1>3, <1>4, <1>5, <2>2 DEF HeadOf, set, g
<1>6. CASE line.kind # "section"
  <2>1. {i \in Heads(g) : i <= n + 1} = {i \in Heads(f) : i <= n}
    BY <1>1, <1>2, <1>6
  <2>2. HeadOf(g, n + 1) = HeadOf(f, n)
    BY <2>1 DEF HeadOf
  <2>3. QED
    BY <1>1, <1>3, <1>4, <1>6, <2>2 DEF OpenHead, g
<1>7. QED
  BY <1>5, <1>6

(* The pairs of the section with this header *)
PairsOf(f, head) == {i \in Pairs(f) : HeadOf(f, i) = head}

(* A pair extends the block of the open section and no other. *)
LEMMA BlockAfter ==
  ASSUME NEW L, NEW f \in Seq(L), NEW line \in L, NEW head \in 0 .. Len(f) + 1
  PROVE  BlockAt(Append(f, line), head) =
           IF line.kind = "pair" /\ head = OpenHead(f)
           THEN Put(BlockAt(f, head), line.key, line.value) ELSE BlockAt(f, head)
<1> DEFINE g == Append(f, line)
           was == PairsOf(f, head)
           is == PairsOf(g, head)
           name == [j \in was |-> f[j].key]
           more == [j \in is |-> g[j].key]
<1>1. PICK n \in Nat : /\ n = Len(f) /\ DOMAIN f = 1 .. n /\ g[n + 1] = line
                      /\ \A i \in 1 .. n : g[i] = f[i]
  BY LinesBefore
<1>2. /\ Pairs(f) \subseteq 1 .. n
      /\ Pairs(g) = Pairs(f) \cup (IF line.kind = "pair" THEN {n + 1} ELSE {})
  BY <1>1, LinesBefore
<1>3. /\ \A j \in 1 .. n : HeadOf(g, j) = HeadOf(f, j)
      /\ HeadOf(g, n + 1) = IF line.kind = "section" THEN n + 1 ELSE OpenHead(f)
  <2>1. 1 .. n \subseteq 0 .. n
    BY <1>1
  <2>2. QED
    BY <1>1, <2>1, HeadAfter
<1>4. BlockAt(f, head) = Table(f, name) /\ BlockAt(g, head) = Table(g, more)
  BY DEF BlockAt, PairsOf
<1>5. was \subseteq DOMAIN f /\ n + 1 \notin was
  BY <1>1, <1>2 DEF PairsOf
<1> HIDE DEF g
<1>6. is = was \cup (IF line.kind = "pair" /\ head = OpenHead(f) THEN {n + 1} ELSE {})
  BY <1>1, <1>2, <1>3 DEF PairsOf
<1>7. CASE line.kind = "pair" /\ head = OpenHead(f)
  <2>1. more[n + 1] = line.key /\ \A j \in was : more[j] = name[j]
    BY <1>1, <1>5, <1>6, <1>7
  <2>2. DOMAIN more = DOMAIN name \cup {Len(f) + 1} /\ DOMAIN name = was
    BY <1>1, <1>6, <1>7
  <2> HIDE DEF more, name, was
  <2>3. /\ DOMAIN name \subseteq DOMAIN f /\ DOMAIN more = DOMAIN name \cup {Len(f) + 1}
        /\ more[Len(f) + 1] = line.key /\ \A j \in DOMAIN name : more[j] = name[j]
    BY <1>1, <1>5, <2>1, <2>2
  <2>4. Table(Append(f, line), more) = Put(Table(f, name), line.key, line.value)
    <3>1. ASSUME NEW nm, DOMAIN nm \subseteq DOMAIN f,
                 NEW mr, DOMAIN mr = DOMAIN nm \cup {Len(f) + 1},
                 \A j \in DOMAIN nm : mr[j] = nm[j]
          PROVE  Table(Append(f, line), mr) = Put(Table(f, nm), mr[Len(f) + 1], line.value)
      BY <3>1, TableGrows
    <3>2. QED
      BY <2>3, <3>1
  <2>5. QED
    BY <1>4, <1>7, <2>4 DEF g
<1>8. CASE ~(line.kind = "pair" /\ head = OpenHead(f))
  <2>1. more = name /\ DOMAIN name = was
    BY <1>1, <1>5, <1>6, <1>8
  <2> HIDE DEF more, name, was
  <2>2. Table(g, name) = Table(f, name)
    BY <1>5, <2>1, TableStays DEF g
  <2>3. QED
    BY <1>4, <1>8, <2>1, <2>2 DEF g
<1>9. QED
  BY <1>7, <1>8

(* The sections, spelled out *)
LEMMA Sections ==
  /\ Section = {"bind", "tile_rule", "decoration_rule", "input_map",
                "hooks", "layout_anim", "decoration", "pointer"}
  /\ BlockSection \subseteq Section /\ "" \notin BlockSection
BY DEF Section, Keys, BlockSection

-----------------------------------------------------------------------------
(* What the parser should have made of the lines so far *)

(* The block of the section that is open, if that one has blocks *)
BlockOpen(f) == OpenHead(f) # 0 /\ f[OpenHead(f)].name \in BlockSection
OpenVerdict(f) == Verdict(f[OpenHead(f)].name, BlockAt(f, OpenHead(f)))

HeadsFine(f) ==
  \A i \in Heads(f) :
     /\ f[i].name \in Section
     /\ i # OpenHead(f) /\ f[i].name \in BlockSection =>
          Verdict(f[i].name, BlockAt(f, i)) # "fail"
NoJunk(f) == \A j \in DOMAIN f : f[j].kind # "junk"
PairsTaken(f) ==
  \A j \in Pairs(f) :
     HeadOf(f, j) # 0 /\ Accepts(f[HeadOf(f, j)].name, f[j].key, f[j].value)

(* Nothing is wrong yet: the open block may still become complete. *)
SoFar(f) == HeadsFine(f) /\ NoJunk(f) /\ PairsTaken(f)

(* The blocks of section s that count, and those of them that are closed *)
Complete(f, s) == {i \in Heads(f) : f[i].name = s /\ Verdict(s, BlockAt(f, i)) = "append"}
Closed(f, s) == {i \in Complete(f, s) : i # OpenHead(f)}

(* The rules the parser has, and those it has once the open block ends *)
ClosedRules(f) == [s \in BlockSection |-> BlocksAt(f, Closed(f, s))]
RulesOf(f) == [s \in BlockSection |-> BlocksAt(f, Complete(f, s))]

(* The unfinished rules: that of the open section, and no other *)
OpenBlocks(f) ==
  [s \in BlockSection |-> IF OpenHead(f) # 0 /\ f[OpenHead(f)].name = s
                          THEN BlockAt(f, OpenHead(f)) ELSE << >>]

(* The state of the parser after lines with nothing wrong *)
Parsed(f) ==
  [ok |-> TRUE,
   section |-> IF OpenHead(f) = 0 THEN "" ELSE f[OpenHead(f)].name,
   blocks |-> OpenBlocks(f),
   rules |-> ClosedRules(f),
   settings |-> Settings(f)]

(* The lists of closed blocks have no gaps. *)
Lists(f) == \A s \in BlockSection : Ordered(Closed(f, s))

(* The open section is the last one. *)
LEMMA LastIs ==
  ASSUME NEW L, NEW f \in Seq(L)
  PROVE  /\ OpenHead(f) \in {0} \cup Heads(f) /\ OpenHead(f) \in 0 .. Len(f)
         /\ OpenHead(f) # 0 => OpenHead(f) \in Heads(f) /\ OpenHead(f) \in 1 .. Len(f)
         /\ \A i \in Heads(f) : i <= OpenHead(f)
<1>1. Len(f) \in Nat /\ Heads(f) \subseteq 1 .. Len(f)
  BY DEF Heads
<1>2. /\ OpenHead(f) \in {0} \cup Heads(f) /\ OpenHead(f) \in Nat /\ OpenHead(f) <= Len(f)
      /\ \A i \in Heads(f) : i <= Len(f) => i <= OpenHead(f)
  BY <1>1, HeadOfIs DEF OpenHead
<1>3. QED
  BY <1>1, <1>2

(* The blocks that count are the closed ones and, if it is complete, the   *)
(* open one, at the end.                                                   *)
LEMMA CompleteIs ==
  ASSUME NEW L, NEW f \in Seq(L), NEW s \in BlockSection, Ordered(Closed(f, s))
  PROVE  /\ Ordered(Complete(f, s))
         /\ BlocksAt(f, Complete(f, s)) =
              IF BlockOpen(f) /\ f[OpenHead(f)].name = s /\ OpenVerdict(f) = "append"
              THEN Append(BlocksAt(f, Closed(f, s)), BlockAt(f, OpenHead(f)))
              ELSE BlocksAt(f, Closed(f, s))
<1> DEFINE heads == Closed(f, s)
           last == OpenHead(f)
<1>1. /\ Heads(f) \subseteq 1 .. Len(f) /\ Len(f) \in Nat
      /\ last \in {0} \cup Heads(f) /\ last \in Nat /\ \A i \in Heads(f) : i <= last
  <2>1. Heads(f) \subseteq 1 .. Len(f) /\ Len(f) \in Nat
    BY DEF Heads
  <2>2. QED
    BY <2>1, LastIs
<1>2. heads \in SUBSET Nat /\ heads \subseteq 1 .. Len(f) /\ \A i \in heads : i < last
  BY <1>1 DEF Closed, Complete
<1>3. IsFiniteSet(heads)
  <2>1. IsFiniteSet(1 .. Len(f))
    BY <1>1, FS_Interval
  <2> HIDE DEF heads
  <2>2. QED
    BY <1>2, <2>1, FS_Subset
<1>4. CASE last \in Complete(f, s)
  <2>1. Complete(f, s) = heads \cup {last}
    BY <1>4 DEF Closed
  <2>2. last # 0 /\ f[last].name = s /\ Verdict(s, BlockAt(f, last)) = "append"
    BY <1>1, <1>4 DEF Complete
  <2> HIDE DEF heads
  <2>3. /\ Ordered(heads \cup {last})
        /\ BlocksAt(f, heads \cup {last}) = Append(BlocksAt(f, heads), BlockAt(f, last))
    BY <1>1, <1>2, <1>3, BlocksGrow DEF heads
  <2>4. QED
    BY <2>1, <2>2, <2>3 DEF heads, BlockOpen, OpenVerdict
<1>5. CASE last \notin Complete(f, s)
  <2>1. Complete(f, s) = heads
    BY <1>5 DEF Closed
  <2>2. ~(BlockOpen(f) /\ f[last].name = s /\ OpenVerdict(f) = "append")
    BY <1>1, <1>5 DEF Complete, BlockOpen, OpenVerdict
  <2>3. QED
    BY <2>1, <2>2
<1>6. QED
  BY <1>4, <1>5

LEMMA Verdicts ==
  ASSUME NEW s, NEW b
  PROVE  Verdict(s, b) \in {"append", "fail", "skip"}
BY DEF Verdict, BindVerdict, RuleVerdict, MapVerdict

(* The end of a section keeps the open block or finds fault with it.  What *)
(* it leaves unfinished is for the next header to clear, except in the     *)
(* rule of input_map, which no header clears.                              *)
LEMMA Flushed ==
  ASSUME NEW L, NEW f \in Seq(L), Lists(f)
  PROVE  IF BlockOpen(f) /\ OpenVerdict(f) = "fail" THEN Flush(Parsed(f)).ok = FALSE
         ELSE \E left \in [BlockSection -> {BlockAt(f, OpenHead(f)), << >>}] :
                 /\ left["input_map"] = << >>
                 /\ Flush(Parsed(f)) = [Parsed(f) EXCEPT !.rules = RulesOf(f), !.blocks = left]
<1> DEFINE st == Parsed(f)
           B == [BlockSection -> {BlockAt(f, OpenHead(f)), << >>}]
           cleared == [st.blocks EXCEPT ![st.section] = << >>]
<1>1. /\ st.ok = TRUE /\ st.section = IF OpenHead(f) = 0 THEN "" ELSE f[OpenHead(f)].name
      /\ st.blocks = OpenBlocks(f)
      /\ st.rules = [s \in BlockSection |-> BlocksAt(f, Closed(f, s))]
  BY DEF Parsed, ClosedRules
<1>2. st.section \in BlockSection <=> BlockOpen(f)
  BY <1>1, Sections DEF BlockOpen
<1>3. BlockOpen(f) => /\ st.blocks[st.section] = BlockAt(f, OpenHead(f))
                      /\ Verdict(st.section, st.blocks[st.section]) = OpenVerdict(f)
  BY <1>1 DEF BlockOpen, OpenVerdict, OpenBlocks
<1>4. /\ st.blocks \in B /\ cleared \in B
      /\ st.section # "input_map" => st.blocks["input_map"] = << >>
      /\ BlockOpen(f) => cleared["input_map"] = << >>
  <2>1. "input_map" \in BlockSection
    BY DEF BlockSection
  <2>2. OpenBlocks(f) \in B /\ \A s \in BlockSection : s # st.section => OpenBlocks(f)[s] = << >>
    BY <1>1, Sections DEF OpenBlocks
  <2>3. [OpenBlocks(f) EXCEPT ![st.section] = << >>] \in B
    BY <2>2
  <2> HIDE DEF st, B
  <2>4. QED
    BY <1>1, <1>2, <2>1, <2>2, <2>3 DEF B
<1>5. CASE BlockOpen(f) /\ OpenVerdict(f) = "fail"
  <2>1. Flush(st) = [st EXCEPT !.ok = FALSE]
    BY <1>1, <1>2, <1>3, <1>5 DEF Flush
  <2>2. QED
    BY <1>5, <2>1 DEF Parsed
<1>6. CASE BlockOpen(f) /\ OpenVerdict(f) = "append"
  <2>1. Flush(st) = [st EXCEPT !.rules[st.section] = Append(@, st.blocks[st.section]),
                               !.blocks[st.section] = << >>]
    BY <1>1, <1>2, <1>3, <1>6 DEF Flush
  <2>2. [st.rules EXCEPT ![st.section] = Append(@, st.blocks[st.section])] = RulesOf(f)
    <3>1. \A s \in BlockSection : RulesOf(f)[s] =
             IF s = st.section THEN Append(st.rules[s], st.blocks[s]) ELSE st.rules[s]
      BY <1>1, <1>3, <1>6, CompleteIs DEF RulesOf, Lists, BlockOpen
    <3>2. st.section \in BlockSection
      BY <1>2, <1>6
    <3>3. DOMAIN st.rules = BlockSection
      BY <1>1
    <3> HIDE DEF st, cleared, B
    <3>4. \A rules, blocks, sec : sec \in BlockSection /\ DOMAIN rules = BlockSection =>
             [rules EXCEPT ![sec] = Append(@, blocks[sec])]
               = [s \in BlockSection |-> IF s = sec THEN Append(rules[s], blocks[s]) ELSE rules[s]]
      OBVIOUS
    <3>5. QED
      BY <3>1, <3>2, <3>3, <3>4 DEF RulesOf
  <2>3. [st EXCEPT !.rules[st.section] = Append(@, st.blocks[st.section]), !.blocks[st.section] = << >>]
          = [st EXCEPT !.rules = [st.rules EXCEPT ![st.section] = Append(@, st.blocks[st.section])],
                       !.blocks = cleared]
    BY DEF Parsed
  <2>4. Flush(st) = [st EXCEPT !.rules = RulesOf(f), !.blocks = cleared]
    BY <2>1, <2>2, <2>3
  <2> HIDE DEF st, cleared, B
  <2>5. QED
    BY <1>4, <1>6, <2>4 DEF st, B
<1>7. CASE ~BlockOpen(f) \/ OpenVerdict(f) = "skip"
  <2>1. RulesOf(f) = st.rules
    <3>1. \A s \in BlockSection : BlocksAt(f, Complete(f, s)) = BlocksAt(f, Closed(f, s))
      BY <1>7, CompleteIs DEF Lists
    <3>2. QED
      BY <1>1, <3>1 DEF RulesOf
  <2>2. CASE BlockOpen(f) /\ st.section # "bind"
    <3>1. Flush(st) = [st EXCEPT !.blocks[st.section] = << >>]
      BY <1>1, <1>2, <1>3, <1>7, <2>2 DEF Flush
    <3>2. [st EXCEPT !.blocks[st.section] = << >>] = [st EXCEPT !.rules = st.rules, !.blocks = cleared]
      BY DEF Parsed
    <3>3. Flush(st) = [st EXCEPT !.rules = RulesOf(f), !.blocks = cleared]
      BY <2>1, <3>1, <3>2
    <3> HIDE DEF st, cleared, B
    <3>4. QED
      BY <1>4, <1>7, <2>2, <3>3 DEF st, B
  <2>3. CASE ~BlockOpen(f) \/ st.section = "bind"
    <3>1. Flush(st) = st /\ st.section # "input_map"
      <4>1. st.section \notin BlockSection \/ st.section = "bind"
        BY <1>2, <2>3
      <4>2. "input_map" \in BlockSection
        BY DEF BlockSection
      <4>3. st.section = "bind" /\ BlockOpen(f) => Verdict(st.section, st.blocks[st.section]) = "skip"
        BY <1>3, <1>7
      <4> HIDE DEF st
      <4>4. QED
        BY <1>2, <4>1, <4>2, <4>3 DEF Flush
    <3>2. st = [st EXCEPT !.rules = st.rules, !.blocks = st.blocks]
      BY DEF Parsed
    <3>3. Flush(st) = [st EXCEPT !.rules = RulesOf(f), !.blocks = st.blocks]
      BY <2>1, <3>1, <3>2
    <3> HIDE DEF st, cleared, B
    <3>4. QED
      BY <1>4, <1>7, <3>1, <3>3 DEF st, B
  <2>4. QED
    BY <2>2, <2>3
<1>8. QED
  BY <1>5, <1>6, <1>7, Verdicts DEF OpenVerdict

-----------------------------------------------------------------------------
(* What one more line changes *)

(* The sections above a file's lines are the same with one more line. *)
LEMMA NamesStay ==
  ASSUME NEW L, NEW f \in Seq(L), NEW line \in L
  PROVE  LET g == Append(f, line)
         IN  /\ \A i \in Heads(f) : g[i] = f[i]
             /\ \A j \in Pairs(f) : /\ g[j] = f[j] /\ HeadOf(g, j) = HeadOf(f, j)
                                    /\ HeadOf(f, j) # 0 => g[HeadOf(g, j)] = f[HeadOf(f, j)]
             /\ OpenHead(f) # 0 => g[OpenHead(f)] = f[OpenHead(f)]
<1> DEFINE g == Append(f, line)
<1>1. PICK n \in Nat : /\ n = Len(f) /\ \A i \in 1 .. n : g[i] = f[i]
                      /\ Heads(f) \subseteq 1 .. n /\ Pairs(f) \subseteq 1 .. n
  BY LinesBefore
<1>2. \A j \in 1 .. n : HeadOf(g, j) = HeadOf(f, j)
  <2>1. \A j \in 0 .. n : HeadOf(g, j) = HeadOf(f, j)
    BY <1>1, HeadAfter
  <2>2. QED
    BY <2>1
<1>3. \A j \in 1 .. n : HeadOf(f, j) # 0 => HeadOf(f, j) \in 1 .. n
  <2>1. \A j \in 1 .. n : j \in Nat
    OBVIOUS
  <2>2. QED
    BY <1>1, <2>1, HeadOfIs
<1>4. OpenHead(f) # 0 => OpenHead(f) \in 1 .. n
  BY <1>1, LastIs
<1> HIDE DEF g
<1>5. QED
  BY <1>1, <1>2, <1>3, <1>4 DEF g

SettingSection == {"hooks", "layout_anim", "decoration"}

(* The pairs that are settings *)
SetLines(f) == {j \in Pairs(f) : f[HeadOf(f, j)].name \in SettingSection}

(* A pair of a section of settings is a setting, and nothing else is. *)
LEMMA SettingsAfter ==
  ASSUME NEW L, NEW f \in Seq(L), NEW line \in L, SoFar(f)
  PROVE  /\ line.kind # "pair" => Settings(Append(f, line)) = Settings(f)
         /\ line.kind = "pair" /\ OpenHead(f) # 0 =>
              Settings(Append(f, line)) =
                IF f[OpenHead(f)].name \in SettingSection
                THEN Put(Settings(f), << f[OpenHead(f)].name, line.key >>, line.value)
                ELSE Settings(f)
<1> DEFINE g == Append(f, line)
           was == SetLines(f)
           is == SetLines(g)
           head == OpenHead(f)
           name == [j \in was |-> << f[HeadOf(f, j)].name, f[j].key >>]
           more == [j \in is |-> << g[HeadOf(g, j)].name, g[j].key >>]
<1>1. PICK n \in Nat : /\ n = Len(f) /\ DOMAIN f = 1 .. n /\ g[n + 1] = line
                      /\ \A i \in 1 .. n : g[i] = f[i]
  BY LinesBefore
<1>2. /\ Pairs(f) \subseteq 1 .. n
      /\ Pairs(g) = Pairs(f) \cup (IF line.kind = "pair" THEN {n + 1} ELSE {})
  BY <1>1, LinesBefore
<1>3. \A j \in Pairs(f) : g[j] = f[j] /\ g[HeadOf(g, j)] = f[HeadOf(f, j)]
  <2>1. \A j \in Pairs(f) : HeadOf(f, j) # 0
    BY DEF SoFar, PairsTaken
  <2>2. \A j \in Pairs(f) : /\ g[j] = f[j] /\ HeadOf(g, j) = HeadOf(f, j)
                            /\ HeadOf(f, j) # 0 => g[HeadOf(g, j)] = f[HeadOf(f, j)]
    BY NamesStay
  <2> HIDE DEF g
  <2>3. QED
    BY <2>1, <2>2
<1>4. /\ line.kind = "pair" => HeadOf(g, n + 1) = head
      /\ head # 0 => g[head] = f[head]
  BY <1>1, HeadAfter, NamesStay
<1>5. Settings(f) = Table(f, name) /\ Settings(g) = Table(g, more)
  BY DEF Settings, SetLines, SettingSection
<1>6. was \subseteq DOMAIN f /\ n + 1 \notin was
  BY <1>1, <1>2 DEF SetLines
<1> HIDE DEF g, head
<1>7. CASE line.kind = "pair" /\ head # 0 /\ f[head].name \in SettingSection
  <2>1. is = was \cup {n + 1}
    BY <1>1, <1>2, <1>3, <1>4, <1>7 DEF SetLines
  <2>2. \A j \in was : more[j] = name[j]
    BY <1>3, <2>1 DEF SetLines
  <2>3. more[n + 1] = << f[head].name, line.key >>
    BY <1>1, <1>4, <1>7, <2>1
  <2>4. DOMAIN name = was /\ DOMAIN more = is
    OBVIOUS
  <2> HIDE DEF more, name, was, is
  <2>5. /\ DOMAIN name \subseteq DOMAIN f /\ DOMAIN more = DOMAIN name \cup {Len(f) + 1}
        /\ \A j \in DOMAIN name : more[j] = name[j]
    BY <1>1, <1>6, <2>1, <2>2, <2>4
  <2>6. Table(Append(f, line), more) = Put(Table(f, name), more[Len(f) + 1], line.value)
    <3>1. ASSUME NEW nm, DOMAIN nm \subseteq DOMAIN f,
                 NEW mr, DOMAIN mr = DOMAIN nm \cup {Len(f) + 1},
                 \A j \in DOMAIN nm : mr[j] = nm[j]
          PROVE  Table(Append(f, line), mr) = Put(Table(f, nm), mr[Len(f) + 1], line.value)
      BY <3>1, TableGrows
    <3>2. QED
      BY <2>5, <3>1
  <2>7. QED
    BY <1>1, <1>5, <1>7, <2>3, <2>6 DEF g, head
<1>8. CASE line.kind # "pair" \/ (head # 0 /\ f[head].name \notin SettingSection)
  <2>1. is = was
    BY <1>1, <1>2, <1>3, <1>4, <1>8 DEF SetLines
  <2>2. more = name /\ DOMAIN name = was
    BY <1>3, <2>1 DEF SetLines
  <2> HIDE DEF more, name, was
  <2>3. Table(g, name) = Table(f, name)
    BY <1>6, <2>2, TableStays DEF g
  <2>4. QED
    BY <1>5, <1>8, <2>2, <2>3 DEF g, head
<1>9. QED
  BY <1>7, <1>8 DEF g, head

(* A header closes the block that was open; other lines close none. *)
LEMMA ClosedAfter ==
  ASSUME NEW L, NEW f \in Seq(L), NEW line \in L, NEW s \in BlockSection
  PROVE  LET g == Append(f, line)
         IN  /\ line.kind = "section" => Closed(g, s) = Complete(f, s)
             /\ line.kind # "section" => Closed(g, s) = Closed(f, s)
             /\ \A h \in Closed(g, s) : BlockAt(g, h) = BlockAt(f, h)
<1> DEFINE g == Append(f, line)
<1>1. PICK n \in Nat : n = Len(f) /\ Heads(f) \subseteq 1 .. n
  BY LinesBefore
<1>2. /\ Heads(g) = Heads(f) \cup (IF line.kind = "section" THEN {n + 1} ELSE {})
      /\ OpenHead(g) = IF line.kind = "section" THEN n + 1 ELSE OpenHead(f)
  BY <1>1, LinesBefore, HeadAfter
<1>3. \A i \in Heads(f) : g[i] = f[i]
  BY NamesStay
<1>4. \A i \in Heads(f) : i # OpenHead(f) \/ line.kind # "pair" => BlockAt(g, i) = BlockAt(f, i)
  <2>1. \A i \in Heads(f) : i \in 0 .. Len(f) + 1
    BY <1>1
  <2>2. QED
    BY <2>1, BlockAfter
<1> HIDE DEF g
<1>5. CASE line.kind = "section"
  <2>1. \A i \in Heads(f) : i # n + 1
    BY <1>1
  <2>2. Closed(g, s) = Complete(f, s)
    BY <1>2, <1>3, <1>4, <1>5, <2>1 DEF Closed, Complete
  <2>3. QED
    BY <1>4, <1>5, <2>2 DEF g, Complete
<1>6. CASE line.kind # "section"
  <2>1. Closed(g, s) = Closed(f, s)
    BY <1>2, <1>3, <1>4, <1>6 DEF Closed, Complete
  <2>2. QED
    BY <1>4, <1>6, <2>1 DEF g, Closed, Complete
<1>7. QED
  BY <1>5, <1>6

(* One junk line is enough. *)
LEMMA NoJunkAfter ==
  ASSUME NEW L, NEW f \in Seq(L), NEW line \in L
  PROVE  NoJunk(Append(f, line)) <=> NoJunk(f) /\ line.kind # "junk"
<1> DEFINE g == Append(f, line)
<1>1. PICK n \in Nat : DOMAIN f = 1 .. n /\ DOMAIN g = 1 .. n + 1
                      /\ g[n + 1] = line /\ (\A i \in 1 .. n : g[i] = f[i])
  BY LinesBefore
<1>2. \A j \in 1 .. n + 1 : j \in 1 .. n \/ j = n + 1
  OBVIOUS
<1>3. 1 .. n \subseteq 1 .. n + 1 /\ n + 1 \in 1 .. n + 1
  OBVIOUS
<1> HIDE DEF g
<1>4. QED
  BY <1>1, <1>2, <1>3 DEF NoJunk, g

(* A pair needs a section to be open that takes it. *)
LEMMA PairsTakenAfter ==
  ASSUME NEW L, NEW f \in Seq(L), NEW line \in L
  PROVE  PairsTaken(Append(f, line)) <=>
           /\ PairsTaken(f)
           /\ line.kind = "pair" =>
                OpenHead(f) # 0 /\ Accepts(f[OpenHead(f)].name, line.key, line.value)
<1> DEFINE g == Append(f, line)
           head == OpenHead(f)
           Taken(q, j) == HeadOf(q, j) # 0 /\ Accepts(q[HeadOf(q, j)].name, q[j].key, q[j].value)
<1>1. PICK n \in Nat : n = Len(f) /\ g[n + 1] = line
  BY LinesBefore
<1>2. Pairs(g) = Pairs(f) \cup (IF line.kind = "pair" THEN {n + 1} ELSE {})
  BY <1>1, LinesBefore
<1>3. \A j \in Pairs(f) : /\ g[j] = f[j] /\ HeadOf(g, j) = HeadOf(f, j)
                          /\ HeadOf(f, j) # 0 => g[HeadOf(g, j)] = f[HeadOf(f, j)]
  BY NamesStay
<1>4. \A j \in Pairs(f) : Taken(g, j) <=> Taken(f, j)
  <2> HIDE DEF g
  <2>1. QED
    BY <1>3
<1>5. line.kind = "pair" =>
        (Taken(g, n + 1) <=> head # 0 /\ Accepts(f[head].name, line.key, line.value))
  <2>1. OpenHead(g) = HeadOf(g, n + 1)
        /\ (line.kind = "pair" => OpenHead(g) = head) /\ (head # 0 => g[head] = f[head])
    BY <1>1, HeadAfter, NamesStay
  <2> HIDE DEF g, head
  <2>2. QED
    BY <1>1, <2>1
<1>6. \A q : PairsTaken(q) <=> \A j \in Pairs(q) : Taken(q, j)
  BY DEF PairsTaken
<1> HIDE DEF g, head, Taken
<1>7. QED
  BY <1>2, <1>4, <1>5, <1>6 DEF g, head

(* A header must name a section, and the block it ends must not be one to  *)
(* find fault with.                                                        *)
LEMMA HeadsFineAfter ==
  ASSUME NEW L, NEW f \in Seq(L), NEW line \in L
  PROVE  HeadsFine(Append(f, line)) <=>
           /\ HeadsFine(f)
           /\ line.kind = "section" =>
                line.name \in Section /\ ~(BlockOpen(f) /\ OpenVerdict(f) = "fail")
<1> DEFINE g == Append(f, line)
           head == OpenHead(f)
           Fails(q, i) == q[i].name \in BlockSection /\ Verdict(q[i].name, BlockAt(q, i)) = "fail"
<1>1. PICK n \in Nat : n = Len(f) /\ g[n + 1] = line /\ Heads(f) \subseteq 1 .. n
  BY LinesBefore
<1>2. /\ Heads(g) = Heads(f) \cup (IF line.kind = "section" THEN {n + 1} ELSE {})
      /\ OpenHead(g) = IF line.kind = "section" THEN n + 1 ELSE head
  BY <1>1, LinesBefore, HeadAfter
<1>3. \A i \in Heads(f) : g[i] = f[i] /\ i # n + 1
  BY <1>1, NamesStay
<1>4. \A i \in Heads(f) : i # head \/ line.kind = "section" => (Fails(g, i) <=> Fails(f, i))
  <2>1. \A i \in Heads(f) : i \in 0 .. Len(f) + 1
    BY <1>1
  <2>2. \A i \in Heads(f) : i # head \/ line.kind = "section" => BlockAt(g, i) = BlockAt(f, i)
    BY <2>1, BlockAfter
  <2> HIDE DEF g, head
  <2>3. QED
    BY <1>3, <2>2
<1>5. /\ head = 0 \/ head \in Heads(f)
      /\ 0 \notin Heads(f)
      /\ BlockOpen(f) /\ OpenVerdict(f) = "fail" <=> head # 0 /\ Fails(f, head)
  BY <1>1, LastIs DEF BlockOpen, OpenVerdict
<1>6. \A q : HeadsFine(q) <=>
        \A i \in Heads(q) : q[i].name \in Section /\ (i # OpenHead(q) => ~Fails(q, i))
  BY DEF HeadsFine
<1> HIDE DEF g, head, Fails
<1>7. CASE line.kind = "section"
  <2>1. Heads(g) = Heads(f) \cup {n + 1} /\ OpenHead(g) = n + 1
    BY <1>2, <1>7
  <2>2. HeadsFine(g) <=>
          line.name \in Section /\ \A i \in Heads(f) : f[i].name \in Section /\ ~Fails(f, i)
    BY <1>1, <1>3, <1>4, <1>6, <1>7, <2>1
  <2>3. HeadsFine(f) /\ ~(head # 0 /\ Fails(f, head)) <=>
          \A i \in Heads(f) : f[i].name \in Section /\ ~Fails(f, i)
    BY <1>5, <1>6 DEF head
  <2>4. QED
    BY <1>5, <1>7, <2>2, <2>3 DEF g
<1>8. CASE line.kind # "section"
  <2>1. Heads(g) = Heads(f) /\ OpenHead(g) = OpenHead(f)
    BY <1>2, <1>8 DEF head
  <2>2. QED
    BY <1>3, <1>4, <1>6, <1>8, <2>1 DEF g, head
<1>9. QED
  BY <1>7, <1>8

(* A file is well formed if nothing is wrong at its end either. *)
LEMMA WellFormedIs ==
  ASSUME NEW L, NEW f \in Seq(L)
  PROVE  WellFormed(f) <=> SoFar(f) /\ ~(BlockOpen(f) /\ OpenVerdict(f) = "fail")
<1>1. OpenHead(f) = 0 \/ OpenHead(f) \in Heads(f)
  BY LastIs
<1>2. 0 \notin Heads(f)
  BY DEF Heads
<1>3. QED
  BY <1>1, <1>2 DEF WellFormed, SoFar, HeadsFine, NoJunk, PairsTaken, BlockOpen, OpenVerdict

-----------------------------------------------------------------------------
(* One pass of the loop *)

(* The parser is in the state the lines say, or has given up. *)
Describes(st, f) == IF SoFar(f) THEN st = Parsed(f) ELSE st.ok = FALSE

LEMMA SoFarAfter ==
  ASSUME NEW L, NEW f \in Seq(L), NEW line \in L
  PROVE  SoFar(Append(f, line)) <=>
           /\ SoFar(f) /\ line.kind # "junk"
           /\ line.kind = "pair" =>
                OpenHead(f) # 0 /\ Accepts(f[OpenHead(f)].name, line.key, line.value)
           /\ line.kind = "section" =>
                line.name \in Section /\ ~(BlockOpen(f) /\ OpenVerdict(f) = "fail")
BY NoJunkAfter, PairsTakenAfter, HeadsFineAfter DEF SoFar

(* The lists of closed blocks grow by the block that a header ends. *)
LEMMA RulesAfter ==
  ASSUME NEW L, NEW f \in Seq(L), NEW line \in L, Lists(f)
  PROVE  /\ Lists(Append(f, line))
         /\ ClosedRules(Append(f, line)) =
              IF line.kind = "section" THEN RulesOf(f) ELSE ClosedRules(f)
<1> DEFINE g == Append(f, line)
           kept(s) == IF line.kind = "section" THEN Complete(f, s) ELSE Closed(f, s)
<1>1. ASSUME NEW s \in BlockSection
      PROVE  Ordered(Closed(g, s)) /\ BlocksAt(g, Closed(g, s)) = BlocksAt(f, kept(s))
  <2>1. Closed(g, s) = kept(s) /\ \A h \in Closed(g, s) : BlockAt(g, h) = BlockAt(f, h)
    BY ClosedAfter
  <2>2. Ordered(Closed(f, s)) /\ Ordered(Complete(f, s))
    BY CompleteIs DEF Lists
  <2>3. Ordered(kept(s))
    BY <2>2
  <2> HIDE DEF kept, g
  <2>4. QED
    BY <2>1, <2>3, BlocksStay
<1> HIDE DEF g
<1>2. QED
  BY <1>1 DEF Lists, RulesOf, ClosedRules, g

(* What is open after a line that is no header is what was open before. *)
LEMMA OpenAfter ==
  ASSUME NEW L, NEW f \in Seq(L), NEW line \in L, line.kind # "section"
  PROVE  LET g == Append(f, line)
         IN  /\ OpenHead(g) = OpenHead(f)
             /\ OpenHead(f) # 0 => g[OpenHead(g)].name = f[OpenHead(f)].name
             /\ BlockOpen(g) <=> BlockOpen(f)
<1> DEFINE g == Append(f, line)
           head == OpenHead(f)
<1>1. OpenHead(g) = head /\ (head # 0 => g[head] = f[head])
  BY HeadAfter, NamesStay
<1> HIDE DEF g
<1>2. QED
  BY <1>1 DEF BlockOpen, g

(* A line that is neither header nor pair changes nothing. *)
LEMMA OtherKeeps ==
  ASSUME NEW L, NEW f \in Seq(L), NEW line \in L, Lists(f), SoFar(f),
         line.kind \notin {"section", "pair"}
  PROVE  Parsed(Append(f, line)) = Parsed(f)
<1> DEFINE g == Append(f, line)
<1>1. /\ OpenHead(g) = OpenHead(f) /\ (BlockOpen(g) <=> BlockOpen(f))
      /\ OpenHead(f) # 0 => g[OpenHead(g)].name = f[OpenHead(f)].name
  BY OpenAfter
<1>2. BlockAt(g, OpenHead(f)) = BlockAt(f, OpenHead(f))
  <2>1. OpenHead(f) \in 0 .. Len(f) + 1
    BY LastIs
  <2>2. QED
    BY <2>1, BlockAfter
<1>3. Settings(g) = Settings(f)
  BY SettingsAfter
<1>4. ClosedRules(g) = ClosedRules(f)
  BY RulesAfter
<1> HIDE DEF g
<1>5. OpenBlocks(g) = OpenBlocks(f)
  BY <1>1, <1>2 DEF OpenBlocks
<1>6. QED
  BY <1>1, <1>3, <1>4, <1>5 DEF Parsed, g

(* A pair goes to the open block or to the settings, or is ignored. *)
LEMMA PairKeeps ==
  ASSUME NEW L, NEW f \in Seq(L), NEW line \in L, Lists(f), SoFar(f), line.kind = "pair"
  PROVE  Describes(Assign(Parsed(f), line.key, line.value), Append(f, line))
<1> DEFINE g == Append(f, line)
           st == Parsed(f)
           head == OpenHead(f)
           name == f[head].name
           rules == ClosedRules(f)
           blocks == OpenBlocks(f)
           extended == [blocks EXCEPT ![name] = Put(@, line.key, line.value)]
<1>1. /\ st.ok = TRUE /\ st.section = IF head = 0 THEN "" ELSE name
      /\ st.blocks = blocks /\ st.rules = rules /\ st.settings = Settings(f)
  BY DEF Parsed
<1>2. BlockOpen(f) <=> head # 0 /\ name \in BlockSection
  BY DEF BlockOpen
<1>3. SoFar(g) <=> head # 0 /\ Accepts(name, line.key, line.value)
  BY SoFarAfter
<1>4. /\ OpenHead(g) = head /\ (BlockOpen(g) <=> BlockOpen(f))
      /\ head # 0 => g[OpenHead(g)].name = name
  BY OpenAfter
<1>5. BlockAt(g, head) = Put(BlockAt(f, head), line.key, line.value)
  <2>1. head \in 0 .. Len(f) + 1
    BY LastIs
  <2>2. QED
    BY <2>1, BlockAfter
<1>6. head # 0 => Settings(g) = IF name \in SettingSection
                                THEN Put(Settings(f), << name, line.key >>, line.value)
                                ELSE Settings(f)
  BY SettingsAfter
<1>7. ClosedRules(g) = rules
  BY RulesAfter
<1>8. head # 0 => name \in Section
  BY LastIs DEF SoFar, HeadsFine
<1> DEFINE after == Assign(st, line.key, line.value)
<1> HIDE DEF rules, blocks
<1>9. CASE ~SoFar(g)
  <2>1. st.section \notin Section \/ ~Accepts(st.section, line.key, line.value)
    BY <1>1, <1>3, <1>9, Sections
  <2>2. after = [st EXCEPT !.ok = FALSE]
    BY <2>1 DEF Assign
  <2>3. after.ok = FALSE
    BY <2>2 DEF Parsed
  <2>4. QED
    BY <1>9, <2>3 DEF Describes
<1>10. CASE SoFar(g) /\ name \in BlockSection
  <2>1. st.section = name /\ name \in Section /\ Accepts(name, line.key, line.value) /\ BlockOpen(f)
    BY <1>1, <1>2, <1>3, <1>8, <1>10
  <2>2. after = [st EXCEPT !.blocks[name] = Put(@, line.key, line.value)]
    BY <1>10, <2>1 DEF Assign
  <2>3. name \notin SettingSection
    BY <1>10 DEF BlockSection, SettingSection
  <2>4. Parsed(g) = [ok |-> TRUE, section |-> name, blocks |-> extended,
                     rules |-> rules, settings |-> Settings(f)]
    <3>1. head # 0
      BY <1>2, <2>1
    <3> HIDE DEF g, st, head, name, after
    <3>2. \A s \in BlockSection :
             OpenBlocks(g)[s] = IF s = name THEN Put(BlockAt(f, head), line.key, line.value) ELSE << >>
      BY <1>4, <1>5, <3>1 DEF OpenBlocks
    <3>3. \A s \in BlockSection : blocks[s] = IF s = name THEN BlockAt(f, head) ELSE << >>
      BY <3>1 DEF OpenBlocks, blocks, head, name
    <3>4. DOMAIN blocks = BlockSection
      BY DEF OpenBlocks, blocks
    <3>5. OpenBlocks(g) = extended
      BY <1>10, <3>2, <3>3, <3>4 DEF OpenBlocks
    <3> HIDE DEF extended
    <3>6. QED
      BY <1>2, <1>4, <1>6, <1>7, <2>1, <2>3, <3>5 DEF Parsed
  <2>5. after = [ok |-> TRUE, section |-> name, blocks |-> extended,
                 rules |-> rules, settings |-> Settings(f)]
    BY <2>1, <2>2 DEF Parsed, rules, blocks
  <2>6. after = Parsed(g)
    BY <2>4, <2>5
  <2>7. QED
    BY <1>10, <2>6 DEF Describes
<1>11. CASE SoFar(g) /\ name \notin BlockSection
  <2>1. st.section = name /\ name \in Section /\ Accepts(name, line.key, line.value) /\ ~BlockOpen(f)
        /\ head # 0
    BY <1>1, <1>2, <1>3, <1>8, <1>11
  <2>2. after = IF name = "pointer" THEN st
                ELSE [st EXCEPT !.settings = Put(@, << name, line.key >>, line.value)]
    BY <1>11, <2>1 DEF Assign
  <2>3. name \in SettingSection <=> name # "pointer"
    BY <1>11, <2>1, Sections DEF BlockSection, SettingSection
  <2>4. Parsed(g) = [ok |-> TRUE, section |-> name, blocks |-> blocks, rules |-> rules,
                     settings |-> IF name = "pointer" THEN Settings(f)
                                  ELSE Put(Settings(f), << name, line.key >>, line.value)]
    <3> HIDE DEF g, st, head, name, after
    <3>1. OpenBlocks(g) = blocks
      BY <1>4, <1>11, <2>1 DEF OpenBlocks, blocks, head, name
    <3>2. QED
      BY <1>4, <1>6, <1>7, <2>1, <2>3, <3>1 DEF Parsed
  <2>5. after = [ok |-> TRUE, section |-> name, blocks |-> blocks, rules |-> rules,
                 settings |-> IF name = "pointer" THEN Settings(f)
                              ELSE Put(Settings(f), << name, line.key >>, line.value)]
    BY <2>1, <2>2 DEF Parsed, rules, blocks
  <2>6. after = Parsed(g)
    BY <2>4, <2>5
  <2>7. QED
    BY <1>11, <2>6 DEF Describes
<1>12. QED
  BY <1>9, <1>10, <1>11

(* Only a pair adds a pair. *)
LEMMA PairsStay ==
  ASSUME NEW L, NEW f \in Seq(L), NEW line \in L
  PROVE  /\ Len(f) \in Nat /\ Pairs(f) \subseteq 1 .. Len(f)
         /\ line.kind # "pair" => Pairs(Append(f, line)) = Pairs(f)
<1> DEFINE g == Append(f, line)
<1>1. PICK n \in Nat : n = Len(f) /\ Pairs(f) \subseteq 1 .. n
  BY LinesBefore
<1>2. Pairs(g) = Pairs(f) \cup (IF line.kind = "pair" THEN {n + 1} ELSE {})
  BY <1>1, LinesBefore
<1> HIDE DEF g
<1>3. QED
  BY <1>1, <1>2 DEF g

(* A header ends the open block and opens an empty one. *)
LEMMA HeaderKeeps ==
  ASSUME NEW L, NEW f \in Seq(L), NEW line \in L, Lists(f), SoFar(f), line.kind = "section"
  PROVE  Describes(Enter(Flush(Parsed(f)), line.name), Append(f, line))
<1> DEFINE g == Append(f, line)
           n == Len(f)
           end == Flush(Parsed(f))
           after == Enter(end, line.name)
           none == [s \in BlockSection |-> << >>]
<1>1. SoFar(g) <=> line.name \in Section /\ ~(BlockOpen(f) /\ OpenVerdict(f) = "fail")
  BY SoFarAfter
<1>2. CASE BlockOpen(f) /\ OpenVerdict(f) = "fail"
  <2>1. end.ok = FALSE
    BY <1>2, Flushed
  <2>2. QED
    BY <1>1, <1>2, <2>1 DEF Enter, Describes
<1>3. CASE ~(BlockOpen(f) /\ OpenVerdict(f) = "fail")
  <2>1. PICK left : /\ DOMAIN left = BlockSection /\ left["input_map"] = << >>
                    /\ end = [Parsed(f) EXCEPT !.rules = RulesOf(f), !.blocks = left]
    BY <1>3, Flushed
  <2>2. after = [ok |-> line.name \in Section, section |-> line.name, blocks |-> none,
                 rules |-> RulesOf(f), settings |-> Settings(f)]
    <3>1. [left EXCEPT !["bind"] = << >>, !["tile_rule"] = << >>, !["decoration_rule"] = << >>] = none
      BY <2>1 DEF BlockSection
    <3>2. end = [ok |-> TRUE, section |-> Parsed(f).section, blocks |-> left,
                 rules |-> RulesOf(f), settings |-> Settings(f)]
      BY <2>1 DEF Parsed
    <3> HIDE DEF end, none
    <3>3. QED
      BY <3>1, <3>2 DEF Enter
  <2>3. CASE line.name \notin Section
    <3>1. (line.name \in Section) = FALSE
      BY <2>3
    <3> HIDE DEF after
    <3>2. after.ok = FALSE
      BY <2>2, <3>1
    <3>3. QED
      BY <1>1, <2>3, <3>2 DEF Describes, after, end
  <2>4. CASE line.name \in Section
    <3>1. OpenHead(g) = n + 1 /\ g[n + 1] = line /\ n + 1 # 0
      BY LinesBefore, HeadAfter
    <3>2. Settings(g) = Settings(f)
      BY SettingsAfter
    <3>3. ClosedRules(g) = RulesOf(f)
      BY RulesAfter
    <3>4. BlockAt(g, n + 1) = << >>
      <4>1. \A i \in Pairs(g) : HeadOf(g, i) # n + 1
        <5>1. n \in Nat /\ Pairs(g) = Pairs(f) /\ Pairs(f) \subseteq 1 .. n
          BY PairsStay
        <5>2. \A i \in 1 .. n : i \in 0 .. n /\ i \in Nat /\ i < n + 1
          BY <5>1
        <5>3. \A i \in 1 .. n : HeadOf(f, i) \in Nat /\ HeadOf(f, i) <= i
          BY <5>2, HeadOfIs
        <5>4. \A i \in 1 .. n : HeadOf(g, i) = HeadOf(f, i)
          BY <5>2, HeadAfter
        <5> HIDE DEF g, n
        <5>5. QED
          BY <5>1, <5>2, <5>3, <5>4
      <4>2. PairsOf(g, n + 1) = {}
        BY <4>1 DEF PairsOf
      <4>3. BlockAt(g, n + 1) = Table(g, [j \in PairsOf(g, n + 1) |-> g[j].key])
        BY DEF BlockAt, PairsOf
      <4> HIDE DEF g, n
      <4>4. QED
        BY <4>2, <4>3, TableOfNone
    <3>5. Parsed(g) = [ok |-> TRUE, section |-> line.name, blocks |-> none,
                       rules |-> RulesOf(f), settings |-> Settings(f)]
      <4> HIDE DEF g, n
      <4>1. OpenBlocks(g) = none
        BY <3>1, <3>4 DEF OpenBlocks
      <4>2. QED
        BY <3>1, <3>2, <3>3, <4>1 DEF Parsed
    <3>6. after = Parsed(g)
      BY <2>2, <2>4, <3>5
    <3>7. QED
      BY <1>1, <1>3, <2>4, <3>6 DEF Describes
  <2>5. QED
    BY <2>3, <2>4
<1>4. QED
  BY <1>2, <1>3

(* Whatever the line, the parser goes on to be what the lines say. *)
LEMMA StepKeeps ==
  ASSUME NEW L, NEW f \in Seq(L), NEW line \in L, Lists(f), NEW st, Describes(st, f),
         line.kind \in {"blank", "section", "pair", "junk"}
  PROVE  Describes(Step(st, line), Append(f, line))
<1> DEFINE g == Append(f, line)
<1>1. CASE ~SoFar(f)
  <2>1. st.ok = FALSE
    BY <1>1 DEF Describes
  <2>2. Step(st, line) = st
    BY <2>1 DEF Step
  <2>3. ~SoFar(g)
    BY <1>1, SoFarAfter
  <2>4. QED
    BY <2>1, <2>2, <2>3 DEF Describes
<1>2. CASE SoFar(f)
  <2>1. st = Parsed(f) /\ st.ok = TRUE
    <3>1. st = Parsed(f)
      BY <1>2 DEF Describes
    <3>2. QED
      BY <3>1 DEF Parsed
  <2>2. CASE line.kind = "blank"
    <3>1. Step(st, line) = st
      BY <2>2 DEF Step
    <3>2. SoFar(g) /\ Parsed(g) = Parsed(f)
      BY <1>2, <2>2, SoFarAfter, OtherKeeps
    <3>3. QED
      BY <2>1, <3>1, <3>2 DEF Describes
  <2>3. CASE line.kind = "junk"
    <3>1. Step(st, line) = [st EXCEPT !.ok = FALSE]
      BY <2>1, <2>3 DEF Step
    <3>2. Step(st, line).ok = FALSE
      BY <2>1, <3>1 DEF Parsed
    <3>3. ~SoFar(g)
      BY <2>3, SoFarAfter
    <3>4. QED
      BY <3>2, <3>3 DEF Describes
  <2>4. CASE line.kind = "pair"
    <3>1. Step(st, line) = Assign(Parsed(f), line.key, line.value)
      BY <2>1, <2>4 DEF Step
    <3>2. QED
      BY <1>2, <2>4, <3>1, PairKeeps
  <2>5. CASE line.kind = "section"
    <3>1. Step(st, line) = Enter(Flush(Parsed(f)), line.name)
      BY <2>1, <2>5 DEF Step
    <3>2. QED
      BY <1>2, <2>5, <3>1, HeaderKeeps
  <2>6. QED
    BY <2>2, <2>3, <2>4, <2>5
<1>3. QED
  BY <1>1, <1>2

(* Before the first line *)
LEMMA StartDescribes == Lists(<< >>) /\ Describes(Start, << >>)
<1> DEFINE f == << >>
<1>1. f \in Seq({}) /\ DOMAIN f = {} /\ Len(f) = 0
  BY EmptySeq
<1> HIDE DEF f
<1>2. Heads(f) = {} /\ Pairs(f) = {}
  BY <1>1 DEF Heads, Pairs
<1>3. OpenHead(f) = 0
  BY <1>1, <1>2, LastIs
<1>4. \A s : Complete(f, s) = {} /\ Closed(f, s) = {}
  BY <1>2 DEF Complete, Closed
<1>5. \A s \in BlockSection : BlocksAt(f, Closed(f, s)) = << >> /\ Ordered(Closed(f, s))
  BY <1>4, NoBlocks
<1>6. SoFar(f)
  BY <1>1, <1>2 DEF SoFar, HeadsFine, NoJunk, PairsTaken
<1>7. Settings(f) = << >>
  <2>1. SetLines(f) = {}
    BY <1>2 DEF SetLines
  <2>2. Settings(f) = Table(f, [j \in SetLines(f) |-> << f[HeadOf(f, j)].name, f[j].key >>])
    BY DEF Settings, SetLines, SettingSection
  <2>3. QED
    BY <2>1, <2>2, TableOfNone
<1>8. Parsed(f) = Start
  BY <1>3, <1>5, <1>7 DEF Parsed, Start, ClosedRules, OpenBlocks
<1>9. QED
  BY <1>5, <1>6, <1>8 DEF Lists, Describes, f

-----------------------------------------------------------------------------
(* The theorems *)

(* The end of the file is the end of a section. *)
LEMMA FinishIs ==
  ASSUME NEW L, NEW f \in Seq(L), Lists(f), NEW st, Describes(st, f)
  PROVE  Finish(st) = IF WellFormed(f) THEN Declared(f) ELSE Rejected
<1>1. WellFormed(f) <=> SoFar(f) /\ ~(BlockOpen(f) /\ OpenVerdict(f) = "fail")
  BY WellFormedIs
<1>2. CASE ~SoFar(f)
  <2>1. st.ok = FALSE
    BY <1>2 DEF Describes
  <2>2. Flush(st) = st
    BY <2>1 DEF Flush
  <2>3. QED
    BY <1>1, <1>2, <2>1, <2>2 DEF Finish
<1>3. CASE SoFar(f) /\ BlockOpen(f) /\ OpenVerdict(f) = "fail"
  <2>1. st = Parsed(f)
    BY <1>3 DEF Describes
  <2>2. Flush(st).ok = FALSE
    BY <1>3, <2>1, Flushed
  <2>3. QED
    BY <1>1, <1>3, <2>2 DEF Finish
<1>4. CASE SoFar(f) /\ ~(BlockOpen(f) /\ OpenVerdict(f) = "fail")
  <2>1. st = Parsed(f)
    BY <1>4 DEF Describes
  <2>2. \E left : Flush(st) = [Parsed(f) EXCEPT !.rules = RulesOf(f), !.blocks = left]
    BY <1>4, <2>1, Flushed
  <2>3. Flush(st).ok = TRUE /\ Flush(st).rules = RulesOf(f) /\ Flush(st).settings = Settings(f)
    BY <2>2 DEF Parsed
  <2>4. Finish(st) = [ok |-> TRUE, rules |-> WithDefaults(RulesOf(f)), settings |-> Settings(f)]
    BY <2>3 DEF Finish
  <2>5. Declared(f) = [ok |-> TRUE, rules |-> WithDefaults(RulesOf(f)), settings |-> Settings(f)]
    BY DEF Declared, RulesOf, Complete
  <2>6. QED
    BY <1>1, <1>4, <2>4, <2>5
<1>5. QED
  BY <1>2, <1>3, <1>4

(* The parser is what the lines read so far say, as long as nothing is     *)
(* wrong with them, and has given the file up afterwards.                  *)
ReadInv ==
  /\ file \in Seq(UNION Vocabulary)
  /\ Lists(file)
  /\ Describes(parser, file)

(* The invariant holds after every line of every file. *)
THEOREM ReaderInvariance == ReadSpec => []ReadInv
<1>1. ReadInit => ReadInv
  BY EmptySeq, StartDescribes DEF ReadInit, ReadInv
<1>2. ReadInv /\ [ReadNext]_rvars => ReadInv'
  <2> SUFFICES ASSUME ReadInv, [ReadNext]_rvars PROVE ReadInv'
    OBVIOUS
  <2>1. CASE ReadNext
    <3>1. PICK line \in UNION Vocabulary : ReadLine(line)
      BY <2>1 DEF ReadNext
    <3>2. file' = Append(file, line) /\ parser' = Step(parser, line)
      BY <3>1 DEF ReadLine
    <3>3. line.kind \in {"blank", "section", "pair", "junk"}
      BY VocabularyAssumption
    <3>4. file' \in Seq(UNION Vocabulary)
      BY <3>2, AppendProperties DEF ReadInv
    <3>5. Lists(Append(file, line))
      BY RulesAfter DEF ReadInv
    <3>6. Describes(Step(parser, line), Append(file, line))
      BY <3>3, StepKeeps DEF ReadInv
    <3>7. QED
      BY <3>2, <3>4, <3>5, <3>6 DEF ReadInv
  <2>2. CASE UNCHANGED rvars
    BY <2>2 DEF ReadInv, rvars
  <2>3. QED
    BY <2>1, <2>2
<1>3. QED
  BY <1>1, <1>2, PTL DEF ReadSpec

(* A file of any lines and any length, ended after any of them, loads as   *)
(* its stanzas say one by one, or is rejected whole (comp_config_load).    *)
THEOREM LoadsAsDeclared == ReadSpec => []LoadIsDeclared
<1>1. ReadInv => LoadIsDeclared
  BY FinishIs DEF ReadInv, LoadIsDeclared
<1>2. QED
  BY <1>1, ReaderInvariance, PTL

(* Type correctness, with the keys of the open block. *)
THEOREM ReaderTypeCorrect == ReadSpec => []ReaderTypeOK
<1>1. ReadInv => ReaderTypeOK
  <2> SUFFICES ASSUME ReadInv PROVE ReaderTypeOK
    OBVIOUS
  <2> DEFINE head == OpenHead(file)
  <2>1. CASE ~SoFar(file)
    BY <2>1 DEF ReadInv, Describes, ReaderTypeOK
  <2>2. CASE SoFar(file)
    <3>1. parser = Parsed(file)
      BY <2>2 DEF ReadInv, Describes
    <3>2. parser.ok = TRUE /\ parser.section = IF head = 0 THEN "" ELSE file[head].name
      BY <3>1 DEF Parsed
    <3>3. head # 0 => file[head].name \in Section
      BY <2>2, LastIs DEF ReadInv, SoFar, HeadsFine
    <3>4. ASSUME parser.section \in BlockSection
          PROVE  DOMAIN parser.blocks[parser.section] \subseteq Keys[parser.section]
      <4>1. head # 0 /\ parser.section = file[head].name
        BY <3>2, <3>4, Sections
      <4>2. parser.blocks[parser.section] = BlockAt(file, head)
        BY <3>1, <3>4, <4>1 DEF Parsed, OpenBlocks
      <4>3. DOMAIN BlockAt(file, head) = {file[j].key : j \in PairsOf(file, head)}
        <5> DEFINE name == [j \in PairsOf(file, head) |-> file[j].key]
        <5>1. BlockAt(file, head) = Table(file, name)
          BY DEF BlockAt, PairsOf
        <5>2. DOMAIN Table(file, name) = {name[j] : j \in DOMAIN name}
          BY DEF Table
        <5>3. {name[j] : j \in DOMAIN name} = {file[j].key : j \in PairsOf(file, head)}
          OBVIOUS
        <5> HIDE DEF name
        <5>4. QED
          BY <5>1, <5>2, <5>3
      <4>4. \A j \in PairsOf(file, head) : file[j].key \in Keys[file[head].name]
        BY <2>2 DEF SoFar, PairsTaken, PairsOf, Accepts
      <4>5. QED
        BY <4>1, <4>2, <4>3, <4>4
    <3>5. QED
      BY <3>2, <3>3, <3>4 DEF ReaderTypeOK
  <2>3. QED
    BY <2>1, <2>2
<1>2. QED
  BY <1>1, ReaderInvariance, PTL

-----------------------------------------------------------------------------
(* What the rules decide for windows *)

Record ==
  [life : {"new", "initialized", "mapped"}, app : AppId, title : Title, float : BOOLEAN,
   decorated : BOOLEAN, scheduled : Mode \cup {"none"}, current : Mode \cup {"none"},
   due : BOOLEAN, sent : Seq(Mode)]

Good(r) ==
  /\ r \in Record
  /\ Len(r.sent) <= SentBound
  /\ ~r.decorated => r.scheduled = "none" /\ ~r.due
  /\ r.due => r.scheduled \in Mode

(* tile_float is what the rules say. *)
Cached(r, lay, cfg) ==
  lay # "stack" /\ r.life = "mapped" => r.float = FloatInTile(cfg, r.app, r.title)

(* The decoration's scheduled mode is the wanted one. *)
Told(r, lay, cfg) ==
  r.life = "mapped" /\ r.decorated => r.scheduled = Wanted(r, lay, cfg)

Right(r, lay, cfg) == Good(r) /\ Cached(r, lay, cfg) /\ Told(r, lay, cfg)

IInv ==
  /\ config \in Results /\ config.ok
  /\ layout \in Layout
  /\ window \in [Window -> Record]
  /\ \A w \in Window : Right(window[w], layout, config)

-----------------------------------------------------------------------------
(* The functions the callbacks share *)

(* A mode is one of the two, and depends on nothing a mode change touches. *)
LEMMA WantedMode ==
  ASSUME NEW r, NEW lay, NEW cfg
  PROVE  Wanted(r, lay, cfg) \in Mode
  BY DEF Wanted, Mode

(* Applying the mode puts a window right whose float flag is: either the   *)
(* mode is scheduled now, or it was the scheduled one already.             *)
LEMMA ApplyRights ==
  ASSUME NEW r, NEW lay, NEW cfg, Good(r), Cached(r, lay, cfg)
  PROVE  Right(Apply(r, lay, cfg), lay, cfg)
<1> DEFINE mode == Wanted(r, lay, cfg)
           set  == [r EXCEPT !.scheduled = mode, !.due = TRUE]
<1>1. mode \in Mode
  BY WantedMode
<1>2. CASE r.decorated /\ r.life # "new" /\ ~(r.current = mode /\ r.scheduled = mode)
  <2>1. Apply(r, lay, cfg) = set
    BY <1>2 DEF Apply
  <2>2. /\ set \in Record /\ set.sent = r.sent /\ set.decorated = r.decorated
        /\ set.life = r.life /\ set.float = r.float /\ set.app = r.app /\ set.title = r.title
        /\ set.scheduled = mode
    BY <1>1 DEF Good, Record
  <2>3. Wanted(set, lay, cfg) = mode
    BY <2>2 DEF Wanted
  <2> HIDE DEF set, mode
  <2> QED BY <1>1, <1>2, <2>1, <2>2, <2>3 DEF Right, Good, Cached, Told
<1>3. CASE ~(r.decorated /\ r.life # "new" /\ ~(r.current = mode /\ r.scheduled = mode))
  <2>1. Apply(r, lay, cfg) = r
    BY <1>3 DEF Apply
  <2> QED BY <1>3, <2>1 DEF Right, Told
<1> QED BY <1>2, <1>3

(* Looking the rules up makes the float flag what they say. *)
LEMMA RefreshCaches ==
  ASSUME NEW r, NEW lay, NEW cfg, Good(r)
  PROVE  Good(Refresh(r, cfg)) /\ Cached(Refresh(r, cfg), lay, cfg)
<1>1. FloatInTile(cfg, r.app, r.title) \in BOOLEAN
  BY DEF FloatInTile
<1> QED BY <1>1 DEF Refresh, Good, Cached, Record

(* A synced set of windows is right if each window's float flag is.        *)
LEMMA SyncRights ==
  ASSUME NEW all, NEW lay, NEW cfg,
         \A v \in Window : Good(all[v]) /\ Cached(all[v], lay, cfg)
  PROVE  /\ Sync(all, lay, cfg) \in [Window -> Record]
         /\ \A v \in Window : Right(Sync(all, lay, cfg)[v], lay, cfg)
<1>1. \A v \in Window : Right(Apply(all[v], lay, cfg), lay, cfg)
  BY ApplyRights
<1> QED BY <1>1 DEF Sync, Right, Good

(* A new window is right. *)
LEMMA NewRight == ASSUME NEW lay, NEW cfg PROVE Right(NewWindow, lay, cfg)
<1>1. << >> \in Seq(Mode) /\ Len(<< >>) = 0
  BY EmptySeq
<1> QED BY <1>1, NameAssumption, BoundAssumption
        DEF NewWindow, Right, Good, Cached, Told, Record

(* A step that changes one window and puts it right keeps the invariant.   *)
LEMMA OneWindow ==
  ASSUME IInv, NEW w \in Window, NEW r, Right(r, layout, config),
         window' = [window EXCEPT ![w] = r], UNCHANGED << config, layout >>
  PROVE  IInv'
<1>1. r \in Record
  BY DEF Right, Good
<1>2. window' \in [Window -> Record]
  BY <1>1 DEF IInv
<1>3. \A v \in Window : Right(window'[v], layout, config)
  BY DEF IInv
<1> QED BY <1>2, <1>3 DEF IInv

(* Likewise if the mode is applied to one window. *)
LEMMA OneApplied ==
  ASSUME IInv, NEW w \in Window, NEW r, Good(r), Cached(r, layout, config),
         window' = [window EXCEPT ![w] = Apply(r, layout, config)],
         UNCHANGED << config, layout >>
  PROVE  IInv'
  BY ApplyRights, OneWindow

(* Likewise if the rules of one window are looked up again. *)
LEMMA Relooked ==
  ASSUME IInv, NEW w \in Window, NEW r, Good(r), Relook(w, r)
  PROVE  IInv'
<1> DEFINE all == [window EXCEPT ![w] = Refresh(r, config)]
<1>1. \A v \in Window : Good(all[v]) /\ Cached(all[v], layout, config)
  BY RefreshCaches DEF IInv, Right
<1>2. window' = Sync(all, layout, config) /\ UNCHANGED << config, layout >>
  BY DEF Relook
<1> HIDE DEF all
<1>3. /\ window' \in [Window -> Record]
      /\ \A v \in Window : Right(window'[v], layout, config)
  BY <1>1, <1>2, SyncRights
<1> QED BY <1>2, <1>3 DEF IInv

-----------------------------------------------------------------------------
(* The invariant *)

LEMMA InitInvariant == Init => IInv
  BY NewRight DEF Init, IInv, Layout, Right, Good

LEMMA ClientKeeps == ASSUME IInv, NEW w \in Window, ClientStep(w) PROVE IInv'
<1> DEFINE r == window[w]
<1>0. r \in Record /\ Right(r, layout, config)
  BY DEF IInv
<1>1. CASE Commit(w)
  <2> DEFINE s == [r EXCEPT !.life = IF window[w].life = "new" THEN "initialized" ELSE window[w].life]
  <2>1. Good(s) /\ Cached(s, layout, config)
    BY <1>0 DEF Right, Good, Cached, Record
  <2>2. window' = [window EXCEPT ![w] = Apply(s, layout, config)] /\ UNCHANGED << config, layout >>
    BY <1>1 DEF Commit
  <2> QED BY <2>1, <2>2, OneApplied
<1>2. CASE AckAndCommit(w)
  <2>1. PICK i \in DOMAIN r.sent :
          window' = [window EXCEPT ![w] =
            Apply([r EXCEPT !.current = r.sent[i],
                            !.sent = SubSeq(r.sent, i + 1, Len(r.sent))], layout, config)]
    BY <1>2 DEF AckAndCommit
  <2> DEFINE rest == SubSeq(r.sent, i + 1, Len(r.sent))
             s    == [r EXCEPT !.current = r.sent[i], !.sent = rest]
  <2>2. r.sent \in Seq(Mode) /\ Len(r.sent) <= SentBound /\ i \in 1 .. Len(r.sent)
    BY <1>0 DEF Right, Good, Record
  <2>3. /\ Len(r.sent) \in Nat /\ r.sent[i] \in Mode
        /\ \A k \in i + 1 .. Len(r.sent) : r.sent[k] \in Mode
    BY <2>2, ElementOfSeq, LenProperties
  <2>4. rest \in Seq(Mode) /\ Len(rest) = IF i + 1 <= Len(r.sent) THEN Len(r.sent) - i ELSE 0
    BY <2>2, <2>3, SubSeqProperties
  <2>5. Len(rest) <= SentBound
    BY <2>2, <2>3, <2>4, BoundAssumption
  <2> HIDE DEF rest
  <2>6. Good(s) /\ Cached(s, layout, config)
    BY <1>0, <2>3, <2>4, <2>5 DEF Right, Good, Cached, Record
  <2>7. UNCHANGED << config, layout >>
    BY <1>2 DEF AckAndCommit
  <2> QED BY <2>1, <2>6, <2>7, OneApplied DEF rest
<1>3. CASE Map(w)
  <2>1. Good([r EXCEPT !.life = "mapped"])
    BY <1>0 DEF Right, Good, Record
  <2> QED BY <1>3, <2>1, Relooked DEF Map
<1>4. CASE Unmap(w)
  <2>1. PICK names \in {window[w], NewWindow} :
          window' = [window EXCEPT ![w] = [r EXCEPT !.life = "new", !.app = names.app,
                       !.title = names.title, !.due = FALSE, !.sent = << >>]]
    BY <1>4 DEF Unmap
  <2> DEFINE s == [r EXCEPT !.life = "new", !.app = names.app,
                            !.title = names.title, !.due = FALSE, !.sent = << >>]
  <2>2. names.app \in AppId /\ names.title \in Title
    BY <1>0, NameAssumption DEF NewWindow, Record
  <2>3. << >> \in Seq(Mode) /\ Len(<< >>) = 0
    BY EmptySeq
  <2>4. /\ s \in Record
        /\ s.life = "new" /\ ~s.due /\ s.sent = << >>
        /\ s.decorated = r.decorated /\ s.scheduled = r.scheduled
    BY <1>0, <2>2, <2>3 DEF Record
  <2> HIDE DEF s
  <2>5. Right(s, layout, config)
    BY <1>0, <2>3, <2>4, BoundAssumption DEF Right, Good, Cached, Told
  <2> QED BY <1>4, <2>1, <2>5, OneWindow DEF Unmap, s
<1>5. ASSUME NEW t \in Title, SetTitle(w, t) PROVE IInv'
  <2>1. Good([r EXCEPT !.title = t])
    BY <1>0 DEF Right, Good, Record
  <2> QED BY <1>5, <2>1, Relooked DEF SetTitle
<1>6. ASSUME NEW a \in AppId, SetAppId(w, a) PROVE IInv'
  <2>1. Good([r EXCEPT !.app = a])
    BY <1>0 DEF Right, Good, Record
  <2> QED BY <1>6, <2>1, Relooked DEF SetAppId
<1>7. CASE NewDecoration(w)
  <2> DEFINE s == [r EXCEPT !.decorated = TRUE]
  <2>1. Good(s) /\ Cached(s, layout, config)
    BY <1>0 DEF Right, Good, Cached, Record
  <2>2. window' = [window EXCEPT ![w] = Apply(s, layout, config)] /\ UNCHANGED << config, layout >>
    BY <1>7 DEF NewDecoration
  <2> QED BY <2>1, <2>2, OneApplied
<1>8. CASE RequestMode(w)
  <2>1. window' = [window EXCEPT ![w] = Apply(r, layout, config)] /\ UNCHANGED << config, layout >>
    BY <1>8 DEF RequestMode
  <2> QED BY <1>0, <2>1, OneApplied DEF Right
<1>9. CASE DecorationGone(w)
  <2> DEFINE s == [r EXCEPT !.decorated = FALSE, !.scheduled = "none",
                            !.current = "none", !.due = FALSE, !.sent = << >>]
  <2>1. << >> \in Seq(Mode) /\ Len(<< >>) = 0
    BY EmptySeq
  <2>2. window' = [window EXCEPT ![w] = s] /\ UNCHANGED << config, layout >>
    BY <1>9 DEF DecorationGone
  <2>3. /\ s \in Record
        /\ ~s.decorated /\ ~s.due /\ s.scheduled = "none" /\ s.sent = << >>
        /\ s.life = r.life /\ s.float = r.float /\ s.app = r.app /\ s.title = r.title
    BY <1>0, <2>1 DEF Record
  <2> HIDE DEF s
  <2>4. Right(s, layout, config)
    BY <1>0, <2>1, <2>3, BoundAssumption DEF Right, Good, Cached, Told
  <2> QED BY <2>2, <2>4, OneWindow
<1>10. CASE Destroy(w)
  BY <1>10, NewRight, OneWindow DEF Destroy
<1> QED BY <1>1, <1>2, <1>3, <1>4, <1>5, <1>6, <1>7, <1>8, <1>9, <1>10 DEF ClientStep

LEMMA SendKeeps == ASSUME IInv, NEW w \in Window, SendConfigure(w) PROVE IInv'
<1> DEFINE r == window[w]
<1>0. r \in Record /\ Right(r, layout, config) /\ r.due
  BY DEF IInv, SendConfigure
<1>1. r.scheduled \in Mode
  BY <1>0 DEF Right, Good
<1>2. CASE window' = [window EXCEPT ![w].due = FALSE]
  <2> DEFINE s == [r EXCEPT !.due = FALSE]
  <2>1. Right(s, layout, config)
    BY <1>0 DEF Right, Good, Cached, Told, Wanted, Record
  <2>2. window' = [window EXCEPT ![w] = s]
    BY <1>2
  <2> QED BY <2>1, <2>2, OneWindow DEF SendConfigure
<1>3. CASE /\ Len(r.sent) < SentBound
           /\ window' = [window EXCEPT ![w].due = FALSE, ![w].sent = Append(@, r.scheduled)]
  <2> DEFINE more == Append(r.sent, r.scheduled)
             s    == [r EXCEPT !.due = FALSE, !.sent = more]
  <2>1. r.sent \in Seq(Mode) /\ r.scheduled \in Mode
    BY <1>0, <1>1 DEF Right, Good, Record
  <2>2. more \in Seq(Mode) /\ Len(more) = Len(r.sent) + 1 /\ Len(r.sent) \in Nat
    BY <2>1, AppendProperties, LenProperties
  <2>3. Len(more) <= SentBound
    BY <1>3, <2>2, BoundAssumption
  <2>4. window' = [window EXCEPT ![w] = s]
    BY <1>3 DEF IInv
  <2> HIDE DEF more
  <2>5. Right(s, layout, config)
    BY <1>0, <2>2, <2>3 DEF Right, Good, Cached, Told, Wanted, Record
  <2> QED BY <2>4, <2>5, OneWindow DEF SendConfigure
<1> QED BY <1>2, <1>3 DEF SendConfigure

LEMMA SetLayoutKeeps == ASSUME IInv, NEW l \in Layout, SetLayout(l) PROVE IInv'
<1> DEFINE all == IF l = "stack" THEN window ELSE RefreshAll(window, config)
<1>1. \A v \in Window : Good(all[v]) /\ Cached(all[v], l, config)
  BY RefreshCaches DEF IInv, Right, RefreshAll, Cached
<1>2. window' = Sync(all, l, config) /\ layout' = l /\ config' = config
  BY DEF SetLayout
<1> HIDE DEF all
<1> QED BY <1>1, <1>2, SyncRights DEF IInv

LEMMA ReloadKeeps == ASSUME IInv, NEW result \in Results, Reload(result) PROVE IInv'
<1>1. CASE result.ok
  <2> DEFINE all == IF layout = "stack" THEN window ELSE RefreshAll(window, result)
  <2>1. \A v \in Window : Good(all[v]) /\ Cached(all[v], layout, result)
    BY RefreshCaches DEF IInv, Right, RefreshAll, Cached
  <2>2. window' = Sync(all, layout, result) /\ layout' = layout /\ config' = result
    BY <1>1 DEF Reload
  <2> HIDE DEF all
  <2> QED BY <1>1, <2>1, <2>2, SyncRights DEF IInv
<1>2. CASE ~result.ok
  BY <1>2 DEF Reload, IInv, vars
<1> QED BY <1>1, <1>2

(* The invariant holds in every reachable state. *)
THEOREM RulesInvariance == Spec => []IInv
<1>1. Init => IInv
  BY InitInvariant
<1>2. IInv /\ [Next]_vars => IInv'
  <2> SUFFICES ASSUME IInv, [Next]_vars PROVE IInv'
    OBVIOUS
  <2>1. CASE Next
    BY <2>1, ClientKeeps, SendKeeps, SetLayoutKeeps, ReloadKeeps DEF Next
  <2>2. CASE UNCHANGED vars
    BY <2>2 DEF vars, IInv
  <2> QED BY <2>1, <2>2
<1> QED BY <1>1, <1>2, PTL DEF Spec

(* Type correctness *)
THEOREM RulesTypeCorrect == Spec => []TypeOK
<1>1. IInv => TypeOK
  BY DEF IInv, Right, Good, Record, TypeOK
<1> QED BY <1>1, RulesInvariance, PTL

(* While windows are tiled, each floats exactly if the rules in force say  *)
(* so for its current names, after any order of reloads, layout switches,  *)
(* renamings, unmaps and maps.                                             *)
THEOREM FloatsAsRuled == Spec => []PropsCurrent
<1>1. IInv => PropsCurrent
  BY DEF IInv, Right, Cached, PropsCurrent
<1> QED BY <1>1, RulesInvariance, PTL

(* The mode scheduled for a mapped window is always the one the layout and *)
(* the rules ask for, whatever its client has answered.                    *)
THEOREM DecoratedAsRuled == Spec => []DecorationCurrent
<1>1. IInv => DecorationCurrent
  BY DEF IInv, Right, Told, DecorationCurrent
<1> QED BY <1>1, RulesInvariance, PTL
=============================================================================
