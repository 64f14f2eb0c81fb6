--------------------------- MODULE TileGridProofs ---------------------------
(***************************************************************************)
(* Proofs about module TileGrid for any set of tiled windows, any rule     *)
(* orders and any step counts.                                             *)
(*                                                                         *)
(* The comparison function is a strict total order as long as no two       *)
(* windows share a user key.  Then the rank of a window, the number of     *)
(* windows before it, is a bijection from the windows to the cells, and    *)
(* the arrangement is its inverse: every other result speaks of ranks.     *)
(* The invariant is that the keys are distinct, and a command keeps it     *)
(* because all it does is to exchange the sort keys of two windows.        *)
(*                                                                         *)
(* That a command is one insertion is shown along its walk: after k        *)
(* passes, the focused window is in cell k of its path and each window it  *)
(* passed has gone one cell back, or the loop has ended.  The first pass   *)
(* to break this would follow one that kept it, which is how the loops     *)
(* are reasoned about here, for want of induction over the passes.         *)
(***************************************************************************)
EXTENDS TileGrid, FiniteSetTheorems, FunctionTheorems, WellFoundedInduction, TLAPS

Tiles ==
  [order : [Window -> OrderValue], key : [Window -> 1 .. Cardinality(Window)]]

(* What the sort order needs to be one. *)
Strict(t) == t \in Tiles /\ IsInjective(t.key)

IInv == TypeOK /\ KeysDistinct

-----------------------------------------------------------------------------
(* The comparison is a strict total order *)

LEMMA CountTyped == Cardinality(Window) \in Nat /\ Cells = 0 .. Cardinality(Window) - 1
BY WindowAssumption, FS_CardinalityType DEF Cells

LEMMA TilesTyped ==
  ASSUME NEW t \in Tiles, NEW w \in Window
  PROVE  t.order[w] \in Int /\ t.key[w] \in Int
<1>1. t.order[w] \in OrderValue /\ t.key[w] \in 1 .. Cardinality(Window)
  BY DEF Tiles
<1>2. OrderValue \subseteq Int /\ 1 .. Cardinality(Window) \subseteq Int
  BY OrderAssumption, CountTyped
<1>3. QED
  BY <1>1, <1>2

LEMMA BeforeTotal ==
  ASSUME NEW t, Strict(t), NEW v \in Window, NEW w \in Window, v # w
  PROVE  Before(t, v, w) \/ Before(t, w, v)
<1>1. t.key[v] # t.key[w]
  BY DEF Strict, Tiles, IsInjective
<1>2. QED
  BY <1>1, TilesTyped DEF Strict, Before

LEMMA BeforeIrreflexive ==
  ASSUME NEW t, Strict(t), NEW w \in Window
  PROVE  ~ Before(t, w, w)
BY TilesTyped DEF Strict, Before

LEMMA BeforeTransitive ==
  ASSUME NEW t, Strict(t), NEW u \in Window, NEW v \in Window, NEW w \in Window,
         Before(t, u, v), Before(t, v, w)
  PROVE  Before(t, u, w)
BY TilesTyped DEF Strict, Before

-----------------------------------------------------------------------------
(* Ranks are a bijection from the windows to the cells *)

LEMMA RankMonotone ==
  ASSUME NEW t, Strict(t), NEW v \in Window, NEW w \in Window, Before(t, v, w)
  PROVE  Rank(t, Window, v) < Rank(t, Window, w)
<1> DEFINE V == {u \in Window : Before(t, u, v)}
           W == {u \in Window : Before(t, u, w)}
<1>1. V \subseteq W /\ v \in W /\ v \notin V
  BY BeforeTransitive, BeforeIrreflexive
<1>2. IsFiniteSet(W)
  BY WindowAssumption, FS_Subset
<1>3. IsFiniteSet(V) /\ Cardinality(V) <= Cardinality(W) /\ Cardinality(V) # Cardinality(W)
  BY <1>1, <1>2, FS_Subset
<1>4. Cardinality(V) \in Nat /\ Cardinality(W) \in Nat
  BY <1>2, <1>3, FS_CardinalityType
<1>5. QED
  BY <1>3, <1>4 DEF Rank

LEMMA RankInCells ==
  ASSUME NEW t, Strict(t), NEW w \in Window
  PROVE  Rank(t, Window, w) \in Cells
<1> DEFINE W == {u \in Window : Before(t, u, w)}
<1>1. W \subseteq Window /\ w \notin W
  BY BeforeIrreflexive
<1>2. IsFiniteSet(W) /\ Cardinality(W) <= Cardinality(Window)
      /\ Cardinality(W) # Cardinality(Window)
  BY <1>1, WindowAssumption, FS_Subset
<1>3. Cardinality(W) \in Nat
  BY <1>2, FS_CardinalityType
<1>4. QED
  BY <1>2, <1>3, CountTyped DEF Rank

LEMMA RankInjective ==
  ASSUME NEW t, Strict(t), NEW v \in Window, NEW w \in Window,
         Rank(t, Window, v) = Rank(t, Window, w)
  PROVE  v = w
<1> SUFFICES ASSUME v # w PROVE FALSE
  OBVIOUS
<1>1. Rank(t, Window, v) < Rank(t, Window, w) \/ Rank(t, Window, w) < Rank(t, Window, v)
  BY BeforeTotal, RankMonotone
<1>2. Rank(t, Window, v) \in Int
  BY RankInCells, CountTyped
<1>3. QED
  BY <1>1, <1>2

(* There are as many cells as windows, so no cell is left over. *)
LEMMA RankOnto ==
  ASSUME NEW t, Strict(t), NEW i \in Cells
  PROVE  \E w \in Window : Rank(t, Window, w) = i
<1> DEFINE rank == [w \in Window |-> Rank(t, Window, w)]
<1>1. rank \in Injection(Window, Cells)
  BY RankInCells, RankInjective DEF Injection, IsInjective
<1>2. IsFiniteSet(Cells) /\ Cardinality(Cells) = Cardinality(Window)
  BY CountTyped, FS_Interval
<1>3. rank \in Surjection(Window, Cells)
  BY <1>1, <1>2, FS_Injection
<1>4. QED
  BY <1>3 DEF Surjection

(* The window sorted to a position is the one of that rank. *)
LEMMA ArrangementByRank ==
  ASSUME NEW t, Strict(t), NEW i \in Cells
  PROVE  /\ Arrangement(t, Window)[i] \in Window
         /\ Rank(t, Window, Arrangement(t, Window)[i]) = i
<1> DEFINE after(w) == {v \in Window : ~ Before(t, w, v)}
           Is(w)    == Rank(t, Window, w) <= i /\ i < Cardinality(after(w))
<1>1. ASSUME NEW w \in Window
      PROVE  Cardinality(after(w)) = Rank(t, Window, w) + 1
  <2> DEFINE W == {u \in Window : Before(t, u, w)}
  <2>1. after(w) = W \cup {w} /\ w \notin W
    BY BeforeTotal, BeforeTransitive, BeforeIrreflexive
  <2>2. IsFiniteSet(W)
    BY WindowAssumption, FS_Subset
  <2> HIDE DEF W, after
  <2>3. Cardinality(after(w)) = Cardinality(W) + 1
    BY <2>1, <2>2, FS_AddElement
  <2>4. QED
    BY <2>3 DEF Rank, W
<1>2. ASSUME NEW w \in Window
      PROVE  Is(w) <=> Rank(t, Window, w) = i
  <2>1. Rank(t, Window, w) \in Int /\ i \in Int
    BY RankInCells, CountTyped
  <2> HIDE DEF after
  <2>2. QED
    BY <1>1, <2>1
<1>3. Arrangement(t, Window)[i] = CHOOSE w \in Window : Is(w)
  BY CountTyped DEF Arrangement
<1> HIDE DEF Is
<1>4. \E w \in Window : Is(w)
  BY <1>2, RankOnto
<1>5. QED
  BY <1>2, <1>3, <1>4

LEMMA ArrangementIs ==
  ASSUME NEW t, Strict(t), NEW i \in Cells, NEW w \in Window
  PROVE  Arrangement(t, Window)[i] = w <=> Rank(t, Window, w) = i
BY ArrangementByRank, RankInjective

-----------------------------------------------------------------------------
(* Exchanging the sort keys of two windows *)

Swapped(v, w, u) == IF u = v THEN w ELSE IF u = w THEN v ELSE u

(* The two windows trade both sort keys, and the others keep theirs. *)
LEMMA SwapKeys ==
  ASSUME NEW t \in Tiles, NEW v \in Window, NEW w \in Window
  PROVE  /\ SwapSortKeys(t, v, w) \in Tiles
         /\ \A u \in Window :
              /\ SwapSortKeys(t, v, w).key[u] = t.key[Swapped(v, w, u)]
              /\ SwapSortKeys(t, v, w).order[u] = t.order[Swapped(v, w, u)]
BY DEF SwapSortKeys, Tiles, Swapped

LEMMA SwappedTyped ==
  ASSUME NEW v \in Window, NEW w \in Window, NEW u \in Window
  PROVE  Swapped(v, w, u) \in Window /\ Swapped(v, w, Swapped(v, w, u)) = u
BY DEF Swapped

LEMMA SwapStrict ==
  ASSUME NEW t, Strict(t), NEW v \in Window, NEW w \in Window
  PROVE  Strict(SwapSortKeys(t, v, w))
<1> DEFINE r == SwapSortKeys(t, v, w)
<1>1. /\ r \in Tiles
      /\ \A u \in Window : r.key[u] = t.key[Swapped(v, w, u)]
  BY SwapKeys DEF Strict
<1> HIDE DEF r
<1>2. DOMAIN r.key = Window /\ DOMAIN t.key = Window
  BY <1>1 DEF Strict, Tiles
<1>3. ASSUME NEW x \in Window, NEW y \in Window, r.key[x] = r.key[y]
      PROVE  x = y
  <2>1. Swapped(v, w, x) = Swapped(v, w, y)
    BY <1>1, <1>2, <1>3, SwappedTyped DEF Strict, IsInjective
  <2>2. QED
    BY <2>1, SwappedTyped
<1>4. QED
  BY <1>1, <1>2, <1>3 DEF Strict, IsInjective, r

(* The exchange moves each of the two windows to the rank of the other. *)
LEMMA SwapRank ==
  ASSUME NEW t, Strict(t), NEW v \in Window, NEW w \in Window, NEW u \in Window
  PROVE  Rank(SwapSortKeys(t, v, w), Window, u) = Rank(t, Window, Swapped(v, w, u))
<1> DEFINE r == SwapSortKeys(t, v, w)
           S == {x \in Window : Before(r, x, u)}
           T == {x \in Window : Before(t, x, Swapped(v, w, u))}
           f == [x \in S |-> Swapped(v, w, x)]
<1>1. \A x \in Window : Before(r, x, u) <=> Before(t, Swapped(v, w, x), Swapped(v, w, u))
  <2>1. \A x \in Window : /\ r.key[x] = t.key[Swapped(v, w, x)]
                          /\ r.order[x] = t.order[Swapped(v, w, x)]
    BY SwapKeys DEF Strict
  <2> HIDE DEF r
  <2>2. QED
    BY <2>1 DEF Before
<1> HIDE DEF r
<1>2. f \in [S -> T]
  BY <1>1, SwappedTyped
<1>3. \A x, y \in S : f[x] = f[y] => x = y
  BY SwappedTyped
<1>4. \A y \in T : \E x \in S : f[x] = y
  <2>1. ASSUME NEW y \in T
        PROVE  Swapped(v, w, y) \in S /\ f[Swapped(v, w, y)] = y
    BY <1>1, SwappedTyped
  <2>2. QED
    BY <2>1
<1>5. ExistsBijection(S, T)
  BY <1>2, <1>3, <1>4 DEF ExistsBijection, Bijection, Injection, Surjection, IsInjective
<1>6. IsFiniteSet(S)
  BY WindowAssumption, FS_Subset
<1>7. Cardinality(S) = Cardinality(T)
  BY <1>5, <1>6, FS_Bijection
<1>8. QED
  BY <1>7 DEF Rank, r

(* On the screen an exchange is seen in the two cells and in no other. *)
LEMMA SwapArrangement ==
  ASSUME NEW t, Strict(t), NEW v \in Window, NEW w \in Window, NEW i \in Cells
  PROVE  Arrangement(SwapSortKeys(t, v, w), Window)[i]
           = Swapped(v, w, Arrangement(t, Window)[i])
<1> DEFINE x == Arrangement(t, Window)[i]
<1>1. x \in Window /\ Rank(t, Window, x) = i
  BY ArrangementByRank
<1> HIDE DEF x
<1>2. Swapped(v, w, x) \in Window /\ Swapped(v, w, Swapped(v, w, x)) = x
  BY <1>1, SwappedTyped
<1>3. Rank(SwapSortKeys(t, v, w), Window, Swapped(v, w, x)) = i
  BY <1>1, <1>2, SwapRank
<1>4. QED
  BY <1>2, <1>3, SwapStrict, ArrangementIs DEF x

-----------------------------------------------------------------------------
(* The commands' loops *)

(* One pass exchanges two windows or nothing. *)
LEMMA BubbleStrict ==
  ASSUME NEW s \in [tile : Tiles, ended : BOOLEAN], Strict(s.tile),
         NEW f \in Window, NEW line, NEW sign
  PROVE  /\ Bubble(s, Window, f, line, sign) \in [tile : Tiles, ended : BOOLEAN]
         /\ Strict(Bubble(s, Window, f, line, sign).tile)
<1> DEFINE j == Neighbour(line, Rank(s.tile, Window, f), Cardinality(Window), sign)
<1>1. CASE s.ended \/ j \notin 0 .. Cardinality(Window) - 1
  <2>1. Bubble(s, Window, f, line, sign) = [s EXCEPT !.ended = TRUE]
    BY <1>1 DEF Bubble
  <2>2. QED
    BY <2>1
<1>2. CASE ~ (s.ended \/ j \notin 0 .. Cardinality(Window) - 1)
  <2> DEFINE other == Arrangement(s.tile, Window)[j]
             swap  == SwapSortKeys(s.tile, f, other)
  <2>1. Bubble(s, Window, f, line, sign) = [s EXCEPT !.tile = swap]
    BY <1>2 DEF Bubble
  <2>2. other \in Window
    BY <1>2, CountTyped, ArrangementByRank
  <2> HIDE DEF other
  <2>3. Strict(swap) /\ swap \in Tiles
    BY <2>2, SwapStrict DEF Strict
  <2> HIDE DEF swap
  <2>4. QED
    BY <2>1, <2>3
<1>3. QED
  BY <1>1, <1>2

(* A set of numbers that is not empty has a least one. *)
LEMMA LeastNumber ==
  ASSUME NEW T \in SUBSET Nat, T # {}
  PROVE  \E i \in T : \A j \in T : i <= j
<1> DEFINE R == {ss \in Nat \X Nat : ss[1] < ss[2]}
<1>1. IsWellFoundedOn(R, Nat)
  BY NatLessThanWellFounded DEF OpToRel
<1>2. PICK i \in T : \A j \in T : ~ (<< j, i >> \in R)
  <2> HIDE DEF R
  <2>1. QED
    BY <1>1, WFMin
<1>3. \A j \in T : i <= j
  <2>1. \A j \in T : i \in Nat /\ j \in Nat /\ ~ (j < i)
    BY <1>2
  <2>2. QED
    BY <2>1
<1>4. QED
  BY <1>3

Loop(t, f, line, sign, g, count) ==
  g = [k \in 0 .. count |->
         IF k = 0 THEN [tile |-> t, ended |-> FALSE]
                  ELSE Bubble(g[k - 1], Window, f, line, sign)]

(* The loop has a value after any number of passes: the least number that  *)
(* has none would be one more than a number that has one.                  *)
LEMMA LoopExists ==
  ASSUME NEW t, NEW f, NEW line, NEW sign, NEW count \in Nat
  PROVE  \E g : Loop(t, f, line, sign, g, count)
<1> DEFINE Bad == {c \in Nat : ~ \E g : Loop(t, f, line, sign, g, c)}
<1> SUFFICES ASSUME Bad # {} PROVE FALSE
  OBVIOUS
<1>1. PICK c \in Bad : \A d \in Bad : c <= d
  BY LeastNumber
<1>2. c # 0
  <2>1. Loop(t, f, line, sign, [k \in 0 .. 0 |-> [tile |-> t, ended |-> FALSE]], 0)
    BY DEF Loop
  <2>2. QED
    BY <2>1
<1>3. c - 1 \in Nat /\ c - 1 \notin Bad
  BY <1>1, <1>2
<1>4. PICK g : Loop(t, f, line, sign, g, c - 1)
  BY <1>3
<1> DEFINE next(k) == Bubble(g[k - 1], Window, f, line, sign)
           h == [k \in 0 .. c |-> IF k < c THEN g[k] ELSE next(k)]
<1>5. \A k \in 0 .. c - 1 : g[k] = IF k = 0 THEN [tile |-> t, ended |-> FALSE] ELSE next(k)
  BY <1>4 DEF Loop
<1>6. \A k \in 1 .. c : h[k - 1] = g[k - 1]
  BY <1>1
<1>7. Loop(t, f, line, sign, h, c)
  <2>1. ASSUME NEW k \in 0 .. c
        PROVE  h[k] = IF k = 0 THEN [tile |-> t, ended |-> FALSE]
                               ELSE Bubble(h[k - 1], Window, f, line, sign)
    <3>1. CASE k = 0
      <4>1. k < c /\ k \in 0 .. c - 1
        BY <1>1, <1>2, <3>1
      <4>2. h[k] = g[k]
        BY <4>1
      <4>3. QED
        BY <1>5, <3>1, <4>1, <4>2
    <3>2. CASE k # 0
      <4>1. h[k] = next(k)
        BY <1>1, <1>5, <3>2
      <4>2. k \in 1 .. c
        BY <1>1, <3>2
      <4> HIDE DEF h
      <4>3. QED
        BY <1>6, <3>2, <4>1, <4>2
    <3>3. QED
      BY <3>1, <3>2
  <2>2. QED
    BY <2>1 DEF Loop
<1>8. QED
  BY <1>1, <1>7

LEMMA LoopStrict ==
  ASSUME NEW t, Strict(t), NEW f \in Window, NEW line, NEW sign, NEW count \in Nat,
         NEW g, Loop(t, f, line, sign, g, count)
  PROVE  \A k \in 0 .. count : g[k] \in [tile : Tiles, ended : BOOLEAN] /\ Strict(g[k].tile)
<1> DEFINE Good(s) == s \in [tile : Tiles, ended : BOOLEAN] /\ Strict(s.tile)
           Bad == {k \in 0 .. count : ~ Good(g[k])}
<1>1. \A k \in 0 .. count :
        g[k] = IF k = 0 THEN [tile |-> t, ended |-> FALSE]
                        ELSE Bubble(g[k - 1], Window, f, line, sign)
  BY DEF Loop
<1>2. Good([tile |-> t, ended |-> FALSE])
  BY DEF Strict
<1>3. \A s : Good(s) => Good(Bubble(s, Window, f, line, sign))
  BY BubbleStrict
<1> HIDE DEF Good
<1> SUFFICES ASSUME Bad # {} PROVE FALSE
  BY DEF Good
<1>4. PICK k \in Bad : \A d \in Bad : k <= d
  <2>1. Bad \in SUBSET Nat
    OBVIOUS
  <2> HIDE DEF Bad
  <2>2. QED
    BY <2>1, LeastNumber
<1>5. k # 0
  BY <1>1, <1>2
<1>6. k - 1 \in 0 .. count /\ k - 1 \notin Bad
  BY <1>4, <1>5
<1>7. QED
  BY <1>1, <1>3, <1>4, <1>5, <1>6

(* However far a command walks, the keys stay distinct. *)
LEMMA WalkStrict ==
  ASSUME NEW t, Strict(t), NEW f \in Window, NEW line, NEW sign, NEW count \in Nat
  PROVE  /\ Walk(t, Window, f, line, sign, count).ended \in BOOLEAN
         /\ Strict(Walk(t, Window, f, line, sign, count).tile)
<1> DEFINE walk == CHOOSE g : Loop(t, f, line, sign, g, count)
<1>1. Walk(t, Window, f, line, sign, count) = walk[count]
  BY DEF Walk, Loop
<1>2. Loop(t, f, line, sign, walk, count)
  BY LoopExists
<1> HIDE DEF walk
<1>3. QED
  BY <1>1, <1>2, LoopStrict

(* Where a walk leads: the cells of its path, up to the first that is none. *)

Signs == {-1, 1}

Step(line, sign) == sign * (IF line = "column" THEN Columns(Cardinality(Window)) ELSE 1)

OnLine(line, i, c) ==
  c \in Cells
  /\ (line = "row" => c \div Columns(Cardinality(Window)) = i \div Columns(Cardinality(Window)))

LEMMA ColumnsPositive == Columns(Cardinality(Window)) \in Nat \ {0}
<1> DEFINE n == Cardinality(Window)
           Fits == {c \in Nat : c >= 1 /\ c * c >= n}
<1>1. n \in Nat
  BY CountTyped
<1> HIDE DEF n
<1>2. n + 1 \in Fits
  <2>1. n + 1 \in Nat /\ n + 1 >= 1 /\ (n + 1) * (n + 1) >= n
    BY <1>1
  <2>2. QED
    BY <2>1
<1>3. PICK c \in Fits : \A d \in Fits : c <= d
  <2>1. Fits \in SUBSET Nat /\ Fits # {}
    BY <1>2
  <2> HIDE DEF Fits
  <2>2. QED
    BY <2>1, LeastNumber
<1>4. c \in 1 .. n + 1 /\ c * c >= n
  BY <1>1, <1>2, <1>3
<1>5. \A d \in 1 .. c - 1 : d * d < n
  <2>1. ASSUME NEW d \in 1 .. c - 1
        PROVE  d * d < n
    <3>1. d \in Nat /\ d >= 1 /\ ~ (c <= d)
      OBVIOUS
    <3>2. d \notin Fits
      BY <1>3, <3>1
    <3>3. d * d \in Int
      BY <3>1
    <3>4. QED
      BY <1>1, <3>1, <3>2, <3>3
  <2>2. QED
    BY <2>1
<1>6. Columns(n) \in 1 .. n + 1
  BY <1>4, <1>5 DEF Columns
<1>7. QED
  BY <1>1, <1>6 DEF n

LEMMA DivMonotone ==
  ASSUME NEW d \in Nat \ {0}, NEW x \in Int, NEW y \in Int, x <= y
  PROVE  x \div d <= y \div d /\ x \div d \in Int
OBVIOUS

LEMMA Multiples ==
  ASSUME NEW e \in Int, NEW l \in Nat, NEW m \in Nat, l <= m
  PROVE  /\ e > 0 => 0 <= l * e /\ l * e <= m * e
         /\ e < 0 => m * e <= l * e /\ l * e <= 0
         /\ e # 0 /\ l # m => l * e # m * e
         /\ (m + 1) * e = m * e + e /\ m * e \in Int /\ l * e \in Int
OBVIOUS

LEMMA StepTyped ==
  ASSUME NEW line, NEW sign \in Signs
  PROVE  Step(line, sign) \in Int \ {0}
<1>1. PICK c \in Nat \ {0} : c = Columns(Cardinality(Window))
  BY ColumnsPositive
<1>2. sign * c \in Int /\ sign * c # 0 /\ sign * 1 \in Int /\ sign * 1 # 0
  BY <1>1 DEF Signs
<1>3. QED
  BY <1>1, <1>2 DEF Step

(* A path that left its line does not come back.                           *)
LEMMA PathPrefix ==
  ASSUME NEW line, NEW sign \in Signs, NEW i \in Cells, NEW m \in Nat, NEW l \in 0 .. m,
         OnLine(line, i, i + m * Step(line, sign))
  PROVE  OnLine(line, i, i + l * Step(line, sign))
<1> DEFINE d == Columns(Cardinality(Window))
           n == Cardinality(Window)
<1>1. PICK e \in Int : e = Step(line, sign) /\ e # 0
  BY StepTyped
<1>2. PICK x \in Int : x = i + l * e
  BY <1>1, Multiples, CountTyped
<1>3. PICK y \in Int : y = i + m * e
  BY <1>1, Multiples, CountTyped
<1>4. (i <= x /\ x <= y) \/ (y <= x /\ x <= i)
  <2>1. i \in Int /\ l \in Nat /\ l <= m
    BY CountTyped
  <2>2. l * e \in Int /\ m * e \in Int
    BY <1>1, <2>1, Multiples
  <2>3. PICK a \in Int, b \in Int : a = l * e /\ b = m * e
    BY <2>2
  <2>4. (e > 0 => 0 <= a /\ a <= b) /\ (e < 0 => b <= a /\ a <= 0)
    BY <1>1, <2>1, <2>3, Multiples
  <2>5. x = i + a /\ y = i + b
    BY <1>2, <1>3, <2>3
  <2>6. e > 0 \/ e < 0
    BY <1>1
  <2>7. QED
    BY <2>1, <2>4, <2>5, <2>6
<1>5. OnLine(line, i, y)
  BY <1>1, <1>3
<1>6. x \in Cells
  BY <1>4, <1>5, CountTyped DEF OnLine
<1>7. ASSUME line = "row"
      PROVE  x \div d = i \div d
  <2>1. d \in Nat \ {0} /\ i \in Int
    BY ColumnsPositive, CountTyped
  <2>2. y \div d = i \div d
    BY <1>5, <1>7 DEF OnLine
  <2> HIDE DEF d
  <2>3. /\ i <= x => i \div d <= x \div d
        /\ x <= y => x \div d <= y \div d
        /\ y <= x => y \div d <= x \div d
        /\ x <= i => x \div d <= i \div d
        /\ x \div d \in Int /\ i \div d \in Int
    BY <2>1, DivMonotone
  <2>4. QED
    BY <1>4, <2>2, <2>3
<1>8. QED
  BY <1>1, <1>2, <1>6, <1>7 DEF OnLine

At(line, sign, i, m) == i + m * Step(line, sign)

Passed(line, sign, i, k) ==
  {c \in Cells : OnLine(line, i, c) /\ \E m \in 0 .. k : c = At(line, sign, i, m)}

LEMMA AtNext ==
  ASSUME NEW line, NEW sign \in Signs, NEW i \in Cells, NEW m \in Nat
  PROVE  /\ At(line, sign, i, m) \in Int
         /\ At(line, sign, i, m + 1) = At(line, sign, i, m) + Step(line, sign)
<1>1. PICK e \in Int : e = Step(line, sign) /\ e # 0
  BY StepTyped
<1>2. i \in Int
  BY CountTyped
<1>3. PICK a \in Int : a = m * e /\ (m + 1) * e = a + e
  BY <1>1, Multiples
<1>4. At(line, sign, i, m) = i + a
  BY <1>1, <1>3 DEF At
<1>5. At(line, sign, i, m + 1) = i + (a + e)
  BY <1>1, <1>3 DEF At
<1>6. QED
  BY <1>1, <1>2, <1>4, <1>5

LEMMA AtDiffers ==
  ASSUME NEW line, NEW sign \in Signs, NEW i \in Cells, NEW l \in Nat, NEW m \in Nat, l # m
  PROVE  At(line, sign, i, l) # At(line, sign, i, m)
<1>1. PICK e \in Int : e = Step(line, sign) /\ e # 0
  BY StepTyped
<1>2. i \in Int
  BY CountTyped
<1>3. l * e # m * e /\ l * e \in Int /\ m * e \in Int
  <2>1. l <= m \/ m <= l
    OBVIOUS
  <2>2. QED
    BY <1>1, <2>1, Multiples
<1>4. PICK a \in Int, b \in Int : a = l * e /\ b = m * e
  BY <1>3
<1>5. At(line, sign, i, l) = i + a /\ At(line, sign, i, m) = i + b
  BY <1>1, <1>4 DEF At
<1>6. QED
  BY <1>2, <1>3, <1>4, <1>5

LEMMA AtFirst ==
  ASSUME NEW line, NEW sign \in Signs, NEW i \in Cells
  PROVE  At(line, sign, i, 0) = i
<1>1. PICK e \in Int : e = Step(line, sign)
  BY StepTyped
<1>2. 0 * e = 0 /\ i \in Int
  BY CountTyped
<1>3. QED
  BY <1>1, <1>2 DEF At

(* One cell more is passed as long as the path stays on its line.          *)
LEMMA PassedGrows ==
  ASSUME NEW line, NEW sign \in Signs, NEW i \in Cells, NEW k \in Nat,
         OnLine(line, i, At(line, sign, i, k + 1))
  PROVE  Passed(line, sign, i, k + 1)
           = Passed(line, sign, i, k) \cup {At(line, sign, i, k + 1)}
<1>1. \A m \in 0 .. k + 1 : m \in 0 .. k \/ m = k + 1
  OBVIOUS
<1>2. (\A m \in 0 .. k : m \in 0 .. k + 1) /\ k + 1 \in 0 .. k + 1
  OBVIOUS
<1>3. At(line, sign, i, k + 1) \in Cells
  BY DEF OnLine
<1>4. QED
  BY <1>1, <1>2, <1>3 DEF Passed

LEMMA PassedSame ==
  ASSUME NEW line, NEW sign \in Signs, NEW i \in Cells, NEW k \in Nat,
         ~ OnLine(line, i, At(line, sign, i, k + 1))
  PROVE  Passed(line, sign, i, k + 1) = Passed(line, sign, i, k)
<1>1. \A m \in 0 .. k + 1 : m \in 0 .. k \/ m = k + 1
  OBVIOUS
<1>2. \A m \in 0 .. k : m \in 0 .. k + 1
  OBVIOUS
<1>3. QED
  BY <1>1, <1>2 DEF Passed

(* The passed cells follow one another up to the one reached.              *)
LEMMA PassedNext ==
  ASSUME NEW line, NEW sign \in Signs, NEW i \in Cells, NEW k \in Nat,
         OnLine(line, i, At(line, sign, i, k))
  PROVE  /\ At(line, sign, i, k) \in Passed(line, sign, i, k)
         /\ \A l \in Nat : k < l => At(line, sign, i, l) \notin Passed(line, sign, i, k)
         /\ \A c \in Passed(line, sign, i, k) : c # At(line, sign, i, k) =>
              c + Step(line, sign) \in Passed(line, sign, i, k)
<1> DEFINE P(m) == At(line, sign, i, m)
           A == Passed(line, sign, i, k)
<1>1. /\ \A m \in Nat : P(m) \in Int /\ P(m + 1) = P(m) + Step(line, sign)
      /\ \A l, m \in Nat : l # m => P(l) # P(m)
  BY AtNext, AtDiffers
<1>2. A = {c \in Cells : OnLine(line, i, c) /\ \E m \in 0 .. k : c = P(m)}
  BY DEF Passed
<1>3. \A l \in 0 .. k : OnLine(line, i, P(l))
  BY PathPrefix DEF At
<1>4. \A c : OnLine(line, i, c) => c \in Cells
  BY DEF OnLine
<1> HIDE DEF P, A
<1>5. (\A m \in 0 .. k : m \in Nat) /\ k \in 0 .. k
  OBVIOUS
<1>6. P(k) \in A
  BY <1>2, <1>3, <1>4, <1>5
<1>7. ASSUME NEW l \in Nat, k < l
      PROVE  P(l) \notin A
  <2>1. \A m \in 0 .. k : m \in Nat /\ m # l
    BY <1>7
  <2>2. QED
    BY <1>1, <1>2, <2>1
<1>8. ASSUME NEW c \in A, c # P(k)
      PROVE  c + Step(line, sign) \in A
  <2>1. PICK m \in 0 .. k : c = P(m)
    BY <1>2
  <2>2. m # k
    BY <1>8, <2>1
  <2>3. m \in Nat /\ m + 1 \in 0 .. k
    BY <2>2
  <2>4. c + Step(line, sign) = P(m + 1)
    BY <1>1, <2>1, <2>3
  <2>5. OnLine(line, i, P(m + 1))
    BY <1>3, <2>3
  <2>6. QED
    BY <1>2, <1>4, <2>3, <2>4, <2>5
<1>9. QED
  BY <1>6, <1>7, <1>8 DEF P, A

(* The windows on the passed cells have closed up behind window f.         *)
Shifted(old, f, line, sign, i, k) ==
  [c \in Cells |->
     IF c \notin Passed(line, sign, i, k) THEN old[c]
     ELSE IF c + Step(line, sign) \in Passed(line, sign, i, k)
          THEN old[c + Step(line, sign)] ELSE f]

LEMMA ShiftedNext ==
  ASSUME NEW old, NEW f, NEW line, NEW sign \in Signs, NEW i \in Cells, NEW k \in Nat,
         OnLine(line, i, At(line, sign, i, k)), OnLine(line, i, At(line, sign, i, k + 1))
  PROVE  LET here  == At(line, sign, i, k)
             there == At(line, sign, i, k + 1)
             new(m) == Shifted(old, f, line, sign, i, m)
         IN  /\ here \in Cells /\ there \in Cells
             /\ new(k)[there] = old[there]
             /\ new(k + 1)[there] = f /\ new(k + 1)[here] = old[there]
             /\ \A c \in Cells \ {here, there} : new(k + 1)[c] = new(k)[c]
<1> DEFINE x == At(line, sign, i, k)
           y == At(line, sign, i, k + 1)
           e == Step(line, sign)
           A == Passed(line, sign, i, k)
           B == Passed(line, sign, i, k + 1)
           u == Shifted(old, f, line, sign, i, k)
           v == Shifted(old, f, line, sign, i, k + 1)
<1>0. k + 1 \in Nat /\ k < k + 1 /\ k # k + 1
  OBVIOUS
<1>1. /\ B = A \cup {y} /\ x \in A /\ y \notin A
      /\ \A c \in A : c # x => c + e \in A
  <2>1. Passed(line, sign, i, k + 1)
          = Passed(line, sign, i, k) \cup {At(line, sign, i, k + 1)}
    BY PassedGrows
  <2>2. x \in A /\ \A c \in A : c # x => c + e \in A
    BY PassedNext
  <2>3. \A l \in Nat : k < l => At(line, sign, i, l) \notin A
    BY PassedNext
  <2>4. y \notin A
    BY <1>0, <2>3
  <2>5. QED
    BY <2>1, <2>2, <2>4
<1>2. x + e = y /\ x # y /\ x \in Int /\ y \in Int
  BY <1>0, AtNext, AtDiffers
<1>3. y + e \notin B
  <2>1. k + 1 \in Nat /\ k + 2 \in Nat /\ k + 1 < k + 2 /\ (k + 1) + 1 = k + 2
    OBVIOUS
  <2>2. y + e = At(line, sign, i, k + 2)
    BY <2>1, AtNext
  <2>3. QED
    BY <2>1, <2>2, PassedNext
<1>4. x \in Cells /\ y \in Cells
  BY DEF OnLine
<1>5. /\ \A c \in Cells : u[c] = IF c \notin A THEN old[c]
                                 ELSE IF c + e \in A THEN old[c + e] ELSE f
      /\ \A c \in Cells : v[c] = IF c \notin B THEN old[c]
                                 ELSE IF c + e \in B THEN old[c + e] ELSE f
  BY DEF Shifted
<1> HIDE DEF x, y, e, A, B, u, v
<1>6. u[y] = old[y]
  BY <1>1, <1>4, <1>5
<1>7. v[y] = f /\ v[x] = old[y]
  BY <1>1, <1>2, <1>3, <1>4, <1>5
<1>8. ASSUME NEW c \in Cells \ {x, y}
      PROVE  v[c] = u[c]
  <2>1. CASE c \in A
    BY <1>1, <1>5, <2>1
  <2>2. CASE c \notin A
    BY <1>1, <1>5, <2>2
  <2>3. QED
    BY <2>1, <2>2
<1>9. QED
  BY <1>4, <1>6, <1>7, <1>8 DEF x, y, u, v

(* After k passes the focused window has gone k places or the loop ended. *)
Carried(t, f, line, sign, k, s) ==
  LET i == Rank(t, Window, f)
  IN  /\ s.ended <=> ~ OnLine(line, i, At(line, sign, i, k))
      /\ \A c \in Cells : Arrangement(s.tile, Window)[c]
                            = Shifted(Arrangement(t, Window), f, line, sign, i, k)[c]

LEMMA CarriedAtFirst ==
  ASSUME NEW t, Strict(t), NEW f \in Window, NEW line, NEW sign \in Signs
  PROVE  Carried(t, f, line, sign, 0, [tile |-> t, ended |-> FALSE])
<1>1. PICK i \in Cells : i = Rank(t, Window, f)
  BY RankInCells
<1>2. At(line, sign, i, 0) = i
  BY AtFirst
<1>3. OnLine(line, i, i)
  BY DEF OnLine
<1>4. Passed(line, sign, i, 0) = {i}
  <2>1. 0 .. 0 = {0}
    OBVIOUS
  <2>2. QED
    BY <1>2, <1>3, <2>1 DEF Passed
<1>5. i + Step(line, sign) # i
  BY StepTyped, CountTyped
<1>6. Arrangement(t, Window)[i] = f
  BY <1>1, ArrangementIs
<1>7. \A c \in Cells : Arrangement(t, Window)[c]
                        = Shifted(Arrangement(t, Window), f, line, sign, i, 0)[c]
  BY <1>4, <1>5, <1>6 DEF Shifted
<1>8. QED
  BY <1>1, <1>2, <1>3, <1>7 DEF Carried

(* The neighbour of a cell is the next of the path, if that is on the line.*)
LEMMA NeighbourIsNext ==
  ASSUME NEW line, NEW sign \in Signs, NEW i \in Cells, NEW h \in Cells, OnLine(line, i, h)
  PROVE  LET j == Neighbour(line, h, Cardinality(Window), sign)
         IN  /\ j \in Cells <=> OnLine(line, i, h + Step(line, sign))
             /\ j \in Cells => j = h + Step(line, sign)
<1>1. PICK d \in Nat \ {0} : d = Columns(Cardinality(Window))
  BY ColumnsPositive
<1>2. PICK e \in Int : e = Step(line, sign)
  BY StepTyped
<1>3. e = IF line = "column" THEN sign * d ELSE sign
  BY <1>1, <1>2 DEF Step, Signs
<1>4. Neighbour(line, h, Cardinality(Window), sign)
        = IF line = "row" /\ (h + e) \div d # h \div d THEN -1 ELSE h + e
  BY <1>1, <1>3 DEF Neighbour
<1>5. -1 \notin Cells
  BY CountTyped
<1>6. line = "row" => h \div d = i \div d
  BY <1>1 DEF OnLine
<1>7. OnLine(line, i, h + e) <=> /\ h + e \in Cells
                                 /\ line = "row" => (h + e) \div d = i \div d
  BY <1>1 DEF OnLine
<1>8. QED
  BY <1>2, <1>4, <1>5, <1>6, <1>7

LEMMA CarriedOn ==
  ASSUME NEW t, Strict(t), NEW f \in Window, NEW line, NEW sign \in Signs, NEW k \in Nat,
         NEW s \in [tile : Tiles, ended : BOOLEAN], Strict(s.tile),
         Carried(t, f, line, sign, k, s)
  PROVE  Carried(t, f, line, sign, k + 1, Bubble(s, Window, f, line, sign))
<1> DEFINE old == Arrangement(t, Window)
           now == Arrangement(s.tile, Window)
           r   == Bubble(s, Window, f, line, sign)
<1>1. PICK i \in Cells : i = Rank(t, Window, f)
  BY RankInCells
<1> DEFINE x == At(line, sign, i, k)
           y == At(line, sign, i, k + 1)
           shift(m) == Shifted(old, f, line, sign, i, m)
<1>2. /\ s.ended <=> ~ OnLine(line, i, x)
      /\ \A c \in Cells : now[c] = shift(k)[c]
  BY <1>1 DEF Carried
<1>3. ASSUME NEW q, q.ended <=> ~ OnLine(line, i, y),
             \A c \in Cells : Arrangement(q.tile, Window)[c] = shift(k + 1)[c]
      PROVE  Carried(t, f, line, sign, k + 1, q)
  BY <1>1, <1>3 DEF Carried
<1>4. ASSUME ~ OnLine(line, i, y), r = [s EXCEPT !.ended = TRUE]
      PROVE  Carried(t, f, line, sign, k + 1, r)
  <2>1. Passed(line, sign, i, k + 1) = Passed(line, sign, i, k)
    BY <1>4, PassedSame
  <2>2. shift(k + 1) = shift(k)
    BY <2>1 DEF Shifted
  <2>3. r.ended = TRUE /\ r.tile = s.tile
    BY <1>4
  <2> HIDE DEF r, shift, y
  <2>4. \A c \in Cells : Arrangement(r.tile, Window)[c] = shift(k + 1)[c]
    BY <1>2, <2>2, <2>3
  <2>5. QED
    BY <1>3, <1>4, <2>3, <2>4
<1>5. CASE s.ended
  <2>1. ~ OnLine(line, i, y)
    <3>1. k \in 0 .. k + 1 /\ k + 1 \in Nat
      OBVIOUS
    <3>2. OnLine(line, i, y) => OnLine(line, i, x)
      BY <3>1, PathPrefix DEF At
    <3>3. QED
      BY <1>2, <1>5, <3>2
  <2>2. r = [s EXCEPT !.ended = TRUE]
    BY <1>5 DEF Bubble
  <2>3. QED
    BY <1>4, <2>1, <2>2
<1>6. CASE ~ s.ended
  <2>1. OnLine(line, i, x) /\ x \in Cells
    BY <1>2, <1>6 DEF OnLine
  <2>2. x + Step(line, sign) = y
    BY AtNext
  <2>3. now[x] = f
    <3>1. x \in Passed(line, sign, i, k)
      BY <2>1, PassedNext
    <3>2. \A l \in Nat : k < l => At(line, sign, i, l) \notin Passed(line, sign, i, k)
      BY <2>1, PassedNext
    <3>3. y \notin Passed(line, sign, i, k)
      BY <3>2
    <3>4. shift(k)[x] = f
      BY <2>1, <2>2, <3>1, <3>3 DEF Shifted
    <3>5. QED
      BY <1>2, <2>1, <3>4
  <2>4. Rank(s.tile, Window, f) = x
    BY <2>1, <2>3, ArrangementIs
  <2> DEFINE j == Neighbour(line, x, Cardinality(Window), sign)
  <2>5. (j \in Cells <=> OnLine(line, i, y)) /\ (j \in Cells => j = y)
    BY <2>1, <2>2, NeighbourIsNext
  <2>6. r = IF j \notin Cells THEN [s EXCEPT !.ended = TRUE]
            ELSE [s EXCEPT !.tile = SwapSortKeys(s.tile, f, now[j])]
    BY <1>6, <2>4, CountTyped DEF Bubble
  <2>7. CASE j \notin Cells
    BY <1>4, <2>5, <2>6, <2>7
  <2>8. CASE j \in Cells
    <3>1. OnLine(line, i, y) /\ y \in Cells /\ j = y
      BY <2>5, <2>8
    <3>2. PICK w \in Window : w = now[y]
      BY <3>1, ArrangementByRank
    <3>3. r.tile = SwapSortKeys(s.tile, f, w) /\ r.ended = s.ended
      BY <2>6, <2>8, <3>1, <3>2
    <3>4. \A c \in Cells : Arrangement(r.tile, Window)[c] = Swapped(f, w, now[c])
      BY <3>2, <3>3, SwapArrangement
    <3>5. /\ shift(k)[y] = old[y]
          /\ shift(k + 1)[y] = f /\ shift(k + 1)[x] = old[y]
          /\ \A c \in Cells \ {x, y} : shift(k + 1)[c] = shift(k)[c]
      BY <2>1, <3>1, ShiftedNext
    <3>6. \A c \in Cells : (now[c] = f => c = x) /\ (now[c] = w => c = y)
      BY <2>4, <3>1, <3>2, ArrangementIs
    <3> HIDE DEF r, shift, x, y, now, old
    <3>7. \A c \in Cells : Swapped(f, w, now[c]) = shift(k + 1)[c]
      <4>1. ASSUME NEW c \in Cells
            PROVE  Swapped(f, w, now[c]) = shift(k + 1)[c]
        <5>1. CASE c = y
          BY <3>2, <3>5, <5>1 DEF Swapped
        <5>2. CASE c = x
          BY <1>2, <2>1, <2>3, <3>1, <3>2, <3>5, <5>2 DEF Swapped
        <5>3. CASE c # x /\ c # y
          BY <1>2, <3>5, <3>6, <5>3 DEF Swapped
        <5>4. QED
          BY <5>1, <5>2, <5>3
      <4>2. QED
        BY <4>1
    <3>8. \A c \in Cells : Arrangement(r.tile, Window)[c] = shift(k + 1)[c]
      BY <3>4, <3>7
    <3>9. r.ended <=> ~ OnLine(line, i, y)
      BY <1>6, <3>1, <3>3
    <3>10. QED
      BY <1>3, <3>8, <3>9 DEF r
  <2>9. QED
    BY <2>7, <2>8
<1>7. QED
  BY <1>5, <1>6 DEF r

(* The loop's first pass to break the rule would follow one that kept it.  *)
LEMMA WalkShifts ==
  ASSUME NEW t, Strict(t), NEW f \in Window, NEW line, NEW sign \in Signs, NEW count \in Nat
  PROVE  Arrangement(Walk(t, Window, f, line, sign, count).tile, Window)
           = Shifted(Arrangement(t, Window), f, line, sign, Rank(t, Window, f), count)
<1> DEFINE walk == CHOOSE g : Loop(t, f, line, sign, g, count)
<1>1. Walk(t, Window, f, line, sign, count) = walk[count]
  BY DEF Walk, Loop
<1>2. Loop(t, f, line, sign, walk, count)
  BY LoopExists
<1> HIDE DEF walk
<1>3. \A k \in 0 .. count :
        walk[k] = IF k = 0 THEN [tile |-> t, ended |-> FALSE]
                           ELSE Bubble(walk[k - 1], Window, f, line, sign)
  BY <1>2 DEF Loop
<1>4. \A k \in 0 .. count : walk[k] \in [tile : Tiles, ended : BOOLEAN] /\ Strict(walk[k].tile)
  BY <1>2, LoopStrict
<1> DEFINE Bad == {k \in 0 .. count : ~ Carried(t, f, line, sign, k, walk[k])}
<1>5. Bad = {}
  <2> SUFFICES ASSUME Bad # {} PROVE FALSE
    OBVIOUS
  <2>1. PICK k \in Bad : \A d \in Bad : k <= d
    <3>1. Bad \in SUBSET Nat
      OBVIOUS
    <3> HIDE DEF Bad
    <3>2. QED
      BY <3>1, LeastNumber
  <2>2. k \in 0 .. count /\ ~ Carried(t, f, line, sign, k, walk[k])
    BY <2>1
  <2>3. k # 0
    BY <1>3, <2>2, CarriedAtFirst
  <2>4. PICK l \in Nat : k = l + 1
    <3>1. k - 1 \in Nat /\ k = (k - 1) + 1
      BY <2>2, <2>3
    <3>2. QED
      BY <3>1
  <2>5. l \in 0 .. count /\ l = k - 1 /\ l < k
    BY <2>2, <2>4
  <2>6. Carried(t, f, line, sign, l, walk[l])
    BY <2>1, <2>5
  <2>7. Carried(t, f, line, sign, l + 1, Bubble(walk[l], Window, f, line, sign))
    BY <1>4, <2>5, <2>6, CarriedOn
  <2>8. walk[k] = Bubble(walk[l], Window, f, line, sign)
    BY <1>3, <2>2, <2>3, <2>5
  <2>9. QED
    BY <2>2, <2>4, <2>7, <2>8
<1>6. Carried(t, f, line, sign, count, walk[count])
  <2>1. count \in 0 .. count
    OBVIOUS
  <2>2. QED
    BY <1>5, <2>1
<1> DEFINE new == Arrangement(walk[count].tile, Window)
           want == Shifted(Arrangement(t, Window), f, line, sign, Rank(t, Window, f), count)
<1>7. \A c \in Cells : new[c] = want[c]
  BY <1>6 DEF Carried
<1>8. new = [c \in Cells |-> new[c]]
  <2>1. \A r : Arrangement(r, Window) = [c \in Cells |-> Arrangement(r, Window)[c]]
    BY DEF Arrangement, Cells
  <2>2. QED
    BY <2>1
<1>9. want = [c \in Cells |-> want[c]]
  BY DEF Shifted
<1> HIDE DEF new, want
<1>10. new = want
  BY <1>7, <1>8, <1>9
<1>11. QED
  BY <1>1, <1>10 DEF new, want

(* What a command should do to the screen, in the terms of the walk.       *)
LEMMA InsertedIs ==
  ASSUME NEW t, Strict(t), NEW f \in Window, NEW line, NEW steps \in Int
  PROVE  Inserted(Arrangement(t, Window), f, line, steps)
           = Shifted(Arrangement(t, Window), f, line, Sign(steps), Rank(t, Window, f),
                     Length(steps))
<1> DEFINE old    == Arrangement(t, Window)
           cols   == Columns(Cardinality(Window))
           away   == Sign(steps) * (IF line = "column" THEN cols ELSE 1)
           i      == CHOOSE c \in Cells : old[c] = f
           passed == {c \in Cells : /\ line = "row" => c \div cols = i \div cols
                                    /\ \E m \in 0 .. Length(steps) : c = i + m * away}
<1>1. Inserted(old, f, line, steps)
        = [c \in Cells |-> IF c \notin passed THEN old[c]
                           ELSE IF c + away \in passed THEN old[c + away] ELSE f]
  BY DEF Inserted
<1>2. away = Step(line, Sign(steps))
  BY DEF Step
<1>3. i = Rank(t, Window, f)
  <2>1. \A c \in Cells : old[c] = f <=> c = Rank(t, Window, f)
    BY ArrangementIs
  <2>2. Rank(t, Window, f) \in Cells
    BY RankInCells
  <2> HIDE DEF old
  <2>3. QED
    BY <2>1, <2>2
<1> HIDE DEF i, away
<1>4. passed = Passed(line, Sign(steps), i, Length(steps))
  BY <1>2 DEF Passed, OnLine, At
<1> HIDE DEF passed
<1>5. QED
  BY <1>1, <1>2, <1>3, <1>4 DEF Shifted

(* Both kinds of command keep the sort order one. *)
LEMMA CommandsStrict ==
  ASSUME NEW t, Strict(t), NEW f \in Window, NEW line
  PROVE  /\ \A steps \in Steps :
              LET r == MoveBy(t, Window, f, line, steps)
              IN  Strict(r.tile) /\ r.arrange \in BOOLEAN
         /\ \A sign \in {-1, 1} :
              LET r == MoveToEnd(t, Window, f, line, sign)
              IN  Strict(r.tile) /\ r.arrange \in BOOLEAN
<1>1. \A steps \in Steps : Length(steps) \in Nat
  BY StepsAssumption DEF Length
<1>2. \A steps \in Steps :
        Strict(MoveBy(t, Window, f, line, steps).tile)
        /\ MoveBy(t, Window, f, line, steps).arrange \in BOOLEAN
  BY <1>1, WalkStrict DEF MoveBy
<1>3. \A sign \in {-1, 1} :
        Strict(MoveToEnd(t, Window, f, line, sign).tile)
        /\ MoveToEnd(t, Window, f, line, sign).arrange \in BOOLEAN
  BY CountTyped, WalkStrict DEF MoveToEnd
<1>4. QED
  BY <1>2, <1>3

-----------------------------------------------------------------------------
(* The invariant *)

LEMMA StrictInvariant == IInv <=> /\ Strict(tile) /\ rule \in [Window -> OrderValue]
                                 /\ layout \in Layout /\ focused \in Window
                                 /\ arranged \in BOOLEAN
BY DEF IInv, TypeOK, KeysDistinct, Strict, Tiles

(* The user keys are handed out in turn, so they are distinct at first. *)
LEMMA InitStrict == Init => IInv
<1> SUFFICES ASSUME Init PROVE IInv
  OBVIOUS
<1>1. PICK key \in [Window -> 1 .. Cardinality(Window)] :
        IsInjective(key) /\ tile = [order |-> rule, key |-> key]
  BY DEF Init
<1>2. Strict(tile)
  BY <1>1 DEF Init, Strict, Tiles
<1>3. QED
  BY <1>2, StrictInvariant DEF Init, Layout

LEMMA ArrangeTyped ==
  ASSUME Arrange, arranged \in BOOLEAN
  PROVE  arranged' \in BOOLEAN
BY DEF Arrange

(* Only a command, a drop, a new title and a new layout touch the keys;    *)
(* the last two write the rule orders, which nothing needs to be distinct. *)
LEMMA NextStrict == IInv /\ [Next]_vars => IInv'
<1> SUFFICES ASSUME IInv, [Next]_vars PROVE IInv'
  OBVIOUS
<1>1. /\ Strict(tile) /\ rule \in [Window -> OrderValue] /\ layout \in Layout
      /\ focused \in Window /\ arranged \in BOOLEAN
  BY StrictInvariant
<1>2. ASSUME Strict(tile'), rule' \in [Window -> OrderValue], layout' \in Layout,
             focused' \in Window, arranged' \in BOOLEAN
      PROVE  IInv'
  BY <1>2 DEF IInv, TypeOK, KeysDistinct, Strict, Tiles
<1>3. ASSUME NEW r, Apply(r), Strict(r.tile)
      PROVE  IInv'
  <2>1. arranged' \in BOOLEAN
    BY <1>1, <1>3, ArrangeTyped DEF Apply
  <2>2. QED
    BY <1>1, <1>2, <1>3, <2>1 DEF Apply
<1>4. CASE Command
  <2>1. \E r : Apply(r) /\ Strict(r.tile)
    BY <1>1, <1>4, CommandsStrict DEF Command, TileMove, TileEdge, GridVert, GridVertEdge,
       GridHoriz
  <2>2. QED
    BY <1>3, <2>1
<1>5. ASSUME NEW w \in Window, Drop(w)
      PROVE  IInv'
  BY <1>1, <1>2, <1>5, SwapStrict, ArrangeTyped DEF Drop
<1>6. ASSUME NEW w \in Window, Focus(w)
      PROVE  IInv'
  BY <1>1, <1>2, <1>6 DEF Focus
<1>7. ASSUME NEW order \in [Window -> OrderValue]
      PROVE  Strict([tile EXCEPT !.order = order])
  BY <1>1 DEF Strict, Tiles
<1>8. ASSUME NEW w \in Window, NEW o \in OrderValue, Retitle(w, o)
      PROVE  IInv'
  <2>1. /\ [rule EXCEPT ![w] = o] \in [Window -> OrderValue]
        /\ [tile.order EXCEPT ![w] = o] \in [Window -> OrderValue]
    BY <1>1 DEF Strict, Tiles
  <2>2. tile' = [tile EXCEPT !.order = [tile.order EXCEPT ![w] = o]]
    BY <1>1, <1>8 DEF Retitle, Strict, Tiles
  <2>3. Strict(tile')
    BY <1>7, <2>1, <2>2
  <2>4. QED
    BY <1>1, <1>2, <1>8, <2>1, <2>3, ArrangeTyped DEF Retitle
<1>9. ASSUME NEW l \in Layout, SetLayout(l)
      PROVE  IInv'
  BY <1>1, <1>2, <1>7, <1>9, ArrangeTyped DEF SetLayout
<1>10. CASE OutputCommit
  BY <1>1, <1>2, <1>10, ArrangeTyped DEF OutputCommit
<1>11. CASE UNCHANGED vars
  BY <1>1, <1>2, <1>11 DEF vars
<1>12. QED
  BY <1>4, <1>5, <1>6, <1>8, <1>9, <1>10, <1>11 DEF Next

-----------------------------------------------------------------------------
(* What follows from the invariant *)

(* The types and the distinct keys hold in every reachable state. *)
THEOREM Invariance == Spec => []IInv
BY InitStrict, NextStrict, PTL DEF Spec

(* No two windows ever share a user key, so the sort order has one result. *)
THEOREM KeysStayDistinct == Spec => []KeysDistinct
<1>1. IInv => KeysDistinct
  BY DEF IInv
<1>2. QED
  BY <1>1, Invariance, PTL

(* Every variable always holds a value of its kind. *)
THEOREM TypeCorrect == Spec => []TypeOK
<1>1. IInv => TypeOK
  BY DEF IInv
<1>2. QED
  BY <1>1, Invariance, PTL

(* What a drop would do in any reachable state: the two windows change     *)
(* places on the screen, and every other window stays where it is.         *)
THEOREM DropsExchange == Spec => []DropExchanges
<1>1. IInv => DropExchanges
  <2> SUFFICES ASSUME IInv, NEW onto \in Window
               PROVE  Arrangement(SwapSortKeys(tile, focused, onto), Window)
                        = [c \in Cells |-> CASE Current[c] = focused -> onto
                                              [] Current[c] = onto -> focused
                                              [] OTHER -> Current[c]]
    BY DEF DropExchanges
  <2>1. Strict(tile) /\ focused \in Window
    BY StrictInvariant
  <2>2. ASSUME NEW c \in Cells
        PROVE  Arrangement(SwapSortKeys(tile, focused, onto), Window)[c]
                 = CASE Current[c] = focused -> onto
                     [] Current[c] = onto -> focused
                     [] OTHER -> Current[c]
    BY <2>1, SwapArrangement DEF Current, Swapped
  <2> DEFINE new == Arrangement(SwapSortKeys(tile, focused, onto), Window)
  <2>3. new = [c \in Cells |-> new[c]]
    BY DEF Arrangement, Cells
  <2> HIDE DEF new
  <2>4. QED
    BY <2>2, <2>3 DEF new
<1>2. QED
  BY <1>1, Invariance, PTL

(* What a move would do in any reachable state: the focused window is put  *)
(* that many places on along the order, its row or its column, or in the   *)
(* last place there is, and no window off that line moves.                 *)
THEOREM MovesInsert == Spec => []MovesAreInsertions
<1>1. IInv => MovesAreInsertions
  <2> SUFFICES ASSUME IInv PROVE MovesAreInsertions
    OBVIOUS
  <2>1. Strict(tile) /\ focused \in Window
    BY StrictInvariant
  <2>2. ASSUME NEW line, NEW steps \in Steps
        PROVE  Arrangement(MoveBy(tile, Window, focused, line, steps).tile, Window)
                 = Inserted(Current, focused, line, steps)
    <3>1. steps \in Int /\ Sign(steps) \in Signs /\ Length(steps) \in Nat
      BY StepsAssumption DEF Sign, Length, Signs
    <3>2. MoveBy(tile, Window, focused, line, steps).tile
            = Walk(tile, Window, focused, line, Sign(steps), Length(steps)).tile
      BY DEF MoveBy
    <3>3. QED
      BY <2>1, <3>1, <3>2, WalkShifts, InsertedIs DEF Current
  <2>3. ASSUME NEW line, NEW sign \in {-1, 1}
        PROVE  Arrangement(MoveToEnd(tile, Window, focused, line, sign).tile, Window)
                 = Inserted(Current, focused, line, sign * Cardinality(Window))
    <3>1. PICK n \in Nat \ {0} : n = Cardinality(Window)
      BY WindowAssumption, FS_CardinalityType, FS_EmptySet
    <3>2. /\ sign * n \in Int /\ Sign(sign * n) = sign /\ Length(sign * n) = n
          /\ sign \in Signs
      BY DEF Sign, Length, Signs
    <3>3. MoveToEnd(tile, Window, focused, line, sign).tile
            = Walk(tile, Window, focused, line, sign, n).tile
      BY <3>1 DEF MoveToEnd
    <3>4. Inserted(Current, focused, line, sign * n)
            = Shifted(Current, focused, line, sign, Rank(tile, Window, focused), n)
      BY <2>1, <3>2, InsertedIs DEF Current
    <3>5. Arrangement(Walk(tile, Window, focused, line, sign, n).tile, Window)
            = Shifted(Current, focused, line, sign, Rank(tile, Window, focused), n)
      BY <2>1, <3>2, WalkShifts DEF Current
    <3>6. QED
      BY <3>1, <3>3, <3>4, <3>5
  <2>4. QED
    BY <2>2, <2>3 DEF MovesAreInsertions
<1>2. QED
  BY <1>1, Invariance, PTL

(* Whatever the user moved before, entering a tiling layout puts a window  *)
(* whose rule says to come earlier in an earlier cell.                     *)
THEOREM LayoutsRestoreRules == Spec => LayoutRestoresRules
<1>1. ASSUME IInv, IInv', [Next]_vars, layout' \notin {layout, "stack"},
             NEW i \in Cells, NEW j \in Cells, rule[Current'[i]] < rule[Current'[j]]
      PROVE  i < j
  <2>1. \E l \in Layout : SetLayout(l)
    BY <1>1 DEF Next, Command, TileMove, TileEdge, GridVert, GridVertEdge, GridHoriz, Apply,
       Drop, Focus, Retitle, OutputCommit, vars
  <2>2. tile' = [tile EXCEPT !.order = rule]
    BY <1>1, <2>1 DEF SetLayout
  <2>3. Strict(tile) /\ Strict(tile')
    BY <1>1 DEF IInv, TypeOK, KeysDistinct, Strict, Tiles
  <2>4. tile'.order = rule
    BY <2>2, <2>3 DEF Strict, Tiles
  <2> DEFINE v == Arrangement(tile', Window)[i]
             w == Arrangement(tile', Window)[j]
  <2>5. Current'[i] = v /\ Current'[j] = w
    BY DEF Current
  <2>6. /\ v \in Window /\ Rank(tile', Window, v) = i
        /\ w \in Window /\ Rank(tile', Window, w) = j
    BY <2>3, ArrangementByRank
  <2> HIDE DEF v, w
  <2>7. Before(tile', v, w)
    BY <1>1, <2>4, <2>5 DEF Before
  <2>8. QED
    BY <2>3, <2>6, <2>7, RankMonotone
<1>2. IInv /\ IInv' /\ [Next]_vars =>
        [layout' \notin {layout, "stack"} =>
           \A i, j \in Cells : rule[Current'[i]] < rule[Current'[j]] => i < j]_vars
  BY <1>1
<1>3. QED
  BY <1>2, Invariance, PTL DEF Spec, LayoutRestoresRules
=============================================================================
