------------------------- MODULE ScrollStripProofs --------------------------
(***************************************************************************)
(* Theorems about module ScrollStrip for any windows, step counts and      *)
(* number of outputs: the types, that some output shows a window and none  *)
(* is lost beyond a gap, that an output goes on showing windows, and that  *)
(* entering the layout shows the focused one.                              *)
(*                                                                         *)
(* A handler is a composition of functions on the record Strips, so there  *)
(* is a lemma for each function: it keeps a record Sane.  Every handler    *)
(* that changes the order or the positions ends in Arrange, so the rest is *)
(* about its loop: what one output's turn does (TurnIs, RowIs), what it    *)
(* leaves alone (TurnKeeps), and what holds after the turns of the outputs *)
(* so far (ArrangeShows, EnterLays).                                       *)
(***************************************************************************)
EXTENDS ScrollStrip, SequenceTheorems, WellFoundedInduction, TLAPS

StripState ==
  [order : Seq(Window), column : [Window -> Int], slot : [Output -> Nat],
   cursor : Output, focused : Window \cup {Nobody}]

(* No window is listed twice, and the focused one is listed. *)
Once(q) == q \in Seq(Window) /\ \A i, j \in DOMAIN q : q[i] = q[j] => i = j

Sane(s) ==
  /\ s \in StripState
  /\ Once(s.order)
  /\ s.focused # Nobody => s.focused \in Windows(s)

-----------------------------------------------------------------------------
(* The windows a loop collects *)

LEMMA LeastNumber ==
  ASSUME NEW T \in SUBSET Nat, T # {}
  PROVE  \E i \in T : \A j \in T : i <= j
<1> DEFINE R == {ss \in Nat \X Nat : ss[1] < ss[2]}
<1>1. IsWellFoundedOn(R, Nat)
  BY NatLessThanWellFounded DEF OpToRel
<1>2. PICK i \in T : \A j \in T : ~ (<< j, i >> \in R)
  <2> HIDE DEF R
  <2>1. QED
    BY <1>1, WFMin
<1>3. \A j \in T : i <= j
  <2>1. \A j \in T : i \in Nat /\ j \in Nat /\ ~ (j < i)
    BY <1>2
  <2>2. QED
    BY <2>1
<1>4. QED
  BY <1>3

Collect(q, x, set) == IF x \in set THEN Append(q, x) ELSE q

Collecting(g, seq, set, n) ==
  g = [i \in 0 .. n |-> IF i = 0 THEN << >> ELSE Collect(g[i - 1], seq[i], set)]

(* The least number of passes after which the loop has no value would be   *)
(* one more than a number after which it has one.                          *)
LEMMA CollectingExists ==
  ASSUME NEW seq, NEW set, NEW n \in Nat
  PROVE  \E g : Collecting(g, seq, set, n)
<1> DEFINE Bad == {c \in Nat : ~ \E g : Collecting(g, seq, set, c)}
<1> SUFFICES ASSUME Bad # {} PROVE FALSE
  OBVIOUS
<1>1. PICK c \in Bad : \A d \in Bad : c <= d
  BY LeastNumber
<1>2. c # 0
  <2>1. Collecting([i \in 0 .. 0 |-> << >>], seq, set, 0)
    BY DEF Collecting
  <2>2. QED
    BY <2>1
<1>3. c - 1 \in Nat /\ c - 1 \notin Bad
  BY <1>1, <1>2
<1>4. PICK g : Collecting(g, seq, set, c - 1)
  BY <1>3
<1> DEFINE next(i) == Collect(g[i - 1], seq[i], set)
           h == [i \in 0 .. c |-> IF i < c THEN g[i] ELSE next(i)]
<1>5. \A i \in 0 .. c - 1 : g[i] = IF i = 0 THEN << >> ELSE next(i)
  BY <1>4 DEF Collecting
<1>6. \A i \in 1 .. c : h[i - 1] = g[i - 1]
  BY <1>1
<1>7. Collecting(h, seq, set, c)
  <2>1. ASSUME NEW i \in 0 .. c
        PROVE  h[i] = IF i = 0 THEN << >> ELSE Collect(h[i - 1], seq[i], set)
    <3>1. CASE i = 0
      <4>1. i < c /\ i \in 0 .. c - 1
        BY <1>1, <1>2, <3>1
      <4>2. h[i] = g[i]
        BY <4>1
      <4>3. QED
        BY <1>5, <3>1, <4>1, <4>2
    <3>2. CASE i # 0
      <4>1. h[i] = next(i)
        BY <1>1, <1>5, <3>2
      <4>2. i \in 1 .. c
        BY <1>1, <3>2
      <4> HIDE DEF h
      <4>3. QED
        BY <1>6, <3>2, <4>1, <4>2
    <3>3. QED
      BY <3>1, <3>2
  <2>2. QED
    BY <2>1 DEF Collecting
<1>8. QED
  BY <1>1, <1>7

(* What has been collected of the first i windows.                         *)
Collected(q, seq, set, i) ==
  /\ Once(q)
  /\ \A a \in DOMAIN q : \E b \in 1 .. i : seq[b] \in set /\ q[a] = seq[b]
  /\ \A b \in 1 .. i : seq[b] \in set => \E a \in DOMAIN q : q[a] = seq[b]
  /\ (\A b \in 1 .. i : seq[b] \in set) =>
       Len(q) = i /\ \A b \in 1 .. i : q[b] = seq[b]

LEMMA CollectedFirst ==
  ASSUME NEW seq, NEW set
  PROVE  Collected(<< >>, seq, set, 0)
<1>1. << >> \in Seq(Window) /\ DOMAIN << >> = {} /\ Len(<< >>) = 0
  BY EmptySeq
<1>2. 1 .. 0 = {}
  OBVIOUS
<1>3. QED
  BY <1>1, <1>2 DEF Collected, Once

LEMMA CollectedNext ==
  ASSUME NEW seq, Once(seq), NEW set, NEW i \in 1 .. Len(seq), NEW q,
         Collected(q, seq, set, i - 1)
  PROVE  Collected(Collect(q, seq[i], set), seq, set, i)
<1>1. seq \in Seq(Window) /\ Len(seq) \in Nat /\ DOMAIN seq = 1 .. Len(seq)
  BY LenProperties DEF Once
<1>2. q \in Seq(Window) /\ Len(q) \in Nat /\ DOMAIN q = 1 .. Len(q)
  BY LenProperties DEF Collected, Once
<1>3. PICK x \in Window : x = seq[i]
  BY <1>1, ElementOfSeq
<1>4. i \in Nat /\ i - 1 \in Nat /\ i \in 1 .. i
      /\ \A b \in 1 .. i : b \in 1 .. i - 1 \/ b = i
  BY <1>1
<1>5. \A b \in 1 .. i - 1 : b \in 1 .. i /\ b # i /\ b \in DOMAIN seq
  BY <1>1
<1>6. /\ \A a \in DOMAIN q : \E b \in 1 .. i - 1 : seq[b] \in set /\ q[a] = seq[b]
      /\ \A b \in 1 .. i - 1 : seq[b] \in set => \E a \in DOMAIN q : q[a] = seq[b]
      /\ (\A b \in 1 .. i - 1 : seq[b] \in set) =>
           Len(q) = i - 1 /\ \A b \in 1 .. i - 1 : q[b] = seq[b]
      /\ \A a, b \in DOMAIN q : q[a] = q[b] => a = b
  BY DEF Collected, Once
<1>7. CASE x \notin set
  <2>1. Collect(q, seq[i], set) = q
    BY <1>3, <1>7 DEF Collect
  <2>2. ~ (\A b \in 1 .. i : seq[b] \in set)
    BY <1>3, <1>4, <1>7
  <2>3. \A b \in 1 .. i : seq[b] \in set => \E a \in DOMAIN q : q[a] = seq[b]
    BY <1>3, <1>4, <1>6, <1>7
  <2>4. \A a \in DOMAIN q : \E b \in 1 .. i : seq[b] \in set /\ q[a] = seq[b]
    BY <1>5, <1>6
  <2>5. Once(q)
    BY DEF Collected
  <2>6. Collected(q, seq, set, i)
    BY <2>2, <2>3, <2>4, <2>5 DEF Collected
  <2>7. QED
    BY <2>1, <2>6
<1>8. CASE x \in set
  <2>1. PICK r : r = Append(q, x)
    OBVIOUS
  <2>2. Collect(q, seq[i], set) = r
    BY <1>3, <1>8, <2>1 DEF Collect
  <2>3. /\ r \in Seq(Window) /\ Len(r) = Len(q) + 1 /\ r[Len(q) + 1] = x
        /\ \A a \in 1 .. Len(q) : r[a] = q[a]
    BY <1>2, <2>1, AppendProperties
  <2>4. DOMAIN r = 1 .. Len(q) + 1
    BY <2>3, LenProperties
  <2>5. \A a \in DOMAIN r : (a \in DOMAIN q /\ r[a] = q[a]) \/ (a = Len(q) + 1 /\ r[a] = x)
    BY <1>2, <2>3, <2>4
  <2>6. \A a \in DOMAIN q : q[a] # x
    BY <1>1, <1>3, <1>5, <1>6 DEF Once
  <2>7. \A a, b \in DOMAIN r : r[a] = r[b] => a = b
    BY <1>6, <2>5, <2>6
  <2>8. \A a \in DOMAIN r : \E b \in 1 .. i : seq[b] \in set /\ r[a] = seq[b]
    BY <1>3, <1>4, <1>5, <1>6, <1>8, <2>5
  <2>9. ASSUME NEW b \in 1 .. i, seq[b] \in set
        PROVE  \E a \in DOMAIN r : r[a] = seq[b]
    <3>1. CASE b = i
      <4>1. Len(q) + 1 \in DOMAIN r
        BY <1>2, <2>4
      <4>2. QED
        BY <1>3, <2>3, <3>1, <4>1
    <3>2. CASE b # i
      <4>1. PICK a \in DOMAIN q : q[a] = seq[b]
        BY <1>4, <1>6, <2>9, <3>2
      <4>2. a \in DOMAIN r /\ r[a] = q[a]
        BY <1>2, <2>3, <2>4, <4>1
      <4>3. QED
        BY <4>1, <4>2
    <3>3. QED
      BY <3>1, <3>2
  <2>10. ASSUME \A b \in 1 .. i : seq[b] \in set
         PROVE  Len(r) = i /\ \A b \in 1 .. i : r[b] = seq[b]
    <3>1. Len(q) = i - 1 /\ \A b \in 1 .. i - 1 : q[b] = seq[b]
      BY <1>5, <1>6, <2>10
    <3>2. QED
      BY <1>3, <1>4, <2>3, <3>1
  <2>11. QED
    BY <2>2, <2>3, <2>7, <2>8, <2>9, <2>10 DEF Collected, Once
<1>9. QED
  BY <1>7, <1>8

(* The loop keeps the order and loses or repeats nothing.                  *)
LEMMA OnlyIs ==
  ASSUME NEW seq, Once(seq), NEW set
  PROVE  /\ Once(Only(seq, set))
         /\ ToSet(Only(seq, set)) = ToSet(seq) \cap set
         /\ ToSet(seq) \subseteq set => Only(seq, set) = seq
<1>1. seq \in Seq(Window) /\ Len(seq) \in Nat /\ DOMAIN seq = 1 .. Len(seq)
  BY LenProperties DEF Once
<1> DEFINE n == Len(seq)
           kept == CHOOSE g : Collecting(g, seq, set, n)
<1>2. Only(seq, set) = kept[n]
  BY DEF Only, Collecting, Collect
<1>3. Collecting(kept, seq, set, n)
  BY <1>1, CollectingExists
<1> HIDE DEF kept
<1>4. \A i \in 0 .. n : kept[i] = IF i = 0 THEN << >> ELSE Collect(kept[i - 1], seq[i], set)
  BY <1>3 DEF Collecting
<1> DEFINE Bad == {i \in 0 .. n : ~ Collected(kept[i], seq, set, i)}
<1>5. Bad = {}
  <2> SUFFICES ASSUME Bad # {} PROVE FALSE
    OBVIOUS
  <2>1. PICK i \in Bad : \A j \in Bad : i <= j
    <3>1. Bad \in SUBSET Nat
      BY <1>1
    <3> HIDE DEF Bad
    <3>2. QED
      BY <3>1, LeastNumber
  <2>2. i \in 0 .. n /\ ~ Collected(kept[i], seq, set, i)
    BY <2>1
  <2>3. i # 0
    BY <1>4, <2>2, CollectedFirst
  <2>4. i - 1 \in 0 .. n /\ i - 1 < i /\ i \in 1 .. Len(seq)
    BY <1>1, <2>2, <2>3
  <2>5. Collected(kept[i - 1], seq, set, i - 1)
    BY <2>1, <2>4
  <2>6. Collected(Collect(kept[i - 1], seq[i], set), seq, set, i)
    BY <2>4, <2>5, CollectedNext
  <2>7. QED
    BY <1>4, <2>2, <2>3, <2>6
<1>6. PICK q : q = Only(seq, set)
  OBVIOUS
<1>7. Collected(q, seq, set, n)
  <2>1. n \in 0 .. n
    BY <1>1
  <2>2. QED
    BY <1>2, <1>5, <1>6, <2>1
<1>8. Once(q)
  BY <1>7 DEF Collected
<1>9. ToSet(q) = ToSet(seq) \cap set
  BY <1>1, <1>7 DEF Collected, ToSet
<1>10. ASSUME ToSet(seq) \subseteq set
       PROVE  q = seq
  <2>1. Len(q) = n /\ \A b \in 1 .. n : q[b] = seq[b]
    BY <1>1, <1>7, <1>10 DEF Collected, ToSet
  <2>2. q \in Seq(Window)
    BY <1>8 DEF Once
  <2>3. QED
    BY <1>1, <2>1, <2>2, SeqEqual
<1>11. QED
  BY <1>6, <1>8, <1>9, <1>10

-----------------------------------------------------------------------------
(* The functions of the handlers *)

LEMMA Typed ==
  /\ OutputCount \in Nat \ {0} /\ Output = 0 .. OutputCount - 1 /\ 0 \in Output
  /\ Nobody \notin Window /\ Output \subseteq Int
BY OutputAssumption, NobodyAssumption DEF Output

LEMMA SaneFields ==
  ASSUME NEW s, Sane(s)
  PROVE  /\ s.order \in Seq(Window) /\ Once(s.order) /\ s.column \in [Window -> Int]
         /\ s.slot \in [Output -> Nat] /\ s.cursor \in Output
         /\ s.focused \in Window \cup {Nobody}
         /\ Windows(s) \subseteq Window /\ Len(s.order) \in Nat
         /\ DOMAIN s.order = 1 .. Len(s.order)
<1>1. s.order \in Seq(Window)
  BY DEF Sane, StripState
<1>2. Len(s.order) \in Nat /\ DOMAIN s.order = 1 .. Len(s.order)
  BY <1>1, LenProperties
<1>3. Windows(s) \subseteq Window
  BY <1>1, <1>2, ElementOfSeq DEF Windows, ToSet
<1>4. QED
  BY <1>1, <1>2, <1>3 DEF Sane, StripState

LEMMA OutputTyped ==
  ASSUME NEW s, Sane(s), NEW w \in Window
  PROVE  OutputOf(s, w) \in Output
BY SaneFields DEF OutputOf

LEMMA StripIs ==
  ASSUME NEW s, Sane(s), NEW o
  PROVE  /\ Once(Strip(s, o))
         /\ ToSet(Strip(s, o)) = {w \in Windows(s) : OutputOf(s, w) = o}
         /\ Len(Strip(s, o)) \in Nat /\ DOMAIN Strip(s, o) = 1 .. Len(Strip(s, o))
<1> DEFINE set == {w \in Window : OutputOf(s, w) = o}
<1>1. Windows(s) \subseteq Window /\ Once(s.order)
  BY SaneFields
<1>2. Strip(s, o) = Only(s.order, set)
  BY DEF Strip
<1>3. Windows(s) = ToSet(s.order)
  BY DEF Windows
<1>4. Once(Only(s.order, set)) /\ ToSet(Only(s.order, set)) = Windows(s) \cap set
  BY <1>1, <1>3, OnlyIs
<1>5. Once(Strip(s, o)) /\ ToSet(Strip(s, o)) = Windows(s) \cap set
  BY <1>2, <1>4
<1>6. Len(Strip(s, o)) \in Nat /\ DOMAIN Strip(s, o) = 1 .. Len(Strip(s, o))
  BY <1>5, LenProperties DEF Once
<1>7. QED
  BY <1>1, <1>5, <1>6

LEMMA IndexIs ==
  ASSUME NEW strip, Once(strip)
  PROVE  /\ \A w \in ToSet(strip) : Index(strip, w) \in DOMAIN strip /\ strip[Index(strip, w)] = w
         /\ \A i \in DOMAIN strip : Index(strip, strip[i]) = i
<1>1. ASSUME NEW w \in ToSet(strip)
      PROVE  Index(strip, w) \in DOMAIN strip /\ strip[Index(strip, w)] = w
  BY DEF ToSet, Index
<1>2. ASSUME NEW i \in DOMAIN strip
      PROVE  Index(strip, strip[i]) = i
  BY <1>1 DEF ToSet, Once
<1>3. QED
  BY <1>1, <1>2

LEMMA WithinTyped ==
  ASSUME NEW i \in Int, NEW n \in Nat \ {0}
  PROVE  /\ Within(i, n) \in 0 .. n - 1
         /\ i \in 0 .. n - 1 => Within(i, n) = i
BY DEF Within

LEMMA ArrangeOutputSane ==
  ASSUME NEW s, Sane(s), NEW o \in Output
  PROVE  /\ Sane(ArrangeOutput(s, o))
         /\ ArrangeOutput(s, o).order = s.order /\ ArrangeOutput(s, o).focused = s.focused
<1> DEFINE strip == Strip(s, o)
           shown == Within(s.slot[o], Len(strip))
           places == [w \in Window |-> IF Contains(strip, w) THEN o + Index(strip, w) - 1 - shown
                                                             ELSE s.column[w]]
           slots == [s.slot EXCEPT ![o] = shown]
           r == ArrangeOutput(s, o)
<1>1. /\ Once(strip) /\ Len(strip) \in Nat /\ DOMAIN strip = 1 .. Len(strip)
      /\ strip \in Seq(Window)
  BY StripIs DEF Once
<1>2. CASE strip = << >>
  BY <1>2 DEF ArrangeOutput
<1>3. CASE strip # << >>
  <2>1. r = [s EXCEPT !.slot = slots, !.column = places]
    BY <1>3, SaneFields DEF ArrangeOutput, Sane, StripState
  <2>2. Len(strip) \in Nat \ {0}
    BY <1>1, <1>3, EmptySeq
  <2>3. shown \in 0 .. Len(strip) - 1 /\ shown \in Nat
    <3>1. s.slot[o] \in Int
      BY SaneFields
    <3>2. shown \in 0 .. Len(strip) - 1
      BY <2>2, <3>1, WithinTyped
    <3> HIDE DEF shown, strip
    <3>3. QED
      BY <2>2, <3>2
  <2>4. \A w \in Window : Contains(strip, w) => Index(strip, w) \in Int
    <3>1. \A w \in Window : Contains(strip, w) => w \in ToSet(strip)
      BY <1>1 DEF Contains, ToSet
    <3>2. \A w \in ToSet(strip) : Index(strip, w) \in DOMAIN strip
      BY <1>1, IndexIs
    <3>3. QED
      BY <1>1, <3>1, <3>2
  <2>5. o \in Int /\ \A w \in Window : s.column[w] \in Int
    BY Typed, SaneFields
  <2> HIDE DEF strip, shown
  <2>6. \A w \in Window : Contains(strip, w) => o + Index(strip, w) - 1 - shown \in Int
    BY <2>3, <2>4, <2>5
  <2>7. places \in [Window -> Int] /\ slots \in [Output -> Nat]
    BY <2>3, <2>5, <2>6, SaneFields
  <2> HIDE DEF places, slots, r
  <2>8. r \in StripState /\ r.order = s.order /\ r.focused = s.focused
    BY <2>1, <2>7 DEF Sane, StripState
  <2>9. QED
    BY <2>8 DEF Sane, Windows, r
<1>4. QED
  BY <1>2, <1>3

Arranging(g, s, n) ==
  g = [i \in 0 .. n |-> IF i = 0 THEN s ELSE ArrangeOutput(g[i - 1], OutputList[i])]

(* The outputs take turns, as many as there are. *)
LEMMA ArrangingExists ==
  ASSUME NEW s, NEW n \in Nat
  PROVE  \E g : Arranging(g, s, n)
<1> DEFINE Bad == {c \in Nat : ~ \E g : Arranging(g, s, c)}
<1> SUFFICES ASSUME Bad # {} PROVE FALSE
  OBVIOUS
<1>1. PICK c \in Bad : \A d \in Bad : c <= d
  BY LeastNumber
<1>2. c # 0
  <2>1. Arranging([i \in 0 .. 0 |-> s], s, 0)
    BY DEF Arranging
  <2>2. QED
    BY <2>1
<1>3. c - 1 \in Nat /\ c - 1 \notin Bad
  BY <1>1, <1>2
<1>4. PICK g : Arranging(g, s, c - 1)
  BY <1>3
<1> DEFINE next(i) == ArrangeOutput(g[i - 1], OutputList[i])
           h == [i \in 0 .. c |-> IF i < c THEN g[i] ELSE next(i)]
<1>5. \A i \in 0 .. c - 1 : g[i] = IF i = 0 THEN s ELSE next(i)
  BY <1>4 DEF Arranging
<1>6. \A i \in 1 .. c : h[i - 1] = g[i - 1]
  BY <1>1
<1>7. Arranging(h, s, c)
  <2>1. ASSUME NEW i \in 0 .. c
        PROVE  h[i] = IF i = 0 THEN s ELSE ArrangeOutput(h[i - 1], OutputList[i])
    <3>1. CASE i = 0
      <4>1. i < c /\ i \in 0 .. c - 1
        BY <1>1, <1>2, <3>1
      <4>2. h[i] = g[i]
        BY <4>1
      <4>3. QED
        BY <1>5, <3>1, <4>1, <4>2
    <3>2. CASE i # 0
      <4>1. h[i] = next(i)
        BY <1>1, <1>5, <3>2
      <4>2. i \in 1 .. c
        BY <1>1, <3>2
      <4> HIDE DEF h
      <4>3. QED
        BY <1>6, <3>2, <4>1, <4>2
    <3>3. QED
      BY <3>1, <3>2
  <2>2. QED
    BY <2>1 DEF Arranging
<1>8. QED
  BY <1>1, <1>7

LEMMA ArrangeIsLast ==
  ASSUME NEW s
  PROVE  \E g : g[OutputCount] = Arrange(s) /\
           \A i \in 0 .. OutputCount :
             g[i] = IF i = 0 THEN s ELSE ArrangeOutput(g[i - 1], OutputList[i])
<1> DEFINE after == CHOOSE g : Arranging(g, s, OutputCount)
<1>1. Arrange(s) = after[OutputCount]
  BY DEF Arrange, Arranging
<1>2. Arranging(after, s, OutputCount)
  BY Typed, ArrangingExists
<1> HIDE DEF after
<1>3. \A i \in 0 .. OutputCount :
        after[i] = IF i = 0 THEN s ELSE ArrangeOutput(after[i - 1], OutputList[i])
  BY <1>2 DEF Arranging
<1>4. QED
  BY <1>1, <1>3

LEMMA ArrangeSane ==
  ASSUME NEW s, Sane(s)
  PROVE  /\ Sane(Arrange(s))
         /\ Arrange(s).order = s.order /\ Arrange(s).focused = s.focused
<1> DEFINE Kept(r) == Sane(r) /\ r.order = s.order /\ r.focused = s.focused
<1>1. PICK g : /\ g[OutputCount] = Arrange(s)
               /\ \A i \in 0 .. OutputCount :
                    g[i] = IF i = 0 THEN s ELSE ArrangeOutput(g[i - 1], OutputList[i])
  BY ArrangeIsLast
<1>2. Kept(s)
  OBVIOUS
<1>3. \A r, o : Kept(r) /\ o \in Output => Kept(ArrangeOutput(r, o))
  BY ArrangeOutputSane
<1> HIDE DEF Kept
<1> DEFINE Bad == {i \in 0 .. OutputCount : ~ Kept(g[i])}
<1>4. Bad = {}
  <2> SUFFICES ASSUME Bad # {} PROVE FALSE
    OBVIOUS
  <2>1. PICK i \in Bad : \A j \in Bad : i <= j
    <3>1. Bad \in SUBSET Nat
      BY Typed
    <3> HIDE DEF Bad
    <3>2. QED
      BY <3>1, LeastNumber
  <2>2. i \in 0 .. OutputCount /\ ~ Kept(g[i])
    BY <2>1
  <2>3. i # 0
    BY <1>1, <1>2, <2>2
  <2>4. i - 1 \in 0 .. OutputCount /\ i - 1 < i
    BY Typed, <2>2, <2>3
  <2>5. Kept(g[i - 1])
    BY <2>1, <2>4
  <2>6. OutputList[i] \in Output
    BY Typed, <2>2, <2>3 DEF OutputList
  <2>7. QED
    BY <1>1, <1>3, <2>2, <2>3, <2>5, <2>6
<1>5. Kept(g[OutputCount])
  <2>1. OutputCount \in 0 .. OutputCount
    BY Typed
  <2>2. QED
    BY <1>4, <2>1
<1>6. QED
  BY <1>1, <1>5 DEF Kept

LEMMA SyncSane ==
  ASSUME NEW s, Sane(s)
  PROVE  /\ Sane(SyncToFocused(s))
         /\ SyncToFocused(s).order = s.order /\ SyncToFocused(s).focused = s.focused
         /\ SyncToFocused(s).column = s.column
<1> DEFINE out == OutputOf(s, s.focused)
           r == SyncToFocused(s)
<1>1. CASE s.focused \notin Windows(s)
  BY <1>1 DEF SyncToFocused
<1>2. CASE s.focused \in Windows(s)
  <2>1. out \in Output
    BY <1>2, OutputTyped, SaneFields
  <2>2. s.focused \in ToSet(Strip(s, out))
    BY <1>2, StripIs
  <2> DEFINE i == Index(Strip(s, out), s.focused) - 1
  <2>3. i \in Nat
    <3>1. Index(Strip(s, out), s.focused) \in DOMAIN Strip(s, out)
      BY <2>2, StripIs, IndexIs
    <3>2. \A m \in Nat : \A x \in 1 .. m : x - 1 \in Nat
      OBVIOUS
    <3>3. QED
      BY <3>1, <3>2, StripIs
  <2>4. r = [s EXCEPT !.slot[out] = i]
    BY <1>2 DEF SyncToFocused
  <2> HIDE DEF out, i, r
  <2>5. r = [s EXCEPT !.slot = [s.slot EXCEPT ![out] = i]]
    BY <2>4, SaneFields DEF Sane, StripState
  <2>6. [s.slot EXCEPT ![out] = i] \in [Output -> Nat]
    BY <2>3, SaneFields
  <2>7. r \in StripState /\ r.order = s.order /\ r.focused = s.focused /\ r.column = s.column
    BY <2>5, <2>6 DEF Sane, StripState
  <2>8. QED
    BY <2>7 DEF Sane, Windows, r
<1>3. QED
  BY <1>1, <1>2

LEMMA FocusSane ==
  ASSUME NEW s, Sane(s), NEW w \in Windows(s)
  PROVE  /\ Sane(FocusWindow(s, w))
         /\ FocusWindow(s, w).order = s.order /\ FocusWindow(s, w).column = s.column
<1> DEFINE r == [s EXCEPT !.focused = w]
<1>1. w \in Window
  BY SaneFields
<1>2. r \in StripState /\ r.order = s.order /\ r.column = s.column
  BY <1>1 DEF Sane, StripState
<1>3. r.focused = w
  BY DEF Sane, StripState
<1> HIDE DEF r
<1>4. Sane(r)
  BY <1>2, <1>3 DEF Sane, Windows
<1>5. FocusWindow(s, w) = IF s.focused = w THEN s ELSE SyncToFocused(r)
  BY DEF FocusWindow, r
<1>6. QED
  BY <1>2, <1>4, <1>5, SyncSane

(* Two windows of a sequence trade places. *)
LEMMA SwapSane ==
  ASSUME NEW s, Sane(s), s.focused \in Windows(s), NEW sign \in {-1, 1}
  PROVE  Sane(SwapWithNext(s, sign)) /\ SwapWithNext(s, sign).column = s.column
<1> DEFINE f == s.focused
           strip == Strip(s, OutputOf(s, f))
           j == Index(strip, f) + sign
           Exchange(w) == CASE w = f -> strip[j] [] w = strip[j] -> f [] OTHER -> w
           swapped == [i \in DOMAIN s.order |-> Exchange(s.order[i])]
           r == SwapWithNext(s, sign)
<1>1. CASE j \notin DOMAIN strip
  BY <1>1 DEF SwapWithNext
<1>2. CASE j \in DOMAIN strip
  <2>1. r = [s EXCEPT !.order = swapped]
    BY <1>2 DEF SwapWithNext, Sane, StripState
  <2>2. PICK v : v = strip[j]
    OBVIOUS
  <2>3. v \in Windows(s)
    BY <1>2, <2>2, StripIs DEF ToSet
  <2>4. PICK n \in Nat : n = Len(s.order) /\ DOMAIN s.order = 1 .. n
    BY SaneFields
  <2>5. /\ s.order \in Seq(Window) /\ Windows(s) \subseteq Window
        /\ \A a, b \in DOMAIN s.order : s.order[a] = s.order[b] => a = b
        /\ \A a \in DOMAIN s.order : s.order[a] \in Windows(s)
        /\ \A w \in Windows(s) : \E a \in DOMAIN s.order : s.order[a] = w
    BY SaneFields DEF Once, Windows, ToSet
  <2>6. \A w : Exchange(w) = IF w = f THEN v ELSE IF w = v THEN f ELSE w
    BY <2>2
  <2> HIDE DEF f, strip, j, Exchange, r
  <2>7. f \in Windows(s)
    BY DEF f
  <2>8. \A w \in Windows(s) : Exchange(w) \in Windows(s) /\ Exchange(Exchange(w)) = w
    BY <2>3, <2>6, <2>7
  <2>9. swapped \in [1 .. n -> Window]
    BY <2>4, <2>5, <2>8
  <2>10. swapped \in Seq(Window) /\ DOMAIN swapped = DOMAIN s.order
    BY <2>4, <2>9
  <2>11. \A a, b \in DOMAIN swapped : swapped[a] = swapped[b] => a = b
    BY <2>5, <2>8, <2>10
  <2>12. \A w \in Windows(s) : \E a \in DOMAIN swapped : swapped[a] = w
    <3>1. ASSUME NEW w \in Windows(s)
          PROVE  \E a \in DOMAIN swapped : swapped[a] = w
      <4>1. PICK a \in DOMAIN s.order : s.order[a] = Exchange(w)
        BY <2>5, <2>8
      <4>2. swapped[a] = w
        BY <2>8, <4>1
      <4>3. QED
        BY <2>10, <4>2
    <3>2. QED
      BY <3>1
  <2> HIDE DEF swapped
  <2>13. r \in StripState /\ r.order = swapped /\ r.focused = s.focused
         /\ r.column = s.column
    BY <2>1, <2>10 DEF Sane, StripState
  <2>14. s.focused \in Windows(r)
    BY <2>7, <2>12, <2>13 DEF Windows, ToSet, f
  <2>15. QED
    BY <2>10, <2>11, <2>13, <2>14 DEF Sane, Once, r
<1>3. QED
  BY <1>1, <1>2

-----------------------------------------------------------------------------
(* One output's turn *)

LEMMA TurnIs ==
  ASSUME NEW s, Sane(s), NEW o \in Output
  PROVE  LET r == ArrangeOutput(s, o)
             strip == Strip(s, o)
         IN  /\ r.cursor = s.cursor
             /\ \A p \in Output : p # o => r.slot[p] = s.slot[p]
             /\ \A w \in Window : ~ (w \in Windows(s) /\ OutputOf(s, w) = o) =>
                  r.column[w] = s.column[w]
             /\ \A w \in Windows(s) : OutputOf(s, w) = o =>
                  r.column[w] = o + Index(strip, w) - 1 - Within(s.slot[o], Len(strip))
<1> DEFINE strip == Strip(s, o)
           shown == Within(s.slot[o], Len(strip))
           places == [w \in Window |-> IF Contains(strip, w) THEN o + Index(strip, w) - 1 - shown
                                                             ELSE s.column[w]]
           slots == [s.slot EXCEPT ![o] = shown]
           r == ArrangeOutput(s, o)
<1>1. ToSet(strip) = {w \in Windows(s) : OutputOf(s, w) = o} /\ Windows(s) \subseteq Window
  BY StripIs, SaneFields
<1>2. \A w : Contains(strip, w) <=> w \in ToSet(strip)
  <2>1. DOMAIN strip = 1 .. Len(strip)
    BY StripIs
  <2>2. QED
    BY <2>1 DEF Contains, ToSet
<1>3. CASE strip = << >>
  <2>1. r = s
    BY <1>3 DEF ArrangeOutput
  <2>2. ToSet(strip) = {}
    BY <1>3 DEF ToSet
  <2>3. \A w \in Windows(s) : OutputOf(s, w) # o
    BY <1>1, <2>2
  <2>4. QED
    BY <2>1, <2>3
<1>4. CASE strip # << >>
  <2>1. r = [s EXCEPT !.slot = slots, !.column = places]
    BY <1>4, SaneFields DEF ArrangeOutput, Sane, StripState
  <2> HIDE DEF strip, shown
  <2>2. \A p \in Output : p # o => slots[p] = s.slot[p]
    BY SaneFields
  <2>3. \A w \in Window : ~ (w \in Windows(s) /\ OutputOf(s, w) = o) => places[w] = s.column[w]
    BY <1>1, <1>2
  <2>4. \A w \in Windows(s) : OutputOf(s, w) = o => places[w] = o + Index(strip, w) - 1 - shown
    BY <1>1, <1>2
  <2> HIDE DEF places, slots, r
  <2>5. r.cursor = s.cursor /\ r.slot = slots /\ r.column = places
    BY <2>1 DEF Sane, StripState
  <2>6. QED
    BY <2>2, <2>3, <2>4, <2>5 DEF r, strip, shown
<1>5. QED
  BY <1>3, <1>4

(* If the output has windows they stand in a row without gaps, and the     *)
(* output shows one of them.                                               *)
LEMMA RowIs ==
  ASSUME NEW s, Sane(s), NEW o \in Output, NEW v \in Windows(s), OutputOf(s, v) = o
  PROVE  \E lo, hi \in Int :
            /\ lo <= o /\ o <= hi
            /\ s.slot[o] = 0 => lo = o
            /\ \A w \in Windows(s) : OutputOf(s, w) = o =>
                 ArrangeOutput(s, o).column[w] \in lo .. hi
            /\ \A k \in lo .. hi : Shows(ArrangeOutput(s, o), k)
<1> DEFINE strip == Strip(s, o)
           shown == Within(s.slot[o], Len(strip))
           r == ArrangeOutput(s, o)
<1>1. PICK n \in Nat : n = Len(strip) /\ DOMAIN strip = 1 .. n
  BY StripIs
<1>2. Once(strip) /\ ToSet(strip) = {w \in Windows(s) : OutputOf(s, w) = o}
  BY StripIs
<1>3. \A w \in Windows(s) : OutputOf(s, w) = o =>
        r.column[w] = o + Index(strip, w) - 1 - shown
  BY TurnIs
<1>4. Windows(r) = Windows(s)
  BY ArrangeOutputSane DEF Windows
<1>5. /\ \A w \in ToSet(strip) : Index(strip, w) \in 1 .. n
      /\ \A i \in 1 .. n : Index(strip, strip[i]) = i /\ strip[i] \in ToSet(strip)
  BY <1>1, <1>2, IndexIs DEF ToSet
<1>6. n # 0
  <2>1. v \in ToSet(strip)
    BY <1>2
  <2> HIDE DEF strip
  <2>2. QED
    BY <1>5, <2>1
<1>7. s.slot[o] \in Nat /\ o \in Int
  BY SaneFields, Typed
<1>8. shown \in 0 .. n - 1 /\ (s.slot[o] = 0 => shown = 0)
  <2>1. Within(s.slot[o], n) \in 0 .. n - 1
    BY <1>6, <1>7, WithinTyped
  <2>2. s.slot[o] = 0 => Within(s.slot[o], n) = 0
    BY <1>6, <1>7 DEF Within
  <2> HIDE DEF strip
  <2>3. QED
    BY <1>1, <2>1, <2>2
<1> HIDE DEF strip, shown, r
<1> DEFINE lo == o - shown
           hi == o + n - 1 - shown
<1>9. lo \in Int /\ hi \in Int /\ lo <= o /\ o <= hi /\ (s.slot[o] = 0 => lo = o)
  BY <1>7, <1>8
<1>10. \A w \in Windows(s) : OutputOf(s, w) = o => r.column[w] \in lo .. hi
  <2>1. ASSUME NEW w \in Windows(s), OutputOf(s, w) = o
        PROVE  r.column[w] \in lo .. hi
    <3>1. PICK i \in 1 .. n : i = Index(strip, w)
      BY <1>2, <1>5, <2>1
    <3>2. r.column[w] = o + i - 1 - shown
      BY <1>3, <2>1, <3>1
    <3>3. QED
      BY <1>7, <1>8, <3>2
  <2>2. QED
    BY <2>1
<1>11. ASSUME NEW k \in lo .. hi
       PROVE  Shows(r, k)
  <2>1. PICK i \in 1 .. n : k = o + i - 1 - shown
    <3>1. k - o + 1 + shown \in 1 .. n /\ k = o + (k - o + 1 + shown) - 1 - shown
      BY <1>7, <1>8
    <3>2. QED
      BY <3>1
  <2>2. Index(strip, strip[i]) = i /\ strip[i] \in ToSet(strip)
    BY <1>5
  <2>3. strip[i] \in Windows(s) /\ OutputOf(s, strip[i]) = o
    BY <1>2, <2>2
  <2>4. r.column[strip[i]] = k
    BY <1>3, <2>1, <2>2, <2>3
  <2>5. QED
    BY <1>4, <2>3, <2>4 DEF Shows
<1> HIDE DEF lo, hi
<1>12. QED
  BY <1>9, <1>10, <1>11 DEF r

(* A turn leaves what belongs to other outputs where it is.                *)
LEMMA TurnKeeps ==
  ASSUME NEW s, Sane(s), NEW o \in Output
  PROVE  LET r == ArrangeOutput(s, o)
         IN  /\ \A p \in Output : Shows(s, p) => Shows(r, p)
             /\ \A w \in Windows(s) : OutputOf(s, w) = o => Shows(r, o)
             /\ o = s.cursor \/ NoGaps(s) => NoGaps(r)
<1> DEFINE r == ArrangeOutput(s, o)
<1>1. Windows(r) = Windows(s) /\ Windows(s) \subseteq Window
  BY ArrangeOutputSane, SaneFields DEF Windows
<1>2. \A w \in Windows(s) : OutputOf(s, w) # o => r.column[w] = s.column[w]
  BY <1>1, TurnIs
<1>3. ASSUME NEW w \in Windows(s), OutputOf(s, w) = o
      PROVE  Shows(r, o)
  <2>1. PICK lo, hi \in Int : lo <= o /\ o <= hi /\ \A k \in lo .. hi : Shows(r, k)
    BY <1>3, RowIs
  <2>2. o \in lo .. hi
    BY <2>1, Typed
  <2>3. QED
    BY <2>1, <2>2
<1>4. ASSUME NEW p \in Output, Shows(s, p)
      PROVE  Shows(r, p)
  <2>1. PICK w \in Windows(s) : s.column[w] = p
    BY <1>4 DEF Shows
  <2>2. OutputOf(s, w) = p
    BY <2>1 DEF OutputOf
  <2>3. CASE p = o
    BY <1>3, <2>2, <2>3
  <2>4. CASE p # o
    <3>1. r.column[w] = p
      BY <1>2, <2>1, <2>2, <2>4
    <3>2. QED
      BY <1>1, <3>1 DEF Shows
  <2>5. QED
    BY <2>3, <2>4
<1>5. ASSUME o = s.cursor \/ NoGaps(s), NEW w \in Windows(r),
             NEW k \in r.column[w] .. -1 \cup OutputCount .. r.column[w]
      PROVE  Shows(r, k)
  <2>1. w \in Windows(s) /\ w \in Window /\ s.column[w] \in Int
    BY <1>1, SaneFields
  <2>2. CASE OutputOf(s, w) = o
    <3>1. PICK lo, hi \in Int : /\ lo <= o /\ o <= hi
                                /\ r.column[w] \in lo .. hi
                                /\ \A j \in lo .. hi : Shows(r, j)
      BY <2>1, <2>2, RowIs
    <3>2. OutputCount \in Int /\ o >= 0 /\ o < OutputCount /\ o \in Int
      BY Typed
    <3> HIDE DEF r
    <3>3. k \in lo .. hi
      BY <1>5, <3>1, <3>2
    <3>4. QED
      BY <3>1, <3>3
  <2>3. CASE OutputOf(s, w) # o
    <3>1. r.column[w] = s.column[w]
      BY <1>2, <2>1, <2>3
    <3>2. s.column[w] \notin Output
      <4>1. OutputCount \in Int /\ Output = 0 .. OutputCount - 1
        BY Typed
      <4> HIDE DEF r
      <4>2. QED
        BY <1>5, <2>1, <3>1, <4>1
    <3>3. s.cursor # o
      BY <2>3, <3>2 DEF OutputOf
    <3>4. Shows(s, k)
      BY <1>5, <2>1, <3>1, <3>3 DEF NoGaps
    <3>5. k \notin Output
      <4>1. OutputCount \in Int /\ Output = 0 .. OutputCount - 1
        BY Typed
      <4> HIDE DEF r
      <4>2. QED
        BY <1>5, <2>1, <3>1, <4>1
    <3>6. PICK v \in Windows(s) : s.column[v] = k
      BY <3>4 DEF Shows
    <3>7. OutputOf(s, v) # o
      BY <3>3, <3>5, <3>6 DEF OutputOf
    <3>8. r.column[v] = k
      BY <1>2, <3>6, <3>7
    <3>9. QED
      BY <1>1, <3>6, <3>8 DEF Shows
  <2>4. QED
    BY <2>2, <2>3
<1>6. o = s.cursor \/ NoGaps(s) => NoGaps(r)
  BY <1>5 DEF NoGaps
<1>7. QED
  BY <1>3, <1>4, <1>6

-----------------------------------------------------------------------------
(* All turns *)

(* What holds before the first turn, and after a turn if it did before it, *)
(* holds after the last.                                                   *)
LEMMA Turns ==
  ASSUME NEW good, 0 \in good, \A i \in 1 .. OutputCount : i - 1 \in good => i \in good
  PROVE  OutputCount \in good
<1> DEFINE Bad == {i \in 0 .. OutputCount : i \notin good}
<1>1. Bad = {}
  <2> SUFFICES ASSUME Bad # {} PROVE FALSE
    OBVIOUS
  <2>1. PICK i \in Bad : \A j \in Bad : i <= j
    <3>1. Bad \in SUBSET Nat
      BY Typed
    <3> HIDE DEF Bad
    <3>2. QED
      BY <3>1, LeastNumber
  <2>2. i \in 1 .. OutputCount /\ i - 1 \in 0 .. OutputCount /\ ~ (i <= i - 1)
    BY Typed, <2>1
  <2>3. i - 1 \in good
    BY <2>1, <2>2
  <2>4. QED
    BY <2>1, <2>2, <2>3
<1>2. OutputCount \in 0 .. OutputCount
  BY Typed
<1>3. QED
  BY <1>1, <1>2

(* The turn of output o is turn OutputCount - o.                           *)
LEMMA TurnOf ==
  /\ \A i \in 1 .. OutputCount : OutputList[i] \in Output /\ OutputList[i] = OutputCount - i
  /\ \A o \in Output : OutputCount - o \in 1 .. OutputCount
BY Typed DEF OutputList

LEMMA ArrangeShows ==
  ASSUME NEW s, Sane(s)
  PROVE  /\ \A o \in Output : Shows(s, o) => Shows(Arrange(s), o)
         /\ \A w \in Windows(s) : Shows(Arrange(s), OutputOf(s, w))
         /\ NoGaps(Arrange(s))
<1>1. PICK g : /\ g[OutputCount] = Arrange(s)
               /\ \A i \in 0 .. OutputCount :
                    g[i] = IF i = 0 THEN s ELSE ArrangeOutput(g[i - 1], OutputList[i])
  BY ArrangeIsLast
<1> DEFINE Kept(r) == Sane(r) /\ Windows(r) = Windows(s) /\ r.cursor = s.cursor
           Waits(i, w) == OutputCount - OutputOf(s, w) > i
           Done(i, r) ==
             /\ \A o \in Output : Shows(s, o) => Shows(r, o)
             /\ \A w \in Windows(s) : IF Waits(i, w) THEN r.column[w] = s.column[w]
                                                     ELSE Shows(r, OutputOf(s, w))
             /\ OutputCount - s.cursor > i \/ NoGaps(r)
           good == {i \in 0 .. OutputCount : Kept(g[i]) /\ Done(i, g[i])}
<1>2. Windows(s) \subseteq Window /\ s.cursor \in Output
      /\ \A w \in Windows(s) : OutputOf(s, w) \in Output
  BY SaneFields, OutputTyped
<1>3. 0 \in good
  <2>1. \A o \in Output : OutputCount - o > 0
    BY Typed
  <2>2. g[0] = s /\ 0 \in 0 .. OutputCount
    BY Typed, <1>1
  <2>3. Done(0, s)
    BY <1>2, <2>1
  <2>4. QED
    BY <2>2, <2>3
<1>4. ASSUME NEW i \in 1 .. OutputCount, i - 1 \in good
      PROVE  i \in good
  <2>1. PICK o \in Output : o = OutputList[i] /\ o = OutputCount - i
    BY TurnOf
  <2>2. PICK q : q = g[i - 1]
    OBVIOUS
  <2>3. PICK r : r = ArrangeOutput(q, o)
    OBVIOUS
  <2>4. g[i] = r /\ i \in 0 .. OutputCount /\ i # 0
    <3>1. i \in 0 .. OutputCount /\ i # 0
      BY Typed
    <3>2. g[i] = ArrangeOutput(g[i - 1], OutputList[i])
      BY <1>1, <3>1
    <3>3. QED
      BY <2>1, <2>2, <2>3, <3>1, <3>2
  <2>5. Kept(q) /\ Done(i - 1, q)
    BY <1>4, <2>2
  <2>6. Kept(r)
    BY <2>3, <2>5, ArrangeOutputSane, TurnIs DEF Windows
  <2>7. /\ \A p \in Output : Shows(q, p) => Shows(r, p)
        /\ \A w \in Windows(s) : OutputOf(q, w) = o => Shows(r, o)
        /\ o = s.cursor \/ NoGaps(q) => NoGaps(r)
    BY <2>3, <2>5, TurnKeeps
  <2>8. \A w \in Windows(s) : OutputOf(q, w) # o => r.column[w] = q.column[w]
    BY <1>2, <2>3, <2>5, TurnIs
  <2>9. \A p \in Output : /\ OutputCount - p > i => OutputCount - p > i - 1 /\ p # o
                          /\ ~ (OutputCount - p > i) => ~ (OutputCount - p > i - 1) \/ p = o
                          /\ p = o => OutputCount - p > i - 1
    BY Typed, <2>1
  <2>10. \A p \in Output : Shows(s, p) => Shows(r, p)
    BY <2>5, <2>7
  <2>11. ASSUME NEW w \in Windows(s)
         PROVE  IF Waits(i, w) THEN r.column[w] = s.column[w] ELSE Shows(r, OutputOf(s, w))
    <3>1. PICK p \in Output : p = OutputOf(s, w)
      BY <1>2
    <3>2. OutputCount - p > i - 1 => q.column[w] = s.column[w]
      BY <2>5, <3>1
    <3>3. q.column[w] = s.column[w] => OutputOf(q, w) = p
      BY <2>5, <3>1 DEF OutputOf
    <3>4. CASE OutputCount - p > i
      BY <2>8, <2>9, <3>1, <3>2, <3>3, <3>4
    <3>5. CASE ~ (OutputCount - p > i)
      <4>1. CASE p = o
        BY <2>7, <2>9, <3>1, <3>2, <3>3, <3>5, <4>1
      <4>2. CASE p # o
        BY <2>5, <2>7, <2>9, <3>1, <3>5, <4>2
      <4>3. QED
        BY <4>1, <4>2
    <3>6. QED
      BY <3>4, <3>5
  <2>12. OutputCount - s.cursor > i \/ NoGaps(r)
    BY <1>2, <2>5, <2>7, <2>9
  <2>13. Done(i, r)
    BY <2>10, <2>11, <2>12
  <2>14. QED
    BY <2>4, <2>6, <2>13
<1>5. OutputCount \in good
  <2> HIDE DEF good
  <2>1. QED
    BY <1>3, <1>4, Turns
<1>6. Done(OutputCount, Arrange(s))
  BY <1>1, <1>5
<1>7. \A o \in Output : ~ (OutputCount - o > OutputCount)
  BY Typed
<1>8. QED
  BY <1>2, <1>6, <1>7

(* When every window is on an output and only the slot of output f is not  *)
(* 0, the strips to the right of f run to the right, so f's own strip is   *)
(* whole when its turn comes: unless f takes in what runs off the screen.  *)
LEMMA EnterLays ==
  ASSUME NEW s, Sane(s), s.column \in [Window -> Output],
         NEW v \in Windows(s), NEW f \in Output, s.column[v] = f,
         s.slot[f] = Index(Strip(s, f), v) - 1,
         \A o \in Output : o # f => s.slot[o] = 0,
         f # s.cursor \/ f = OutputCount - 1
  PROVE  Arrange(s).column[v] = f
<1>1. PICK g : /\ g[OutputCount] = Arrange(s)
               /\ \A i \in 0 .. OutputCount :
                    g[i] = IF i = 0 THEN s ELSE ArrangeOutput(g[i - 1], OutputList[i])
  BY ArrangeIsLast
<1> DEFINE Kept(r) == Sane(r) /\ Windows(r) = Windows(s) /\ r.order = s.order
                      /\ r.cursor = s.cursor
           Before(i, r) ==
             /\ \A o \in Output : o < OutputCount - i => r.slot[o] = s.slot[o]
             /\ \A w \in Window : IF s.column[w] <= f THEN r.column[w] = s.column[w]
                                                      ELSE r.column[w] > f
           Done(i, r) == IF i < OutputCount - f THEN Before(i, r) ELSE r.column[v] = f
           good == {i \in 0 .. OutputCount : Kept(g[i]) /\ Done(i, g[i])}
<1>2. Windows(s) \subseteq Window /\ s.cursor \in Output /\ v \in Window
  BY SaneFields
<1>3. 0 \in good
  <2>1. 0 < OutputCount - f /\ 0 \in 0 .. OutputCount
    BY Typed
  <2>2. Before(0, s)
    <3>1. \A w \in Window : s.column[w] <= f \/ s.column[w] > f
      BY Typed
    <3>2. QED
      BY <3>1
  <2>3. QED
    BY <1>1, <2>1, <2>2
<1>4. ASSUME NEW i \in 1 .. OutputCount, i - 1 \in good
      PROVE  i \in good
  <2>1. PICK o \in Output : o = OutputList[i] /\ o = OutputCount - i
    BY TurnOf
  <2>2. PICK q : q = g[i - 1]
    OBVIOUS
  <2>3. PICK r : r = ArrangeOutput(q, o)
    OBVIOUS
  <2>4. g[i] = r /\ i \in 0 .. OutputCount /\ i # 0
    <3>1. i \in 0 .. OutputCount /\ i # 0
      BY Typed
    <3>2. g[i] = ArrangeOutput(g[i - 1], OutputList[i])
      BY <1>1, <3>1
    <3>3. QED
      BY <2>1, <2>2, <2>3, <3>1, <3>2
  <2>5. Kept(q) /\ Done(i - 1, q)
    BY <1>4, <2>2
  <2>6. Kept(r)
    BY <2>3, <2>5, ArrangeOutputSane, TurnIs DEF Windows
  <2>7. /\ \A p \in Output : p # o => r.slot[p] = q.slot[p]
        /\ \A w \in Window : ~ (w \in Windows(s) /\ OutputOf(q, w) = o) =>
             r.column[w] = q.column[w]
        /\ \A w \in Windows(s) : OutputOf(q, w) = o =>
             r.column[w] = o + Index(Strip(q, o), w) - 1 - Within(q.slot[o], Len(Strip(q, o)))
    BY <2>3, <2>5, TurnIs
  <2>8. CASE i < OutputCount - f
    <3>1. o > f /\ i - 1 < OutputCount - f
      BY Typed, <2>1, <2>8
    <3>2. Before(i - 1, q)
      BY <2>5, <3>1
    <3>3. \A p \in Output : p < OutputCount - i => p < OutputCount - (i - 1) /\ p # o
      BY Typed, <2>1
    <3>4. \A p \in Output : p < OutputCount - i => r.slot[p] = s.slot[p]
      BY <2>7, <3>2, <3>3
    <3>5. q.slot[o] = 0
      <4>1. o < OutputCount - (i - 1) /\ o # f
        BY Typed, <2>1, <3>1
      <4>2. QED
        BY <3>2, <4>1
    <3>6. ASSUME NEW w \in Window
          PROVE  IF s.column[w] <= f THEN r.column[w] = s.column[w] ELSE r.column[w] > f
      <4>1. s.column[w] \in Output
        OBVIOUS
      <4>2. CASE s.column[w] <= f
        <5>1. OutputOf(q, w) = s.column[w]
          BY <3>2, <4>1, <4>2 DEF OutputOf
        <5>2. OutputOf(q, w) # o
          BY Typed, <3>1, <4>1, <4>2, <5>1
        <5>3. QED
          BY <2>7, <3>2, <4>2, <5>2
      <4>3. CASE ~ (s.column[w] <= f)
        <5>1. q.column[w] > f
          BY <3>2, <4>3
        <5>2. CASE w \in Windows(s) /\ OutputOf(q, w) = o
          <6>1. PICK lo, hi \in Int : lo = o /\ r.column[w] \in lo .. hi
            BY <2>3, <2>5, <3>5, <5>2, RowIs
          <6>2. QED
            BY Typed, <3>1, <4>3, <6>1
        <5>3. CASE ~ (w \in Windows(s) /\ OutputOf(q, w) = o)
          BY <2>7, <4>3, <5>1, <5>3
        <5>4. QED
          BY <5>2, <5>3
      <4>4. QED
        BY <4>2, <4>3
    <3>7. Before(i, r)
      BY <3>4, <3>6
    <3>8. QED
      BY <2>4, <2>6, <2>8, <3>7
  <2>9. CASE i = OutputCount - f
    <3>1. o = f /\ i - 1 < OutputCount - f
      BY Typed, <2>1, <2>9
    <3>2. Before(i - 1, q)
      BY <2>5, <3>1
    <3>3. f < OutputCount - (i - 1)
      BY Typed, <2>9
    <3>4. q.slot[f] = s.slot[f]
      BY <3>2, <3>3
    <3>5. ASSUME NEW w \in Window
          PROVE  OutputOf(q, w) = f <=> OutputOf(s, w) = f
      <4>1. s.column[w] \in Output /\ OutputOf(s, w) = s.column[w]
        BY DEF OutputOf
      <4>2. CASE s.column[w] <= f
        <5>1. OutputOf(q, w) = s.column[w]
          BY <3>2, <4>1, <4>2 DEF OutputOf
        <5>2. QED
          BY <4>1, <5>1
      <4>3. CASE ~ (s.column[w] <= f)
        <5>1. q.column[w] > f
          BY <3>2, <4>3
        <5>2. f # OutputCount - 1
          BY Typed, <4>1, <4>3
        <5>3. s.cursor # f /\ q.cursor = s.cursor
          BY <2>5, <5>2
        <5>4. q.column[w] \in Int
          BY <2>5, SaneFields
        <5>5. q.column[w] # f
          BY Typed, <5>1, <5>4
        <5>6. OutputOf(q, w) # f
          BY <5>3, <5>5 DEF OutputOf
        <5>7. s.column[w] # f
          BY Typed, <4>1, <4>3
        <5>8. QED
          BY <4>1, <5>6, <5>7
      <4>4. QED
        BY <4>2, <4>3
    <3>6. Strip(q, f) = Strip(s, f)
      <4>1. {w \in Window : OutputOf(q, w) = f} = {w \in Window : OutputOf(s, w) = f}
        BY <3>5
      <4>2. QED
        BY <2>5, <4>1 DEF Strip
    <3>7. OutputOf(s, v) = f /\ OutputOf(q, v) = f
      BY <1>2, <3>5 DEF OutputOf
    <3>8. PICK x : x = Index(Strip(s, f), v)
      OBVIOUS
    <3>9. PICK n \in Nat : n = Len(Strip(s, f)) /\ x \in 1 .. n
      <4>1. v \in ToSet(Strip(s, f))
        BY <3>7, StripIs
      <4>2. Once(Strip(s, f)) /\ Len(Strip(s, f)) \in Nat
            /\ DOMAIN Strip(s, f) = 1 .. Len(Strip(s, f))
        BY StripIs
      <4>3. x \in DOMAIN Strip(s, f)
        BY <3>8, <4>1, <4>2, IndexIs
      <4>4. QED
        BY <4>2, <4>3
    <3>10. Within(x - 1, n) = x - 1
      <4>1. n \in Nat \ {0} /\ x - 1 \in Int /\ x - 1 \in 0 .. n - 1
        BY <3>9
      <4>2. QED
        BY <4>1, WithinTyped
    <3>11. r.column[v] = f + x - 1 - (x - 1)
      BY <2>7, <3>1, <3>4, <3>6, <3>7, <3>8, <3>9, <3>10
    <3>12. r.column[v] = f
      BY Typed, <3>9, <3>11
    <3>13. ~ (i < OutputCount - f)
      BY Typed, <2>9
    <3>14. QED
      BY <2>4, <2>6, <3>12, <3>13
  <2>10. CASE i > OutputCount - f
    <3>1. o # f /\ ~ (i - 1 < OutputCount - f) /\ ~ (i < OutputCount - f)
      BY Typed, <2>1, <2>10
    <3>2. q.column[v] = f
      BY <2>5, <3>1
    <3>3. OutputOf(q, v) # o
      BY <3>1, <3>2 DEF OutputOf
    <3>4. r.column[v] = f
      BY <1>2, <2>7, <3>2, <3>3
    <3>5. QED
      BY <2>4, <2>6, <3>1, <3>4
  <2>11. i < OutputCount - f \/ i = OutputCount - f \/ i > OutputCount - f
    BY Typed
  <2>12. QED
    BY <2>8, <2>9, <2>10, <2>11
<1>5. OutputCount \in good
  <2> HIDE DEF good
  <2>1. QED
    BY <1>3, <1>4, Turns
<1>6. ~ (OutputCount < OutputCount - f)
  BY Typed
<1>7. QED
  BY <1>1, <1>5, <1>6

-----------------------------------------------------------------------------
(* The handlers *)

IInv == Sane(Strips) /\ StripShown

(* What HeadsStayUsed says of a step. *)
StaysUsed ==
  \A o \in Output :
     (\E w \in Windows(Strips) \cap Windows(Strips)' : column[w] = o) => Shows(Strips, o)'

LEMMA BecomesIs ==
  ASSUME NEW s, Sane(s), Becomes(s)
  PROVE  Strips' = s
BY DEF Becomes, Sane, StripState, Strips

LEMMA StripsFields ==
  /\ Strips.order = order /\ Strips.column = column /\ Strips.slot = slot
  /\ Strips.cursor = cursor /\ Strips.focused = focused
BY DEF Strips

(* What is arranged last is in order; if what is arranged has not moved    *)
(* any window that was there, the outputs go on showing windows.           *)
LEMMA ArrangedKeeps ==
  ASSUME NEW s, Sane(s), Becomes(Arrange(s))
  PROVE  /\ IInv'
         /\ (\A w \in Windows(Strips) : s.column[w] = column[w]) => StaysUsed
<1>1. Sane(Arrange(s)) /\ Strips' = Arrange(s) /\ Windows(Arrange(s)) = Windows(s)
  BY ArrangeSane, BecomesIs DEF Windows
<1>2. /\ \A o \in Output : Shows(s, o) => Shows(Arrange(s), o)
      /\ \A w \in Windows(s) : Shows(Arrange(s), OutputOf(s, w)) /\ OutputOf(s, w) \in Output
      /\ NoGaps(Arrange(s))
  BY ArrangeShows, OutputTyped, SaneFields
<1>3. IInv'
  BY <1>1, <1>2 DEF IInv, StripShown
<1>4. ASSUME \A w \in Windows(Strips) : s.column[w] = column[w]
      PROVE  StaysUsed
  <2>1. ASSUME NEW o \in Output, NEW w \in Windows(Strips) \cap Windows(s), column[w] = o
        PROVE  Shows(Arrange(s), o)
    BY <1>2, <1>4, <2>1 DEF Shows
  <2>2. QED
    BY <1>1, <2>1 DEF StaysUsed
<1>5. QED
  BY <1>3, <1>4

(* And what leaves the order and the positions alone stays so.             *)
LEMMA InPlaceKeeps ==
  ASSUME IInv, NEW s, Sane(s), s.order = order, s.column = column, Becomes(s)
  PROVE  IInv' /\ StaysUsed
<1>1. Strips' = s
  BY BecomesIs
<1>2. Windows(s) = Windows(Strips) /\ Strips.column = column
  BY StripsFields DEF Windows
<1>3. \A k : Shows(s, k) <=> Shows(Strips, k)
  BY <1>2 DEF Shows
<1>4. NoGaps(s)
  BY <1>2, <1>3 DEF IInv, StripShown, NoGaps
<1>5. IInv'
  BY <1>1, <1>2, <1>3, <1>4 DEF IInv, StripShown
<1>6. StaysUsed
  BY <1>1, <1>2, <1>3 DEF StaysUsed, Shows
<1>7. QED
  BY <1>5, <1>6

LEMMA OpenKeeps ==
  ASSUME IInv, NEW w \in Window, Open(w)
  PROVE  IInv' /\ StaysUsed
<1> DEFINE new == [Strips EXCEPT !.order = Append(@, w), !.column[w] = 0]
           longer == Append(order, w)
<1>1. Sane(Strips) /\ w \notin Windows(Strips)
  BY DEF IInv, Open
<1>2. /\ order \in Seq(Window) /\ Len(order) \in Nat /\ DOMAIN order = 1 .. Len(order)
      /\ \A a, b \in DOMAIN order : order[a] = order[b] => a = b
      /\ \A a \in DOMAIN order : order[a] # w
  BY <1>1, StripsFields, SaneFields DEF Once, Windows, ToSet
<1>3. /\ longer \in Seq(Window) /\ DOMAIN longer = 1 .. Len(order) + 1
      /\ longer[Len(order) + 1] = w
      /\ \A a \in 1 .. Len(order) : longer[a] = order[a]
  BY <1>2, AppendProperties, LenProperties
<1>4. new = [Strips EXCEPT !.order = longer, !.column = [column EXCEPT ![w] = 0]]
  BY <1>1, StripsFields DEF Sane, StripState
<1> HIDE DEF longer, new
<1>5. \A a \in DOMAIN longer : (a \in DOMAIN order /\ longer[a] = order[a])
                                \/ (a = Len(order) + 1 /\ longer[a] = w)
  BY <1>2, <1>3
<1>6. Once(longer)
  BY <1>2, <1>3, <1>5 DEF Once
<1>7. [column EXCEPT ![w] = 0] \in [Window -> Int]
  BY <1>1, StripsFields, SaneFields
<1>8. /\ new \in StripState /\ new.order = longer /\ new.focused = focused
  BY <1>1, <1>3, <1>4, <1>7, StripsFields DEF Sane, StripState
<1>9. Windows(Strips) \subseteq Windows(new) /\ w \in Windows(new)
  <2>1. \A a \in DOMAIN order : a \in DOMAIN longer /\ longer[a] = order[a]
    BY <1>2, <1>3
  <2>2. Len(order) + 1 \in DOMAIN longer
    BY <1>2, <1>3
  <2>3. QED
    BY <1>3, <1>8, <2>1, <2>2, StripsFields DEF Windows, ToSet
<1>10. Sane(new)
  BY <1>1, <1>6, <1>8, <1>9, StripsFields DEF Sane
<1>11. Sane(FocusWindow(new, w))
  BY <1>9, <1>10, FocusSane
<1>12. \A v \in Windows(Strips) : FocusWindow(new, w).column[v] = column[v]
  <2>1. FocusWindow(new, w).column = new.column
    BY <1>9, <1>10, FocusSane
  <2>2. new.column = [column EXCEPT ![w] = 0]
    BY <1>1, <1>4 DEF Sane, StripState
  <2>3. Windows(Strips) \subseteq Window /\ column \in [Window -> Int]
    BY <1>1, StripsFields, SaneFields
  <2>4. QED
    BY <1>1, <2>1, <2>2, <2>3
<1>13. QED
  BY <1>11, <1>12, ArrangedKeeps DEF Open, new

LEMMA CloseKeeps ==
  ASSUME IInv, NEW w \in Window, Close(w)
  PROVE  IInv' /\ StaysUsed
<1> DEFINE fewer == Only(order, Window \ {w})
           left == IF focused = w THEN Nobody ELSE focused
           new == [Strips EXCEPT !.order = Only(@, Window \ {w}),
                                 !.focused = IF @ = w THEN Nobody ELSE @]
<1>1. Sane(Strips)
  BY DEF IInv
<1>2. new = [Strips EXCEPT !.order = fewer, !.focused = left]
  BY StripsFields DEF Strips
<1>3. Once(fewer) /\ ToSet(fewer) = ToSet(order) \cap (Window \ {w})
  <2>1. Once(order)
    BY <1>1, StripsFields, SaneFields
  <2>2. QED
    BY <2>1, OnlyIs
<1>4. left \in Window \cup {Nobody} /\ (left # Nobody => left \in ToSet(order) /\ left # w)
  BY <1>1, StripsFields, SaneFields DEF Sane, Windows
<1> HIDE DEF fewer, left, new
<1>5. new \in StripState /\ new.order = fewer /\ new.focused = left /\ new.column = column
  BY <1>1, <1>2, <1>3, <1>4, StripsFields DEF Sane, StripState, Once
<1>6. left # Nobody => left \in Windows(new)
  BY <1>3, <1>4, <1>5, Typed DEF Windows
<1>7. Sane(new)
  BY <1>3, <1>5, <1>6 DEF Sane
<1>8. QED
  BY <1>5, <1>7, ArrangedKeeps DEF Close, new

LEMMA ScrollKeeps ==
  ASSUME IInv, NEW steps \in Steps, ScrollMove(steps)
  PROVE  IInv' /\ StaysUsed
<1> DEFINE out == CommandOutput(Strips)
           n   == Len(Strip(Strips, out))
           to  == Within(slot[out] + steps, n)
           new == [Strips EXCEPT !.slot[out] = Within(@ + steps, n)]
<1>1. Sane(Strips)
  BY DEF IInv
<1>2. out \in Output
  BY <1>1, OutputTyped, SaneFields DEF CommandOutput
<1>3. n \in Nat \ {0}
  BY <1>1, StripIs DEF ScrollMove
<1>4. slot[out] + steps \in Int
  BY <1>1, <1>2, StripsFields, SaneFields, StepsAssumption
<1>5. to \in Nat
  <2>1. to \in 0 .. n - 1
    BY <1>3, <1>4, WithinTyped
  <2> HIDE DEF to, n
  <2>2. QED
    BY <1>3, <2>1
<1>6. new = [Strips EXCEPT !.slot = [slot EXCEPT ![out] = to]]
  BY <1>1, StripsFields DEF Sane, StripState
<1>7. Becomes(Arrange(new))
  BY DEF ScrollMove
<1> HIDE DEF out, n, to, new
<1>8. [slot EXCEPT ![out] = to] \in [Output -> Nat]
  BY <1>1, <1>5, StripsFields, SaneFields
<1>9. new \in StripState /\ new.order = order /\ new.focused = focused /\ new.column = column
  BY <1>1, <1>6, <1>8, StripsFields DEF Sane, StripState
<1>10. Sane(new)
  BY <1>1, <1>9, StripsFields DEF Sane, Windows
<1>11. QED
  BY <1>7, <1>9, <1>10, ArrangedKeeps

LEMMA EnterSane ==
  ASSUME Sane(Strips), NEW place \in [Window -> Output]
  PROVE  LET new == [Strips EXCEPT !.column = place, !.slot = [o \in Output |-> 0]]
         IN  Sane(new) /\ new.order = order /\ new.focused = focused
<1> DEFINE new == [Strips EXCEPT !.column = place, !.slot = [o \in Output |-> 0]]
<1>1. place \in [Window -> Int] /\ [o \in Output |-> 0] \in [Output -> Nat]
  BY Typed
<1>2. new \in StripState /\ new.order = order /\ new.focused = focused
  BY <1>1, StripsFields DEF Sane, StripState
<1> HIDE DEF new
<1>3. Sane(new)
  BY <1>2, StripsFields DEF Sane, Windows
<1>4. QED
  BY <1>2, <1>3 DEF new

LEMMA NextKeeps ==
  ASSUME IInv, [Next]_vars
  PROVE  IInv' /\ (StaysUsed \/ \E place \in [Window -> Output] : EnterScroll(place))
<1>1. Sane(Strips)
  BY DEF IInv
<1>2. ASSUME NEW w \in Window, Open(w) \/ Close(w)
      PROVE  IInv' /\ StaysUsed
  BY <1>2, OpenKeeps, CloseKeeps
<1>3. ASSUME NEW w \in Window, Focus(w)
      PROVE  IInv' /\ StaysUsed
  <2>1. /\ Sane(FocusWindow(Strips, w))
        /\ FocusWindow(Strips, w).order = order /\ FocusWindow(Strips, w).column = column
    BY <1>1, <1>3, FocusSane, StripsFields DEF Focus
  <2>2. QED
    BY <1>3, <2>1, InPlaceKeeps DEF Focus
<1>4. ASSUME NEW steps \in Steps, ScrollMove(steps)
      PROVE  IInv' /\ StaysUsed
  BY <1>4, ScrollKeeps
<1>5. ASSUME NEW sign \in {-1, 1}, TileMove(sign)
      PROVE  IInv' /\ StaysUsed
  <2> DEFINE moved == SwapWithNext(Strips, sign)
  <2>1. Sane(moved) /\ moved.column = column
    BY <1>1, <1>5, SwapSane, StripsFields DEF TileMove
  <2>2. Becomes(IF moved = Strips THEN Strips ELSE Arrange(moved))
    BY <1>5 DEF TileMove
  <2> HIDE DEF moved
  <2>3. CASE moved = Strips
    BY <1>1, <2>2, <2>3, InPlaceKeeps, StripsFields
  <2>4. CASE moved # Strips
    BY <2>1, <2>2, <2>4, ArrangedKeeps
  <2>5. QED
    BY <2>3, <2>4
<1>6. ASSUME NEW o \in Output, CursorMoves(o)
      PROVE  IInv' /\ StaysUsed
  <2> DEFINE new == [Strips EXCEPT !.cursor = o]
  <2>1. new \in StripState /\ new.order = order /\ new.column = column
        /\ new.focused = focused
    BY <1>1, StripsFields DEF Sane, StripState
  <2> HIDE DEF new
  <2>2. Sane(new)
    BY <1>1, <2>1, StripsFields DEF Sane, Windows
  <2>3. QED
    BY <1>6, <2>1, <2>2, InPlaceKeeps DEF CursorMoves, new
<1>7. ASSUME NEW place \in [Window -> Output], EnterScroll(place)
      PROVE  IInv'
  <2>1. Sane(SyncToFocused([Strips EXCEPT !.column = place, !.slot = [o \in Output |-> 0]]))
    BY <1>1, EnterSane, SyncSane
  <2>2. QED
    BY <1>7, <2>1, ArrangedKeeps DEF EnterScroll
<1>8. CASE OutputCommit
  BY <1>1, <1>8, ArrangedKeeps, StripsFields DEF OutputCommit
<1>9. CASE UNCHANGED vars
  BY <1>1, <1>9, InPlaceKeeps, StripsFields DEF vars, Becomes
<1>10. QED
  BY <1>2, <1>3, <1>4, <1>5, <1>6, <1>7, <1>8, <1>9 DEF Next

LEMMA InitKeeps == Init => IInv
<1> SUFFICES ASSUME Init PROVE IInv
  OBVIOUS
<1>1. << >> \in Seq(Window) /\ DOMAIN << >> = {} /\ Len(<< >>) = 0
  BY EmptySeq
<1>2. order = << >> /\ focused = Nobody
  BY DEF Init
<1>3. Strips \in StripState
  BY <1>1, Typed DEF Init, Strips, StripState
<1>4. Once(order)
  BY <1>1, <1>2 DEF Once
<1>5. StripShown
  <2>1. Windows(Strips) = {}
    BY <1>1, <1>2, StripsFields DEF Windows, ToSet
  <2>2. QED
    BY <2>1 DEF StripShown, NoGaps
<1>6. QED
  BY <1>2, <1>3, <1>4, <1>5, StripsFields DEF IInv, Sane

-----------------------------------------------------------------------------
(* Theorems *)

(* The strips are well formed and shown.                                   *)
THEOREM Invariance == Spec => []IInv
<1>1. IInv /\ [Next]_vars => IInv'
  BY NextKeeps
<1>2. QED
  BY <1>1, InitKeeps, PTL DEF Spec

(* Every variable always holds a value of its kind, and no window is       *)
(* listed twice, on any number of outputs.                                 *)
THEOREM TypeCorrect == Spec => []TypeOK
<1>1. IInv => TypeOK
  <2> SUFFICES ASSUME IInv PROVE TypeOK
    OBVIOUS
  <2>1. Sane(Strips)
    BY DEF IInv
  <2>2. /\ order \in Seq(Window) /\ column \in [Window -> Int] /\ slot \in [Output -> Nat]
        /\ cursor \in Output /\ focused \in Window \cup {Nobody}
    BY <2>1, SaneFields, StripsFields
  <2>3. IsInjective(order)
    BY <2>1, SaneFields, StripsFields DEF Once, IsInjective
  <2>4. QED
    BY <2>2, <2>3 DEF TypeOK
<1>2. QED
  BY <1>1, Invariance, PTL

(* Whatever is opened, closed, moved and scrolled on any number of         *)
(* outputs, one of them shows a window, and no window is beyond a gap.     *)
THEOREM StripAlwaysShown == Spec => []StripShown
<1>1. IInv => StripShown
  BY DEF IInv
<1>2. QED
  BY <1>1, Invariance, PTL

(* Strips that spill onto an output, or take their windows back, never     *)
(* leave it showing none, on any number of outputs.                        *)
THEOREM UsedHeadsStayUsed == Spec => HeadsStayUsed
<1>1. IInv /\ [Next]_vars =>
        [\/ \A o \in Output :
              (\E w \in Windows(Strips) \cap Windows(Strips)' : column[w] = o)
                 => Shows(Strips, o)'
         \/ \E place \in [Window -> Output] : EnterScroll(place)]_vars
  BY NextKeeps DEF StaysUsed
<1>2. QED
  BY <1>1, Invariance, PTL DEF Spec, HeadsStayUsed

(* However the windows were placed before, entering the scroll layout puts *)
(* the focused one on its output, unless the cursor's output takes in what *)
(* the strips to its right leave over.                                     *)
THEOREM EnterShows == Spec => EnterShowsFocused
<1>1. ASSUME IInv, NEW place \in [Window -> Output], EnterScroll(place), focused # Nobody,
             place[focused] # cursor \/ place[focused] = OutputCount - 1
      PROVE  column'[focused] = place[focused]
  <2> DEFINE new == [Strips EXCEPT !.column = place, !.slot = [o \in Output |-> 0]]
             synced == SyncToFocused(new)
             f == place[focused]
  <2>1. Sane(new) /\ new.order = order /\ new.focused = focused
    BY <1>1, EnterSane DEF IInv
  <2>2. new.column = place /\ new.slot = [o \in Output |-> 0] /\ new.cursor = cursor
    BY <1>1, Typed, StripsFields DEF IInv, Sane, StripState
  <2>3. Becomes(Arrange(synced))
    BY <1>1 DEF EnterScroll
  <2> HIDE DEF new
  <2>4. focused \in Windows(new) /\ focused \in Window
    BY <1>1, <2>1, SaneFields DEF Sane
  <2>5. f \in Output /\ OutputOf(new, focused) = f
    BY <2>2, <2>4 DEF OutputOf
  <2>6. PICK i : i = Index(Strip(new, f), focused)
    OBVIOUS
  <2>7. synced = [new EXCEPT !.slot[f] = i - 1]
    BY <2>1, <2>4, <2>5, <2>6 DEF SyncToFocused
  <2>8. Sane(synced) /\ synced.column = place /\ synced.order = order /\ synced.focused = focused
    BY <2>1, <2>2, SyncSane
  <2>9. synced.slot = [new.slot EXCEPT ![f] = i - 1] /\ synced.cursor = cursor
    BY <2>1, <2>2, <2>7 DEF Sane, StripState
  <2>10. synced.slot[f] = i - 1 /\ \A o \in Output : o # f => synced.slot[o] = 0
    BY <2>2, <2>5, <2>9
  <2>11. Strip(synced, f) = Strip(new, f)
    <3>1. \A w : OutputOf(synced, w) = OutputOf(new, w)
      BY <2>2, <2>8, <2>9 DEF OutputOf
    <3>2. QED
      BY <2>1, <2>8, <3>1 DEF Strip
  <2> HIDE DEF synced
  <2>12. focused \in Windows(synced) /\ synced.column[focused] = f
    BY <2>1, <2>4, <2>8 DEF Windows
  <2>13. Arrange(synced).column[focused] = f
    <3>1. synced.column \in [Window -> Output]
      BY <2>8
    <3>2. synced.slot[f] = Index(Strip(synced, f), focused) - 1
      BY <2>6, <2>10, <2>11
    <3>3. f # synced.cursor \/ f = OutputCount - 1
      BY <1>1, <2>9
    <3> HIDE DEF f
    <3>4. QED
      BY <2>5, <2>8, <2>10, <2>12, <3>1, <3>2, <3>3, EnterLays
  <2>14. column' = Arrange(synced).column
    BY <2>3 DEF Becomes
  <2>15. QED
    BY <2>13, <2>14
<1>2. IInv /\ [Next]_vars =>
        [\A place \in [Window -> Output] :
           /\ EnterScroll(place)
           /\ focused # Nobody
           /\ place[focused] # cursor \/ place[focused] = OutputCount - 1
           => column'[focused] = place[focused]]_vars
  BY <1>1
<1>3. QED
  BY <1>2, Invariance, PTL DEF Spec, EnterShowsFocused
=============================================================================
