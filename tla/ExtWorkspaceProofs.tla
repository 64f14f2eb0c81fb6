------------------------- MODULE ExtWorkspaceProofs -------------------------
(***************************************************************************)
(* Proofs about module ExtWorkspace for any number of panels and           *)
(* workspaces and any bounds of the queues.                                *)
(*                                                                         *)
(* A burst of events is the list of a panel's handles in their order, and  *)
(* there is one such list, so it is known by what is in it: states, each   *)
(* of one handle, then a done.  WillStage says what the first k events in  *)
(* flight will leave staged of a handle, which is what the last of them    *)
(* about it says.  The invariant is that at every done in flight at most   *)
(* one handle will be staged; a burst keeps it because it speaks of every  *)
(* handle, and reading an event does, because what is staged then is what  *)
(* was going to be.  The same lemmas show that a step of this module is a  *)
(* step of PanelView under the mapping View.                               *)
(***************************************************************************)
EXTENDS ExtWorkspace, FiniteSetTheorems, FunctionTheorems, SequenceTheorems,
        WellFoundedInduction, TLAPS

-----------------------------------------------------------------------------
(* Sets of numbers in order *)

(* A set of numbers that is not empty has a least one. *)
LEMMA LeastNumber ==
  ASSUME NEW T \in SUBSET Nat, T # {}
  PROVE  \E i \in T : \A j \in T : i <= j
<1> DEFINE R == {ss \in Nat \X Nat : ss[1] < ss[2]}
<1>1. IsWellFoundedOn(R, Nat)
  BY NatLessThanWellFounded DEF OpToRel
<1>2. PICK i \in T : \A j \in T : ~ (<< j, i >> \in R)
  <2> HIDE DEF R
  <2>1. QED
    BY <1>1, WFMin
<1>3. \A j \in T : i <= j
  <2>1. \A j \in T : i \in Nat /\ j \in Nat /\ ~ (j < i)
    BY <1>2
  <2>2. QED
    BY <2>1
<1>4. QED
  BY <1>3

RankIn(set, i) == Cardinality({j \in set : j < i})

LEMMA RankIncreases ==
  ASSUME NEW set \in SUBSET Int, IsFiniteSet(set), NEW i \in set, NEW j \in set, i < j
  PROVE  RankIn(set, i) < RankIn(set, j)
<1> DEFINE I == {k \in set : k < i}
           J == {k \in set : k < j}
<1>1. I \subseteq J /\ i \in J /\ i \notin I
  <2>1. i \in Int /\ j \in Int /\ \A k \in set : k \in Int
    OBVIOUS
  <2>2. \A k \in set : k < i => k < j
    BY <2>1
  <2>3. I \subseteq J /\ i \in J
    BY <2>2
  <2>4. i \notin I
    BY <2>1
  <2>5. QED
    BY <2>3, <2>4
<1>2. IsFiniteSet(J)
  BY FS_Subset
<1> HIDE DEF I, J
<1>3. IsFiniteSet(I) /\ Cardinality(I) <= Cardinality(J) /\ Cardinality(I) # Cardinality(J)
  BY <1>1, <1>2, FS_Subset
<1>4. Cardinality(I) \in Nat /\ Cardinality(J) \in Nat
  BY <1>2, <1>3, FS_CardinalityType
<1>5. QED
  BY <1>3, <1>4 DEF RankIn, I, J

LEMMA RankBounds ==
  ASSUME NEW set \in SUBSET Int, IsFiniteSet(set), NEW i \in set
  PROVE  RankIn(set, i) \in 0 .. Cardinality(set) - 1
<1> DEFINE I == {k \in set : k < i}
<1>1. I \subseteq set /\ i \notin I
  OBVIOUS
<1> HIDE DEF I
<1>2. IsFiniteSet(I) /\ Cardinality(I) <= Cardinality(set) /\ Cardinality(I) # Cardinality(set)
  BY <1>1, FS_Subset
<1>3. Cardinality(I) \in Nat /\ Cardinality(set) \in Nat
  BY <1>2, FS_CardinalityType
<1>4. QED
  BY <1>2, <1>3 DEF RankIn, I

LEMMA RankDetermines ==
  ASSUME NEW set \in SUBSET Int, IsFiniteSet(set), NEW i \in set, NEW j \in set,
         RankIn(set, i) = RankIn(set, j)
  PROVE  i = j
<1> SUFFICES ASSUME i # j PROVE FALSE
  OBVIOUS
<1>1. i < j \/ j < i
  OBVIOUS
<1>2. RankIn(set, i) < RankIn(set, j) \/ RankIn(set, j) < RankIn(set, i)
  BY <1>1, RankIncreases
<1>3. RankIn(set, i) \in Int /\ RankIn(set, j) \in Int
  BY RankBounds, FS_CardinalityType
<1>4. QED
  BY <1>2, <1>3

(* The k-th element is the one with k - 1 elements below it. *)
LEMMA InOrderIs ==
  ASSUME NEW set \in SUBSET Int, IsFiniteSet(set)
  PROVE  /\ Cardinality(set) \in Nat
         /\ DOMAIN InOrder(set) = 1 .. Cardinality(set)
         /\ \A k \in 1 .. Cardinality(set) :
              InOrder(set)[k] \in set /\ RankIn(set, InOrder(set)[k]) = k - 1
         /\ \A i \in set : RankIn(set, i) + 1 \in 1 .. Cardinality(set)
                           /\ InOrder(set)[RankIn(set, i) + 1] = i
<1> DEFINE n == Cardinality(set)
           rank == [i \in set |-> RankIn(set, i)]
<1>1. n \in Nat
  BY FS_CardinalityType
<1>2. rank \in Injection(set, 0 .. n - 1)
  BY RankBounds, RankDetermines DEF Injection, IsInjective
<1>3. IsFiniteSet(0 .. n - 1) /\ Cardinality(0 .. n - 1) = n
  BY <1>1, FS_Interval
<1>4. rank \in Surjection(set, 0 .. n - 1)
  BY <1>2, <1>3, FS_Injection
<1>5. \A r \in 0 .. n - 1 : \E i \in set : RankIn(set, i) = r
  BY <1>4 DEF Surjection
<1>6. ASSUME NEW k \in 1 .. n
      PROVE  InOrder(set)[k] \in set /\ RankIn(set, InOrder(set)[k]) = k - 1
  <2>1. InOrder(set)[k] = CHOOSE i \in set : RankIn(set, i) = k - 1
    BY DEF InOrder, RankIn
  <2>2. k - 1 \in 0 .. n - 1
    BY <1>1
  <2>3. \E i \in set : RankIn(set, i) = k - 1
    BY <1>5, <2>2
  <2>4. QED
    BY <2>1, <2>3
<1>7. ASSUME NEW i \in set
      PROVE  RankIn(set, i) + 1 \in 1 .. n /\ InOrder(set)[RankIn(set, i) + 1] = i
  <2>1. RankIn(set, i) \in 0 .. n - 1
    BY RankBounds
  <2>2. RankIn(set, i) + 1 \in 1 .. n /\ (RankIn(set, i) + 1) - 1 = RankIn(set, i)
    BY <1>1, <2>1
  <2>3. /\ InOrder(set)[RankIn(set, i) + 1] \in set
        /\ RankIn(set, InOrder(set)[RankIn(set, i) + 1]) = RankIn(set, i)
    BY <1>6, <2>2
  <2>4. PICK j \in set : j = InOrder(set)[RankIn(set, i) + 1]
    BY <2>3
  <2>5. j = i
    BY <2>3, <2>4, RankDetermines
  <2>6. QED
    BY <2>2, <2>4, <2>5
<1>8. QED
  BY <1>1, <1>6, <1>7 DEF InOrder

-----------------------------------------------------------------------------
(* What a session is sent *)

Event ==
  [kind : {"state"}, ws : Workspace, active : BOOLEAN] \cup {Done, Finished}

LEMMA Kinds ==
  /\ Done.kind = "done" /\ Finished.kind = "finished" /\ Done \in Event /\ Finished \in Event
  /\ \A m \in Event : /\ m.kind \in {"state", "done", "finished"}
                      /\ m.kind = "state" => m.ws \in Workspace /\ m.active \in BOOLEAN
                      /\ m.kind = "done" => m = Done
                      /\ m.kind = "finished" => m = Finished
BY DEF Event, Done, Finished

LEMMA WorkspacesCount ==
  /\ Workspace \in SUBSET Int /\ IsFiniteSet(Workspace)
  /\ Cardinality(Workspace) = WorkspaceCount /\ WorkspaceCount \in Nat
<1>1. WorkspaceCount \in Nat /\ 0 \in Int /\ WorkspaceCount - 1 \in Int
  BY CountAssumption
<1>2. QED
  BY <1>1, FS_Interval, CountAssumption DEF Workspace

(* A burst tells the state of each handle and ends with the only done. *)
LEMMA Burst ==
  ASSUME NEW hs \in SUBSET Workspace, NEW cur \in Workspace
  PROVE  /\ States(hs, cur) \in Seq(Event)
         /\ Len(States(hs, cur)) \in 1 .. WorkspaceCount + 1
         /\ \A k \in 1 .. Len(States(hs, cur)) - 1 :
              \E i \in hs : States(hs, cur)[k] = State(i, cur)
         /\ \A i \in hs : \E k \in 1 .. Len(States(hs, cur)) - 1 :
              States(hs, cur)[k] = State(i, cur)
         /\ States(hs, cur)[Len(States(hs, cur))] = Done
<1> DEFINE n == Cardinality(hs)
           o == InOrder(hs)
           s == [k \in DOMAIN o |-> State(o[k], cur)]
           r == Append(s, Done)
<1>1. hs \in SUBSET Int /\ IsFiniteSet(hs) /\ n <= WorkspaceCount
  BY WorkspacesCount, FS_Subset
<1>2. n \in Nat /\ DOMAIN o = 1 .. n /\ \A k \in 1 .. n : o[k] \in hs
  BY <1>1, InOrderIs
<1>3. \A i \in hs : \E k \in 1 .. n : o[k] = i
  BY <1>1, InOrderIs
<1> HIDE DEF n, o
<1>4. \A i \in hs : State(i, cur) \in Event
  BY DEF Event, State
<1>5. s \in Seq(Event) /\ Len(s) = n /\ \A k \in 1 .. n : s[k] = State(o[k], cur)
  <2>1. s \in [1 .. n -> Event]
    BY <1>2, <1>4
  <2>2. QED
    BY <1>2, <2>1
<1> HIDE DEF s
<1>6. r \in Seq(Event) /\ Len(r) = n + 1 /\ r[n + 1] = Done /\ \A k \in 1 .. n : r[k] = s[k]
  BY <1>2, <1>5, Kinds, AppendProperties
<1>7. r = States(hs, cur)
  BY DEF States, s, o
<1> HIDE DEF r
<1>8. Len(r) - 1 = n /\ Len(r) \in 1 .. WorkspaceCount + 1
  BY <1>1, <1>2, <1>6, WorkspacesCount
<1>9. \A k \in 1 .. n : \E i \in hs : r[k] = State(i, cur)
  BY <1>2, <1>5, <1>6
<1>10. \A i \in hs : \E k \in 1 .. n : r[k] = State(i, cur)
  BY <1>3, <1>5, <1>6
<1>11. QED
  BY <1>6, <1>7, <1>8, <1>9, <1>10

-----------------------------------------------------------------------------
(* The inductive invariant *)

Ask == [kind : {"activate", "destroy"}, ws : Workspace] \cup {[kind |-> "stop"]}

Typed ==
  /\ current \in Workspace
  /\ sessions \in SUBSET Panel
  /\ handles \in [Panel -> SUBSET Workspace] /\ kept \in [Panel -> SUBSET Workspace]
  /\ staged \in [Panel -> SUBSET Workspace]  /\ showing \in [Panel -> SUBSET Workspace]
  /\ panel \in [Panel -> {"away", "bound", "ready", "stopping"}]
  /\ toClient \in [Panel -> Seq(Event)] /\ toServer \in [Panel -> Seq(Ask)]

(* A session and its panel agree on what there is to talk about. *)
Session(p) ==
  /\ panel[p] = "away" =>
       p \notin sessions /\ toClient[p] = <<>> /\ toServer[p] = <<>> /\ kept[p] = {}
  /\ panel[p] \in {"bound", "ready"} => p \in sessions
  /\ p \in sessions => kept[p] \subseteq handles[p] /\ Len(toClient[p]) <= QueueBound
  /\ staged[p] \subseteq kept[p] /\ showing[p] \subseteq kept[p]
  /\ Len(toClient[p]) <= QueueBound + 1 /\ Len(toServer[p]) <= RequestBound

(* Nothing follows a request to stop; nothing that follows a request to    *)
(* destroy a handle names it.                                              *)
Asks(p) ==
  \A k \in 1 .. Len(toServer[p]) :
     /\ p \in sessions
     /\ toServer[p][k].kind = "stop" => k = Len(toServer[p]) /\ panel[p] = "stopping"
     /\ toServer[p][k].kind = "destroy" => toServer[p][k].ws \notin kept[p]
     /\ toServer[p][k].kind # "stop" =>
          /\ toServer[p][k].ws \in handles[p]
          /\ \A j \in 1 .. k - 1 : toServer[p][j].kind = "destroy" =>
                                   toServer[p][j].ws # toServer[p][k].ws

(* Nothing follows finished, and at every done at most one handle will be  *)
(* staged.                                                                 *)
Tells(p) ==
  /\ \A k \in 1 .. Len(toClient[p]) :
       /\ toClient[p][k].kind = "finished" => p \notin sessions /\ k = Len(toClient[p])
       /\ toClient[p][k].kind = "done" =>
            \A i, j \in kept[p] :
               WillStage(toClient[p], staged[p], i, k) /\ WillStage(toClient[p], staged[p], j, k)
                 => i = j
  /\ \A i, j \in showing[p] : i = j

IInv == Typed /\ \A p \in Panel : Session(p) /\ Asks(p) /\ Tells(p)

-----------------------------------------------------------------------------
(* What the events in flight will make a panel stage *)

About(m, i) == m.kind = "state" /\ m.ws = i

(* The same thing said of the last event about the handle. *)
LEMMA WillStageIs ==
  ASSUME NEW q, NEW set, NEW i, NEW k \in Nat
  PROVE  /\ (\A n \in 1 .. k : ~ About(q[n], i)) => (WillStage(q, set, i, k) <=> i \in set)
         /\ \A n \in 1 .. k : About(q[n], i) =>
              (WillStage(q, set, i, k) <=>
                 \E m \in 1 .. k : /\ About(q[m], i) /\ q[m].active
                                  /\ \A l \in 1 .. k : About(q[l], i) => l <= m)
<1> DEFINE told == {n \in 1 .. k : q[n].kind = "state" /\ q[n].ws = i}
<1>1. told = {n \in 1 .. k : About(q[n], i)}
  BY DEF About
<1>2. WillStage(q, set, i, k) <=>
        IF told = {} THEN i \in set
        ELSE \E n \in told : q[n].active /\ \A m \in told : m <= n
  BY DEF WillStage
<1> HIDE DEF told
<1>3. QED
  BY <1>1, <1>2

(* Only the events read count, so later ones make no difference. *)
LEMMA WillStagePrefix ==
  ASSUME NEW q, NEW r, NEW set, NEW i, NEW k \in Nat, \A n \in 1 .. k : r[n] = q[n]
  PROVE  WillStage(r, set, i, k) <=> WillStage(q, set, i, k)
<1>1. {n \in 1 .. k : r[n].kind = "state" /\ r[n].ws = i}
        = {n \in 1 .. k : q[n].kind = "state" /\ q[n].ws = i}
  OBVIOUS
<1>2. QED
  BY <1>1 DEF WillStage

(* Reading an event leaves the same outcome with one event less to read. *)
LEMMA WillStageTail ==
  ASSUME NEW q \in Seq(Event), q # <<>>, NEW set, NEW next, NEW i,
         NEW k \in 0 .. Len(q) - 1,
         i \in next <=> IF About(Head(q), i) THEN Head(q).active ELSE i \in set
  PROVE  WillStage(Tail(q), next, i, k) <=> WillStage(q, set, i, k + 1)
<1> DEFINE r == Tail(q)
<1>1. Len(q) \in Nat /\ k \in Nat /\ k + 1 \in Nat
  BY LenProperties
<1>2. \A n \in 1 .. k : r[n] = q[n + 1]
  BY <1>1, HeadTailProperties
<1>3. Head(q) = q[1]
  OBVIOUS
<1> HIDE DEF r
<1>4. \A n \in 1 .. k : n + 1 \in 1 .. k + 1
  BY <1>1
<1>5. \A n \in 1 .. k + 1 : n = 1 \/ (n - 1 \in 1 .. k /\ q[n] = r[n - 1])
  <2>1. ASSUME NEW n \in 1 .. k + 1, n # 1
        PROVE  n - 1 \in 1 .. k /\ q[n] = r[n - 1]
    <3>1. n - 1 \in 1 .. k /\ (n - 1) + 1 = n
      BY <1>1, <2>1
    <3>2. PICK j \in 1 .. k : j = n - 1
      BY <3>1
    <3>3. r[j] = q[j + 1] /\ j + 1 = n
      BY <1>2, <3>1, <3>2
    <3>4. QED
      BY <3>1, <3>2, <3>3
  <2>2. QED
    BY <2>1
<1>6. CASE \E n \in 1 .. k : About(r[n], i)
  <2>1. WillStage(r, next, i, k) <=>
          \E m \in 1 .. k : /\ About(r[m], i) /\ r[m].active
                           /\ \A l \in 1 .. k : About(r[l], i) => l <= m
    BY <1>1, <1>6, WillStageIs
  <2>2. \E n \in 1 .. k + 1 : About(q[n], i)
    BY <1>2, <1>4, <1>6
  <2>3. WillStage(q, set, i, k + 1) <=>
          \E m \in 1 .. k + 1 : /\ About(q[m], i) /\ q[m].active
                               /\ \A l \in 1 .. k + 1 : About(q[l], i) => l <= m
    BY <1>1, <2>2, WillStageIs
  <2>4. ASSUME NEW m \in 1 .. k
        PROVE  (\A l \in 1 .. k : About(r[l], i) => l <= m)
                 <=> \A l \in 1 .. k + 1 : About(q[l], i) => l <= m + 1
    <3>1. ASSUME NEW l \in 1 .. k + 1, About(q[l], i), \A n \in 1 .. k : About(r[n], i) => n <= m
          PROVE  l <= m + 1
      BY <1>1, <1>5, <3>1
    <3>2. ASSUME NEW l \in 1 .. k, About(r[l], i), \A n \in 1 .. k + 1 : About(q[n], i) => n <= m + 1
          PROVE  l <= m
      <4>1. l + 1 <= m + 1
        BY <1>2, <1>4, <3>2
      <4>2. QED
        BY <1>1, <4>1
    <3>3. QED
      BY <3>1, <3>2
  <2>5. ASSUME NEW m \in 1 .. k + 1, \A l \in 1 .. k + 1 : About(q[l], i) => l <= m
        PROVE  m - 1 \in 1 .. k /\ q[m] = r[m - 1] /\ m = (m - 1) + 1
    <3>1. PICK n \in 1 .. k : About(r[n], i)
      BY <1>6
    <3>2. n + 1 <= m
      BY <1>2, <1>4, <2>5, <3>1
    <3>3. QED
      BY <1>1, <1>5, <3>2
  <2>6. ASSUME WillStage(r, next, i, k)
        PROVE  WillStage(q, set, i, k + 1)
    <3>1. PICK m \in 1 .. k : /\ About(r[m], i) /\ r[m].active
                             /\ \A l \in 1 .. k : About(r[l], i) => l <= m
      BY <2>1, <2>6
    <3>2. m + 1 \in 1 .. k + 1 /\ About(q[m + 1], i) /\ q[m + 1].active
      BY <1>2, <1>4, <3>1
    <3>3. \A l \in 1 .. k + 1 : About(q[l], i) => l <= m + 1
      BY <2>4, <3>1
    <3>4. QED
      BY <2>3, <3>2, <3>3
  <2>7. ASSUME WillStage(q, set, i, k + 1)
        PROVE  WillStage(r, next, i, k)
    <3>1. PICK m \in 1 .. k + 1 : /\ About(q[m], i) /\ q[m].active
                                 /\ \A l \in 1 .. k + 1 : About(q[l], i) => l <= m
      BY <2>3, <2>7
    <3>2. m - 1 \in 1 .. k /\ q[m] = r[m - 1] /\ m = (m - 1) + 1
      BY <2>5, <3>1
    <3>3. PICK j \in 1 .. k : j = m - 1
      BY <3>2
    <3>4. About(r[j], i) /\ r[j].active /\ \A l \in 1 .. k + 1 : About(q[l], i) => l <= j + 1
      BY <3>1, <3>2, <3>3
    <3>5. QED
      BY <2>1, <2>4, <3>4
  <2>8. QED
    BY <2>6, <2>7 DEF r
<1>7. CASE ~ \E n \in 1 .. k : About(r[n], i)
  <2>1. WillStage(r, next, i, k) <=> i \in next
    BY <1>1, <1>7, WillStageIs
  <2>2. \A n \in 1 .. k + 1 : About(q[n], i) => n = 1
    BY <1>5, <1>7
  <2>3. 1 \in 1 .. k + 1
    BY <1>1
  <2>4. CASE About(q[1], i)
    <3>1. WillStage(q, set, i, k + 1) <=>
            \E m \in 1 .. k + 1 : /\ About(q[m], i) /\ q[m].active
                                 /\ \A l \in 1 .. k + 1 : About(q[l], i) => l <= m
      BY <1>1, <2>3, <2>4, WillStageIs
    <3>2. WillStage(q, set, i, k + 1) <=> q[1].active
      BY <2>2, <2>3, <2>4, <3>1
    <3>3. QED
      BY <1>3, <2>1, <2>4, <3>2 DEF r
  <2>5. CASE ~ About(q[1], i)
    <3>1. WillStage(q, set, i, k + 1) <=> i \in set
      BY <1>1, <2>2, <2>5, WillStageIs
    <3>2. QED
      BY <1>3, <2>1, <2>5, <3>1 DEF r
  <2>6. QED
    BY <2>4, <2>5
<1>8. QED
  BY <1>6, <1>7

(* Whatever is in flight, a burst ends with no handle of its own staged    *)
(* but the current workspace's.                                            *)
LEMMA WillStageBurst ==
  ASSUME NEW q \in Seq(Event), NEW set, NEW hs \in SUBSET Workspace,
         NEW cur \in Workspace, NEW i \in hs
  PROVE  LET r == q \o States(hs, cur)
         IN  WillStage(r, set, i, Len(r)) <=> i = cur
<1> DEFINE b == States(hs, cur)
           r == q \o b
           n == Len(q)
           k == Len(r)
<1>1. /\ b \in Seq(Event) /\ Len(b) \in 1 .. WorkspaceCount + 1
      /\ \A m \in 1 .. Len(b) - 1 : \E j \in hs : b[m] = State(j, cur)
      /\ \E m \in 1 .. Len(b) - 1 : b[m] = State(i, cur)
      /\ b[Len(b)] = Done
  BY Burst
<1> HIDE DEF b
<1>2. n \in Nat /\ Len(b) \in Nat
  BY <1>1, LenProperties
<1>3. k = n + Len(b) /\ \A m \in 1 .. k : r[m] = IF m <= n THEN q[m] ELSE b[m - n]
  BY <1>1, ConcatProperties
<1> HIDE DEF r, k, n
<1>4. PICK l \in 1 .. Len(b) - 1 : b[l] = State(i, cur)
  BY <1>1
<1>5. n + l \in 1 .. k /\ r[n + l] = State(i, cur)
  <2>1. n + l \in 1 .. k /\ ~ (n + l <= n) /\ (n + l) - n = l
    BY <1>2, <1>3
  <2>2. QED
    BY <1>3, <1>4, <2>1
<1>6. About(r[n + l], i)
  BY <1>5 DEF About, State
<1>7. ASSUME NEW m \in 1 .. k, n < m, About(r[m], i)
      PROVE  r[m].active <=> i = cur
  <2>1. m - n \in 1 .. Len(b) /\ r[m] = b[m - n]
    BY <1>2, <1>3, <1>7
  <2>2. m - n # Len(b)
    BY <1>1, <1>7, <2>1, Kinds DEF About
  <2>3. m - n \in 1 .. Len(b) - 1
    BY <1>2, <2>1, <2>2
  <2>4. PICK j \in hs : r[m] = State(j, cur)
    BY <1>1, <2>1, <2>3
  <2>5. State(j, cur).ws = j /\ State(j, cur).active = (j = cur)
    BY DEF State
  <2>6. j = i
    BY <1>7, <2>4, <2>5 DEF About
  <2>7. QED
    BY <2>4, <2>5, <2>6, Zenon
<1>8. k \in Nat
  BY <1>2, <1>3
<1>9. WillStage(r, set, i, k) <=>
        \E m \in 1 .. k : /\ About(r[m], i) /\ r[m].active
                         /\ \A j \in 1 .. k : About(r[j], i) => j <= m
  BY <1>5, <1>6, <1>8, WillStageIs
<1>10. PICK last \in 1 .. k : About(r[last], i) /\ \A j \in 1 .. k : About(r[j], i) => j <= last
  <2> DEFINE told == {m \in 1 .. k : About(r[m], i)}
             late == {k - m : m \in told}
  <2>1. n + l \in told /\ told \subseteq 1 .. k
    BY <1>5, <1>6
  <2>2. late \in SUBSET Nat /\ late # {}
    BY <1>8, <2>1
  <2> HIDE DEF late
  <2>3. PICK d \in late : \A e \in late : d <= e
    BY <2>2, LeastNumber
  <2>4. PICK m \in told : d = k - m
    BY <2>3 DEF late
  <2>5. \A j \in told : k - m <= k - j
    BY <2>3, <2>4 DEF late
  <2>6. \A j \in told : j <= m
    BY <1>8, <2>1, <2>4, <2>5
  <2>7. QED
    BY <2>1, <2>4, <2>6
<1>11. n < last
  BY <1>2, <1>5, <1>6, <1>10
<1>12. WillStage(r, set, i, k) <=> r[last].active
  BY <1>9, <1>10
<1>13. QED
  BY <1>7, <1>10, <1>11, <1>12 DEF r, k, b

(* What is in the staged set only matters for the handle asked about.      *)
LEMMA WillStageSet ==
  ASSUME NEW q, NEW set, NEW next, NEW i, NEW k, i \in next <=> i \in set
  PROVE  WillStage(q, next, i, k) <=> WillStage(q, set, i, k)
BY DEF WillStage

(* At every done in flight at most one handle will be staged.              *)
OneStaged(q, set, ks) ==
  \A k \in 1 .. Len(q) : q[k].kind = "done" =>
     \A i, j \in ks : WillStage(q, set, i, k) /\ WillStage(q, set, j, k) => i = j

NoneFinished(q) == \A k \in 1 .. Len(q) : q[k].kind # "finished"

LEMMA BurstAdded ==
  ASSUME NEW q \in Seq(Event), NEW set, NEW hs \in SUBSET Workspace,
         NEW cur \in Workspace, NEW ks \in SUBSET hs,
         OneStaged(q, set, ks), NoneFinished(q)
  PROVE  LET r == q \o States(hs, cur)
         IN  /\ r \in Seq(Event) /\ Len(r) <= Len(q) + WorkspaceCount + 1
             /\ OneStaged(r, set, ks) /\ NoneFinished(r)
<1> DEFINE b == States(hs, cur)
           r == q \o b
           n == Len(q)
<1>1. /\ b \in Seq(Event) /\ Len(b) \in 1 .. WorkspaceCount + 1
      /\ \A m \in 1 .. Len(b) - 1 : \E j \in hs : b[m] = State(j, cur)
      /\ b[Len(b)] = Done
  BY Burst
<1>2. \A i \in hs : WillStage(r, set, i, Len(r)) <=> i = cur
  BY WillStageBurst
<1> HIDE DEF b
<1>3. n \in Nat /\ Len(b) \in Nat /\ WorkspaceCount \in Nat
  BY <1>1, LenProperties, WorkspacesCount
<1>4. /\ r \in Seq(Event) /\ Len(r) = n + Len(b)
      /\ \A m \in 1 .. Len(r) : r[m] = IF m <= n THEN q[m] ELSE b[m - n]
  BY <1>1, ConcatProperties
<1> HIDE DEF r, n
<1>5. ASSUME NEW m \in 1 .. Len(r), n < m
      PROVE  r[m].kind \in {"state", "done"} /\ (r[m].kind = "done" => m = Len(r))
  <2>1. m - n \in 1 .. Len(b) /\ r[m] = b[m - n]
    BY <1>3, <1>4, <1>5
  <2>2. CASE m - n = Len(b)
    <3>1. r[m] = Done /\ m = Len(r)
      BY <1>1, <1>3, <1>4, <2>1, <2>2
    <3>2. QED
      BY <3>1, Kinds
  <2>3. CASE m - n # Len(b)
    <3>1. m - n \in 1 .. Len(b) - 1
      BY <1>3, <2>1, <2>3
    <3>2. PICK j \in hs : r[m] = State(j, cur)
      BY <1>1, <2>1, <3>1
    <3>3. QED
      BY <3>2 DEF State
  <2>4. QED
    BY <2>2, <2>3
<1>6. ASSUME NEW m \in 1 .. Len(r), ~ (n < m)
      PROVE  m \in 1 .. n /\ \A l \in 1 .. m : r[l] = q[l]
  BY <1>3, <1>4, <1>6
<1>7. NoneFinished(r)
  BY <1>5, <1>6 DEF NoneFinished, n
<1>8. OneStaged(r, set, ks)
  <2> SUFFICES ASSUME NEW m \in 1 .. Len(r), r[m].kind = "done", NEW i \in ks, NEW j \in ks,
                      WillStage(r, set, i, m), WillStage(r, set, j, m)
               PROVE  i = j
    BY DEF OneStaged
  <2>1. CASE n < m
    BY <1>2, <1>5, <2>1
  <2>2. CASE ~ (n < m)
    <3>1. m \in 1 .. n /\ m \in Nat /\ \A l \in 1 .. m : r[l] = q[l]
      BY <1>6, <2>2
    <3>2. WillStage(q, set, i, m) /\ WillStage(q, set, j, m)
      BY <3>1, WillStagePrefix
    <3>3. q[m].kind = "done"
      BY <3>1
    <3>4. QED
      BY <3>1, <3>2, <3>3 DEF OneStaged, n
  <2>3. QED
    BY <2>1, <2>2
<1>9. Len(r) <= Len(q) + WorkspaceCount + 1
  BY <1>1, <1>3, <1>4 DEF n
<1>10. QED
  BY <1>4, <1>7, <1>8, <1>9 DEF r, b

-----------------------------------------------------------------------------
(* The invariant, step by step *)

(* The same with its parts in the terms of the lemmas above.               *)
LEMMA TellsIs ==
  ASSUME NEW p \in Panel
  PROVE  Tells(p) <=>
           /\ \A k \in 1 .. Len(toClient[p]) :
                toClient[p][k].kind = "finished" => p \notin sessions /\ k = Len(toClient[p])
           /\ OneStaged(toClient[p], staged[p], kept[p])
           /\ \A i, j \in showing[p] : i = j
BY DEF Tells, OneStaged

LEMMA Untouched ==
  ASSUME NEW p \in Panel, Session(p), Asks(p), Tells(p),
         p \in sessions' <=> p \in sessions, handles'[p] = handles[p],
         toClient'[p] = toClient[p], toServer'[p] = toServer[p], panel'[p] = panel[p],
         kept'[p] = kept[p], staged'[p] = staged[p], showing'[p] = showing[p]
  PROVE  Session(p)' /\ Asks(p)' /\ Tells(p)'
<1>1. Session(p)'
  BY DEF Session
<1>2. Asks(p)'
  BY DEF Asks
<1>3. Tells(p)'
  BY DEF Tells
<1>4. QED
  BY <1>1, <1>2, <1>3

LEMMA InitInv == Init => IInv
<1> SUFFICES ASSUME Init PROVE IInv
  OBVIOUS
<1>1. 0 \in Workspace
  BY CountAssumption DEF Workspace
<1>2. Typed
  BY <1>1, EmptySeq DEF Init, Typed
<1>3. ASSUME NEW p \in Panel
      PROVE  Session(p) /\ Asks(p) /\ Tells(p)
  <2>1. /\ toClient[p] = <<>> /\ toServer[p] = <<>> /\ panel[p] = "away"
        /\ kept[p] = {} /\ staged[p] = {} /\ showing[p] = {} /\ p \notin sessions
    BY DEF Init
  <2>2. Len(toClient[p]) = 0 /\ Len(toServer[p]) = 0
    BY <2>1, EmptySeq
  <2>3. QED
    BY <2>1, <2>2, BoundAssumption DEF Session, Asks, Tells
<1>4. QED
  BY <1>2, <1>3 DEF IInv

(* A switch adds a whole burst to the queue of each session.               *)
LEMMA GoKeeps ==
  ASSUME IInv, NEW i \in Workspace, Go(i),
         UNCHANGED << sessions, handles, panel, kept, staged, showing >>
  PROVE  /\ current' \in Workspace /\ toClient' \in [Panel -> Seq(Event)]
         /\ \A p \in Panel : /\ p \notin sessions => toClient'[p] = toClient[p]
                             /\ p \in sessions => Len(toClient'[p]) <= QueueBound
                             /\ Tells(p)'
<1>1. CASE i = current
  <2>1. UNCHANGED << current, toClient >>
    BY <1>1 DEF Go
  <2>2. \A p \in Panel : Tells(p)'
    BY <2>1 DEF Tells, IInv
  <2>3. QED
    BY <2>1, <2>2 DEF IInv, Typed, Session
<1>2. CASE i # current
  <2>1. /\ current' = i /\ \A p \in sessions : Room(p)
        /\ toClient' = [p \in Panel |-> IF p \in sessions
                                        THEN toClient[p] \o States(handles[p], i)
                                        ELSE toClient[p]]
    BY <1>2 DEF Go, Notify
  <2>2. ASSUME NEW p \in Panel, p \in sessions
        PROVE  toClient'[p] \in Seq(Event) /\ Len(toClient'[p]) <= QueueBound /\ Tells(p)'
    <3>1. toClient[p] \in Seq(Event) /\ handles[p] \in SUBSET Workspace
      BY DEF IInv, Typed
    <3>2. kept[p] \in SUBSET handles[p] /\ Tells(p)
      BY <2>2 DEF IInv, Session
    <3>3. OneStaged(toClient[p], staged[p], kept[p]) /\ NoneFinished(toClient[p])
      BY <2>2, <3>2, TellsIs DEF NoneFinished
    <3>4. toClient'[p] = toClient[p] \o States(handles[p], i)
      BY <2>1, <2>2
    <3>5. /\ toClient'[p] \in Seq(Event)
          /\ Len(toClient'[p]) <= Len(toClient[p]) + WorkspaceCount + 1
          /\ OneStaged(toClient'[p], staged[p], kept[p]) /\ NoneFinished(toClient'[p])
      BY <3>1, <3>2, <3>3, <3>4, BurstAdded
    <3>6. Len(toClient'[p]) <= QueueBound
      <4>1. Len(toClient[p]) + WorkspaceCount + 1 <= QueueBound
        BY <2>1, <2>2 DEF Room
      <4>2. /\ Len(toClient'[p]) \in Nat /\ Len(toClient[p]) \in Nat
            /\ WorkspaceCount \in Nat /\ QueueBound \in Nat
        BY <3>1, <3>5, LenProperties, CountAssumption, BoundAssumption
      <4>3. QED
        BY <3>5, <4>1, <4>2
    <3>7. Tells(p)'
      BY <3>2, <3>5, TellsIs DEF Tells, OneStaged, NoneFinished
    <3>8. QED
      BY <3>5, <3>6, <3>7
  <2>3. ASSUME NEW p \in Panel, p \notin sessions
        PROVE  toClient'[p] = toClient[p] /\ toClient'[p] \in Seq(Event) /\ Tells(p)'
    <3>1. toClient'[p] = toClient[p]
      BY <2>1, <2>3
    <3>2. QED
      BY <3>1 DEF IInv, Typed, Tells
  <2>4. toClient' \in [Panel -> Seq(Event)]
    BY <2>1, <2>2, <2>3
  <2>5. QED
    BY <2>1, <2>2, <2>3, <2>4
<1>3. QED
  BY <1>1, <1>2

LEMMA LocalSwitchInv ==
  ASSUME IInv, NEW i \in Workspace, LocalSwitch(i) PROVE IInv'
<1>1. UNCHANGED << sessions, handles, toServer, panel, kept, staged, showing >>
  BY DEF LocalSwitch
<1>2. /\ current' \in Workspace /\ toClient' \in [Panel -> Seq(Event)]
      /\ \A p \in Panel : /\ p \notin sessions => toClient'[p] = toClient[p]
                          /\ p \in sessions => Len(toClient'[p]) <= QueueBound
                          /\ Tells(p)'
  BY <1>1, GoKeeps DEF LocalSwitch
<1>3. Typed'
  BY <1>1, <1>2 DEF IInv, Typed
<1>4. ASSUME NEW p \in Panel
      PROVE  Session(p)' /\ Asks(p)'
  <2>1. Session(p) /\ Asks(p) /\ Len(toClient'[p]) \in Nat
    BY <1>2, LenProperties DEF IInv
  <2>2. Asks(p)'
    BY <1>1, <2>1 DEF Asks
  <2>3. p \in sessions => Len(toClient'[p]) <= QueueBound + 1
    BY <1>2, <2>1, BoundAssumption
  <2>4. Session(p)'
    BY <1>1, <1>2, <2>1, <2>3 DEF Session
  <2>5. QED
    BY <2>2, <2>4
<1>5. QED
  BY <1>2, <1>3, <1>4 DEF IInv

LEMMA BindInv ==
  ASSUME IInv, NEW p \in Panel, Bind(p) PROVE IInv'
<1> DEFINE b == States(Workspace, current)
<1>1. Typed /\ Session(p) /\ Asks(p) /\ Tells(p)
  BY DEF IInv
<1>2. /\ p \notin sessions /\ toServer[p] = <<>>
      /\ kept[p] = {} /\ staged[p] = {} /\ showing[p] = {}
  BY <1>1 DEF Bind, Session, Typed
<1>3. /\ b \in Seq(Event) /\ Len(b) <= WorkspaceCount + 1
      /\ OneStaged(b, {}, Workspace) /\ NoneFinished(b)
  <2>1. OneStaged(<<>>, {}, Workspace) /\ NoneFinished(<<>>)
    BY EmptySeq DEF OneStaged, NoneFinished
  <2>2. b \in Seq(Event) /\ <<>> \in Seq(Event) /\ Len(<<>>) = 0 /\ current \in Workspace
    BY <1>1, Burst, EmptySeq DEF Typed
  <2>3. <<>> \o b = b
    BY <2>2, ConcatEmptySeq
  <2>4. /\ Len(<<>> \o b) <= Len(<<>>) + WorkspaceCount + 1
        /\ OneStaged(<<>> \o b, {}, Workspace) /\ NoneFinished(<<>> \o b)
    BY <2>1, <2>2, BurstAdded
  <2>5. QED
    BY <2>2, <2>3, <2>4, WorkspacesCount
<1> HIDE DEF b
<1>4. Len(b) \in Nat /\ Len(b) <= QueueBound
  BY <1>3, LenProperties, BoundAssumption, CountAssumption
<1>5. /\ sessions' = sessions \cup {p}
      /\ UNCHANGED << current, toServer, staged, showing >>
      /\ panel' = [panel EXCEPT ![p] = "bound"]
      /\ kept' = [kept EXCEPT ![p] = Workspace]
      /\ handles' = [handles EXCEPT ![p] = Workspace]
      /\ toClient' = [toClient EXCEPT ![p] = b]
  BY DEF Bind, b
<1>6. Typed'
  BY <1>1, <1>3, <1>5 DEF Typed
<1>7. /\ panel'[p] = "bound" /\ kept'[p] = Workspace /\ handles'[p] = Workspace
      /\ toClient'[p] = b /\ toServer'[p] = <<>> /\ staged'[p] = {} /\ showing'[p] = {}
      /\ p \in sessions'
  BY <1>1, <1>2, <1>5 DEF Typed
<1>8. Session(p)'
  BY <1>4, <1>7, EmptySeq, BoundAssumption DEF Session
<1>9. Asks(p)'
  BY <1>7, EmptySeq DEF Asks
<1>10. Tells(p)'
  BY <1>3, <1>7 DEF Tells, OneStaged, NoneFinished
<1>11. \A q \in Panel \ {p} : Session(q)' /\ Asks(q)' /\ Tells(q)'
  BY <1>1, <1>5, Untouched DEF IInv, Typed
<1>12. QED
  BY <1>6, <1>8, <1>9, <1>10, <1>11 DEF IInv

(* A request leaves its queue.                                             *)
LEMMA AsksTail ==
  ASSUME Typed, NEW p \in Panel, Asks(p), toServer[p] # <<>>
  PROVE  LET q == toServer[p]
         IN  /\ Tail(q) \in Seq(Ask) /\ Len(Tail(q)) = Len(q) - 1 /\ Len(q) \in Nat \ {0}
             /\ Head(q) = q[1] /\ 1 \in 1 .. Len(q)
             /\ \A k \in 1 .. Len(Tail(q)) : Tail(q)[k] = q[k + 1] /\ k + 1 \in 1 .. Len(q)
<1>1. toServer[p] \in Seq(Ask)
  BY DEF Typed
<1>2. Len(toServer[p]) \in Nat \ {0}
  BY <1>1, HeadTailProperties, EmptySeq, LenProperties
<1>3. /\ Tail(toServer[p]) \in Seq(Ask) /\ Len(Tail(toServer[p])) = Len(toServer[p]) - 1
      /\ \A k \in 1 .. Len(Tail(toServer[p])) : Tail(toServer[p])[k] = toServer[p][k + 1]
  BY <1>1, HeadTailProperties
<1>4. QED
  BY <1>2, <1>3

LEMMA AskKinds ==
  \A r \in Ask : r.kind \in {"activate", "destroy", "stop"}
                 /\ (r.kind # "stop" => r.ws \in Workspace)
BY DEF Ask

(* What the queue of requests says still holds of the rest of it when the  *)
(* handle a destroy names goes.                                            *)
LEMMA AsksAfter ==
  ASSUME Typed, NEW p \in Panel, Asks(p), toServer[p] # <<>>,
         toServer'[p] = Tail(toServer[p]), panel'[p] = panel[p], kept'[p] = kept[p],
         p \in sessions' <=> p \in sessions,
         \/ handles'[p] = handles[p]
         \/ /\ Head(toServer[p]).kind = "destroy"
            /\ handles'[p] = handles[p] \ {Head(toServer[p]).ws}
  PROVE  Asks(p)'
<1> DEFINE q == toServer[p]
           r == Tail(q)
<1>1. /\ Len(r) = Len(q) - 1 /\ Len(q) \in Nat \ {0} /\ Head(q) = q[1]
      /\ 1 \in 1 .. Len(q)
      /\ \A k \in 1 .. Len(r) : r[k] = q[k + 1] /\ k + 1 \in 1 .. Len(q)
  BY AsksTail
<1> HIDE DEF r
<1> SUFFICES ASSUME NEW k \in 1 .. Len(r)
             PROVE  /\ p \in sessions
                    /\ r[k].kind = "stop" => k = Len(r) /\ panel[p] = "stopping"
                    /\ r[k].kind = "destroy" => r[k].ws \notin kept[p]
                    /\ r[k].kind # "stop" =>
                         /\ r[k].ws \in handles'[p]
                         /\ \A j \in 1 .. k - 1 : r[j].kind = "destroy" => r[j].ws # r[k].ws
  BY DEF Asks, r
<1>2. PICK l \in 1 .. Len(q) : l = k + 1
  BY <1>1
<1>3. r[k] = q[l]
  BY <1>1, <1>2
<1>4. /\ p \in sessions
      /\ q[l].kind = "stop" => l = Len(q) /\ panel[p] = "stopping"
      /\ q[l].kind = "destroy" => q[l].ws \notin kept[p]
      /\ q[l].kind # "stop" =>
           /\ q[l].ws \in handles[p]
           /\ \A j \in 1 .. l - 1 : q[j].kind = "destroy" => q[j].ws # q[l].ws
  BY DEF Asks
<1>5. l = Len(q) => k = Len(r)
  BY <1>1, <1>2
<1>6. 1 \in 1 .. l - 1
  BY <1>1, <1>2
<1>7. q[l].kind # "stop" => q[l].ws \in handles'[p]
  BY <1>1, <1>4, <1>6
<1>8. ASSUME q[l].kind # "stop", NEW j \in 1 .. k - 1, r[j].kind = "destroy"
      PROVE  r[j].ws # q[l].ws
  <2>1. j + 1 \in 1 .. l - 1 /\ j \in 1 .. Len(r)
    BY <1>1, <1>2
  <2>2. r[j] = q[j + 1]
    BY <1>1, <2>1
  <2>3. QED
    BY <1>4, <1>8, <2>1, <2>2
<1>9. QED
  BY <1>3, <1>4, <1>5, <1>7, <1>8

LEMMA DispatchInv ==
  ASSUME IInv, NEW p \in Panel, Dispatch(p) PROVE IInv'
<1> DEFINE q == toServer[p]
           r == Head(q)
<1>1. Typed /\ Session(p) /\ Asks(p) /\ Tells(p)
  BY DEF IInv
<1>2. q # <<>> /\ toServer' = [toServer EXCEPT ![p] = Tail(q)]
      /\ UNCHANGED << panel, kept, staged, showing >>
  BY <1>1 DEF Dispatch, client, Typed
<1>3. /\ Tail(q) \in Seq(Ask) /\ Len(Tail(q)) = Len(q) - 1 /\ Len(q) \in Nat \ {0}
      /\ Head(q) = q[1] /\ 1 \in 1 .. Len(q)
  BY <1>1, <1>2, AsksTail
<1>4. toServer'[p] = Tail(q) /\ \A x \in Panel \ {p} : toServer'[x] = toServer[x]
  BY <1>1, <1>2 DEF Typed
<1>5. toServer' \in [Panel -> Seq(Ask)] /\ Len(toServer'[p]) <= RequestBound
  <2>1. toServer' \in [Panel -> Seq(Ask)]
    BY <1>1, <1>2, <1>3 DEF Typed
  <2>2. Len(q) <= RequestBound /\ RequestBound \in Nat
    BY <1>1, BoundAssumption DEF Session
  <2>3. QED
    BY <1>3, <1>4, <2>1, <2>2
<1>6. r \in Ask /\ p \in sessions
  <2>1. q \in Seq(Ask)
    BY <1>1 DEF Typed
  <2>2. QED
    BY <1>1, <1>2, <1>3, <2>1 DEF Asks
<1>7. CASE r.kind = "activate" /\ HandleActivate(p, r.ws)
  <2>1. r.ws \in Workspace /\ Go(r.ws) /\ UNCHANGED << sessions, handles >>
    BY <1>6, <1>7, AskKinds DEF HandleActivate
  <2>2. /\ current' \in Workspace /\ toClient' \in [Panel -> Seq(Event)]
        /\ \A x \in Panel : /\ x \notin sessions => toClient'[x] = toClient[x]
                            /\ x \in sessions => Len(toClient'[x]) <= QueueBound
                            /\ Tells(x)'
    BY <1>2, <2>1, GoKeeps
  <2>3. Typed'
    BY <1>1, <1>2, <1>5, <2>1, <2>2 DEF Typed
  <2>4. Asks(p)'
    BY <1>1, <1>2, <1>4, <2>1, AsksAfter
  <2>5. \A x \in Panel \ {p} : Asks(x)'
    BY <1>2, <1>4, <2>1 DEF IInv, Asks
  <2>6. ASSUME NEW x \in Panel
        PROVE  Session(x)'
    <3>1. Session(x) /\ Len(toClient'[x]) \in Nat
      BY <2>2, LenProperties DEF IInv
    <3>2. /\ x \in sessions => Len(toClient'[x]) <= QueueBound + 1
          /\ x \notin sessions => toClient'[x] = toClient[x]
      BY <2>2, <3>1, BoundAssumption
    <3>3. Len(toServer'[x]) <= RequestBound
      BY <1>4, <1>5, <3>1 DEF Session
    <3>4. panel[x] = "away" => toServer'[x] = <<>>
      BY <1>2, <1>4, <3>1 DEF Session
    <3>5. QED
      BY <1>2, <2>1, <2>2, <3>1, <3>2, <3>3, <3>4 DEF Session
  <2>7. QED
    BY <2>2, <2>3, <2>4, <2>5, <2>6 DEF IInv
<1>8. CASE r.kind = "destroy" /\ HandleDestroy(p, r.ws)
  <2>1. /\ handles' = [handles EXCEPT ![p] = handles[p] \ {r.ws}]
        /\ UNCHANGED << current, sessions, toClient >>
    BY <1>1, <1>8 DEF HandleDestroy, Typed
  <2>2. handles'[p] = handles[p] \ {r.ws} /\ \A x \in Panel \ {p} : handles'[x] = handles[x]
    BY <1>1, <2>1 DEF Typed
  <2>3. Typed'
    BY <1>1, <1>2, <1>5, <2>1 DEF Typed
  <2>4. Asks(p)'
    BY <1>1, <1>2, <1>4, <1>8, <2>1, <2>2, AsksAfter
  <2>5. r.ws \notin kept[p]
    BY <1>1, <1>3, <1>8 DEF Asks
  <2>6. panel[p] # "away"
    BY <1>1, <1>2 DEF Session
  <2>7. Session(p)'
    BY <1>1, <1>2, <1>4, <1>5, <2>1, <2>2, <2>5, <2>6 DEF Session
  <2>8. Tells(p)'
    BY <1>1, <1>2, <2>1 DEF Tells
  <2>9. \A x \in Panel \ {p} : Session(x)' /\ Asks(x)' /\ Tells(x)'
    BY <1>2, <1>4, <2>1, <2>2, Untouched DEF IInv
  <2>10. QED
    BY <2>3, <2>4, <2>7, <2>8, <2>9 DEF IInv
<1>9. CASE r.kind = "stop" /\ ManagerStop(p)
  <2> DEFINE t == toClient[p]
             u == Append(t, Finished)
  <2>1. /\ sessions' = sessions \ {p} /\ UNCHANGED current
        /\ handles' = [handles EXCEPT ![p] = {}]
        /\ toClient' = [toClient EXCEPT ![p] = u]
    BY <1>1, <1>9 DEF ManagerStop, DropSession, Typed
  <2>2. t \in Seq(Event) /\ Len(t) \in Nat
    BY <1>1, LenProperties DEF Typed
  <2>3. /\ u \in Seq(Event) /\ Len(u) = Len(t) + 1 /\ u[Len(t) + 1] = Finished
        /\ \A k \in 1 .. Len(t) : u[k] = t[k]
    BY <2>2, Kinds, AppendProperties
  <2> HIDE DEF u
  <2>4. /\ panel[p] = "stopping" /\ Len(q) = 1
    BY <1>1, <1>3, <1>9 DEF Asks
  <2>5. Typed'
    BY <1>1, <1>2, <1>5, <2>1, <2>3 DEF Typed
  <2>6. /\ p \notin sessions' /\ toClient'[p] = u /\ handles'[p] = {}
        /\ \A x \in Panel \ {p} : handles'[x] = handles[x] /\ toClient'[x] = toClient[x]
                                  /\ (x \in sessions' <=> x \in sessions)
    BY <1>1, <2>1 DEF Typed
  <2>7. Session(p)'
    <3>1. Len(u) <= QueueBound + 1
      BY <1>1, <1>6, <2>2, <2>3, BoundAssumption DEF Session
    <3>2. QED
      BY <1>1, <1>2, <1>5, <2>4, <2>6, <3>1 DEF Session
  <2>8. Asks(p)'
    <3>1. Len(toServer'[p]) = 0
      BY <1>3, <1>4, <2>4
    <3>2. QED
      BY <3>1 DEF Asks
  <2>9. Tells(p)'
    <3>1. ASSUME NEW k \in 1 .. Len(u)
          PROVE  /\ u[k].kind = "finished" => k = Len(u)
                 /\ u[k].kind = "done" =>
                      \A i, j \in kept[p] :
                         WillStage(u, staged[p], i, k) /\ WillStage(u, staged[p], j, k) => i = j
      <4>1. CASE k = Len(t) + 1
        BY <2>3, <4>1, Kinds
      <4>2. CASE k # Len(t) + 1
        <5>1. k \in 1 .. Len(t) /\ k \in Nat /\ \A l \in 1 .. k : u[l] = t[l]
          BY <2>2, <2>3, <4>2
        <5>2. \A i \in kept[p] : WillStage(u, staged[p], i, k) <=> WillStage(t, staged[p], i, k)
          BY <5>1, WillStagePrefix
        <5>3. u[k].kind # "finished"
          BY <1>1, <1>6, <5>1 DEF Tells
        <5>4. QED
          BY <1>1, <5>1, <5>2, <5>3 DEF Tells
      <4>3. QED
        BY <4>1, <4>2
    <3>2. \A i, j \in showing[p] : i = j
      BY <1>1 DEF Tells
    <3>3. QED
      BY <1>2, <2>6, <3>1, <3>2 DEF Tells
  <2>10. \A x \in Panel \ {p} : Session(x)' /\ Asks(x)' /\ Tells(x)'
    BY <1>2, <1>4, <2>6, Untouched DEF IInv
  <2>11. QED
    BY <2>5, <2>7, <2>8, <2>9, <2>10 DEF IInv
<1>10. QED
  BY <1>7, <1>8, <1>9 DEF Dispatch

(* A panel that is ready has not asked to stop, and its request joins the  *)
(* end of its queue.                                                       *)
LEMMA RequestAdds ==
  ASSUME IInv, NEW p \in Panel, NEW r \in Ask, Request(p, r)
  PROVE  LET q == toServer[p]
         IN  /\ p \in sessions /\ panel[p] = "ready" /\ Len(q) \in Nat
             /\ toServer' = [toServer EXCEPT ![p] = Append(q, r)]
             /\ toServer' \in [Panel -> Seq(Ask)] /\ toServer'[p] = Append(q, r)
             /\ \A x \in Panel \ {p} : toServer'[x] = toServer[x]
             /\ Len(Append(q, r)) = Len(q) + 1 /\ Len(q) + 1 <= RequestBound
             /\ Append(q, r)[Len(q) + 1] = r
             /\ \A k \in 1 .. Len(q) : /\ Append(q, r)[k] = q[k]
                                       /\ q[k].kind # "stop" /\ q[k].ws \in handles[p]
                                       /\ q[k].kind = "destroy" => q[k].ws \notin kept[p]
             /\ UNCHANGED << current, sessions, handles, toClient >>
<1>1. Typed /\ Session(p) /\ Asks(p)
  BY DEF IInv
<1>2. toServer[p] \in Seq(Ask) /\ Len(toServer[p]) \in Nat
  BY <1>1, LenProperties DEF Typed
<1>3. /\ Append(toServer[p], r) \in Seq(Ask)
      /\ Len(Append(toServer[p], r)) = Len(toServer[p]) + 1
      /\ Append(toServer[p], r)[Len(toServer[p]) + 1] = r
      /\ \A k \in 1 .. Len(toServer[p]) : Append(toServer[p], r)[k] = toServer[p][k]
  BY <1>2, AppendProperties
<1>4. /\ panel[p] = "ready" /\ Len(toServer[p]) < RequestBound
      /\ toServer' = [toServer EXCEPT ![p] = Append(toServer[p], r)]
      /\ UNCHANGED << current, sessions, handles, toClient >>
  BY <1>1 DEF Request, Typed
<1>5. p \in sessions
  BY <1>1, <1>4 DEF Session
<1>6. \A k \in 1 .. Len(toServer[p]) :
        /\ toServer[p][k].kind # "stop" /\ toServer[p][k].ws \in handles[p]
        /\ toServer[p][k].kind = "destroy" => toServer[p][k].ws \notin kept[p]
  BY <1>1, <1>4 DEF Asks
<1>7. toServer' \in [Panel -> Seq(Ask)] /\ toServer'[p] = Append(toServer[p], r)
      /\ \A x \in Panel \ {p} : toServer'[x] = toServer[x]
  BY <1>1, <1>3, <1>4 DEF Typed
<1>8. Len(toServer[p]) + 1 <= RequestBound
  BY <1>2, <1>4, BoundAssumption
<1>9. QED
  BY <1>2, <1>3, <1>4, <1>5, <1>6, <1>7, <1>8

(* A request about a handle the panel kept until then.                     *)
LEMMA AsksAdded ==
  ASSUME IInv, NEW p \in Panel, NEW r \in Ask, Request(p, r),
         kept'[p] \subseteq kept[p],
         r.kind = "stop" => panel'[p] = "stopping",
         r.kind # "stop" => r.ws \in kept[p],
         r.kind = "destroy" => r.ws \notin kept'[p]
  PROVE  Asks(p)'
<1> DEFINE q == toServer[p]
           u == Append(q, r)
<1>1. /\ p \in sessions /\ panel[p] = "ready" /\ Len(q) \in Nat
      /\ toServer'[p] = u /\ Len(u) = Len(q) + 1 /\ u[Len(q) + 1] = r
      /\ \A k \in 1 .. Len(q) : /\ u[k] = q[k]
                                /\ q[k].kind # "stop" /\ q[k].ws \in handles[p]
                                /\ q[k].kind = "destroy" => q[k].ws \notin kept[p]
      /\ UNCHANGED << current, sessions, handles, toClient >>
  BY RequestAdds
<1>2. Asks(p) /\ Session(p)
  BY DEF IInv
<1>3. kept[p] \subseteq handles[p]
  BY <1>1, <1>2 DEF Session
<1> HIDE DEF u
<1> SUFFICES ASSUME NEW k \in 1 .. Len(u)
             PROVE  /\ u[k].kind = "stop" => k = Len(u) /\ panel'[p] = "stopping"
                    /\ u[k].kind = "destroy" => u[k].ws \notin kept'[p]
                    /\ u[k].kind # "stop" =>
                         /\ u[k].ws \in handles[p]
                         /\ \A j \in 1 .. k - 1 : u[j].kind = "destroy" => u[j].ws # u[k].ws
  BY <1>1 DEF Asks
<1>4. CASE k = Len(u)
  <2>1. u[k] = r
    BY <1>1, <1>4
  <2>2. \A j \in 1 .. k - 1 : j \in 1 .. Len(q)
    BY <1>1, <1>4
  <2>3. \A j \in 1 .. k - 1 : u[j].kind = "destroy" => u[j].ws \notin kept[p]
    BY <1>1, <2>2
  <2>4. r.kind # "stop" => r.ws \in handles[p]
    BY <1>3
  <2>5. r.kind # "stop" => \A j \in 1 .. k - 1 : u[j].kind = "destroy" => u[j].ws # r.ws
    BY <2>3
  <2>6. QED
    BY <1>4, <2>1, <2>4, <2>5
<1>5. CASE k # Len(u)
  <2>1. k \in 1 .. Len(q) /\ u[k] = q[k]
    BY <1>1, <1>5
  <2>2. \A j \in 1 .. k - 1 : j \in 1 .. Len(q)
    BY <1>1, <2>1
  <2>3. \A j \in 1 .. k - 1 : u[j] = q[j]
    BY <1>1, <2>2
  <2>4. q[k].kind # "stop" /\ q[k].ws \in handles[p]
    BY <1>1, <2>1
  <2>5. q[k].kind = "destroy" => q[k].ws \notin kept[p]
    BY <1>1, <2>1
  <2>6. \A j \in 1 .. k - 1 : q[j].kind = "destroy" => q[j].ws # q[k].ws
    BY <1>2, <2>1, <2>4 DEF Asks
  <2>7. QED
    BY <2>1, <2>3, <2>4, <2>5, <2>6
<1>6. QED
  BY <1>4, <1>5

(* What a request leaves to prove: the panel's own part of the invariant.  *)
LEMMA RequestInv ==
  ASSUME IInv, NEW p \in Panel, NEW r \in Ask, Request(p, r), Asks(p)',
         NEW s \in {"ready", "stopping"}, NEW gone \in SUBSET Workspace,
         panel' = [panel EXCEPT ![p] = s],
         kept' = [kept EXCEPT ![p] = kept[p] \ gone],
         staged' = [staged EXCEPT ![p] = staged[p] \ gone],
         showing' = [showing EXCEPT ![p] = showing[p] \ gone]
  PROVE  IInv'
<1>1. Typed /\ Session(p) /\ Asks(p) /\ Tells(p)
  BY DEF IInv
<1>2. /\ p \in sessions /\ panel[p] = "ready" /\ Len(toServer[p]) \in Nat
      /\ toServer' \in [Panel -> Seq(Ask)] /\ toServer'[p] = Append(toServer[p], r)
      /\ Len(toServer'[p]) <= RequestBound
      /\ \A x \in Panel \ {p} : toServer'[x] = toServer[x]
      /\ UNCHANGED << current, sessions, handles, toClient >>
  BY RequestAdds
<1>3. Typed'
  BY <1>1, <1>2 DEF Typed
<1>4. /\ panel'[p] = s /\ kept'[p] = kept[p] \ gone
      /\ staged'[p] = staged[p] \ gone /\ showing'[p] = showing[p] \ gone
      /\ \A x \in Panel \ {p} : /\ panel'[x] = panel[x] /\ kept'[x] = kept[x]
                                /\ staged'[x] = staged[x] /\ showing'[x] = showing[x]
  BY <1>1 DEF Typed
<1>5. Session(p)'
  BY <1>1, <1>2, <1>4 DEF Session
<1>6. Tells(p)'
  <2>1. \A i \in kept'[p] : i \in kept[p] /\ (i \in staged'[p] <=> i \in staged[p])
    BY <1>4
  <2>2. \A i \in kept'[p] : \A k \in 1 .. Len(toClient[p]) :
          WillStage(toClient[p], staged'[p], i, k) <=> WillStage(toClient[p], staged[p], i, k)
    BY <2>1, WillStageSet
  <2>3. \A i, j \in showing'[p] : i = j
    BY <1>1, <1>4 DEF Tells
  <2>4. \A k \in 1 .. Len(toClient[p]) :
          /\ toClient[p][k].kind = "finished" => p \notin sessions /\ k = Len(toClient[p])
          /\ toClient[p][k].kind = "done" =>
               \A i, j \in kept[p] :
                  WillStage(toClient[p], staged[p], i, k) /\ WillStage(toClient[p], staged[p], j, k)
                    => i = j
    BY <1>1 DEF Tells
  <2>5. QED
    BY <1>2, <2>1, <2>2, <2>3, <2>4 DEF Tells
<1>7. \A x \in Panel \ {p} : Session(x)' /\ Asks(x)' /\ Tells(x)'
  BY <1>2, <1>4, Untouched DEF IInv
<1>8. QED
  BY <1>3, <1>5, <1>6, <1>7 DEF IInv

LEMMA AskActivateInv ==
  ASSUME IInv, NEW p \in Panel, NEW i \in Workspace, AskActivate(p, i) PROVE IInv'
<1> DEFINE r == [kind |-> "activate", ws |-> i]
<1>1. r \in Ask /\ r.kind = "activate" /\ r.ws = i
  BY DEF Ask
<1>2. i \in kept[p] /\ Request(p, r) /\ UNCHANGED << panel, kept, staged, showing >>
  BY DEF AskActivate, client
<1> HIDE DEF r
<1>3. Asks(p)'
  BY <1>1, <1>2, AsksAdded
<1>4. panel[p] = "ready"
  BY <1>1, <1>2, RequestAdds
<1>5. /\ panel' = [panel EXCEPT ![p] = "ready"] /\ kept' = [kept EXCEPT ![p] = kept[p] \ {}]
      /\ staged' = [staged EXCEPT ![p] = staged[p] \ {}]
      /\ showing' = [showing EXCEPT ![p] = showing[p] \ {}]
  BY <1>2, <1>4 DEF IInv, Typed
<1>6. PICK s \in {"ready", "stopping"} : s = "ready"
  OBVIOUS
<1>7. PICK gone \in SUBSET Workspace : gone = {}
  OBVIOUS
<1>8. QED
  BY <1>1, <1>2, <1>3, <1>5, <1>6, <1>7, RequestInv

LEMMA AskDestroyInv ==
  ASSUME IInv, NEW p \in Panel, NEW i \in Workspace, AskDestroy(p, i) PROVE IInv'
<1> DEFINE r == [kind |-> "destroy", ws |-> i]
<1>1. r \in Ask /\ r.kind = "destroy" /\ r.ws = i
  BY DEF Ask
<1>2. /\ i \in kept[p] /\ Request(p, r) /\ panel' = panel
      /\ kept' = [kept EXCEPT ![p] = kept[p] \ {i}]
      /\ staged' = [staged EXCEPT ![p] = staged[p] \ {i}]
      /\ showing' = [showing EXCEPT ![p] = showing[p] \ {i}]
  BY DEF AskDestroy, IInv, Typed
<1> HIDE DEF r
<1>3. kept'[p] = kept[p] \ {i}
  BY <1>2 DEF IInv, Typed
<1>4. Asks(p)'
  BY <1>1, <1>2, <1>3, AsksAdded
<1>5. panel[p] = "ready"
  BY <1>1, <1>2, RequestAdds
<1>6. panel' = [panel EXCEPT ![p] = "ready"]
  BY <1>2, <1>5 DEF IInv, Typed
<1>7. PICK s \in {"ready", "stopping"} : s = "ready"
  OBVIOUS
<1>8. PICK gone \in SUBSET Workspace : gone = {i}
  OBVIOUS
<1>9. QED
  BY <1>1, <1>2, <1>4, <1>6, <1>7, <1>8, RequestInv

LEMMA AskStopInv ==
  ASSUME IInv, NEW p \in Panel, AskStop(p) PROVE IInv'
<1> DEFINE r == [kind |-> "stop"]
<1>1. r \in Ask /\ r.kind = "stop"
  BY DEF Ask
<1>2. /\ Request(p, r) /\ panel' = [panel EXCEPT ![p] = "stopping"]
      /\ UNCHANGED << kept, staged, showing >>
  BY DEF AskStop
<1> HIDE DEF r
<1>3. panel'[p] = "stopping"
  BY <1>2 DEF IInv, Typed
<1>4. Asks(p)'
  BY <1>1, <1>2, <1>3, AsksAdded
<1>5. /\ kept' = [kept EXCEPT ![p] = kept[p] \ {}]
      /\ staged' = [staged EXCEPT ![p] = staged[p] \ {}]
      /\ showing' = [showing EXCEPT ![p] = showing[p] \ {}]
  BY <1>2 DEF IInv, Typed
<1>6. PICK s \in {"ready", "stopping"} : s = "stopping"
  OBVIOUS
<1>7. PICK gone \in SUBSET Workspace : gone = {}
  OBVIOUS
<1>8. QED
  BY <1>1, <1>2, <1>4, <1>5, <1>6, <1>7, RequestInv

(* The events left to read once the first has been read, if what is staged *)
(* now is what that event made of it.                                      *)
LEMMA OneStagedTail ==
  ASSUME NEW q \in Seq(Event), q # <<>>, NEW set, NEW next, NEW ks,
         OneStaged(q, set, ks),
         \A i \in ks : i \in next <=> IF About(Head(q), i) THEN Head(q).active ELSE i \in set
  PROVE  OneStaged(Tail(q), next, ks)
<1> DEFINE r == Tail(q)
<1>1. /\ Len(r) = Len(q) - 1 /\ Len(q) \in Nat \ {0}
      /\ \A k \in 1 .. Len(r) : r[k] = q[k + 1]
  BY HeadTailProperties, EmptySeq, LenProperties
<1>2. \A i \in ks : \A k \in 0 .. Len(q) - 1 : WillStage(r, next, i, k) <=> WillStage(q, set, i, k + 1)
  BY WillStageTail
<1> HIDE DEF r
<1> SUFFICES ASSUME NEW k \in 1 .. Len(r), r[k].kind = "done", NEW i \in ks, NEW j \in ks,
                    WillStage(r, next, i, k), WillStage(r, next, j, k)
             PROVE  i = j
  BY DEF OneStaged, r
<1>3. k \in 0 .. Len(q) - 1 /\ k + 1 \in 1 .. Len(q)
  BY <1>1
<1>4. WillStage(q, set, i, k + 1) /\ WillStage(q, set, j, k + 1)
  BY <1>2, <1>3
<1>5. q[k + 1].kind = "done"
  BY <1>1
<1>6. QED
  BY <1>3, <1>4, <1>5 DEF OneStaged

LEMMA ReadInv ==
  ASSUME IInv, NEW p \in Panel, Read(p) PROVE IInv'
<1> DEFINE q == toClient[p]
           m == Head(q)
<1>1. Typed /\ Session(p) /\ Asks(p) /\ Tells(p)
  BY DEF IInv
<1>2. /\ q # <<>> /\ toClient' = [toClient EXCEPT ![p] = Tail(q)]
      /\ UNCHANGED << current, sessions, handles, toServer >>
  BY <1>1 DEF Read, Typed
<1>3. /\ q \in Seq(Event) /\ Len(q) \in Nat \ {0} /\ m = q[1] /\ 1 \in 1 .. Len(q) /\ m \in Event
      /\ Tail(q) \in Seq(Event) /\ Len(Tail(q)) = Len(q) - 1
      /\ \A k \in 1 .. Len(Tail(q)) : Tail(q)[k] = q[k + 1] /\ k + 1 \in 1 .. Len(q)
  <2>1. q \in Seq(Event)
    BY <1>1 DEF Typed
  <2>2. Len(q) \in Nat \ {0}
    BY <1>2, <2>1, EmptySeq, LenProperties
  <2>3. /\ Tail(q) \in Seq(Event) /\ Len(Tail(q)) = Len(q) - 1
        /\ \A k \in 1 .. Len(Tail(q)) : Tail(q)[k] = q[k + 1]
    BY <1>2, <2>1, HeadTailProperties
  <2>4. m = q[1] /\ m \in Event
    BY <2>1, <2>2
  <2>5. QED
    BY <2>1, <2>2, <2>3, <2>4
<1>4. toClient' \in [Panel -> Seq(Event)] /\ toClient'[p] = Tail(q)
      /\ \A x \in Panel \ {p} : toClient'[x] = toClient[x]
  BY <1>1, <1>2, <1>3 DEF Typed
<1>5. panel[p] # "away"
  BY <1>1, <1>2 DEF Session
<1>6. /\ OneStaged(q, staged[p], kept[p]) /\ \A i, j \in showing[p] : i = j
      /\ \A k \in 1 .. Len(q) : q[k].kind = "finished" => p \notin sessions /\ k = Len(q)
  BY <1>1, TellsIs
<1>7. \A k \in 1 .. Len(Tail(q)) : Tail(q)[k].kind = "finished" =>
                                     p \notin sessions /\ k = Len(Tail(q))
  <2>1. ASSUME NEW k \in 1 .. Len(Tail(q)), Tail(q)[k].kind = "finished"
        PROVE  p \notin sessions /\ k = Len(Tail(q))
    <3>1. Tail(q)[k] = q[k + 1] /\ k + 1 \in 1 .. Len(q)
      BY <1>3
    <3>2. p \notin sessions /\ k + 1 = Len(q)
      BY <1>6, <2>1, <3>1
    <3>3. QED
      BY <1>3, <3>2
  <2>2. QED
    BY <2>1
<1>8. /\ Len(Tail(q)) <= QueueBound + 1 /\ (p \in sessions => Len(Tail(q)) <= QueueBound)
  BY <1>1, <1>3, BoundAssumption DEF Session
<1>9. CASE m.kind = "state" /\ ReadState(p, m)
  <2> DEFINE next == IF m.active /\ m.ws \in kept[p] THEN staged[p] \cup {m.ws}
                     ELSE staged[p] \ {m.ws}
  <2>1. staged' = [staged EXCEPT ![p] = next] /\ UNCHANGED << panel, kept, showing >>
    BY <1>1, <1>9 DEF ReadState, Typed
  <2>2. m.ws \in Workspace /\ m.active \in BOOLEAN
    BY <1>3, <1>9, Kinds
  <2>3. Typed'
    BY <1>1, <1>2, <1>4, <2>1, <2>2 DEF Typed
  <2>4. /\ staged'[p] = next /\ \A x \in Panel \ {p} : staged'[x] = staged[x]
    BY <1>1, <2>1 DEF Typed
  <2>5. \A i \in kept[p] : i \in next <=> IF About(m, i) THEN m.active ELSE i \in staged[p]
    BY <1>9 DEF About
  <2>6. next \subseteq kept[p]
    BY <1>1 DEF Session
  <2> HIDE DEF next
  <2>7. OneStaged(Tail(q), next, kept[p])
    BY <1>2, <1>3, <1>6, <2>5, OneStagedTail
  <2>8. Session(p)'
    BY <1>1, <1>2, <1>4, <1>5, <1>8, <2>1, <2>4, <2>6 DEF Session
  <2>9. Asks(p)'
    BY <1>1, <1>2, <2>1 DEF Asks
  <2>10. Tells(p)'
    BY <1>2, <1>4, <1>6, <1>7, <2>1, <2>4, <2>7 DEF Tells, OneStaged
  <2>11. \A x \in Panel \ {p} : Session(x)' /\ Asks(x)' /\ Tells(x)'
    BY <1>2, <1>4, <2>1, <2>4, Untouched DEF IInv
  <2>12. QED
    BY <2>3, <2>8, <2>9, <2>10, <2>11 DEF IInv
<1>10. CASE m.kind = "done" /\ ReadDone(p)
  <2> DEFINE s == IF panel[p] = "bound" THEN "ready" ELSE panel[p]
  <2>1. /\ showing' = [showing EXCEPT ![p] = staged[p]] /\ UNCHANGED << kept, staged >>
        /\ panel' = [panel EXCEPT ![p] = s]
    BY <1>1, <1>10 DEF ReadDone, Typed
  <2>2. s \in {"ready", "stopping"} /\ (s = "ready" => p \in sessions)
        /\ (panel[p] = "stopping" => s = "stopping")
    BY <1>1, <1>5 DEF Typed, Session
  <2> HIDE DEF s
  <2>3. Typed'
    BY <1>1, <1>2, <1>4, <2>1, <2>2 DEF Typed
  <2>4. /\ panel'[p] = s /\ showing'[p] = staged[p]
        /\ \A x \in Panel \ {p} : panel'[x] = panel[x] /\ showing'[x] = showing[x]
    BY <1>1, <2>1 DEF Typed
  <2>5. \A i \in kept[p] : WillStage(q, staged[p], i, 1) <=> i \in staged[p]
    <3>1. \A n \in 1 .. 1 : \A i \in kept[p] : ~ About(q[n], i)
      BY <1>3, <1>10 DEF About
    <3>2. QED
      BY <3>1, WillStageIs
  <2>6. staged[p] \subseteq kept[p] /\ \A i, j \in staged[p] : i = j
    BY <1>1, <1>3, <1>6, <1>10, <2>5 DEF OneStaged, Session
  <2>7. OneStaged(Tail(q), staged[p], kept[p])
    <3>1. \A i : ~ About(m, i)
      BY <1>10 DEF About
    <3>2. QED
      BY <1>2, <1>3, <1>6, <3>1, OneStagedTail
  <2>8. Session(p)'
    BY <1>1, <1>2, <1>4, <1>8, <2>1, <2>2, <2>4, <2>6 DEF Session
  <2>9. Asks(p)'
    BY <1>1, <1>2, <2>1, <2>2, <2>4 DEF Asks
  <2>10. Tells(p)'
    BY <1>2, <1>4, <1>7, <2>1, <2>4, <2>6, <2>7 DEF Tells, OneStaged
  <2>11. \A x \in Panel \ {p} : Session(x)' /\ Asks(x)' /\ Tells(x)'
    BY <1>2, <1>4, <2>1, <2>4, Untouched DEF IInv
  <2>12. QED
    BY <2>3, <2>8, <2>9, <2>10, <2>11 DEF IInv
<1>11. CASE m.kind = "finished" /\ ForgetAll(p)
  <2>1. p \notin sessions /\ Len(q) = 1
    BY <1>3, <1>6, <1>11
  <2>2. Len(Tail(q)) = 0 /\ Tail(q) = <<>>
    BY <1>3, <2>1, EmptySeq
  <2>3. toServer[p] = <<>> /\ Len(toServer[p]) = 0
    <3>1. toServer[p] \in Seq(Ask) /\ Len(toServer[p]) \in Nat
      BY <1>1, LenProperties DEF Typed
    <3>2. ~ (1 \in 1 .. Len(toServer[p]))
      BY <1>1, <2>1 DEF Asks
    <3>3. Len(toServer[p]) = 0
      BY <3>1, <3>2
    <3>4. QED
      BY <3>1, <3>3, EmptySeq
  <2>4. /\ panel' = [panel EXCEPT ![p] = "away"] /\ kept' = [kept EXCEPT ![p] = {}]
        /\ staged' = [staged EXCEPT ![p] = {}] /\ showing' = [showing EXCEPT ![p] = {}]
    BY <1>11 DEF ForgetAll
  <2>5. Typed'
    BY <1>1, <1>2, <1>4, <2>4 DEF Typed
  <2>6. /\ panel'[p] = "away" /\ kept'[p] = {} /\ staged'[p] = {} /\ showing'[p] = {}
        /\ \A x \in Panel \ {p} : /\ panel'[x] = panel[x] /\ kept'[x] = kept[x]
                                  /\ staged'[x] = staged[x] /\ showing'[x] = showing[x]
    BY <1>1, <2>4 DEF Typed
  <2>7. Session(p)'
    BY <1>2, <1>4, <2>1, <2>2, <2>3, <2>6, BoundAssumption DEF Session
  <2>8. Asks(p)' /\ Tells(p)'
    BY <1>2, <1>4, <2>2, <2>3, <2>6 DEF Asks, Tells
  <2>9. \A x \in Panel \ {p} : Session(x)' /\ Asks(x)' /\ Tells(x)'
    BY <1>2, <1>4, <2>6, Untouched DEF IInv
  <2>10. QED
    BY <2>5, <2>7, <2>8, <2>9 DEF IInv
<1>12. QED
  BY <1>9, <1>10, <1>11 DEF Read

LEMMA DisconnectInv ==
  ASSUME IInv, NEW p \in Panel, Disconnect(p) PROVE IInv'
<1>1. /\ sessions' = sessions \ {p} /\ UNCHANGED current
      /\ handles' = [handles EXCEPT ![p] = {}]
      /\ toClient' = [toClient EXCEPT ![p] = <<>>] /\ toServer' = [toServer EXCEPT ![p] = <<>>]
      /\ panel' = [panel EXCEPT ![p] = "away"] /\ kept' = [kept EXCEPT ![p] = {}]
      /\ staged' = [staged EXCEPT ![p] = {}] /\ showing' = [showing EXCEPT ![p] = {}]
  BY DEF Disconnect, DropSession, ForgetAll
<1>2. Typed'
  BY <1>1, EmptySeq DEF IInv, Typed
<1>3. /\ p \notin sessions' /\ handles'[p] = {} /\ toClient'[p] = <<>> /\ toServer'[p] = <<>>
      /\ panel'[p] = "away" /\ kept'[p] = {} /\ staged'[p] = {} /\ showing'[p] = {}
  BY <1>1 DEF IInv, Typed
<1>4. Len(toClient'[p]) = 0 /\ Len(toServer'[p]) = 0
  BY <1>3, EmptySeq
<1>5. Session(p)' /\ Asks(p)' /\ Tells(p)'
  BY <1>3, <1>4, BoundAssumption DEF Session, Asks, Tells
<1>6. \A x \in Panel \ {p} : Session(x)' /\ Asks(x)' /\ Tells(x)'
  BY <1>1, Untouched DEF IInv, Typed
<1>7. QED
  BY <1>2, <1>5, <1>6 DEF IInv

LEMMA NextInv ==
  ASSUME IInv, [Next]_vars PROVE IInv'
<1>1. CASE Next
  BY <1>1, LocalSwitchInv, BindInv, DispatchInv, ReadInv, AskStopInv, DisconnectInv,
     AskActivateInv, AskDestroyInv DEF Next
<1>2. CASE UNCHANGED vars
  <2>1. Typed'
    BY <1>2 DEF vars, IInv, Typed
  <2>2. \A p \in Panel : Session(p)' /\ Asks(p)' /\ Tells(p)'
    BY <1>2, Untouched DEF vars, IInv
  <2>3. QED
    BY <2>1, <2>2 DEF IInv
<1>3. QED
  BY <1>1, <1>2

(* Sessions, panels and the messages between them always agree: every      *)
(* request in flight finds its session and its handle, and at every done   *)
(* in flight at most one of the handles a panel kept will be staged        *)
(* (ext_workspace.c as a whole).                                           *)
THEOREM Invariance == Spec => []IInv
<1>1. Init => IInv
  BY InitInv
<1>2. IInv /\ [Next]_vars => IInv'
  BY NextInv
<1>3. QED
  BY <1>1, <1>2, PTL DEF Spec

(* Every variable holds a value of its kind, and no queue outgrows its     *)
(* bound: a switch waits until the whole burst has room.                   *)
THEOREM TypeCorrect == Spec => []TypeOK
<1>1. IInv => TypeOK
  BY DEF IInv, Typed, Session, TypeOK
<1>2. QED
  BY <1>1, Invariance, PTL

(* No panel ever shows two workspaces as active, however switches, requests *)
(* and destroyed handles interleave: session_send_workspace_states puts all *)
(* states of one switch before one done.                                    *)
THEOREM OneEverShown == Spec => []OneShown
<1>1. IInv => OneShown
  BY DEF IInv, Tells, OneShown
<1>2. QED
  BY <1>1, Invariance, PTL

(* A request that arrives finds its object, so the handler never reads a    *)
(* handle that handle_resource_destroy cleared, nor a dropped session.      *)
THEOREM RequestsFind == Spec => []RequestsFindHandles
<1>1. IInv => RequestsFindHandles
  <2> SUFFICES ASSUME IInv, NEW p \in Panel, NEW k \in DOMAIN toServer[p]
               PROVE  /\ p \in sessions
                      /\ toServer[p][k].kind # "stop" => toServer[p][k].ws \in handles[p]
    BY DEF RequestsFindHandles
  <2>1. toServer[p] \in Seq(Ask) /\ Asks(p)
    BY DEF IInv, Typed
  <2>2. k \in 1 .. Len(toServer[p])
    BY <2>1
  <2>3. QED
    BY <2>1, <2>2 DEF Asks
<1>2. QED
  BY <1>1, Invariance, PTL

-----------------------------------------------------------------------------
(* Order is unique                                                         *)

LEMMA InOrderIncreases ==
  ASSUME NEW set \in SUBSET Int, IsFiniteSet(set),
         NEW k \in 1 .. Cardinality(set), NEW l \in 1 .. Cardinality(set), k < l
  PROVE  InOrder(set)[k] < InOrder(set)[l]
<1>1. /\ InOrder(set)[k] \in set /\ RankIn(set, InOrder(set)[k]) = k - 1
      /\ InOrder(set)[l] \in set /\ RankIn(set, InOrder(set)[l]) = l - 1
  BY InOrderIs
<1>2. PICK i \in set : i = InOrder(set)[k]
  BY <1>1
<1>3. PICK j \in set : j = InOrder(set)[l]
  BY <1>1
<1>4. RankIn(set, i) < RankIn(set, j)
  BY <1>1, <1>2, <1>3
<1>5. RankIn(set, i) \in Int /\ RankIn(set, j) \in Int
  BY <1>1, <1>2, <1>3
<1>6. i # j
  BY <1>4, <1>5
<1>7. ~ (j < i)
  BY <1>4, <1>5, RankIncreases
<1>8. i \in Int /\ j \in Int
  OBVIOUS
<1>9. QED
  BY <1>2, <1>3, <1>6, <1>7, <1>8

(* A list of all the elements that always increases is the order.          *)
LEMMA InOrderUnique ==
  ASSUME NEW set \in SUBSET Int, NEW n \in Nat, NEW f \in [1 .. n -> set],
         \A i \in set : \E k \in 1 .. n : f[k] = i,
         \A k, l \in 1 .. n : k < l => f[k] < f[l]
  PROVE  IsFiniteSet(set) /\ Cardinality(set) = n /\ InOrder(set) = f
<1>1. \A k, l \in 1 .. n : f[k] = f[l] => k = l
  <2>1. ASSUME NEW k \in 1 .. n, NEW l \in 1 .. n, f[k] = f[l], k # l
        PROVE  FALSE
    <3>1. k < l \/ l < k
      BY <2>1
    <3>2. f[k] < f[l] \/ f[l] < f[k]
      BY <3>1
    <3>3. f[k] \in Int
      OBVIOUS
    <3>4. QED
      BY <2>1, <3>2, <3>3
  <2>2. QED
    BY <2>1
<1>2. f \in Bijection(1 .. n, set)
  BY <1>1 DEF Bijection, Injection, Surjection, IsInjective
<1>3. IsFiniteSet(1 .. n) /\ Cardinality(1 .. n) = n
  BY FS_Interval
<1>4. IsFiniteSet(set) /\ Cardinality(set) = n
  BY <1>2, <1>3, FS_Bijection DEF ExistsBijection
<1>5. ASSUME NEW k \in 1 .. n
      PROVE  RankIn(set, f[k]) = k - 1
  <2> DEFINE below == {j \in set : j < f[k]}
             g == [m \in 1 .. k - 1 |-> f[m]]
  <2>1. \A m \in 1 .. k - 1 : m \in 1 .. n /\ m < k
    OBVIOUS
  <2>2. \A m \in 1 .. k - 1 : f[m] \in below
    BY <2>1
  <2>3. ASSUME NEW j \in below
        PROVE  \E m \in 1 .. k - 1 : f[m] = j
    <3>1. PICK m \in 1 .. n : f[m] = j
      OBVIOUS
    <3>2. f[m] < f[k] /\ f[m] \in Int /\ f[k] \in Int
      BY <3>1
    <3>3. ~ (k < m) /\ m # k
      BY <3>2
    <3>4. m \in 1 .. k - 1
      BY <3>3
    <3>5. QED
      BY <3>1, <3>4
  <2>4. g \in Bijection(1 .. k - 1, below)
    BY <1>1, <2>1, <2>2, <2>3 DEF Bijection, Injection, Surjection, IsInjective
  <2>5. IsFiniteSet(1 .. k - 1) /\ Cardinality(1 .. k - 1) = k - 1
    BY FS_Interval
  <2> HIDE DEF below, g
  <2>6. Cardinality(below) = k - 1
    BY <2>4, <2>5, FS_Bijection DEF ExistsBijection
  <2>7. QED
    BY <2>6 DEF RankIn, below
<1>6. ASSUME NEW k \in 1 .. n
      PROVE  InOrder(set)[k] = f[k]
  <2>1. InOrder(set)[k] \in set /\ RankIn(set, InOrder(set)[k]) = k - 1
    BY <1>4, InOrderIs
  <2>2. RankIn(set, InOrder(set)[k]) = RankIn(set, f[k])
    BY <1>5, <2>1
  <2>3. PICK i \in set : i = InOrder(set)[k]
    BY <2>1
  <2>4. PICK j \in set : j = f[k]
    OBVIOUS
  <2>5. QED
    BY <1>4, <2>2, <2>3, <2>4, RankDetermines
<1>7. InOrder(set) = [k \in 1 .. Cardinality(set) |-> InOrder(set)[k]]
  BY DEF InOrder
<1>8. InOrder(set) = f
  <2>1. InOrder(set) = [k \in 1 .. n |-> InOrder(set)[k]]
    BY <1>4, <1>7
  <2>2. QED
    BY <1>6, <2>1
<1>9. QED
  BY <1>4, <1>8

-----------------------------------------------------------------------------
(* What the dones in flight will show *)

Dones(q) == {k \in DOMAIN q : q[k].kind = "done"}

Shown(q, set, ks, k) == Only({i \in ks : WillStage(q, set, i, k)})

ComingOf(q, set, ks) ==
  LET done == InOrder(Dones(q))
  IN  [n \in DOMAIN done |-> Shown(q, set, ks, done[n])]

LEMMA ComingIs == \A p : Coming(p) = ComingOf(toClient[p], staged[p], kept[p])
BY DEF Coming, ComingOf, Dones, Shown

LEMMA DonesAre ==
  ASSUME NEW q \in Seq(Event)
  PROVE  /\ Dones(q) = {k \in 1 .. Len(q) : q[k].kind = "done"}
         /\ Dones(q) \in SUBSET Int /\ IsFiniteSet(Dones(q)) /\ Cardinality(Dones(q)) \in Nat
<1>1. Len(q) \in Nat
  BY LenProperties
<1>2. Dones(q) = {k \in 1 .. Len(q) : q[k].kind = "done"}
  BY DEF Dones
<1>3. IsFiniteSet(1 .. Len(q)) /\ Dones(q) \subseteq 1 .. Len(q)
  BY <1>1, <1>2, FS_Interval
<1>4. IsFiniteSet(Dones(q)) /\ Cardinality(Dones(q)) \in Nat
  BY <1>3, FS_Subset, FS_CardinalityType
<1>5. QED
  BY <1>2, <1>3, <1>4

Seen == Workspace \cup {None}

LEMMA OnlyIs ==
  /\ \A set \in SUBSET Workspace : Only(set) \in Seen
  /\ Only({}) = None /\ \A i : Only({i}) = i
BY DEF Only, Seen

LEMMA ComingTyped ==
  ASSUME NEW q \in Seq(Event), NEW set, NEW ks \in SUBSET Workspace
  PROVE  /\ ComingOf(q, set, ks) \in Seq(Seen)
         /\ Len(ComingOf(q, set, ks)) = Cardinality(Dones(q))
         /\ \A n \in 1 .. Cardinality(Dones(q)) :
              ComingOf(q, set, ks)[n] = Shown(q, set, ks, InOrder(Dones(q))[n])
<1> DEFINE o == InOrder(Dones(q))
           N == Cardinality(Dones(q))
<1>1. N \in Nat /\ DOMAIN o = 1 .. N
  BY DonesAre, InOrderIs
<1>2. \A k : Shown(q, set, ks, k) \in Seen
  BY OnlyIs DEF Shown
<1>3. ComingOf(q, set, ks) = [n \in 1 .. N |-> Shown(q, set, ks, o[n])]
  BY <1>1 DEF ComingOf
<1> HIDE DEF o, N
<1>4. ComingOf(q, set, ks) \in [1 .. N -> Seen]
  BY <1>2, <1>3
<1>5. ComingOf(q, set, ks) \in Seq(Seen) /\ Len(ComingOf(q, set, ks)) = N
  BY <1>1, <1>4
<1>6. QED
  BY <1>3, <1>5 DEF o, N

LEMMA ComingSame ==
  ASSUME NEW q \in Seq(Event), NEW r \in Seq(Event), NEW set, NEW ks \in SUBSET Workspace,
         Dones(r) = Dones(q), \A k \in 1 .. Len(q) : r[k] = q[k]
  PROVE  ComingOf(r, set, ks) = ComingOf(q, set, ks)
<1> DEFINE D == Dones(q)
           N == Cardinality(D)
<1>1. D \in SUBSET Int /\ IsFiniteSet(D) /\ N \in Nat /\ D = {k \in 1 .. Len(q) : q[k].kind = "done"}
  BY DonesAre
<1>2. /\ ComingOf(q, set, ks) \in Seq(Seen) /\ ComingOf(r, set, ks) \in Seq(Seen)
      /\ Len(ComingOf(q, set, ks)) = N /\ Len(ComingOf(r, set, ks)) = N
      /\ \A n \in 1 .. N : /\ ComingOf(q, set, ks)[n] = Shown(q, set, ks, InOrder(D)[n])
                          /\ ComingOf(r, set, ks)[n] = Shown(r, set, ks, InOrder(D)[n])
  BY ComingTyped
<1>3. \A n \in 1 .. N : InOrder(D)[n] \in D
  BY <1>1, InOrderIs
<1> HIDE DEF D, N
<1>4. ASSUME NEW k \in D
      PROVE  Shown(r, set, ks, k) = Shown(q, set, ks, k)
  <2>1. k \in 1 .. Len(q) /\ k \in Nat /\ \A n \in 1 .. k : r[n] = q[n]
    BY <1>1, LenProperties
  <2>2. \A i : WillStage(r, set, i, k) <=> WillStage(q, set, i, k)
    BY <2>1, WillStagePrefix
  <2>3. {i \in ks : WillStage(r, set, i, k)} = {i \in ks : WillStage(q, set, i, k)}
    BY <2>2
  <2>4. QED
    BY <2>3 DEF Shown
<1>5. \A n \in 1 .. N : ComingOf(r, set, ks)[n] = ComingOf(q, set, ks)[n]
  BY <1>2, <1>3, <1>4
<1>6. QED
  BY <1>2, <1>5, SeqEqual

(* A done that joins the queue is the last one to show anything.           *)
LEMMA ComingAdded ==
  ASSUME NEW q \in Seq(Event), NEW r \in Seq(Event), NEW set, NEW ks \in SUBSET Workspace,
         Len(q) < Len(r), \A k \in 1 .. Len(q) : r[k] = q[k],
         \A k \in 1 .. Len(r) : Len(q) < k => (r[k].kind = "done" <=> k = Len(r))
  PROVE  ComingOf(r, set, ks) = Append(ComingOf(q, set, ks), Shown(r, set, ks, Len(r)))
<1> DEFINE D == Dones(q)
           N == Cardinality(D)
           o == InOrder(D)
           l == Len(r)
           f == [n \in 1 .. N + 1 |-> IF n <= N THEN o[n] ELSE l]
           u == ComingOf(q, set, ks)
           v == ComingOf(r, set, ks)
           w == Append(u, Shown(r, set, ks, l))
<1>1. D \in SUBSET Int /\ IsFiniteSet(D) /\ N \in Nat /\ D = {k \in 1 .. Len(q) : q[k].kind = "done"}
  BY DonesAre
<1>2. /\ Dones(r) \in SUBSET Int
      /\ Dones(r) = {k \in 1 .. l : r[k].kind = "done"}
  BY DonesAre
<1>3. Len(q) \in Nat /\ l \in Nat
  BY LenProperties
<1>4. Dones(r) = D \cup {l}
  BY <1>1, <1>2, <1>3
<1>5. /\ \A n \in 1 .. N : o[n] \in D
      /\ \A i \in D : \E n \in 1 .. N : o[n] = i
      /\ \A m, n \in 1 .. N : m < n => o[m] < o[n]
  BY <1>1, InOrderIs, InOrderIncreases
<1>6. \A i \in D : i < l /\ i \in Nat
  BY <1>1, <1>3
<1>7. /\ u \in Seq(Seen) /\ v \in Seq(Seen) /\ Len(u) = N /\ Len(v) = Cardinality(Dones(r))
      /\ \A n \in 1 .. N : u[n] = Shown(q, set, ks, o[n])
      /\ \A n \in 1 .. Cardinality(Dones(r)) : v[n] = Shown(r, set, ks, InOrder(Dones(r))[n])
  BY ComingTyped
<1> HIDE DEF D, N, o, l, u, v
<1>8. Cardinality(Dones(r)) = N + 1 /\ InOrder(Dones(r)) = f
  <2>1. f \in [1 .. N + 1 -> Dones(r)]
    BY <1>1, <1>4, <1>5
  <2>2. \A n \in 1 .. N : n \in 1 .. N + 1 /\ f[n] = o[n]
    BY <1>1
  <2>3. N + 1 \in 1 .. N + 1 /\ f[N + 1] = l
    BY <1>1
  <2>4. \A i \in Dones(r) : \E n \in 1 .. N + 1 : f[n] = i
    BY <1>4, <1>5, <2>2, <2>3
  <2>5. \A m, n \in 1 .. N + 1 : m < n => f[m] < f[n]
    <3>1. ASSUME NEW m \in 1 .. N + 1, NEW n \in 1 .. N + 1, m < n
          PROVE  f[m] < f[n]
      <4>1. m \in 1 .. N /\ f[m] = o[m] /\ f[m] \in D
        BY <1>1, <1>5, <3>1
      <4>2. CASE n = N + 1
        BY <1>6, <2>3, <4>1, <4>2
      <4>3. CASE n # N + 1
        <5>1. n \in 1 .. N /\ f[n] = o[n]
          BY <1>1, <4>3
        <5>2. QED
          BY <1>5, <3>1, <4>1, <5>1
      <4>4. QED
        BY <4>2, <4>3
    <3>2. QED
      BY <3>1
  <2> HIDE DEF f
  <2>6. N + 1 \in Nat
    BY <1>1
  <2>7. QED
    BY <1>2, <2>1, <2>4, <2>5, <2>6, InOrderUnique
<1>9. ASSUME NEW k \in D
      PROVE  Shown(r, set, ks, k) = Shown(q, set, ks, k)
  <2>1. k \in 1 .. Len(q) /\ k \in Nat /\ \A n \in 1 .. k : r[n] = q[n]
    BY <1>1, <1>3
  <2>2. \A i : WillStage(r, set, i, k) <=> WillStage(q, set, i, k)
    BY <2>1, WillStagePrefix
  <2>3. {i \in ks : WillStage(r, set, i, k)} = {i \in ks : WillStage(q, set, i, k)}
    BY <2>2
  <2>4. QED
    BY <2>3 DEF Shown
<1>10. Shown(r, set, ks, l) \in Seen
  BY OnlyIs DEF Shown
<1>11. /\ w \in Seq(Seen) /\ Len(w) = N + 1 /\ w[N + 1] = Shown(r, set, ks, l)
       /\ \A n \in 1 .. N : w[n] = u[n]
  BY <1>7, <1>10, AppendProperties
<1> HIDE DEF w
<1>12. ASSUME NEW n \in 1 .. N + 1
       PROVE  v[n] = w[n]
  <2>1. v[n] = Shown(r, set, ks, f[n])
    BY <1>7, <1>8
  <2>2. CASE n = N + 1
    BY <1>1, <1>11, <2>1, <2>2
  <2>3. CASE n # N + 1
    <3>1. n \in 1 .. N /\ f[n] = o[n] /\ o[n] \in D
      BY <1>1, <1>5, <2>3
    <3>2. QED
      BY <1>7, <1>9, <1>11, <2>1, <3>1
  <2>4. QED
    BY <2>2, <2>3
<1>13. v = w
  BY <1>7, <1>8, <1>11, <1>12, SeqEqual
<1>14. QED
  BY <1>13 DEF v, w, u, l

(* Reading an event takes at most the first off what is to be shown.       *)
LEMMA ComingRead ==
  ASSUME NEW q \in Seq(Event), q # <<>>, NEW set, NEW next, NEW ks \in SUBSET Workspace,
         \A i \in ks : i \in next <=> IF About(Head(q), i) THEN Head(q).active ELSE i \in set
  PROVE  /\ Head(q).kind # "done" => ComingOf(Tail(q), next, ks) = ComingOf(q, set, ks)
         /\ Head(q).kind = "done" =>
              /\ ComingOf(q, set, ks) # <<>>
              /\ Head(ComingOf(q, set, ks)) = Only({i \in ks : i \in set})
              /\ ComingOf(Tail(q), next, ks) = Tail(ComingOf(q, set, ks))
<1> DEFINE r == Tail(q)
           D == Dones(q)
           N == Cardinality(D)
           o == InOrder(D)
           c == IF Head(q).kind = "done" THEN 1 ELSE 0
           f == [n \in 1 .. N - c |-> o[n + c] - 1]
           u == ComingOf(q, set, ks)
           v == ComingOf(r, next, ks)
<1>1. D \in SUBSET Int /\ IsFiniteSet(D) /\ N \in Nat /\ D = {k \in 1 .. Len(q) : q[k].kind = "done"}
  BY DonesAre
<1>2. /\ r \in Seq(Event) /\ Len(r) = Len(q) - 1 /\ Len(q) \in Nat \ {0} /\ Head(q) = q[1]
      /\ \A k \in 1 .. Len(r) : r[k] = q[k + 1]
  BY HeadTailProperties, EmptySeq, LenProperties
<1>3. \A i \in ks : \A k \in 0 .. Len(q) - 1 : WillStage(r, next, i, k) <=> WillStage(q, set, i, k + 1)
  BY WillStageTail
<1>4. /\ \A n \in 1 .. N : o[n] \in D
      /\ \A i \in D : \E n \in 1 .. N : o[n] = i
      /\ \A m, n \in 1 .. N : m < n => o[m] < o[n]
  BY <1>1, InOrderIs, InOrderIncreases
<1> HIDE DEF r
<1>5. Dones(r) \in SUBSET Int /\ Dones(r) = {k \in 1 .. Len(r) : r[k].kind = "done"}
  BY <1>2, DonesAre
<1>6. /\ u \in Seq(Seen) /\ v \in Seq(Seen) /\ Len(u) = N /\ Len(v) = Cardinality(Dones(r))
      /\ \A n \in 1 .. N : u[n] = Shown(q, set, ks, o[n])
      /\ \A n \in 1 .. Cardinality(Dones(r)) : v[n] = Shown(r, next, ks, InOrder(Dones(r))[n])
  BY <1>2, ComingTyped
<1>7. (1 \in D <=> c = 1) /\ c \in {0, 1}
  BY <1>1, <1>2
<1>8. \A k : k \in Dones(r) <=> k \in 1 .. Len(r) /\ k + 1 \in D
  <2>1. ASSUME NEW k \in 1 .. Len(r)
        PROVE  k + 1 \in 1 .. Len(q) /\ r[k] = q[k + 1]
    BY <1>2
  <2>2. QED
    BY <1>1, <1>5, <2>1
<1> HIDE DEF D, N, o, u, v
<1>9. \A i \in D : i \in 1 .. Len(q) /\ i \in Int
  BY <1>1
<1>10. c = 1 => 1 \in 1 .. N /\ o[1] = 1
  <2> SUFFICES ASSUME c = 1 PROVE 1 \in 1 .. N /\ o[1] = 1
    OBVIOUS
  <2>1. PICK n \in 1 .. N : o[n] = 1
    BY <1>4, <1>7
  <2>2. 1 \in 1 .. N
    BY <1>1, <2>1
  <2>3. o[1] \in 1 .. Len(q)
    BY <1>4, <1>9, <2>2
  <2>4. ~ (o[1] < 1)
    BY <2>3
  <2>5. ~ (1 < n)
    BY <1>4, <2>1, <2>2, <2>4
  <2>6. n = 1
    BY <2>1, <2>5
  <2>7. QED
    BY <2>1, <2>2, <2>6
<1> HIDE DEF c
<1>11. N - c \in Nat
  BY <1>1, <1>7, <1>10
<1>12. ASSUME NEW n \in 1 .. N - c
       PROVE  n + c \in 1 .. N /\ o[n + c] \in D \ {1} /\ f[n] = o[n + c] - 1 /\ f[n] \in Dones(r)
  <2>1. n + c \in 1 .. N
    BY <1>1, <1>7, <1>12
  <2>2. o[n + c] \in D
    BY <1>4, <2>1
  <2>3. o[n + c] # 1
    <3>1. CASE c = 0
      BY <1>7, <2>2, <3>1
    <3>2. CASE c = 1
      <4>1. 1 < n + c
        BY <1>12, <3>2
      <4>2. o[1] < o[n + c]
        BY <1>4, <1>10, <2>1, <3>2, <4>1
      <4>3. QED
        BY <1>9, <1>10, <2>2, <3>2, <4>2
    <3>3. QED
      BY <1>7, <3>1, <3>2
  <2>4. PICK j \in D : j = o[n + c]
    BY <2>2
  <2>5. j \in 1 .. Len(q) /\ j # 1
    BY <1>9, <2>3, <2>4
  <2>6. j - 1 \in 1 .. Len(r) /\ (j - 1) + 1 = j
    BY <1>2, <2>5
  <2>7. j - 1 \in Dones(r)
    BY <1>8, <2>6
  <2>8. QED
    BY <2>1, <2>2, <2>3, <2>4, <2>7
<1>13. Cardinality(Dones(r)) = N - c /\ InOrder(Dones(r)) = f
  <2>1. f \in [1 .. N - c -> Dones(r)]
    BY <1>12
  <2>2. ASSUME NEW i \in Dones(r)
        PROVE  \E n \in 1 .. N - c : f[n] = i
    <3>1. i \in 1 .. Len(r) /\ i + 1 \in D
      BY <1>8
    <3>2. PICK m \in 1 .. N : o[m] = i + 1
      BY <1>4, <3>1
    <3>3. i + 1 # 1
      BY <3>1
    <3>4. c = 1 => m # 1
      BY <1>10, <3>2, <3>3
    <3>5. m - c \in 1 .. N - c /\ (m - c) + c = m
      BY <1>1, <1>7, <3>4
    <3>6. PICK n \in 1 .. N - c : n = m - c
      BY <3>5
    <3>7. n + c = m
      BY <3>5, <3>6
    <3>8. f[n] = (i + 1) - 1
      BY <1>12, <3>2, <3>7
    <3>9. QED
      BY <3>1, <3>8
  <2>3. ASSUME NEW m \in 1 .. N - c, NEW n \in 1 .. N - c, m < n
        PROVE  f[m] < f[n]
    <3>1. m + c < n + c
      BY <1>7, <2>3
    <3>2. o[m + c] < o[n + c] /\ o[m + c] \in D /\ o[n + c] \in D
      BY <1>4, <1>12, <3>1
    <3>3. PICK a \in D : a = o[m + c]
      BY <3>2
    <3>4. PICK b \in D : b = o[n + c]
      BY <3>2
    <3>5. a \in Int /\ b \in Int /\ a < b
      BY <1>9, <3>2, <3>3, <3>4
    <3>6. f[m] = a - 1 /\ f[n] = b - 1
      BY <1>12, <3>3, <3>4
    <3>7. QED
      BY <3>5, <3>6
  <2> HIDE DEF f
  <2>4. QED
    BY <1>5, <1>11, <2>1, <2>2, <2>3, InOrderUnique
<1> HIDE DEF f
<1>14. ASSUME NEW n \in 1 .. N - c
       PROVE  v[n] = u[n + c]
  <2>1. PICK j \in Dones(r) : j = f[n]
    BY <1>12
  <2>2. j + 1 = o[n + c]
    <3>1. o[n + c] \in Int /\ j = o[n + c] - 1
      BY <1>9, <1>12, <2>1
    <3>2. QED
      BY <3>1
  <2>3. j \in 0 .. Len(q) - 1
    BY <1>2, <1>5
  <2>4. {i \in ks : WillStage(r, next, i, j)} = {i \in ks : WillStage(q, set, i, j + 1)}
    BY <1>3, <2>3
  <2>5. Shown(r, next, ks, j) = Shown(q, set, ks, j + 1)
    BY <2>4 DEF Shown
  <2>6. v[n] = Shown(r, next, ks, j)
    BY <1>6, <1>13, <2>1
  <2>7. u[n + c] = Shown(q, set, ks, j + 1)
    BY <1>6, <1>12, <2>2
  <2>8. QED
    BY <2>5, <2>6, <2>7
<1>15. ASSUME Head(q).kind # "done"
       PROVE  v = u
  <2>1. c = 0
    BY <1>15 DEF c
  <2>2. Len(v) = N /\ \A n \in 1 .. N : v[n] = u[n]
    <3>1. N - c = N /\ \A n \in 1 .. N : n + c = n
      BY <1>1, <2>1
    <3>2. QED
      BY <1>6, <1>13, <1>14, <3>1
  <2>3. QED
    BY <1>6, <2>2, SeqEqual
<1>16. ASSUME Head(q).kind = "done"
       PROVE  u # <<>> /\ Head(u) = Only({i \in ks : i \in set}) /\ v = Tail(u)
  <2>1. c = 1
    BY <1>16 DEF c
  <2>2. 1 \in 1 .. N /\ o[1] = 1 /\ u # <<>>
    BY <1>6, <1>10, <2>1, EmptySeq
  <2>3. Head(u) = Shown(q, set, ks, 1)
    BY <1>6, <2>2
  <2>4. {i \in ks : WillStage(q, set, i, 1)} = {i \in ks : i \in set}
    <3>1. \A n \in 1 .. 1 : \A i \in ks : ~ About(q[n], i)
      BY <1>2, <1>16 DEF About
    <3>2. \A i \in ks : WillStage(q, set, i, 1) <=> i \in set
      BY <3>1, WillStageIs
    <3>3. QED
      BY <3>2
  <2>5. Head(u) = Only({i \in ks : i \in set})
    BY <2>3, <2>4 DEF Shown
  <2>6. Tail(u) \in Seq(Seen) /\ Len(Tail(u)) = N - 1 /\ \A n \in 1 .. N - 1 : Tail(u)[n] = u[n + 1]
    BY <1>6, <2>2, HeadTailProperties
  <2>7. Len(v) = N - 1 /\ \A n \in 1 .. N - 1 : v[n] = u[n + 1]
    BY <1>6, <1>13, <1>14, <2>1
  <2>8. v = Tail(u)
    BY <1>6, <2>6, <2>7, SeqEqual
  <2>9. QED
    BY <2>2, <2>5, <2>8
<1>17. QED
  BY <1>15, <1>16 DEF u, v, r

LEMMA OnlyLess ==
  ASSUME NEW S \in SUBSET Workspace, \A a, b \in S : a = b, NEW i \in Workspace
  PROVE  Only(S \ {i}) = IF Only(S) = i THEN None ELSE Only(S)
<1>1. CASE S = {}
  <2>1. S \ {i} = S /\ Only(S) = None
    BY <1>1, OnlyIs
  <2>2. QED
    BY <2>1, NoneAssumption
<1>2. CASE S # {}
  <2>1. PICK a \in S : S = {a}
    BY <1>2
  <2>2. Only(S) = a
    BY <2>1, OnlyIs
  <2>3. CASE a = i
    <3>1. S \ {i} = {}
      BY <2>1, <2>3
    <3>2. QED
      BY <2>2, <2>3, <3>1, OnlyIs
  <2>4. CASE a # i
    <3>1. S \ {i} = S
      BY <2>1, <2>4
    <3>2. QED
      BY <2>2, <2>4, <3>1
  <2>5. QED
    BY <2>3, <2>4
<1>3. QED
  BY <1>1, <1>2

(* A handle that goes is shown no more, and the rest as before.            *)
LEMMA ComingForgets ==
  ASSUME NEW q \in Seq(Event), NEW set, NEW ks \in SUBSET Workspace, NEW i \in Workspace,
         OneStaged(q, set, ks)
  PROVE  LET u == ComingOf(q, set, ks)
         IN  ComingOf(q, set \ {i}, ks \ {i}) = [n \in DOMAIN u |-> IF u[n] = i THEN None ELSE u[n]]
<1> DEFINE D == Dones(q)
           N == Cardinality(D)
           o == InOrder(D)
           u == ComingOf(q, set, ks)
           v == ComingOf(q, set \ {i}, ks \ {i})
<1>1. D \in SUBSET Int /\ IsFiniteSet(D) /\ N \in Nat /\ D = {k \in 1 .. Len(q) : q[k].kind = "done"}
  BY DonesAre
<1>2. \A n \in 1 .. N : o[n] \in D
  BY <1>1, InOrderIs
<1>3. /\ u \in Seq(Seen) /\ v \in Seq(Seen) /\ Len(u) = N /\ Len(v) = N
      /\ \A n \in 1 .. N : /\ u[n] = Shown(q, set, ks, o[n])
                          /\ v[n] = Shown(q, set \ {i}, ks \ {i}, o[n])
  BY ComingTyped
<1> HIDE DEF D, N, o, u, v
<1>4. ASSUME NEW k \in D
      PROVE  Shown(q, set \ {i}, ks \ {i}, k)
               = IF Shown(q, set, ks, k) = i THEN None ELSE Shown(q, set, ks, k)
  <2> DEFINE S == {j \in ks : WillStage(q, set, j, k)}
  <2>1. \A j \in ks \ {i} : WillStage(q, set \ {i}, j, k) <=> WillStage(q, set, j, k)
    BY WillStageSet
  <2>2. {j \in ks \ {i} : WillStage(q, set \ {i}, j, k)} = S \ {i}
    BY <2>1
  <2>3. S \in SUBSET Workspace
    OBVIOUS
  <2>4. \A a, b \in S : a = b
    BY <1>1 DEF OneStaged
  <2> HIDE DEF S
  <2>5. Only(S \ {i}) = IF Only(S) = i THEN None ELSE Only(S)
    BY <2>3, <2>4, OnlyLess
  <2>6. QED
    BY <2>2, <2>5 DEF Shown, S
<1>5. \A n \in 1 .. N : v[n] = IF u[n] = i THEN None ELSE u[n]
  BY <1>2, <1>3, <1>4
<1>6. DOMAIN u = 1 .. N /\ DOMAIN v = 1 .. N /\ v = [n \in 1 .. N |-> v[n]]
  BY <1>3
<1>7. v = [n \in DOMAIN u |-> IF u[n] = i THEN None ELSE u[n]]
  BY <1>5, <1>6
<1>8. QED
  BY <1>7 DEF u, v

-----------------------------------------------------------------------------
(* The steps as PanelView sees them *)

LEMMA RefineInit == Init => View!Init
<1> SUFFICES ASSUME Init PROVE View!Init
  OBVIOUS
<1>1. current \in Workspace /\ sessions = {} /\ kept = [p \in Panel |-> {}]
  BY CountAssumption DEF Init, Workspace
<1>2. ASSUME NEW p \in Panel
      PROVE  Coming(p) = <<>> /\ Only(showing[p]) = None
  <2>1. toClient[p] = <<>> /\ showing[p] = {} /\ <<>> \in Seq(Event) /\ {} \in SUBSET Workspace
    BY EmptySeq DEF Init
  <2>2. Dones(<<>>) = {} /\ Cardinality({}) = 0
    BY FS_EmptySet DEF Dones
  <2>3. kept[p] = {}
    BY <1>1
  <2>4. Coming(p) = ComingOf(<<>>, staged[p], {})
    BY <2>1, <2>3, ComingIs
  <2>5. ComingOf(<<>>, staged[p], {}) \in Seq(Seen) /\ Len(ComingOf(<<>>, staged[p], {})) = 0
    BY <2>1, <2>2, ComingTyped
  <2>6. QED
    BY <2>1, <2>4, <2>5, EmptySeq, OnlyIs
<1>3. /\ [p \in Panel |-> Coming(p)] = [p \in Panel |-> <<>>]
      /\ [p \in Panel |-> Only(showing[p])] = [p \in Panel |-> None]
  BY <1>2
<1>4. QED
  BY <1>1, <1>3 DEF View!Init

(* Nothing a panel can see changes. *)
Unseen ==
  /\ UNCHANGED << current, sessions, kept, showing >>
  /\ \A p \in Panel : Coming(p)' = Coming(p)

LEMMA UnseenStutters == ASSUME Unseen PROVE UNCHANGED View!vars
<1>1. /\ [p \in Panel |-> Coming(p)]' = [p \in Panel |-> Coming(p)]
      /\ [p \in Panel |-> Only(showing[p])]' = [p \in Panel |-> Only(showing[p])]
  BY DEF Unseen
<1>2. QED
  BY <1>1 DEF Unseen, View!vars

LEMMA ComingUnchanged ==
  ASSUME NEW p \in Panel, toClient'[p] = toClient[p], staged'[p] = staged[p], kept'[p] = kept[p]
  PROVE  Coming(p)' = Coming(p)
BY ComingIs DEF ComingOf, Dones, Shown, Only, WillStage, Coming

(* The workspace a burst tells of is the one a panel will come to show.    *)
LEMMA ComingBurst ==
  ASSUME NEW q \in Seq(Event), NEW set, NEW hs \in SUBSET Workspace,
         NEW cur \in Workspace, NEW ks \in SUBSET hs
  PROVE  ComingOf(q \o States(hs, cur), set, ks)
           = Append(ComingOf(q, set, ks), IF cur \in ks THEN cur ELSE None)
<1> DEFINE b == States(hs, cur)
           r == q \o b
           n == Len(q)
<1>1. /\ b \in Seq(Event) /\ Len(b) \in 1 .. WorkspaceCount + 1
      /\ \A m \in 1 .. Len(b) - 1 : \E j \in hs : b[m] = State(j, cur)
      /\ b[Len(b)] = Done
  BY Burst
<1>2. \A i \in hs : WillStage(r, set, i, Len(r)) <=> i = cur
  BY WillStageBurst
<1> HIDE DEF b
<1>3. n \in Nat /\ Len(b) \in Nat
  BY <1>1, LenProperties
<1>4. /\ r \in Seq(Event) /\ Len(r) = n + Len(b)
      /\ \A m \in 1 .. Len(r) : r[m] = IF m <= n THEN q[m] ELSE b[m - n]
  BY <1>1, ConcatProperties
<1> HIDE DEF r
<1>5. n < Len(r) /\ \A m \in 1 .. n : r[m] = q[m]
  BY <1>1, <1>3, <1>4
<1>6. ASSUME NEW m \in 1 .. Len(r), n < m
      PROVE  r[m].kind = "done" <=> m = Len(r)
  <2>1. m - n \in 1 .. Len(b) /\ r[m] = b[m - n]
    BY <1>3, <1>4, <1>6
  <2>2. CASE m = Len(r)
    <3>1. r[m] = Done
      BY <1>1, <1>3, <1>4, <2>1, <2>2
    <3>2. QED
      BY <2>2, <3>1, Kinds
  <2>3. CASE m # Len(r)
    <3>1. m - n \in 1 .. Len(b) - 1
      BY <1>3, <1>4, <2>1, <2>3
    <3>2. PICK j \in hs : r[m] = State(j, cur)
      BY <1>1, <2>1, <3>1
    <3>3. QED
      BY <2>3, <3>2 DEF State
  <2>4. QED
    BY <2>2, <2>3
<1>7. ComingOf(r, set, ks) = Append(ComingOf(q, set, ks), Shown(r, set, ks, Len(r)))
  BY <1>4, <1>5, <1>6, ComingAdded
<1>8. Shown(r, set, ks, Len(r)) = IF cur \in ks THEN cur ELSE None
  <2>1. {i \in ks : WillStage(r, set, i, Len(r))} = {i \in ks : i = cur}
    BY <1>2
  <2>2. {i \in ks : i = cur} = IF cur \in ks THEN {cur} ELSE {}
    OBVIOUS
  <2>3. QED
    BY <2>1, <2>2, OnlyIs DEF Shown
<1>9. QED
  BY <1>7, <1>8 DEF r, b

(* A switch is told to every panel that listens, or there is none.         *)
LEMMA GoRefines ==
  ASSUME IInv, NEW i \in Workspace, Go(i),
         UNCHANGED << sessions, handles, kept, staged, showing >>
  PROVE  View!Switch(i) \/ UNCHANGED View!vars
<1>1. CASE i = current
  <2>1. UNCHANGED << current, toClient >>
    BY <1>1 DEF Go
  <2>2. \A p \in Panel : Coming(p)' = Coming(p)
    BY <2>1, ComingUnchanged
  <2>3. Unseen
    BY <2>1, <2>2 DEF Unseen
  <2>4. QED
    BY <2>3, UnseenStutters
<1>2. CASE i # current
  <2>1. /\ current' = i
        /\ toClient' = [p \in Panel |-> IF p \in sessions
                                        THEN toClient[p] \o States(handles[p], i)
                                        ELSE toClient[p]]
    BY <1>2 DEF Go, Notify
  <2>2. ASSUME NEW p \in Panel, p \in sessions
        PROVE  Coming(p)' = Append(Coming(p), View!AsSeenBy(p, i))
    <3>1. toClient[p] \in Seq(Event) /\ handles[p] \in SUBSET Workspace /\ kept[p] \in SUBSET handles[p]
      BY <2>2 DEF IInv, Typed, Session
    <3>2. ComingOf(toClient[p] \o States(handles[p], i), staged[p], kept[p])
            = Append(ComingOf(toClient[p], staged[p], kept[p]), IF i \in kept[p] THEN i ELSE None)
      <4>1. PICK q \in Seq(Event), hs \in SUBSET Workspace : q = toClient[p] /\ hs = handles[p]
        BY <3>1
      <4>2. PICK ks \in SUBSET hs : ks = kept[p]
        BY <3>1, <4>1
      <4>3. ComingOf(q \o States(hs, i), staged[p], ks)
              = Append(ComingOf(q, staged[p], ks), IF i \in ks THEN i ELSE None)
        BY ComingBurst
      <4>4. QED
        BY <4>1, <4>2, <4>3
    <3>3. Coming(p)' = ComingOf(toClient[p] \o States(handles[p], i), staged[p], kept[p])
      <4>1. /\ toClient'[p] = toClient[p] \o States(handles[p], i)
            /\ staged'[p] = staged[p] /\ kept'[p] = kept[p]
        BY <2>1, <2>2
      <4>2. Coming(p)' = ComingOf(toClient'[p], staged'[p], kept'[p])
        BY ComingIs DEF Coming, ComingOf, Dones, Shown
      <4>3. QED
        BY <4>1, <4>2
    <3>4. QED
      BY <3>2, <3>3, ComingIs DEF View!AsSeenBy
  <2>3. ASSUME NEW p \in Panel, p \notin sessions
        PROVE  Coming(p)' = Coming(p)
    <3>1. toClient'[p] = toClient[p]
      BY <2>1, <2>3
    <3>2. QED
      BY <3>1, ComingUnchanged
  <2>4. [p \in Panel |-> Coming(p)]'
          = [p \in Panel |-> IF p \in sessions
                             THEN Append([x \in Panel |-> Coming(x)][p], View!AsSeenBy(p, i))
                             ELSE [x \in Panel |-> Coming(x)][p]]
    BY <2>2, <2>3
  <2>5. [p \in Panel |-> Only(showing[p])]' = [p \in Panel |-> Only(showing[p])]
    OBVIOUS
  <2>6. View!Switch(i)
    BY <1>2, <2>1, <2>4, <2>5 DEF View!Switch
  <2>7. QED
    BY <2>6
<1>3. QED
  BY <1>1, <1>2

(* What every step but a switch leaves to show: it touches one panel.      *)
LEMMA OnePanel ==
  ASSUME NEW p \in Panel, NEW c, NEW s,
         \A x \in Panel \ {p} : /\ toClient'[x] = toClient[x] /\ staged'[x] = staged[x]
                                /\ kept'[x] = kept[x] /\ showing'[x] = showing[x],
         Coming(p)' = c, Only(showing'[p]) = s
  PROVE  /\ [x \in Panel |-> Coming(x)]' = [[x \in Panel |-> Coming(x)] EXCEPT ![p] = c]
         /\ [x \in Panel |-> Only(showing[x])]'
              = [[x \in Panel |-> Only(showing[x])] EXCEPT ![p] = s]
<1>1. \A x \in Panel \ {p} : Coming(x)' = Coming(x)
  BY ComingUnchanged
<1>2. QED
  BY <1>1

LEMMA ComingNext ==
  ASSUME NEW p \in Panel
  PROVE  Coming(p)' = ComingOf(toClient'[p], staged'[p], kept'[p])
BY DEF Coming, ComingOf, Dones, Shown

LEMMA ComingNone ==
  ASSUME NEW set
  PROVE  ComingOf(<<>>, set, {}) = <<>>
<1>1. <<>> \in Seq(Event) /\ {} \in SUBSET Workspace
  BY EmptySeq
<1>2. Dones(<<>>) = {} /\ Cardinality({}) = 0
  BY FS_EmptySet DEF Dones
<1>3. ComingOf(<<>>, set, {}) \in Seq(Seen) /\ Len(ComingOf(<<>>, set, {})) = 0
  BY <1>1, <1>2, ComingTyped
<1>4. QED
  BY <1>3, EmptySeq

LEMMA BindRefines ==
  ASSUME IInv, NEW p \in Panel, Bind(p) PROVE View!Join(p)
<1>1. Typed /\ Session(p)
  BY DEF IInv
<1>2. p \notin sessions /\ kept[p] = {} /\ toClient[p] = <<>>
  BY <1>1 DEF Bind, Session, Typed
<1>3. /\ sessions' = sessions \cup {p} /\ kept' = [kept EXCEPT ![p] = Workspace]
      /\ toClient' = [toClient EXCEPT ![p] = States(Workspace, current)]
      /\ UNCHANGED << current, staged, showing >>
  BY DEF Bind
<1>4. Coming(p)' = << current >>
  <2>1. current \in Workspace /\ <<>> \in Seq(Event)
    BY <1>1, EmptySeq DEF Typed
  <2>2. ComingOf(<<>> \o States(Workspace, current), staged[p], Workspace)
          = Append(ComingOf(<<>>, staged[p], Workspace), current)
    <3>1. PICK q \in Seq(Event), hs \in SUBSET Workspace, i \in Workspace :
            q = <<>> /\ hs = Workspace /\ i = current
      BY <2>1
    <3>2. PICK ks \in SUBSET hs : ks = Workspace
      BY <3>1
    <3>3. ComingOf(q \o States(hs, i), staged[p], ks)
            = Append(ComingOf(q, staged[p], ks), IF i \in ks THEN i ELSE None)
      BY ComingBurst
    <3>4. QED
      BY <3>1, <3>2, <3>3
  <2>3. States(Workspace, current) \in Seq(Event)
    BY <2>1, Burst
  <2>4. <<>> \o States(Workspace, current) = States(Workspace, current)
    BY <2>3, ConcatEmptySeq
  <2>5. ComingOf(<<>>, staged[p], Workspace) = <<>>
    <3>1. Dones(<<>>) = {} /\ Cardinality({}) = 0
      BY FS_EmptySet DEF Dones
    <3>2. ComingOf(<<>>, staged[p], Workspace) \in Seq(Seen)
          /\ Len(ComingOf(<<>>, staged[p], Workspace)) = 0
      BY <2>1, <3>1, ComingTyped
    <3>3. QED
      BY <3>2, EmptySeq
  <2>6. toClient'[p] = States(Workspace, current) /\ kept'[p] = Workspace /\ staged'[p] = staged[p]
    BY <1>1, <1>3 DEF Typed
  <2>7. Coming(p)' = Append(<<>>, current)
    BY <2>2, <2>4, <2>5, <2>6, ComingNext
  <2>8. QED
    BY <2>7
<1>5. \A x \in Panel \ {p} : /\ toClient'[x] = toClient[x] /\ staged'[x] = staged[x]
                             /\ kept'[x] = kept[x] /\ showing'[x] = showing[x]
  BY <1>1, <1>3 DEF Typed
<1>6. [x \in Panel |-> Coming(x)]' = [[x \in Panel |-> Coming(x)] EXCEPT ![p] = << current >>]
  BY <1>4, <1>5, OnePanel
<1>7. [x \in Panel |-> Only(showing[x])]' = [x \in Panel |-> Only(showing[x])]
  BY <1>3
<1>8. QED
  BY <1>2, <1>3, <1>6, <1>7 DEF View!Join

(* The event that ends a session tells nothing to show.                    *)
LEMMA DispatchRefines ==
  ASSUME IInv, NEW p \in Panel, Dispatch(p)
  PROVE  \/ \E i \in Workspace : View!Switch(i)
         \/ View!Quit(p)
         \/ UNCHANGED View!vars
<1> DEFINE q == toServer[p]
           r == Head(q)
<1>1. Typed /\ Asks(p)
  BY DEF IInv
<1>2. q # <<>> /\ UNCHANGED << panel, kept, staged, showing >>
  BY DEF Dispatch, client
<1>3. r \in Ask /\ p \in sessions
  <2>1. q \in Seq(Ask)
    BY <1>1 DEF Typed
  <2>2. Head(q) = q[1] /\ 1 \in 1 .. Len(q)
    BY <1>1, <1>2, AsksTail
  <2>3. QED
    BY <1>1, <2>1, <2>2 DEF Asks
<1>4. CASE r.kind = "activate" /\ HandleActivate(p, r.ws)
  <2>1. r.ws \in Workspace /\ Go(r.ws) /\ UNCHANGED << sessions, handles >>
    BY <1>3, <1>4, AskKinds DEF HandleActivate
  <2>2. PICK i \in Workspace : i = r.ws
    BY <2>1
  <2>3. QED
    BY <1>2, <2>1, <2>2, GoRefines
<1>5. CASE r.kind = "destroy" /\ HandleDestroy(p, r.ws)
  <2>1. UNCHANGED << current, sessions, toClient >>
    BY <1>5 DEF HandleDestroy
  <2>2. \A x \in Panel : Coming(x)' = Coming(x)
    BY <1>2, <2>1, ComingUnchanged
  <2>3. Unseen
    BY <1>2, <2>1, <2>2 DEF Unseen
  <2>4. QED
    BY <2>3, UnseenStutters
<1>6. CASE r.kind = "stop" /\ ManagerStop(p)
  <2> DEFINE t == toClient[p]
             u == Append(t, Finished)
  <2>1. /\ sessions' = sessions \ {p} /\ UNCHANGED current
        /\ toClient' = [toClient EXCEPT ![p] = u]
    BY <1>1, <1>6 DEF ManagerStop, DropSession, Typed
  <2>2. t \in Seq(Event) /\ Len(t) \in Nat /\ kept[p] \in SUBSET Workspace
    BY <1>1, LenProperties DEF Typed
  <2>3. /\ u \in Seq(Event) /\ Len(u) = Len(t) + 1 /\ u[Len(t) + 1] = Finished
        /\ \A k \in 1 .. Len(t) : u[k] = t[k]
    BY <2>2, Kinds, AppendProperties
  <2> HIDE DEF u
  <2>4. Dones(u) = Dones(t)
    <3>1. /\ Dones(t) = {k \in 1 .. Len(t) : t[k].kind = "done"}
          /\ Dones(u) = {k \in 1 .. Len(u) : u[k].kind = "done"}
      BY <2>2, <2>3, DonesAre
    <3>2. u[Len(u)].kind # "done"
      BY <2>3, Kinds
    <3>3. \A k \in 1 .. Len(u) : k = Len(u) \/ k \in 1 .. Len(t)
      BY <2>2, <2>3
    <3>4. \A k \in 1 .. Len(t) : k \in 1 .. Len(u)
      BY <2>2, <2>3
    <3>5. QED
      BY <2>3, <3>1, <3>2, <3>3, <3>4
  <2>5. ComingOf(u, staged[p], kept[p]) = ComingOf(t, staged[p], kept[p])
    BY <2>2, <2>3, <2>4, ComingSame
  <2>6. toClient'[p] = u /\ \A x \in Panel \ {p} : toClient'[x] = toClient[x]
    BY <1>1, <2>1 DEF Typed
  <2>7. Coming(p)' = Coming(p)
    BY <1>2, <2>5, <2>6, ComingNext, ComingIs
  <2>8. \A x \in Panel \ {p} : Coming(x)' = Coming(x)
    BY <1>2, <2>6, ComingUnchanged
  <2>9. /\ [x \in Panel |-> Coming(x)]' = [x \in Panel |-> Coming(x)]
        /\ [x \in Panel |-> Only(showing[x])]' = [x \in Panel |-> Only(showing[x])]
    BY <1>2, <2>7, <2>8
  <2>10. View!Quit(p)
    BY <1>2, <1>3, <2>1, <2>9 DEF View!Quit
  <2>11. QED
    BY <2>10
<1>7. QED
  BY <1>4, <1>5, <1>6 DEF Dispatch

LEMMA AskDestroyRefines ==
  ASSUME IInv, NEW p \in Panel, NEW i \in Workspace, AskDestroy(p, i) PROVE View!Forget(p, i)
<1>1. Typed /\ Session(p) /\ Tells(p)
  BY DEF IInv
<1>2. /\ i \in kept[p] /\ UNCHANGED << current, sessions, toClient >>
      /\ kept' = [kept EXCEPT ![p] = kept[p] \ {i}]
      /\ staged' = [staged EXCEPT ![p] = staged[p] \ {i}]
      /\ showing' = [showing EXCEPT ![p] = showing[p] \ {i}]
  BY <1>1 DEF AskDestroy, Request, Typed
<1>3. /\ toClient[p] \in Seq(Event) /\ kept[p] \in SUBSET Workspace /\ showing[p] \in SUBSET Workspace
      /\ kept'[p] = kept[p] \ {i} /\ staged'[p] = staged[p] \ {i} /\ showing'[p] = showing[p] \ {i}
      /\ \A x \in Panel \ {p} : /\ toClient'[x] = toClient[x] /\ staged'[x] = staged[x]
                                /\ kept'[x] = kept[x] /\ showing'[x] = showing[x]
  BY <1>1, <1>2 DEF Typed
<1>4. OneStaged(toClient[p], staged[p], kept[p]) /\ \A a, b \in showing[p] : a = b
  BY <1>1, TellsIs
<1> DEFINE c == [k \in DOMAIN Coming(p) |-> IF Coming(p)[k] = i THEN None ELSE Coming(p)[k]]
           s == IF Only(showing[p]) = i THEN None ELSE Only(showing[p])
<1>5. Coming(p)' = c
  <2>1. PICK q \in Seq(Event), ks \in SUBSET Workspace : q = toClient[p] /\ ks = kept[p]
    BY <1>3
  <2>2. ComingOf(q, staged[p] \ {i}, ks \ {i})
          = [k \in DOMAIN ComingOf(q, staged[p], ks) |->
               IF ComingOf(q, staged[p], ks)[k] = i THEN None ELSE ComingOf(q, staged[p], ks)[k]]
    BY <1>4, <2>1, ComingForgets
  <2>3. Coming(p) = ComingOf(q, staged[p], ks)
    BY <2>1, ComingIs
  <2>4. Coming(p)' = ComingOf(q, staged[p] \ {i}, ks \ {i})
    BY <1>2, <1>3, <2>1, ComingNext
  <2>5. QED
    BY <2>2, <2>3, <2>4
<1>6. Only(showing'[p]) = s
  BY <1>3, <1>4, OnlyLess
<1> HIDE DEF c, s
<1>7. /\ [x \in Panel |-> Coming(x)]' = [[x \in Panel |-> Coming(x)] EXCEPT ![p] = c]
      /\ [x \in Panel |-> Only(showing[x])]' = [[x \in Panel |-> Only(showing[x])] EXCEPT ![p] = s]
  BY <1>3, <1>5, <1>6, OnePanel
<1>8. [x \in Panel |-> Coming(x)][p] = Coming(p)
      /\ [x \in Panel |-> Only(showing[x])][p] = Only(showing[p])
  OBVIOUS
<1>9. QED
  BY <1>2, <1>7, <1>8 DEF View!Forget, c, s

LEMMA ReadRefines ==
  ASSUME IInv, NEW p \in Panel, Read(p)
  PROVE  View!Refresh(p) \/ View!Vanish(p) \/ UNCHANGED View!vars
<1> DEFINE q == toClient[p]
           m == Head(q)
<1>1. Typed /\ Session(p) /\ Tells(p)
  BY DEF IInv
<1>2. /\ q # <<>> /\ toClient' = [toClient EXCEPT ![p] = Tail(q)]
      /\ UNCHANGED << current, sessions, handles, toServer >>
  BY <1>1 DEF Read, Typed
<1>3. /\ q \in Seq(Event) /\ kept[p] \in SUBSET Workspace
      /\ toClient'[p] = Tail(q) /\ \A x \in Panel \ {p} : toClient'[x] = toClient[x]
  BY <1>1, <1>2 DEF Typed
<1>4. CASE m.kind = "state" /\ ReadState(p, m)
  <2> DEFINE next == IF m.active /\ m.ws \in kept[p] THEN staged[p] \cup {m.ws}
                     ELSE staged[p] \ {m.ws}
  <2>1. staged' = [staged EXCEPT ![p] = next] /\ UNCHANGED << panel, kept, showing >>
    BY <1>1, <1>4 DEF ReadState, Typed
  <2>2. \A i \in kept[p] : i \in next <=> IF About(m, i) THEN m.active ELSE i \in staged[p]
    BY <1>4 DEF About
  <2> HIDE DEF next
  <2>3. staged'[p] = next /\ \A x \in Panel \ {p} : staged'[x] = staged[x]
    BY <1>1, <2>1 DEF Typed
  <2>4. ComingOf(Tail(q), next, kept[p]) = ComingOf(q, staged[p], kept[p])
    <3>1. PICK e \in Seq(Event), ks \in SUBSET Workspace : e = q /\ ks = kept[p]
      BY <1>3
    <3>2. e # <<>> /\ Head(e).kind # "done"
          /\ \A i \in ks : i \in next <=> IF About(Head(e), i) THEN Head(e).active ELSE i \in staged[p]
      BY <1>2, <1>4, <2>2, <3>1
    <3>3. ComingOf(Tail(e), next, ks) = ComingOf(e, staged[p], ks)
      BY <3>2, ComingRead
    <3>4. QED
      BY <3>1, <3>3
  <2>5. Coming(p)' = Coming(p)
    BY <1>3, <2>1, <2>3, <2>4, ComingNext, ComingIs
  <2>6. \A x \in Panel \ {p} : Coming(x)' = Coming(x)
    BY <1>3, <2>1, <2>3, ComingUnchanged
  <2>7. Unseen
    BY <1>2, <2>1, <2>5, <2>6 DEF Unseen
  <2>8. QED
    BY <2>7, UnseenStutters
<1>5. CASE m.kind = "done" /\ ReadDone(p)
  <2>1. showing' = [showing EXCEPT ![p] = staged[p]] /\ UNCHANGED << kept, staged >>
    BY <1>1, <1>5 DEF ReadDone, Typed
  <2>2. \A i : ~ About(m, i)
    BY <1>5 DEF About
  <2>3. /\ ComingOf(q, staged[p], kept[p]) # <<>>
        /\ Head(ComingOf(q, staged[p], kept[p])) = Only({i \in kept[p] : i \in staged[p]})
        /\ ComingOf(Tail(q), staged[p], kept[p]) = Tail(ComingOf(q, staged[p], kept[p]))
    <3>1. PICK e \in Seq(Event), ks \in SUBSET Workspace : e = q /\ ks = kept[p]
      BY <1>3
    <3>2. e # <<>> /\ Head(e).kind = "done" /\ \A i : ~ About(Head(e), i)
      BY <1>2, <1>5, <2>2, <3>1
    <3>3. /\ ComingOf(e, staged[p], ks) # <<>>
          /\ Head(ComingOf(e, staged[p], ks)) = Only({i \in ks : i \in staged[p]})
          /\ ComingOf(Tail(e), staged[p], ks) = Tail(ComingOf(e, staged[p], ks))
      BY <3>2, ComingRead
    <3>4. QED
      BY <3>1, <3>3
  <2>4. {i \in kept[p] : i \in staged[p]} = staged[p]
    BY <1>1 DEF Session
  <2>5. showing'[p] = staged[p] /\ \A x \in Panel \ {p} : showing'[x] = showing[x]
    BY <1>1, <2>1 DEF Typed
  <2>6. Coming(p) # <<>> /\ Coming(p)' = Tail(Coming(p)) /\ Only(showing'[p]) = Head(Coming(p))
    BY <1>3, <2>1, <2>3, <2>4, <2>5, ComingNext, ComingIs
  <2>7. /\ [x \in Panel |-> Coming(x)]' = [[x \in Panel |-> Coming(x)] EXCEPT ![p] = Tail(Coming(p))]
        /\ [x \in Panel |-> Only(showing[x])]'
             = [[x \in Panel |-> Only(showing[x])] EXCEPT ![p] = Head(Coming(p))]
    BY <1>3, <2>1, <2>5, <2>6, OnePanel
  <2>8. [x \in Panel |-> Coming(x)][p] = Coming(p)
    OBVIOUS
  <2>9. View!Refresh(p)
    BY <1>2, <2>1, <2>6, <2>7, <2>8 DEF View!Refresh
  <2>10. QED
    BY <2>9
<1>6. CASE m.kind = "finished" /\ ForgetAll(p)
  <2>1. Len(q) \in Nat \ {0} /\ Len(Tail(q)) = Len(q) - 1 /\ Tail(q) \in Seq(Event) /\ m = q[1]
    BY <1>2, <1>3, EmptySeq, LenProperties, HeadTailProperties
  <2>2. p \notin sessions /\ Len(q) = 1
    <3>1. 1 \in 1 .. Len(q) /\ q[1].kind = "finished"
      BY <1>6, <2>1
    <3>2. QED
      BY <1>1, <3>1, TellsIs
  <2>3. Tail(q) = <<>>
    <3>1. Len(Tail(q)) = 0
      BY <2>1, <2>2
    <3>2. QED
      BY <2>1, <3>1, EmptySeq
  <2>4. /\ kept' = [kept EXCEPT ![p] = {}] /\ staged' = [staged EXCEPT ![p] = {}]
        /\ showing' = [showing EXCEPT ![p] = {}]
    BY <1>6 DEF ForgetAll
  <2>5. /\ kept'[p] = {} /\ staged'[p] = {} /\ showing'[p] = {}
        /\ \A x \in Panel \ {p} : /\ kept'[x] = kept[x] /\ staged'[x] = staged[x]
                                  /\ showing'[x] = showing[x]
    BY <1>1, <2>4 DEF Typed
  <2>6. Coming(p)' = <<>> /\ Only(showing'[p]) = None
    BY <1>3, <2>3, <2>5, ComingNext, ComingNone, OnlyIs
  <2>7. /\ [x \in Panel |-> Coming(x)]' = [[x \in Panel |-> Coming(x)] EXCEPT ![p] = <<>>]
        /\ [x \in Panel |-> Only(showing[x])]'
             = [[x \in Panel |-> Only(showing[x])] EXCEPT ![p] = None]
    BY <1>3, <2>5, <2>6, OnePanel
  <2>8. sessions' = sessions \ {p}
    BY <1>2, <2>2
  <2>9. View!Vanish(p)
    BY <1>2, <2>4, <2>7, <2>8 DEF View!Vanish
  <2>10. QED
    BY <2>9
<1>7. QED
  BY <1>4, <1>5, <1>6 DEF Read

LEMMA DisconnectRefines ==
  ASSUME IInv, NEW p \in Panel, Disconnect(p) PROVE View!Vanish(p)
<1>1. /\ sessions' = sessions \ {p} /\ UNCHANGED current
      /\ toClient' = [toClient EXCEPT ![p] = <<>>] /\ kept' = [kept EXCEPT ![p] = {}]
      /\ staged' = [staged EXCEPT ![p] = {}] /\ showing' = [showing EXCEPT ![p] = {}]
  BY DEF Disconnect, DropSession, ForgetAll
<1>2. /\ toClient'[p] = <<>> /\ kept'[p] = {} /\ staged'[p] = {} /\ showing'[p] = {}
      /\ \A x \in Panel \ {p} : /\ toClient'[x] = toClient[x] /\ staged'[x] = staged[x]
                                /\ kept'[x] = kept[x] /\ showing'[x] = showing[x]
  BY <1>1 DEF IInv, Typed
<1>3. Coming(p)' = <<>> /\ Only(showing'[p]) = None
  BY <1>2, ComingNext, ComingNone, OnlyIs
<1>4. /\ [x \in Panel |-> Coming(x)]' = [[x \in Panel |-> Coming(x)] EXCEPT ![p] = <<>>]
      /\ [x \in Panel |-> Only(showing[x])]'
           = [[x \in Panel |-> Only(showing[x])] EXCEPT ![p] = None]
  BY <1>2, <1>3, OnePanel
<1>5. QED
  BY <1>1, <1>4 DEF View!Vanish

LEMMA NextRefines ==
  ASSUME IInv, [Next]_vars PROVE [View!Next]_(View!vars)
<1>1. ASSUME UNCHANGED << current, sessions, toClient, kept, staged, showing >>
      PROVE  UNCHANGED View!vars
  <2>1. \A p \in Panel : Coming(p)' = Coming(p)
    BY <1>1, ComingUnchanged
  <2>2. QED
    BY <1>1, <2>1, UnseenStutters DEF Unseen
<1>2. ASSUME NEW i \in Workspace, LocalSwitch(i)
      PROVE  View!Switch(i) \/ UNCHANGED View!vars
  BY <1>2, GoRefines DEF LocalSwitch
<1>3. ASSUME NEW p \in Panel, NEW i \in Workspace, AskActivate(p, i)
      PROVE  UNCHANGED View!vars
  BY <1>1, <1>3 DEF AskActivate, Request, client
<1>4. ASSUME NEW p \in Panel, AskStop(p)
      PROVE  UNCHANGED View!vars
  BY <1>1, <1>4 DEF AskStop, Request
<1>5. CASE UNCHANGED vars
  BY <1>1, <1>5 DEF vars
<1>6. CASE Next
  <2>1. CASE \E i \in Workspace : LocalSwitch(i)
    BY <1>2, <2>1 DEF View!Next
  <2>2. ASSUME NEW p \in Panel, Bind(p) \/ Dispatch(p) \/ Read(p) \/ AskStop(p) \/ Disconnect(p)
        PROVE  View!Next \/ UNCHANGED View!vars
    BY <1>4, <2>2, BindRefines, DispatchRefines, ReadRefines, DisconnectRefines DEF View!Next
  <2>3. ASSUME NEW p \in Panel, NEW i \in Workspace, AskActivate(p, i) \/ AskDestroy(p, i)
        PROVE  View!Next \/ UNCHANGED View!vars
    BY <1>3, <2>3, AskDestroyRefines DEF View!Next
  <2>4. QED
    BY <1>6, <2>1, <2>2, <2>3 DEF Next
<1>7. QED
  BY <1>5, <1>6

(* What panels are sent implements PanelView in every step: each switch is *)
(* told once to every panel that listens, in order and whole, a panel      *)
(* shows what it was told and nothing else, and a panel that stops or goes *)
(* hears of no more (ext_workspace_notify, ext_workspace_bind and the      *)
(* handlers).  Its fairness is left to the run.                            *)
THEOREM ViewImplemented == Spec => View!Init /\ [][View!Next]_(View!vars)
<1>1. Init => View!Init
  BY RefineInit
<1>2. IInv /\ [Next]_vars => [View!Next]_(View!vars)
  BY NextRefines
<1>3. QED
  BY <1>1, <1>2, Invariance, PTL DEF Spec
=============================================================================
