-------------------------- MODULE InstancesProofs --------------------------
(***************************************************************************)
(* Theorems about module Instances for any number of compositor processes  *)
(* and senders, any backlog and any silent senders.                        *)
(***************************************************************************)
EXTENDS Instances, TLAPS

(* A process that never had company is the only one that is not off, which *)
(* is why no other process can take the file from it.                      *)
KeepsToItself == \A i \in undisturbed : life[i] # "off" /\ Alone(i)

IInv == TypeOK /\ KeepsToItself /\ SoleInstanceReachable /\ CrashMarkedOnce

LEMMA InitInvariant == Init => IInv
<1> SUFFICES ASSUME Init PROVE IInv
  OBVIOUS
<1>1. TypeOK
  BY InstanceAssumption DEF Init, TypeOK, Life, Command, Waits, Idle
<1>2. KeepsToItself /\ SoleInstanceReachable /\ CrashMarkedOnce
  BY DEF Init, KeepsToItself, SoleInstanceReachable, CrashMarkedOnce
<1> QED BY <1>1, <1>2 DEF IInv

(* Steps that leave the processes, the sockets and the markers alone need  *)
(* keep only the types.                                                    *)
LEMMA OthersKeep ==
  ASSUME IInv, TypeOK', UNCHANGED << life, sockets, markers, undisturbed >>
  PROVE  IInv'
  BY DEF IInv, sockets, KeepsToItself, Alone, SoleInstanceReachable, CrashMarkedOnce

(* The end of a process, whether it cleans up or not. *)
LEMMA GoneTypes ==
  ASSUME TypeOK, NEW i \in Instance, Gone(i), path' \in {path, Nobody}, UNCHANGED markers
  PROVE  TypeOK'
<1>1. /\ life' \in [Instance -> Life] /\ loop' \in [Instance -> Waits]
      /\ queue' \in [Instance -> Seq(Sender)]
  BY DEF Gone, TypeOK, Life, Waits, Idle
<1>2. /\ command' \in [Sender -> Command] /\ peer' \in [Sender -> Instance \cup {Nobody}]
  BY DEF Gone, TypeOK, Command
<1> QED BY <1>1, <1>2 DEF Gone, TypeOK

(* A process that ends had others beside it, or leaves nobody undisturbed. *)
LEMMA GoneKeeps ==
  ASSUME IInv, NEW i \in Instance, Gone(i), life[i] # "off",
         path' \in {path, Nobody}, UNCHANGED markers
  PROVE  IInv'
<1>1. TypeOK'
  BY GoneTypes DEF IInv
<1>2. undisturbed' = {}
  <2>1. \A j \in undisturbed : j \in Instance /\ j = i
    BY DEF IInv, KeepsToItself, Alone, TypeOK
  <2> QED BY <2>1 DEF Gone
<1>3. CrashMarkedOnce'
  BY DEF Gone, IInv, TypeOK, CrashMarkedOnce
<1> QED BY <1>1, <1>2, <1>3 DEF IInv, KeepsToItself, SoleInstanceReachable

LEMMA StartKeeps ==
  ASSUME IInv, NEW i \in Instance, Start(i)
  PROVE  IInv'
<1>1. /\ life[i] = "off"
      /\ life' = [life EXCEPT ![i] = "starting"]
      /\ markers' = [markers EXCEPT ![i] = << 0, 0 >>]
      /\ UNCHANGED << queue, command, peer, loop >>
      /\ undisturbed' \in {{}, {i}}
      /\ undisturbed' = {i} => IpcInit(i) /\ Alone(i)
      /\ IpcInit(i) \/ IpcInitFails(i) \/ UNCHANGED sockets
  BY DEF Start, senders
<1>2. TypeOK'
  <2>1. named' \in SUBSET Instance /\ listening' \in SUBSET Instance /\ path' \in Instance \cup {Nobody}
    BY <1>1 DEF IInv, TypeOK, IpcInit, IpcInitFails, sockets
  <2>2. life' \in [Instance -> Life] /\ markers' \in [Instance -> (0 .. 1) \X (0 .. 1)]
    BY <1>1 DEF IInv, TypeOK, Life
  <2>3. undisturbed' \in SUBSET Instance
    BY <1>1
  <2> QED BY <1>1, <2>1, <2>2, <2>3 DEF IInv, TypeOK
<1>3. CrashMarkedOnce'
  BY <1>1 DEF IInv, TypeOK, CrashMarkedOnce
<1>4. KeepsToItself' /\ SoleInstanceReachable'
  BY <1>1 DEF IInv, TypeOK, KeepsToItself, SoleInstanceReachable, Alone, IpcInit
<1> QED BY <1>2, <1>3, <1>4 DEF IInv

(* The handler writes each place once, and in order. *)
LEMMA SignalKeeps ==
  ASSUME IInv, NEW i \in Instance, FatalSignal(i) \/ WriteMarker(i) \/ Run(i)
  PROVE  IInv'
<1>1. /\ life[i] # "off" /\ UNCHANGED << named, listening, path, queue, command, peer, loop, undisturbed >>
      /\ \E l \in {"running", "crashing"} :
           /\ life' = [life EXCEPT ![i] = l]
           /\ l = "running" => markers[i] = << 0, 0 >> /\ UNCHANGED markers
      /\ \E m \in {markers[i], << 1, 0 >>, << 1, 1 >>} : markers' = [markers EXCEPT ![i] = m]
      /\ markers'[i] \in {<< 0, 0 >>, << 1, 0 >>, << 1, 1 >>}
  <2>1. CASE FatalSignal(i) \/ Run(i)
    BY <2>1 DEF FatalSignal, Run, sockets, senders, IInv, TypeOK, CrashMarkedOnce
  <2>2. CASE WriteMarker(i)
    <3>1. life' = [life EXCEPT ![i] = "crashing"]
      BY <2>2 DEF WriteMarker, IInv, TypeOK
    <3>2. \E m \in {<< 1, 0 >>, << 1, 1 >>} : markers' = [markers EXCEPT ![i] = m] /\ markers'[i] = m
      BY <2>2 DEF WriteMarker, IInv, TypeOK
    <3> QED BY <2>2, <3>1, <3>2 DEF WriteMarker, sockets, senders
  <2> QED BY <2>1, <2>2
<1>2. TypeOK'
  <2>1. life' \in [Instance -> Life] /\ markers' \in [Instance -> (0 .. 1) \X (0 .. 1)]
    BY <1>1 DEF IInv, TypeOK, Life
  <2> QED BY <1>1, <2>1 DEF IInv, TypeOK
<1>3. CrashMarkedOnce'
  BY <1>1 DEF IInv, TypeOK, CrashMarkedOnce
<1>4. KeepsToItself' /\ SoleInstanceReachable'
  BY <1>1 DEF IInv, TypeOK, KeepsToItself, SoleInstanceReachable, Alone
<1> QED BY <1>2, <1>3, <1>4 DEF IInv

(* Senders and the event loop, with the queue of connections between them. *)
LEMMA SenderKeeps ==
  ASSUME IInv, NEW s \in Sender, Launch(s) \/ SenderStep(s)
  PROVE  IInv'
<1>1. CASE Connect(s)
  <2>1. path \in Instance
    BY <1>1 DEF Connect, IInv, TypeOK
  <2>2. /\ queue' \in [Instance -> Seq(Sender)] /\ peer' \in [Sender -> Instance \cup {Nobody}]
        /\ command' \in [Sender -> Command]
    BY <1>1, <2>1 DEF Connect, IInv, TypeOK, Command
  <2>3. TypeOK'
    BY <1>1, <2>2 DEF Connect, IInv, TypeOK, sockets
  <2> QED BY <1>1, <2>3, OthersKeep DEF Connect
<1>2. CASE Launch(s) \/ Refused(s) \/ Write(s)
  <2>1. command' \in [Sender -> Command]
    BY <1>2 DEF Launch, Refused, Write, IInv, TypeOK, Command
  <2>2. UNCHANGED << life, sockets, queue, loop, peer, markers, undisturbed >>
    BY <1>2 DEF Launch, Refused, Write
  <2>3. TypeOK'
    BY <2>1, <2>2 DEF IInv, TypeOK, sockets
  <2> QED BY <2>2, <2>3, OthersKeep
<1> QED BY <1>1, <1>2 DEF SenderStep

LEMMA LoopKeeps ==
  ASSUME IInv, NEW i \in Instance, Accept(i) \/ Read(i) \/ KeyPress(i) \/ PredicateEnds(i)
  PROVE  IInv'
<1>1. UNCHANGED << life, sockets, markers, undisturbed >>
  BY DEF Accept, Read, KeyPress, PredicateEnds
<1>2. /\ queue' \in [Instance -> Seq(Sender)] /\ peer' \in [Sender -> Instance \cup {Nobody}]
      /\ command' \in [Sender -> Command] /\ loop' \in [Instance -> Waits]
  <2>1. CASE Accept(i)
    <3>1. Head(queue[i]) \in Sender /\ Tail(queue[i]) \in Seq(Sender)
      BY <2>1 DEF Accept, IInv, TypeOK
    <3>2. << "read", Head(queue[i]) >> \in Waits
      BY <3>1 DEF Waits
    <3> QED BY <2>1, <3>1, <3>2 DEF Accept, IInv, TypeOK
  <2>2. CASE Read(i)
    <3>1. Idle \in Waits
      BY DEF Idle, Waits
    <3> QED BY <2>2, <3>1 DEF Read, IInv, TypeOK, Command
  <2>3. CASE KeyPress(i)
    <3>1. << "when", Nobody >> \in Waits /\ \A s \in Sender : << "when", s >> \in Waits
      BY DEF Waits
    <3>2. UNCHANGED << queue, peer >>
      BY <2>3 DEF KeyPress
    <3>3. CASE loop' = [loop EXCEPT ![i] = << "when", Nobody >>] /\ UNCHANGED command
      BY <3>1, <3>2, <3>3 DEF IInv, TypeOK
    <3>4. ASSUME NEW s \in Sender, command' = [command EXCEPT ![s] = "launched"],
                 loop' = [loop EXCEPT ![i] = << "when", s >>]
          PROVE  command' \in [Sender -> Command] /\ loop' \in [Instance -> Waits]
      BY <3>1, <3>4 DEF IInv, TypeOK, Command
    <3> QED BY <2>3, <3>2, <3>3, <3>4 DEF KeyPress, IInv, TypeOK
  <2>4. CASE PredicateEnds(i)
    <3>1. Idle \in Waits
      BY DEF Idle, Waits
    <3> QED BY <2>4, <3>1 DEF PredicateEnds, senders, IInv, TypeOK
  <2> QED BY <2>1, <2>2, <2>3, <2>4
<1>3. TypeOK'
  BY <1>1, <1>2 DEF IInv, TypeOK, sockets
<1> QED BY <1>1, <1>3, OthersKeep

LEMMA StepInvariant == IInv /\ [Next]_vars => IInv'
<1> SUFFICES ASSUME IInv, [Next]_vars PROVE IInv'
  OBVIOUS
<1>1. CASE UNCHANGED vars
  <2>1. TypeOK'
    BY <1>1 DEF vars, IInv, TypeOK
  <2> QED BY <1>1, <2>1, OthersKeep DEF vars, sockets
<1>2. ASSUME NEW i \in Instance, Finish(i) \/ Reraise(i) \/ SecondSignal(i)
      PROVE  IInv'
  <2>1. Gone(i) /\ life[i] # "off" /\ path' \in {path, Nobody} /\ UNCHANGED markers
    BY <1>2 DEF Finish, Reraise, SecondSignal
  <2> QED BY <2>1, GoneKeeps
<1> QED BY <1>1, <1>2, StartKeeps, SignalKeeps, SenderKeeps, LoopKeeps
        DEF Next, LoopStep, CrashStep

THEOREM Invariance == Spec => []IInv
  BY InitInvariant, StepInvariant, PTL DEF Spec

(* Type correctness: connections are of senders, the loop waits for one.   *)
THEOREM InstancesTypeCorrect == Spec => []TypeOK
<1>1. IInv => TypeOK
  BY DEF IInv
<1> QED BY <1>1, Invariance, PTL

(* A compositor that sets up its socket and is alone for all its life can  *)
(* be reached, whatever files others left (ipc_init), for any number of    *)
(* processes.                                                              *)
THEOREM SoleAlwaysReachable == Spec => []SoleInstanceReachable
<1>1. IInv => SoleInstanceReachable
  BY DEF IInv
<1> QED BY <1>1, Invariance, PTL

(* At most one crash marker in each place for one life                     *)
(* (crash_signal_handler).                                                 *)
THEOREM MarkedAtMostOnce == Spec => []CrashMarkedOnce
<1>1. IInv => CrashMarkedOnce
  BY DEF IInv
<1> QED BY <1>1, Invariance, PTL
=============================================================================
