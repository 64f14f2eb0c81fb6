------------------------------ MODULE Instances ------------------------------
(***************************************************************************)
(* Compositor processes that share one runtime directory, and the commands *)
(* sent to them through the socket there (src/main.c): start, failure to   *)
(* start, crash, restart, and an event loop that stops while it reads from *)
(* a client or waits for a when= predicate (src/config.c).                 *)
(*                                                                         *)
(* The socket file names the socket that was bound to it last, which may   *)
(* be that of a process that crashed.  What a command does to the windows  *)
(* belongs to the other modules.                                           *)
(***************************************************************************)
EXTENDS Integers, Sequences

CONSTANTS
  Instance,  \* compositor processes; one may be started again
  Sender,    \* processes that send one command
  Silent,    \* senders that may connect and never write, as a user's nc does
  Backlog,   \* connections the kernel queues; one more waits in connect()
  Nobody

ASSUME InstanceAssumption ==
  /\ Silent \subseteq Sender /\ Backlog \in Nat \ {0} /\ Nobody \notin Instance \cup Sender

VARIABLES
  life,       \* what each process is doing
  named,      \* processes with a socket path in ipc_socket_path
  listening,  \* processes with a listening socket in their event loop
  path,       \* the process whose socket the file names, if there is the file
  queue,      \* the connections a process has not accepted, oldest first
  loop,       \* what the event loop waits for: nothing, a read, a predicate
  command,    \* how far each sender is
  peer,       \* the process each sender is connected to
  markers,    \* crash markers on stderr and in the crash log, in this life
  undisturbed \* history: listens, and was the only process in all its life

vars == << life, named, listening, path, queue, loop, command, peer, markers, undisturbed >>

sockets == << named, listening, path >>
senders == << queue, command, peer >>

Life    == {"off", "starting", "running", "crashing"}
Command == {"idle", "launched", "connected", "sent"}
Waits   == {"idle"} \X {Nobody} \cup {"read"} \X Sender \cup {"when"} \X (Sender \cup {Nobody})
Idle    == << "idle", Nobody >>

Alone(i) == \A j \in Instance \ {i} : life[j] = "off"

-----------------------------------------------------------------------------
(* Starting *)

(* Mutant: the file of an earlier process is left to bind(), which fails. *)
IpcInitKeepingFile(i) ==
  IF path = Nobody
  THEN named' = named \cup {i} /\ listening' = listening \cup {i} /\ path' = i
  ELSE UNCHANGED sockets

(* ipc_init.  The file is unlinked first, whoever's it is.  If socket()    *)
(* fails ipc_socket_path stays set; if bind(), listen() or the event loop  *)
(* fails it is cleared.                                                    *)
IpcInit(i) == named' = named \cup {i} /\ listening' = listening \cup {i} /\ path' = i

IpcInitFails(i) ==
  /\ path' = Nobody
  /\ named' \in {named, named \cup {i}}
  /\ UNCHANGED listening

(* server_init, with or without --no-ipc *)
Start(i) ==
  /\ life[i] = "off"
  /\ life' = [life EXCEPT ![i] = "starting"]
  /\ markers' = [markers EXCEPT ![i] = << 0, 0 >>]
  /\ \/ IpcInit(i) /\ undisturbed' = IF Alone(i) THEN {i} ELSE {}
     \/ (IpcInitFails(i) \/ UNCHANGED sockets) /\ undisturbed' = {}
  /\ UNCHANGED << senders, loop >>

(* The backend started: startup hook, then wl_display_run. *)
Run(i) ==
  /\ life[i] = "starting"
  /\ life' = [life EXCEPT ![i] = "running"]
  /\ UNCHANGED << sockets, senders, loop, markers, undisturbed >>

-----------------------------------------------------------------------------
(* Ending *)

(* The kernel closes the socket and every connection to the process: lines *)
(* that were not read are lost, and a sender that has yet to write fails.  *)
Gone(i) ==
  /\ life' = [life EXCEPT ![i] = "off"]
  /\ listening' = listening \ {i}
  /\ named' = named \ {i}
  /\ queue' = [queue EXCEPT ![i] = << >>]
  /\ loop' = [loop EXCEPT ![i] = Idle]
  /\ command' = [s \in Sender |-> IF peer[s] = i THEN "idle" ELSE command[s]]
  /\ peer' = [s \in Sender |-> IF peer[s] = i THEN Nobody ELSE peer[s]]
  /\ undisturbed' = undisturbed \ {i}

(* server_finish with ipc_fini, at the end of the loop or when the display *)
(* socket or the backend could not be started: the file is unlinked,       *)
(* whoever's it is.  The shutdown hook, which is waited for before that,   *)
(* is left out: the loop has ended, and it answers no command of the hook. *)
Finish(i) ==
  /\ life[i] \in {"starting", "running"} /\ loop[i] = Idle
  /\ Gone(i)
  /\ path' = IF i \in named THEN Nobody ELSE path
  /\ UNCHANGED markers

(* A fatal signal; the loop is left wherever it is.                        *)
FatalSignal(i) ==
  /\ life[i] \in {"starting", "running"}
  /\ life' = [life EXCEPT ![i] = "crashing"]
  /\ UNCHANGED << sockets, senders, loop, markers, undisturbed >>

(* crash_write_marker: to stderr, then to the log *)
WriteMarker(i) ==
  /\ life[i] = "crashing"
  /\ \/ markers[i] = << 0, 0 >> /\ markers' = [markers EXCEPT ![i] = << 1, 0 >>]
     \/ markers[i] = << 1, 0 >> /\ markers' = [markers EXCEPT ![i] = << 1, 1 >>]
  /\ UNCHANGED << life, sockets, senders, loop, undisturbed >>

(* Killed by the raised signal; nothing is cleaned up, the file stays.     *)
Reraise(i) ==
  /\ life[i] = "crashing" /\ markers[i] = << 1, 1 >>
  /\ Gone(i)
  /\ UNCHANGED << path, markers >>

(* Mutant: crash_handling is not looked at. *)
SecondSignalHandled(i) ==
  /\ life[i] = "crashing"
  /\ markers' = [markers EXCEPT ![i] = << 2, @[2] >>]
  /\ UNCHANGED << life, sockets, senders, loop, undisturbed >>

(* A second signal ends the process at once. *)
SecondSignal(i) ==
  /\ life[i] = "crashing"
  /\ Gone(i)
  /\ UNCHANGED << path, markers >>

-----------------------------------------------------------------------------
(* Senders (ipc_client_send_line, nc) *)

Unused(s) == command[s] = "idle" /\ \A i \in Instance : loop[i] # << "when", s >>

Launch(s) ==
  /\ Unused(s)
  /\ command' = [command EXCEPT ![s] = "launched"]
  /\ UNCHANGED << life, sockets, queue, loop, peer, markers, undisturbed >>

(* Without the file, or with one nobody listens on, connect() fails; with  *)
(* a full queue it waits.                                                  *)
Refused(s) ==
  /\ command[s] = "launched"
  /\ path \notin listening
  /\ command' = [command EXCEPT ![s] = "idle"]
  /\ UNCHANGED << life, sockets, queue, loop, peer, markers, undisturbed >>

Connect(s) ==
  /\ command[s] = "launched"
  /\ path \in listening /\ Len(queue[path]) < Backlog
  /\ command' = [command EXCEPT ![s] = "connected"]
  /\ peer' = [peer EXCEPT ![s] = path]
  /\ queue' = [queue EXCEPT ![path] = Append(@, s)]
  /\ UNCHANGED << life, sockets, loop, markers, undisturbed >>

Write(s) ==
  /\ command[s] = "connected"
  /\ command' = [command EXCEPT ![s] = "sent"]
  /\ UNCHANGED << life, sockets, queue, loop, peer, markers, undisturbed >>

(* Mutant: the sender waits until the compositor closes the connection. *)
ReturnsAnswered(s) == command[s] = "idle"

(* The sender does not wait for an answer. *)
Returns(s) == command[s] \in {"idle", "sent"}

-----------------------------------------------------------------------------
(* The event loop *)

(* Mutant: the loop is told of a connection only when it is the first. *)
AcceptFirst(i) ==
  /\ life[i] = "running" /\ loop[i] = Idle
  /\ Len(queue[i]) = 1
  /\ loop' = [loop EXCEPT ![i] = << "read", Head(queue[i]) >>]
  /\ queue' = [queue EXCEPT ![i] = Tail(@)]
  /\ UNCHANGED << life, sockets, command, peer, markers, undisturbed >>

(* ipc_on_listen: accept, then a read that waits for the client. *)
Accept(i) ==
  /\ life[i] = "running" /\ loop[i] = Idle
  /\ queue[i] # << >>
  /\ loop' = [loop EXCEPT ![i] = << "read", Head(queue[i]) >>]
  /\ queue' = [queue EXCEPT ![i] = Tail(@)]
  /\ UNCHANGED << life, sockets, command, peer, markers, undisturbed >>

Read(i) ==
  /\ life[i] = "running"
  /\ \E s \in Sender :
        /\ loop[i] = << "read", s >> /\ command[s] = "sent"
        /\ command' = [command EXCEPT ![s] = "idle"]
        /\ peer' = [peer EXCEPT ![s] = Nobody]
  /\ loop' = [loop EXCEPT ![i] = Idle]
  /\ UNCHANGED << life, sockets, queue, markers, undisturbed >>

(* A key press whose binding has a when= predicate: a shell is started,    *)
(* perhaps one that sends a command, and waited for (comp_keybind_when_ok).*)
KeyPress(i) ==
  /\ life[i] = "running" /\ loop[i] = Idle
  /\ \/ loop' = [loop EXCEPT ![i] = << "when", Nobody >>] /\ UNCHANGED command
     \/ \E s \in Sender \ Silent :
          /\ Unused(s)
          /\ command' = [command EXCEPT ![s] = "launched"]
          /\ loop' = [loop EXCEPT ![i] = << "when", s >>]
  /\ UNCHANGED << life, sockets, queue, peer, markers, undisturbed >>

PredicateEnds(i) ==
  /\ life[i] = "running"
  /\ loop[i][1] = "when" /\ \A s \in Sender : loop[i][2] = s => Returns(s)
  /\ loop' = [loop EXCEPT ![i] = Idle]
  /\ UNCHANGED << life, sockets, senders, markers, undisturbed >>

-----------------------------------------------------------------------------

Init ==
  /\ life = [i \in Instance |-> "off"]
  /\ named = {} /\ listening = {} /\ path = Nobody
  /\ queue = [i \in Instance |-> << >>] /\ loop = [i \in Instance |-> Idle]
  /\ command = [s \in Sender |-> "idle"] /\ peer = [s \in Sender |-> Nobody]
  /\ markers = [i \in Instance |-> << 0, 0 >>]
  /\ undisturbed = {}

LoopStep(i)   == Run(i) \/ Read(i) \/ PredicateEnds(i)
SenderStep(s) == Refused(s) \/ Connect(s) \/ Write(s)
CrashStep(i)  == WriteMarker(i) \/ Reraise(i)

Next ==
  \/ \E i \in Instance :
        \/ Start(i) \/ Finish(i)
        \/ FatalSignal(i) \/ SecondSignal(i) \/ CrashStep(i)
        \/ LoopStep(i) \/ Accept(i) \/ KeyPress(i)
  \/ \E s \in Sender : Launch(s) \/ SenderStep(s)

Spec == Init /\ [][Next]_vars

(* A process that can go on does, programs that send a command run to      *)
(* their end, and so does the signal handler; users, silent clients and    *)
(* signals are free.  Keys do not starve the socket: one round of the      *)
(* event loop serves every source that was ready, once.                    *)
FairSpec ==
  /\ Spec
  /\ \A i \in Instance :
        WF_vars(LoopStep(i)) /\ SF_vars(Accept(i)) /\ WF_vars(CrashStep(i))
  /\ \A s \in Sender \ Silent : WF_vars(SenderStep(s))

-----------------------------------------------------------------------------
(* Properties *)

(* Every variable holds a value of its kind. *)
TypeOK ==
  /\ life \in [Instance -> Life]
  /\ named \in SUBSET Instance /\ listening \in SUBSET Instance
  /\ path \in Instance \cup {Nobody}
  /\ queue \in [Instance -> Seq(Sender)] /\ loop \in [Instance -> Waits]
  /\ command \in [Sender -> Command] /\ peer \in [Sender -> Instance \cup {Nobody}]
  /\ markers \in [Instance -> (0 .. 1) \X (0 .. 1)]
  /\ undisturbed \in SUBSET Instance

(* The event loop comes back from every command and every when= predicate, *)
(* even from a predicate that sends a command to the process that waits    *)
(* for it (ipc_on_listen, comp_keybind_when_ok, ipc_client_send_line).     *)
LoopProgresses == \A i \in Instance : loop[i] # Idle ~> loop[i] = Idle

(* "Returns 0 if the line was delivered": a line that was sent is read,    *)
(* unless the process it was sent to ends.                                 *)
SentIsHandled == \A s \in Sender : command[s] = "sent" ~> command[s] # "sent"

(* A process whose socket was set up, and that never had another process   *)
(* beside it, can be reached under the path: files that crashed processes  *)
(* left there do not matter (ipc_init).                                    *)
SoleInstanceReachable ==
  \A i \in undisturbed : i \in listening /\ path = i

(* One life leaves at most one crash marker in each place, and in the log  *)
(* only what is on stderr; only a crash leaves any (crash_signal_handler). *)
CrashMarkedOnce ==
  \A i \in Instance :
    /\ markers[i] \in {<< 0, 0 >>, << 1, 0 >>, << 1, 1 >>}
    /\ life[i] \in {"starting", "running"} => markers[i] = << 0, 0 >>
=============================================================================
