--------------------------- MODULE HostSupervisor ---------------------------
(***************************************************************************)
(* One host process: the supervisor (runtime/supervisor.py) that starts,   *)
(* serves and stops the facades of a host, the listeners of those facades  *)
(* (facades/base.py and the facades that own their sockets), the client    *)
(* connections they accept and the telemetry emitter they share.           *)
(*                                                                         *)
(* The event loop runs one coroutine at a time: an action is what runs     *)
(* between two awaits.  A facade is numbered by its place in the host's    *)
(* service list and has a kind, which decides what start() and stop() do:  *)
(*   "stream"    http, ldap, banner, rdp: one TCP listener, connections    *)
(*               wrapped by _wrapped_handle and its open/close events      *)
(*   "datagram"  dns, kerberos: a UDP endpoint, then a TCP listener        *)
(*   "session"   ssh: a TCP listener of a library                          *)
(*   "thread"    smb: a thread of a library and a directory of files       *)
(***************************************************************************)
EXTENDS Integers, Sequences

CONSTANTS
  Kind,          \* the kinds of the host's facades, in order
  Clients,       \* connections clients may open; each is used once
  Waits          \* what `waits` may be, by the versions of Python to consider

Kinds == {"stream", "datagram", "session", "thread"}

ASSUME KindAssumption == Kind \in Seq(Kinds)
ASSUME WaitAssumption == Waits \subseteq BOOLEAN

Last == Len(Kind)      \* the last facade of the list
Facades == 1 .. Last
NoFacade == 0

VARIABLES
  waits,     \* Server.wait_closed() waits for connections (Python 3.12)
  pc,        \* where run() is
  pos,       \* the facade its loop has reached
  started,   \* how many facades are in the list `started`
  outcome,   \* how run() ended
  failed,    \* the facade whose start() raised, NoFacade when none did
  blamed,    \* the facade the RuntimeError names
  stop,      \* self._stop
  udp,       \* facades with a bound UDP endpoint
  tcp,       \* facades with a listening TCP socket (thread: the SMB server)
  files,     \* thread facades whose temporary directory exists
  logging,   \* thread facades whose log handler is installed
  task,      \* the serve_forever task of each facade
  conn,      \* the connections: [state, facade]
  emitter,   \* "open" or "closed": the file sink
  log,       \* events written to the file sink
  dropped    \* events emitted after the file sink was closed

supVars == <<waits, pc, pos, started, outcome, failed, blamed, stop>>
facadeVars == <<udp, tcp, files, logging, task>>
logVars == <<emitter, log, dropped>>
vars == <<waits, pc, pos, started, outcome, failed, blamed, stop, udp, tcp,
          files, logging, task, conn, emitter, log, dropped>>

HostReady == <<"host_ready", NoFacade>>
HostStopping == <<"host_stopping", NoFacade>>
Events == {HostReady, HostStopping}
            \cup ({"service_listen"} \X Facades)
            \cup ({"connection_open", "connection_error", "connection_close"}
                    \X Clients)

Live(f) == {k \in Clients : conn[k].state = "open" /\ conn[k].facade = f}
-----------------------------------------------------------------------------
(* Emitter.emit: the sinks' failures are swallowed, so an event emitted    *)
(* after Emitter.close() does not reach the file.                          *)
Emit(events) ==
  /\ log' = IF emitter = "open" THEN log \cup events ELSE log
  /\ dropped' = IF emitter = "open" THEN dropped ELSE dropped \cup events
  /\ UNCHANGED emitter

Init ==
  /\ waits \in Waits
  /\ pc = "start" /\ pos = 1 /\ started = 0
  /\ outcome = "none" /\ failed = NoFacade /\ blamed = NoFacade
  /\ stop = FALSE
  /\ udp = {} /\ tcp = {} /\ files = {} /\ logging = {}
  /\ task = [f \in Facades |-> "none"]
  /\ conn = [k \in Clients |-> [state |-> "none", facade |-> NoFacade]]
  /\ emitter = "open" /\ log = {} /\ dropped = {}
-----------------------------------------------------------------------------
(* Phase 1: start the facades in order.                                    *)

(* create_datagram_endpoint() of a datagram facade, before its listener.   *)
BindUdp ==
  /\ pc = "start" /\ pos \in Facades
  /\ Kind[pos] = "datagram" /\ pos \notin udp
  /\ udp' = udp \cup {pos}
  /\ UNCHANGED <<supVars, tcp, files, logging, task, conn, logVars>>

(* Mutant of Listen: the next facade is counted as started. *)
ListenCountsNext ==
  /\ pc = "start" /\ pos \in Facades
  /\ Kind[pos] = "datagram" => pos \in udp
  /\ tcp' = tcp \cup {pos}
  /\ files' = IF Kind[pos] = "thread" THEN files \cup {pos} ELSE files
  /\ logging' = IF Kind[pos] = "thread" THEN logging \cup {pos} ELSE logging
  /\ Emit({<<"service_listen", pos>>})
  /\ started' = pos + 1
  /\ pos' = pos + 1
  /\ UNCHANGED <<waits, pc, outcome, failed, blamed, stop, udp, task, conn>>

(* The listener is bound: start() emits service_listen and returns, and    *)
(* the supervisor goes on to the next facade.                              *)
Listen ==
  /\ pc = "start" /\ pos \in Facades
  /\ Kind[pos] = "datagram" => pos \in udp
  /\ tcp' = tcp \cup {pos}
  /\ files' = IF Kind[pos] = "thread" THEN files \cup {pos} ELSE files
  /\ logging' = IF Kind[pos] = "thread" THEN logging \cup {pos} ELSE logging
  /\ Emit({<<"service_listen", pos>>})
  /\ started' = pos
  /\ pos' = pos + 1
  /\ UNCHANGED <<waits, pc, outcome, failed, blamed, stop, udp, task, conn>>

(* What a start() that raises leaves besides a UDP endpoint that was bound:*)
(* an SMB facade makes its directory, then its listener, and installs its  *)
(* log handler last, before it starts the thread.                          *)
Leftovers ==
  IF Kind[pos] = "thread"
  THEN {{}, {"files"}, {"files", "tcp"}, {"files", "tcp", "logging"}}
  ELSE {{}}

LeftBy(what, held, name) == IF name \in what THEN held \cup {pos} ELSE held

Leaves(what) ==
  /\ files' = LeftBy(what, files, "files")
  /\ tcp' = LeftBy(what, tcp, "tcp")
  /\ logging' = LeftBy(what, logging, "logging")

(* start() raises OSError, on the UDP endpoint, on the listener or on the  *)
(* files of a share.  The facade is not in `started`.                      *)
BindFails ==
  /\ pc = "start" /\ pos \in Facades
  /\ \E what \in Leftovers : "logging" \notin what /\ Leaves(what)
  /\ failed' = pos
  /\ pc' = "rollback"
  /\ pos' = 1
  /\ UNCHANGED <<waits, started, outcome, blamed, stop, udp, task, conn,
                 logVars>>

(* start() raises anything else (a library refuses its configuration, no   *)
(* thread can be started): run() has no handler for it and ends without    *)
(* rolling back.                                                           *)
StartRaises ==
  /\ pc = "start" /\ pos \in Facades
  /\ Kind[pos] \in {"session", "thread"}
  /\ \E what \in Leftovers : Leaves(what)
  /\ failed' = pos
  /\ outcome' = "error"
  /\ pc' = "cancel"
  /\ UNCHANGED <<waits, pos, started, blamed, stop, udp, task, conn, logVars>>

(* Every started facade has been stopped: raise RuntimeError.  Its message *)
(* names `facade`, which the rollback loop has made the last started one.  *)
RollbackDone ==
  /\ pc = "rollback" /\ pos > started
  /\ blamed' = IF started = 0 THEN failed ELSE started
  /\ outcome' = "bind failure"
  /\ pc' = "cancel"
  /\ UNCHANGED <<waits, pos, started, failed, stop, facadeVars, conn, logVars>>
-----------------------------------------------------------------------------
(* Mutant of Ready: announced before the last facade has started. *)
ReadyOneShort ==
  /\ pc = "start" /\ pos >= Last
  /\ task' = [f \in Facades |-> "created"]
  /\ Emit({HostReady})
  /\ pc' = "serve"
  /\ UNCHANGED <<waits, pos, started, outcome, failed, blamed, stop, udp, tcp,
                 files, logging, conn>>

(* Mutant of Ready: the event is cleared, as if set by an earlier run. *)
ReadyForgetsSignal ==
  /\ pc = "start" /\ pos > Last
  /\ task' = [f \in Facades |-> "created"]
  /\ Emit({HostReady})
  /\ pc' = "serve"
  /\ stop' = FALSE
  /\ UNCHANGED <<waits, pos, started, outcome, failed, blamed, udp, tcp, files,
                 logging, conn>>

(* Phase 2: create the serve tasks, announce host_ready, wait for _stop.   *)
Ready ==
  /\ pc = "start" /\ pos > Last
  /\ task' = [f \in Facades |-> "created"]
  /\ Emit({HostReady})
  /\ pc' = "serve"
  /\ UNCHANGED <<waits, pos, started, outcome, failed, blamed, stop, udp, tcp,
                 files, logging, conn>>

(* A serve task gets its first turn.  serve_forever() of a listener that   *)
(* stop() has closed already raises; the others create the future          *)
(* _stopped, which a stop() that is past will not complete.                *)
TaskStarts(f) ==
  /\ task[f] = "created"
  /\ pc \in {"serve", "stop"}
  /\ task' = [task EXCEPT ![f] =
                IF Kind[f] = "stream" /\ f \notin tcp
                THEN "done" ELSE "serving"]
  /\ UNCHANGED <<supVars, udp, tcp, files, logging, conn, logVars>>

NoticeStop ==
  /\ pc = "serve" /\ stop
  /\ Emit({HostStopping})
  /\ pc' = "stop"
  /\ pos' = 1
  /\ UNCHANGED <<waits, started, outcome, failed, blamed, stop, facadeVars,
                 conn>>
-----------------------------------------------------------------------------
(* Mutant of CloseListener: stop() forgets the UDP transport. *)
CloseListenerKeepsUdp ==
  /\ pc \in {"rollback", "stop"} /\ pos <= started
  /\ pos \in tcp
  /\ tcp' = tcp \ {pos}
  /\ files' = files \ {pos}
  /\ logging' = logging \ {pos}
  /\ task' = [task EXCEPT ![pos] = IF @ = "serving" THEN "done" ELSE @]
  /\ UNCHANGED <<supVars, udp, conn, logVars>>

(* facade.stop(), called in order by the rollback and by the shutdown:     *)
(* first the sockets are closed ...                                        *)
CloseListener ==
  /\ pc \in {"rollback", "stop"} /\ pos <= started
  /\ pos \in tcp
  /\ tcp' = tcp \ {pos}
  /\ udp' = udp \ {pos}
  /\ files' = files \ {pos}
  /\ logging' = logging \ {pos}
  /\ task' = [task EXCEPT ![pos] = IF @ = "serving" THEN "done" ELSE @]
  /\ UNCHANGED <<supVars, conn, logVars>>

(* ... then wait_closed() returns: at once, or when the last connection of *)
(* the listener has ended.  stop() of an SMB facade waits for no client.   *)
StopReturns ==
  /\ pc \in {"rollback", "stop"} /\ pos <= started
  /\ pos \notin tcp
  /\ waits /\ Kind[pos] # "thread" => Live(pos) = {}
  /\ pos' = pos + 1
  /\ UNCHANGED <<waits, pc, started, outcome, failed, blamed, stop, facadeVars,
                 conn, logVars>>

(* Mutant of Drain: the sinks are closed while facades are still stopping. *)
DrainWhileStopping ==
  /\ pc = "stop"
  /\ task' = [f \in Facades |-> "done"]
  /\ emitter' = "closed"
  /\ outcome' = "clean"
  /\ pc' = "cancel"
  /\ UNCHANGED <<waits, pos, started, failed, blamed, stop, udp, tcp, files,
                 logging, conn, log, dropped>>

(* Phase 3 ends: the serve tasks are cancelled and gathered, which takes   *)
(* no longer than their cancellation; then the sinks are closed.           *)
Drain ==
  /\ pc = "stop" /\ pos > started
  /\ task' = [f \in Facades |-> "done"]
  /\ emitter' = "closed"
  /\ outcome' = "clean"
  /\ pc' = "cancel"
  /\ UNCHANGED <<waits, pos, started, failed, blamed, stop, udp, tcp, files,
                 logging, conn, log, dropped>>

(* asyncio.run() has cancelled and awaited the handlers that were left:    *)
(* the process exits, and what sockets it had go with it.                  *)
Exit ==
  /\ pc = "cancel"
  /\ \A f \in Facades : Kind[f] # "thread" => Live(f) = {}
  /\ pc' = "gone"
  /\ udp' = {} /\ tcp' = {}
  /\ conn' = [k \in Clients |->
                IF conn[k].state = "open"
                THEN [conn[k] EXCEPT !.state = "ended"] ELSE conn[k]]
  /\ UNCHANGED <<waits, pos, started, outcome, failed, blamed, stop, files,
                 logging, task, logVars>>
-----------------------------------------------------------------------------
(* The environment: the operator signals, clients come and go.             *)
Signal ==
  /\ pc # "gone" /\ ~stop
  /\ stop' = TRUE
  /\ UNCHANGED <<waits, pc, pos, started, outcome, failed, blamed, facadeVars,
                 conn, logVars>>

Wrapped(f) == Kind[f] = "stream"

(* A listener left by a failed start() is bound, but nobody serves it.     *)
Accept(k, f) ==
  /\ pc # "gone"
  /\ conn[k].state = "none" /\ f \in tcp \ {failed}
  /\ conn' = [conn EXCEPT ![k] = [state |-> "open", facade |-> f]]
  /\ IF Wrapped(f) THEN Emit({<<"connection_open", k>>}) ELSE UNCHANGED logVars
  /\ UNCHANGED <<supVars, facadeVars>>

(* The end of _wrapped_handle: a benign end (end of file, reset), or an    *)
(* exception of the handler, which is logged; connection_close in any case.*)
HandlerEnds(k, raised) ==
  /\ conn[k].state = "open" /\ pc # "gone"
  /\ conn' = [conn EXCEPT ![k].state = "ended"]
  /\ IF Wrapped(conn[k].facade)
     THEN Emit({<<"connection_close", k>>}
                 \cup (IF raised THEN {<<"connection_error", k>>} ELSE {}))
     ELSE UNCHANGED logVars
  /\ UNCHANGED <<supVars, facadeVars>>

(* asyncio.run() cancels the handlers that are still there: CancelledError *)
(* is benign, so the handler ends as usual.                                *)
Cancelled(k) ==
  /\ pc = "cancel" /\ conn[k].state = "open"
  /\ Kind[conn[k].facade] # "thread"
  /\ HandlerEnds(k, FALSE)
-----------------------------------------------------------------------------
Supervise ==
  \/ BindUdp \/ Listen \/ BindFails \/ StartRaises \/ RollbackDone
  \/ Ready \/ NoticeStop
  \/ CloseListener \/ StopReturns \/ Drain
  \/ Exit

Next ==
  \/ Supervise
  \/ \E f \in Facades : TaskStarts(f)
  \/ Signal
  \/ \E k \in Clients, f \in Facades : Accept(k, f)
  \/ \E k \in Clients, raised \in BOOLEAN : HandlerEnds(k, raised)
  \/ \E k \in Clients : Cancelled(k)

(* run() and the cancelled handlers are coroutines of a running loop: each *)
(* gets its turn.  The tasks too; clients owe nothing.                     *)
LoopFairness ==
  /\ WF_vars(Supervise)
  /\ \A f \in Facades : WF_vars(TaskStarts(f))
  /\ \A k \in Clients : WF_vars(Cancelled(k))

(* A client hangs up at some time, or is cut off by its handler.           *)
ClientFairness == \A k \in Clients : WF_vars(HandlerEnds(k, FALSE))

Spec == Init /\ [][Next]_vars /\ LoopFairness
-----------------------------------------------------------------------------
RunTypes ==
  /\ waits \in Waits
  /\ pc \in {"start", "rollback", "serve", "stop", "cancel", "gone"}
  /\ outcome \in {"none", "clean", "bind failure", "error"}
  /\ stop \in BOOLEAN

ListTypes ==
  /\ pos \in 1 .. (Last + 1)
  /\ started \in 0 .. Last
  /\ failed \in 0 .. Last
  /\ blamed \in 0 .. Last

FacadeTypes ==
  /\ udp \subseteq Facades /\ tcp \subseteq Facades
  /\ files \subseteq Facades /\ logging \subseteq Facades
  /\ task \in [Facades -> {"none", "created", "serving", "done"}]

ConnTypes ==
  conn \in [Clients -> [state : {"none", "open", "ended"},
                        facade : Facades \cup {NoFacade}]]

LogTypes ==
  /\ emitter \in {"open", "closed"}
  /\ log \subseteq Events /\ dropped \subseteq Events

TypeOK == RunTypes /\ ListTypes /\ FacadeTypes /\ ConnTypes /\ LogTypes

(* host_ready is the truth: from its event until the host starts to stop,  *)
(* every facade is up with all it needs, and each has said so.             *)
ReadyIsTrue ==
  HostReady \in log =>
    /\ \A f \in Facades : <<"service_listen", f>> \in log
    /\ pc = "serve" =>
         \A f \in Facades :
           /\ f \in tcp
           /\ Kind[f] = "datagram" => f \in udp
           /\ Kind[f] = "thread" => f \in files /\ f \in logging

(* When run() ends by a shutdown or by a rollback it has released what it  *)
(* started: sockets, temporary directories and log handlers.  Only the     *)
(* facade whose start() failed, which is not in `started`, may leave some. *)
RunReleases ==
  outcome \in {"clean", "bind failure"} =>
    tcp \cup udp \cup files \cup logging \subseteq {failed}

(* With wait_closed() waiting for connections the file log is complete:    *)
(* no event comes after the sinks are closed, and of a wrapped connection  *)
(* the end is logged with the beginning, also across a shutdown.           *)
LogComplete == waits =>
  /\ dropped = {}
  /\ \A k \in Clients :
       <<"connection_open", k>> \in log /\ conn[k].state = "ended" =>
         <<"connection_close", k>> \in log

(* A signal, whenever it comes, ends the process: during the start, after  *)
(* a failed start, or while serving.  Where wait_closed() waits, clients   *)
(* have to leave; where it does not, they may stay as long as they like.   *)
ShutdownCompletes ==
  ([]waits => ClientFairness) => (stop ~> pc = "gone")
-----------------------------------------------------------------------------
(* What the code means to say and does not.                                *)

(* The error of a failed start names the facade that could not bind.       *)
BlamesFailedFacade == outcome = "bind failure" => blamed = failed

(* "graceful shutdown, bounded so we always beat SIGKILL": once the signal *)
(* is there while the host serves, phase 3 of run() comes to its end, and  *)
(* the end of the process does not depend on the clients.                  *)
ShutdownBounded == pc = "serve" /\ stop ~> pc = "gone"
=============================================================================
