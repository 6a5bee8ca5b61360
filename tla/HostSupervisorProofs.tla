------------------------ MODULE HostSupervisorProofs ------------------------
(* Proofs about HostSupervisor, for any list of facades and any clients.   *)
EXTENDS HostSupervisor, TLAPS

(* Where run() is says how far the list `started` has come.                *)
Progress ==
  /\ pc = "start" => started = pos - 1 /\ failed = NoFacade
  /\ pc = "rollback" => failed = started + 1
  /\ pc \in {"serve", "stop"} => started = Last /\ failed = NoFacade
  /\ pc \in {"cancel", "gone"} <=> outcome # "none"

(* The facade whose start() failed, if one did.                            *)
Failed == {failed} \ {NoFacade}

(* What is held belongs to a started facade that is not stopped yet, to    *)
(* the one that is starting, or to the one whose start failed.  Of a run() *)
(* that ended by another exception nothing of the kind is known.           *)
Held ==
  /\ tcp \subseteq (1 .. started) \cup Failed
  /\ pc \in {"rollback", "stop"} => tcp \subseteq (pos .. started) \cup Failed
  /\ outcome # "error" =>
       /\ udp \subseteq tcp \cup {failed} \cup {f \in {pos} : pc = "start"}
       /\ files \cup logging \subseteq tcp \cup {failed}
  /\ outcome \in {"clean", "bind failure"} => tcp \subseteq Failed

Up(f) ==
  /\ f \in tcp
  /\ Kind[f] = "datagram" => f \in udp
  /\ Kind[f] = "thread" => f \in files /\ f \in logging

(* The started facades are up until one is stopped, and said so.           *)
Announced ==
  /\ pc \notin {"cancel", "gone"} => emitter = "open"
  /\ \A f \in 1 .. started : <<"service_listen", f>> \in log
  /\ HostReady \in log => started = Last
  /\ pc \in {"start", "serve"} => \A f \in 1 .. started : Up(f)

(* A shutdown that waits leaves no wrapped connection behind it, and the   *)
(* sinks are closed after the last of them.                                *)
Complete ==
  /\ dropped = {}
  /\ emitter = "closed" => pc \in {"cancel", "gone"} /\ tcp = {}
  /\ \A k \in Clients :
       /\ conn[k].state = "open" => conn[k].facade \in Facades
       /\ conn[k].state = "open" /\ Kind[conn[k].facade] # "thread" =>
            /\ emitter = "open"
            /\ pc = "stop" => conn[k].facade >= pos
       /\ <<"connection_open", k>> \in log =>
            /\ conn[k].state # "none"
            /\ Kind[conn[k].facade] = "stream"
            /\ conn[k].state = "ended" => <<"connection_close", k>> \in log

Logged == waits => Complete

IInv == TypeOK /\ Progress /\ Held /\ Announced /\ Logged
-----------------------------------------------------------------------------
(* What Emit does to the log, whichever event it is given.                 *)
LEMMA EmitFacts ==
  ASSUME NEW events, Emit(events)
  PROVE  /\ log \subseteq log' /\ log' \subseteq log \cup events
         /\ dropped' \subseteq dropped \cup events
         /\ emitter' = emitter
         /\ emitter = "open" => log' = log \cup events /\ dropped' = dropped
BY DEF Emit

(* Of a StopReturns, all but the wait, which matters to one lemma only.    *)
LEMMA StopReturnsFacts ==
  ASSUME StopReturns
  PROVE  /\ pc \in {"rollback", "stop"} /\ pos <= started /\ pos \notin tcp
         /\ pos' = pos + 1
         /\ UNCHANGED <<waits, pc, started, outcome, failed, blamed, stop,
                        facadeVars, conn, logVars>>
BY Zenon DEF StopReturns

(* A failed start leaves what it leaves at its own place in the list.      *)
LEMMA LeavesFacts ==
  ASSUME NEW what, Leaves(what)
  PROVE  /\ files \subseteq files' /\ files' \subseteq files \cup {pos}
         /\ tcp \subseteq tcp' /\ tcp' \subseteq tcp \cup {pos}
         /\ logging \subseteq logging' /\ logging' \subseteq logging \cup {pos}
BY DEF Leaves, LeftBy

LEMMA BindFailsFacts ==
  ASSUME BindFails
  PROVE  /\ pc = "start" /\ pos \in Facades
         /\ files \subseteq files' /\ files' \subseteq files \cup {pos}
         /\ tcp \subseteq tcp' /\ tcp' \subseteq tcp \cup {pos}
         /\ logging \subseteq logging' /\ logging' \subseteq logging \cup {pos}
         /\ failed' = pos /\ pc' = "rollback" /\ pos' = 1
         /\ UNCHANGED <<waits, started, outcome, blamed, stop, udp, task, conn,
                        emitter, log, dropped>>
BY LeavesFacts DEF BindFails, logVars

LEMMA StartRaisesFacts ==
  ASSUME StartRaises
  PROVE  /\ pc = "start" /\ pos \in Facades
         /\ files \subseteq files' /\ files' \subseteq files \cup {pos}
         /\ tcp \subseteq tcp' /\ tcp' \subseteq tcp \cup {pos}
         /\ logging \subseteq logging' /\ logging' \subseteq logging \cup {pos}
         /\ failed' = pos /\ pc' = "cancel" /\ outcome' = "error"
         /\ UNCHANGED <<waits, pos, started, blamed, stop, udp, task, conn,
                        emitter, log, dropped>>
BY LeavesFacts DEF StartRaises, logVars

LEMMA WaitsConstant == [Next]_vars => waits' = waits
BY StopReturnsFacts, BindFailsFacts, StartRaisesFacts
   DEF Next, Supervise, vars, supVars, BindUdp, Listen, RollbackDone, Ready,
       NoticeStop, CloseListener, Drain, Exit, TaskStarts, Signal, Accept,
       HandlerEnds, Cancelled

LEMMA LastNat == Last \in Nat
BY KindAssumption DEF Last

LEMMA TypeInit == Init => TypeOK
<1> SUFFICES ASSUME Init PROVE TypeOK
  OBVIOUS
<1>1. RunTypes
  BY DEF Init, RunTypes
<1>5. ListTypes
  BY LastNat DEF Init, ListTypes, NoFacade
<1>2. FacadeTypes
  BY DEF Init, FacadeTypes
<1>3. ConnTypes
  BY DEF Init, ConnTypes
<1>4. LogTypes
  BY DEF Init, LogTypes
<1> QED
  BY <1>1, <1>2, <1>3, <1>4, <1>5 DEF TypeOK

(* Every step keeps the types of run()'s state ...                         *)
LEMMA RunTypesStep ==
  ASSUME RunTypes, [Next]_vars
  PROVE  RunTypes'
<1>1. CASE BindUdp
  BY <1>1 DEF BindUdp, RunTypes, supVars, logVars
<1>2. CASE Listen
  BY <1>2 DEF Listen, RunTypes
<1>3. CASE BindFails
  BY <1>3, BindFailsFacts DEF RunTypes, logVars
<1>4. CASE StartRaises
  BY <1>4, StartRaisesFacts DEF RunTypes, logVars
<1>5. CASE RollbackDone
  BY <1>5 DEF RollbackDone, RunTypes, facadeVars, logVars
<1>6. CASE Ready
  BY <1>6 DEF Ready, RunTypes
<1>7. CASE NoticeStop
  BY <1>7 DEF NoticeStop, RunTypes, facadeVars
<1>8. CASE CloseListener
  BY <1>8 DEF CloseListener, RunTypes, supVars, logVars
<1>9. CASE StopReturns
  BY <1>9, StopReturnsFacts DEF RunTypes
<1>10. CASE Drain
  BY <1>10 DEF Drain, RunTypes
<1>11. CASE Exit
  BY <1>11 DEF Exit, RunTypes, logVars
<1>12. ASSUME NEW f \in Facades, TaskStarts(f)
      PROVE  RunTypes'
  BY <1>12 DEF TaskStarts, RunTypes, supVars, logVars
<1>13. CASE Signal
  BY <1>13 DEF Signal, RunTypes, facadeVars, logVars
<1>14. ASSUME NEW k \in Clients, NEW f \in Facades, Accept(k, f)
      PROVE  RunTypes'
  BY <1>14 DEF Accept, RunTypes, supVars, facadeVars, logVars
<1>15. ASSUME NEW k \in Clients, NEW raised \in BOOLEAN, HandlerEnds(k, raised)
      PROVE  RunTypes'
  BY <1>15 DEF HandlerEnds, RunTypes, supVars, facadeVars, logVars
<1>16. CASE UNCHANGED vars
  BY <1>16 DEF vars, RunTypes
<1>17. QED
  BY <1>1, <1>2, <1>3, <1>4, <1>5, <1>6, <1>7, <1>8, <1>9, <1>10, <1>11, <1>12,
     <1>13, <1>14, <1>15, <1>16
     DEF Next, Supervise, Cancelled

(* ... of its place in the list ...                                        *)
LEMMA ListTypesStep ==
  ASSUME ListTypes, Progress, [Next]_vars
  PROVE  ListTypes'
<1> USE LastNat
<1>1. CASE BindUdp
  BY <1>1 DEF BindUdp, ListTypes, Facades, NoFacade, Progress, supVars, logVars
<1>2. CASE Listen
  BY <1>2 DEF Listen, ListTypes, Facades, NoFacade, Progress
<1>3. CASE BindFails
  BY <1>3, BindFailsFacts DEF ListTypes, Facades, NoFacade, Progress, logVars
<1>4. CASE StartRaises
  BY <1>4, StartRaisesFacts DEF ListTypes, Facades, NoFacade, Progress, logVars
<1>5. CASE RollbackDone
  BY <1>5
     DEF RollbackDone, ListTypes, Facades, NoFacade, Progress, facadeVars,
         logVars
<1>6. CASE Ready
  BY <1>6 DEF Ready, ListTypes, Facades, NoFacade, Progress
<1>7. CASE NoticeStop
  BY <1>7 DEF NoticeStop, ListTypes, Facades, NoFacade, Progress, facadeVars
<1>8. CASE CloseListener
  BY <1>8
     DEF CloseListener, ListTypes, Facades, NoFacade, Progress, supVars,
         logVars
<1>9. CASE StopReturns
  BY <1>9, StopReturnsFacts DEF ListTypes
<1>10. CASE Drain
  BY <1>10 DEF Drain, ListTypes, Facades, NoFacade, Progress
<1>11. CASE Exit
  BY <1>11 DEF Exit, ListTypes, Facades, NoFacade, Progress, logVars
<1>12. ASSUME NEW f \in Facades, TaskStarts(f)
      PROVE  ListTypes'
  BY <1>12
     DEF TaskStarts, ListTypes, Facades, NoFacade, Progress, supVars, logVars
<1>13. CASE Signal
  BY <1>13
     DEF Signal, ListTypes, Facades, NoFacade, Progress, facadeVars, logVars
<1>14. ASSUME NEW k \in Clients, NEW f \in Facades, Accept(k, f)
      PROVE  ListTypes'
  BY <1>14
     DEF Accept, ListTypes, Facades, NoFacade, Progress, supVars, facadeVars,
         logVars
<1>15. ASSUME NEW k \in Clients, NEW raised \in BOOLEAN, HandlerEnds(k, raised)
      PROVE  ListTypes'
  BY <1>15
     DEF HandlerEnds, ListTypes, Facades, NoFacade, Progress, supVars,
         facadeVars, logVars
<1>16. CASE UNCHANGED vars
  BY <1>16 DEF vars, ListTypes, Facades, NoFacade, Progress
<1>17. QED
  BY <1>1, <1>2, <1>3, <1>4, <1>5, <1>6, <1>7, <1>8, <1>9, <1>10, <1>11, <1>12,
     <1>13, <1>14, <1>15, <1>16
     DEF Next, Supervise, Cancelled

(* ... of the facades ...                                                  *)
LEMMA FacadeTypesStep ==
  ASSUME FacadeTypes, [Next]_vars
  PROVE  FacadeTypes'
<1>1. CASE BindUdp
  BY <1>1 DEF BindUdp, FacadeTypes, supVars, logVars
<1>2. CASE Listen
  BY <1>2 DEF Listen, FacadeTypes
<1>3. CASE BindFails
  BY <1>3, BindFailsFacts DEF FacadeTypes
<1>4. CASE StartRaises
  BY <1>4, StartRaisesFacts DEF FacadeTypes
<1>5. CASE RollbackDone
  BY <1>5 DEF RollbackDone, FacadeTypes, facadeVars, logVars
<1>6. CASE Ready
  BY <1>6 DEF Ready, FacadeTypes
<1>7. CASE NoticeStop
  BY <1>7 DEF NoticeStop, FacadeTypes, facadeVars
<1>8. CASE CloseListener
  BY <1>8 DEF CloseListener, FacadeTypes, supVars, logVars
<1>9. CASE StopReturns
  BY <1>9, StopReturnsFacts DEF FacadeTypes, facadeVars
<1>10. CASE Drain
  BY <1>10 DEF Drain, FacadeTypes
<1>11. CASE Exit
  BY <1>11 DEF Exit, FacadeTypes, logVars
<1>12. ASSUME NEW f \in Facades, TaskStarts(f)
      PROVE  FacadeTypes'
  BY <1>12 DEF TaskStarts, FacadeTypes, supVars, logVars
<1>13. CASE Signal
  BY <1>13 DEF Signal, FacadeTypes, facadeVars, logVars
<1>14. ASSUME NEW k \in Clients, NEW f \in Facades, Accept(k, f)
      PROVE  FacadeTypes'
  BY <1>14 DEF Accept, FacadeTypes, supVars, facadeVars, logVars
<1>15. ASSUME NEW k \in Clients, NEW raised \in BOOLEAN, HandlerEnds(k, raised)
      PROVE  FacadeTypes'
  BY <1>15 DEF HandlerEnds, FacadeTypes, supVars, facadeVars, logVars
<1>16. CASE UNCHANGED vars
  BY <1>16 DEF vars, FacadeTypes
<1>17. QED
  BY <1>1, <1>2, <1>3, <1>4, <1>5, <1>6, <1>7, <1>8, <1>9, <1>10, <1>11, <1>12,
     <1>13, <1>14, <1>15, <1>16
     DEF Next, Supervise, Cancelled

(* ... of the connections ...                                              *)
LEMMA ConnTypesStep ==
  ASSUME ConnTypes, [Next]_vars
  PROVE  ConnTypes'
<1>1. CASE BindUdp
  BY <1>1 DEF BindUdp, ConnTypes, supVars, logVars
<1>2. CASE Listen
  BY <1>2 DEF Listen, ConnTypes
<1>3. CASE BindFails
  BY <1>3, BindFailsFacts DEF ConnTypes, logVars
<1>4. CASE StartRaises
  BY <1>4, StartRaisesFacts DEF ConnTypes, logVars
<1>5. CASE RollbackDone
  BY <1>5 DEF RollbackDone, ConnTypes, facadeVars, logVars
<1>6. CASE Ready
  BY <1>6 DEF Ready, ConnTypes
<1>7. CASE NoticeStop
  BY <1>7 DEF NoticeStop, ConnTypes, facadeVars
<1>8. CASE CloseListener
  BY <1>8 DEF CloseListener, ConnTypes, supVars, logVars
<1>9. CASE StopReturns
  BY <1>9, StopReturnsFacts DEF ConnTypes
<1>10. CASE Drain
  BY <1>10 DEF Drain, ConnTypes
<1>11. CASE Exit
  BY <1>11 DEF Exit, ConnTypes, logVars
<1>12. ASSUME NEW f \in Facades, TaskStarts(f)
      PROVE  ConnTypes'
  BY <1>12 DEF TaskStarts, ConnTypes, supVars, logVars
<1>13. CASE Signal
  BY <1>13 DEF Signal, ConnTypes, facadeVars, logVars
<1>14. ASSUME NEW k \in Clients, NEW f \in Facades, Accept(k, f)
      PROVE  ConnTypes'
  BY <1>14 DEF Accept, ConnTypes, supVars, facadeVars, logVars
<1>15. ASSUME NEW k \in Clients, NEW raised \in BOOLEAN, HandlerEnds(k, raised)
      PROVE  ConnTypes'
  BY <1>15 DEF HandlerEnds, ConnTypes, supVars, facadeVars, logVars
<1>16. CASE UNCHANGED vars
  BY <1>16 DEF vars, ConnTypes
<1>17. QED
  BY <1>1, <1>2, <1>3, <1>4, <1>5, <1>6, <1>7, <1>8, <1>9, <1>10, <1>11, <1>12,
     <1>13, <1>14, <1>15, <1>16
     DEF Next, Supervise, Cancelled

(* ... and of the log.                                                     *)
LEMMA LogTypesStep ==
  ASSUME LogTypes, [Next]_vars
  PROVE  LogTypes'
<1>1. CASE BindUdp
  BY <1>1 DEF BindUdp, LogTypes, Events, supVars, logVars
<1>2. CASE Listen
  BY <1>2, EmitFacts DEF Listen, LogTypes, Events
<1>3. CASE BindFails
  BY <1>3, BindFailsFacts DEF LogTypes, Events, logVars
<1>4. CASE StartRaises
  BY <1>4, StartRaisesFacts DEF LogTypes, Events, logVars
<1>5. CASE RollbackDone
  BY <1>5 DEF RollbackDone, LogTypes, Events, facadeVars, logVars
<1>6. CASE Ready
  BY <1>6, EmitFacts DEF Ready, LogTypes, Events
<1>7. CASE NoticeStop
  BY <1>7, EmitFacts DEF NoticeStop, LogTypes, Events
<1>8. CASE CloseListener
  BY <1>8 DEF CloseListener, LogTypes, Events, supVars, logVars
<1>9. CASE StopReturns
  BY <1>9, StopReturnsFacts DEF LogTypes, logVars
<1>10. CASE Drain
  BY <1>10 DEF Drain, LogTypes, Events
<1>11. CASE Exit
  BY <1>11 DEF Exit, LogTypes, Events, logVars
<1>12. ASSUME NEW f \in Facades, TaskStarts(f)
      PROVE  LogTypes'
  BY <1>12 DEF TaskStarts, LogTypes, Events, supVars, logVars
<1>13. CASE Signal
  BY <1>13 DEF Signal, LogTypes, Events, facadeVars, logVars
<1>14. ASSUME NEW k \in Clients, NEW f \in Facades, Accept(k, f)
      PROVE  LogTypes'
  <2>1. {<<"connection_open", k>>} \subseteq Events
    BY DEF Events
  <2>2. CASE Wrapped(f)
    <3>1. PICK events \in SUBSET {<<"connection_open", k>>} : Emit(events)
      BY <1>14, <2>2 DEF Accept
    <3> QED
      BY <2>1, <3>1, EmitFacts DEF LogTypes
  <2>3. CASE ~Wrapped(f)
    BY <1>14, <2>3 DEF Accept, LogTypes, logVars
  <2> QED
    BY <2>2, <2>3
<1>15. ASSUME NEW k \in Clients, NEW raised \in BOOLEAN, HandlerEnds(k, raised)
      PROVE  LogTypes'
  <2>1. {<<"connection_close", k>>, <<"connection_error", k>>} \subseteq Events
    BY DEF Events
  <2>2. CASE Wrapped(conn[k].facade)
    <3>1. PICK events \in SUBSET {<<"connection_close", k>>,
                                  <<"connection_error", k>>} : Emit(events)
      BY <1>15, <2>2 DEF HandlerEnds
    <3> QED
      BY <2>1, <3>1, EmitFacts DEF LogTypes
  <2>3. CASE ~Wrapped(conn[k].facade)
    BY <1>15, <2>3 DEF HandlerEnds, LogTypes, logVars
  <2> QED
    BY <2>2, <2>3
<1>16. CASE UNCHANGED vars
  BY <1>16 DEF vars, LogTypes, Events
<1>17. QED
  BY <1>1, <1>2, <1>3, <1>4, <1>5, <1>6, <1>7, <1>8, <1>9, <1>10, <1>11, <1>12,
     <1>13, <1>14, <1>15, <1>16
     DEF Next, Supervise, Cancelled

(* run() follows its list.                                                 *)
LEMMA ProgressStep ==
  ASSUME ListTypes, Progress, [Next]_vars
  PROVE  Progress'
<1> USE LastNat
<1>1. CASE BindUdp
  BY <1>1 DEF BindUdp, Progress, NoFacade, ListTypes, Facades, supVars, logVars
<1>2. CASE Listen
  BY <1>2 DEF Listen, Progress, NoFacade, ListTypes, Facades
<1>3. CASE BindFails
  BY <1>3, BindFailsFacts DEF Progress, NoFacade, ListTypes, Facades, logVars
<1>4. CASE StartRaises
  BY <1>4, StartRaisesFacts DEF Progress, NoFacade, ListTypes, Facades, logVars
<1>5. CASE RollbackDone
  BY <1>5
     DEF RollbackDone, Progress, NoFacade, ListTypes, Facades, facadeVars,
         logVars
<1>6. CASE Ready
  BY <1>6 DEF Ready, Progress, NoFacade, ListTypes, Facades
<1>7. CASE NoticeStop
  BY <1>7 DEF NoticeStop, Progress, NoFacade, ListTypes, Facades, facadeVars
<1>8. CASE CloseListener
  BY <1>8
     DEF CloseListener, Progress, NoFacade, ListTypes, Facades, supVars,
         logVars
<1>9. CASE StopReturns
  BY <1>9, StopReturnsFacts DEF Progress
<1>10. CASE Drain
  BY <1>10 DEF Drain, Progress, NoFacade, ListTypes, Facades
<1>11. CASE Exit
  BY <1>11 DEF Exit, Progress, NoFacade, ListTypes, Facades, logVars
<1>12. ASSUME NEW f \in Facades, TaskStarts(f)
      PROVE  Progress'
  BY <1>12
     DEF TaskStarts, Progress, NoFacade, ListTypes, Facades, supVars, logVars
<1>13. CASE Signal
  BY <1>13
     DEF Signal, Progress, NoFacade, ListTypes, Facades, facadeVars, logVars
<1>14. ASSUME NEW k \in Clients, NEW f \in Facades, Accept(k, f)
      PROVE  Progress'
  BY <1>14
     DEF Accept, Progress, NoFacade, ListTypes, Facades, supVars, facadeVars,
         logVars
<1>15. ASSUME NEW k \in Clients, NEW raised \in BOOLEAN, HandlerEnds(k, raised)
      PROVE  Progress'
  BY <1>15
     DEF HandlerEnds, Progress, NoFacade, ListTypes, Facades, supVars,
         facadeVars, logVars
<1>16. CASE UNCHANGED vars
  BY <1>16 DEF vars, Progress, NoFacade, ListTypes, Facades
<1>17. QED
  BY <1>1, <1>2, <1>3, <1>4, <1>5, <1>6, <1>7, <1>8, <1>9, <1>10, <1>11, <1>12,
     <1>13, <1>14, <1>15, <1>16
     DEF Next, Supervise, Cancelled

(* Nothing is held outside the list but by a failed start.                 *)
LEMMA HeldStep ==
  ASSUME RunTypes, ListTypes, FacadeTypes, Progress, Held, [Next]_vars
  PROVE  Held'
<1> USE LastNat
<1>1. CASE BindUdp
  BY <1>1 DEF BindUdp, Held, Failed, Progress, ListTypes, supVars, logVars
<1>2. CASE Listen
  BY <1>2 DEF Listen, Held, Failed, Progress, ListTypes
<1>3. CASE BindFails
  <2>1. /\ started = pos - 1 /\ pos \in 1 .. Last
        /\ failed = 0 /\ outcome = "none"
    BY <1>3, BindFailsFacts DEF Progress, NoFacade, Facades
  <2>2. Failed = {} /\ Failed' = {pos}
    BY <1>3, <2>1, BindFailsFacts DEF Failed, NoFacade
  <2>3. /\ tcp \subseteq 1 .. started /\ udp \subseteq tcp \cup {0, pos}
        /\ files \cup logging \subseteq tcp \cup {0}
    BY <1>3, <2>1, <2>2, BindFailsFacts DEF Held
  <2>4. 0 \notin udp /\ 0 \notin files /\ 0 \notin logging
    BY DEF FacadeTypes, Facades
  <2> QED
    BY <1>3, <2>1, <2>2, <2>3, <2>4, BindFailsFacts DEF Held
<1>4. CASE StartRaises
  <2>1. failed = 0 /\ pos # 0
    BY <1>4, StartRaisesFacts DEF Progress, NoFacade, Facades
  <2>2. Failed = {} /\ Failed' = {pos}
    BY <1>4, <2>1, StartRaisesFacts DEF Failed, NoFacade
  <2> QED
    BY <1>4, <2>2, StartRaisesFacts DEF Held
<1>5. CASE RollbackDone
  <2>1. pc = "rollback" /\ pos > started /\ outcome = "none"
    BY <1>5 DEF RollbackDone, Progress
  <2>2. tcp \subseteq Failed
    BY <2>1 DEF Held, ListTypes
  <2>3. tcp' = tcp /\ udp' = udp /\ files' = files /\ logging' = logging
        /\ failed' = failed /\ pc' = "cancel" /\ started' = started
    BY <1>5 DEF RollbackDone, facadeVars
  <2> QED
    BY <2>1, <2>2, <2>3 DEF Held, Failed
<1>6. CASE Ready
  <2>1. pos \notin udp
    BY <1>6 DEF Ready, FacadeTypes, Facades, ListTypes
  <2> QED
    BY <1>6, <2>1 DEF Ready, Held, Failed
<1>7. CASE NoticeStop
  BY <1>7 DEF NoticeStop, Held, Failed, Progress, ListTypes, facadeVars
<1>8. CASE CloseListener
  BY <1>8
     DEF CloseListener, Held, Failed, Progress, ListTypes, supVars, logVars
<1>9. CASE StopReturns
  <2>0. tcp \subseteq (pos .. started) \cup Failed /\ pos \notin tcp
    BY <1>9, StopReturnsFacts DEF Held
  <2>1. tcp \subseteq ((pos + 1) .. started) \cup Failed
    BY <2>0 DEF ListTypes
  <2> QED
    BY <1>9, <2>1, StopReturnsFacts DEF Held, Failed, facadeVars
<1>10. CASE Drain
  BY <1>10 DEF Drain, Held, Failed, Progress, ListTypes
<1>11. CASE Exit
  <2>1. outcome \in {"clean", "bind failure", "error"} /\ outcome' = outcome
    BY <1>11 DEF Exit, Progress, RunTypes
  <2>2. udp' = {} /\ tcp' = {} /\ files' = files /\ logging' = logging
        /\ failed' = failed /\ pc' = "gone"
    BY <1>11 DEF Exit
  <2> QED
    BY <2>1, <2>2 DEF Held, Failed
<1>12. ASSUME NEW f \in Facades, TaskStarts(f)
      PROVE  Held'
  BY <1>12 DEF TaskStarts, Held, Failed, Progress, ListTypes, supVars, logVars
<1>13. CASE Signal
  BY <1>13 DEF Signal, Held, Failed, Progress, ListTypes, facadeVars, logVars
<1>14. ASSUME NEW k \in Clients, NEW f \in Facades, Accept(k, f)
      PROVE  Held'
  BY <1>14
     DEF Accept, Held, Failed, Progress, ListTypes, supVars, facadeVars,
         logVars
<1>15. ASSUME NEW k \in Clients, NEW raised \in BOOLEAN, HandlerEnds(k, raised)
      PROVE  Held'
  BY <1>15
     DEF HandlerEnds, Held, Failed, Progress, ListTypes, supVars, facadeVars,
         logVars
<1>16. CASE UNCHANGED vars
  BY <1>16 DEF vars, Held, Failed, Progress, ListTypes
<1>17. QED
  BY <1>1, <1>2, <1>3, <1>4, <1>5, <1>6, <1>7, <1>8, <1>9, <1>10, <1>11, <1>12,
     <1>13, <1>14, <1>15, <1>16
     DEF Next, Supervise, Cancelled

(* Facades are announced and up.                                           *)
LEMMA AnnouncedStep ==
  ASSUME ListTypes, Progress, Held, Announced, [Next]_vars
  PROVE  Announced'
<1> USE LastNat
<1>1. CASE BindUdp
  BY <1>1
     DEF BindUdp, Announced, Up, Progress, ListTypes, Held, Failed, Facades,
         supVars, logVars
<1>2. CASE Listen
  BY <1>2
     DEF Listen, Announced, Up, Progress, ListTypes, Held, Failed, Facades,
         Emit, HostReady
<1>3. CASE BindFails
  BY <1>3, BindFailsFacts
     DEF Announced, Up, Progress, ListTypes, Held, Failed, Facades, logVars
<1>4. CASE StartRaises
  BY <1>4, StartRaisesFacts
     DEF Announced, Up, Progress, ListTypes, Held, Failed, Facades,
         logVars
<1>5. CASE RollbackDone
  BY <1>5
     DEF RollbackDone, Announced, Up, Progress, ListTypes, Held, Failed,
         Facades, facadeVars, logVars
<1>6. CASE Ready
  BY <1>6
     DEF Ready, Announced, Up, Progress, ListTypes, Held, Failed, Facades,
         Emit, HostReady
<1>7. CASE NoticeStop
  BY <1>7
     DEF NoticeStop, Announced, Up, Progress, ListTypes, Held, Failed, Facades,
         facadeVars, Emit, HostReady, HostStopping
<1>8. CASE CloseListener
  BY <1>8
     DEF CloseListener, Announced, Up, Progress, ListTypes, Held, Failed,
         Facades, supVars, logVars
<1>9. CASE StopReturns
  BY <1>9, StopReturnsFacts
     DEF Announced, Up, Progress, ListTypes, Held, Failed, Facades, supVars,
         facadeVars, logVars
<1>10. CASE Drain
  BY <1>10 DEF Drain, Announced, Up, Progress, ListTypes, Held, Failed, Facades
<1>11. CASE Exit
  BY <1>11
     DEF Exit, Announced, Up, Progress, ListTypes, Held, Failed, Facades,
         logVars
<1>12. ASSUME NEW f \in Facades, TaskStarts(f)
      PROVE  Announced'
  BY <1>12
     DEF TaskStarts, Announced, Up, Progress, ListTypes, Held, Failed, Facades,
         supVars, logVars
<1>13. CASE Signal
  BY <1>13
     DEF Signal, Announced, Up, Progress, ListTypes, Held, Failed, Facades,
         facadeVars, logVars
<1>14. ASSUME NEW k \in Clients, NEW f \in Facades, Accept(k, f)
      PROVE  Announced'
  <2>1. log \subseteq log' /\ emitter' = emitter
        /\ log' \subseteq log \cup {<<"connection_open", k>>}
    BY <1>14, EmitFacts DEF Accept, logVars
  <2>2. HostReady \in log' => HostReady \in log
    BY <2>1 DEF HostReady
  <2> QED
    BY <1>14, <2>1, <2>2 DEF Accept, Announced, Up, supVars, facadeVars
<1>15. ASSUME NEW k \in Clients, NEW raised \in BOOLEAN, HandlerEnds(k, raised)
      PROVE  Announced'
  <2>1. log \subseteq log' /\ emitter' = emitter
        /\ log' \subseteq log \cup {<<"connection_close", k>>,
                                   <<"connection_error", k>>}
    BY <1>15, EmitFacts DEF HandlerEnds, logVars
  <2>2. HostReady \in log' => HostReady \in log
    BY <2>1 DEF HostReady
  <2> QED
    BY <1>15, <2>1, <2>2 DEF HandlerEnds, Announced, Up, supVars, facadeVars
<1>16. CASE UNCHANGED vars
  BY <1>16 DEF vars, Announced, Up, Progress, ListTypes, Held, Failed, Facades
<1>17. QED
  BY <1>1, <1>2, <1>3, <1>4, <1>5, <1>6, <1>7, <1>8, <1>9, <1>10, <1>11, <1>12,
     <1>13, <1>14, <1>15, <1>16
     DEF Next, Supervise, Cancelled

(* Where wait_closed() waits, the sinks outlive the wrapped connections.    *)
LEMMA CompleteStep ==
  ASSUME ListTypes, ConnTypes, LogTypes, Progress, Held, Announced, Complete,
         waits, [Next]_vars
  PROVE  Complete'
<1> USE LastNat
<1>1. CASE BindUdp
  BY <1>1
     DEF BindUdp, Complete, Progress, Held, Failed, Announced, ListTypes,
         ConnTypes, Facades, supVars, logVars
<1>2. CASE Listen
  BY <1>2
     DEF Listen, Complete, Progress, Held, Failed, Announced, ListTypes,
         ConnTypes, Emit, HostReady, Facades
<1>3. CASE BindFails
  BY <1>3, BindFailsFacts
     DEF Complete, Progress, Held, Failed, Announced, ListTypes, ConnTypes,
         Facades, logVars
<1>4. CASE StartRaises
  BY <1>4, StartRaisesFacts
     DEF Complete, Progress, Held, Failed, Announced, ListTypes,
         ConnTypes, Facades, logVars
<1>5. CASE RollbackDone
  BY <1>5
     DEF RollbackDone, Complete, Progress, Held, Failed, Announced, ListTypes,
         ConnTypes, Facades, facadeVars, logVars
<1>6. CASE Ready
  BY <1>6
     DEF Ready, Complete, Progress, Held, Failed, Announced, ListTypes,
         ConnTypes, Emit, HostReady, Facades
<1>7. CASE NoticeStop
  BY <1>7
     DEF NoticeStop, Complete, Progress, Held, Failed, Announced, ListTypes,
         ConnTypes, Emit, HostReady, HostStopping, Facades, facadeVars
<1>8. CASE CloseListener
  BY <1>8
     DEF CloseListener, Complete, Progress, Held, Failed, Announced, ListTypes,
         ConnTypes, Facades, supVars, logVars
<1>9. CASE StopReturns
  <2>1. Kind[pos] # "thread" => Live(pos) = {}
    BY <1>9, Zenon DEF StopReturns
  <2>2. ASSUME NEW k \in Clients, conn[k].state = "open",
               Kind[conn[k].facade] # "thread", pc = "stop"
        PROVE  conn[k].facade >= pos + 1
    <3>1. conn[k].facade \in 1 .. Last /\ conn[k].facade >= pos
      BY <2>2 DEF Complete, Facades
    <3>2. conn[k].facade # pos
      BY <2>1, <2>2 DEF Live
    <3> QED
      BY <3>1, <3>2 DEF ListTypes
  <2> QED
    BY <1>9, StopReturnsFacts, <2>2 DEF Complete, logVars
<1>10. CASE Drain
  BY <1>10
     DEF Drain, Complete, Progress, Held, Failed, Announced, ListTypes,
         ConnTypes, Facades
<1>11. CASE Exit
  BY <1>11
     DEF Exit, Complete, Progress, Held, Failed, Announced, ListTypes,
         ConnTypes, Facades, Live, logVars
<1>12. ASSUME NEW f \in Facades, TaskStarts(f)
      PROVE  Complete'
  BY <1>12
     DEF TaskStarts, Complete, Progress, Held, Failed, Announced, ListTypes,
         ConnTypes, Facades, supVars, logVars
<1>13. CASE Signal
  BY <1>13
     DEF Signal, Complete, Progress, Held, Failed, Announced, ListTypes,
         ConnTypes, Facades, facadeVars, logVars
<1>14. ASSUME NEW k \in Clients, NEW f \in Facades, Accept(k, f)
      PROVE  Complete'
  <2>1. f \in tcp /\ emitter = "open" /\ pc # "gone" /\ emitter' = "open"
    BY <1>14, EmitFacts DEF Accept, Complete, RunTypes, LogTypes, logVars
  <2>2. dropped' = {} /\ log' \subseteq log \cup {<<"connection_open", k>>}
        /\ log \subseteq log' /\ (log' = log \/ Kind[f] = "stream")
    BY <1>14, <2>1, EmitFacts DEF Accept, Complete, logVars, Wrapped
  <2>3. conn' = [conn EXCEPT ![k] = [state |-> "open", facade |-> f]]
        /\ UNCHANGED <<pc, pos, tcp>>
    BY <1>14 DEF Accept, supVars, facadeVars
  <2>4. pc = "stop" => f >= pos
    <3>1. pc = "stop" => f \in pos .. started
      BY <2>1 DEF Held, Failed, Progress
    <3> QED
      BY <3>1 DEF ListTypes
  <2>5. ASSUME NEW j \in Clients
        PROVE  /\ conn'[j].state = "open" => conn'[j].facade \in Facades
               /\ conn'[j].state = "open" /\ Kind[conn'[j].facade] # "thread"
                    /\ pc = "stop" => conn'[j].facade >= pos
    BY <2>3, <2>4, <2>1 DEF Complete, ConnTypes
  <2>6. ASSUME NEW j \in Clients, <<"connection_open", j>> \in log'
        PROVE  /\ conn'[j].state # "none"
               /\ Kind[conn'[j].facade] = "stream"
               /\ conn'[j].state = "ended" =>
                    <<"connection_close", j>> \in log'
    <3>1. CASE j = k
      <4>1. <<"connection_open", k>> \notin log
        BY <1>14 DEF Accept, Complete
      <4>2. conn'[j] = [state |-> "open", facade |-> f] /\ Kind[f] = "stream"
        BY <2>2, <2>3, <2>6, <3>1, <4>1 DEF ConnTypes
      <4> QED
        BY <4>2
    <3>2. CASE j # k
      BY <2>2, <2>3, <2>6, <3>2 DEF Complete, ConnTypes
    <3> QED
      BY <3>1, <3>2
  <2> QED
    BY <2>1, <2>2, <2>3, <2>5, <2>6 DEF Complete
<1>15. ASSUME NEW k \in Clients, NEW raised \in BOOLEAN, HandlerEnds(k, raised)
      PROVE  Complete'
  <2>1. conn[k].state = "open" /\ conn' = [conn EXCEPT ![k].state = "ended"]
        /\ UNCHANGED <<pc, pos, tcp>>
    BY <1>15 DEF HandlerEnds, supVars, facadeVars
  <2>2. Kind[conn[k].facade] = "stream" => emitter = "open"
    BY <2>1 DEF Complete
  <2>3. /\ dropped' = {} /\ emitter' = emitter /\ log \subseteq log'
        /\ log' \subseteq log \cup {<<"connection_close", k>>,
                                   <<"connection_error", k>>}
        /\ Kind[conn[k].facade] = "stream" =>
             <<"connection_close", k>> \in log'
    BY <1>15, <2>2, EmitFacts DEF HandlerEnds, Wrapped, Complete, logVars
  <2>4. ASSUME NEW j \in Clients
        PROVE  /\ conn'[j].facade = conn[j].facade
               /\ conn'[j].state = IF j = k THEN "ended" ELSE conn[j].state
    BY <2>1 DEF ConnTypes
  <2>5. ASSUME NEW j \in Clients, <<"connection_open", j>> \in log'
        PROVE  <<"connection_open", j>> \in log
    BY <2>3, <2>5
  <2> QED
    BY <2>1, <2>2, <2>3, <2>4, <2>5 DEF Complete
<1>16. CASE UNCHANGED vars
  BY <1>16
     DEF vars, Complete, Progress, Held, Failed, Announced, ListTypes,
         ConnTypes, Facades
<1>17. QED
  BY <1>1, <1>2, <1>3, <1>4, <1>5, <1>6, <1>7, <1>8, <1>9, <1>10, <1>11, <1>12,
     <1>13, <1>14, <1>15, <1>16
     DEF Next, Supervise, Cancelled
-----------------------------------------------------------------------------
LEMMA IInvInit == Init => IInv
<1> SUFFICES ASSUME Init PROVE IInv
  OBVIOUS
<1>1. TypeOK
  BY TypeInit
<1>2. Progress
  BY DEF Init, Progress
<1>3. Held
  BY DEF Init, Held
<1>4. Announced
  BY LastNat DEF Init, Announced, HostReady
<1>5. Complete
  BY DEF Init, Complete
<1> QED
  BY <1>1, <1>2, <1>3, <1>4, <1>5 DEF IInv, Logged

LEMMA IInvStep == IInv /\ [Next]_vars => IInv'
<1> SUFFICES ASSUME IInv, [Next]_vars PROVE IInv'
  OBVIOUS
<1>1. TypeOK'
  BY RunTypesStep, ListTypesStep, FacadeTypesStep, ConnTypesStep, LogTypesStep
     DEF IInv, TypeOK
<1>2. Progress'
  BY ProgressStep DEF IInv, TypeOK
<1>3. Held'
  BY HeldStep DEF IInv, TypeOK
<1>4. Announced'
  BY AnnouncedStep DEF IInv, TypeOK
<1>5. Logged'
  <2>1. waits' = waits
    BY WaitsConstant
  <2>2. waits => Complete'
    BY CompleteStep DEF IInv, TypeOK, Logged
  <2> QED
    BY <2>1, <2>2 DEF Logged
<1> QED
  BY <1>1, <1>2, <1>3, <1>4, <1>5 DEF IInv

LEMMA IInvariant == Spec => []IInv
BY IInvInit, IInvStep, PTL DEF Spec
-----------------------------------------------------------------------------
(* The variables of a host process keep their types, for every list of     *)
(* facades and any clients.                                                *)
THEOREM TypeCorrect == Spec => []TypeOK
<1>1. IInv => TypeOK
  BY DEF IInv
<1> QED
  BY <1>1, IInvariant, PTL

(* Until the host begins to stop, host_ready in the log (run() lines 51 to *)
(* 62) means that every facade listens and holds all it needs.             *)
THEOREM ReadyMeansReady == Spec => []ReadyIsTrue
<1>1. IInv => ReadyIsTrue
  BY DEF IInv, Announced, ReadyIsTrue, Up, Facades
<1> QED
  BY <1>1, IInvariant, PTL

(* A run() that ends by a shutdown or a rollback leaves no socket, no      *)
(* directory and no log handler, but those of the facade whose start()     *)
(* failed.                                                                 *)
THEOREM Released == Spec => []RunReleases
<1>1. ASSUME IInv PROVE RunReleases
  <2>1. SUFFICES ASSUME outcome \in {"clean", "bind failure"}
                 PROVE  tcp \cup udp \cup files \cup logging \subseteq {failed}
    BY DEF RunReleases
  <2>2. pc # "start" /\ outcome # "error"
    BY <1>1, <2>1 DEF IInv, Progress
  <2> QED
    BY <1>1, <2>1, <2>2 DEF IInv, Held, Failed
<1> QED
  BY <1>1, IInvariant, PTL

(* Where wait_closed() waits for connections, Emitter.close() comes after  *)
(* the last event, and the file log closes every connection it opened.     *)
THEOREM NothingLost == Spec => []LogComplete
<1>1. IInv => LogComplete
  BY DEF IInv, Logged, Complete, LogComplete
<1> QED
  BY <1>1, IInvariant, PTL
=============================================================================
