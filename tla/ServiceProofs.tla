--------------------------- MODULE ServiceProofs ---------------------------
(***************************************************************************)
(* The service is safe for any number of connections and threads and any   *)
(* interval between attempts.                                              *)
(***************************************************************************)
EXTENDS Service, TLAPS

Serving == {"loop", "connect", "poll", "events", "hook", "stop"}

(* The service is there from create until the end of delete, threads use   *)
(* it between the start hook and the stop hook, connections also while the *)
(* context is destroyed.                                                   *)
Places ==
    /\ g_wpcp_lws = "live" <=> main \in Serving \cup {"start", "destroy"}
    /\ \A t \in Thread : thread[t] # "out" => main \in Serving
    /\ \A w \in Wsi : connection[w] # "none" => main \in Serving \cup {"destroy"}
    /\ callback # "none" => main \in {"events", "destroy"}

(* A callback is for a connection, established when it is for the session. *)
CalledBack ==
    /\ wsi = Null <=> callback = "none"
    /\ callback # "none" => connection[wsi] # "none"
    /\ callback \notin {"none", "destroy"} => connection[wsi] \in {"client", "server"}

(* The clock counts down to the next attempt from the last one.            *)
Clock == due + since = Interval

(* The inductive invariant.                                                *)
IInv ==
    /\ TypeOK
    /\ MutexHeld
    /\ OneClient
    /\ SessionsAgree
    /\ NoUseAfterFree
    /\ Places
    /\ CalledBack
    /\ Clock

(* How the clock moves.                                                    *)
LEMMA Seconds ==
    ASSUME NEW d \in -1..Interval, NEW s \in 0..(Interval + 1)
    PROVE  /\ (IF d > -1 THEN d - 1 ELSE -1) \in -1..Interval
           /\ (IF s <= Interval THEN s + 1 ELSE s) \in 0..(Interval + 1)
           /\ Interval \in -1..Interval
           /\ 0 \in 0..(Interval + 1)
BY ServiceAssumption

(* The countdown and the time since the last attempt stay in their ranges. *)
LEMMA ClockOKStep == IInv /\ [Next]_vars => ClockOK'
<1> SUFFICES ASSUME IInv, [Next]_vars PROVE ClockOK'
  OBVIOUS
<1> USE ServiceAssumption DEF IInv, TypeOK, ClockOK, network, clock,
      reconnect, service, locking
<1>1. CASE Connect
  BY <1>1, Seconds DEF Connect, NextConnect
<1>2. CASE Tick
  BY <1>2, Seconds DEF Tick
<1>3. CASE UNCHANGED <<due, since>>
  BY <1>3
<1> QED
  BY <1>1, <1>2, <1>3 DEF Next, MainStep, Dispatch, CallbackStep,
     ThreadStep, InitHook, ParseArguments, Create, StartHook, Loop, NoConnect,
     Poll, PollEnds, ServiceHook, StopHook, Free, CleanupHook, Established,
     NothingHappens, Refused, Disconnect, CallsBack, Lock, Writeable, Write,
     Recheck, Receive, ReceiveFails, Closed, UsesNullSession, WsiDestroy,
     ThreadLocks, ThreadEnters, ThreadUnlocks, Signal, In, Unlocks, Serves,
     vars

(* Every action keeps the variables in their ranges.                       *)
LEMMA TypeOKStep == IInv /\ [Next]_vars => TypeOK'
<1> SUFFICES ASSUME IInv, [Next]_vars PROVE TypeOK'
  OBVIOUS
<1>0. ClockOK'
  BY ClockOKStep
<1> USE DEF IInv, TypeOK, CalledBack, network, clock, reconnect, service,
      locking
<1>1. CASE InitHook
  BY <1>0, <1>1 DEF InitHook, Goes
<1>2. CASE ParseArguments
  BY <1>0, <1>2 DEF ParseArguments, Goes
<1>3. CASE Create
  BY <1>0, <1>3 DEF Create, Goes
<1>4. CASE StartHook
  BY <1>0, <1>4 DEF StartHook, Goes
<1>5. CASE Loop
  BY <1>0, <1>5 DEF Loop, Goes
<1>6. CASE Connect
  BY <1>0, <1>6 DEF Connect, Goes, MayConnect, NextConnect
<1>7. CASE NoConnect
  BY <1>0, <1>7 DEF NoConnect, Goes
<1>8. CASE Poll
  BY <1>0, <1>8 DEF Poll, Goes
<1>9. CASE PollEnds
  BY <1>0, <1>9 DEF PollEnds, Goes
<1>10. CASE ServiceHook
  BY <1>0, <1>10 DEF ServiceHook, Goes
<1>11. CASE StopHook
  BY <1>0, <1>11 DEF StopHook, Goes
<1>12. CASE Free
  BY <1>0, <1>12 DEF Free, Goes
<1>13. CASE CleanupHook
  BY <1>0, <1>13 DEF CleanupHook, Goes
<1>14. CASE Lock
  BY <1>0, <1>14 DEF Lock, Waiting, Inside, Entered, UsesService
<1>15. CASE Writeable
  BY <1>0, <1>15 DEF Writeable, Waiting, Inside, In, Unlocks
<1>16. CASE Write
  BY <1>0, <1>16 DEF Write, Waiting, Inside
<1>17. CASE Recheck
  BY <1>0, <1>17 DEF Recheck, Waiting, Inside, In, Unlocks
<1>18. CASE Receive
  BY <1>0, <1>18 DEF Receive, Waiting, Inside, In, Unlocks
<1>19. CASE ReceiveFails
  BY <1>0, <1>19 DEF ReceiveFails, Waiting, Inside, In, Unlocks
<1>20. CASE Closed
  BY <1>0, <1>20 DEF Closed, Waiting, Inside, In, Unlocks
<1>21. CASE UsesNullSession
  BY <1>0, <1>21 DEF UsesNullSession
<1>22. CASE WsiDestroy
  BY <1>0, <1>22 DEF WsiDestroy, Waiting, Inside, ClientAfterDestroy, UsesService
<1>23. ASSUME NEW w \in Wsi, Established(w) PROVE TypeOK'
  BY <1>0, <1>23 DEF Established, Serves
<1>24. ASSUME NEW w \in Wsi, NothingHappens(w) PROVE TypeOK'
  BY <1>0, <1>24 DEF NothingHappens, Serves
<1>25. ASSUME NEW w \in Wsi, Refused(w) PROVE TypeOK'
  BY <1>0, <1>25 DEF Refused, Waiting, Inside, Serves
<1>26. ASSUME NEW w \in Wsi, Disconnect(w) PROVE TypeOK'
  BY <1>0, <1>26 DEF Disconnect, Waiting, Inside
<1>27. ASSUME NEW w \in Wsi, NEW event \in {"writeable", "receive", "closed"},
             CallsBack(w, event)
      PROVE  TypeOK'
  BY <1>0, <1>27 DEF CallsBack, Serves, Waiting, Inside
<1>28. ASSUME NEW t \in Thread, ThreadLocks(t) PROVE TypeOK'
  BY <1>0, <1>28 DEF ThreadLocks
<1>29. ASSUME NEW t \in Thread, ThreadEnters(t) PROVE TypeOK'
  BY <1>0, <1>29 DEF ThreadEnters, UsesService
<1>30. ASSUME NEW t \in Thread, ThreadUnlocks(t) PROVE TypeOK'
  BY <1>0, <1>30 DEF ThreadUnlocks, UsesService
<1>31. CASE Signal
  BY <1>0, <1>31 DEF Signal
<1>32. CASE Tick
  BY <1>0, <1>32 DEF Tick
<1>33. CASE UNCHANGED vars
  BY <1>33, <1>0 DEF vars
<1> QED
  BY <1>1, <1>2, <1>3, <1>4, <1>5, <1>6, <1>7, <1>8, <1>9, <1>10, <1>11,
     <1>12, <1>13, <1>14, <1>15, <1>16, <1>17, <1>18, <1>19, <1>20, <1>21,
     <1>22, <1>23, <1>24, <1>25, <1>26, <1>27, <1>28, <1>29, <1>30, <1>31,
     <1>32, <1>33 DEF Next, MainStep, Dispatch, CallbackStep, ThreadStep, In,
     Unlocks, Serves, vars

(* Nobody enters while another is inside, and whoever leaves unlocks.      *)
LEMMA MutexHeldStep == IInv /\ [Next]_vars => MutexHeld'
<1> SUFFICES ASSUME IInv, [Next]_vars PROVE MutexHeld'
  OBVIOUS
<1> USE ServiceAssumption DEF IInv, TypeOK, MutexHeld, CalledBack, Waiting,
      Inside, network, clock, reconnect, service, locking
<1>1. CASE Lock
  BY <1>1 DEF Lock, Entered, UsesService
<1>2. CASE Writeable
  BY <1>2 DEF Writeable, In, Unlocks
<1>3. CASE Write
  BY <1>3 DEF Write
<1>4. CASE Recheck
  BY <1>4 DEF Recheck, In, Unlocks
<1>5. CASE Receive
  BY <1>5 DEF Receive, In, Unlocks
<1>6. CASE ReceiveFails
  BY <1>6 DEF ReceiveFails, In, Unlocks
<1>7. CASE Closed
  BY <1>7 DEF Closed, In, Unlocks
<1>8. CASE WsiDestroy
  BY <1>8 DEF WsiDestroy, ClientAfterDestroy, UsesService
<1>9. ASSUME NEW w \in Wsi, Refused(w) PROVE MutexHeld'
  BY <1>9 DEF Refused, Serves
<1>10. ASSUME NEW w \in Wsi, Disconnect(w) PROVE MutexHeld'
  BY <1>10 DEF Disconnect
<1>11. ASSUME NEW w \in Wsi, NEW event \in {"writeable", "receive", "closed"},
             CallsBack(w, event)
      PROVE  MutexHeld'
  BY <1>11 DEF CallsBack, Serves
<1>12. ASSUME NEW t \in Thread, ThreadLocks(t) PROVE MutexHeld'
  BY <1>12 DEF ThreadLocks
<1>13. ASSUME NEW t \in Thread, ThreadEnters(t) PROVE MutexHeld'
  BY <1>13 DEF ThreadEnters, UsesService
<1>14. ASSUME NEW t \in Thread, ThreadUnlocks(t) PROVE MutexHeld'
  BY <1>14 DEF ThreadUnlocks, UsesService
<1>15. CASE UNCHANGED <<mutex, callback, thread>>
  BY <1>15
<1> QED
  BY <1>1, <1>2, <1>3, <1>4, <1>5, <1>6, <1>7, <1>8, <1>9, <1>10, <1>11,
     <1>12, <1>13, <1>14, <1>15 DEF Next, MainStep, Dispatch, CallbackStep,
     ThreadStep, InitHook, ParseArguments, Create, StartHook, Loop, Connect,
     NoConnect, Poll, PollEnds, ServiceHook, StopHook, Free, CleanupHook,
     Established, NothingHappens, UsesNullSession, Signal, Tick, In, Unlocks,
     Serves, vars

(* A client is forgotten when it is destroyed, and not before.             *)
LEMMA OneClientStep == IInv /\ [Next]_vars => OneClient'
<1> SUFFICES ASSUME IInv, [Next]_vars PROVE OneClient'
  OBVIOUS
<1> USE ServiceAssumption DEF IInv, TypeOK, OneClient, CalledBack, network,
      clock, reconnect, service, locking
<1>1. CASE Connect
  BY <1>1 DEF Connect, Goes, MayConnect, NextConnect
<1>2. ASSUME NEW w \in Wsi, Established(w) PROVE OneClient'
  BY <1>2 DEF Established, Serves
<1>3. CASE WsiDestroy
  BY <1>3 DEF WsiDestroy, ClientAfterDestroy, UsesService
<1>4. CASE UNCHANGED <<connection, client>>
  BY <1>4
<1> QED
  BY <1>1, <1>2, <1>3, <1>4 DEF Next, MainStep, Dispatch, CallbackStep,
     ThreadStep, InitHook, ParseArguments, Create, StartHook, Loop, NoConnect,
     Poll, PollEnds, ServiceHook, StopHook, Free, CleanupHook, NothingHappens,
     Refused, Disconnect, CallsBack, Lock, Writeable, Write, Recheck, Receive,
     ReceiveFails, Closed, UsesNullSession, ThreadLocks, ThreadEnters,
     ThreadUnlocks, Signal, Tick, In, Unlocks, Serves, vars

(* A connection loses its session between its end and its destruction.     *)
LEMMA SessionsAgreeStep == IInv /\ [Next]_vars => SessionsAgree'
<1> SUFFICES ASSUME IInv, [Next]_vars PROVE SessionsAgree'
  OBVIOUS
<1> USE ServiceAssumption DEF IInv, TypeOK, SessionsAgree, CalledBack,
      Waiting, network, clock, reconnect, service, locking
<1>1. CASE Connect
  BY <1>1 DEF Connect, Goes, MayConnect, NextConnect
<1>2. CASE Lock
  BY <1>2 DEF Lock, Entered, UsesService
<1>3. CASE Writeable
  BY <1>3 DEF Writeable, In, Unlocks
<1>4. CASE Write
  BY <1>4 DEF Write
<1>5. CASE Recheck
  BY <1>5 DEF Recheck, In, Unlocks
<1>6. CASE Receive
  BY <1>6 DEF Receive, In, Unlocks
<1>7. CASE ReceiveFails
  BY <1>7 DEF ReceiveFails, In, Unlocks
<1>8. CASE Closed
  BY <1>8 DEF Closed, In, Unlocks
<1>9. CASE WsiDestroy
  BY <1>9 DEF WsiDestroy, ClientAfterDestroy, UsesService
<1>10. ASSUME NEW w \in Wsi, Established(w) PROVE SessionsAgree'
  BY <1>10 DEF Established, Serves
<1>11. ASSUME NEW w \in Wsi, Refused(w) PROVE SessionsAgree'
  BY <1>11 DEF Refused, Serves
<1>12. ASSUME NEW w \in Wsi, Disconnect(w) PROVE SessionsAgree'
  BY <1>12 DEF Disconnect
<1>13. ASSUME NEW w \in Wsi, NEW event \in {"writeable", "receive", "closed"},
             CallsBack(w, event)
      PROVE  SessionsAgree'
  BY <1>13 DEF CallsBack, Serves
<1>14. CASE UNCHANGED <<connection, session, callback, wsi>>
  BY <1>14
<1> QED
  BY <1>1, <1>2, <1>3, <1>4, <1>5, <1>6, <1>7, <1>8, <1>9, <1>10, <1>11,
     <1>12, <1>13, <1>14 DEF Next, MainStep, Dispatch, CallbackStep,
     ThreadStep, InitHook, ParseArguments, Create, StartHook, Loop, NoConnect,
     Poll, PollEnds, ServiceHook, StopHook, Free, CleanupHook, NothingHappens,
     UsesNullSession, ThreadLocks, ThreadEnters, ThreadUnlocks, Signal, Tick,
     In, Unlocks, Serves, vars

(* The service is freed when nobody is left to use it.                     *)
LEMMA PlacesStep == IInv /\ [Next]_vars => Places'
<1> SUFFICES ASSUME IInv, [Next]_vars PROVE Places'
  OBVIOUS
<1> USE ServiceAssumption DEF IInv, TypeOK, Places, Serving, CalledBack,
      Waiting, network, clock, reconnect, service, locking
<1>1. CASE InitHook
  BY <1>1 DEF InitHook, Goes
<1>2. CASE ParseArguments
  BY <1>2 DEF ParseArguments, Goes
<1>3. CASE Create
  BY <1>3 DEF Create, Goes
<1>4. CASE StartHook
  BY <1>4 DEF StartHook, Goes
<1>5. CASE Loop
  BY <1>5 DEF Loop, Goes
<1>6. CASE Connect
  BY <1>6 DEF Connect, Goes, MayConnect, NextConnect
<1>7. CASE NoConnect
  BY <1>7 DEF NoConnect, Goes
<1>8. CASE Poll
  BY <1>8 DEF Poll, Goes
<1>9. CASE PollEnds
  BY <1>9 DEF PollEnds, Goes
<1>10. CASE ServiceHook
  BY <1>10 DEF ServiceHook, Goes
<1>11. CASE StopHook
  BY <1>11 DEF StopHook, Goes
<1>12. CASE Free
  BY <1>12 DEF Free, Goes
<1>13. CASE CleanupHook
  BY <1>13 DEF CleanupHook, Goes
<1>14. CASE Lock
  BY <1>14 DEF Lock, Entered, UsesService
<1>15. CASE Writeable
  BY <1>15 DEF Writeable, In, Unlocks
<1>16. CASE Write
  BY <1>16 DEF Write
<1>17. CASE Recheck
  BY <1>17 DEF Recheck, In, Unlocks
<1>18. CASE Receive
  BY <1>18 DEF Receive, In, Unlocks
<1>19. CASE ReceiveFails
  BY <1>19 DEF ReceiveFails, In, Unlocks
<1>20. CASE Closed
  BY <1>20 DEF Closed, In, Unlocks
<1>21. CASE WsiDestroy
  BY <1>21 DEF WsiDestroy, ClientAfterDestroy, UsesService
<1>22. ASSUME NEW w \in Wsi, Established(w) PROVE Places'
  BY <1>22 DEF Established, Serves
<1>23. ASSUME NEW w \in Wsi, Refused(w) PROVE Places'
  BY <1>23 DEF Refused, Serves
<1>24. ASSUME NEW w \in Wsi, Disconnect(w) PROVE Places'
  BY <1>24 DEF Disconnect
<1>25. ASSUME NEW w \in Wsi, NEW event \in {"writeable", "receive", "closed"},
             CallsBack(w, event)
      PROVE  Places'
  BY <1>25 DEF CallsBack, Serves
<1>26. ASSUME NEW t \in Thread, ThreadLocks(t) PROVE Places'
  BY <1>26 DEF ThreadLocks
<1>27. ASSUME NEW t \in Thread, ThreadEnters(t) PROVE Places'
  BY <1>27 DEF ThreadEnters, UsesService
<1>28. ASSUME NEW t \in Thread, ThreadUnlocks(t) PROVE Places'
  BY <1>28 DEF ThreadUnlocks, UsesService
<1>29. CASE UNCHANGED <<g_wpcp_lws, thread, main, connection, callback>>
  BY <1>29
<1> QED
  BY <1>1, <1>2, <1>3, <1>4, <1>5, <1>6, <1>7, <1>8, <1>9, <1>10, <1>11,
     <1>12, <1>13, <1>14, <1>15, <1>16, <1>17, <1>18, <1>19, <1>20, <1>21,
     <1>22, <1>23, <1>24, <1>25, <1>26, <1>27, <1>28, <1>29 DEF Next,
     MainStep, Dispatch, CallbackStep, ThreadStep, NothingHappens,
     UsesNullSession, Signal, Tick, In, Unlocks, Serves, vars

(* A callback keeps to its connection until it returns.                    *)
LEMMA CalledBackStep == IInv /\ [Next]_vars => CalledBack'
<1> SUFFICES ASSUME IInv, [Next]_vars PROVE CalledBack'
  OBVIOUS
<1> USE ServiceAssumption DEF IInv, TypeOK, CalledBack, Waiting, network,
      clock, reconnect, service, locking
<1>1. CASE Connect
  BY <1>1 DEF Connect, Goes, MayConnect, NextConnect
<1>2. CASE Lock
  BY <1>2 DEF Lock, Entered, UsesService
<1>3. CASE Writeable
  BY <1>3 DEF Writeable, In, Unlocks
<1>4. CASE Write
  BY <1>4 DEF Write
<1>5. CASE Recheck
  BY <1>5 DEF Recheck, In, Unlocks
<1>6. CASE Receive
  BY <1>6 DEF Receive, In, Unlocks
<1>7. CASE ReceiveFails
  BY <1>7 DEF ReceiveFails, In, Unlocks
<1>8. CASE Closed
  BY <1>8 DEF Closed, In, Unlocks
<1>9. CASE WsiDestroy
  BY <1>9 DEF WsiDestroy, ClientAfterDestroy, UsesService
<1>10. ASSUME NEW w \in Wsi, Established(w) PROVE CalledBack'
  BY <1>10 DEF Established, Serves
<1>11. ASSUME NEW w \in Wsi, Refused(w) PROVE CalledBack'
  BY <1>11 DEF Refused, Serves
<1>12. ASSUME NEW w \in Wsi, Disconnect(w) PROVE CalledBack'
  BY <1>12 DEF Disconnect
<1>13. ASSUME NEW w \in Wsi, NEW event \in {"writeable", "receive", "closed"},
             CallsBack(w, event)
      PROVE  CalledBack'
  BY <1>13 DEF CallsBack, Serves
<1>14. CASE UNCHANGED <<wsi, callback, connection>>
  BY <1>14
<1> QED
  BY <1>1, <1>2, <1>3, <1>4, <1>5, <1>6, <1>7, <1>8, <1>9, <1>10, <1>11,
     <1>12, <1>13, <1>14 DEF Next, MainStep, Dispatch, CallbackStep,
     ThreadStep, InitHook, ParseArguments, Create, StartHook, Loop, NoConnect,
     Poll, PollEnds, ServiceHook, StopHook, Free, CleanupHook, NothingHappens,
     UsesNullSession, ThreadLocks, ThreadEnters, ThreadUnlocks, Signal, Tick,
     In, Unlocks, Serves, vars

(* Who uses the service does so while it is there.                         *)
LEMMA NoUseAfterFreeStep == IInv /\ [Next]_vars => NoUseAfterFree'
<1> SUFFICES ASSUME IInv, [Next]_vars PROVE NoUseAfterFree'
  OBVIOUS
<1> USE ServiceAssumption DEF IInv, NoUseAfterFree, Places, Serving,
      Waiting, CalledBack, network, clock, reconnect, service, locking
<1>1. CASE Lock
  BY <1>1 DEF Lock, Entered, UsesService
<1>2. CASE UsesNullSession
  BY <1>2 DEF UsesNullSession
<1>3. CASE WsiDestroy
  BY <1>3 DEF WsiDestroy, ClientAfterDestroy, UsesService
<1>4. ASSUME NEW t \in Thread, ThreadEnters(t) PROVE NoUseAfterFree'
  BY <1>4 DEF ThreadEnters, UsesService
<1>5. ASSUME NEW t \in Thread, ThreadUnlocks(t) PROVE NoUseAfterFree'
  BY <1>5 DEF ThreadUnlocks, UsesService
<1>6. CASE Signal
  BY <1>6 DEF Signal
<1>7. CASE UNCHANGED crash
  BY <1>7
<1> QED
  BY <1>1, <1>2, <1>3, <1>4, <1>5, <1>6, <1>7 DEF Next, MainStep, Dispatch,
     CallbackStep, ThreadStep, InitHook, ParseArguments, Create, StartHook,
     Loop, Connect, NoConnect, Poll, PollEnds, ServiceHook, StopHook, Free,
     CleanupHook, Established, NothingHappens, Refused, Disconnect, CallsBack,
     Writeable, Write, Recheck, Receive, ReceiveFails, Closed, ThreadLocks,
     Tick, In, Unlocks, Serves, vars

(* An attempt sets the countdown anew, every second takes one off.         *)
LEMMA ClockStep == IInv /\ [Next]_vars => Clock'
<1> SUFFICES ASSUME IInv, [Next]_vars PROVE Clock'
  OBVIOUS
<1> USE ServiceAssumption DEF IInv, TypeOK, ClockOK, Clock, network, clock,
      reconnect, service, locking
<1>1. CASE Connect
  BY <1>1 DEF Connect, Goes, MayConnect, NextConnect
<1>2. CASE Tick
  BY <1>2 DEF Tick
<1>3. CASE UNCHANGED <<due, since>>
  BY <1>3
<1> QED
  BY <1>1, <1>2, <1>3 DEF Next, MainStep, Dispatch, CallbackStep,
     ThreadStep, InitHook, ParseArguments, Create, StartHook, Loop, NoConnect,
     Poll, PollEnds, ServiceHook, StopHook, Free, CleanupHook, Established,
     NothingHappens, Refused, Disconnect, CallsBack, Lock, Writeable, Write,
     Recheck, Receive, ReceiveFails, Closed, UsesNullSession, WsiDestroy,
     ThreadLocks, ThreadEnters, ThreadUnlocks, Signal, In, Unlocks, Serves,
     vars

(* The initial states satisfy the invariant.                               *)
LEMMA InitInv == Init => IInv
<1> SUFFICES ASSUME Init PROVE IInv
  OBVIOUS
<1> USE ServiceAssumption DEF Init
<1>1. TypeOK
  <2>1. ClockOK
    BY DEF ClockOK
  <2> QED
    BY <2>1 DEF TypeOK
<1>2. MutexHeld
  BY DEF MutexHeld, Inside
<1>3. OneClient /\ SessionsAgree /\ NoUseAfterFree
  BY DEF OneClient, SessionsAgree, NoUseAfterFree
<1>4. Places /\ CalledBack
  BY DEF Places, CalledBack, Serving
<1>5. Clock
  BY DEF Clock
<1> QED
  BY <1>1, <1>2, <1>3, <1>4, <1>5 DEF IInv

(* The inductive invariant holds, for any connections, threads and         *)
(* interval.                                                               *)
THEOREM InvCorrect == Spec => []IInv
<1>1. IInv /\ [Next]_vars => IInv'
  BY TypeOKStep, MutexHeldStep, OneClientStep, SessionsAgreeStep, NoUseAfterFreeStep,
     PlacesStep, CalledBackStep, ClockStep DEF IInv
<1> QED
  BY <1>1, InitInv, PTL DEF Spec

(* The variables stay in their ranges.                                     *)
THEOREM TypeCorrect == Spec => []TypeOK
<1>1. IInv => TypeOK
  BY DEF IInv
<1> QED
  BY <1>1, InvCorrect, PTL

(* The callbacks and the threads never work under the mutex together, and  *)
(* no path through a callback leaves it locked.                            *)
THEOREM MutexHeldCorrect == Spec => []MutexHeld
<1>1. IInv => MutexHeld
  BY DEF IInv
<1> QED
  BY <1>1, InvCorrect, PTL

(* There is at most one connection to the server, and the service knows    *)
(* which until it is destroyed.                                            *)
THEOREM OneClientCorrect == Spec => []OneClient
<1>1. IInv => OneClient
  BY DEF IInv
<1> QED
  BY <1>1, InvCorrect, PTL

(* Sessions begin and end with their connections.                          *)
THEOREM SessionsAgreeCorrect == Spec => []SessionsAgree
<1>1. IInv => SessionsAgree
  BY DEF IInv
<1> QED
  BY <1>1, InvCorrect, PTL

(* Neither a callback nor a thread uses a service that was deleted.        *)
THEOREM NoUseAfterFreeCorrect == Spec => []NoUseAfterFree
<1>1. IInv => NoUseAfterFree
  BY DEF IInv
<1> QED
  BY <1>1, InvCorrect, PTL

(* Attempts to connect are more than the interval apart.                   *)
THEOREM SpacedCorrect == Spec => Spaced
<1>1. IInv /\ [Next]_vars => [Connect => since > Interval]_vars
  <2> SUFFICES ASSUME IInv, Connect PROVE since > Interval
    OBVIOUS
  <2>1. due < 0 /\ due + since = Interval
    BY DEF Connect, MayConnect, IInv, Clock
  <2> QED
    BY <2>1, ServiceAssumption DEF IInv, TypeOK, ClockOK
<1> QED
  BY <1>1, InvCorrect, PTL DEF Spec, Spaced
=============================================================================
