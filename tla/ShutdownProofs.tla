--------------------------- MODULE ShutdownProofs ---------------------------
(***************************************************************************)
(* Theorems about Shutdown, for every number of requests, notices and      *)
(* connections.                                                            *)
(***************************************************************************)
EXTENDS Shutdown, TLAPS

(* The names of a process's two own goroutines are no requests.            *)
LEMMA Names ==
  /\ Scheduler \in Procs /\ Listener \in Procs
  /\ Scheduler # Listener
  /\ Scheduler \notin Handlers /\ Listener \notin Handlers
  /\ Handlers \subseteq Procs
  /\ NoNotice \notin Notices
BY ShutdownAssumption DEF Procs

(* The initial state has the right types.                                  *)
LEMMA TypeInit == Init => TypeOK
<1> SUFFICES ASSUME Init PROVE TypeOK
  OBVIOUS
<1>1. pc \in [Procs -> {"idle", "off"}]
  BY DEF Init
<1>2. /\ \A h \in Handlers : pc[h] = "idle"
      /\ pc[Scheduler] = "off" /\ pc[Listener] = "off"
  BY Names DEF Init
<1>3. /\ pc \in [Procs -> HandlerPcs \cup SchedulerPcs \cup ListenerPcs]
      /\ \A h \in Handlers : pc[h] \in HandlerPcs
      /\ pc[Scheduler] \in SchedulerPcs
      /\ pc[Listener] \in ListenerPcs
  BY <1>1, <1>2 DEF HandlerPcs, SchedulerPcs, ListenerPcs
<1>4. phase = "starting" /\ items = 0 /\ server = "down" /\ pool = "none" /\ cancelled = {}
      /\ errored = FALSE /\ conn = {} /\ due = Notices /\ batch = {} /\ item = NoNotice
      /\ unrecorded = {}
  BY DEF Init
<1>5. items \in 0..4
  BY <1>4
<1> QED
  BY <1>3, <1>4, <1>5 DEF TypeOK

(* One process moves, to a place of its own kind.                          *)
LEMMA PcMoves ==
  ASSUME TypeOK, NEW p \in Procs, NEW to,
         p \in Handlers => to \in HandlerPcs,
         p = Scheduler => to \in SchedulerPcs,
         p = Listener => to \in ListenerPcs,
         pc' = [pc EXCEPT ![p] = to]
  PROVE  /\ pc' \in [Procs -> HandlerPcs \cup SchedulerPcs \cup ListenerPcs]
         /\ \A h \in Handlers : pc'[h] \in HandlerPcs
         /\ pc'[Scheduler] \in SchedulerPcs
         /\ pc'[Listener] \in ListenerPcs
<1>1. to \in HandlerPcs \cup SchedulerPcs \cup ListenerPcs
  BY DEF Procs
<1>2. pc \in [Procs -> HandlerPcs \cup SchedulerPcs \cup ListenerPcs]
  BY DEF TypeOK
<1>3. \A q \in Procs : pc'[q] = IF q = p THEN to ELSE pc[q]
  BY <1>2
<1>4. pc' \in [Procs -> HandlerPcs \cup SchedulerPcs \cup ListenerPcs]
  BY <1>1, <1>2
<1> QED
  BY <1>3, <1>4, Names DEF TypeOK

(* Every step keeps the types.                                             *)
LEMMA TypeStep == TypeOK /\ [Next]_vars => TypeOK'
<1> SUFFICES ASSUME TypeOK, [Next]_vars PROVE TypeOK'
  OBVIOUS
<1> USE Names
<1>1. CASE Start
  <2>1. CASE NewContainer
    BY <2>1 DEF TypeOK, NewContainer, Add, work
  <2>2. CASE InitPostgres
    BY <2>2 DEF TypeOK, InitPostgres, Add, work
  <2>3. CASE StartFails
    BY <2>3 DEF TypeOK, StartFails, work
  <2>4. CASE StartListener
    <3>1. pc' = [pc EXCEPT ![Listener] = "poll"]
      BY <2>4 DEF StartListener, Goto
    <3> QED
      BY <2>4, <3>1, PcMoves DEF TypeOK, StartListener, life, work, ListenerPcs
  <2>5. CASE StartScheduler
    <3>1. pc' = [pc EXCEPT ![Scheduler] = "sweep"]
      BY <2>5 DEF StartScheduler, Goto
    <3> QED
      BY <2>5, <3>1, PcMoves DEF TypeOK, StartScheduler, Add, work, SchedulerPcs
  <2>6. CASE StartServer
    BY <2>6 DEF TypeOK, StartServer, Add, work
  <2> QED
    BY <1>1, <2>1, <2>2, <2>3, <2>4, <2>5, <2>6 DEF Start
<1>2. CASE ServerBreaks
  BY <1>2 DEF TypeOK, ServerBreaks, work
<1>3. CASE Killed
  BY <1>3 DEF TypeOK, Killed, work
<1>4. CASE Signal
  BY <1>4 DEF TypeOK, Signal, work
<1>5. CASE \E p \in Procs : Acquire(p)
  BY <1>5 DEF TypeOK, Acquire, life, work
<1>6. ASSUME NEW h \in Handlers, Request(h)
      PROVE  TypeOK'
  <2>1. PICK to \in HandlerPcs : pc' = [pc EXCEPT ![h] = to]
    BY <1>6 DEF Request, Arrives, Queries, QueryReturns, Answers, Goto, HandlerPcs
  <2>2. conn' \in SUBSET Procs
    BY <1>6 DEF TypeOK, Request, Arrives, Queries, QueryReturns, Answers, Returns
  <2>3. UNCHANGED <<life, work>>
    BY <1>6 DEF Request, Arrives, Queries, QueryReturns, Answers
  <2> QED
    BY <2>1, <2>2, <2>3, PcMoves DEF TypeOK, life, work
<1>7. CASE SchedulerStep
  <2> USE DEF SchedulerStep, TickFires, LoopEnds, SweepReturns, FetchReturns, Send, RecordReturns
  <2>1. PICK to \in SchedulerPcs : pc' = [pc EXCEPT ![Scheduler] = to]
    BY <1>7 DEF Goto, SchedulerPcs, NextOf
  <2>2. conn' \in SUBSET Procs
    BY <1>7 DEF TypeOK, Returns
  <2>3. UNCHANGED life
    BY <1>7
  <2>4. /\ due' \in SUBSET Notices /\ batch' \in SUBSET Notices
        /\ item' \in Notices \cup {NoNotice}
        /\ unrecorded' \in SUBSET Notices
    BY <1>7 DEF TypeOK, work
  <2> QED
    BY <2>1, <2>2, <2>3, <2>4, PcMoves DEF TypeOK, life
<1>8. CASE ListenerStep
  <2>1. PICK to \in ListenerPcs : pc' = [pc EXCEPT ![Listener] = to]
    BY <1>8 DEF ListenerStep, UpdateComes, StoreReturns, ListenerEnds, Goto, ListenerPcs
  <2>2. conn' \in SUBSET Procs
    BY <1>8 DEF TypeOK, ListenerStep, UpdateComes, StoreReturns, ListenerEnds, Returns
  <2>3. UNCHANGED <<life, work>>
    BY <1>8 DEF ListenerStep, UpdateComes, StoreReturns, ListenerEnds
  <2> QED
    BY <2>1, <2>2, <2>3, PcMoves DEF TypeOK, life, work
<1>9. CASE CloserStep
  <2> USE DEF CloserStep, BeginDrain, Drained, DrainTimesOut, StopScheduler, BeginPoolClose,
              PoolClosed, StopListener, Exit
  <2>1. UNCHANGED <<pc, conn, work>>
    BY <1>9
  <2>2. /\ phase' \in {"starting", "serving", "closing", "clean", "failed", "killed"}
        /\ items' \in 0..4
        /\ server' \in {"down", "up", "broken", "draining", "stopped"}
        /\ pool' \in {"none", "open", "closing", "closed"}
        /\ cancelled' \in SUBSET {Scheduler, Listener}
    BY <1>9 DEF TypeOK, Closing
  <2>3. errored' \in BOOLEAN
    BY <1>9 DEF TypeOK
  <2> QED
    BY <2>1, <2>2, <2>3 DEF TypeOK, work
<1>10. CASE UNCHANGED vars
  BY <1>10 DEF TypeOK, vars, life, work
<1> QED
  BY <1>1, <1>2, <1>3, <1>4, <1>5, <1>6, <1>7, <1>8, <1>9, <1>10 DEF Next

-----------------------------------------------------------------------------
(* Goroutines leave the life of the process alone.  A request is served    *)
(* only if it was before or has just arrived at a server that is up, a     *)
(* connection is taken only from a pool that is open, and a request fails  *)
(* only at a pool that is closing.                                         *)
LEMMA GoroutineFrame ==
  ASSUME TypeOK,
         \/ \E p \in Procs : Acquire(p)
         \/ \E h \in Handlers : Request(h)
         \/ SchedulerStep \/ ListenerStep
  PROVE  /\ UNCHANGED life
         /\ Running
         /\ pool # "open" => conn' \subseteq conn
         /\ server # "up" => Active' \subseteq Active
         /\ \A h \in Handlers : pc'[h] = "failed" =>
              pc[h] = "failed" \/ (h \in Active /\ pool \in {"closing", "closed"})
<1> USE Names
<1>1. CASE \E p \in Procs : Acquire(p)
  BY <1>1 DEF Acquire, Active
<1>2. ASSUME NEW h \in Handlers, Request(h)
      PROVE  /\ UNCHANGED life
             /\ Running
             /\ pool # "open" => conn' \subseteq conn
             /\ server # "up" => Active' \subseteq Active
             /\ \A g \in Handlers : pc'[g] = "failed" =>
                  pc[g] = "failed" \/ (g \in Active /\ pool \in {"closing", "closed"})
  <2> USE DEF Request, Arrives, Queries, QueryReturns, Answers, Goto
  <2>1. UNCHANGED life /\ Running
    BY <1>2 DEF Returns
  <2>2. conn' \subseteq conn
    BY <1>2 DEF Returns
  <2>3. pc \in [Procs -> HandlerPcs \cup SchedulerPcs \cup ListenerPcs] /\ h \notin cancelled
    BY DEF TypeOK
  <2>4. PICK to \in HandlerPcs : pc' = [pc EXCEPT ![h] = to]
    BY <1>2 DEF HandlerPcs
  <2>5. \A g \in Handlers : pc'[g] = IF g = h THEN to ELSE pc[g]
    BY <2>3, <2>4
  <2>6. server # "up" /\ pc'[h] \in {"serving", "query"} => pc[h] \in {"serving", "query"}
    BY <1>2, <2>3
  <2>7. pc'[h] = "failed" => pc[h] = "query" /\ pool \in {"closing", "closed"}
    BY <1>2, <2>3 DEF Returns
  <2> QED
    BY <2>1, <2>2, <2>5, <2>6, <2>7 DEF Active
<1>3. CASE SchedulerStep \/ ListenerStep
  <2> USE DEF SchedulerStep, TickFires, LoopEnds, SweepReturns, FetchReturns, Send, RecordReturns,
              ListenerStep, UpdateComes, StoreReturns, ListenerEnds
  <2>1. UNCHANGED life /\ Running
    BY <1>3 DEF Returns
  <2>2. conn' \subseteq conn
    BY <1>3 DEF Returns
  <2>3. \A h \in Handlers : pc'[h] = pc[h]
    BY <1>3 DEF Goto, TypeOK
  <2> QED
    BY <2>1, <2>2, <2>3 DEF Active
<1> QED
  BY <1>1, <1>2, <1>3

(* What the closer has reached says what can still be going on.            *)
LEMMA ClosedStep == TypeOK /\ ClosedFromTheLast /\ [Next]_vars => ClosedFromTheLast'
<1> SUFFICES ASSUME TypeOK, ClosedFromTheLast, [Next]_vars PROVE ClosedFromTheLast'
  OBVIOUS
<1> USE Names
<1>1. CASE Start \/ ServerBreaks \/ Killed \/ Signal
  <2>1. \A h \in Handlers : pc'[h] = pc[h]
    BY <1>1 DEF Start, ServerBreaks, Killed, Signal, NewContainer, InitPostgres, StartFails,
         StartListener, StartScheduler, StartServer, Goto, TypeOK
  <2>2. Active' = Active
    BY <2>1 DEF Active
  <2>3. CASE Start
    BY <2>2, <2>3 DEF Start, NewContainer, InitPostgres, Registered, StartFails, StartListener,
         StartScheduler, StartServer, Add, TypeOK, ClosedFromTheLast, life
  <2>4. CASE ServerBreaks \/ Killed \/ Signal
    BY <2>2, <2>4 DEF ServerBreaks, Killed, Signal, Running, TypeOK, ClosedFromTheLast
  <2> QED
    BY <1>1, <2>3, <2>4
<1>2. CASE \/ \E p \in Procs : Acquire(p)
           \/ \E h \in Handlers : Request(h)
           \/ SchedulerStep \/ ListenerStep
  BY <1>2, GoroutineFrame DEF ClosedFromTheLast, life
<1>3. CASE CloserStep
  <2>1. UNCHANGED <<pc, conn>> /\ Active' = Active
    BY <1>3 DEF CloserStep, BeginDrain, Drained, DrainTimesOut, StopScheduler, BeginPoolClose,
         PoolClosed, StopListener, Exit, Active
  <2>2. CASE BeginDrain \/ Drained \/ DrainTimesOut
    BY <2>1, <2>2 DEF BeginDrain, Drained, DrainTimesOut, Closing, Registered, NobodyServed,
         ClosedFromTheLast, TypeOK
  <2>3. CASE StopScheduler
    BY <2>1, <2>3 DEF StopScheduler, Closing, Registered, ClosedFromTheLast, TypeOK
  <2>4. CASE BeginPoolClose \/ PoolClosed
    BY <2>1, <2>4 DEF BeginPoolClose, PoolClosed, Closing, Registered, ConnectionsBack,
         ClosedFromTheLast, TypeOK
  <2>5. CASE StopListener \/ Exit
    BY <2>1, <2>5 DEF StopListener, Exit, Closing, Registered, ClosedFromTheLast, TypeOK
  <2> QED
    BY <1>3, <2>2, <2>3, <2>4, <2>5 DEF CloserStep
<1>4. CASE UNCHANGED vars
  BY <1>4 DEF ClosedFromTheLast, Active, vars, life
<1> QED
  BY <1>1, <1>2, <1>3, <1>4 DEF Next

(* A request fails only at a pool that closes before it has ended.         *)
LEMMA FailuresStep ==
  TypeOK /\ ClosedFromTheLast /\ FailuresAreErrors /\ [Next]_vars => FailuresAreErrors'
<1> SUFFICES ASSUME TypeOK, ClosedFromTheLast, FailuresAreErrors, [Next]_vars
             PROVE  FailuresAreErrors'
  OBVIOUS
<1> USE Names
<1>1. CASE \/ \E p \in Procs : Acquire(p)
           \/ \E h \in Handlers : Request(h)
           \/ SchedulerStep \/ ListenerStep
  BY <1>1, GoroutineFrame DEF ClosedFromTheLast, FailuresAreErrors, life
<1>2. CASE Start
  <2>1. \A h \in Handlers : pc'[h] = pc[h]
    BY <1>2 DEF Start, NewContainer, InitPostgres, StartFails, StartListener, StartScheduler,
         StartServer, Goto, TypeOK
  <2>2. errored' = errored
    BY <1>2 DEF Start, NewContainer, InitPostgres, StartFails, StartListener, StartScheduler,
         StartServer, life
  <2> QED
    BY <2>1, <2>2 DEF FailuresAreErrors
<1>3. CASE ServerBreaks \/ Killed \/ Signal \/ CloserStep
  <2>1. pc' = pc /\ (errored => errored')
    BY <1>3 DEF ServerBreaks, Killed, Signal, CloserStep, BeginDrain, Drained, DrainTimesOut,
         StopScheduler, BeginPoolClose, PoolClosed, StopListener, Exit
  <2> QED
    BY <2>1 DEF FailuresAreErrors
<1>4. CASE UNCHANGED vars
  BY <1>4 DEF FailuresAreErrors, vars, life
<1> QED
  BY <1>1, <1>2, <1>3, <1>4 DEF Next

(* Only the scheduler touches the work; its context is cancelled before    *)
(* the pool closes, so that it takes no connection after a failed mark.    *)
LEMMA UnrecordedStep ==
  TypeOK /\ ClosedFromTheLast /\ UnrecordedOnce /\ AtMostOneRepeated /\ [Next]_vars
    => UnrecordedOnce' /\ AtMostOneRepeated'
<1> SUFFICES ASSUME TypeOK, ClosedFromTheLast, UnrecordedOnce, AtMostOneRepeated, [Next]_vars
             PROVE  UnrecordedOnce' /\ AtMostOneRepeated'
  OBVIOUS
<1> USE Names
<1>1. CASE SchedulerStep
  <2>1. \A to : pc' = [pc EXCEPT ![Scheduler] = to] => pc'[Scheduler] = to
    BY DEF TypeOK
  <2>2. CASE TickFires \/ LoopEnds
    BY <2>1, <2>2 DEF TickFires, LoopEnds, Goto, UnrecordedOnce, AtMostOneRepeated, work, life
  <2>3. CASE SweepReturns
    BY <2>1, <2>3 DEF SweepReturns, Returns, Goto, UnrecordedOnce, AtMostOneRepeated, work, life
  <2>4. CASE FetchReturns
    <3>1. pc'[Scheduler] \in {"select", "send"}
      BY <2>1, <2>4 DEF FetchReturns, Goto, NextOf
    <3>2. pc'[Scheduler] = "send" => Scheduler \in conn
      BY <2>1, <2>4 DEF FetchReturns, Returns, Goto
    <3> QED
      BY <2>4, <3>1, <3>2 DEF FetchReturns, Returns, Goto, UnrecordedOnce, AtMostOneRepeated, life
  <2>5. CASE Send
    BY <2>1, <2>5 DEF Send, Goto, UnrecordedOnce, AtMostOneRepeated, life
  <2>6. CASE RecordReturns
    <3>1. pc[Scheduler] = "record" /\ pc'[Scheduler] \in {"select", "send"}
      BY <2>1, <2>6 DEF RecordReturns, Goto, NextOf
    <3>2. unrecorded' \subseteq unrecorded /\ item' = NoNotice /\ cancelled' = cancelled
      BY <2>6 DEF RecordReturns, life
    <3>3. Scheduler \notin conn'
      BY <2>6 DEF RecordReturns, Returns
    <3>4. Scheduler \in cancelled \/ (unrecorded' = unrecorded \ {item})
      BY <2>6 DEF RecordReturns, Returns, ClosedFromTheLast
    <3>5. pc'[Scheduler] = "send" => unrecorded' = unrecorded \ {item}
      BY <2>1, <2>6 DEF RecordReturns, Goto
    <3> QED
      BY <3>1, <3>2, <3>3, <3>4, <3>5 DEF UnrecordedOnce, AtMostOneRepeated
  <2> QED
    BY <1>1, <2>2, <2>3, <2>4, <2>5, <2>6 DEF SchedulerStep
<1>2. CASE \E p \in Procs : Acquire(p)
  BY <1>2 DEF Acquire, UnrecordedOnce, AtMostOneRepeated, life, work
<1>3. CASE (\E h \in Handlers : Request(h)) \/ ListenerStep
  <2>1. UNCHANGED <<cancelled, work>> /\ conn' \subseteq conn
    BY <1>3 DEF Request, Arrives, Queries, QueryReturns, Answers, ListenerStep, UpdateComes,
         StoreReturns, ListenerEnds, Returns, life
  <2>2. pc'[Scheduler] = pc[Scheduler]
    BY <1>3 DEF Request, Arrives, Queries, QueryReturns, Answers, ListenerStep, UpdateComes,
         StoreReturns, ListenerEnds, Goto, TypeOK
  <2> QED
    BY <2>1, <2>2 DEF UnrecordedOnce, AtMostOneRepeated, work
<1>4. CASE Start
  <2>1. UNCHANGED <<cancelled, conn, work>>
    BY <1>4 DEF Start, NewContainer, InitPostgres, StartFails, StartListener, StartScheduler,
         StartServer, life
  <2>2. \/ pc'[Scheduler] = pc[Scheduler]
        \/ pc[Scheduler] = "off" /\ pc'[Scheduler] = "sweep"
    BY <1>4 DEF Start, NewContainer, InitPostgres, StartFails, StartListener, StartScheduler,
         StartServer, Goto, TypeOK
  <2> QED
    BY <2>1, <2>2 DEF UnrecordedOnce, AtMostOneRepeated, work
<1>5. CASE ServerBreaks \/ Killed \/ Signal \/ CloserStep
  <2>1. UNCHANGED <<pc, conn, work>> /\ cancelled \subseteq cancelled'
    BY <1>5 DEF ServerBreaks, Killed, Signal, CloserStep, BeginDrain, Drained, DrainTimesOut,
         StopScheduler, BeginPoolClose, PoolClosed, StopListener, Exit
  <2> QED
    BY <2>1 DEF UnrecordedOnce, AtMostOneRepeated, work
<1>6. CASE UNCHANGED vars
  BY <1>6 DEF UnrecordedOnce, AtMostOneRepeated, vars, life, work
<1> QED
  BY <1>1, <1>2, <1>3, <1>4, <1>5, <1>6 DEF Next

(* What can be going on when the process ends follows from what has been   *)
(* closed by then.                                                         *)
LEMMA EndIsQuiet ==
  TypeOK /\ ClosedFromTheLast /\ FailuresAreErrors => CleanExitAnswersAll /\ NoStatementAtExit
BY DEF TypeOK, HandlerPcs, ClosedFromTheLast, FailuresAreErrors, Active, CleanExitAnswersAll,
     NoStatementAtExit

-----------------------------------------------------------------------------
(* The inductive invariant: what the closer has reached says which         *)
(* goroutines can still be at work, and at which of their steps.           *)
THEOREM ShutdownInvariance == Spec => []IInv
<1>1. Init => IInv
  <2> SUFFICES ASSUME Init PROVE IInv
    OBVIOUS
  <2>1. TypeOK
    BY TypeInit
  <2>2. \A h \in Handlers : pc[h] = "idle"
    BY Names DEF Init
  <2>3. pc[Scheduler] = "off"
    BY Names DEF Init
  <2>4. ClosedFromTheLast /\ FailuresAreErrors
    BY <2>2 DEF Init, ClosedFromTheLast, FailuresAreErrors
  <2>5. UnrecordedOnce /\ AtMostOneRepeated
    BY <2>3 DEF Init, UnrecordedOnce, AtMostOneRepeated
  <2> QED
    BY <2>1, <2>4, <2>5, EndIsQuiet DEF IInv
<1>2. IInv /\ [Next]_vars => IInv'
  <2> SUFFICES ASSUME IInv, [Next]_vars PROVE IInv'
    OBVIOUS
  <2>1. TypeOK' /\ ClosedFromTheLast' /\ FailuresAreErrors'
    BY TypeStep, ClosedStep, FailuresStep DEF IInv
  <2>2. UnrecordedOnce' /\ AtMostOneRepeated'
    BY UnrecordedStep DEF IInv
  <2>3. CleanExitAnswersAll' /\ NoStatementAtExit'
    BY <2>1 DEF TypeOK, HandlerPcs, ClosedFromTheLast, FailuresAreErrors, Active,
         CleanExitAnswersAll, NoStatementAtExit
  <2> QED
    BY <2>1, <2>2, <2>3 DEF IInv
<1> QED
  BY <1>1, <1>2, PTL DEF Spec

(* A process says "graceful shutdown complete" only when every request     *)
(* that had arrived was answered, and none with the error of a closed pool *)
(* (CloseAll, the container's and Run's Adds).                             *)
THEOREM CleanExitCorrect == Spec => []CleanExitAnswersAll
<1>1. IInv => CleanExitAnswersAll
  BY DEF IInv
<1> QED
  BY <1>1, ShutdownInvariance, PTL

(* No statement is under way when a shutdown ends (Pool.Close).            *)
THEOREM ExitQuiet == Spec => []NoStatementAtExit
<1>1. IInv => NoStatementAtExit
  BY DEF IInv
<1> QED
  BY <1>1, ShutdownInvariance, PTL

(* An interrupted tick leaves at most one delivered notice without its     *)
(* mark (tick, DispatchNotifications).                                     *)
THEOREM RepeatsBounded == Spec => []AtMostOneRepeated
<1>1. IInv => AtMostOneRepeated
  BY DEF IInv
<1> QED
  BY <1>1, ShutdownInvariance, PTL
=============================================================================
