------------------------------ MODULE Shutdown ------------------------------
(***************************************************************************)
(* One process from its start to its end: what the closer stops, in which  *)
(* order, and what requests, the scheduler and the Telegram listener are   *)
(* doing meanwhile.                                                        *)
(*                                                                         *)
(* pc is where each goroutine stands; conn holds the goroutines that have  *)
(* a connection of the pool.  What their statements do is the subject of   *)
(* BookingStore and NotificationOutbox.  Here a statement fails only for   *)
(* the reasons a shutdown gives it: a cancelled context or a closed pool.  *)
(***************************************************************************)
EXTENDS Naturals, FiniteSets, Sequences

CONSTANTS
  Handlers,   \* the HTTP requests that may arrive, each served by a goroutine
  Scheduler,  \* the goroutine of Scheduler.Run
  Listener,   \* the goroutine of startUpdatesListener
  Notices,    \* the outbox rows that are due
  NoNotice,   \* no outbox row
  PoolSize    \* APP_POSTGRES_MAX_POOL_SIZE

Procs == Handlers \cup {Scheduler, Listener}

ASSUME ShutdownAssumption ==
  /\ Scheduler # Listener
  /\ {Scheduler, Listener} \cap Handlers = {}
  /\ NoNotice \notin Notices
  /\ PoolSize \in Nat \ {0}

VARIABLES
  phase,       \* of the process; the last three are its ends
  items,       \* how many entries closer.items has
  server,      \* the http.Server
  pool,        \* the pgxpool.Pool
  cancelled,   \* the goroutines whose context is cancelled
  errored,     \* whether the closer's result holds an error
  pc,          \* where each goroutine stands
  conn,        \* the goroutines that hold a connection
  due,         \* the outbox rows that are due and not claimed
  batch,       \* the claimed rows DispatchNotifications has still to send
  item,        \* the row it is working on
  unrecorded   \* the rows delivered without a mark that succeeded

life == <<phase, items, server, pool, cancelled, errored>>
work == <<due, batch, item, unrecorded>>
vars == <<life, pc, conn, work>>

HandlerPcs   == {"idle", "serving", "query", "answered", "failed"}
SchedulerPcs == {"off", "select", "sweep", "fetch", "send", "record", "stopped"}
ListenerPcs  == {"off", "poll", "store", "stopped"}

TypeOK ==
  /\ phase \in {"starting", "serving", "closing", "clean", "failed", "killed"}
  /\ items \in 0..4
  /\ server \in {"down", "up", "broken", "draining", "stopped"}
  /\ pool \in {"none", "open", "closing", "closed"}
  /\ cancelled \in SUBSET {Scheduler, Listener}
  /\ errored \in BOOLEAN
  /\ pc \in [Procs -> HandlerPcs \cup SchedulerPcs \cup ListenerPcs]
  /\ \A h \in Handlers : pc[h] \in HandlerPcs
  /\ pc[Scheduler] \in SchedulerPcs
  /\ pc[Listener] \in ListenerPcs
  /\ conn \in SUBSET Procs
  /\ due \in SUBSET Notices
  /\ batch \in SUBSET Notices
  /\ item \in Notices \cup {NoNotice}
  /\ unrecorded \in SUBSET Notices

Init ==
  /\ phase = "starting"
  /\ items = 0
  /\ server = "down"
  /\ pool = "none"
  /\ cancelled = {}
  /\ errored = FALSE
  /\ pc = [p \in Procs |-> IF p \in Handlers THEN "idle" ELSE "off"]
  /\ conn = {}
  /\ due = Notices
  /\ batch = {}
  /\ item = NoNotice
  /\ unrecorded = {}

Running == phase \in {"starting", "serving", "closing"}
Active  == {h \in Handlers : pc[h] \in {"serving", "query"}}

Goto(p, from, to) == pc[p] = from /\ pc' = [pc EXCEPT ![p] = to]

-----------------------------------------------------------------------------
(* The start, in the order of the closer's Adds.                           *)
Registered == <<"telegram-listener", "postgres", "scheduler", "http-server">>

Add(name) ==
  /\ phase = "starting"
  /\ items < 4 /\ Registered[items + 1] = name
  /\ items' = items + 1

NewContainer ==
  /\ Add("telegram-listener")
  /\ UNCHANGED <<phase, server, pool, cancelled, errored, pc, conn, work>>

InitPostgres ==
  /\ Add("postgres")
  /\ pool' = "open"
  /\ UNCHANGED <<phase, server, cancelled, errored, pc, conn, work>>

(* Load, the logger or initPostgres fails: Run returns without CloseAll.   *)
StartFails ==
  /\ phase = "starting"
  /\ items < 2
  /\ phase' = "failed"
  /\ UNCHANGED <<items, server, pool, cancelled, errored, pc, conn, work>>

(* NewTelegram starts its listener, unless Telegram is off or unreachable. *)
StartListener ==
  /\ phase = "starting"
  /\ items = 2
  /\ Goto(Listener, "off", "poll")
  /\ UNCHANGED <<life, conn, work>>

(* The first tick comes at once.                                           *)
StartScheduler ==
  /\ Add("scheduler")
  /\ Goto(Scheduler, "off", "sweep")
  /\ UNCHANGED <<phase, server, pool, cancelled, errored, conn, work>>

StartServer ==
  /\ Add("http-server")
  /\ server' = "up"
  /\ phase' = "serving"
  /\ UNCHANGED <<pool, cancelled, errored, pc, conn, work>>

(* ListenAndServe returns an error: it is logged and nothing else happens. *)
ServerBreaks ==
  /\ server = "up"
  /\ phase = "serving"
  /\ server' = "broken"
  /\ UNCHANGED <<phase, items, pool, cancelled, errored, pc, conn, work>>

-----------------------------------------------------------------------------
(* What a goroutine does with the database.  It waits for a connection of  *)
(* the pool, and its call returns once the statement has ended, or with an *)
(* error because its context is cancelled or the pool is closed.           *)
Acquire(p) ==
  /\ Running
  /\ pc[p] \in {"query", "sweep", "fetch", "record", "store"}
  /\ p \notin conn \cup cancelled
  /\ pool = "open"
  /\ Cardinality(conn) < PoolSize
  /\ conn' = conn \cup {p}
  /\ UNCHANGED <<life, pc, work>>

Bug_ConnectionLeaked(p, ok) ==
  /\ Running
  /\ conn' = conn
  /\ IF p \in conn
     THEN ok \/ p \in cancelled
     ELSE ~ok /\ (p \in cancelled \/ pool \in {"closing", "closed"})
Returns(p, ok) ==
  /\ Running
  /\ conn' = conn \ {p}
  /\ IF p \in conn
     THEN ok \/ p \in cancelled
     ELSE ~ok /\ (p \in cancelled \/ pool \in {"closing", "closed"})

(* A request.                                                              *)
Arrives(h) ==
  /\ Running
  /\ server = "up"
  /\ Goto(h, "idle", "serving")
  /\ UNCHANGED <<life, conn, work>>

Queries(h) ==
  /\ Running
  /\ Goto(h, "serving", "query")
  /\ UNCHANGED <<life, conn, work>>

QueryReturns(h) ==
  /\ \E ok \in BOOLEAN : Returns(h, ok) /\ Goto(h, "query", IF ok THEN "serving" ELSE "failed")
  /\ UNCHANGED <<life, work>>

Answers(h) ==
  /\ Running
  /\ Goto(h, "serving", "answered")
  /\ UNCHANGED <<life, conn, work>>

-----------------------------------------------------------------------------
(* The scheduler.  select takes either branch when both are ready, so one  *)
(* more tick may follow the cancellation.                                  *)
TickFires ==
  /\ Running
  /\ Goto(Scheduler, "select", "sweep")
  /\ UNCHANGED <<life, conn, work>>

LoopEnds ==
  /\ Running
  /\ Scheduler \in cancelled
  /\ Goto(Scheduler, "select", "stopped")
  /\ UNCHANGED <<life, conn, work>>

(* tick logs the error of the sweep and dispatches all the same.           *)
SweepReturns ==
  /\ \E ok \in BOOLEAN : Returns(Scheduler, ok)
  /\ Goto(Scheduler, "sweep", "fetch")
  /\ UNCHANGED <<life, work>>

NextOf(rows) == IF rows = {} THEN "select" ELSE "send"

(* A claim that reports an error may have been committed.                  *)
FetchReturns ==
  /\ \/ /\ Returns(Scheduler, TRUE)
        /\ Goto(Scheduler, "fetch", NextOf(due))
        /\ batch' = due /\ due' = {}
     \/ /\ Returns(Scheduler, FALSE)
        /\ Goto(Scheduler, "fetch", "select")
        /\ batch' = {} /\ due' \in {due} \cup IF Scheduler \in conn THEN {{}} ELSE {}
  /\ UNCHANGED <<life, item, unrecorded>>

(* The send ends, with the notice delivered or not; the channels that      *)
(* listen to the context may report an error for one that is delivered.    *)
Send ==
  /\ Running
  /\ Goto(Scheduler, "send", "record")
  /\ \E n \in batch :
       /\ item' = n
       /\ batch' = batch \ {n}
       /\ unrecorded' \in {unrecorded, unrecorded \cup {n}}
  /\ UNCHANGED <<life, conn, due>>

(* A mark that fails ends DispatchNotifications; the rest stays claimed.   *)
Bug_MarkErrorSkipped ==
  /\ \E ok \in BOOLEAN :
       /\ Returns(Scheduler, ok)
       /\ unrecorded' = IF ok THEN unrecorded \ {item} ELSE unrecorded
  /\ Goto(Scheduler, "record", NextOf(batch))
  /\ item' = NoNotice
  /\ UNCHANGED <<life, due, batch>>
RecordReturns ==
  /\ \/ /\ Returns(Scheduler, TRUE)
        /\ Goto(Scheduler, "record", NextOf(batch))
        /\ unrecorded' = unrecorded \ {item}
        /\ UNCHANGED batch
     \/ /\ Returns(Scheduler, FALSE)
        /\ Goto(Scheduler, "record", "select")
        /\ unrecorded' \in {unrecorded} \cup IF Scheduler \in conn THEN {unrecorded \ {item}} ELSE {}
        /\ batch' = {}
  /\ item' = NoNotice
  /\ UNCHANGED <<life, due>>

(* The listener.  rememberChat logs an error, and the update is lost.      *)
UpdateComes ==
  /\ Running
  /\ Goto(Listener, "poll", "store")
  /\ UNCHANGED <<life, conn, work>>

StoreReturns ==
  /\ \E ok \in BOOLEAN : Returns(Listener, ok)
  /\ Goto(Listener, "store", "poll")
  /\ UNCHANGED <<life, work>>

ListenerEnds ==
  /\ Running
  /\ Listener \in cancelled
  /\ Goto(Listener, "poll", "stopped")
  /\ UNCHANGED <<life, conn, work>>

-----------------------------------------------------------------------------
(* The end.  signal.Notify is called once everything runs; before that a   *)
(* signal, and at any time a SIGKILL, ends the process at once.            *)
Killed ==
  /\ Running
  /\ phase' = "killed"
  /\ UNCHANGED <<items, server, pool, cancelled, errored, pc, conn, work>>

Signal ==
  /\ phase = "serving"
  /\ phase' = "closing"
  /\ UNCHANGED <<items, server, pool, cancelled, errored, pc, conn, work>>

(* CloseAll has come to the entry called name.                             *)
Bug_InOrderOfAdd(name) == phase = "closing" /\ items > 0 /\ Registered[5 - items] = name
Closing(name) == phase = "closing" /\ items > 0 /\ Registered[items] = name

(* srv.Shutdown stops accepting and waits for the handlers or for its      *)
(* time to be over; the error does not keep the rest from being closed.    *)
BeginDrain ==
  /\ Closing("http-server")
  /\ server \in {"up", "broken"}
  /\ server' = "draining"
  /\ UNCHANGED <<phase, items, pool, cancelled, errored, pc, conn, work>>

Bug_DrainForgetsQueries == \A h \in Handlers : pc[h] # "serving"
NobodyServed == Active = {}

Drained ==
  /\ Closing("http-server")
  /\ server = "draining"
  /\ NobodyServed
  /\ server' = "stopped"
  /\ items' = items - 1
  /\ UNCHANGED <<phase, pool, cancelled, errored, pc, conn, work>>

Bug_NoTimeLimit == FALSE /\ UNCHANGED vars
DrainTimesOut ==
  /\ Closing("http-server")
  /\ server = "draining"
  /\ server' = "stopped"
  /\ errored' = TRUE
  /\ items' = items - 1
  /\ UNCHANGED <<phase, pool, cancelled, pc, conn, work>>

StopScheduler ==
  /\ Closing("scheduler")
  /\ cancelled' = cancelled \cup {Scheduler}
  /\ items' = items - 1
  /\ UNCHANGED <<phase, server, pool, errored, pc, conn, work>>

(* Pool.Close refuses new acquisitions and waits, without a limit of time, *)
(* until every connection is back.                                         *)
BeginPoolClose ==
  /\ Closing("postgres")
  /\ pool = "open"
  /\ pool' = "closing"
  /\ UNCHANGED <<phase, items, server, cancelled, errored, pc, conn, work>>

Bug_PoolNotWaitedFor == TRUE
ConnectionsBack == conn = {}

PoolClosed ==
  /\ Closing("postgres")
  /\ pool = "closing"
  /\ ConnectionsBack
  /\ pool' = "closed"
  /\ items' = items - 1
  /\ UNCHANGED <<phase, server, cancelled, errored, pc, conn, work>>

StopListener ==
  /\ Closing("telegram-listener")
  /\ cancelled' = cancelled \cup {Listener}
  /\ items' = items - 1
  /\ UNCHANGED <<phase, server, pool, errored, pc, conn, work>>

(* WaitAndClose returns and the process ends, whatever still runs in it.   *)
Exit ==
  /\ phase = "closing"
  /\ items = 0
  /\ phase' = IF errored THEN "failed" ELSE "clean"
  /\ UNCHANGED <<items, server, pool, cancelled, errored, pc, conn, work>>

-----------------------------------------------------------------------------
Start ==
  \/ NewContainer \/ InitPostgres \/ StartFails
  \/ StartListener \/ StartScheduler \/ StartServer

Request(h) == Arrives(h) \/ Queries(h) \/ QueryReturns(h) \/ Answers(h)

SchedulerStep ==
  TickFires \/ LoopEnds \/ SweepReturns \/ FetchReturns \/ Send \/ RecordReturns

ListenerStep == UpdateComes \/ StoreReturns \/ ListenerEnds

CloserStep ==
  \/ BeginDrain \/ Drained \/ DrainTimesOut
  \/ StopScheduler
  \/ BeginPoolClose \/ PoolClosed
  \/ StopListener \/ Exit

Next ==
  \/ Start \/ ServerBreaks \/ Killed \/ Signal
  \/ \E p \in Procs : Acquire(p)
  \/ \E h \in Handlers : Request(h)
  \/ SchedulerStep
  \/ ListenerStep
  \/ CloserStep

Spec == Init /\ [][Next]_vars

(* The closer runs, timers fire and Postgres answers.  No client has to    *)
(* read its answer, no send has to end, and no signal has to come.  The    *)
(* pool serves its waiters first come, first served.                       *)
Fairness ==
  /\ WF_vars(CloserStep)
  /\ \A p \in Procs : SF_vars(Acquire(p))
  /\ \A h \in Handlers : WF_vars(QueryReturns(h))
  /\ WF_vars(SweepReturns) /\ WF_vars(FetchReturns) /\ WF_vars(RecordReturns)
  /\ WF_vars(StoreReturns)

LiveSpec == Spec /\ Fairness

-----------------------------------------------------------------------------
(* The ends of the process.                                                *)
Ended == phase \in {"clean", "failed", "killed"}

(* "graceful shutdown complete" (exit status 0) is said only when every    *)
(* request that had arrived was answered, none of them with the error of a *)
(* closed pool: CloseAll closes what was registered last first.            *)
CleanExitAnswersAll ==
  phase = "clean" => \A h \in Handlers : pc[h] \in {"idle", "answered"}

(* A process that ends after a shutdown leaves no statement unfinished     *)
(* behind, also when the drain ran out of time and handlers, a tick or the *)
(* listener are still running.                                             *)
NoStatementAtExit ==
  phase \in {"clean", "failed"} => conn = {}

(* A shutdown makes at most one delivered notice go out again later: the   *)
(* tick it interrupts stops at the first mark that fails, and a tick that  *)
(* follows the cancellation claims nothing.                                *)
AtMostOneRepeated ==
  \A m, n \in unrecorded : m = n

(* Why: what the closer has reached says what can still be going on.       *)
ClosedFromTheLast ==
  /\ phase = "starting" /\ items < 2 => pool = "none"
  /\ phase = "serving" => items = 4
  /\ phase \in {"starting", "serving"} => cancelled = {} /\ server # "stopped"
  /\ server = "stopped" /\ ~errored => Active = {}
  /\ pool \in {"closing", "closed"} => server = "stopped" /\ Scheduler \in cancelled
  /\ pool \in {"none", "closed"} => conn = {}
  /\ phase = "closing" =>
       /\ items < 4 => server = "stopped"
       /\ items < 3 => Scheduler \in cancelled
       /\ items < 2 => pool = "closed"
  /\ phase = "clean" => server = "stopped" /\ ~errored
  /\ phase \in {"clean", "failed"} => pool \in {"none", "closed"}

(* A request fails only at a pool that closes before the request has ended.*)
FailuresAreErrors ==
  (\E h \in Handlers : pc[h] = "failed") => errored

(* A notice stays unrecorded only when its mark has failed.                *)
UnrecordedOnce ==
  /\ pc[Scheduler] = "record" => unrecorded \subseteq {item}
  /\ pc[Scheduler] # "record" =>
       /\ item = NoNotice
       /\ unrecorded # {} => Scheduler \in cancelled /\ Scheduler \notin conn
       /\ pc[Scheduler] = "send" => unrecorded = {}

IInv ==
  /\ TypeOK
  /\ ClosedFromTheLast
  /\ FailuresAreErrors
  /\ UnrecordedOnce
  /\ CleanExitAnswersAll
  /\ NoStatementAtExit
  /\ AtMostOneRepeated

(* A shutdown comes to its end although a client never lets its handler    *)
(* return and a send hangs.                                                *)
ShutdownEnds == phase = "closing" ~> Ended

(* Requests, the tick and the listener share a pool smaller than their     *)
(* number: a request that waits for a connection gets one or, when the     *)
(* pool is closed before its turn, an error.                               *)
EveryQueryEnds ==
  \A h \in Handlers : pc[h] = "query" ~> (pc[h] # "query" \/ Ended)
=============================================================================
