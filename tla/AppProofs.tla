------------------------------ MODULE AppProofs ------------------------------
(***************************************************************************)
(* The safety of the program for every set of jobs, schedules and requests, *)
(* every environment and every order of signals, failures and deadlines.    *)
(* The scheduler in it takes no step that is not one of Scheduler, so what  *)
(* SchedulerProofs says of the one holds for the other.                     *)
(***************************************************************************)
EXTENDS App, SchedulerProofs

USE AppAssumption

(***************************************************************************)
(* The program runs the scheduler.                                         *)
(***************************************************************************)

LEMMA NextIsScheduled == AppNext => [Next]_vars
<1> SUFFICES ASSUME AppNext
             PROVE  [Next]_vars
  OBVIOUS
<1>1. CASE Main
  <2>1. CASE StartScheduler
    BY <2>1 DEF StartScheduler, Next
  <2>2. CASE BeginDrain \/ Drain
    BY <2>2 DEF BeginDrain, Drain, ShutdownStep, Next
  <2>3. CASE SetupDb \/ Wake \/ StopSignals \/ ReadCause \/ RaiseFlag \/ CloseListener
               \/ Poll \/ PollAgain \/ DrainFails \/ CloseFails \/ ExitFatal \/ CloseDb \/ Return
    BY <2>3 DEF SetupDb, Wake, StopSignals, ReadCause, RaiseFlag, CloseListener, Poll,
                PollAgain, DrainFails, CloseFails, ExitFatal, CloseDb, Return
  <2> QED
    BY <1>1, <2>1, <2>2, <2>3 DEF Main
<1>2. ASSUME NEW j \in Jobs, Wire(j) \/ Background(Runner(j)) \/ Background(Returns(j))
      PROVE  Next
  BY <1>2 DEF Wire, Background, Next
<1>3. CASE Background(PropagateCancel) \/ Background(Tick) \/ Signal
  BY <1>3 DEF Background, Signal, Next
<1>4. CASE Listen \/ ServeFails \/ UncaughtSignal \/ Expire
  BY <1>4 DEF Listen, ServeFails, UncaughtSignal, Expire
<1>5. ASSUME NEW r \in Requests, Accept(r) \/ Respond(r)
      PROVE  UNCHANGED vars
  BY <1>5 DEF Accept, Respond
<1> QED
  BY <1>1, <1>2, <1>3, <1>4, <1>5 DEF AppNext

\* The program implements the scheduler (main, InitModule).
THEOREM RunsScheduler == AppSpec => Spec
<1>1. AppInit => Init
  BY DEF AppInit
<1>2. [AppNext]_allVars => [Next]_vars
  BY NextIsScheduled DEF allVars
<1> QED
  BY <1>1, <1>2, PTL DEF AppSpec, Spec

(***************************************************************************)
(* What is known of the program at each point of main.                     *)
(***************************************************************************)

Starting == {"setup", "wire"}
Serving == Starting \cup {"wait", "stop"}
Draining == {"close", "poll", "select", "end", "return"}

\* The scheduler is started once main waits, and asked to drain by main only,
\* when the context has been cancelled and its cause is known.
StartedInOrder ==
  /\ main \in Starting => ~started
  /\ main \notin Starting \cup {"gone"} => started
  /\ main \notin Serving \cup {"cause", "gone"} => cause # None
  /\ main \notin {"drain", "gone"} \cup Draining => shut["main"] = "idle"
  /\ shut["main"] # "idle" => cause # None
  /\ shut["main"] # "notStarted"
  /\ shut["main"] = "timeout" => expired

\* The first cause of the application's context is a signal or a job that failed;
\* main has read it right.
CauseIsKnown ==
  /\ parent \in {None, "signal", "fatal"}
  /\ cause # "closed"
  /\ main \notin Starting \cup {"wait", "gone"} => parent # None
  /\ main \notin Serving \cup {"cause", "gone"} => isFatal = (parent = "fatal")
  /\ main = "return" => ~isFatal
  /\ parent = "fatal" => fatal # {}
  /\ \A j \in Jobs : pc[j] \in Escalating => j \in fatal

\* The server is shut after the scheduler has answered, and the program ends
\* after the server has no request left.
EndsInOrder ==
  /\ main \in Draining => SchedulerAnswered /\ draining
  /\ main \in Draining \ {"close"} => server = "shut"
  /\ server = "shut" => started /\ draining /\ SchedulerAnswered
  /\ main \in {"end", "return"} => InFlight = {}
  /\ CleanExit
  /\ ExitTellsCause

AppInv == AppTypeOK /\ StartedInOrder /\ CauseIsKnown /\ EndsInOrder

\* What the scheduler does to the causes of its contexts and to the jobs that
\* failed; main cancels only what is cancelled already.
Moves ==
  /\ parent' = parent \/ (parent = None /\ parent' \in {"signal", "fatal"})
  /\ cause' = cause \/ (cause = None /\ cause' \in {parent, "fatal"})
  /\ parent' = "fatal" => fatal' # {}
  /\ \A j \in Jobs : pc'[j] \in Escalating => j \in fatal'

LEMMA RunnerMoves ==
  ASSUME Types, CauseIsKnown, NEW j \in Jobs, Runner(j) \/ Returns(j)
  PROVE  Moves /\ UNCHANGED <<started, shut>>
<1> USE DEF Moves, CauseIsKnown, Types, Escalating, InDo, Goto
<1>1. CASE First(j) \/ Rearm(j)
  <2>1. AskAndArm(j) /\ UNCHANGED <<started, shut, cause, parent, fatal>>
    BY <1>1 DEF First, Rearm, AskAndArm, cancelVars
  <2>2. pc' = [pc EXCEPT ![j] = "select"] \/ pc' = [pc EXCEPT ![j] = "leave"]
    BY <2>1 DEF AskAndArm
  <2> QED
    BY <2>1, <2>2
<1>2. CASE SelectDone(j) \/ Park(j) \/ SelectTimer(j) \/ Exit(j)
  BY <1>2 DEF SelectDone, Park, SelectTimer, Exit, cancelVars
<1>3. CASE FatalEnter(j) \/ FatalSkip(j) \/ HookReturns(j)
  BY <1>3 DEF FatalEnter, FatalSkip, HookReturns, cancelVars
<1>4. CASE CallHook(j)
  BY <1>4 DEF CallHook
<1>5. CASE FatalCancel(j)
  BY <1>5 DEF FatalCancel, CancelRun, Woken
<1>6. CASE Returns(j)
  BY <1>6 DEF Returns, CallReturns, AfterCall, Outcome
<1> QED
  BY <1>1, <1>2, <1>3, <1>4, <1>5, <1>6 DEF Runner

LEMMA SchedulerMoves ==
  ASSUME Types, StopInv, AppInv, AppNext
  PROVE  Moves
<1> USE DEF AppInv, CauseIsKnown, Types, Escalating, InDo
<1>1. ASSUME NEW j \in Jobs, Background(Runner(j)) \/ Background(Returns(j))
      PROVE  Moves
  BY <1>1, RunnerMoves DEF Background
<1>2. ASSUME UNCHANGED <<cause, parent, fatal, pc>>
      PROVE  Moves
  BY <1>2 DEF Moves
<1>3. ASSUME NEW j \in Jobs, Wire(j)
      PROVE  Moves
  BY <1>2, <1>3 DEF Wire, Add, runVars, cancelVars
<1>4. CASE StartScheduler
  <2>1. cause = None /\ cause' = parent /\ parent' = parent /\ fatal' = fatal
    BY <1>4 DEF StartScheduler, Start, StopInv
  <2>2. \A j \in Jobs : pc'[j] \in Escalating => j \in fatal'
    BY <1>4, <2>1 DEF StartScheduler, Start
  <2> QED
    BY <2>1, <2>2 DEF Moves
<1>5. CASE Background(PropagateCancel)
  BY <1>5 DEF Background, PropagateCancel, CancelRun, Woken, Moves
<1>6. CASE Background(Tick)
  BY <1>2, <1>6 DEF Background, Tick, runVars, cancelVars
<1>7. CASE Signal
  BY <1>7 DEF Signal, CancelParent, runVars, Moves
<1>8. CASE BeginDrain
  BY <1>2, <1>8 DEF BeginDrain, ShutdownBegin, runVars, cancelVars
<1>9. CASE Drain
  <2>1. cause # None
    BY <1>9 DEF Drain, MainAt, StartedInOrder, Serving, Starting
  <2>2. CASE ShutdownCancel("main")
    BY <2>1, <2>2 DEF ShutdownCancel, CancelRun, Woken, Moves
  <2>3. CASE ShutdownDrained("main") \/ ShutdownTimeout("main")
    BY <1>2, <2>3 DEF ShutdownDrained, ShutdownTimeout, runVars, cancelVars
  <2> QED
    BY <1>9, <2>2, <2>3 DEF Drain
<1>10. CASE UNCHANGED vars
  BY <1>2, <1>10 DEF vars, runVars, cancelVars
<1>11. SetupDb \/ Wake \/ StopSignals \/ ReadCause \/ RaiseFlag \/ CloseListener \/ Poll
         \/ PollAgain \/ DrainFails \/ CloseFails \/ ExitFatal \/ CloseDb \/ Return
       => UNCHANGED vars
  BY DEF SetupDb, Wake, StopSignals, ReadCause, RaiseFlag, CloseListener, Poll,
         PollAgain, DrainFails, CloseFails, ExitFatal, CloseDb, Return
<1>12. Listen \/ ServeFails \/ UncaughtSignal \/ Expire => UNCHANGED vars
  BY DEF Listen, ServeFails, UncaughtSignal, Expire
<1>13. \A r \in Requests : Accept(r) \/ Respond(r) => UNCHANGED vars
  BY DEF Accept, Respond
<1> QED
  BY <1>1, <1>3, <1>4, <1>5, <1>6, <1>7, <1>8, <1>9, <1>10, <1>11, <1>12, <1>13
     DEF AppNext, Main

\* What the program's own variables and main's call of Shutdown may do when main
\* does not move on.
Aside ==
  /\ UNCHANGED <<main, isFatal, draining, db>>
  /\ Drain \/ UNCHANGED <<started, shut>>
  /\ expired => expired'
  /\ server' = server \/ (server = "new" /\ server' = "listening" /\ main \notin Starting)
  /\ server = "shut" => InFlight' \subseteq InFlight
  /\ exit' = exit \/ exit' \in {"serverClosed", "killed"}

LEMMA Kinds ==
  ASSUME AppInv, AppNext
  PROVE  \/ Aside
         \/ SetupDb \/ StartScheduler \/ Wake \/ StopSignals \/ ReadCause \/ BeginDrain
         \/ RaiseFlag \/ CloseListener \/ Poll \/ PollAgain \/ DrainFails \/ CloseFails
         \/ ExitFatal \/ CloseDb \/ Return
<1> USE DEF Aside, InFlight, Starting
<1>1. Drain => Aside
  BY DEF Drain, MainAt, appVars
<1>2. ASSUME NEW j \in Jobs, Wire(j) \/ Background(Runner(j)) \/ Background(Returns(j))
      PROVE  Aside
  <2>1. CASE Wire(j)
    BY <2>1 DEF Wire, Add, appVars
  <2>2. UNCHANGED <<started, shut>> /\ ~Wire(j) => Aside
    BY <1>2 DEF Background, appVars
  <2>3. Runner(j) \/ Returns(j) => UNCHANGED <<started, shut>>
    BY DEF Runner, Returns, First, Rearm, AskAndArm, SelectDone, Park, SelectTimer,
           FatalEnter, FatalSkip, CallHook, HookReturns, FatalCancel, Exit, CallReturns
  <2> QED
    BY <1>2, <2>1, <2>2, <2>3 DEF Background
<1>3. Background(PropagateCancel) \/ Background(Tick) => Aside
  BY DEF Background, PropagateCancel, Tick, appVars
<1>4. Listen \/ Signal \/ ServeFails \/ UncaughtSignal \/ Expire => Aside
  BY DEF Listen, Signal, CancelParent, ServeFails, UncaughtSignal, Expire, appVars, vars
<1>5. ASSUME NEW r \in Requests, Accept(r) \/ Respond(r)
      PROVE  Aside
  BY <1>5 DEF Accept, Respond, AppInv, AppTypeOK, vars
<1> QED
  BY <1>1, <1>2, <1>3, <1>4, <1>5 DEF AppNext, Main

\* Every step of the program leaves what is known of its causes true.
LEMMA NextCause ==
  ASSUME AppInv, Moves, AppNext
  PROVE  CauseIsKnown'
<1>1. /\ (parent \in {None, "signal", "fatal"})'
      /\ (cause # "closed")'
      /\ (parent = "fatal" => fatal # {})'
      /\ (\A j \in Jobs : pc[j] \in Escalating => j \in fatal)'
  BY DEF AppInv, CauseIsKnown, Moves
<1>2. /\ main' \notin Starting \cup {"wait", "gone"} => parent # None
      /\ main' \notin Serving \cup {"cause", "gone"} => isFatal' = (parent = "fatal")
      /\ main' = "return" => ~isFatal'
  <2> USE DEF AppInv, CauseIsKnown, Starting, Serving, MainAt, MainGoes
  <2>1. CASE Aside
    BY <2>1 DEF Aside
  <2>2. CASE SetupDb \/ StartScheduler \/ Wake \/ StopSignals \/ ReadCause
    BY <2>2 DEF SetupDb, StartScheduler, Wake, StopSignals, ReadCause
  <2>3. CASE BeginDrain \/ RaiseFlag \/ CloseListener \/ Poll \/ PollAgain \/ DrainFails \/ CloseFails
               \/ ExitFatal \/ CloseDb \/ Return
    BY <2>3 DEF BeginDrain, RaiseFlag, CloseListener, Poll, PollAgain, DrainFails, CloseFails,
                ExitFatal, CloseDb, Return
  <2> QED
    BY <2>1, <2>2, <2>3, Kinds
<1>3. parent # None => parent' = parent
  BY DEF Moves
<1>4. (main \notin Starting \cup {"wait", "gone"} => parent # None)'
  BY <1>2, <1>3
<1>5. (main \notin Serving \cup {"cause", "gone"} => isFatal = (parent = "fatal"))'
  BY <1>2, <1>3 DEF Starting, Serving
<1> QED
  BY <1>1, <1>2, <1>4, <1>5 DEF CauseIsKnown

LEMMA NextStarted ==
  ASSUME Types, AppInv, Moves, AppNext
  PROVE  StartedInOrder'
<1> USE DEF AppInv, StartedInOrder, Moves, Starting, Serving, Draining, MainAt, MainGoes
<1>1. CASE Drain
  <2>1. /\ UNCHANGED <<main, started, expired>> /\ main = "drain"
        /\ cause # None /\ cause' = cause
    BY <1>1 DEF Drain, appVars, ShutdownCancel, ShutdownDrained, ShutdownTimeout
  <2>2. /\ shut' \in [Callers -> ShutdownState]
        /\ shut'["main"] # "notStarted"
        /\ shut'["main"] = "timeout" => expired
    BY <1>1 DEF Drain, ShutdownCancel, ShutdownDrained, ShutdownTimeout, Types,
                ShutdownState, BudgetSpent
  <2> QED
    BY <2>1, <2>2
<1>2. CASE Aside /\ shut' = shut /\ started' = started
  BY <1>2 DEF Aside
<1>3. CASE SetupDb \/ StartScheduler \/ Wake \/ StopSignals \/ ReadCause
  BY <1>3 DEF SetupDb, StartScheduler, Start, Wake, StopSignals, ReadCause, vars
<1>4. CASE BeginDrain
  BY <1>4 DEF BeginDrain, ShutdownBegin, Types
<1>5. CASE RaiseFlag \/ CloseListener \/ Poll \/ PollAgain \/ DrainFails \/ CloseFails
               \/ ExitFatal \/ CloseDb \/ Return
  BY <1>5 DEF RaiseFlag, CloseListener, Poll, PollAgain, DrainFails, CloseFails,
              ExitFatal, CloseDb, Return, vars
<1>6. Aside => Drain \/ (Aside /\ shut' = shut /\ started' = started)
  BY DEF Aside
<1> QED
  BY <1>1, <1>2, <1>3, <1>4, <1>5, <1>6, Kinds

\* The parts of EndsInOrder that are about how the process ended.
LEMMA NextExit ==
  ASSUME AppInv, Moves, AppNext
  PROVE  CleanExit' /\ ExitTellsCause'
<1> USE DEF AppInv, EndsInOrder, CleanExit, ExitTellsCause, MainAt, MainGoes, Running
<1>0. request' = request => InFlight' = InFlight
  BY DEF InFlight
<1>1. CASE Aside
  BY <1>1, SchedulerAssumption DEF Aside, Moves
<1>2. CASE SetupDb \/ StartScheduler \/ Wake \/ StopSignals \/ ReadCause \/ BeginDrain
             \/ RaiseFlag \/ CloseListener \/ Poll \/ PollAgain \/ DrainFails \/ CloseFails \/ CloseDb
  <2>1. exit' \notin {"ok", "fatalTask"}
    BY <1>2 DEF SetupDb, StartScheduler, Wake, StopSignals, ReadCause, BeginDrain,
                RaiseFlag, CloseListener, Poll, PollAgain, DrainFails, CloseFails, CloseDb
  <2> QED
    BY <2>1
<1>3. CASE ExitFatal
  <2>1. UNCHANGED <<server, parent, fatal, request>> /\ main = "end" /\ exit' = "fatalTask"
    BY <1>3 DEF ExitFatal, vars, cancelVars
  <2>2. parent = "fatal"
    BY <1>3 DEF ExitFatal, CauseIsKnown, Serving, Starting
  <2> QED
    BY <1>0, <2>1, <2>2 DEF CauseIsKnown, Draining
<1>4. CASE Return
  <2>1. UNCHANGED <<server, parent, request>> /\ main = "return" /\ exit' = "ok"
    BY <1>4 DEF Return, vars, cancelVars
  <2>2. parent = "signal"
    BY <2>1 DEF CauseIsKnown, Serving, Starting
  <2> QED
    BY <1>0, <2>1, <2>2 DEF Draining
<1> QED
  BY <1>1, <1>2, <1>3, <1>4, Kinds

LEMMA NextEnds ==
  ASSUME Types, AppInv, Moves, AppNext
  PROVE  EndsInOrder'
<1> USE DEF AppInv, EndsInOrder, StartedInOrder, SchedulerAnswered, MainAt, MainGoes,
            Starting, Serving, Draining
<1>0. request' = request => InFlight' = InFlight
  BY DEF InFlight
<1>1. CASE Drain
  <2>1. server # "shut" /\ main = "drain" /\ UNCHANGED <<main, server>>
    BY <1>1 DEF Drain, appVars, ShutdownCancel, ShutdownDrained, ShutdownTimeout
  <2> QED
    BY <2>1, NextExit
<1>2. CASE Aside /\ shut' = shut /\ started' = started
  BY <1>2, NextExit DEF Aside
<1>3. CASE SetupDb \/ StartScheduler \/ Wake \/ StopSignals \/ ReadCause \/ BeginDrain
  <2>1. server' = server /\ server # "shut" /\ main' \notin Draining
    BY <1>3 DEF SetupDb, StartScheduler, Wake, StopSignals, ReadCause, BeginDrain
  <2> QED
    BY <2>1, NextExit
<1>4. CASE RaiseFlag \/ CloseListener \/ Poll \/ PollAgain
  BY <1>0, <1>4, NextExit DEF RaiseFlag, CloseListener, Poll, PollAgain, Idle, vars
<1>5. CASE DrainFails \/ CloseFails \/ ExitFatal \/ CloseDb \/ Return
  BY <1>0, <1>5, NextExit DEF DrainFails, CloseFails, ExitFatal, CloseDb, Return, vars
<1>6. Aside => Drain \/ (Aside /\ shut' = shut /\ started' = started)
  BY DEF Aside
<1> QED
  BY <1>1, <1>2, <1>3, <1>4, <1>5, <1>6, Kinds

LEMMA NextAppType ==
  ASSUME AppInv, AppNext
  PROVE  AppTypeOK'
<1> USE DEF AppInv, AppTypeOK, MainState, ExitState, MainAt, MainGoes
<1>1. ASSUME NEW r \in Requests, Accept(r) \/ Respond(r)
      PROVE  AppTypeOK'
  <2>1. request' \in [Requests -> {"none", "inFlight", "answered"}]
    BY <1>1 DEF Accept, Respond
  <2>2. UNCHANGED <<main, isFatal, server, draining, expired, db, exit>>
    BY <1>1 DEF Accept, Respond
  <2> QED
    BY <2>1, <2>2
<1>2. CASE Listen \/ ServeFails \/ UncaughtSignal \/ Expire
  BY <1>2 DEF Listen, ServeFails, UncaughtSignal, Expire
<1>3. CASE UNCHANGED appVars
  BY <1>3 DEF appVars
<1>4. CASE SetupDb
  BY <1>4 DEF SetupDb, Opened
<1>5. CASE StartScheduler \/ Wake \/ StopSignals \/ ReadCause \/ BeginDrain \/ RaiseFlag
  BY <1>5 DEF StartScheduler, Wake, StopSignals, ReadCause, BeginDrain, RaiseFlag
<1>6. CASE CloseListener \/ Poll \/ PollAgain \/ DrainFails \/ CloseFails \/ ExitFatal \/ CloseDb \/ Return
  BY <1>6 DEF CloseListener, Poll, PollAgain, DrainFails, CloseFails, ExitFatal, CloseDb, Return
<1>7. Drain \/ Signal \/ Background(PropagateCancel) \/ Background(Tick) => UNCHANGED appVars
  BY DEF Drain, Signal, Background
<1>8. \A j \in Jobs : Wire(j) \/ Background(Runner(j)) \/ Background(Returns(j))
                        => UNCHANGED appVars
  BY DEF Wire, Background
<1> QED
  BY <1>1, <1>2, <1>3, <1>4, <1>5, <1>6, <1>7, <1>8 DEF AppNext, Main

(***************************************************************************)
(* The program.                                                            *)
(***************************************************************************)

LEMMA InitApp == AppInit => AppInv
<1> SUFFICES ASSUME AppInit
             PROVE  AppInv
  OBVIOUS
<1>1. AppTypeOK
  BY DEF AppInit, AppTypeOK, MainState, ExitState
<1>2. StartedInOrder
  BY DEF AppInit, Init, StartedInOrder, Starting, Serving, Draining
<1>3. CauseIsKnown
  BY SchedulerAssumption DEF AppInit, Init, CauseIsKnown, Starting, Serving, Escalating, InDo
<1>4. EndsInOrder
  BY DEF AppInit, EndsInOrder, Draining, CleanExit, ExitTellsCause
<1> QED
  BY <1>1, <1>2, <1>3, <1>4 DEF AppInv

LEMMA NextApp == Types /\ StopInv /\ AppInv /\ [AppNext]_allVars => AppInv'
<1>1. ASSUME Types, StopInv, AppInv, AppNext
      PROVE  AppInv'
  BY <1>1, SchedulerMoves, NextCause, NextStarted, NextEnds, NextAppType DEF AppInv
<1>2. ASSUME AppInv, UNCHANGED allVars
      PROVE  AppInv'
  <2> USE <1>2 DEF AppInv, allVars, appVars, vars, runVars, cancelVars
  <2>1. AppTypeOK'
    BY DEF AppTypeOK
  <2>2. StartedInOrder'
    BY DEF StartedInOrder
  <2>3. CauseIsKnown'
    BY DEF CauseIsKnown
  <2>4. EndsInOrder'
    BY DEF EndsInOrder, SchedulerAnswered, InFlight, CleanExit, ExitTellsCause
  <2> QED
    BY <2>1, <2>2, <2>3, <2>4
<1> QED
  BY <1>1, <1>2

LEMMA SpecApp == AppSpec => []AppInv
<1>1. AppSpec => [](Types /\ StopInv)
  BY RunsScheduler, SpecTypes, SpecStop, PTL
<1> QED
  BY <1>1, InitApp, NextApp, PTL DEF AppSpec

\* Main's variables have their types in every reachable state, and between
\* setupDb and the deferred Close the database is open (main).
THEOREM AppTypes == AppSpec => []AppTypeOK
  BY SpecApp, PTL DEF AppInv

\* Whatever the order of signals, failures and the deadline, the process reports
\* code 0 or 5 only with its listener closed and every request answered (main).
THEOREM OrderlyEndIsClean == AppSpec => []CleanExit
  BY SpecApp, PTL DEF AppInv, EndsInOrder

\* Code 5 means that a fatal job began the shutdown and 0 that a signal did, also
\* when both come: main reads the cause once and it never changes (main).
THEOREM ExitCodeIsTheCause == AppSpec => []ExitTellsCause
  BY SpecApp, PTL DEF AppInv, EndsInOrder

\* The jobs are stopped before the listener is closed, unless their budget is
\* spent (main, shutdownServer).
THEOREM JobsStopFirst == AppSpec => []JobsBeforeHttp
<1>1. StopInv /\ AppInv => JobsBeforeHttp
  BY DEF StopInv, AppInv, StartedInOrder, EndsInOrder, SchedulerAnswered, JobsBeforeHttp
<1> QED
  BY <1>1, RunsScheduler, SpecStop, SpecApp, PTL

\* Main closes the database only when no request uses it, and no job if Shutdown
\* said that they are drained (main).
THEOREM DbClosesLast == AppSpec => []DbOutlivesUsers
<1>1. StopInv /\ AppInv => DbOutlivesUsers
  BY DEF StopInv, AppInv, EndsInOrder, DbOutlivesUsers
<1> QED
  BY <1>1, RunsScheduler, SpecStop, SpecApp, PTL

\* Of this program's contexts ErrSchedulerClosed is never the cause: main calls
\* Shutdown only after appCtx is cancelled, which cancels the scheduler's (main).
THEOREM NeverToldClosed == AppSpec => [](cause # "closed")
  BY SpecApp, PTL DEF AppInv, CauseIsKnown

\* The program keeps the promise of the scheduler's documentation (Supervision).
THEOREM AppKeepsPromise == AppSpec => KeepsPromise
  BY RunsScheduler, PromiseTheorem, PTL
=============================================================================
