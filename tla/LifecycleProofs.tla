---------------------------- MODULE LifecycleProofs ---------------------------
(***************************************************************************)
(* What main() owns outlives the threads that use it, and is given back,   *)
(* for any number of descriptors.                                          *)
(***************************************************************************)
EXTENDS Lifecycle, TLAPS

\* Where main is when the locals have been destroyed; ~ConfigManager, too, goes
\* through joinListener, with the writer gone.
LocalsGone ==
  \/ main \in {"~skel", "~ConfigManager", "~configTypes", "statics", "exited"}
  \/ main \in {"joinListener", "~FileEventSource"} /\ "accessWriter" \notin alive

\* What exists where main is.
AliveInv ==
  /\ main \in Startup \ {"getInterface", "load", "attach", "initialize"} => "MapFdManager" \in alive
  /\ main \in {"getInterface", "load", "attach", "initialize", "loadAllConfigs", "inotify"} =>
       "m_eventSource" \notin alive
  /\ main \in Startup \ {"getInterface", "load", "attach", "initialize", "loadAllConfigs"} =>
       "configTypes" \in alive
  /\ main \in {"watch", "eventfd", "thread"} => "m_eventSource" \in alive
  /\ main \in {"attach", "initialize"} => "skel" \in alive
  /\ main = "startLogListener" => "thread_pool" \in alive
  /\ main \in {"loop", "stopLogListener", "joinWorker"} =>
       {"MapFdManager", "thread_pool", "accessWriter"} \subseteq alive
  /\ main = "stopEventListener" => "accessWriter" \in alive
  /\ main \in Startup \cup {"~link", "~skel", "~ConfigManager", "~configTypes", "statics", "exited"} =>
       "accessWriter" \notin alive
  /\ main \in {"getInterface", "load", "attach"} => "link" \notin alive
  /\ LocalsGone => "link" \notin alive /\ (main # "~skel" => "skel" \notin alive)
  /\ main \in {"~configTypes", "statics", "exited"} => "m_eventSource" \notin alive
  /\ main \in {"statics", "exited"} => "configTypes" \notin alive
  /\ main = "exited" => {"thread_pool", "MapFdManager"} \cap alive = {}
  /\ "link" \in alive => "skel" \in alive \/ "MapFdManager" \in alive

\* Which thread may run where main is, and what is kept for it.
ThreadInv ==
  /\ main \in Startup \ {"init_thread_pool", "startLogListener"} => listener = "none"
  /\ main = "~FileEventSource" => listener \in {"none", "joined"}
  /\ listener \in {"run", "exited"} =>
       {"MapFdManager", "configTypes", "m_eventSource"} \subseteq alive
  /\ main \in Startup => worker = "none"
  /\ main \in Ending \ {"stopLogListener", "joinWorker"} => worker \in {"none", "joined"}
  /\ Logging => {"MapFdManager", "thread_pool", "accessWriter"} \subseteq alive

\* Every open descriptor is held by whoever opened it, and by nobody else.
FdInv ==
  /\ \A n \in 0 .. MaxFd :
       /\ fds[n] = "inotify" => n = m_inotifyFd
       /\ fds[n] = "eventfd" => n = m_eventFd
       /\ fds[n] = "epoll" => n = epoll_fd /\ worker \in {"poll", "free"}
       /\ fds[n] = "log" => worker \notin {"none", "getLogger"}
  /\ \A n, k \in 0 .. MaxFd : fds[n] = "log" /\ fds[k] = "log" => n = k
  /\ main \in {"watch", "eventfd", "thread"} \/ listener = "run" =>
       m_inotifyFd \in 0 .. MaxFd /\ fds[m_inotifyFd] = "inotify"
  /\ main = "thread" \/ listener = "run" =>
       m_eventFd \in 0 .. MaxFd /\ fds[m_eventFd] = "eventfd"
  /\ main \in {"watch", "eventfd"} => m_eventFd = -1
  /\ "m_eventSource" \notin alive => m_inotifyFd = -1 /\ m_eventFd = -1
  /\ worker \in {"poll", "free"} => epoll_fd \in 0 .. MaxFd /\ fds[epoll_fd] = "epoll"
  /\ main = "exited" => \A n \in 0 .. MaxFd : fds[n] # "log"

\* TypeOK in two parts: the provers that know Booleans do not know numbers.
Flags == running \in BOOLEAN /\ m_isRunning \in BOOLEAN /\ exiting \in BOOLEAN

Data ==
  /\ main \in Startup \cup {"loop"} \cup Ending
  /\ failed \in Startup \cup {"nothing"}
  /\ alive \subseteq Objects
  /\ m_inotifyFd \in -1 .. MaxFd /\ m_eventFd \in -1 .. MaxFd /\ epoll_fd \in -1 .. MaxFd
  /\ listener \in {"none", "run", "exited", "joined"}
  /\ worker \in {"none", "getLogger", "new", "poll", "free", "exited", "joined"}
  /\ fds \in [0 .. MaxFd -> {"closed", "inotify", "eventfd", "log", "epoll"}]

Inv == Flags /\ Data /\ AliveInv /\ ThreadInv /\ FdInv

-----------------------------------------------------------------------------
(* Descriptors. *)

\* A number is free as long as one of the four kinds of descriptor is not open,
\* and Lowest is such a number.
LEMMA LowestIsFree ==
  ASSUME Data, FdInv,
         \E kind \in {"inotify", "eventfd", "log", "epoll"} :
           \A n \in 0 .. MaxFd : fds[n] # kind
  PROVE  Lowest \in 0 .. MaxFd /\ fds[Lowest] = "closed"
<1> DEFINE free == {n \in 0 .. MaxFd : fds[n] = "closed"}
<1> USE FdAssumption
<1>1. \A n \in 0 .. 3 : n \in 0 .. MaxFd
  OBVIOUS
<1>2. \E n \in 0 .. 3 : fds[n] = "closed"
  BY <1>1 DEF Data, FdInv
<1>3. \E n \in free : \A k \in free : n <= k
  <2>1. CASE fds[0] = "closed"
    BY <2>1, <1>1
  <2>2. CASE fds[0] # "closed" /\ fds[1] = "closed"
    BY <2>2, <1>1
  <2>3. CASE fds[0] # "closed" /\ fds[1] # "closed" /\ fds[2] = "closed"
    BY <2>3, <1>1
  <2>4. CASE fds[0] # "closed" /\ fds[1] # "closed" /\ fds[2] # "closed" /\ fds[3] = "closed"
    BY <2>4, <1>1
  <2> QED
    BY <1>2, <2>1, <2>2, <2>3, <2>4
<1>4. Min(free) \in free
  BY <1>3 DEF Min
<1> QED
  BY <1>4 DEF Lowest

\* What a descriptor stands for after Open and after Close.
LEMMA OpenFd ==
  ASSUME Data, NEW what \in {"inotify", "eventfd", "log", "epoll"}, Open(what),
         Lowest \in 0 .. MaxFd
  PROVE  /\ fds' \in [0 .. MaxFd -> {"closed", "inotify", "eventfd", "log", "epoll"}]
         /\ \A n \in 0 .. MaxFd : fds'[n] = IF n = Lowest THEN what ELSE fds[n]
  BY DEF Data, Open

LEMMA CloseFd ==
  ASSUME Data, NEW ns, Close(ns)
  PROVE  /\ fds' \in [0 .. MaxFd -> {"closed", "inotify", "eventfd", "log", "epoll"}]
         /\ \A n \in 0 .. MaxFd : fds'[n] = IF n \in ns THEN "closed" ELSE fds[n]
  BY DEF Data, Close

-----------------------------------------------------------------------------
(* The initial state. *)

LEMMA InitInv == Init => Inv
<1> SUFFICES ASSUME Init PROVE Inv
  OBVIOUS
<1>1. Flags
  BY Zenon DEF Init, Flags
<1>2. Data
  BY FdAssumption DEF Init, Data, Startup
<1>3. AliveInv
  BY Zenon DEF Init, AliveInv, LocalsGone, Startup
<1>4. ThreadInv
  BY DEF Init, ThreadInv, Startup, Ending, Logging
<1>5. FdInv
  BY DEF Init, FdInv
<1> QED
  BY <1>1, <1>2, <1>3, <1>4, <1>5 DEF Inv

-----------------------------------------------------------------------------
(* The steps. *)

LEMMA FlagsStep == Flags /\ [Next]_vars => Flags'
<1> SUFFICES ASSUME Flags, [Next]_vars PROVE Flags'
  OBVIOUS
<1> USE Zenon DEF Flags
<1>1. CASE Start
  BY <1>1 DEF Start, getInterface, load_ebpf_program, attach_ebpf_interface, initialize,
       loadAllConfigs, Inotify, Watch, EventFd, Thread, Reset, DestroySource, init_thread_pool,
       startLogListener, Step, Fail, sourceVars, logVars
<1>2. CASE End
  BY <1>2 DEF End, Loop, stopLogListener, JoinWorker, stopEventListener, JoinListener,
       ResetSource, DestroySource, shutdown, DestroyWriter, DestroyLink, DestroySkel,
       DestroyConfigTypes, DestroyStatics, Step, sourceVars, logVars
<1>3. CASE signal_handler \/ ListenerExits
  BY <1>3 DEF signal_handler, ListenerExits, sourceVars, logVars
<1>4. CASE getLogger \/ ring_buffer__new \/ WorkerStops \/ ring_buffer__free
  BY <1>4 DEF getLogger, ring_buffer__new, WorkerStops, ring_buffer__free, sourceVars
<1>5. CASE Finished \/ UNCHANGED vars
  BY <1>5 DEF Finished, vars, sourceVars, logVars
<1> QED
  BY <1>1, <1>2, <1>3, <1>4, <1>5 DEF Next

\* Before main takes a new descriptor, and before the worker does, one kind is
\* not open.
LEMMA RoomForOpen ==
  ASSUME Data, AliveInv, ThreadInv, FdInv,
         main \in {"inotify", "eventfd"} \/ worker \in {"getLogger", "new"}
  PROVE  Lowest \in 0 .. MaxFd /\ fds[Lowest] = "closed"
<1>1. \E kind \in {"inotify", "eventfd", "log", "epoll"} : \A n \in 0 .. MaxFd : fds[n] # kind
  <2>1. CASE main \in {"inotify", "eventfd"}
    <3>1. worker = "none"
      BY <2>1 DEF ThreadInv, Startup
    <3> QED
      BY <3>1 DEF FdInv
  <2>2. CASE worker = "getLogger"
    BY <2>2 DEF FdInv
  <2>3. CASE worker = "new"
    BY <2>3 DEF FdInv
  <2> QED
    BY <2>1, <2>2, <2>3
<1> QED
  BY <1>1, LowestIsFree

LEMMA DataStep == Data /\ AliveInv /\ ThreadInv /\ FdInv /\ [Next]_vars => Data'
<1> SUFFICES ASSUME Data, AliveInv, ThreadInv, FdInv, [Next]_vars PROVE Data'
  OBVIOUS
<1> DEFINE Kinds == {"closed", "inotify", "eventfd", "log", "epoll"}
<1> USE FdAssumption DEF Startup, Ending
<1>1. CASE getInterface \/ load_ebpf_program \/ attach_ebpf_interface \/ initialize
           \/ loadAllConfigs \/ init_thread_pool
  <2>1. alive' \subseteq Objects
    BY <1>1, Zenon DEF Data, Objects, getInterface, load_ebpf_program, attach_ebpf_interface,
         initialize, loadAllConfigs, init_thread_pool, Step, Fail
  <2>2. main' \in Startup \cup {"loop"} \cup Ending /\ failed' \in Startup \cup {"nothing"}
    BY <1>1 DEF Data, getInterface, load_ebpf_program, attach_ebpf_interface, initialize,
         loadAllConfigs, init_thread_pool, Step, Fail, Leave
  <2>3. UNCHANGED <<sourceVars, logVars, fds>>
    BY <1>1, Zenon DEF getInterface, load_ebpf_program, attach_ebpf_interface, initialize,
         loadAllConfigs, init_thread_pool, Step, Fail
  <2> QED
    BY <2>1, <2>2, <2>3, Zenon DEF Data, sourceVars, logVars
<1>2. CASE Inotify
  <2>1. Lowest \in 0 .. MaxFd
    BY <1>2, RoomForOpen DEF Inotify
  <2>2. fds' \in [0 .. MaxFd -> Kinds]
    BY <1>2, <2>1, OpenFd DEF Inotify, Data
  <2> QED
    BY <1>2, <2>1, <2>2 DEF Data, Objects, Inotify, logVars
<1>3. CASE Watch
  <2>1. fds' \in [0 .. MaxFd -> Kinds]
    BY <1>3, CloseFd DEF Watch, Data
  <2> QED
    BY <1>3, <2>1 DEF Data, Watch, logVars
<1>4. CASE EventFd
  <2>1. Lowest \in 0 .. MaxFd
    BY <1>4, RoomForOpen DEF EventFd
  <2>2. fds' \in [0 .. MaxFd -> Kinds]
    BY <1>4, <2>1, OpenFd, CloseFd DEF EventFd
  <2> QED
    BY <1>4, <2>1, <2>2 DEF Data, EventFd, logVars
<1>5. CASE Thread \/ startLogListener
  <2>1. CASE Thread
    BY <2>1 DEF Data, Thread, Leave, logVars
  <2>2. CASE startLogListener
    BY <2>2 DEF Data, Objects, startLogListener, sourceVars
  <2> QED
    BY <1>5, <2>1, <2>2
<1>6. CASE Reset \/ ResetSource
  <2>1. fds' \in [0 .. MaxFd -> Kinds]
    BY <1>6, CloseFd DEF Reset, ResetSource, DestroySource
  <2> QED
    BY <1>6, <2>1 DEF Data, Reset, ResetSource, DestroySource, StopReturns, logVars
<1>7. CASE Loop \/ stopLogListener \/ JoinWorker \/ stopEventListener \/ JoinListener
  BY <1>7 DEF Data, Loop, stopLogListener, JoinWorker, stopEventListener, StopReturns,
       JoinListener, Joined, Step, sourceVars, logVars
<1>8. CASE shutdown \/ DestroyWriter \/ DestroyLink \/ DestroySkel \/ DestroyConfigTypes
  BY <1>8 DEF Data, shutdown, DestroyWriter, DestroyLink, DestroySkel, DestroyConfigTypes,
       Joined, Step, sourceVars, logVars
<1>9. CASE DestroyStatics
  <2>1. fds' \in [0 .. MaxFd -> Kinds]
    BY <1>9, CloseFd DEF DestroyStatics
  <2> QED
    BY <1>9, <2>1 DEF Data, DestroyStatics, sourceVars, logVars
<1>10. CASE signal_handler \/ ListenerExits \/ WorkerStops \/ Finished \/ UNCHANGED vars
  BY <1>10 DEF Data, signal_handler, ListenerExits, WorkerStops, Finished, vars, sourceVars,
       logVars
<1>11. CASE getLogger \/ ring_buffer__new
  <2>1. Lowest \in 0 .. MaxFd
    BY <1>11, RoomForOpen DEF getLogger, ring_buffer__new
  <2>2. fds' \in [0 .. MaxFd -> Kinds]
    BY <1>11, <2>1, OpenFd DEF getLogger, ring_buffer__new, Data
  <2> QED
    BY <1>11, <2>1, <2>2 DEF Data, getLogger, ring_buffer__new, sourceVars
<1>12. CASE ring_buffer__free
  <2>1. fds' \in [0 .. MaxFd -> Kinds]
    BY <1>12, CloseFd, SMTT(30) DEF ring_buffer__free
  <2> QED
    BY <1>12, <2>1 DEF Data, ring_buffer__free, sourceVars
<1> QED
  BY <1>1, <1>2, <1>3, <1>4, <1>5, <1>6, <1>7, <1>8, <1>9, <1>10, <1>11, <1>12
     DEF Next, Start, End

LEMMA AliveStep == Data /\ AliveInv /\ ThreadInv /\ [Next]_vars => AliveInv'
<1> SUFFICES ASSUME Data, AliveInv, ThreadInv, [Next]_vars PROVE AliveInv'
  OBVIOUS
<1> USE DEF Startup, Ending, AliveInv, LocalsGone
<1>1. CASE getInterface \/ load_ebpf_program
  BY <1>1 DEF getInterface, load_ebpf_program, Step, Fail, Leave
<1>2. CASE attach_ebpf_interface
  BY <1>2 DEF attach_ebpf_interface, Step, Fail, Leave
<1>3. CASE initialize \/ loadAllConfigs
  <2>1. CASE initialize
    BY <2>1 DEF initialize, Step
  <2>2. CASE loadAllConfigs
    BY <2>2 DEF loadAllConfigs, Step
  <2> QED
    BY <1>3, <2>1, <2>2
<1>4. CASE Inotify \/ Watch \/ EventFd
  <2>1. CASE Inotify
    BY <2>1 DEF Inotify
  <2>2. CASE Watch \/ EventFd
    BY <2>2 DEF Watch, EventFd
  <2> QED
    BY <1>4, <2>1, <2>2
<1>5. CASE Thread
  BY <1>5 DEF Thread, Leave
<1>6. CASE Reset
  BY <1>6 DEF Reset, DestroySource
<1>7. CASE init_thread_pool \/ startLogListener
  BY <1>7 DEF init_thread_pool, startLogListener, Step, Fail, Leave
<1>8. CASE Loop \/ stopLogListener \/ JoinWorker
  BY <1>8 DEF Loop, stopLogListener, JoinWorker, Step
<1>9. CASE stopEventListener
  BY <1>9 DEF stopEventListener, StopReturns
<1>10. CASE JoinListener
  BY <1>10 DEF JoinListener
<1>11. CASE ResetSource
  BY <1>11 DEF ResetSource, DestroySource, StopReturns
<1>12. CASE shutdown \/ DestroyWriter \/ DestroyLink
  BY <1>12 DEF shutdown, DestroyWriter, DestroyLink, Step
<1>13. CASE DestroySkel \/ DestroyConfigTypes
  BY <1>13 DEF DestroySkel, DestroyConfigTypes, Step
<1>14. CASE DestroyStatics
  BY <1>14 DEF DestroyStatics
<1>15. CASE signal_handler \/ ListenerExits \/ getLogger \/ ring_buffer__new \/ WorkerStops
            \/ ring_buffer__free \/ Finished \/ UNCHANGED vars
  <2>1. UNCHANGED <<main, alive>>
    BY <1>15, Zenon DEF signal_handler, ListenerExits, getLogger, ring_buffer__new, WorkerStops,
         ring_buffer__free, Finished, vars
  <2> QED
    BY <2>1
<1> QED
  BY <1>1, <1>2, <1>3, <1>4, <1>5, <1>6, <1>7, <1>8, <1>9, <1>10, <1>11, <1>12, <1>13, <1>14,
     <1>15 DEF Next, Start, End

LEMMA ThreadStep == Data /\ AliveInv /\ ThreadInv /\ [Next]_vars => ThreadInv'
<1> SUFFICES ASSUME Data, AliveInv, ThreadInv, [Next]_vars PROVE ThreadInv'
  OBVIOUS
<1> USE DEF Startup, Ending, ThreadInv, Logging, Data
<1>1. CASE getInterface \/ load_ebpf_program \/ attach_ebpf_interface
  BY <1>1 DEF getInterface, load_ebpf_program, attach_ebpf_interface, Step, Fail, Leave,
       sourceVars, logVars
<1>2. CASE initialize \/ loadAllConfigs
  BY <1>2 DEF initialize, loadAllConfigs, Step, sourceVars, logVars
<1>3. CASE Inotify \/ Watch \/ EventFd
  BY <1>3 DEF Inotify, Watch, EventFd, logVars
<1>4. CASE Thread
  BY <1>4 DEF Thread, Leave, AliveInv, logVars
<1>5. CASE Reset
  BY <1>5 DEF Reset, DestroySource, logVars
<1>6. CASE init_thread_pool
  BY <1>6 DEF init_thread_pool, Step, Fail, Leave, sourceVars, logVars
<1>7. CASE startLogListener
  BY <1>7 DEF startLogListener, AliveInv, sourceVars
<1>8. CASE Loop \/ stopLogListener \/ JoinWorker
  BY <1>8 DEF Loop, stopLogListener, JoinWorker, Done, Joined, Step, sourceVars, logVars
<1>9. CASE stopEventListener
  BY <1>9 DEF stopEventListener, StopReturns, logVars
<1>10. CASE JoinListener
  BY <1>10 DEF JoinListener, Done, Joined, logVars
<1>11. CASE ResetSource
  BY <1>11 DEF ResetSource, DestroySource, StopReturns, logVars
<1>12. CASE shutdown
  BY <1>12 DEF shutdown, Step, sourceVars, logVars
<1>13. CASE DestroyWriter
  BY <1>13 DEF DestroyWriter, Done, Joined, sourceVars
<1>14. CASE DestroyLink \/ DestroySkel
  BY <1>14 DEF DestroyLink, DestroySkel, Step, sourceVars, logVars
<1>15. CASE DestroyConfigTypes
  BY <1>15 DEF DestroyConfigTypes, AliveInv, Step, sourceVars, logVars
<1>16. CASE DestroyStatics
  BY <1>16 DEF DestroyStatics, AliveInv, sourceVars, logVars
<1>17. CASE signal_handler \/ ListenerExits \/ Finished \/ UNCHANGED vars
  BY <1>17 DEF signal_handler, ListenerExits, Finished, vars, sourceVars, logVars
<1>18. CASE getLogger \/ ring_buffer__new \/ WorkerStops \/ ring_buffer__free
  BY <1>18 DEF getLogger, ring_buffer__new, WorkerStops, ring_buffer__free, sourceVars
<1> QED
  BY <1>1, <1>2, <1>3, <1>4, <1>5, <1>6, <1>7, <1>8, <1>9, <1>10, <1>11, <1>12, <1>13, <1>14,
     <1>15, <1>16, <1>17, <1>18 DEF Next, Start, End

\* Steps that leave the descriptors and their holders alone.
LEMMA FdKept ==
  ASSUME FdInv, UNCHANGED <<fds, m_inotifyFd, m_eventFd, epoll_fd, worker>>,
         listener' # "run" \/ listener = "run" \/ main = "thread",
         main' \notin {"watch", "eventfd", "thread", "exited"} \/ main' = main,
         "m_eventSource" \in alive => "m_eventSource" \in alive'
  PROVE  FdInv'
  BY DEF FdInv

LEMMA FdStep ==
  Data /\ AliveInv /\ ThreadInv /\ FdInv /\ [Next]_vars => FdInv'
<1> SUFFICES ASSUME Data, AliveInv, ThreadInv, FdInv, [Next]_vars PROVE FdInv'
  OBVIOUS
<1> USE FdAssumption
<1>1. CASE getInterface \/ load_ebpf_program \/ attach_ebpf_interface \/ initialize
           \/ loadAllConfigs \/ init_thread_pool
  BY <1>1, FdKept DEF getInterface, load_ebpf_program, attach_ebpf_interface, initialize,
       loadAllConfigs, init_thread_pool, Step, Fail, Leave, sourceVars, logVars
<1>2. CASE Inotify
  <2>1. worker = "none" /\ listener = "none" /\ m_inotifyFd = -1 /\ m_eventFd = -1
    BY <1>2 DEF Inotify, AliveInv, ThreadInv, FdInv, Startup
  <2>2. CASE main' = "watch"
    <3>1. Lowest \in 0 .. MaxFd /\ fds[Lowest] = "closed"
      BY <1>2, RoomForOpen DEF Inotify
    <3>2. \A n \in 0 .. MaxFd : fds'[n] = IF n = Lowest THEN "inotify" ELSE fds[n]
      BY <1>2, <2>2, <3>1, OpenFd DEF Inotify
    <3> QED
      BY <1>2, <2>1, <2>2, <3>1, <3>2 DEF Inotify, FdInv, Data, logVars
  <2>3. CASE main' = "reset"
    BY <1>2, <2>1, <2>3 DEF Inotify, FdInv, logVars
  <2> QED
    BY <1>2, <2>2, <2>3 DEF Inotify
<1>3. CASE Watch
  <2>1. worker = "none" /\ listener = "none"
    BY <1>3 DEF Watch, ThreadInv, Startup
  <2>2. CASE main' = "eventfd"
    BY <1>3, <2>1, <2>2 DEF Watch, FdInv, logVars
  <2>3. CASE main' = "reset"
    <3>1. \A n \in 0 .. MaxFd : fds'[n] = IF n = m_inotifyFd THEN "closed" ELSE fds[n]
      BY <1>3, <2>3, CloseFd DEF Watch
    <3> QED
      BY <1>3, <2>1, <2>3, <3>1 DEF Watch, FdInv, AliveInv, logVars
  <2> QED
    BY <1>3, <2>2, <2>3 DEF Watch
<1>4. CASE EventFd
  <2>1. worker = "none" /\ listener = "none" /\ "m_eventSource" \in alive
    BY <1>4 DEF EventFd, AliveInv, ThreadInv, Startup
  <2>2. CASE main' = "thread"
    <3>1. Lowest \in 0 .. MaxFd /\ fds[Lowest] = "closed"
      BY <1>4, RoomForOpen DEF EventFd
    <3>2. \A n \in 0 .. MaxFd : fds'[n] = IF n = Lowest THEN "eventfd" ELSE fds[n]
      BY <1>4, <2>2, <3>1, OpenFd DEF EventFd
    <3> QED
      BY <1>4, <2>1, <2>2, <3>1, <3>2 DEF EventFd, FdInv, Data, logVars
  <2>3. CASE main' = "reset"
    <3>1. \A n \in 0 .. MaxFd : fds'[n] = IF n = m_inotifyFd THEN "closed" ELSE fds[n]
      BY <1>4, <2>3, CloseFd DEF EventFd
    <3> QED
      BY <1>4, <2>1, <2>3, <3>1 DEF EventFd, FdInv, logVars
  <2> QED
    BY <1>4, <2>2, <2>3 DEF EventFd
<1>5. CASE Thread
  BY <1>5, FdKept DEF Thread, Leave, logVars
<1>6. CASE Reset \/ ResetSource
  <2>1. worker \in {"none", "joined"} /\ listener # "run"
    BY <1>6 DEF Reset, ResetSource, ThreadInv, Startup, Ending
  <2>2. \A n \in 0 .. MaxFd : fds'[n] = IF n \in {m_inotifyFd, m_eventFd} THEN "closed" ELSE fds[n]
    BY <1>6, CloseFd DEF Reset, ResetSource, DestroySource
  <2>3. main' \in {"init_thread_pool", "spdlog::shutdown", "~configTypes"}
    BY <1>6 DEF Reset, ResetSource, StopReturns
  <2> QED
    BY <1>6, <2>1, <2>2, <2>3 DEF Reset, ResetSource, DestroySource, FdInv, logVars
<1>7. CASE startLogListener
  BY <1>7 DEF startLogListener, FdInv, ThreadInv, Startup, sourceVars
<1>8. CASE Loop \/ stopLogListener \/ stopEventListener \/ JoinListener
  BY <1>8, FdKept DEF Loop, stopLogListener, stopEventListener, StopReturns, JoinListener, Done,
       Joined, Step, sourceVars, logVars
<1>9. CASE JoinWorker \/ DestroyWriter
  <2>1. (worker \in {"none", "exited", "joined"} /\ worker' \in {"none", "joined"})
        /\ (worker' = "none" <=> worker = "none")
    BY <1>9 DEF JoinWorker, DestroyWriter, Done, Joined
  <2> QED
    BY <1>9, <2>1 DEF JoinWorker, DestroyWriter, FdInv, sourceVars
<1>10. CASE shutdown \/ DestroyLink \/ DestroySkel \/ DestroyConfigTypes
  BY <1>10, FdKept DEF shutdown, DestroyLink, DestroySkel, DestroyConfigTypes, Step, sourceVars,
       logVars
<1>11. CASE DestroyStatics
  <2>1. \A n \in 0 .. MaxFd : fds'[n] = IF fds[n] = "log" THEN "closed" ELSE fds[n]
    BY <1>11, CloseFd DEF DestroyStatics
  <2> QED
    BY <1>11, <2>1 DEF DestroyStatics, FdInv, sourceVars, logVars
<1>12. CASE signal_handler \/ ListenerExits \/ Finished \/ UNCHANGED vars
  BY <1>12, FdKept DEF signal_handler, ListenerExits, Finished, vars, sourceVars, logVars
<1>13. CASE getLogger
  <2>1. CASE worker' = "new"
    <3>1. Lowest \in 0 .. MaxFd /\ fds[Lowest] = "closed"
      BY <1>13, RoomForOpen DEF getLogger
    <3>2. \A n \in 0 .. MaxFd : fds'[n] = IF n = Lowest THEN "log" ELSE fds[n]
      BY <1>13, <2>1, <3>1, OpenFd DEF getLogger
    <3>3. main # "exited"
      BY <1>13 DEF getLogger, ThreadInv, Ending
    <3> QED
      BY <1>13, <2>1, <3>1, <3>2, <3>3 DEF getLogger, FdInv, sourceVars
  <2>2. CASE worker' = "exited"
    BY <1>13, <2>2 DEF getLogger, FdInv, sourceVars
  <2> QED
    BY <1>13, <2>1, <2>2 DEF getLogger
<1>14. CASE ring_buffer__new
  <2>1. CASE worker' = "poll"
    <3>1. Lowest \in 0 .. MaxFd /\ fds[Lowest] = "closed"
      BY <1>14, RoomForOpen DEF ring_buffer__new
    <3>2. \A n \in 0 .. MaxFd : fds'[n] = IF n = Lowest THEN "epoll" ELSE fds[n]
      BY <1>14, <2>1, <3>1, OpenFd DEF ring_buffer__new
    <3> QED
      BY <1>14, <2>1, <3>1, <3>2 DEF ring_buffer__new, FdInv, sourceVars
  <2>2. CASE worker' = "exited"
    BY <1>14, <2>2 DEF ring_buffer__new, FdInv, sourceVars
  <2> QED
    BY <1>14, <2>1, <2>2 DEF ring_buffer__new
<1>15. CASE WorkerStops
  BY <1>15 DEF WorkerStops, FdInv, sourceVars
<1>16. CASE ring_buffer__free
  <2>1. \A n \in 0 .. MaxFd : fds'[n] = IF n = epoll_fd THEN "closed" ELSE fds[n]
    BY <1>16, CloseFd DEF ring_buffer__free
  <2> QED
    BY <1>16, <2>1 DEF ring_buffer__free, FdInv, sourceVars
<1> QED
  BY <1>1, <1>2, <1>3, <1>4, <1>5, <1>6, <1>7, <1>8, <1>9, <1>10, <1>11, <1>12, <1>13, <1>14,
     <1>15, <1>16 DEF Next, Start, End

LEMMA InvStep == Inv /\ [Next]_vars => Inv'
  BY FlagsStep, DataStep, AliveStep, ThreadStep, FdStep DEF Inv

-----------------------------------------------------------------------------

LEMMA InvType == Inv => TypeOK
<1> SUFFICES ASSUME Inv PROVE TypeOK
  OBVIOUS
<1>1. {running, m_isRunning, exiting} \subseteq BOOLEAN
  BY Zenon DEF Inv, Flags
<1>2. {m_inotifyFd, m_eventFd, epoll_fd} \subseteq -1 .. MaxFd
  BY DEF Inv, Data
<1>3. listener = "run" => -1 \notin {m_inotifyFd, m_eventFd}
  BY DEF Inv, FdInv
<1>4. worker \in {"poll", "free"} => epoll_fd # -1
  BY DEF Inv, FdInv
<1> QED
  BY <1>1, <1>2, <1>3, <1>4, Zenon DEF Inv, Data, TypeOK

\* main's place, the threads and the descriptors keep to their types whatever
\* fails during startup and whenever the signal comes.
THEOREM TypeCorrect == Spec => []TypeOK
  BY InitInv, InvStep, InvType, PTL DEF Spec

\* On every path through main the listener and the log thread find what they
\* use: the objects exist and their descriptors have not been closed and given
\* to somebody else.
THEOREM ResourcesCorrect == Spec => []ResourcesAlive
<1>1. Inv => ResourcesAlive
  BY DEF Inv, AliveInv, ThreadInv, FdInv, ResourcesAlive
<1> QED
  BY InitInv, InvStep, <1>1, PTL DEF Spec

\* However the process ends, its objects are destroyed, its threads joined and
\* its descriptors closed.
THEOREM NothingLeftCorrect == Spec => []NothingLeftBehind
<1>1. ASSUME Inv, main = "exited"
      PROVE  /\ alive = {} /\ {listener, worker} \subseteq {"none", "joined"}
             /\ \A n \in 0 .. MaxFd : fds[n] = "closed"
  <2>1. alive = {}
    BY <1>1 DEF Inv, Data, Objects, AliveInv, LocalsGone
  <2>2. listener \in {"none", "joined"} /\ worker \in {"none", "joined"}
    BY <1>1, <2>1 DEF Inv, Data, ThreadInv, Ending
  <2>3. \A n \in 0 .. MaxFd : fds[n] = "closed"
    BY <1>1, <2>1, <2>2 DEF Inv, Data, FdInv
  <2> QED
    BY <2>1, <2>2, <2>3
<1>2. Inv => NothingLeftBehind
  BY <1>1 DEF NothingLeftBehind
<1> QED
  BY InitInv, InvStep, <1>2, PTL DEF Spec

=============================================================================
