------------------------------- MODULE Lifecycle -------------------------------
(***************************************************************************)
(* main(): what the daemon acquires in which order, what may fail on the   *)
(* way, and how return, exception and signal give everything back.  The    *)
(* listener thread and the access-log thread appear only as users of what  *)
(* main owns; EventSource and AccessLog say what they do with it.          *)
(*                                                                         *)
(* Descriptors are numbers that the kernel gives out again, the lowest     *)
(* first, after they have been closed.                                     *)
(***************************************************************************)
EXTENDS Integers, FiniteSetsExt

CONSTANT MaxFd  \* bound: the highest descriptor number

ASSUME FdAssumption == MaxFd \in Nat /\ MaxFd >= 3

VARIABLES
  main,      \* where main() is, destructors at its end included
  failed,    \* history: the step whose failure ends the program with 1
  running,   \* the flag that signal_handler clears
  alive,     \* objects that exist
  listener, m_isRunning, m_inotifyFd, m_eventFd,  \* of FileEventSource
  worker, exiting, epoll_fd,  \* of AccessLogWriter, the last in its ring_buffer
  fds        \* descriptor number -> what it stands for

sourceVars == <<listener, m_isRunning, m_inotifyFd, m_eventFd>>
logVars == <<worker, exiting, epoll_fd>>
vars == <<main, failed, running, alive, sourceVars, logVars, fds>>

\* The skeleton owns the maps and their descriptors: as a local of main, or
\* as part of MapFdManager, which is static.
Objects == {"skel", "MapFdManager", "link", "configTypes", "m_eventSource",
            "thread_pool", "accessWriter"}

Startup == {"getInterface", "load", "attach", "initialize", "loadAllConfigs",
            "inotify", "watch", "eventfd", "thread", "reset", "init_thread_pool",
            "startLogListener"}
Ending == {"stopLogListener", "joinWorker", "stopEventListener", "joinListener",
           "~FileEventSource", "spdlog::shutdown", "~AccessLogWriter", "~link", "~skel",
           "~ConfigManager", "~configTypes", "statics", "exited"}

TypeOK ==
  /\ main \in Startup \cup {"loop"} \cup Ending
  /\ failed \in Startup \cup {"nothing"}
  /\ alive \subseteq Objects
  /\ {running, m_isRunning, exiting} \subseteq BOOLEAN
  /\ {m_inotifyFd, m_eventFd, epoll_fd} \subseteq -1 .. MaxFd
  /\ listener \in {"none", "run", "exited", "joined"}
  /\ listener = "run" => -1 \notin {m_inotifyFd, m_eventFd}
  /\ worker \in {"none", "getLogger", "new", "poll", "free", "exited", "joined"}
  /\ worker \in {"poll", "free"} => epoll_fd # -1
  /\ fds \in [0 .. MaxFd -> {"closed", "inotify", "eventfd", "log", "epoll"}]

Init ==
  /\ main = "getInterface" /\ failed = "nothing" /\ running = TRUE /\ alive = {}
  /\ listener = "none" /\ m_isRunning = FALSE /\ m_inotifyFd = -1 /\ m_eventFd = -1
  /\ worker = "none" /\ exiting = FALSE /\ epoll_fd = -1
  /\ fds = [n \in 0 .. MaxFd |-> "closed"]

-----------------------------------------------------------------------------
(* Descriptors. *)

\* The number the next descriptor gets.
Lowest == Min({n \in 0 .. MaxFd : fds[n] = "closed"})

Open(what) == fds' = [fds EXCEPT ![Lowest] = what]

\* close(n) for every n of a set; a number that is not open is only an error.
Close(ns) == fds' = [n \in 0 .. MaxFd |-> IF n \in ns THEN "closed" ELSE fds[n]]

-----------------------------------------------------------------------------
(* main, from its first line to the loop. *)

\* A step of main that creates and destroys objects and cannot fail.
Step(at, new, old, next) ==
  /\ main = at /\ main' = next
  /\ alive' = (alive \ old) \cup new
  /\ UNCHANGED <<failed, running, sourceVars, logVars, fds>>

\* return 1, or an exception that main catches: in either case the locals are
\* destroyed.
Leave == main' = "~AccessLogWriter" /\ failed' = main

Fail(at) == main = at /\ Leave /\ UNCHANGED <<running, alive, sourceVars, logVars, fds>>

getInterface == Step("getInterface", {}, {}, "load") \/ Fail("getInterface")
load_ebpf_program == Step("load", {"skel"}, {}, "attach") \/ Fail("load")
attach_ebpf_interface == Step("attach", {"link"}, {}, "initialize") \/ Fail("attach")

\* MapFdManager::initialize(std::move(skel)).
initialize == Step("initialize", {"MapFdManager"}, {"skel"}, "loadAllConfigs")

\* Mutant: the log listener is started before the event listener.
loadAllConfigsThenLog ==
  /\ main = "loadAllConfigs" /\ main' = "inotify"
  /\ alive' = alive \cup {"configTypes", "thread_pool", "accessWriter"}
  /\ worker' = "getLogger"
  /\ UNCHANGED <<failed, running, sourceVars, exiting, epoll_fd, fds>>

\* A type that cannot be loaded is kept all the same.
loadAllConfigs == Step("loadAllConfigs", {"configTypes"}, {}, "inotify")

\* startEventListener creates the event source and calls its start().
Inotify ==
  /\ main = "inotify"
  /\ alive' = alive \cup {"m_eventSource"}
  /\ \/ m_inotifyFd' = Lowest /\ Open("inotify") /\ main' = "watch"
     \/ main' = "reset" /\ UNCHANGED <<m_inotifyFd, fds>>
  /\ UNCHANGED <<failed, running, listener, m_isRunning, m_eventFd, logVars>>

Watch ==
  /\ main = "watch"
  /\ \/ main' = "eventfd" /\ UNCHANGED <<m_inotifyFd, fds>>
     \/ Close({m_inotifyFd}) /\ m_inotifyFd' = -1 /\ main' = "reset"
  /\ UNCHANGED <<failed, running, alive, listener, m_isRunning, m_eventFd, logVars>>

\* Mutant: the result of eventfd is not checked.
EventFdUnchecked ==
  /\ main = "eventfd" /\ main' = "thread"
  /\ \/ m_eventFd' = Lowest /\ Open("eventfd")
     \/ m_eventFd' = -1 /\ UNCHANGED fds
  /\ UNCHANGED <<failed, running, alive, listener, m_isRunning, m_inotifyFd, logVars>>

\* On failure m_inotifyFd keeps the number that has been closed.
EventFd ==
  /\ main = "eventfd"
  /\ \/ m_eventFd' = Lowest /\ Open("eventfd") /\ main' = "thread"
     \/ Close({m_inotifyFd}) /\ main' = "reset" /\ UNCHANGED m_eventFd
  /\ UNCHANGED <<failed, running, alive, listener, m_isRunning, m_inotifyFd, logVars>>

\* std::thread may throw, past start() and startEventListener().
Thread ==
  /\ main = "thread"
  /\ m_isRunning' = TRUE
  /\ \/ listener' = "run" /\ main' = "init_thread_pool" /\ UNCHANGED failed
     \/ Leave /\ UNCHANGED listener
  /\ UNCHANGED <<running, alive, m_inotifyFd, m_eventFd, logVars, fds>>

\* Mutant: the eventfd stays open.
DestroySourceLeaks ==
  /\ alive' = alive \ {"m_eventSource"}
  /\ m_inotifyFd' = -1 /\ m_eventFd' = -1
  /\ Close({m_inotifyFd})
  /\ UNCHANGED <<failed, running, listener, m_isRunning, logVars>>

\* ~FileEventSource, with stop() already done or nothing to stop.
DestroySource ==
  /\ alive' = alive \ {"m_eventSource"}
  /\ m_inotifyFd' = -1 /\ m_eventFd' = -1
  /\ Close({m_inotifyFd, m_eventFd})
  /\ UNCHANGED <<failed, running, listener, m_isRunning, logVars>>

\* start() has returned false.
Reset == main = "reset" /\ main' = "init_thread_pool" /\ DestroySource

init_thread_pool ==
  \/ Step("init_thread_pool", {"thread_pool"}, {}, "startLogListener")
  \/ Fail("init_thread_pool")

\* Mutant: nobody catches what startLogListener throws.
startLogListenerThrows ==
  /\ main = "startLogListener"
  /\ alive' = alive \cup {"accessWriter"}
  /\ \/ worker' = "getLogger" /\ main' = "loop" /\ UNCHANGED failed
     \/ Leave /\ UNCHANGED worker
  /\ UNCHANGED <<running, sourceVars, exiting, epoll_fd, fds>>

\* Without the ring's descriptor, or without a thread, the filter runs
\* without its log.
startLogListener ==
  /\ main = "startLogListener" /\ main' = "loop"
  /\ alive' = alive \cup {"accessWriter"}
  /\ worker' \in {"none", "getLogger"}
  /\ UNCHANGED <<failed, running, sourceVars, exiting, epoll_fd, fds>>

Start ==
  \/ getInterface \/ load_ebpf_program \/ attach_ebpf_interface \/ initialize
  \/ loadAllConfigs \/ Inotify \/ Watch \/ EventFd \/ Thread \/ Reset
  \/ init_thread_pool \/ startLogListener

-----------------------------------------------------------------------------
(* main, from the loop to the end of the process. *)

\* SIGINT or SIGTERM, at any time.
signal_handler ==
  /\ main # "exited" /\ running
  /\ running' = FALSE
  /\ UNCHANGED <<main, failed, alive, sourceVars, logVars, fds>>

Loop == ~running /\ Step("loop", {}, {}, "stopLogListener")

stopLogListener ==
  /\ main = "stopLogListener" /\ main' = "joinWorker"
  /\ exiting' = TRUE
  /\ UNCHANGED <<failed, running, alive, sourceVars, worker, epoll_fd, fds>>

\* if (joinable()) join().
Joined(thread) == IF thread = "exited" THEN "joined" ELSE thread
Done(thread) == thread \in {"none", "exited", "joined"}

JoinWorker ==
  /\ main = "joinWorker" /\ main' = "stopEventListener"
  /\ Done(worker) /\ worker' = Joined(worker)
  /\ UNCHANGED <<failed, running, alive, sourceVars, exiting, epoll_fd, fds>>

\* stopEventListener is called by main, and once more by ~ConfigManager.
StopReturns ==
  main' = IF "accessWriter" \in alive THEN "spdlog::shutdown" ELSE "~configTypes"

\* Mutant: the thread is not told.
stopEventListenerSilent ==
  /\ main \in {"stopEventListener", "~ConfigManager"}
  /\ IF "m_eventSource" \in alive THEN main' = "joinListener" ELSE StopReturns
  /\ UNCHANGED <<failed, running, alive, sourceVars, logVars, fds>>

\* stop(): m_isRunning and the eventfd tell the thread.
stopEventListener ==
  /\ main \in {"stopEventListener", "~ConfigManager"}
  /\ IF "m_eventSource" \in alive THEN main' = "joinListener" ELSE StopReturns
  /\ m_isRunning' = FALSE
  /\ UNCHANGED <<failed, running, alive, listener, m_inotifyFd, m_eventFd, logVars, fds>>

JoinListener ==
  /\ main = "joinListener" /\ main' = "~FileEventSource"
  /\ Done(listener) /\ listener' = Joined(listener)
  /\ UNCHANGED <<failed, running, alive, m_isRunning, m_inotifyFd, m_eventFd, logVars, fds>>

ResetSource == main = "~FileEventSource" /\ DestroySource /\ StopReturns

shutdown == Step("spdlog::shutdown", {}, {"thread_pool"}, "~AccessLogWriter")

\* The locals, last one first.  ~AccessLogWriter stops its thread again.
DestroyWriter ==
  /\ main = "~AccessLogWriter" /\ main' = "~link"
  /\ alive' = alive \ {"accessWriter"}
  /\ exiting' = TRUE /\ Done(worker) /\ worker' = Joined(worker)
  /\ UNCHANGED <<failed, running, sourceVars, epoll_fd, fds>>

DestroyLink == Step("~link", {}, {"link"}, "~skel")
DestroySkel == Step("~skel", {}, {"skel"}, "~ConfigManager")
DestroyConfigTypes == Step("~configTypes", {}, {"configTypes"}, "statics")

\* Objects with static storage: LogManager with the logger's file, the spdlog
\* registry with the pool, MapFdManager with the skeleton.
DestroyStatics ==
  /\ main = "statics" /\ main' = "exited"
  /\ Close({n \in 0 .. MaxFd : fds[n] = "log"})
  /\ alive' = alive \ {"thread_pool", "MapFdManager"}
  /\ UNCHANGED <<failed, running, sourceVars, logVars>>

End ==
  \/ Loop \/ stopLogListener \/ JoinWorker \/ stopEventListener \/ JoinListener
  \/ ResetSource \/ shutdown
  \/ DestroyWriter \/ DestroyLink \/ DestroySkel \/ DestroyConfigTypes \/ DestroyStatics

-----------------------------------------------------------------------------
(* The threads. *)

\* run() returns when it is told to.
ListenerExits ==
  /\ listener = "run" /\ ~m_isRunning
  /\ listener' = "exited"
  /\ UNCHANGED <<main, failed, running, alive, m_isRunning, m_inotifyFd, m_eventFd, logVars,
                 fds>>

\* getLogger opens the file of a logger that it has not made before, or throws.
getLogger ==
  /\ worker = "getLogger"
  /\ \/ worker' = "new" /\ Open("log")
     \/ worker' = "exited" /\ UNCHANGED fds
  /\ UNCHANGED <<main, failed, running, alive, sourceVars, exiting, epoll_fd>>

ring_buffer__new ==
  /\ worker = "new"
  /\ \/ worker' = "poll" /\ epoll_fd' = Lowest /\ Open("epoll")
     \/ worker' = "exited" /\ UNCHANGED <<epoll_fd, fds>>
  /\ UNCHANGED <<main, failed, running, alive, sourceVars, exiting>>

\* Told to stop, or ring_buffer__poll has failed.
WorkerStops ==
  /\ worker = "poll"
  /\ worker' = "free"
  /\ UNCHANGED <<main, failed, running, alive, sourceVars, exiting, epoll_fd, fds>>

ring_buffer__free ==
  /\ worker = "free"
  /\ Close({epoll_fd})
  /\ worker' = "exited"
  /\ UNCHANGED <<main, failed, running, alive, sourceVars, exiting, epoll_fd>>

Finished == main = "exited" /\ UNCHANGED vars

Next ==
  \/ Start \/ End \/ signal_handler \/ Finished \/ ListenerExits
  \/ getLogger \/ ring_buffer__new \/ WorkerStops \/ ring_buffer__free

\* All threads are scheduled.  The worker need not stop unless it is told to.
Fairness ==
  /\ WF_vars(Start \/ End) /\ WF_vars(ListenerExits)
  /\ WF_vars(getLogger \/ ring_buffer__new \/ (exiting /\ WorkerStops) \/ ring_buffer__free)

Spec == Init /\ [][Next]_vars /\ Fairness

-----------------------------------------------------------------------------
(* Properties. *)

Logging == worker \in {"getLogger", "new", "poll", "free"}

\* Whatever a thread uses exists as long as it runs, on every path through
\* startup failures, exceptions and shutdown: the maps of the skeleton, the
\* config types, the event source, the pool of the logger, the writer.  Its own
\* descriptors are still what it opened: the second close of m_inotifyFd,
\* whose number start() leaves behind when eventfd() fails, hits nobody.
ResourcesAlive ==
  /\ "link" \in alive => alive \cap {"skel", "MapFdManager"} # {}
  /\ listener = "run" =>
       /\ {"MapFdManager", "configTypes", "m_eventSource"} \subseteq alive
       /\ fds[m_inotifyFd] = "inotify" /\ fds[m_eventFd] = "eventfd"
  /\ Logging => {"MapFdManager", "thread_pool", "accessWriter"} \subseteq alive
  /\ worker \in {"poll", "free"} => fds[epoll_fd] = "epoll"

\* However the process ends, every object has been destroyed (xdp_filter is
\* detached), no thread is left unjoined, which would call std::terminate, and
\* no descriptor has been forgotten.
NothingLeftBehind ==
  main = "exited" =>
    /\ alive = {} /\ {listener, worker} \subseteq {"none", "joined"}
    /\ \A n \in 0 .. MaxFd : fds[n] = "closed"

\* A signal ends the process whenever it comes: during startup, in the loop,
\* or while the worker is still being set up.
SignalEnds == ~running ~> main = "exited"

\* With the listener running, or given up because start() returned false, main
\* reaches its loop, with an access log or without: only a spdlog thread that
\* cannot be created, outside the inner try of main, keeps it from there.
FilterComesUp ==
  main \in {"reset", "init_thread_pool"} ~> main = "loop" \/ failed = "init_thread_pool"

\* "Start config event listener (handles failures gracefully)" (main): whatever
\* fails in startEventListener, main goes on after it.
ListenerFailureHandled == main = "inotify" ~> main = "init_thread_pool"
=============================================================================
