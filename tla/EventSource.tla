------------------------------ MODULE EventSource -----------------------------
(***************************************************************************)
(* FileEventSource: a thread waits with inotify for event.conf to be       *)
(* written, reads its first line and hands it to the callback, until       *)
(* ConfigManager stops it through an eventfd.  Somebody else writes the    *)
(* file, in place or by putting another file in its place.                 *)
(*                                                                         *)
(* Messages are numbered in the order they are written.  inotify merges an *)
(* event with an equal one that has not been read, so that one flag stands *)
(* for its queue.                                                          *)
(***************************************************************************)
EXTENDS Integers

CONSTANTS
  MaxMessages,  \* bound: messages written
  MaxErrors     \* bound: interrupted calls of poll

ASSUME EventAssumption == MaxMessages \in Nat /\ MaxErrors \in Nat

VARIABLES
  path,       \* the file at m_filePath: 1, 2, or 0 when there is none
  content,    \* file -> its first line: [msg, whole], msg 0 when it is empty
  writer,     \* where the writer is
  sent,       \* messages it has begun to write
  pending,    \* the inotify descriptor is readable
  watched,    \* the watch, on file 1, is in place
  noticed,    \* history: the last message whose arrival inotify reports
  isRunning,  \* m_isRunning
  eventfd,    \* the eventfd is readable
  thread,     \* where the listener thread is in run()
  opened,     \* the file the thread has open, 0 for none
  line,       \* what it has read
  applied,    \* history: what the callback got last
  errors,     \* interrupted calls so far
  main        \* where ConfigManager is with this event source

fileVars == <<path, content, writer, sent, noticed>>
threadVars == <<thread, opened, line, applied, errors>>
mainVars == <<isRunning, eventfd, main>>
vars == <<fileVars, pending, watched, threadVars, mainVars>>

Empty == [msg |-> 0, whole |-> TRUE]
Whole(n) == [msg |-> n, whole |-> TRUE]
Lines == [msg : 0 .. MaxMessages, whole : BOOLEAN]
Threads == {"none", "loop", "poll", "read", "open", "getline", "callback", "exited"}

TypeOK ==
  /\ path \in 0 .. 2 /\ content \in [1 .. 2 -> Lines]
  /\ writer \in {"closed", "truncated", "half", "written"}
  /\ sent \in 0 .. MaxMessages /\ noticed \in 0 .. sent
  /\ pending \in BOOLEAN /\ watched \in BOOLEAN
  /\ isRunning \in BOOLEAN /\ eventfd \in BOOLEAN
  /\ thread \in Threads /\ opened \in 0 .. 2
  /\ line \in Lines /\ applied \in Lines
  /\ opened # 0 <=> thread \in {"getline", "callback"}
  /\ errors \in 0 .. MaxErrors
  /\ main \in {"start", "spawn", "running", "notify", "join", "close", "done"}

\* event.conf may be missing.
Init ==
  /\ path \in {0, 1} /\ content = [f \in 1 .. 2 |-> Empty]
  /\ writer = "closed" /\ sent = 0 /\ noticed = 0
  /\ pending = FALSE /\ watched = FALSE
  /\ isRunning = FALSE /\ eventfd = FALSE
  /\ thread = "none" /\ opened = 0 /\ line = Empty /\ applied = Empty
  /\ errors = 0 /\ main = "start"

-----------------------------------------------------------------------------
(* The listener thread: run(). *)

Loop ==
  /\ thread = "loop"
  /\ thread' = IF isRunning THEN "poll" ELSE "exited"
  /\ UNCHANGED <<fileVars, pending, watched, opened, line, applied, errors, mainVars>>

\* poll returns when either descriptor is readable; the eventfd comes first.
Poll ==
  /\ thread = "poll" /\ (pending \/ eventfd)
  /\ thread' = IF eventfd THEN "exited" ELSE "read"
  /\ UNCHANGED <<fileVars, pending, watched, opened, line, applied, errors, mainVars>>

PollFails ==
  /\ thread = "poll" /\ errors < MaxErrors
  /\ errors' = errors + 1
  /\ thread' = "loop"
  /\ UNCHANGED <<fileVars, pending, watched, opened, line, applied, mainVars>>

\* read: all events at once.  It cannot fail: poll has found the descriptor
\* readable and nobody else reads it.
Read ==
  /\ thread = "read"
  /\ pending' = FALSE
  /\ thread' = "open"
  /\ UNCHANGED <<fileVars, watched, opened, line, applied, errors, mainVars>>

Open ==
  /\ thread = "open"
  /\ opened' = path
  /\ thread' = IF path = 0 THEN "loop" ELSE "getline"
  /\ UNCHANGED <<fileVars, pending, watched, line, applied, errors, mainVars>>

\* Mutant: the file stays open when it has no line.
GetLineLeaks ==
  /\ thread = "getline"
  /\ IF content[opened].msg = 0
     THEN thread' = "loop" /\ UNCHANGED <<line, opened>>
     ELSE thread' = "callback" /\ line' = content[opened] /\ UNCHANGED opened
  /\ UNCHANGED <<fileVars, pending, watched, applied, errors, mainVars>>

\* An empty file, or one that the writer has just truncated, is ignored.
GetLine ==
  /\ thread = "getline"
  /\ IF content[opened].msg = 0
     THEN thread' = "loop" /\ opened' = 0 /\ UNCHANGED line
     ELSE thread' = "callback" /\ line' = content[opened] /\ UNCHANGED opened
  /\ UNCHANGED <<fileVars, pending, watched, applied, errors, mainVars>>

\* Mutant: the events are read after the file, so one that has come in
\* between is lost.
CallbackThenRead ==
  /\ thread = "callback"
  /\ applied' = line /\ opened' = 0
  /\ pending' = FALSE
  /\ thread' = "loop"
  /\ UNCHANGED <<fileVars, watched, line, errors, mainVars>>

\* m_callback, whose exceptions are caught; then the file is closed.
Callback ==
  /\ thread = "callback"
  /\ applied' = line /\ opened' = 0
  /\ thread' = "loop"
  /\ UNCHANGED <<fileVars, pending, watched, line, errors, mainVars>>

run == Loop \/ Poll \/ PollFails \/ Read \/ Open \/ GetLine \/ Callback

-----------------------------------------------------------------------------
(* start(), and ConfigManager::stopEventListener. *)

\* start: inotify or the eventfd may not be available, and a missing file
\* cannot be watched.
Start ==
  /\ main = "start"
  /\ \/ main' = "done" /\ UNCHANGED <<watched, isRunning>>
     \/ path = 1 /\ main' = "spawn" /\ watched' = TRUE /\ isRunning' = TRUE
  /\ UNCHANGED <<fileVars, pending, threadVars, eventfd>>

\* std::thread; Lifecycle has what happens when it throws.
Spawn ==
  /\ main = "spawn"
  /\ thread' = "loop" /\ main' = "running"
  /\ UNCHANGED <<fileVars, pending, watched, opened, line, applied, errors, isRunning, eventfd>>

\* stop(), called by stopEventListener after a signal.
Stop ==
  /\ main = "running"
  /\ isRunning' = FALSE /\ main' = "notify"
  /\ UNCHANGED <<fileVars, pending, watched, threadVars, eventfd>>

\* Mutant: nothing wakes the thread.
NotifyNobody ==
  /\ main = "notify"
  /\ main' = "join"
  /\ UNCHANGED <<fileVars, pending, watched, threadVars, isRunning, eventfd>>

Notify ==
  /\ main = "notify"
  /\ eventfd' = TRUE /\ main' = "join"
  /\ UNCHANGED <<fileVars, pending, watched, threadVars, isRunning>>

Join ==
  /\ main = "join" /\ thread = "exited"
  /\ main' = "close"
  /\ UNCHANGED <<fileVars, pending, watched, threadVars, isRunning, eventfd>>

\* m_eventSource.reset(): the destructor closes the descriptors.
Close ==
  /\ main = "close"
  /\ watched' = FALSE /\ pending' = FALSE /\ eventfd' = FALSE /\ main' = "done"
  /\ UNCHANGED <<fileVars, threadVars, isRunning>>

stopEventListener == Stop \/ Notify \/ Join \/ Close

-----------------------------------------------------------------------------
(* The writer of the file, and inotify. *)

\* Open for writing: the file is created or truncated.  The file that Start
\* finds is called 1.
Truncate ==
  /\ writer = "closed" /\ sent < MaxMessages
  /\ writer' = "truncated" /\ sent' = sent + 1
  /\ path' = IF path # 0 THEN path ELSE IF main = "start" THEN 1 ELSE 2
  /\ content' = [content EXCEPT ![path'] = Empty]
  /\ UNCHANGED <<noticed, pending, watched, threadVars, mainVars>>

\* The line is written at once or in two pieces.
Write ==
  /\ \/ writer = "truncated" /\ writer' = "half"
     \/ writer \in {"truncated", "half"} /\ writer' = "written"
  /\ content' = [content EXCEPT ![path] = [msg |-> sent, whole |-> writer' = "written"]]
  /\ UNCHANGED <<path, sent, noticed, pending, watched, threadVars, mainVars>>

\* IN_CLOSE_WRITE.
CloseWrite ==
  /\ writer = "written"
  /\ writer' = "closed"
  /\ IF path = 1 /\ watched THEN pending' = TRUE /\ noticed' = sent
                            ELSE UNCHANGED <<pending, noticed>>
  /\ UNCHANGED <<path, content, sent, watched, threadVars, mainVars>>

\* Another file with the next message is renamed to event.conf.
Rename ==
  /\ writer = "closed" /\ sent < MaxMessages /\ path = 1 /\ main # "start"
  /\ path' = 2 /\ sent' = sent + 1
  /\ content' = [content EXCEPT ![2] = Whole(sent + 1)]
  /\ noticed' = IF watched THEN sent + 1 ELSE noticed
  /\ UNCHANGED <<writer, pending, watched, threadVars, mainVars>>

Unlink ==
  /\ writer = "closed" /\ path = 1 /\ main # "start"
  /\ path' = 0
  /\ UNCHANGED <<content, writer, sent, noticed, pending, watched, threadVars, mainVars>>

\* IN_IGNORED: the watched file is gone once nobody has it open any more.
Ignored ==
  /\ watched /\ path # 1 /\ opened # 1
  /\ watched' = FALSE /\ pending' = TRUE
  /\ UNCHANGED <<fileVars, threadVars, mainVars>>

Finished == main = "done" /\ UNCHANGED vars

Next == run \/ Start \/ Spawn \/ stopEventListener
        \/ Truncate \/ Write \/ CloseWrite \/ Rename \/ Unlink \/ Ignored \/ Finished

\* Threads are scheduled, a begun shutdown goes on and the kernel delivers
\* its events.  The writer may stop at any point, and nobody need stop us.
Fairness == /\ WF_vars(run) /\ WF_vars(Ignored)
            /\ WF_vars(Spawn) /\ WF_vars(Notify \/ Join \/ Close)

Spec == Init /\ [][Next]_vars /\ Fairness

-----------------------------------------------------------------------------
(* Properties. *)

\* stop() returns, wherever the thread was when it was called.
StopTerminates == main = "notify" ~> main = "done"

\* While the last message has been reported and not applied, a report is
\* waiting or the thread is on its way to read that very message: neither
\* merged reports nor a reading that met a truncated or half-written file loses
\* it.  The file that replaces the watched one counts.
NoLostWakeup ==
  isRunning /\ noticed = sent /\ sent # 0 /\ writer = "closed" /\ path # 0
  /\ applied # Whole(sent) =>
    \/ pending \/ (watched /\ path # 1)
    \/ thread \in {"read", "open"}
    \/ thread = "getline" /\ opened = path
    \/ thread = "callback" /\ line = Whole(sent)
=============================================================================
