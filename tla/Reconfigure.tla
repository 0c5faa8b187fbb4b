----------------------------- MODULE Reconfigure ------------------------------
(***************************************************************************)
(* FileEventSource and the config types together, as ConfigManager         *)
(* connects them: main() loads the files, then starts the event source,    *)
(* whose callback is processEventMessage, and stops it at the end.  The    *)
(* messages of EventSource get their contents here.                        *)
(***************************************************************************)
EXTENDS EventSource, FilterMaps, Sequences

CONSTANTS
  Files, NoFile, Messages, WordMod,  \* as in ConfigTypes
  Written,  \* messages the writer may send
  Torn      \* message -> what it may look like while it is half written

VARIABLES
  text,  \* number of a message -> its contents
  file, fds, type, reading, rest, first_line, fd, handled  \* as in ConfigTypes

typeVars == <<configMaps, file, fds, type, reading, rest, first_line, fd, handled>>
allVars == <<vars, text, typeVars>>

Types == INSTANCE ConfigTypes

ASSUME ReconfigureAssumption ==
  /\ Types!TypesConstants
  /\ Written \subseteq Messages
  /\ \A m \in Written : Torn[m] \subseteq Messages

ReconfigureTypeOK ==
  TypeOK /\ Types!TypeOK /\ text \in [1 .. MaxMessages -> Written]

ReconfigureInit == Init /\ Types!Init /\ text \in [1 .. MaxMessages -> Written]

-----------------------------------------------------------------------------

\* What the first line of the file amounts to when it is read.
Contents(l) == IF l.whole THEN {text[l.msg]} ELSE Torn[text[l.msg]]

\* main() starts the event source when everything is loaded.
Load == Types!loadAllConfigs /\ UNCHANGED <<vars, text>>
StartEventListener == type = "events" /\ Start /\ UNCHANGED <<text, typeVars>>

\* The callback of startEventListener.
Apply ==
  /\ Callback
  /\ \E m \in Contents(line) : Types!processEventMessage(m)
  /\ UNCHANGED text

Listen ==
  /\ Loop \/ Poll \/ PollFails \/ Read \/ Open \/ GetLine
  /\ UNCHANGED <<text, typeVars>>

\* The writer and inotify, from before the files are loaded.
Send ==
  /\ Truncate \/ Write \/ CloseWrite \/ Rename \/ Unlink \/ Ignored
  /\ UNCHANGED <<text, typeVars>>

StopListener == (Spawn \/ stopEventListener \/ Finished) /\ UNCHANGED <<text, typeVars>>

ReconfigureNext == Load \/ StartEventListener \/ Apply \/ Listen \/ Send \/ StopListener

ReconfigureFairness ==
  /\ WF_allVars(Listen \/ Apply)
  /\ WF_allVars(Ignored /\ UNCHANGED <<text, typeVars>>)
  /\ WF_allVars((Spawn \/ Notify \/ Join \/ Close) /\ UNCHANGED <<text, typeVars>>)

ReconfigureSpec == ReconfigureInit /\ [][ReconfigureNext]_allVars /\ ReconfigureFairness

-----------------------------------------------------------------------------
(* Properties. *)

\* A message that the watch reports takes effect and stays in effect, unless a
\* newer one is begun, the file is removed or the listener is stopped: neither
\* merged reports nor a reading that met a truncated, half-written or replaced
\* file prevents it, and half a message is never applied after the whole.  (What
\* else half a message did stays: a subnet cut short is listed as well.)
LastMessageEffective ==
  \A n \in 1 .. MaxMessages :
    noticed = n /\ isRunning ~>
      [](Types!Effective(text[n]) \/ sent > n \/ path = 0 \/ ~isRunning)

\* The last message is in the file, and the watch has reported it.
Reported == /\ isRunning /\ noticed = sent /\ sent # 0 /\ writer = "closed" /\ path # 0
            /\ ~(watched /\ path # 1)

\* What is left when the listener waits for the next event: the maps say what
\* the last message reported says, if its type got its descriptors.  An older
\* message, or half of this one, never has the last word.
EffectiveAtRest ==
  Reported /\ thread \in {"loop", "poll"} /\ ~pending =>
    LET m == text[sent]
    IN  (m.type \in ConfigKeys => fd[m.type].data /\ fd[m.type].state) => Types!Effective(m)

\* processEventMessage is told the same message twice when two reports find the
\* same line: the second time changes no map.
RepeatIsNoop ==
  [][ handled # None /\ handled' = handled => UNCHANGED configMaps ]_allVars
=============================================================================
