--------------------------- MODULE ReconfigureProofs --------------------------
(***************************************************************************)
(* No message is lost between inotify and the callback, for any number of  *)
(* messages and of interrupted calls; and what the callback makes of them: *)
(* at rest the maps say what the last message reported says.               *)
(***************************************************************************)
EXTENDS Reconfigure, TLAPS

-----------------------------------------------------------------------------
(* FileEventSource. *)

\* What the flags of ConfigManager say about each other.
MainInv ==
  /\ main = "start" => noticed = 0 /\ ~watched
  /\ main \in {"start", "spawn"} => thread = "none"
  /\ isRunning => main \in {"spawn", "running"}
  /\ eventfd => main \in {"join", "close"}

\* What the file at m_filePath holds.
FileInv ==
  /\ writer # "closed" => path # 0 /\ noticed < sent
  /\ writer = "written" => content[path] = Whole(sent)
  /\ writer = "closed" /\ path # 0 /\ sent # 0 => content[path] = Whole(sent)

\* No line is from the future, and none is the last message before the writer
\* has completed it; once that message is applied, nothing older is on its way.
LineInv ==
  /\ line.msg <= sent /\ applied.msg <= sent /\ \A f \in 1 .. 2 : content[f].msg <= sent
  /\ writer \in {"truncated", "half"} =>
       line # Whole(sent) /\ applied # Whole(sent) /\ \A f \in 1 .. 2 : content[f] # Whole(sent)
  /\ applied = Whole(sent) /\ sent # 0 =>
       /\ thread = "getline" => content[opened] = Whole(sent)
       /\ thread = "callback" => line = Whole(sent)

Inv == TypeOK /\ MainInv /\ FileInv /\ LineInv /\ NoLostWakeup

\* TypeOK in two parts: the provers that know Booleans do not know numbers.
Flags == /\ pending \in BOOLEAN /\ watched \in BOOLEAN
         /\ isRunning \in BOOLEAN /\ eventfd \in BOOLEAN

Data ==
  /\ path \in 0 .. 2 /\ content \in [1 .. 2 -> Lines]
  /\ writer \in {"closed", "truncated", "half", "written"}
  /\ sent \in 0 .. MaxMessages /\ noticed \in 0 .. sent
  /\ thread \in Threads /\ opened \in 0 .. 2
  /\ opened # 0 <=> thread \in {"getline", "callback"}
  /\ line \in Lines /\ applied \in Lines
  /\ errors \in 0 .. MaxErrors
  /\ main \in {"start", "spawn", "running", "notify", "join", "close", "done"}

LEMMA TypeParts == TypeOK <=> Flags /\ Data
  BY Zenon DEF TypeOK, Flags, Data

LEMMA LineTypes == Empty \in Lines /\ \A n \in 1 .. MaxMessages : Whole(n) \in Lines
  BY EventAssumption DEF Empty, Whole, Lines

LEMMA Msgs == /\ Empty.msg = 0
              /\ \A n : Whole(n).msg = n
              /\ \A l \in Lines : l.msg \in Nat
  BY EventAssumption DEF Empty, Whole, Lines

LEMMA InitInv == Init => Inv
<1> SUFFICES ASSUME Init PROVE Inv
  OBVIOUS
<1>1. Flags
  BY Zenon DEF Init, Flags
<1>2. Data
  BY EventAssumption, LineTypes DEF Init, Data, Threads
<1>3. MainInv /\ FileInv /\ NoLostWakeup
  BY DEF Init, MainInv, FileInv, NoLostWakeup
<1>4. LineInv
  BY Msgs DEF Init, LineInv
<1> QED
  BY <1>1, <1>2, <1>3, <1>4, TypeParts DEF Inv

LEMMA FlagsStep == Flags /\ [Next]_vars => Flags'
<1> SUFFICES ASSUME Flags, [Next]_vars PROVE Flags'
  OBVIOUS
<1> USE Zenon DEF Flags
<1>1. CASE run
  BY <1>1 DEF run, Loop, Poll, PollFails, Read, Open, GetLine, Callback, mainVars
<1>2. CASE Start \/ Spawn
  BY <1>2 DEF Start, Spawn
<1>3. CASE stopEventListener
  BY <1>3 DEF stopEventListener, Stop, Notify, Join, Close
<1>4. CASE Truncate \/ Write \/ CloseWrite \/ Rename \/ Unlink \/ Ignored
  BY <1>4 DEF Truncate, Write, CloseWrite, Rename, Unlink, Ignored, mainVars
<1>5. CASE Finished \/ UNCHANGED vars
  BY <1>5 DEF Finished, vars, mainVars
<1> QED
  BY <1>1, <1>2, <1>3, <1>4, <1>5 DEF Next

LEMMA DataStep == Data /\ MainInv /\ [Next]_vars => Data'
<1> SUFFICES ASSUME Data, MainInv, [Next]_vars PROVE Data'
  OBVIOUS
<1> USE EventAssumption, LineTypes DEF Data
<1>1. CASE Loop \/ Poll \/ PollFails \/ Read
  BY <1>1 DEF Loop, Poll, PollFails, Read, Threads, fileVars, mainVars
<1>2. CASE Open \/ GetLine \/ Callback
  BY <1>2 DEF Open, GetLine, Callback, Threads, fileVars, mainVars
<1>3. CASE Start \/ Spawn \/ stopEventListener
  BY <1>3 DEF Start, Spawn, stopEventListener, Stop, Notify, Join, Close, Threads, MainInv,
              fileVars, threadVars
<1>4. CASE Truncate \/ Rename
  BY <1>4 DEF Truncate, Rename, threadVars, mainVars
<1>5. CASE Write
  <2>1. [msg |-> sent, whole |-> writer' = "written"] \in Lines
    BY <1>5 DEF Write, Lines
  <2> QED
    BY <1>5, <2>1, Zenon DEF Write, threadVars, mainVars
<1>6. CASE CloseWrite \/ Unlink \/ Ignored
  BY <1>6 DEF CloseWrite, Unlink, Ignored, fileVars, threadVars, mainVars
<1>7. CASE Finished \/ UNCHANGED vars
  BY <1>7 DEF Finished, vars, fileVars, threadVars, mainVars
<1> QED
  BY <1>1, <1>2, <1>3, <1>4, <1>5, <1>6, <1>7 DEF Next, run

LEMMA FileStep == Data /\ MainInv /\ FileInv /\ [Next]_vars => MainInv' /\ FileInv'
<1> SUFFICES ASSUME Data, MainInv, FileInv, [Next]_vars PROVE MainInv' /\ FileInv'
  OBVIOUS
<1> USE EventAssumption
<1>1. CASE run
  BY <1>1 DEF run, Loop, Poll, PollFails, Read, Open, GetLine, Callback, MainInv, FileInv,
              fileVars, mainVars
<1>2. CASE Start \/ Spawn \/ stopEventListener
  BY <1>2 DEF Start, Spawn, stopEventListener, Stop, Notify, Join, Close, MainInv, FileInv,
              fileVars, threadVars
<1>3. CASE Truncate \/ Rename
  BY <1>3 DEF Truncate, Rename, MainInv, FileInv, Data, threadVars, mainVars
<1>4. CASE Write
  <2>1. writer' = "written" => [msg |-> sent, whole |-> writer' = "written"] = Whole(sent)
    BY Zenon DEF Whole
  <2>2. MainInv'
    BY <1>4 DEF Write, MainInv, threadVars, mainVars
  <2>3. FileInv'
    BY <1>4, <2>1 DEF Write, FileInv, Data
  <2> QED
    BY <2>2, <2>3
<1>5. CASE CloseWrite \/ Unlink \/ Ignored
  BY <1>5 DEF CloseWrite, Unlink, Ignored, MainInv, FileInv, Data, fileVars, threadVars,
              mainVars
<1>6. CASE Finished \/ UNCHANGED vars
  BY <1>6 DEF Finished, MainInv, FileInv, vars, fileVars, threadVars, mainVars
<1> QED
  BY <1>1, <1>2, <1>3, <1>4, <1>5, <1>6 DEF Next

LEMMA LineStep == Data /\ FileInv /\ LineInv /\ [Next]_vars => LineInv'
<1> SUFFICES ASSUME Data, FileInv, LineInv, [Next]_vars PROVE LineInv'
  OBVIOUS
<1> USE EventAssumption, Msgs DEF LineInv
<1>1. CASE Loop \/ Poll \/ PollFails \/ Read
  BY <1>1 DEF Loop, Poll, PollFails, Read, fileVars
<1>2. CASE Open
  BY <1>2 DEF Open, Data, FileInv, fileVars
<1>3. CASE GetLine
  BY <1>3 DEF GetLine, Data, fileVars
<1>4. CASE Callback
  BY <1>4 DEF Callback, fileVars
<1>5. CASE Start \/ Spawn \/ stopEventListener
  BY <1>5 DEF Start, Spawn, stopEventListener, Stop, Notify, Join, Close, fileVars, threadVars
<1>6. CASE Truncate \/ Rename
  <2>1. sent' = sent + 1 /\ sent \in Nat
    BY <1>6 DEF Truncate, Rename, Data
  <2>2. line # Whole(sent') /\ applied # Whole(sent') /\ \A f \in 1 .. 2 : content[f] # Whole(sent')
    BY <2>1 DEF Data
  <2>3. CASE Truncate
    BY <2>1, <2>2, <2>3 DEF Truncate, Data, threadVars
  <2>4. CASE Rename
    BY <2>1, <2>2, <2>4 DEF Rename, Data, threadVars
  <2> QED
    BY <1>6, <2>3, <2>4
<1>7. CASE Write
  <2>1. writer' # "written" => [msg |-> sent, whole |-> writer' = "written"] # Whole(sent)
    BY Zenon DEF Whole
  <2>2. [msg |-> sent, whole |-> writer' = "written"].msg = sent
    OBVIOUS
  <2> QED
    BY <1>7, <2>1, <2>2 DEF Write, Data, FileInv, threadVars
<1>8. CASE CloseWrite \/ Unlink \/ Ignored
  BY <1>8 DEF CloseWrite, Unlink, Ignored, fileVars, threadVars
<1>9. CASE Finished \/ UNCHANGED vars
  BY <1>9 DEF Finished, vars, fileVars, threadVars
<1> QED
  BY <1>1, <1>2, <1>3, <1>4, <1>5, <1>6, <1>7, <1>8, <1>9 DEF Next, run

LEMMA WakeupStep ==
  Data /\ MainInv /\ FileInv /\ LineInv /\ NoLostWakeup /\ [Next]_vars => NoLostWakeup'
<1> SUFFICES ASSUME Data, MainInv, FileInv, LineInv, NoLostWakeup, [Next]_vars
             PROVE  NoLostWakeup'
  OBVIOUS
<1> USE EventAssumption DEF NoLostWakeup
<1>1. CASE Loop \/ Poll \/ PollFails
  BY <1>1, Zenon DEF Loop, Poll, PollFails, MainInv, fileVars, mainVars
<1>2. CASE Read \/ Open
  BY <1>2, Zenon DEF Read, Open, fileVars, mainVars
<1>3. CASE GetLine
  BY <1>3 DEF GetLine, FileInv, Data, Whole, fileVars, mainVars
<1>4. CASE Callback
  BY <1>4 DEF Callback, LineInv, fileVars, mainVars
<1>5. CASE Start \/ Spawn
  BY <1>5, Zenon DEF Start, Spawn, MainInv, fileVars, threadVars
<1>6. CASE stopEventListener
  BY <1>6, Zenon DEF stopEventListener, Stop, Notify, Join, Close, MainInv, fileVars, threadVars
<1>7. CASE Truncate \/ Write
  BY <1>7 DEF Truncate, Write
<1>8. CASE CloseWrite
  BY <1>8 DEF CloseWrite, FileInv, Data, threadVars, mainVars
<1>9. CASE Rename
  BY <1>9 DEF Rename, Data, threadVars, mainVars
<1>10. CASE Unlink \/ Ignored
  BY <1>10, Zenon DEF Unlink, Ignored, fileVars, threadVars, mainVars
<1>11. CASE Finished \/ UNCHANGED vars
  BY <1>11, Zenon DEF Finished, vars, fileVars, threadVars, mainVars
<1> QED
  BY <1>1, <1>2, <1>3, <1>4, <1>5, <1>6, <1>7, <1>8, <1>9, <1>10, <1>11 DEF Next, run

LEMMA InvStep == Inv /\ [Next]_vars => Inv'
<1> SUFFICES ASSUME Inv, [Next]_vars PROVE Inv'
  OBVIOUS
<1>1. Flags' /\ Data'
  BY TypeParts, FlagsStep, DataStep DEF Inv
<1>2. TypeOK'
  BY <1>1, Zenon DEF TypeOK, Flags, Data
<1> QED
  BY <1>2, TypeParts, FileStep, LineStep, WakeupStep DEF Inv

\* The listener thread keeps its locals in shape and the last message that
\* inotify reports is applied or still on its way, whatever the writer, the
\* thread and stopEventListener do in between.
THEOREM WakeupCorrect == Spec => [](TypeOK /\ NoLostWakeup)
<1>1. Inv => TypeOK /\ NoLostWakeup
  BY DEF Inv
<1> QED
  BY InitInv, InvStep, <1>1, PTL DEF Spec

-----------------------------------------------------------------------------
(* FileEventSource and the config types together.  What ConfigTypesProofs    *)
(* proves of the config types holds here through an instance of it, under    *)
(* whose names the definitions are the same as under Types.                  *)

P == INSTANCE ConfigTypesProofs

LEMMA Constants == P!TypesConstants /\ P!IsFiniteSet(IPs)
<1>1. P!IsFiniteSet(IPs)
  BY AddressAssumption DEF IsFiniteSet, P!IsFiniteSet
<1>2. P!TypesConstants
  BY ReconfigureAssumption, Zenon
  DEF Types!TypesConstants, P!TypesConstants, Types!Words, P!Words, Types!Texts, P!Texts,
      Types!ConfigKeys, P!ConfigKeys, Types!Lists, P!Lists
<1> QED
  BY <1>1, <1>2

LEMMA SameInit == Types!Init => P!Init
  BY Zenon DEF Types!Init, P!Init, Types!MapsInit, P!MapsInit, Types!ConfigKeys, P!ConfigKeys,
               Types!Lists, P!Lists

LEMMA SameNext == Types!Next => P!Next
  BY Zenon DEF
    Types!Next, Types!loadAllConfigs, Types!OpenConfig, Types!SkipLine, Types!FirstLine,
    Types!ProcessLine, Types!EndOfFile, Types!Return, Types!processEventMessage,
    Types!updateConfig, Types!set_state, Types!Change, Types!WellFormed, Types!Word,
    Types!word, Types!parse_subnet, Types!parse_pps, Types!command_line, Types!Significant,
    Types!enabled, Types!disabled, Types!input, Types!configMaps, Types!ConfigKeys,
    Types!Lists, Types!SetState, Types!add_ip_subnets, Types!remove_ip_subnets,
    Types!Limited, Types!add_rate_limit, Types!remove_rate_limit, Types!SameNode,
    Types!Covers, Types!Prefix, Types!Cardinality,
    P!Next, P!loadAllConfigs, P!OpenConfig, P!SkipLine, P!FirstLine,
    P!ProcessLine, P!EndOfFile, P!Return, P!processEventMessage,
    P!updateConfig, P!set_state, P!Change, P!WellFormed, P!Word,
    P!word, P!parse_subnet, P!parse_pps, P!command_line, P!Significant,
    P!enabled, P!disabled, P!input, P!configMaps, P!ConfigKeys,
    P!Lists, P!SetState, P!add_ip_subnets, P!remove_ip_subnets,
    P!Limited, P!add_rate_limit, P!remove_rate_limit, P!SameNode,
    P!Covers, P!Prefix, P!Cardinality

LEMMA SameTypeOK == P!TypeOK => Types!TypeOK
  BY Zenon DEF Types!TypeOK, P!TypeOK, Types!MapsTypeOK, P!MapsTypeOK, Types!ConfigKeys,
               P!ConfigKeys, Types!Lists, P!Lists, Types!Intervals, P!Intervals,
               Types!Words, P!Words, Types!Texts, P!Texts

LEMMA SameEffective == ASSUME NEW m, P!Effective(m) PROVE Types!Effective(m)
  BY Zenon DEF
    Types!Effective, Types!Word, Types!word, Types!ConfigKeys, Types!Lists, Types!parse_subnet,
    Types!parse_pps, Types!is_config_enabled, Types!SameNode, Types!Covers, Types!Prefix,
    Types!Limited, Types!Cardinality,
    P!Effective, P!Word, P!word, P!ConfigKeys, P!Lists, P!parse_subnet,
    P!parse_pps, P!is_config_enabled, P!SameNode, P!Covers, P!Prefix,
    P!Limited, P!Cardinality

\* The thread calls back with a line, and what the callback has handled is what
\* the event source says it got last.
CallbackInv ==
  /\ text \in [1 .. MaxMessages -> Written]
  /\ thread = "callback" => line.msg # 0
  /\ \A n \in 1 .. MaxMessages : applied = Whole(n) => handled = text[n]

CInv == Inv /\ CallbackInv /\ P!Inv /\ P!HandledDone

\* A step of the whole is a step of the event source and of the config types,
\* or leaves them alone.
LEMMA SourceStep == [ReconfigureNext]_allVars => [Next]_vars
  BY Zenon DEF ReconfigureNext, allVars, Load, StartEventListener, Apply, Listen, Send,
               StopListener, Next, run

LEMMA ReadContents ==
  ASSUME Data, CallbackInv, thread = "callback"
  PROVE  /\ Contents(line) \subseteq Messages
         /\ \A n \in 1 .. MaxMessages : line = Whole(n) => Contents(line) = {text[n]}
<1>1. line.msg \in 1 .. MaxMessages
  BY EventAssumption DEF Data, Lines, CallbackInv
<1>2. text[line.msg] \in Written
  BY <1>1 DEF CallbackInv
<1>3. Contents(line) \subseteq Messages
  BY <1>2, ReconfigureAssumption DEF Contents
<1>4. ASSUME NEW n \in 1 .. MaxMessages, line = Whole(n) PROVE Contents(line) = {text[n]}
  <2>1. line.whole = TRUE /\ line.msg = n
    BY <1>4 DEF Whole
  <2> QED
    BY <2>1, Zenon DEF Contents
<1> QED
  BY <1>3, <1>4

LEMMA TypesStep == Data /\ CallbackInv /\ [ReconfigureNext]_allVars => [Types!Next]_(Types!vars)
<1> SUFFICES ASSUME Data, CallbackInv, [ReconfigureNext]_allVars
             PROVE  Types!Next \/ UNCHANGED Types!vars
  OBVIOUS
<1>1. CASE Apply
  <2>1. thread = "callback"
    BY <1>1, Zenon DEF Apply, Callback
  <2>2. PICK m \in Contents(line) : Types!processEventMessage(m)
    BY <1>1, Zenon DEF Apply
  <2>3. m \in Messages
    BY <2>1, <2>2, ReadContents
  <2> QED
    BY <2>2, <2>3, Zenon DEF Types!Next
<1>2. CASE Load
  BY <1>2, Zenon DEF Load, Types!Next
<1>3. CASE UNCHANGED typeVars
  BY <1>3, Zenon DEF typeVars, configMaps, Types!vars, Types!configMaps, Types!input
<1> QED
  BY <1>1, <1>2, <1>3, Zenon DEF ReconfigureNext, allVars, StartEventListener, Listen, Send,
                                 StopListener

LEMMA CallbackStep == Data /\ CallbackInv /\ [ReconfigureNext]_allVars => CallbackInv'
<1> SUFFICES ASSUME Data, CallbackInv, [ReconfigureNext]_allVars PROVE CallbackInv'
  OBVIOUS
<1>1. text' = text
  BY Zenon DEF ReconfigureNext, allVars, Load, StartEventListener, Apply, Listen, Send,
               StopListener
<1>2. thread' = "callback" => line'.msg # 0
  <2>1. CASE GetLine
    BY <2>1 DEF GetLine
  <2>2. CASE run /\ ~GetLine
    BY <2>2 DEF run, Loop, Poll, PollFails, Read, Open, Callback
  <2>3. CASE thread' = thread /\ line' = line
    BY <2>3 DEF CallbackInv
  <2>4. CASE Spawn
    BY <2>4 DEF Spawn
  <2>5. run \/ Spawn \/ (thread' = thread /\ line' = line)
    BY SourceStep, Zenon DEF Next, Start, stopEventListener, Stop, Notify, Join, Close, Truncate,
         Write, CloseWrite, Rename, Unlink, Ignored, Finished, vars, threadVars
  <2> QED
    BY <2>1, <2>2, <2>3, <2>4, <2>5
<1>3. \A n \in 1 .. MaxMessages : applied' = Whole(n) => handled' = text[n]
  <2>1. CASE Apply
    <3>1. thread = "callback" /\ applied' = line
      BY <2>1, Zenon DEF Apply, Callback
    <3>2. PICK m \in Contents(line) : handled' = m
      BY <2>1, Zenon DEF Apply, Types!processEventMessage
    <3> QED
      BY <3>1, <3>2, ReadContents, Zenon
  <2>2. CASE Load
    <3>1. applied' = applied
      BY <2>2, Zenon DEF Load, vars, threadVars
    <3>2. handled' = handled
      BY <2>2, Zenon DEF Load, Types!loadAllConfigs, Types!OpenConfig, Types!SkipLine,
                         Types!FirstLine, Types!ProcessLine, Types!EndOfFile
    <3> QED
      BY <3>1, <3>2, Zenon DEF CallbackInv
  <2>3. CASE UNCHANGED typeVars /\ ~Apply
    <3>1. handled' = handled
      BY <2>3, Zenon DEF typeVars
    <3>2. applied' = applied
      BY <2>3, Zenon DEF ReconfigureNext, Load, StartEventListener, Listen, Send, StopListener,
           Loop, Poll, PollFails, Read, Open, GetLine, Start, Spawn, stopEventListener, Stop,
           Notify, Join, Close, Truncate, Write, CloseWrite, Rename, Unlink, Ignored, Finished,
           allVars, vars, threadVars
    <3> QED
      BY <3>1, <3>2, Zenon DEF CallbackInv
  <2> QED
    BY <2>1, <2>2, <2>3, Zenon DEF ReconfigureNext, allVars, StartEventListener, Listen, Send,
                                   StopListener
<1> QED
  BY <1>1, <1>2, <1>3, Zenon DEF CallbackInv

LEMMA InitCInv == ReconfigureInit => CInv
<1> SUFFICES ASSUME ReconfigureInit PROVE CInv
  OBVIOUS
<1>1. Inv
  BY InitInv DEF ReconfigureInit
<1>2. P!Init
  BY SameInit DEF ReconfigureInit
<1>3. P!Inv
  BY <1>2, P!InitInv, Constants, AddressAssumption, MapsAssumption
<1>4. P!HandledDone
  BY <1>2, Zenon DEF P!Init, P!HandledDone
<1>5. CallbackInv
  <2>1. \A n \in 1 .. MaxMessages : applied # Whole(n)
    BY EventAssumption, Msgs DEF ReconfigureInit, Init
  <2>2. thread # "callback" /\ text \in [1 .. MaxMessages -> Written]
    BY DEF ReconfigureInit, Init
  <2> QED
    BY <2>1, <2>2, Zenon DEF CallbackInv
<1> QED
  BY <1>1, <1>3, <1>4, <1>5 DEF CInv

LEMMA CInvParts == CInv => Data /\ MainInv
  BY TypeParts DEF CInv, Inv

LEMMA PStep == CInv /\ [ReconfigureNext]_allVars => [P!Next]_(P!vars)
<1> SUFFICES ASSUME CInv, [ReconfigureNext]_allVars PROVE [P!Next]_(P!vars)
  OBVIOUS
<1>1. Types!Next \/ UNCHANGED Types!vars
  BY TypesStep, CInvParts DEF CInv
<1> QED
  BY <1>1, SameNext, Zenon DEF Types!vars, P!vars, Types!configMaps, P!configMaps, Types!input, P!input

LEMMA NextCInv == CInv /\ [ReconfigureNext]_allVars => CInv'
<1> SUFFICES ASSUME CInv, [ReconfigureNext]_allVars PROVE CInv'
  OBVIOUS
<1>1. Inv'
  BY SourceStep, InvStep DEF CInv
<1>2. CallbackInv'
  BY CallbackStep, CInvParts DEF CInv
<1>3. P!Inv /\ P!HandledDone /\ [P!Next]_(P!vars)
  BY PStep DEF CInv
<1>4. P!Inv'
  BY <1>3, P!NextInv, Constants, AddressAssumption, MapsAssumption
<1>5. P!HandledDone'
  BY <1>3, P!HandledStep, Constants, AddressAssumption, MapsAssumption
<1> QED
  BY <1>1, <1>2, <1>4, <1>5 DEF CInv

LEMMA CInvCorrect == ReconfigureSpec => []CInv
  BY InitCInv, NextCInv, PTL DEF ReconfigureSpec

\* The event source, the maps and the parser keep their types together,
\* whatever is written to event.conf and however much of it is read.
THEOREM ReconfigureTypeCorrect == ReconfigureSpec => []ReconfigureTypeOK
<1>1. CInv => ReconfigureTypeOK
  <2>1. P!Inv => P!TypeOK
    BY Zenon DEF P!Inv
  <2> QED
    BY <2>1, SameTypeOK DEF CInv, Inv, CallbackInv, ReconfigureTypeOK
<1> QED
  BY <1>1, CInvCorrect, PTL

\* What is proved of the event source alone holds when its callback changes the
\* maps: no wake-up is lost.
THEOREM ListenerCorrect == ReconfigureSpec => []NoLostWakeup
<1>1. CInv => NoLostWakeup
  BY DEF CInv, Inv
<1> QED
  BY <1>1, CInvCorrect, PTL

\* When the listener waits and nothing is pending, the last message that inotify
\* reported is in effect, for any messages and whatever was read of them while
\* they were written: processEventMessage had the whole of it after anything
\* else.
THEOREM RestCorrect == ReconfigureSpec => []EffectiveAtRest
<1>1. CInv => EffectiveAtRest
  <2> DEFINE m == text[sent]
  <2> SUFFICES ASSUME CInv, Reported, thread \in {"loop", "poll"}, ~pending,
                      m.type \in ConfigKeys => fd[m.type].data /\ fd[m.type].state
               PROVE  Types!Effective(m)
    BY Zenon DEF EffectiveAtRest
  <2>1. applied = Whole(sent)
    <3>1. NoLostWakeup
      BY DEF CInv, Inv
    <3>2. thread \notin {"read", "open", "getline", "callback"}
      OBVIOUS
    <3> QED
      BY <3>1, <3>2, Zenon DEF NoLostWakeup, Reported
  <2>2. sent \in 1 .. MaxMessages
    BY CInvParts, EventAssumption DEF Data, Reported
  <2>3. m = handled /\ m \in Messages
    BY <2>1, <2>2, ReconfigureAssumption DEF CInv, CallbackInv
  <2>4. m # None
    <3>1. None \notin Messages
      BY ReconfigureAssumption DEF Types!TypesConstants
    <3> QED
      BY <2>3, <3>1
  <2>5. P!MapsTypeOK /\ P!MessageDone(m)
    BY <2>3, <2>4, Zenon DEF CInv, P!Inv, P!TypeOK, P!HandledDone
  <2>6. m.type \in P!ConfigKeys => fd[m.type].data /\ fd[m.type].state
    BY Zenon DEF ConfigKeys, Lists, P!ConfigKeys, P!Lists
  <2> HIDE DEF m
  <2>7. P!Effective(m)
    BY <2>3, <2>5, <2>6, P!DoneEffective, Constants, AddressAssumption, MapsAssumption
  <2> QED
    BY <2>7, SameEffective
<1> QED
  BY <1>1, CInvCorrect, PTL

\* A message that processEventMessage is told again at once, since two reports
\* found the same line, changes no map.
THEOREM RepeatCorrect == ReconfigureSpec => RepeatIsNoop
<1>1. CInv /\ [ReconfigureNext]_allVars =>
        [ handled # None /\ handled' = handled => UNCHANGED configMaps ]_allVars
  <2> SUFFICES ASSUME CInv, [ReconfigureNext]_allVars, handled # None, handled' = handled
               PROVE  UNCHANGED configMaps
    OBVIOUS
  <2>1. P!Inv /\ P!HandledDone /\ [P!Next]_(P!vars)
    BY PStep DEF CInv
  <2>2. UNCHANGED P!configMaps
    BY <2>1, P!RepeatStep, Constants, AddressAssumption, MapsAssumption
  <2> QED
    BY <2>2, Zenon DEF configMaps, P!configMaps
<1> QED
  BY <1>1, CInvCorrect, PTL DEF ReconfigureSpec, RepeatIsNoop

\* FileEventSource drives the config types only as ConfigTypes allows: loading
\* first, then one message at a time.  So what is proved of ConfigTypes holds of
\* them here.
THEOREM ReconfigureRefinesTypes == ReconfigureSpec => Types!Spec
<1>1. ReconfigureInit => Types!Init
  BY DEF ReconfigureInit
<1>2. CInv /\ [ReconfigureNext]_allVars => [Types!Next]_(Types!vars)
  BY TypesStep, CInvParts DEF CInv
<1> QED
  BY <1>1, <1>2, CInvCorrect, PTL DEF ReconfigureSpec, Types!Spec

\* Loading and messages together change the maps only by single updates of
\* FilterMaps, each with a valid key or a non-zero limit: what XdpFilter assumes
\* of user space holds while the listener thread runs.
THEOREM ReconfigureRefinesMaps == ReconfigureSpec => Types!MapsSpec
<1>1. ReconfigureInit => Types!MapsInit
  BY DEF ReconfigureInit, Types!Init
<1>2. CInv /\ [ReconfigureNext]_allVars => [Types!MapUpdate]_(Types!configMaps)
  <2> SUFFICES ASSUME CInv, [ReconfigureNext]_allVars
               PROVE  Types!MapUpdate \/ UNCHANGED Types!configMaps
    OBVIOUS
  <2>1. P!LoadInv /\ [P!Next]_(P!vars)
    BY PStep DEF CInv, P!Inv
  <2>2. P!MapUpdate \/ UNCHANGED P!configMaps
    BY <2>1, P!MapStep, Constants, AddressAssumption, MapsAssumption
  <2> QED
    BY <2>2, Zenon DEF
      Types!MapUpdate, Types!ConfigKeys, Types!Lists, Types!SetState, Types!add_ip_subnets,
      Types!remove_ip_subnets, Types!add_rate_limit, Types!remove_rate_limit, Types!Limited,
      Types!SameNode, Types!Covers, Types!Prefix, Types!Cardinality, Types!configMaps,
      P!MapUpdate, P!ConfigKeys, P!Lists, P!SetState, P!add_ip_subnets,
      P!remove_ip_subnets, P!add_rate_limit, P!remove_rate_limit, P!Limited,
      P!SameNode, P!Covers, P!Prefix, P!Cardinality, P!configMaps
<1> QED
  BY <1>1, <1>2, CInvCorrect, PTL DEF ReconfigureSpec, Types!MapsSpec

=============================================================================
