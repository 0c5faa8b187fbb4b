---------------------------- MODULE AccessLogProofs ---------------------------
(***************************************************************************)
(* The access log loses and reorders nothing, for any number of processors *)
(* and any sizes of ring, buffer and queue.                                *)
(***************************************************************************)
EXTENDS AccessLog, SequenceTheorems, TLAPS

\* The callback has run for the head of the ring, which has not left it yet.
Held == worker = "advance" \/ (worker = "flush" /\ after = "advance")

\* What the worker's place says about the buffer and about the limit of one poll.
WorkerInv ==
  /\ worker # "flush" => flushed = 0 /\ Len(buffer) < BufferSize
  /\ worker \in {"process", "advance"} \/ Held => cnt < PollMax
  /\ Held => Readable
  /\ worker \in {"none", "start", "free", "exited"} => buffer = <<>>
  /\ main \in {"drain", "done"} => worker \in {"none", "exited"}
  /\ main = "done" => queue = <<>>

\* Nothing busy has been taken from the ring.
TakenInv ==
  /\ \A i \in 1 .. Len(queue) : queue[i].st # "busy"
  /\ \A i \in 1 .. Len(buffer) : buffer[i].st # "busy"

\* TypeOK in two parts: the provers that know Booleans do not know numbers.
Flags == expired \in BOOLEAN /\ exiting \in BOOLEAN

Data ==
  /\ ring \in Seq(Records) /\ Len(ring) <= RingSize
  /\ worker \in Workers
  /\ after \in {"advance", "loop", "free"}
  /\ cnt \in 0 .. PollMax
  /\ buffer \in Seq(Records) /\ Len(buffer) <= BufferSize
  /\ flushed \in 0 .. Len(buffer)
  /\ queue \in Seq(Records) /\ Len(queue) <= QueueSize
  /\ main \in {"running", "join", "drain", "done"}

Inv == Flags /\ Data /\ WorkerInv /\ TakenInv

LEMMA TypeParts == TypeOK <=> Flags /\ Data
  BY Zenon DEF TypeOK, RingTypeOK, Flags, Data

LEMMA InitInv == Init => Inv
<1> SUFFICES ASSUME Init PROVE Inv
  OBVIOUS
<1>1. Flags
  BY Zenon DEF Init, Flags
<1>2. Data
  BY LogAssumption, RingAssumption DEF Init, RingInit, Data, Workers
<1>3. WorkerInv /\ TakenInv
  BY LogAssumption DEF Init, WorkerInv, TakenInv, Held
<1> QED
  BY <1>1, <1>2, <1>3 DEF Inv

LEMMA FlagsStep == Flags /\ [Next]_vars => Flags'
<1> SUFFICES ASSUME Flags, [Next]_vars PROVE Flags'
  OBVIOUS
<1> USE Zenon DEF Flags, others
<1>1. CASE process
  BY <1>1 DEF process, Start, Loop, Poll, handle_log_event, Advance, ProcessEnds, Check, Final,
       Free, FlushEntry, FlushEnds
<1>2. CASE PoolWrite \/ Expire \/ Produce
  BY <1>2 DEF PoolWrite, Expire, Produce
<1>3. CASE StopLogListener \/ Join \/ Shutdown \/ Finished \/ UNCHANGED vars
  BY <1>3 DEF StopLogListener, Join, Shutdown, Finished, vars
<1> QED
  BY <1>1, <1>2, <1>3 DEF Next

-----------------------------------------------------------------------------
(* What the producers do to the ring. *)

\* The record that reserve appends.
New(c, ip) == [cpu |-> c, ip |-> ip, st |-> "busy"]

LEMMA ReserveRing ==
  ASSUME ring \in Seq(Records), NEW c \in CPUs, NEW ip \in IPs, reserve(c, ip)
  PROVE  /\ New(c, ip) \in Records
         /\ ring' = Append(ring, New(c, ip)) /\ ring' \in Seq(Records)
         /\ Len(ring') = Len(ring) + 1
         /\ \A i \in 1 .. Len(ring) : ring'[i] = ring[i]
<1>1. New(c, ip) \in Records /\ ring' = Append(ring, New(c, ip))
  BY DEF New, Records, reserve
<1> QED
  BY <1>1, AppendProperties

LEMMA SubmitRing ==
  ASSUME ring \in Seq(Records), NEW c \in CPUs, NEW v \in Verdicts, submit(c, v)
  PROVE  /\ ring' \in Seq(Records) /\ Len(ring') = Len(ring)
         /\ \A i \in 1 .. Len(ring) :
              ring'[i] = IF Busy(i, c) THEN [ring[i] EXCEPT !.st = v] ELSE ring[i]
<1>1. DOMAIN ring = 1 .. Len(ring) /\ Len(ring) \in Nat
  BY LenProperties
<1>2. \A i \in 1 .. Len(ring) : ring[i] \in Records
  BY ElementOfSeq
<1>3. \A i \in 1 .. Len(ring) :
        (IF Busy(i, c) THEN [ring[i] EXCEPT !.st = v] ELSE ring[i]) \in Records
  BY <1>2 DEF Records, Verdicts
<1> QED
  BY <1>1, <1>3 DEF submit

LEMMA ProduceRing ==
  ASSUME ring \in Seq(Records), Len(ring) <= RingSize, Produce
  PROVE  /\ ring' \in Seq(Records) /\ Len(ring') <= RingSize
         /\ Readable => Readable'
<1>1. \A s \in Seq(Records) : Len(s) \in Nat /\ (s # <<>> <=> Len(s) > 0)
  BY LenProperties, EmptySeq
<1>2. PICK c \in CPUs : \/ ~RingFull /\ \E ip \in IPs : reserve(c, ip)
                        \/ \E v \in Verdicts : submit(c, v)
  BY Zenon DEF Produce
<1>3. ASSUME ~RingFull, NEW ip \in IPs, reserve(c, ip)
      PROVE  /\ ring' \in Seq(Records) /\ Len(ring') <= RingSize
             /\ Readable => Readable'
  BY <1>1, <1>3, ReserveRing, RingAssumption DEF RingFull, Readable
<1>4. ASSUME NEW v \in Verdicts, submit(c, v)
      PROVE  /\ ring' \in Seq(Records) /\ Len(ring') <= RingSize
             /\ Readable => Readable'
  <2>1. /\ ring' \in Seq(Records) /\ Len(ring') = Len(ring)
        /\ \A i \in 1 .. Len(ring) :
             ring'[i] = IF Busy(i, c) THEN [ring[i] EXCEPT !.st = v] ELSE ring[i]
    BY <1>4, SubmitRing
  <2>2. ASSUME Readable PROVE Readable'
    <3>1. 1 \in 1 .. Len(ring) /\ ~Busy(1, c) /\ ring' # <<>>
      BY <1>1, <2>1, <2>2 DEF Readable, Busy
    <3> QED
      BY <2>1, <2>2, <3>1, Zenon DEF Readable
  <2> QED
    BY <2>1, <2>2
<1> QED
  BY <1>2, <1>3, <1>4

-----------------------------------------------------------------------------
(* The steps. *)

\* What the callback does to the buffer.
LEMMA HandleBuffer ==
  ASSUME Data, WorkerInv, handle_log_event
  PROVE  /\ ring[1] \in Records /\ ring[1].st # "busy" /\ ring # <<>>
         /\ buffer' = Append(buffer, ring[1]) /\ buffer' \in Seq(Records)
         /\ Len(buffer') = Len(buffer) + 1 /\ Len(buffer') <= BufferSize
         /\ \A i \in 1 .. Len(buffer) : buffer'[i] = buffer[i]
         /\ buffer'[Len(buffer) + 1] = ring[1]
<1>1. ring # <<>> /\ ring[1].st # "busy" /\ buffer' = Append(buffer, ring[1])
  BY DEF handle_log_event, Readable
<1>2. ring[1] \in Records
  BY <1>1, ElementOfSeq, EmptySeq DEF Data
<1>3. Len(buffer) < BufferSize /\ Len(buffer) \in Nat
  BY LenProperties DEF WorkerInv, handle_log_event, Data
<1> QED
  BY <1>1, <1>2, <1>3, AppendProperties, LogAssumption DEF Data

LEMMA TailRing ==
  ASSUME Data, WorkerInv, Held
  PROVE  /\ ring # <<>> /\ ring[1].st # "busy"
         /\ Tail(ring) \in Seq(Records) /\ Len(Tail(ring)) = Len(ring) - 1
         /\ \A i \in 1 .. Len(ring) - 1 : Tail(ring)[i] = ring[i + 1]
<1>1. ring # <<>> /\ ring[1].st # "busy"
  BY DEF WorkerInv, Readable
<1> QED
  BY <1>1, HeadTailProperties DEF Data

LEMMA FlushedEntry ==
  ASSUME Data, FlushEntry
  PROVE  /\ buffer[flushed + 1] \in Records /\ flushed + 1 \in 1 .. Len(buffer)
         /\ queue' = Append(queue, buffer[flushed + 1]) /\ queue' \in Seq(Records)
         /\ Len(queue') = Len(queue) + 1 /\ Len(queue') <= QueueSize
         /\ \A i \in 1 .. Len(queue) : queue'[i] = queue[i]
         /\ queue'[Len(queue) + 1] = buffer[flushed + 1]
<1>1. flushed + 1 \in 1 .. Len(buffer) /\ Len(queue) \in Nat /\ Len(queue) < QueueSize
  BY LenProperties DEF Data, FlushEntry
<1>2. buffer[flushed + 1] \in Records
  BY <1>1, ElementOfSeq DEF Data
<1>3. queue' = Append(queue, buffer[flushed + 1])
  BY DEF FlushEntry
<1> QED
  BY <1>1, <1>2, <1>3, AppendProperties, LogAssumption DEF Data

LEMMA QueueTail ==
  ASSUME Data, PoolWrite
  PROVE  /\ queue # <<>> /\ queue' = Tail(queue) /\ queue' \in Seq(Records)
         /\ Len(queue') = Len(queue) - 1 /\ Len(queue) \in Nat
         /\ \A i \in 1 .. Len(queue) - 1 : queue'[i] = queue[i + 1]
<1>1. queue # <<>> /\ queue' = Tail(queue)
  BY DEF PoolWrite
<1> QED
  BY <1>1, HeadTailProperties, LenProperties DEF Data

LEMMA DataStep == Data /\ WorkerInv /\ [Next]_vars => Data'
<1> SUFFICES ASSUME Data, WorkerInv, [Next]_vars PROVE Data'
  OBVIOUS
<1> USE LogAssumption DEF Workers, others
<1>1. CASE Start \/ Loop \/ ProcessEnds \/ Check \/ Final \/ Free
  BY <1>1 DEF Data, Start, Loop, ProcessEnds, Check, Final, Free
<1>2. CASE Poll
  BY <1>2 DEF Data, Poll
<1>3. CASE handle_log_event
  BY <1>3, HandleBuffer DEF Data, handle_log_event
<1>4. CASE Advance
  <2>1. ring' \in Seq(Records) /\ Len(ring') <= RingSize
    BY <1>4, TailRing, LenProperties, RingAssumption DEF Data, Advance, Held
  <2>2. cnt < PollMax
    BY <1>4 DEF Advance, WorkerInv
  <2> QED
    BY <1>4, <2>1, <2>2 DEF Data, Advance
<1>5. CASE FlushEntry
  BY <1>5, FlushedEntry DEF Data, FlushEntry
<1>6. CASE FlushEnds
  BY <1>6 DEF Data, FlushEnds
<1>7. CASE PoolWrite
  BY <1>7, QueueTail DEF Data, PoolWrite
<1>8. CASE Produce
  BY <1>8, ProduceRing DEF Data, Produce
<1>9. CASE Expire \/ StopLogListener \/ Join \/ Shutdown \/ Finished \/ UNCHANGED vars
  BY <1>9 DEF Data, Expire, StopLogListener, Join, Shutdown, Finished, vars
<1> QED
  BY <1>1, <1>2, <1>3, <1>4, <1>5, <1>6, <1>7, <1>8, <1>9 DEF Next, process

LEMMA WorkerStep == Data /\ WorkerInv /\ [Next]_vars => WorkerInv'
<1> SUFFICES ASSUME Data, WorkerInv, [Next]_vars PROVE WorkerInv'
  OBVIOUS
<1> USE LogAssumption DEF WorkerInv, Held, others
<1>1. CASE Start \/ Loop \/ Free
  BY <1>1 DEF Start, Loop, Free, Readable
<1>2. CASE Check \/ Final
  BY <1>2 DEF Check, Final, Readable
<1>3. CASE ProcessEnds
  BY <1>3 DEF ProcessEnds, Readable
<1>4. CASE Poll
  BY <1>4 DEF Poll, Readable
<1>5. CASE handle_log_event
  <2>1. Len(buffer') >= BufferSize => worker' = "flush"
    BY <1>5 DEF handle_log_event
  <2>2. Len(buffer') \in Nat
    BY <1>5, HandleBuffer, LenProperties
  <2> QED
    BY <1>5, <2>1, <2>2 DEF handle_log_event, Readable
<1>6. CASE Advance
  BY <1>6 DEF Advance, Data
<1>7. CASE FlushEntry
  BY <1>7 DEF FlushEntry, Readable
<1>8. CASE FlushEnds
  BY <1>8 DEF FlushEnds, Readable, Data
<1>9. CASE PoolWrite
  BY <1>9 DEF PoolWrite, Readable
<1>10. CASE Produce
  BY <1>10, ProduceRing DEF Produce, Data
<1>11. CASE Expire \/ StopLogListener \/ Join \/ Shutdown \/ Finished \/ UNCHANGED vars
  BY <1>11 DEF Expire, StopLogListener, Join, Shutdown, Finished, vars, Readable
<1> QED
  BY <1>1, <1>2, <1>3, <1>4, <1>5, <1>6, <1>7, <1>8, <1>9, <1>10, <1>11 DEF Next, process

LEMMA TakenStep == Data /\ WorkerInv /\ TakenInv /\ [Next]_vars => TakenInv'
<1> SUFFICES ASSUME Data, WorkerInv, TakenInv, [Next]_vars PROVE TakenInv'
  OBVIOUS
<1> USE DEF TakenInv
<1>0. Len(queue) \in Nat /\ Len(buffer) \in Nat
  BY LenProperties DEF Data
<1>1. CASE handle_log_event
  BY <1>0, <1>1, HandleBuffer DEF handle_log_event
<1>2. CASE FlushEntry
  BY <1>0, <1>2, FlushedEntry DEF FlushEntry
<1>3. CASE PoolWrite
  BY <1>0, <1>3, QueueTail DEF PoolWrite
<1>4. CASE FlushEnds
  BY <1>4 DEF FlushEnds
<1>5. CASE UNCHANGED <<buffer, queue>>
  BY <1>5
<1>6. CASE Start \/ Loop \/ Poll \/ Advance \/ ProcessEnds \/ Check \/ Final \/ Free
  BY <1>5, <1>6, Zenon DEF Start, Loop, Poll, Advance, ProcessEnds, Check, Final, Free
<1>7. CASE Produce \/ Expire \/ StopLogListener \/ Join \/ Shutdown \/ Finished \/ UNCHANGED vars
  BY <1>5, <1>7, Zenon DEF Produce, Expire, StopLogListener, Join, Shutdown, Finished, vars
<1> QED
  BY <1>1, <1>2, <1>3, <1>4, <1>6, <1>7 DEF Next, process

LEMMA InvStep == Inv /\ [Next]_vars => Inv'
  BY FlagsStep, DataStep, WorkerStep, TakenStep DEF Inv

\* The places of the worker and of main keep to their types and ring, buffer
\* and queue within their sizes.
THEOREM TypeCorrect == Spec => []TypeOK
<1>1. Inv => TypeOK
  BY TypeParts DEF Inv
<1> QED
  BY InitInv, InvStep, <1>1, PTL DEF Spec

\* When main is past spdlog::shutdown, nothing that the worker took is left in
\* the buffer or in the queue of the pool.
THEOREM NothingHeldBackCorrect == Spec => []NothingHeldBack
<1>1. Inv => NothingHeldBack
  BY DEF Inv, WorkerInv, NothingHeldBack
<1> QED
  BY InitInv, InvStep, <1>1, PTL DEF Spec

-----------------------------------------------------------------------------
(* Facts about sequences. *)

LEMMA AppendToConcat ==
  ASSUME NEW S, NEW s \in Seq(S), NEW t \in Seq(S), NEW e \in S
  PROVE  s \o Append(t, e) = Append(s \o t, e)
<1>1. Append(t, e) = t \o <<e>> /\ <<e>> \in Seq(S)
  BY AppendIsConcat
<1>2. s \o t \in Seq(S)
  BY ConcatProperties
<1>3. Append(s \o t, e) = (s \o t) \o <<e>>
  BY <1>2, AppendIsConcat
<1> QED
  BY <1>1, <1>3, ConcatAssociative

\* The head of the second sequence becomes the end of the first.
LEMMA MoveHead ==
  ASSUME NEW S, NEW s \in Seq(S), NEW t \in Seq(S), t # <<>>
  PROVE  t[1] \in S /\ Append(s, t[1]) \o Tail(t) = s \o t
<1>1. Len(t) \in Nat \ {0} /\ Len(s) \in Nat
  BY EmptySeq, LenProperties
<1>2. t[1] \in S
  BY <1>1, ElementOfSeq
<1> DEFINE u == Append(s, t[1])
           w == Tail(t)
           left == u \o w
           right == s \o t
           k == Len(s)
           m == Len(t)
<1>3. /\ u \in Seq(S) /\ Len(u) = k + 1
      /\ \A i \in 1 .. k : u[i] = s[i]
      /\ u[k + 1] = t[1]
  BY <1>2, AppendProperties
<1>4. /\ w \in Seq(S) /\ Len(w) = m - 1
      /\ \A i \in 1 .. m - 1 : w[i] = t[i + 1]
  BY HeadTailProperties
<1>5. /\ right \in Seq(S) /\ Len(right) = k + m
      /\ \A i \in 1 .. k + m : right[i] = IF i <= k THEN s[i] ELSE t[i - k]
  BY ConcatProperties
<1> HIDE DEF u, w
<1>6. /\ left \in Seq(S) /\ Len(left) = Len(u) + Len(w)
      /\ \A i \in 1 .. Len(u) + Len(w) : left[i] = IF i <= Len(u) THEN u[i] ELSE w[i - Len(u)]
  BY <1>3, <1>4, ConcatProperties, Zenon
<1>7. k \in Nat /\ m \in Nat \ {0}
  BY <1>1
<1> HIDE DEF left, right, k, m
<1>8. /\ Len(left) = k + m
      /\ \A i \in 1 .. k + m : left[i] = IF i <= k + 1 THEN u[i] ELSE w[i - (k + 1)]
  BY <1>3, <1>4, <1>6, <1>7
<1>9. ASSUME NEW i \in 1 .. k + m PROVE left[i] = right[i]
  <2>1. CASE i <= k
    BY <1>3, <1>5, <1>7, <1>8, <2>1
  <2>2. CASE i = k + 1
    BY <1>3, <1>5, <1>7, <1>8, <2>2
  <2>3. CASE i > k + 1
    <3>1. i - (k + 1) \in 1 .. m - 1 /\ (i - (k + 1)) + 1 = i - k
      BY <1>7, <2>3
    <3>2. left[i] = w[i - (k + 1)]
      BY <1>7, <1>8, <2>3
    <3>3. w[i - (k + 1)] = t[i - k]
      BY <1>4, <3>1
    <3>4. right[i] = t[i - k]
      BY <1>5, <1>7, <2>3
    <3> QED
      BY <3>2, <3>3, <3>4
  <2> QED
    BY <1>7, <2>1, <2>2, <2>3
<1>10. left = right
  BY <1>5, <1>6, <1>8, <1>9, SeqEqual
<1> QED
  BY <1>2, <1>10 DEF u, w, left, right

LEMMA TailOfConcat ==
  ASSUME NEW S, NEW s \in Seq(S), NEW t \in Seq(S), s # <<>>
  PROVE  /\ s \o t # <<>> /\ (s \o t)[1] = s[1]
         /\ Tail(s \o t) = Tail(s) \o t
<1>1. Len(s) \in Nat \ {0} /\ Len(t) \in Nat
  BY EmptySeq, LenProperties
<1>2. /\ s \o t \in Seq(S) /\ Len(s \o t) = Len(s) + Len(t)
      /\ \A i \in 1 .. Len(s) + Len(t) : (s \o t)[i] = IF i <= Len(s) THEN s[i] ELSE t[i - Len(s)]
  BY ConcatProperties
<1>3. s \o t # <<>> /\ (s \o t)[1] = s[1]
  BY <1>1, <1>2, EmptySeq
<1>4. /\ Tail(s) \in Seq(S) /\ Len(Tail(s)) = Len(s) - 1
      /\ \A i \in 1 .. Len(s) - 1 : Tail(s)[i] = s[i + 1]
  BY HeadTailProperties
<1>5. /\ Tail(s \o t) \in Seq(S) /\ Len(Tail(s \o t)) = Len(s) + Len(t) - 1
      /\ \A i \in 1 .. Len(s) + Len(t) - 1 : Tail(s \o t)[i] = (s \o t)[i + 1]
  BY <1>1, <1>2, <1>3, HeadTailProperties
<1>6. /\ Tail(s) \o t \in Seq(S) /\ Len(Tail(s) \o t) = Len(s) + Len(t) - 1
      /\ \A i \in 1 .. Len(s) + Len(t) - 1 :
           (Tail(s) \o t)[i] = IF i <= Len(s) - 1 THEN Tail(s)[i] ELSE t[i - (Len(s) - 1)]
  BY <1>1, <1>4, ConcatProperties
<1>7. ASSUME NEW i \in 1 .. Len(s) + Len(t) - 1 PROVE Tail(s \o t)[i] = (Tail(s) \o t)[i]
  <2>1. CASE i <= Len(s) - 1
    BY <1>1, <1>2, <1>4, <1>5, <1>6, <2>1
  <2>2. CASE i > Len(s) - 1
    <3>1. (i + 1) - Len(s) = i - (Len(s) - 1) /\ i + 1 \in 1 .. Len(s) + Len(t) /\ ~(i + 1 <= Len(s))
      BY <1>1, <2>2
    <3> QED
      BY <1>1, <1>2, <1>5, <1>6, <2>2, <3>1
  <2> QED
    BY <1>1, <2>1, <2>2
<1>8. Tail(s \o t) = Tail(s) \o t
  BY <1>5, <1>6, <1>7, SeqEqual
<1> QED
  BY <1>3, <1>8

-----------------------------------------------------------------------------
(* Pending. *)

\* Pending in three parts.
Rest == SubSeq(buffer, flushed + 1, Len(buffer))
InRing == IF Held THEN Tail(ring) ELSE ring

LEMMA PendingParts ==
  ASSUME Data, WorkerInv
  PROVE  /\ Pending = (queue \o Rest) \o InRing
         /\ queue \in Seq(Records) /\ Rest \in Seq(Records) /\ InRing \in Seq(Records)
         /\ queue \o Rest \in Seq(Records)
         /\ Len(Rest) = Len(buffer) - flushed
         /\ \A i \in 1 .. Len(buffer) - flushed : Rest[i] = buffer[flushed + i]
<1> DEFINE m == flushed + 1
           n == Len(buffer)
<1>1. m \in Int /\ n \in Int /\ flushed \in Nat /\ flushed <= n
  BY LenProperties DEF Data
<1>2. \A i \in m .. n : buffer[i] \in Records
  BY ElementOfSeq, LenProperties DEF Data
<1>3. /\ Rest \in Seq(Records)
      /\ Len(Rest) = IF m <= n THEN n - m + 1 ELSE 0
      /\ \A i \in 1 .. n - m + 1 : Rest[i] = buffer[m + i - 1]
  BY <1>1, <1>2, SubSeqProperties, SMTT(30) DEF Rest
<1>4. /\ Len(Rest) = Len(buffer) - flushed
      /\ \A i \in 1 .. Len(buffer) - flushed : Rest[i] = buffer[flushed + i]
  BY <1>1, <1>3
<1>5. InRing \in Seq(Records)
  BY TailRing DEF InRing, Data
<1>6. queue \in Seq(Records) /\ queue \o Rest \in Seq(Records)
  BY <1>3, ConcatProperties DEF Data
<1>7. Pending = (queue \o Rest) \o InRing
  BY Zenon DEF Pending, Rest, InRing, Held
<1> QED
  BY <1>3, <1>4, <1>5, <1>6, <1>7, Zenon

\* The callback: the head of the ring is now the end of the buffer.
LEMMA HandlePending ==
  ASSUME Inv, Inv', handle_log_event
  PROVE  Pending' = Pending
<1>1. Data /\ WorkerInv /\ Data' /\ WorkerInv'
  BY DEF Inv
<1>2. flushed = 0 /\ flushed' = 0 /\ ring' = ring /\ queue' = queue /\ ring # <<>>
  BY <1>1, HandleBuffer DEF WorkerInv, handle_log_event
<1>3. ~Held /\ Held'
  BY DEF handle_log_event, Held
<1>4. Rest = buffer /\ Rest' = buffer'
  BY <1>1, <1>2, SubSeqFull DEF Rest, Data
<1>5. buffer' = Append(buffer, ring[1]) /\ ring[1] \in Records
  BY <1>1, HandleBuffer
<1>6. queue \o Rest' = Append(queue \o Rest, ring[1])
  BY <1>1, <1>4, <1>5, AppendToConcat, PendingParts
<1>7. InRing = ring /\ InRing' = Tail(ring)
  BY <1>2, <1>3 DEF InRing
<1>8. Append(queue \o Rest, ring[1]) \o Tail(ring) = (queue \o Rest) \o ring
  BY <1>1, <1>2, MoveHead, PendingParts, Zenon DEF Data
<1>9. Pending' = (queue' \o Rest') \o InRing'
  BY Zenon DEF Pending, Rest, InRing, Held
<1> QED
  BY <1>1, <1>2, <1>6, <1>7, <1>8, <1>9, PendingParts, Zenon

\* flush: an entry of the buffer is now the end of the queue.
LEMMA FlushPending ==
  ASSUME Inv, Inv', FlushEntry
  PROVE  Pending' = Pending
<1>1. Data /\ WorkerInv /\ Data' /\ WorkerInv'
  BY DEF Inv
<1>2. flushed + 1 \in 1 .. Len(buffer) /\ queue' = Append(queue, buffer[flushed + 1])
  BY <1>1, FlushedEntry
<1>3. ring' = ring /\ buffer' = buffer /\ flushed' = flushed + 1 /\ worker' = worker /\ after' = after
  BY DEF FlushEntry
<1>4. Len(buffer) \in flushed + 1 .. Len(buffer)
  BY <1>1, <1>2, LenProperties DEF Data
<1>5. Head(Rest) = buffer[flushed + 1] /\ Tail(Rest) = SubSeq(buffer, (flushed + 1) + 1, Len(buffer))
  BY <1>1, <1>2, <1>4, HeadTailOfSubSeq DEF Rest, Data
<1>6. Rest # <<>>
  <2>1. Len(Rest) # 0
    BY <1>1, <1>2, PendingParts, LenProperties, SMTT(30) DEF Data
  <2> QED
    BY <2>1, EmptySeq
<1>7. Rest' = Tail(Rest) /\ queue' = Append(queue, Rest[1])
  <2>1. Rest' = Tail(Rest)
    BY <1>3, <1>5, Zenon DEF Rest
  <2>2. Rest[1] = buffer[flushed + 1]
    BY <1>1, <1>2, PendingParts, LenProperties DEF Data
  <2> QED
    BY <1>2, <2>1, <2>2
<1>8. Append(queue, Rest[1]) \o Tail(Rest) = queue \o Rest
  BY <1>1, <1>6, MoveHead, PendingParts, Zenon
<1>9. InRing' = InRing
  BY <1>3 DEF InRing, Held
<1>10. Pending' = (queue' \o Rest') \o InRing'
  BY Zenon DEF Pending, Rest, InRing, Held
<1> QED
  BY <1>1, <1>7, <1>8, <1>9, <1>10, PendingParts, Zenon

\* The end of flush and the other steps of the worker leave Pending alone.
LEMMA WorkerPending ==
  ASSUME Inv, Inv', process
  PROVE  Pending' = Pending
<1>0. Data /\ WorkerInv /\ Data'
  BY DEF Inv
<1>1. CASE handle_log_event
  BY <1>1, HandlePending
<1>2. CASE FlushEntry
  BY <1>2, FlushPending
<1>3. CASE FlushEnds
  <2>1. Rest = <<>>
    BY <1>0, <1>3, SubSeqEmpty, LenProperties DEF FlushEnds, Rest, Data
  <2>2. Rest' = <<>>
    <3>1. buffer' = <<>> /\ flushed' = 0 /\ Len(buffer') = 0
      BY <1>3 DEF FlushEnds
    <3> QED
      BY <3>1, SubSeqEmpty DEF Rest
  <2>3. queue' = queue /\ InRing' = InRing
    BY <1>0, <1>3 DEF FlushEnds, InRing, Held, Data
  <2> QED
    BY <2>1, <2>2, <2>3, Zenon DEF Pending, Rest, InRing, Held
<1>4. CASE Advance
  <2>1. Rest' = Rest /\ queue' = queue /\ InRing' = InRing
    BY <1>4 DEF Advance, Rest, InRing, Held
  <2> QED
    BY <2>1, Zenon DEF Pending, Rest, InRing, Held
<1>5. CASE Start \/ Loop \/ Poll \/ ProcessEnds \/ Check \/ Final \/ Free
  <2>1. UNCHANGED <<queue, buffer, flushed, ring>>
    BY <1>5, Zenon DEF Start, Loop, Poll, ProcessEnds, Check, Final, Free
  <2>2. ~Held /\ ~Held'
    BY <1>5 DEF Start, Loop, Poll, ProcessEnds, Check, Final, Free, Held
  <2> QED
    BY <2>1, <2>2, Zenon DEF Pending, Held
<1> QED
  BY <1>1, <1>2, <1>3, <1>4, <1>5 DEF process

\* A write to the file takes the first pending record, which is not busy.
LEMMA WritePending ==
  ASSUME Inv, Inv', PoolWrite
  PROVE  Fifo!consume
<1>1. Data /\ WorkerInv /\ TakenInv
  BY DEF Inv
<1>2. queue # <<>> /\ queue' = Tail(queue)
  BY <1>1, QueueTail
<1>3. Rest' = Rest /\ InRing' = InRing
  BY DEF PoolWrite, Rest, InRing, Held
<1>4. queue[1].st # "busy"
  BY <1>1, <1>2, EmptySeq DEF TakenInv, Data
<1>5. queue \o Rest # <<>> /\ (queue \o Rest)[1] = queue[1] /\ Tail(queue \o Rest) = Tail(queue) \o Rest
  BY <1>1, <1>2, TailOfConcat, PendingParts, Zenon
<1>6. /\ Pending # <<>> /\ Pending[1] = (queue \o Rest)[1]
      /\ Tail(Pending) = Tail(queue \o Rest) \o InRing
  <2> DEFINE x == queue \o Rest
  <2>1. x \in Seq(Records) /\ InRing \in Seq(Records) /\ x # <<>> /\ Pending = x \o InRing
    BY <1>1, <1>5, PendingParts
  <2> HIDE DEF x
  <2>2. x \o InRing # <<>> /\ (x \o InRing)[1] = x[1] /\ Tail(x \o InRing) = Tail(x) \o InRing
    BY <2>1, TailOfConcat
  <2> QED
    BY <2>1, <2>2, Zenon DEF x
<1>7. Pending' = (queue' \o Rest') \o InRing'
  BY Zenon DEF Pending, Rest, InRing, Held
<1>8. Pending' = Tail(Pending)
  BY <1>2, <1>3, <1>5, <1>6, <1>7, Zenon
<1> QED
  BY <1>4, <1>5, <1>6, <1>8, Zenon DEF Fifo!consume, Fifo!Readable

\* Whatever comes before the ring is not busy, and neither is the record that
\* is in the buffer as well.
LEMMA Taken ==
  ASSUME Inv
  PROVE  \A i \in 1 .. Len(queue \o Rest) : (queue \o Rest)[i].st # "busy"
<1>1. Data /\ WorkerInv /\ TakenInv
  BY DEF Inv
<1> DEFINE q == Len(queue)
           r == Len(Rest)
<1>2. /\ Len(queue \o Rest) = q + r
      /\ \A i \in 1 .. q + r : (queue \o Rest)[i] = IF i <= q THEN queue[i] ELSE Rest[i - q]
  BY <1>1, PendingParts, ConcatProperties
<1>3. q \in Nat /\ r \in Nat /\ flushed \in Nat
  BY <1>1, PendingParts, LenProperties DEF Data
<1>4. \A i \in 1 .. q : queue[i].st # "busy"
  BY <1>1 DEF TakenInv
<1>5. \A i \in 1 .. r : Rest[i].st # "busy"
  <2>1. TAKE i \in 1 .. r
  <2>2. Rest[i] = buffer[flushed + i] /\ flushed + i \in 1 .. Len(buffer)
    BY <1>1, <1>3, PendingParts, LenProperties DEF Data
  <2> QED
    BY <1>1, <2>2 DEF TakenInv
<1> HIDE DEF q, r
<1>6. TAKE i \in 1 .. Len(queue \o Rest)
<1>7. CASE i <= q
  BY <1>2, <1>3, <1>4, <1>7, SMTT(30)
<1>8. CASE i > q
  <2>1. i - q \in 1 .. r /\ i \in 1 .. q + r /\ ~(i <= q)
    BY <1>2, <1>3, <1>8
  <2> QED
    BY <1>2, <1>5, <2>1
<1> QED
  BY <1>2, <1>3, <1>7, <1>8

LEMMA InRingElements ==
  ASSUME Inv
  PROVE  /\ Len(InRing) \in Nat /\ Len(ring) \in Nat
         /\ Held => /\ Len(ring) > 0 /\ Len(InRing) = Len(ring) - 1 /\ ring[1].st # "busy"
                    /\ \A i \in 1 .. Len(ring) - 1 : InRing[i] = ring[i + 1]
         /\ ~Held => InRing = ring
<1>1. Data /\ WorkerInv
  BY DEF Inv
<1>2. Len(InRing) \in Nat /\ Len(ring) \in Nat
  BY <1>1, PendingParts, LenProperties DEF Data
<1>3. CASE Held
  BY <1>1, <1>2, <1>3, TailRing, EmptySeq DEF InRing, Data
<1>4. CASE ~Held
  BY <1>2, <1>4 DEF InRing
<1> QED
  BY <1>3, <1>4

\* Where the elements of Pending come from.
LEMMA PendingElements ==
  ASSUME Inv
  PROVE  LET n == Len(queue \o Rest)
         IN  /\ n \in Nat /\ Len(InRing) \in Nat
             /\ DOMAIN Pending = 1 .. n + Len(InRing)
             /\ Pending \in Seq(Records) /\ Len(Pending) = n + Len(InRing)
             /\ \A i \in 1 .. n + Len(InRing) :
                  Pending[i] = IF i <= n THEN (queue \o Rest)[i] ELSE InRing[i - n]
<1> DEFINE x == queue \o Rest
<1>1. x \in Seq(Records) /\ InRing \in Seq(Records) /\ Pending = x \o InRing
  BY PendingParts DEF Inv
<1> HIDE DEF x
<1>2. /\ Pending \in Seq(Records) /\ Len(Pending) = Len(x) + Len(InRing)
      /\ \A i \in 1 .. Len(x) + Len(InRing) :
           Pending[i] = IF i <= Len(x) THEN x[i] ELSE InRing[i - Len(x)]
  BY <1>1, ConcatProperties
<1>3. /\ Len(x) \in Nat /\ Len(InRing) \in Nat /\ DOMAIN Pending = 1 .. Len(Pending)
  BY <1>1, <1>2, LenProperties
<1> QED
  BY <1>2, <1>3, Zenon DEF x

\* A processor has a record in flight in Pending if it has one in the ring.
LEMMA PendingInFlight ==
  ASSUME Inv, NEW c \in CPUs
  PROVE  Fifo!InFlight(c) <=> InFlight(c)
<1> DEFINE x == queue \o Rest
           n == Len(x)
           m == Len(InRing)
           l == Len(ring)
<1>1. /\ n \in Nat /\ m \in Nat /\ DOMAIN Pending = 1 .. n + m
      /\ \A i \in 1 .. n + m : Pending[i] = IF i <= n THEN x[i] ELSE InRing[i - n]
  BY PendingElements
<1>2. \A i \in 1 .. n : x[i].st # "busy"
  BY Taken
<1>3. /\ l \in Nat /\ DOMAIN ring = 1 .. l
      /\ Held => l > 0 /\ m = l - 1 /\ ring[1].st # "busy" /\ \A i \in 1 .. l - 1 : InRing[i] = ring[i + 1]
      /\ ~Held => InRing = ring /\ m = l
  BY InRingElements, LenProperties DEF Inv, Data
<1> HIDE DEF x, n, m, l
<1>4. ASSUME NEW i \in DOMAIN Pending, Pending[i].cpu = c, Pending[i].st = "busy"
      PROVE  \E k \in DOMAIN ring : ring[k].cpu = c /\ ring[k].st = "busy"
  <2>1. i > n
    BY <1>1, <1>2, <1>4
  <2>2. i - n \in 1 .. m /\ Pending[i] = InRing[i - n]
    BY <1>1, <2>1
  <2>3. CASE Held
    <3>1. i - n + 1 \in 1 .. l /\ ring[i - n + 1] = InRing[i - n]
      BY <1>1, <1>3, <2>2, <2>3
    <3> QED
      BY <1>3, <1>4, <2>2, <3>1
  <2>4. CASE ~Held
    BY <1>3, <1>4, <2>2, <2>4
  <2> QED
    BY <2>3, <2>4
<1>5. ASSUME NEW k \in DOMAIN ring, ring[k].cpu = c, ring[k].st = "busy"
      PROVE  \E i \in DOMAIN Pending : Pending[i].cpu = c /\ Pending[i].st = "busy"
  <2>1. PICK j \in 1 .. m : InRing[j] = ring[k]
    <3>1. CASE Held
      <4>1. k - 1 \in 1 .. m /\ (k - 1) + 1 = k
        BY <1>3, <1>5, <3>1
      <4> QED
        BY <1>3, <3>1, <4>1
    <3>2. CASE ~Held
      BY <1>3, <3>2
    <3> QED
      BY <3>1, <3>2
  <2>2. n + j \in 1 .. n + m /\ ~(n + j <= n) /\ (n + j) - n = j
    BY <1>1
  <2>3. Pending[n + j] = ring[k]
    BY <1>1, <2>1, <2>2
  <2> QED
    BY <1>1, <1>5, <2>2, <2>3
<1> QED
  BY <1>4, <1>5 DEF InFlight, Busy, Fifo!InFlight, Fifo!Busy

LEMMA ReservePending ==
  ASSUME Inv, NEW c \in CPUs, NEW ip \in IPs, reserve(c, ip),
         UNCHANGED <<queue, buffer, flushed, worker, after>>
  PROVE  Fifo!reserve(c, ip)
<1> DEFINE x == queue \o Rest
<1>1. x \in Seq(Records) /\ InRing \in Seq(Records) /\ Pending = x \o InRing
  BY PendingParts DEF Inv
<1>2. New(c, ip) \in Records /\ ring' = Append(ring, New(c, ip)) /\ ring \in Seq(Records)
  BY ReserveRing DEF Inv, Data
<1>3. InRing' = Append(InRing, New(c, ip))
  <2>1. CASE Held
    <3>1. ring # <<>>
      BY <2>1, TailRing DEF Inv
    <3>2. Tail(Append(ring, New(c, ip))) = Append(Tail(ring), New(c, ip))
      BY <1>2, <3>1, HeadTailAppend
    <3> QED
      BY <1>2, <2>1, <3>2 DEF InRing, Held
  <2>2. CASE ~Held
    BY <1>2, <2>2 DEF InRing, Held
  <2> QED
    BY <2>1, <2>2
<1>4. Pending' = x \o InRing'
  BY Zenon DEF Pending, Rest, InRing, Held
<1> HIDE DEF x
<1>5. Pending' = Append(x \o InRing, New(c, ip))
  BY <1>1, <1>2, <1>3, <1>4, AppendToConcat
<1> QED
  BY <1>1, <1>5, Zenon DEF Fifo!reserve, New

LEMMA SubmitPending ==
  ASSUME Inv, NEW c \in CPUs, NEW v \in Verdicts, submit(c, v),
         UNCHANGED <<queue, buffer, flushed, worker, after>>
  PROVE  Fifo!submit(c, v)
<1> DEFINE x == queue \o Rest
           n == Len(x)
           m == Len(InRing)
           l == Len(ring)
           Set(rec) == IF rec.cpu = c /\ rec.st = "busy" THEN [rec EXCEPT !.st = v] ELSE rec
<1>1. /\ n \in Nat /\ m \in Nat /\ DOMAIN Pending = 1 .. n + m
      /\ \A i \in 1 .. n + m : Pending[i] = IF i <= n THEN x[i] ELSE InRing[i - n]
  BY PendingElements
<1>2. \A i \in 1 .. n : x[i].st # "busy"
  BY Taken
<1>3. /\ l \in Nat
      /\ Held => l > 0 /\ m = l - 1 /\ ring # <<>> /\ \A i \in 1 .. l - 1 : InRing[i] = ring[i + 1]
      /\ ~Held => InRing = ring /\ m = l
  BY InRingElements, TailRing DEF Inv
<1>4. /\ ring' \in Seq(Records) /\ Len(ring') = l
      /\ \A i \in 1 .. l : ring'[i] = Set(ring[i])
  BY SubmitRing, SMTT(30) DEF Inv, Data, Busy
<1>5. Held' = Held /\ InRing' = IF Held THEN Tail(ring') ELSE ring'
  BY DEF Held, InRing
<1>6. x \in Seq(Records) /\ Pending' = x \o InRing'
  <2>1. Pending' = x \o InRing'
    BY Zenon DEF Pending, Rest, InRing, Held
  <2> QED
    BY <2>1, PendingParts DEF Inv
<1> HIDE DEF x, n, m, l, Set
<1>7. /\ InRing' \in Seq(Records) /\ Len(InRing') = m
      /\ \A i \in 1 .. m : InRing'[i] = Set(InRing[i])
  <2>1. CASE Held
    <3>1. ring' # <<>>
      BY <1>3, <1>4, <2>1, EmptySeq
    <3>2. /\ Tail(ring') \in Seq(Records) /\ Len(Tail(ring')) = l - 1
          /\ \A i \in 1 .. l - 1 : Tail(ring')[i] = ring'[i + 1]
      BY <1>4, <3>1, HeadTailProperties
    <3>3. \A i \in 1 .. l - 1 : ring'[i + 1] = Set(ring[i + 1])
      BY <1>3, <1>4
    <3> QED
      BY <1>3, <1>5, <2>1, <3>2, <3>3, Zenon
  <2>2. CASE ~Held
    BY <1>3, <1>4, <1>5, <2>2
  <2> QED
    BY <2>1, <2>2
<1>8. /\ x \o InRing' \in Seq(Records) /\ Len(x \o InRing') = n + m
      /\ \A i \in 1 .. n + m : (x \o InRing')[i] = IF i <= n THEN x[i] ELSE InRing'[i - n]
  BY <1>6, <1>7, ConcatProperties, Zenon DEF n
<1>9. ASSUME NEW i \in 1 .. n + m PROVE Pending'[i] = Set(Pending[i])
  <2>1. CASE i <= n
    <3>1. Pending'[i] = x[i] /\ Pending[i] = x[i] /\ x[i].st # "busy"
      BY <1>1, <1>2, <1>6, <1>8, <2>1
    <3> QED
      BY <3>1 DEF Set
  <2>2. CASE i > n
    <3>1. i - n \in 1 .. m /\ ~(i <= n)
      BY <1>1, <2>2
    <3> QED
      BY <1>1, <1>6, <1>7, <1>8, <3>1, Zenon
  <2> QED
    BY <1>1, <2>1, <2>2
<1>10. Pending' \in Seq(Records) /\ Len(Pending') = n + m
  BY <1>6, <1>8, Zenon
<1>11. Pending' = [i \in 1 .. n + m |-> Pending'[i]]
  BY <1>10
<1>12. Pending' = [i \in DOMAIN Pending |-> Set(Pending[i])]
  BY <1>1, <1>9, <1>11, Zenon
<1> QED
  BY <1>12, Zenon DEF Fifo!submit, Fifo!Busy, Set

\* Every step is a step of the queue or leaves it alone.
LEMMA FifoStep == Inv /\ Inv' /\ [Next]_vars => [Fifo!FifoNext]_Pending
<1> SUFFICES ASSUME Inv, Inv', [Next]_vars PROVE [Fifo!FifoNext]_Pending
  OBVIOUS
<1>1. CASE process
  BY <1>1, WorkerPending
<1>2. CASE PoolWrite
  BY <1>2, WritePending DEF Fifo!FifoNext
<1>3. CASE Produce
  <2>1. UNCHANGED <<queue, buffer, flushed, worker, after>>
    BY <1>3 DEF Produce
  <2>2. PICK c \in CPUs : \/ ~InFlight(c) /\ \E ip \in IPs : reserve(c, ip)
                          \/ InFlight(c) /\ \E v \in Verdicts : submit(c, v)
    BY <1>3, Zenon DEF Produce
  <2>3. ASSUME ~InFlight(c), NEW ip \in IPs, reserve(c, ip) PROVE Fifo!FifoNext
    <3>1. ~Fifo!InFlight(c) /\ Fifo!reserve(c, ip)
      BY <2>1, <2>3, ReservePending, PendingInFlight
    <3> QED
      BY <3>1, Zenon DEF Fifo!FifoNext
  <2>4. ASSUME InFlight(c), NEW v \in Verdicts, submit(c, v) PROVE Fifo!FifoNext
    <3>1. Fifo!InFlight(c) /\ Fifo!submit(c, v)
      BY <2>1, <2>4, SubmitPending, PendingInFlight
    <3> QED
      BY <3>1, Zenon DEF Fifo!FifoNext, Fifo!Verdicts, Verdicts
  <2> QED
    BY <2>2, <2>3, <2>4
<1>4. CASE Expire \/ StopLogListener \/ Join \/ Shutdown \/ Finished \/ UNCHANGED vars
  <2>1. UNCHANGED <<queue, buffer, flushed, worker, after, ring>>
    BY <1>4, Zenon DEF Expire, StopLogListener, Join, Shutdown, Finished, vars
  <2> QED
    BY <2>1, Zenon DEF Pending
<1> QED
  BY <1>1, <1>2, <1>3, <1>4 DEF Next

\* Ring, buffer and queue together are the queue that PacketRing promises: on
\* its way to the file no record is lost, written twice or overtaken.
THEOREM LogRefinesFifo == Spec => LogIsFifo
<1>1. Init => Fifo!RingInit
  <2> SUFFICES ASSUME Init PROVE Pending = <<>>
    BY DEF Fifo!RingInit
  <2>1. queue = <<>> /\ ring = <<>> /\ ~Held
    BY DEF Init, RingInit, Held
  <2>2. Rest = <<>>
    <3>1. Len(buffer) = 0 /\ flushed = 0
      BY DEF Init
    <3> QED
      BY <3>1, SubSeqEmpty DEF Rest
  <2>3. Pending = (queue \o Rest) \o InRing
    BY Zenon DEF Pending, Rest, InRing, Held
  <2>4. (<<>> \o <<>>) \o <<>> = <<>>
    BY ConcatEmptySeq, EmptySeq
  <2> QED
    BY <2>1, <2>2, <2>3, <2>4 DEF InRing
<1> QED
  BY InitInv, InvStep, FifoStep, <1>1, PTL DEF Spec, LogIsFifo, Fifo!FifoSpec

=============================================================================
