--------------------------- MODULE RingMemoryProofs ---------------------------
(***************************************************************************)
(* For any number of CPUs, any size of the pages and any number of records *)
(* the ring in shared memory delivers what was written, implements the     *)
(* queue of PacketRing and wakes a reader that sleeps on a record.         *)
(***************************************************************************)
EXTENDS RingMemory, SequenceTheorems, TLAPS

-----------------------------------------------------------------------------
(* Arithmetic: lengths, and places in memory. *)

LEMMA LengthIs == RecordLen = 6 /\ roundup_len(SampleLen) = 6
  BY MemoryAssumption DEF RecordLen, roundup_len, SampleLen, HeaderLen

LEMMA DivMod ==
  ASSUME NEW a \in Int, NEW w \in Int, w > 0 PROVE a = (a \div w) * w + (a % w)
  BY SMT

\* Two positions less than the length of the ring apart have different places.
LEMMA Apart ==
  ASSUME NEW a \in Nat, NEW b \in Nat, NEW w \in Nat, w > 0, a < b, b - a < w
  PROVE  a % w # b % w
<1> SUFFICES ASSUME a % w = b % w PROVE FALSE
  OBVIOUS
<1>1. PICK p \in Int : a = p * w + (a % w)
  <2>1. a \div w \in Int /\ a = (a \div w) * w + (a % w)
    BY DivMod
  <2> QED
    BY <2>1, Zenon
<1>2. PICK q \in Int : b = q * w + (b % w)
  <2>1. b \div w \in Int /\ b = (b \div w) * w + (b % w)
    BY DivMod
  <2> QED
    BY <2>1, Zenon
<1>3. a % w \in Int
  OBVIOUS
<1>4. b - a = (q - p) * w
  BY <1>1, <1>2, <1>3
<1>5. CASE q - p >= 1
  <2>1. (q - p) * w >= w
    BY <1>5
  <2> QED
    BY <1>4, <2>1
<1>6. CASE q - p <= 0
  <2>1. (q - p) * w <= 0
    BY <1>6
  <2> QED
    BY <1>4, <2>1
<1> QED
  BY <1>5, <1>6

\* The word at a position.
Cell(m, p) == m[p % Words]

Pages == [0 .. Words - 1 -> Nat]

\* The pages m after a store.
Put(m, p, v) == [m EXCEPT ![p % Words] = v]

\* A store changes the word at its position and none that is near enough.
LEMMA StoreWord ==
  ASSUME NEW m0 \in Pages, NEW p \in Nat, NEW v \in Nat
  PROVE  /\ Put(m0, p, v) \in Pages /\ Cell(Put(m0, p, v), p) = v
         /\ \A q \in Nat : q # p /\ q - p < Words /\ p - q < Words => Cell(Put(m0, p, v), q) = Cell(m0, q)
<1>1. Words \in Nat /\ Words > 0
  BY MemoryAssumption
<1>2. \A q \in Nat : q % Words \in 0 .. Words - 1
  BY <1>1
<1>3. Put(m0, p, v) \in Pages /\ Put(m0, p, v)[p % Words] = v
  BY <1>2, Zenon DEF Put, Pages
<1>4. ASSUME NEW q \in Nat, q # p, q - p < Words, p - q < Words PROVE Cell(Put(m0, p, v), q) = Cell(m0, q)
  <2>1. q % Words # p % Words
    <3>1. CASE q < p
      BY <1>1, <1>4, <3>1, Apart
    <3>2. CASE p < q
      BY <1>1, <1>4, <3>2, Apart
    <3> QED
      BY <1>4, <3>1, <3>2
  <2>2. Put(m0, p, v)[q % Words] = m0[q % Words]
    BY <1>2, <2>1, Zenon DEF Put, Pages
  <2> QED
    BY <2>2, Zenon DEF Cell
<1> QED
  BY <1>3, <1>4, Zenon DEF Cell

-----------------------------------------------------------------------------
(* The invariant.  Positions are multiples of RecordLen, in the order        *)
(* consumer_pos, cons_pos, prod_pos, producer_pos, and within one length of  *)
(* the ring, so that no two words between them share a place in memory.      *)

At(i) == (i - 1) * RecordLen

\* Records whose room the kernel may use again, and records the reader is past.
Freed == consumer_pos \div RecordLen
Taken == cons_pos \div RecordLen
Known == prod_pos \div RecordLen

\* c has reserved record i and not submitted it.
Owns(c, i) == cpu[c] \in {"fill", "judge", "submit"} /\ log[c] = At(i)

Owned(i) == \E c \in CPUs : Owns(c, i)

PosInv ==
  /\ producer_pos = Len(written) * RecordLen
  /\ consumer_pos = Freed * RecordLen
  /\ cons_pos = Taken * RecordLen
  /\ prod_pos = Known * RecordLen
  /\ consumer_pos <= cons_pos /\ cons_pos <= prod_pos /\ prod_pos <= producer_pos
  /\ producer_pos - consumer_pos < Words

\* A record in flight lies ahead of the reader.
OwnerInv ==
  \A c \in CPUs : cpu[c] \in {"fill", "judge", "submit"} =>
    \E i \in Taken + 1 .. Len(written) :
      /\ log[c] = At(i) /\ written[i].cpu = c
      /\ written[i].st = "busy" <=> cpu[c] # "submit"

\* What memory holds of the records whose room is in use.
RecordInv ==
  \A i \in Freed + 1 .. Len(written) :
    /\ Cell(mem, At(i)) = IF Owned(i) THEN SampleLen + BusyBit ELSE SampleLen
    /\ Owned(i) \/ written[i].st # "busy"
    /\ \/ Cell(mem, At(i) + HeaderLen) = written[i].ip
       \/ \E c \in CPUs : Owns(c, i) /\ cpu[c] = "fill"
    /\ written[i].st # "busy" =>
         Cell(mem, At(i) + HeaderLen + 2) = IF written[i].st = "PASS" THEN 1 ELSE 0

\* The reader takes a record only when it is submitted.
ReaderInv ==
  /\ reader \in {"sample", "store"} => cons_pos < prod_pos /\ ~Owned(Taken + 1)
  /\ Len(delivered) = IF reader = "store" THEN Taken + 1 ELSE Taken
  /\ DeliveredAsWritten

Inv == TypeOK /\ PosInv /\ OwnerInv /\ RecordInv /\ ReaderInv

\* What the positions say of the numbers of records.
LEMMA Numbers ==
  ASSUME TypeOK, PosInv
  PROVE  /\ Len(written) \in Nat /\ Freed \in Nat /\ Taken \in Nat /\ Known \in Nat
         /\ producer_pos = Len(written) * 6 /\ consumer_pos = Freed * 6
         /\ cons_pos = Taken * 6 /\ prod_pos = Known * 6
         /\ Freed <= Taken /\ Taken <= Known /\ Known <= Len(written)
         /\ Len(written) * 6 - Freed * 6 < Words
<1>1. /\ producer_pos \in Nat /\ consumer_pos \in Nat /\ cons_pos \in Nat /\ prod_pos \in Nat
      /\ Len(written) \in Nat
  BY DEF TypeOK
<1>2. Freed = consumer_pos \div 6 /\ Taken = cons_pos \div 6 /\ Known = prod_pos \div 6
  BY LengthIs, Zenon DEF Freed, Taken, Known
<1>3. Freed \in Nat /\ Taken \in Nat /\ Known \in Nat
  BY <1>1, <1>2
<1>4. /\ producer_pos = Len(written) * 6 /\ consumer_pos = Freed * 6
      /\ cons_pos = Taken * 6 /\ prod_pos = Known * 6
  BY LengthIs, Zenon DEF PosInv
<1>5. Freed <= Taken /\ Taken <= Known /\ Known <= Len(written)
      /\ Len(written) * 6 - Freed * 6 < Words
  BY <1>1, <1>3, <1>4, SMTT(30) DEF PosInv
<1> QED
  BY <1>1, <1>3, <1>4, <1>5

LEMMA Place == \A i : At(i) = (i - 1) * 6
  BY LengthIs, Zenon DEF At

\* The record of c in the history is the one it owns.
LEMMA OwnRecord ==
  ASSUME TypeOK, PosInv, OwnerInv, NEW c \in CPUs, cpu[c] \in {"fill", "judge", "submit"}
  PROVE  \E i \in Taken + 1 .. Len(written) :
           /\ Own(c) = i /\ Owns(c, i) /\ written[i].cpu = c /\ i \in DOMAIN written
           /\ written[i].st = "busy" <=> cpu[c] # "submit"
           /\ \A d \in CPUs : Owns(d, i) => d = c
<1>1. PICK i \in Taken + 1 .. Len(written) :
        /\ log[c] = At(i) /\ written[i].cpu = c
        /\ written[i].st = "busy" <=> cpu[c] # "submit"
  BY Zenon DEF OwnerInv
<1>2. Taken \in Nat /\ Len(written) \in Nat
  BY Numbers
<1>3. i \in DOMAIN written /\ DOMAIN written = 1 .. Len(written)
  BY <1>2 DEF TypeOK
<1>4. ASSUME NEW j \in Int, At(j) = At(i) PROVE j = i
  <2>1. (j - 1) * 6 = (i - 1) * 6
    BY <1>4, Place, Zenon
  <2> QED
    BY <1>2, <2>1
<1>5. Own(c) = i
  <2>1. \A j : (j - 1) * RecordLen = At(j)
    BY Zenon DEF At
  <2>2. /\ Own(c) \in DOMAIN written /\ (Own(c) - 1) * RecordLen = log[c]
    BY <1>1, <1>3, <2>1, Zenon DEF Own
  <2>3. Own(c) \in Int
    BY <1>2, <1>3, <2>2
  <2> QED
    BY <1>1, <1>4, <2>1, <2>2, <2>3, Zenon
<1>6. ASSUME NEW d \in CPUs, Owns(d, i) PROVE d = c
  <2>1. PICK j \in Taken + 1 .. Len(written) : log[d] = At(j) /\ written[j].cpu = d
    BY <1>6, Zenon DEF OwnerInv, Owns
  <2>2. j = i
    BY <1>2, <1>4, <1>6, <2>1 DEF Owns
  <2> QED
    BY <1>1, <2>1, <2>2
<1> QED
  BY <1>1, <1>3, <1>5, <1>6, Zenon DEF Owns

-----------------------------------------------------------------------------
(* Steps of the reader. *)

LEMMA InitMemory == Init => Inv
<1> SUFFICES ASSUME Init PROVE Inv
  OBVIOUS
<1>1. TypeOK
  <2>1. /\ mem \in [0 .. Words - 1 -> Nat] /\ log \in [CPUs -> Nat]
        /\ cpu \in [CPUs -> {"idle", "fill", "judge", "submit", "wakeup"}]
        /\ {producer_pos, consumer_pos, cons_pos, prod_pos} \subseteq Nat
    BY DEF Init
  <2>2. written \in Seq(Samples) /\ delivered \in Seq([ip : IPs, is_passed : {0, 1}])
    BY DEF Init
  <2>3. reader = "add" /\ got_new_data \in BOOLEAN /\ ready \in BOOLEAN
    BY Zenon DEF Init
  <2> QED
    BY <2>1, <2>2, <2>3, Zenon DEF TypeOK
<1>2. Freed = 0 /\ Taken = 0 /\ Known = 0 /\ Len(written) = 0 /\ Len(delivered) = 0
  BY LengthIs DEF Init, Freed, Taken, Known
<1>3. PosInv
  BY <1>2, LengthIs, MemoryAssumption DEF Init, PosInv
<1>4. OwnerInv
  BY DEF Init, OwnerInv
<1>5. RecordInv
  BY <1>2 DEF RecordInv
<1>6. ReaderInv
  BY <1>2 DEF Init, ReaderInv, DeliveredAsWritten
<1> QED
  BY <1>1, <1>3, <1>4, <1>5, <1>6 DEF Inv

LEMMA RecordKept ==
  ASSUME RecordInv, UNCHANGED <<mem, consumer_pos, kernelVars>> PROVE RecordInv'
<1>1. UNCHANGED <<mem, consumer_pos, producer_pos, cpu, log, written>>
  BY Zenon DEF kernelVars
<1>2. Freed' = Freed /\ \A i : Owned(i)' <=> Owned(i)
  BY <1>1, Zenon DEF Freed, Owned, Owns
<1>3. \A c, i : Owns(c, i)' <=> Owns(c, i)
  BY <1>1, Zenon DEF Owns
<1> QED
  BY <1>1, <1>2, <1>3, Zenon DEF RecordInv

\* The reader reads positions and goes to another place.
LEMMA Looking ==
  ASSUME Inv, UNCHANGED <<mem, consumer_pos, kernelVars, cons_pos>>,
         prod_pos' = prod_pos \/ prod_pos' = producer_pos
  PROVE  PosInv' /\ OwnerInv' /\ RecordInv' /\ Taken' = Taken /\ \A i : Owned(i)' <=> Owned(i)
<1>1. UNCHANGED <<mem, consumer_pos, producer_pos, cpu, log, written, cons_pos>>
  BY Zenon DEF kernelVars
<1>2. Freed' = Freed /\ Taken' = Taken /\ \A i : Owned(i)' <=> Owned(i)
  BY <1>1, Zenon DEF Freed, Taken, Owned, Owns
<1>3. prod_pos' = Known' * 6 /\ cons_pos <= prod_pos' /\ prod_pos' <= producer_pos
  <2>1. CASE prod_pos' = prod_pos
    BY <2>1, LengthIs DEF Inv, PosInv, Known
  <2>2. CASE prod_pos' = producer_pos
    <3>1. /\ Len(written) \in Nat /\ producer_pos = Len(written) * 6 /\ cons_pos = Taken * 6
          /\ Taken \in Nat /\ Taken <= Len(written)
      BY Numbers DEF Inv
    <3>2. Known' = Len(written)
      BY <2>2, <3>1, LengthIs DEF Known
    <3> QED
      BY <2>2, <3>1, <3>2
  <2> QED
    BY <2>1, <2>2
<1>4. PosInv'
  BY <1>1, <1>2, <1>3, LengthIs, Zenon DEF Inv, PosInv
<1>5. OwnerInv'
  BY <1>1, <1>2, Zenon DEF Inv, OwnerInv
<1>6. RecordInv'
  BY RecordKept DEF Inv
<1> QED
  BY <1>2, <1>4, <1>5, <1>6

LEMMA AddStep == Inv /\ Add => Inv'
<1> SUFFICES ASSUME Inv, Add PROVE Inv'
  OBVIOUS
<1>1. /\ UNCHANGED <<mem, consumer_pos, kernelVars, cons_pos, prod_pos, got_new_data, delivered>>
      /\ reader = "add" /\ reader' = "poll" /\ ready' \in BOOLEAN
  BY Zenon DEF Add
<1>2. PosInv' /\ OwnerInv' /\ RecordInv' /\ Taken' = Taken
  BY <1>1, Looking, Zenon
<1>3. TypeOK'
  BY <1>1, Zenon DEF Inv, TypeOK, kernelVars
<1>4. ReaderInv'
  BY <1>1, <1>2 DEF Inv, ReaderInv, DeliveredAsWritten, kernelVars
<1> QED
  BY <1>2, <1>3, <1>4 DEF Inv

LEMMA PollStep == Inv /\ Poll => Inv'
<1> SUFFICES ASSUME Inv, Poll PROVE Inv'
  OBVIOUS
<1>1. /\ UNCHANGED <<mem, consumer_pos, kernelVars, cons_pos, prod_pos, got_new_data, delivered>>
      /\ reader = "poll" /\ reader' \in {"poll", "process"} /\ ready' \in BOOLEAN
  BY Zenon DEF Poll
<1>2. PosInv' /\ OwnerInv' /\ RecordInv' /\ Taken' = Taken
  BY <1>1, Looking, Zenon
<1>3. TypeOK'
  BY <1>1, Zenon DEF Inv, TypeOK, kernelVars
<1>4. ReaderInv'
  BY <1>1, <1>2 DEF Inv, ReaderInv, DeliveredAsWritten, kernelVars
<1> QED
  BY <1>2, <1>3, <1>4 DEF Inv

LEMMA ProcessStep == Inv /\ Process => Inv'
<1> SUFFICES ASSUME Inv, Process PROVE Inv'
  OBVIOUS
<1>1. /\ UNCHANGED <<mem, consumer_pos, ready, kernelVars, cons_pos, delivered>>
      /\ reader = "process" /\ reader' = "head" /\ prod_pos' = producer_pos
      /\ got_new_data' = FALSE
  BY Zenon DEF Process
<1>2. PosInv' /\ OwnerInv' /\ RecordInv' /\ Taken' = Taken
  BY <1>1, Looking, Zenon
<1>3. TypeOK'
  BY <1>1, Zenon DEF Inv, TypeOK, kernelVars
<1>4. ReaderInv'
  BY <1>1, <1>2 DEF Inv, ReaderInv, DeliveredAsWritten, kernelVars
<1> QED
  BY <1>2, <1>3, <1>4 DEF Inv

\* The record at cons_pos, when there is one.
LEMMA HeadRecord ==
  ASSUME Inv, cons_pos < prod_pos
  PROVE  /\ Taken + 1 \in Freed + 1 .. Len(written) /\ At(Taken + 1) = cons_pos
         /\ cons_pos \in Nat
<1>1. /\ Len(written) \in Nat /\ Freed \in Nat /\ Taken \in Nat /\ Known \in Nat
      /\ cons_pos = Taken * 6 /\ prod_pos = Known * 6
      /\ Freed <= Taken /\ Taken <= Known /\ Known <= Len(written)
  BY Numbers DEF Inv
<1>2. Taken < Known
  BY <1>1
<1>3. At(Taken + 1) = Taken * 6
  BY <1>1, LengthIs DEF At
<1> QED
  BY <1>1, <1>2, <1>3

LEMMA InspectStep == Inv /\ Inspect => Inv'
<1> SUFFICES ASSUME Inv, Inspect PROVE Inv'
  OBVIOUS
<1>1. /\ UNCHANGED <<mem, consumer_pos, ready, kernelVars, cons_pos, prod_pos, delivered>>
      /\ reader = "head" /\ reader' \in {"poll", "process", "sample"}
      /\ got_new_data' \in BOOLEAN
      /\ reader' = "sample" => cons_pos < prod_pos /\ ~(Cell(mem, cons_pos) >= BusyBit)
  BY Zenon DEF Inspect, Inv, TypeOK, Word, Cell
<1>2. /\ PosInv' /\ OwnerInv' /\ RecordInv' /\ Taken' = Taken
      /\ \A i : Owned(i)' <=> Owned(i)
  BY <1>1, Looking, Zenon
<1>3. TypeOK'
  BY <1>1, Zenon DEF Inv, TypeOK, kernelVars
<1>4. ASSUME reader' = "sample" PROVE ~Owned(Taken + 1)
  <2>1. Taken + 1 \in Freed + 1 .. Len(written) /\ At(Taken + 1) = cons_pos
    BY <1>1, <1>4, HeadRecord
  <2>2. Owned(Taken + 1) => Cell(mem, cons_pos) = SampleLen + BusyBit
    BY <2>1, Zenon DEF Inv, RecordInv
  <2>3. SampleLen + BusyBit >= BusyBit
    BY MemoryAssumption DEF SampleLen
  <2> QED
    BY <1>1, <1>4, <2>2, <2>3
<1>5. ReaderInv'
  <2>1. reader # "store" /\ reader' # "store"
    BY <1>1
  <2>2. /\ UNCHANGED <<cons_pos, prod_pos, delivered, written>>
        /\ Len(delivered) = Taken /\ DeliveredAsWritten
    BY <1>1, <2>1, Zenon DEF Inv, ReaderInv, kernelVars
  <2>3. DeliveredAsWritten'
    BY <2>2, Zenon DEF DeliveredAsWritten
  <2>4. reader' \in {"sample", "store"} => cons_pos < prod_pos /\ ~Owned(Taken + 1)
    BY <1>1, <1>4, <2>1, Zenon
  <2> QED
    BY <1>2, <2>1, <2>2, <2>3, <2>4, Zenon DEF ReaderInv
<1> QED
  BY <1>2, <1>3, <1>5 DEF Inv


LEMMA SampleStep == Inv /\ Sample => Inv'
<1> SUFFICES ASSUME Inv, Sample PROVE Inv'
  OBVIOUS
<1> DEFINE x == [ip |-> Cell(mem, cons_pos + HeaderLen), is_passed |-> Cell(mem, cons_pos + HeaderLen + 2)]
           k == Taken + 1
<1>1. /\ UNCHANGED <<mem, consumer_pos, ready, kernelVars, cons_pos, prod_pos, got_new_data>>
      /\ reader = "sample" /\ reader' = "store" /\ delivered' = Append(delivered, x)
      /\ written' = written
  BY Zenon DEF Sample, kernelVars, Word, Cell
<1>2. /\ PosInv' /\ OwnerInv' /\ RecordInv' /\ Taken' = Taken
      /\ \A i : Owned(i)' <=> Owned(i)
  BY <1>1, Looking, Zenon
<1>3. cons_pos < prod_pos /\ ~Owned(k) /\ Len(delivered) = Taken /\ DeliveredAsWritten
  BY <1>1 DEF Inv, ReaderInv
<1>4. k \in Freed + 1 .. Len(written) /\ At(k) = cons_pos
  BY <1>3, HeadRecord
<1>5. /\ Cell(mem, cons_pos + HeaderLen) = written[k].ip /\ written[k].st # "busy"
      /\ Cell(mem, cons_pos + HeaderLen + 2) = IF written[k].st = "PASS" THEN 1 ELSE 0
  BY <1>3, <1>4, Zenon DEF Inv, RecordInv, Owned
<1>6. Taken \in Nat /\ Freed \in Nat /\ Len(written) \in Nat
  BY Numbers DEF Inv
<1>7. written[k] \in Samples
  BY <1>4, <1>6 DEF Inv, TypeOK
<1>8. /\ x.ip = written[k].ip /\ x \in [ip : IPs, is_passed : {0, 1}]
      /\ written[k].st = IF x.is_passed = 1 THEN "PASS" ELSE "DROP"
  BY <1>5, <1>7 DEF Samples
<1> HIDE DEF x
<1>9. delivered \in Seq([ip : IPs, is_passed : {0, 1}])
  BY Zenon DEF Inv, TypeOK
<1>10. /\ delivered' \in Seq([ip : IPs, is_passed : {0, 1}]) /\ Len(delivered') = k
       /\ \A i \in 1 .. Taken : delivered'[i] = delivered[i]
       /\ delivered'[k] = x
  BY <1>1, <1>3, <1>8, <1>9, AppendProperties
<1>11. TypeOK'
  BY <1>1, <1>10, Zenon DEF Inv, TypeOK, kernelVars
<1>12. DeliveredAsWritten'
  <2>1. DOMAIN delivered = 1 .. Taken /\ DOMAIN delivered' = 1 .. k
    BY <1>3, <1>9, <1>10
  <2>2. k <= Len(written)
    BY <1>4, <1>6
  <2>3. ASSUME NEW i \in 1 .. k
        PROVE  /\ delivered'[i].ip = written[i].ip
               /\ written[i].st = IF delivered'[i].is_passed = 1 THEN "PASS" ELSE "DROP"
    <3>1. CASE i = k
      BY <1>8, <1>10, <3>1, Zenon
    <3>2. CASE i \in 1 .. Taken
      BY <1>3, <1>10, <2>1, <3>2, Zenon DEF DeliveredAsWritten
    <3> QED
      BY <1>6, <3>1, <3>2
  <2> QED
    BY <1>1, <1>10, <2>1, <2>2, <2>3, Zenon DEF DeliveredAsWritten
<1>13. ReaderInv'
  BY <1>1, <1>2, <1>3, <1>10, <1>12, Zenon DEF ReaderInv
<1> QED
  BY <1>2, <1>11, <1>13 DEF Inv

LEMMA AdvanceStep == Inv /\ Advance => Inv'
<1> SUFFICES ASSUME Inv, Advance PROVE Inv'
  OBVIOUS
<1>1. /\ UNCHANGED <<mem, consumer_pos, ready, kernelVars, prod_pos, got_new_data, delivered>>
      /\ UNCHANGED <<producer_pos, cpu, log, written>>
      /\ reader = "store" /\ reader' = "head"
  BY Zenon DEF Advance, kernelVars
<1>2. cons_pos < prod_pos /\ ~Owned(Taken + 1) /\ Len(delivered) = Taken + 1
      /\ DeliveredAsWritten
  BY <1>1 DEF Inv, ReaderInv
<1>3. Taken + 1 \in Freed + 1 .. Len(written) /\ At(Taken + 1) = cons_pos
  BY <1>2, HeadRecord
<1>4. Cell(mem, cons_pos) = SampleLen
  BY <1>2, <1>3, Zenon DEF Inv, RecordInv
<1>5. cons_pos' = cons_pos + 6
  BY <1>4, LengthIs, Zenon DEF Advance, Word, Cell
<1>6. /\ Len(written) \in Nat /\ Freed \in Nat /\ Taken \in Nat /\ Known \in Nat
      /\ consumer_pos = Freed * 6 /\ cons_pos = Taken * 6 /\ prod_pos = Known * 6
      /\ Freed <= Taken /\ Taken <= Known /\ Known <= Len(written)
  BY Numbers DEF Inv
<1>7. Taken' = Taken + 1
  BY <1>5, <1>6, LengthIs DEF Taken
<1>8. TypeOK'
  <2>1. cons_pos' \in Nat
    BY <1>5, <1>6
  <2> QED
    BY <1>1, <2>1, Zenon DEF Inv, TypeOK
<1>9. PosInv'
  <2>1. Freed' = Freed /\ Known' = Known
    BY <1>1, Zenon DEF Freed, Known
  <2>2. cons_pos' = Taken' * 6 /\ consumer_pos <= cons_pos' /\ cons_pos' <= prod_pos
    BY <1>2, <1>5, <1>6, <1>7
  <2> QED
    BY <1>1, <2>1, <2>2, LengthIs, Zenon DEF Inv, PosInv
<1>10. OwnerInv'
  <2> SUFFICES ASSUME NEW c \in CPUs, cpu[c] \in {"fill", "judge", "submit"}
               PROVE  \E i \in Taken + 1 + 1 .. Len(written) :
                        /\ log[c] = At(i) /\ written[i].cpu = c
                        /\ written[i].st = "busy" <=> cpu[c] # "submit"
    BY <1>1, <1>7, Zenon DEF OwnerInv
  <2>1. PICK i \in Taken + 1 .. Len(written) :
          /\ log[c] = At(i) /\ written[i].cpu = c
          /\ written[i].st = "busy" <=> cpu[c] # "submit"
    BY Zenon DEF Inv, OwnerInv
  <2>2. i # Taken + 1
    BY <1>2, <2>1, Zenon DEF Owned, Owns
  <2>3. i \in Taken + 1 + 1 .. Len(written)
    BY <1>6, <2>2
  <2> QED
    BY <2>1, <2>3, Zenon
<1>11. RecordInv'
  BY <1>1, RecordKept DEF Inv
<1>12. ReaderInv'
  <2>1. DeliveredAsWritten'
    BY <1>1, <1>2, Zenon DEF DeliveredAsWritten
  <2>2. Len(delivered') = Taken'
    BY <1>1, <1>2, <1>7
  <2> QED
    BY <1>1, <2>1, <2>2 DEF ReaderInv
<1> QED
  BY <1>8, <1>9, <1>10, <1>11, <1>12 DEF Inv

LEMMA VisibleStep == Inv /\ Visible => Inv'
<1> SUFFICES ASSUME Inv, Visible PROVE Inv'
  OBVIOUS
<1>1. /\ UNCHANGED <<mem, ready, kernelVars, readerVars>>
      /\ UNCHANGED <<producer_pos, cpu, log, written>>
      /\ UNCHANGED <<reader, cons_pos, prod_pos, got_new_data, delivered>>
      /\ consumer_pos < cons_pos /\ consumer_pos' = consumer_pos + 6
  BY LengthIs, Zenon DEF Visible, kernelVars, readerVars
<1>2. /\ Len(written) \in Nat /\ Freed \in Nat /\ Taken \in Nat
      /\ consumer_pos = Freed * 6 /\ cons_pos = Taken * 6 /\ producer_pos = Len(written) * 6
      /\ Freed <= Taken /\ Len(written) * 6 - Freed * 6 < Words
  BY Numbers DEF Inv
<1>3. Freed' = Freed + 1
  BY <1>1, <1>2, LengthIs DEF Freed
<1>4. TypeOK'
  <2>1. consumer_pos' \in Nat
    BY <1>1, <1>2
  <2> QED
    BY <1>1, <2>1, Zenon DEF Inv, TypeOK
<1>5. Taken' = Taken /\ Known' = Known /\ \A i : Owned(i)' <=> Owned(i)
  BY <1>1, Zenon DEF Taken, Known, Owned, Owns
<1>6. PosInv'
  <2>1. /\ consumer_pos' = Freed' * 6 /\ consumer_pos' <= cons_pos
        /\ producer_pos - consumer_pos' < Words
    BY <1>1, <1>2, <1>3, MemoryAssumption
  <2> QED
    BY <1>1, <1>5, <2>1, LengthIs, Zenon DEF Inv, PosInv
<1>7. OwnerInv'
  BY <1>1, <1>5, Zenon DEF Inv, OwnerInv
<1>8. RecordInv'
  <2>1. \A c, i : Owns(c, i)' <=> Owns(c, i)
    BY <1>1, Zenon DEF Owns
  <2>2. \A i \in Freed + 1 + 1 .. Len(written) : i \in Freed + 1 .. Len(written)
    BY <1>2
  <2> QED
    BY <1>1, <1>3, <1>5, <2>1, <2>2, Zenon DEF Inv, RecordInv
<1>9. ReaderInv'
  <2>1. DeliveredAsWritten'
    BY <1>1, Zenon DEF Inv, ReaderInv, DeliveredAsWritten
  <2> QED
    BY <1>1, <1>5, <2>1, Zenon DEF Inv, ReaderInv
<1> QED
  BY <1>4, <1>6, <1>7, <1>8, <1>9 DEF Inv


-----------------------------------------------------------------------------
(* Steps of a producer. *)

\* From m0 to m1 no word of the records f+1 .. n changes but word d of record k.
Elsewhere(m0, m1, f, n, k, d) ==
  \A i \in f + 1 .. n, e \in 0 .. 5 :
    i # k \/ e # d => Cell(m1, At(i) + e) = Cell(m0, At(i) + e)

\* p is word d of record k, one of the records f+1 .. n that fit into the pages.
InRecord(p, f, n, k, d) ==
  /\ f \in Nat /\ n \in Nat /\ n * 6 - f * 6 < Words
  /\ k \in f + 1 .. n /\ d \in 0 .. 5 /\ p = At(k) + d

\* A store inside record k leaves the words of the other records in use alone.
LEMMA OtherWords ==
  ASSUME NEW m0 \in Pages, NEW v \in Nat, NEW p, NEW f, NEW n, NEW k, NEW d,
         InRecord(p, f, n, k, d)
  PROVE  /\ Put(m0, p, v) \in Pages /\ Cell(Put(m0, p, v), p) = v
         /\ Elsewhere(m0, Put(m0, p, v), f, n, k, d)
<1>0. /\ f \in Nat /\ n \in Nat /\ n * 6 - f * 6 < Words
      /\ k \in f + 1 .. n /\ d \in 0 .. 5 /\ p = At(k) + d
  BY Zenon DEF InRecord
<1>1. p \in Nat /\ At(k) = (k - 1) * 6 /\ p = (k - 1) * 6 + d
  BY <1>0, Place
<1>2. Put(m0, p, v) \in Pages /\ Cell(Put(m0, p, v), p) = v
  BY <1>1, StoreWord, SMTT(30)
<1>3. ASSUME NEW q \in Nat, q # p, q - p < Words, p - q < Words
      PROVE  Cell(Put(m0, p, v), q) = Cell(m0, q)
  BY <1>1, <1>3, StoreWord, SMT
<1>4. ASSUME NEW i \in f + 1 .. n, NEW e \in 0 .. 5, i # k \/ e # d
      PROVE  Cell(Put(m0, p, v), At(i) + e) = Cell(m0, At(i) + e)
  <2>1. At(i) = (i - 1) * 6
    BY Place
  <2>2. PICK q \in Nat : q = At(i) + e /\ q # p /\ q - p < Words /\ p - q < Words
    BY <1>0, <1>1, <1>4, <2>1, MemoryAssumption
  <2>3. Cell(Put(m0, p, v), q) = Cell(m0, q)
    BY <1>3, <2>2, Zenon
  <2> QED
    BY <2>2, <2>3, Zenon
<1> QED
  BY <1>2, <1>4, Zenon DEF Elsewhere

LEMMA ReserveStep ==
  ASSUME Inv, NEW c \in CPUs, NEW ip \in IPs, Reserve(c, ip) PROVE Inv'
<1> DEFINE x == [cpu |-> c, ip |-> ip, st |-> "busy"]
<1>1. /\ cpu[c] = "idle" /\ producer_pos + 6 - consumer_pos < Words
      /\ Store(producer_pos, SampleLen + BusyBit) /\ producer_pos' = producer_pos + 6
      /\ log' = [log EXCEPT ![c] = producer_pos] /\ cpu' = [cpu EXCEPT ![c] = "fill"]
      /\ written' = Append(written, x) /\ UNCHANGED <<consumer_pos, ready, readerVars>>
      /\ UNCHANGED <<reader, cons_pos, prod_pos, got_new_data, delivered>>
  BY LengthIs, Zenon DEF Reserve, readerVars
<1>2. PICK n \in Nat, f \in Nat, r \in Nat :
        /\ n = Len(written) /\ f = Freed /\ r = Taken
        /\ producer_pos = n * 6 /\ consumer_pos = f * 6 /\ prod_pos \in Nat /\ prod_pos <= n * 6
        /\ f <= r /\ r <= n
  <2>1. /\ Len(written) \in Nat /\ Freed \in Nat /\ Taken \in Nat /\ Known \in Nat
        /\ producer_pos = Len(written) * 6 /\ consumer_pos = Freed * 6 /\ prod_pos = Known * 6
        /\ Freed <= Taken /\ Taken <= Known /\ Known <= Len(written)
    BY Numbers DEF Inv
  <2>2. Taken <= Len(written) /\ prod_pos \in Nat /\ prod_pos <= Len(written) * 6
    BY <2>1
  <2> QED
    BY <2>1, <2>2, Zenon
<1>3. /\ cpu \in [CPUs -> {"idle", "fill", "judge", "submit", "wakeup"}] /\ log \in [CPUs -> Nat]
      /\ written \in Seq(Samples) /\ producer_pos \in Nat
  BY DEF Inv, TypeOK
<1>4. x \in Samples
  BY DEF Samples
<1> HIDE DEF x
<1>5. /\ written' \in Seq(Samples) /\ Len(written') = n + 1 /\ written'[n + 1] = x
      /\ \A i \in 1 .. n : written'[i] = written[i]
  BY <1>1, <1>2, <1>3, <1>4, AppendProperties
<1>6. At(n + 1) = producer_pos
  <2>1. At(n + 1) = n * 6
    BY <1>2, LengthIs DEF At
  <2> QED
    BY <1>2, <2>1
<1>7. /\ mem' \in Pages /\ Cell(mem', At(n + 1)) = SampleLen + BusyBit
      /\ \A i \in f + 1 .. n + 1, e \in 0 .. 5 :
           i # n + 1 \/ e # 0 => Cell(mem', At(i) + e) = Cell(mem, At(i) + e)
  <2>1. PICK m \in Nat, v \in Nat : m = n + 1 /\ v = SampleLen + BusyBit
    BY <1>2, MemoryAssumption DEF SampleLen
  <2>2. InRecord(producer_pos, f, m, m, 0)
    BY <1>1, <1>2, <1>6, <2>1, MemoryAssumption, SMTT(30) DEF InRecord
  <2>3. mem' = Put(mem, producer_pos, v) /\ mem \in Pages
    BY <1>1, <2>1, Zenon DEF Inv, TypeOK, Store, Put, Pages
  <2>4. /\ Put(mem, producer_pos, v) \in Pages
        /\ Cell(Put(mem, producer_pos, v), producer_pos) = v
        /\ Elsewhere(mem, Put(mem, producer_pos, v), f, m, m, 0)
    BY <2>1, <2>2, <2>3, OtherWords, Zenon
  <2> QED
    BY <1>6, <2>1, <2>3, <2>4, Zenon DEF Elsewhere
<1>8. Freed' = f /\ Taken' = r /\ Freed' = Freed /\ Taken' = Taken /\ Known' = Known
  BY <1>1, <1>2, Zenon DEF Freed, Taken, Known
<1>9. TypeOK'
  <2>1. cpu' \in [CPUs -> {"idle", "fill", "judge", "submit", "wakeup"}]
        /\ log' \in [CPUs -> Nat] /\ producer_pos' \in Nat
    BY <1>1, <1>3
  <2> QED
    BY <1>1, <1>5, <1>7, <2>1, Zenon DEF Inv, TypeOK, Pages
<1>10. PosInv'
  <2>1. /\ producer_pos' = Len(written') * 6 /\ prod_pos <= producer_pos'
        /\ producer_pos' - consumer_pos < Words
    BY <1>1, <1>2, <1>5
  <2> QED
    BY <1>1, <1>8, <2>1, LengthIs, Zenon DEF Inv, PosInv
<1>11. cpu'[c] = "fill" /\ log'[c] = producer_pos
       /\ \A d \in CPUs \ {c} : cpu'[d] = cpu[d] /\ log'[d] = log[d]
  BY <1>1, <1>3
<1>12. \A d \in CPUs, i \in 1 .. n : Owns(d, i)' <=> Owns(d, i)
  <2> SUFFICES ASSUME NEW i \in 1 .. n PROVE ~Owns(c, i)' /\ ~Owns(c, i)
    BY <1>11, Zenon DEF Owns
  <2>1. At(i) # producer_pos
    BY <1>2, Place
  <2> QED
    BY <1>1, <1>11, <2>1 DEF Owns
<1>13. OwnerInv'
  <2> SUFFICES ASSUME NEW d \in CPUs, cpu'[d] \in {"fill", "judge", "submit"}
               PROVE  \E i \in r + 1 .. n + 1 :
                        /\ log'[d] = At(i) /\ written'[i].cpu = d
                        /\ written'[i].st = "busy" <=> cpu'[d] # "submit"
    BY <1>5, <1>8, Zenon DEF OwnerInv
  <2>1. CASE d = c
    <3>1. n + 1 \in r + 1 .. n + 1 /\ x.cpu = c /\ x.st = "busy" /\ cpu'[c] # "submit"
      BY <1>2, <1>11 DEF x
    <3> QED
      BY <1>5, <1>6, <1>11, <2>1, <3>1, Zenon
  <2>2. CASE d # c
    <3>1. PICK i \in r + 1 .. n :
            /\ log[d] = At(i) /\ written[i].cpu = d
            /\ written[i].st = "busy" <=> cpu[d] # "submit"
      BY <1>2, <1>11, <2>2, Zenon DEF Inv, OwnerInv
    <3>2. i \in r + 1 .. n + 1 /\ i \in 1 .. n
      BY <1>2
    <3> QED
      BY <1>5, <1>11, <2>2, <3>1, <3>2, Zenon
  <2> QED
    BY <2>1, <2>2
<1>14. RecordInv'
  <2> SUFFICES ASSUME NEW i \in f + 1 .. n + 1
               PROVE  /\ Cell(mem', At(i)) = IF Owned(i)' THEN SampleLen + BusyBit ELSE SampleLen
                      /\ Owned(i)' \/ written'[i].st # "busy"
                      /\ \/ Cell(mem', At(i) + HeaderLen) = written'[i].ip
                         \/ \E d \in CPUs : Owns(d, i)' /\ cpu'[d] = "fill"
                      /\ written'[i].st # "busy" =>
                           Cell(mem', At(i) + HeaderLen + 2) = IF written'[i].st = "PASS" THEN 1 ELSE 0
    BY <1>5, <1>8, Zenon DEF RecordInv
  <2>1. CASE i = n + 1
    <3>1. Owns(c, n + 1)' /\ x.st = "busy"
      BY <1>6, <1>11 DEF Owns, x
    <3> QED
      BY <1>5, <1>7, <1>11, <2>1, <3>1, Zenon DEF Owned
  <2>2. CASE i # n + 1
    <3>1. i \in f + 1 .. n /\ i \in 1 .. n /\ At(i) + 0 = At(i)
          /\ At(i) + HeaderLen = At(i) + 2 /\ At(i) + HeaderLen + 2 = At(i) + 4
      BY <1>2, <2>2, Place, SMTT(30) DEF HeaderLen
    <3>2. /\ Cell(mem', At(i)) = Cell(mem, At(i)) /\ Cell(mem', At(i) + HeaderLen) = Cell(mem, At(i) + HeaderLen)
          /\ Cell(mem', At(i) + HeaderLen + 2) = Cell(mem, At(i) + HeaderLen + 2)
      <4>1. /\ Cell(mem', At(i) + 0) = Cell(mem, At(i) + 0) /\ Cell(mem', At(i) + 2) = Cell(mem, At(i) + 2)
            /\ Cell(mem', At(i) + 4) = Cell(mem, At(i) + 4)
        <5>1. 0 \in 0 .. 5 /\ 2 \in 0 .. 5 /\ 4 \in 0 .. 5
          OBVIOUS
        <5> QED
          BY <1>7, <2>2, <5>1, Zenon
      <4> QED
        BY <3>1, <4>1, Zenon
    <3>3. written'[i] = written[i] /\ (Owned(i)' <=> Owned(i))
      BY <1>5, <1>12, <3>1, Zenon DEF Owned
    <3>4. \A d \in CPUs : Owns(d, i) /\ cpu[d] = "fill" => Owns(d, i)' /\ cpu'[d] = "fill"
      BY <1>11, <1>12, <3>1, Zenon
    <3> QED
      BY <1>2, <3>1, <3>2, <3>3, <3>4, Zenon DEF Inv, RecordInv
  <2> QED
    BY <2>1, <2>2
<1>15. ReaderInv'
  <2>1. reader \in {"sample", "store"} => cons_pos < prod_pos /\ ~Owned(r + 1)'
    <3>1. ASSUME reader \in {"sample", "store"}
          PROVE  cons_pos < prod_pos /\ ~Owned(r + 1) /\ r + 1 \in 1 .. n
      <4>1. cons_pos < prod_pos /\ ~Owned(r + 1)
        BY <1>2, <3>1, Zenon DEF Inv, ReaderInv
      <4>2. r + 1 \in f + 1 .. n
        BY <1>2, <4>1, HeadRecord
      <4> QED
        BY <1>2, <4>1, <4>2
    <3> QED
      BY <1>12, <3>1, Zenon DEF Owned
  <2>2. DeliveredAsWritten'
    <3>1. Len(delivered) <= n /\ DOMAIN delivered = 1 .. Len(delivered) /\ Len(delivered) \in Nat
      BY <1>2 DEF Inv, TypeOK, ReaderInv, DeliveredAsWritten
    <3>2. Len(delivered) <= n + 1 /\ \A i \in DOMAIN delivered : i \in 1 .. n
      BY <1>2, <3>1
    <3> QED
      BY <1>1, <1>5, <3>2, Zenon DEF Inv, ReaderInv, DeliveredAsWritten
  <2> QED
    BY <1>1, <1>8, <2>1, <2>2, Zenon DEF Inv, ReaderInv
<1> QED
  BY <1>9, <1>10, <1>13, <1>14, <1>15 DEF Inv

\* The words of a record that a store elsewhere, or to another word, leaves alone.
LEMMA KeptLen ==
  ASSUME NEW m0, NEW m1, NEW f, NEW n, NEW k, NEW d, Elsewhere(m0, m1, f, n, k, d),
         NEW i \in f + 1 .. n, f \in Nat, i # k \/ d # 0
  PROVE  Cell(m1, At(i)) = Cell(m0, At(i))
<1>1. At(i) + 0 = At(i) /\ 0 \in 0 .. 5
  BY Place
<1> QED
  BY <1>1, Zenon DEF Elsewhere

LEMMA KeptIp ==
  ASSUME NEW m0, NEW m1, NEW f, NEW n, NEW k, NEW d, Elsewhere(m0, m1, f, n, k, d),
         NEW i \in f + 1 .. n, i # k \/ d # 2
  PROVE  Cell(m1, At(i) + HeaderLen) = Cell(m0, At(i) + HeaderLen)
<1>1. 2 \in 0 .. 5
  OBVIOUS
<1> QED
  BY <1>1, Zenon DEF Elsewhere, HeaderLen

LEMMA KeptPassed ==
  ASSUME NEW m0, NEW m1, NEW f, NEW n, NEW k, NEW d, Elsewhere(m0, m1, f, n, k, d),
         NEW i \in f + 1 .. n, f \in Nat, i # k \/ d # 4
  PROVE  Cell(m1, At(i) + HeaderLen + 2) = Cell(m0, At(i) + HeaderLen + 2)
<1>1. At(i) + HeaderLen + 2 = At(i) + 4 /\ 4 \in 0 .. 5
  BY Place DEF HeaderLen
<1> QED
  BY <1>1, Zenon DEF Elsewhere

\* c owns record k; a store into it leaves the other records in use alone.
Mine(c, f, r, n, k) ==
  /\ f = Freed /\ r = Taken /\ n = Len(written) /\ f <= r
  /\ k \in r + 1 .. n /\ k \in f + 1 .. n /\ k \in 1 .. n
  /\ Own(c) = k /\ log[c] = At(k) /\ written[k].cpu = c /\ Owns(c, k)
  /\ written[k].st = "busy" <=> cpu[c] # "submit"
  /\ \A b \in CPUs : Owns(b, k) => b = c
  /\ \A i \in 1 .. n : Owns(c, i) => i = k
  /\ \A d \in 0 .. 5, v \in Nat :
       /\ Put(mem, At(k) + d, v) \in Pages /\ Cell(Put(mem, At(k) + d, v), At(k) + d) = v
       /\ Elsewhere(mem, Put(mem, At(k) + d, v), f, n, k, d)

LEMMA OwnStore ==
  ASSUME Inv, NEW c \in CPUs, cpu[c] \in {"fill", "judge", "submit"}
  PROVE  \E f \in Nat, r \in Nat, n \in Nat, k \in Nat : Mine(c, f, r, n, k)
<1>1. PICK f \in Nat, r \in Nat, n \in Nat :
        f = Freed /\ r = Taken /\ n = Len(written) /\ f <= r /\ n * 6 - f * 6 < Words
  <2>1. /\ Len(written) \in Nat /\ Freed \in Nat /\ Taken \in Nat /\ Freed <= Taken
        /\ Len(written) * 6 - Freed * 6 < Words
    BY Numbers DEF Inv
  <2> QED
    BY <2>1, Zenon
<1>2. PICK k \in r + 1 .. n :
        /\ Own(c) = k /\ Owns(c, k) /\ written[k].cpu = c
        /\ written[k].st = "busy" <=> cpu[c] # "submit"
        /\ \A b \in CPUs : Owns(b, k) => b = c
  BY <1>1, OwnRecord, Zenon DEF Inv
<1>3. k \in f + 1 .. n /\ k \in 1 .. n /\ k \in Nat
  BY <1>1, <1>2
<1>4. log[c] = At(k)
  BY <1>2, Zenon DEF Owns
<1>5. ASSUME NEW i \in 1 .. n, Owns(c, i) PROVE i = k
  <2>1. (i - 1) * 6 = (k - 1) * 6
    BY <1>4, <1>5, Place, Zenon DEF Owns
  <2> QED
    BY <1>1, <1>3, <2>1
<1>6. mem \in Pages
  BY Zenon DEF Inv, TypeOK, Pages
<1>7. ASSUME NEW d \in 0 .. 5, NEW v \in Nat
      PROVE  /\ Put(mem, At(k) + d, v) \in Pages /\ Cell(Put(mem, At(k) + d, v), At(k) + d) = v
             /\ Elsewhere(mem, Put(mem, At(k) + d, v), f, n, k, d)
  <2>1. InRecord(At(k) + d, f, n, k, d)
    BY <1>1, <1>3, Zenon DEF InRecord
  <2> QED
    BY <1>6, <2>1, OtherWords, Zenon
<1>8. Mine(c, f, r, n, k)
  BY <1>1, <1>2, <1>3, <1>4, <1>5, <1>7, Zenon DEF Mine
<1> QED
  BY <1>1, <1>3, <1>8, Zenon

\* Positions and counts when only records and their owners change.
LEMMA SamePlaces ==
  ASSUME Inv, UNCHANGED <<producer_pos, consumer_pos, readerVars>>, Len(written') = Len(written)
  PROVE  PosInv' /\ Freed' = Freed /\ Taken' = Taken
<1>1. UNCHANGED <<reader, cons_pos, prod_pos, got_new_data, delivered>>
  BY Zenon DEF readerVars
<1>2. Freed' = Freed /\ Taken' = Taken /\ Known' = Known
  BY <1>1, Zenon DEF Freed, Taken, Known
<1> QED
  BY <1>1, <1>2, Zenon DEF Inv, PosInv

LEMMA FillStep ==
  ASSUME Inv, NEW c \in CPUs, Fill(c) PROVE Inv'
<1>1. /\ cpu[c] = "fill" /\ cpu' = [cpu EXCEPT ![c] = "judge"]
      /\ Store(log[c] + HeaderLen, written[Own(c)].ip)
      /\ UNCHANGED <<producer_pos, consumer_pos, log, written, ready, readerVars>>
      /\ UNCHANGED <<reader, cons_pos, prod_pos, got_new_data, delivered>>
  BY Zenon DEF Fill, readerVars
<1>2. cpu[c] \in {"fill", "judge", "submit"}
  BY <1>1
<1>3. PICK f \in Nat, r \in Nat, n \in Nat, k \in Nat : Mine(c, f, r, n, k)
  BY <1>2, OwnStore, Zenon
<1>4. /\ f = Freed /\ r = Taken /\ n = Len(written)
      /\ k \in 1 .. n /\ Own(c) = k /\ log[c] = At(k)
      /\ written[k].st = "busy" <=> cpu[c] # "submit"
      /\ \A i \in 1 .. n : Owns(c, i) => i = k
      /\ \A d \in 0 .. 5, v \in Nat :
           /\ Put(mem, At(k) + d, v) \in Pages /\ Cell(Put(mem, At(k) + d, v), At(k) + d) = v
           /\ Elsewhere(mem, Put(mem, At(k) + d, v), f, n, k, d)
  BY <1>3, Zenon DEF Mine
<1>5. /\ mem' \in Pages /\ Cell(mem', At(k) + 2) = written[k].ip
      /\ Elsewhere(mem, mem', f, n, k, 2)
  <2>1. written[k] \in Samples
    BY <1>4 DEF Inv, TypeOK
  <2>2. written[k].ip \in IPs
    BY <2>1 DEF Samples
  <2>3. written[k].ip \in Nat /\ 2 \in 0 .. 5
    <3>1. 2 \in 0 .. 5
      OBVIOUS
    <3> QED
      BY <2>2, <3>1, MemoryAssumption, Zenon
  <2>4. mem' = Put(mem, At(k) + 2, written[k].ip)
    BY <1>1, <1>4, Zenon DEF Store, Put, HeaderLen
  <2> QED
    BY <1>4, <2>2, <2>3, <2>4, Zenon
<1>6. /\ cpu' \in [CPUs -> {"idle", "fill", "judge", "submit", "wakeup"}]
      /\ cpu'[c] = "judge" /\ \A d \in CPUs : d # c => cpu'[d] = cpu[d]
  BY <1>1 DEF Inv, TypeOK
<1>7. TypeOK'
  BY <1>1, <1>5, <1>6, Zenon DEF Inv, TypeOK, Pages
<1>8. PosInv' /\ Freed' = Freed /\ Taken' = Taken
  BY <1>1, SamePlaces, Zenon
<1>9. /\ \A d \in CPUs : \A i : Owns(d, i)' <=> Owns(d, i)
      /\ \A d \in CPUs : cpu'[d] \in {"fill", "judge", "submit"} <=> cpu[d] \in {"fill", "judge", "submit"}
      /\ \A d \in CPUs : cpu'[d] = "submit" <=> cpu[d] = "submit"
  BY <1>1, <1>6 DEF Owns
<1>10. OwnerInv'
  BY <1>1, <1>8, <1>9, ZenonT(30) DEF Inv, OwnerInv
<1>11. RecordInv'
  <2> SUFFICES ASSUME NEW i \in f + 1 .. n
               PROVE  /\ Cell(mem', At(i)) = IF Owned(i)' THEN SampleLen + BusyBit ELSE SampleLen
                      /\ Owned(i)' \/ written[i].st # "busy"
                      /\ \/ Cell(mem', At(i) + HeaderLen) = written[i].ip
                         \/ \E d \in CPUs : Owns(d, i)' /\ cpu'[d] = "fill"
                      /\ written[i].st # "busy" =>
                           Cell(mem', At(i) + HeaderLen + 2) = IF written[i].st = "PASS" THEN 1 ELSE 0
    BY <1>1, <1>4, <1>8, Zenon DEF RecordInv
  <2>1. Owned(i)' <=> Owned(i)
    BY <1>9, Zenon DEF Owned
  <2>2. /\ Cell(mem', At(i)) = Cell(mem, At(i))
        /\ i # k => Cell(mem', At(i) + HeaderLen) = Cell(mem, At(i) + HeaderLen)
        /\ Cell(mem', At(i) + HeaderLen + 2) = Cell(mem, At(i) + HeaderLen + 2)
    <3>1. f \in Nat /\ 2 # 0 /\ 2 # 4
      BY <1>3
    <3>2. Cell(mem', At(i)) = Cell(mem, At(i))
      BY <1>5, <3>1, KeptLen, SMT
    <3>3. i # k => Cell(mem', At(i) + HeaderLen) = Cell(mem, At(i) + HeaderLen)
      BY <1>5, KeptIp, SMT
    <3>4. Cell(mem', At(i) + HeaderLen + 2) = Cell(mem, At(i) + HeaderLen + 2)
      BY <1>5, <3>1, KeptPassed, SMT
    <3> QED
      BY <3>2, <3>3, <3>4, Zenon
  <2>3. \/ Cell(mem', At(i) + HeaderLen) = written[i].ip
        \/ \E d \in CPUs : Owns(d, i)' /\ cpu'[d] = "fill"
    <3>1. CASE i = k
      BY <1>5, <3>1 DEF HeaderLen
    <3>2. CASE i # k
      <4>1. i \in 1 .. n
        BY <1>3
      <4>2. ~Owns(c, i)
        BY <1>4, <3>2, <4>1, Zenon
      <4> QED
        BY <1>4, <1>6, <1>9, <2>2, <3>2, <4>2, Zenon DEF Inv, RecordInv
    <3> QED
      BY <3>1, <3>2
  <2> QED
    BY <1>4, <2>1, <2>2, <2>3, Zenon DEF Inv, RecordInv
<1>12. ReaderInv'
  <2>1. \A i : Owned(i)' <=> Owned(i)
    BY <1>9, Zenon DEF Owned
  <2>2. DeliveredAsWritten'
    BY <1>1, Zenon DEF Inv, ReaderInv, DeliveredAsWritten
  <2> QED
    BY <1>1, <1>8, <2>1, <2>2, Zenon DEF Inv, ReaderInv
<1> QED
  BY <1>7, <1>8, <1>10, <1>11, <1>12 DEF Inv

LEMMA SubmitStep ==
  ASSUME Inv, NEW c \in CPUs, Submit(c) PROVE Inv'
<1>1. /\ cpu[c] = "submit" /\ cpu' = [cpu EXCEPT ![c] = "wakeup"]
      /\ Store(log[c], SampleLen)
      /\ UNCHANGED <<producer_pos, consumer_pos, log, written, ready, readerVars>>
      /\ UNCHANGED <<reader, cons_pos, prod_pos, got_new_data, delivered>>
  BY Zenon DEF Submit, readerVars
<1>2. cpu[c] \in {"fill", "judge", "submit"}
  BY <1>1
<1>3. PICK f \in Nat, r \in Nat, n \in Nat, k \in Nat : Mine(c, f, r, n, k)
  BY <1>2, OwnStore, Zenon
<1>4. /\ f = Freed /\ r = Taken /\ n = Len(written)
      /\ k \in 1 .. n /\ k \in f + 1 .. n /\ log[c] = At(k)
      /\ written[k].st = "busy" <=> cpu[c] # "submit"
      /\ \A b \in CPUs : Owns(b, k) => b = c
      /\ \A i \in 1 .. n : Owns(c, i) => i = k
      /\ \A d \in 0 .. 5, v \in Nat :
           /\ Put(mem, At(k) + d, v) \in Pages /\ Cell(Put(mem, At(k) + d, v), At(k) + d) = v
           /\ Elsewhere(mem, Put(mem, At(k) + d, v), f, n, k, d)
  BY <1>3, Zenon DEF Mine
<1>5. /\ mem' \in Pages /\ Cell(mem', At(k)) = SampleLen
      /\ Elsewhere(mem, mem', f, n, k, 0)
  <2>1. At(k) + 0 = At(k) /\ SampleLen \in Nat /\ 0 \in 0 .. 5
    BY Place DEF SampleLen
  <2>2. mem' = Put(mem, At(k) + 0, SampleLen)
    BY <1>1, <1>4, <2>1, Zenon DEF Store, Put
  <2>3. mem' \in Pages /\ Cell(mem', At(k) + 0) = SampleLen /\ Elsewhere(mem, mem', f, n, k, 0)
    BY <1>4, <2>1, <2>2, Zenon
  <2> QED
    BY <2>1, <2>3, Zenon
<1>6. /\ cpu' \in [CPUs -> {"idle", "fill", "judge", "submit", "wakeup"}]
      /\ cpu'[c] = "wakeup" /\ \A d \in CPUs : d # c => cpu'[d] = cpu[d]
  BY <1>1 DEF Inv, TypeOK
<1>7. TypeOK'
  BY <1>1, <1>5, <1>6, Zenon DEF Inv, TypeOK, Pages
<1>8. PosInv' /\ Freed' = Freed /\ Taken' = Taken
  BY <1>1, SamePlaces, Zenon
<1>9. /\ \A d \in CPUs : \A i : Owns(d, i)' <=> Owns(d, i) /\ d # c
      /\ \A d \in CPUs : cpu'[d] \in {"fill", "judge", "submit"} => d # c
  BY <1>1, <1>6 DEF Owns
<1>10. OwnerInv'
  <2> SUFFICES ASSUME NEW d \in CPUs, cpu'[d] \in {"fill", "judge", "submit"}
               PROVE  \E i \in Taken + 1 .. Len(written) :
                        /\ log[d] = At(i) /\ written[i].cpu = d
                        /\ written[i].st = "busy" <=> cpu'[d] # "submit"
    BY <1>1, <1>8, Zenon DEF OwnerInv
  <2>1. cpu'[d] = cpu[d]
    BY <1>6, <1>9, Zenon
  <2> QED
    BY <2>1, Zenon DEF Inv, OwnerInv
<1>11. RecordInv'
  <2> SUFFICES ASSUME NEW i \in f + 1 .. n
               PROVE  /\ Cell(mem', At(i)) = IF Owned(i)' THEN SampleLen + BusyBit ELSE SampleLen
                      /\ Owned(i)' \/ written[i].st # "busy"
                      /\ \/ Cell(mem', At(i) + HeaderLen) = written[i].ip
                         \/ \E d \in CPUs : Owns(d, i)' /\ cpu'[d] = "fill"
                      /\ written[i].st # "busy" =>
                           Cell(mem', At(i) + HeaderLen + 2) = IF written[i].st = "PASS" THEN 1 ELSE 0
    BY <1>1, <1>4, <1>8, Zenon DEF RecordInv
  <2>1. Owned(i)' <=> Owned(i) /\ i # k
    <3>1. i \in 1 .. n
      BY <1>3
    <3> QED
      BY <1>4, <1>9, <3>1, Zenon DEF Owned
  <2>2. /\ i # k => Cell(mem', At(i)) = Cell(mem, At(i))
        /\ Cell(mem', At(i) + HeaderLen) = Cell(mem, At(i) + HeaderLen)
        /\ Cell(mem', At(i) + HeaderLen + 2) = Cell(mem, At(i) + HeaderLen + 2)
    <3>1. f \in Nat /\ 0 # 2 /\ 0 # 4
      BY <1>3
    <3>2. i # k => Cell(mem', At(i)) = Cell(mem, At(i))
      BY <1>5, <3>1, KeptLen, SMT
    <3>3. Cell(mem', At(i) + HeaderLen) = Cell(mem, At(i) + HeaderLen)
      BY <1>5, <3>1, KeptIp, SMT
    <3>4. Cell(mem', At(i) + HeaderLen + 2) = Cell(mem, At(i) + HeaderLen + 2)
      BY <1>5, <3>1, KeptPassed, SMT
    <3> QED
      BY <3>2, <3>3, <3>4, Zenon
  <2>3. \/ Cell(mem', At(i) + HeaderLen) = written[i].ip
        \/ \E d \in CPUs : Owns(d, i)' /\ cpu'[d] = "fill"
    <3>1. \A d \in CPUs : Owns(d, i) /\ cpu[d] = "fill" => Owns(d, i)' /\ cpu'[d] = "fill"
      BY <1>1, <1>6, <1>9
    <3> QED
      BY <1>4, <2>2, <3>1, Zenon DEF Inv, RecordInv
  <2>4. i = k => written[i].st # "busy"
    BY <1>1, <1>4
  <2> QED
    BY <1>4, <1>5, <2>1, <2>2, <2>3, <2>4, Zenon DEF Inv, RecordInv
<1>12. ReaderInv'
  <2>1. \A i : Owned(i)' => Owned(i)
    BY <1>9, Zenon DEF Owned
  <2>2. DeliveredAsWritten'
    BY <1>1, Zenon DEF Inv, ReaderInv, DeliveredAsWritten
  <2> QED
    BY <1>1, <1>8, <2>1, <2>2, Zenon DEF Inv, ReaderInv
<1> QED
  BY <1>7, <1>8, <1>10, <1>11, <1>12 DEF Inv

LEMMA WakeupStep ==
  ASSUME Inv, NEW c \in CPUs, Wakeup(c) PROVE Inv'
<1>1. /\ cpu[c] = "wakeup" /\ cpu' = [cpu EXCEPT ![c] = "idle"] /\ ready' \in BOOLEAN
      /\ UNCHANGED <<mem, producer_pos, consumer_pos, log, written, readerVars>>
      /\ UNCHANGED <<reader, cons_pos, prod_pos, got_new_data, delivered>>
  BY Zenon DEF Wakeup, readerVars, Inv, TypeOK
<1>2. /\ cpu' \in [CPUs -> {"idle", "fill", "judge", "submit", "wakeup"}]
      /\ cpu'[c] = "idle" /\ \A d \in CPUs : d # c => cpu'[d] = cpu[d]
  BY <1>1 DEF Inv, TypeOK
<1>3. TypeOK'
  BY <1>1, <1>2, Zenon DEF Inv, TypeOK
<1>4. PosInv' /\ Freed' = Freed /\ Taken' = Taken
  BY <1>1, SamePlaces, Zenon
<1>5. /\ \A d \in CPUs : \A i : Owns(d, i)' <=> Owns(d, i)
      /\ \A d \in CPUs : cpu'[d] = "fill" <=> cpu[d] = "fill"
      /\ \A d \in CPUs : cpu'[d] \in {"fill", "judge", "submit"} => cpu'[d] = cpu[d]
  BY <1>1, <1>2 DEF Owns
<1>6. OwnerInv'
  <2> SUFFICES ASSUME NEW d \in CPUs, cpu'[d] \in {"fill", "judge", "submit"}
               PROVE  \E i \in Taken + 1 .. Len(written) :
                        /\ log[d] = At(i) /\ written[i].cpu = d
                        /\ written[i].st = "busy" <=> cpu'[d] # "submit"
    BY <1>1, <1>4, Zenon DEF OwnerInv
  <2>1. cpu'[d] = cpu[d]
    BY <1>5, Zenon
  <2> QED
    BY <2>1, Zenon DEF Inv, OwnerInv
<1>7. \A i : Owned(i)' <=> Owned(i)
  BY <1>5, Zenon DEF Owned
<1>8. RecordInv'
  BY <1>1, <1>4, <1>5, <1>7, Zenon DEF Inv, RecordInv
<1>9. ReaderInv'
  <2>1. DeliveredAsWritten'
    BY <1>1, Zenon DEF Inv, ReaderInv, DeliveredAsWritten
  <2> QED
    BY <1>1, <1>4, <1>7, <2>1, Zenon DEF Inv, ReaderInv
<1> QED
  BY <1>3, <1>4, <1>6, <1>8, <1>9 DEF Inv

LEMMA JudgeStep ==
  ASSUME Inv, NEW c \in CPUs, NEW is_passed \in {0, 1}, Judge(c, is_passed) PROVE Inv'
<1> DEFINE s == IF is_passed = 1 THEN "PASS" ELSE "DROP"
<1>1. /\ cpu[c] = "judge" /\ cpu' = [cpu EXCEPT ![c] = "submit"]
      /\ Store(log[c] + HeaderLen + 2, is_passed)
      /\ written' = [written EXCEPT ![Own(c)].st = s]
      /\ UNCHANGED <<producer_pos, consumer_pos, log, ready, readerVars>>
      /\ UNCHANGED <<reader, cons_pos, prod_pos, got_new_data, delivered>>
  BY Zenon DEF Judge, readerVars
<1>2. cpu[c] \in {"fill", "judge", "submit"}
  BY <1>1
<1>3. PICK f \in Nat, r \in Nat, n \in Nat, k \in Nat : Mine(c, f, r, n, k)
  BY <1>2, OwnStore, Zenon
<1>4. /\ f = Freed /\ r = Taken /\ n = Len(written) /\ f <= r
      /\ k \in r + 1 .. n /\ k \in 1 .. n /\ k \in f + 1 .. n
      /\ Own(c) = k /\ log[c] = At(k) /\ written[k].cpu = c /\ Owns(c, k)
      /\ \A b \in CPUs : Owns(b, k) => b = c
      /\ \A d \in 0 .. 5, v \in Nat :
           /\ Put(mem, At(k) + d, v) \in Pages /\ Cell(Put(mem, At(k) + d, v), At(k) + d) = v
           /\ Elsewhere(mem, Put(mem, At(k) + d, v), f, n, k, d)
  BY <1>3, Zenon DEF Mine
<1>5. /\ mem' \in Pages /\ Cell(mem', At(k) + HeaderLen + 2) = is_passed
      /\ Elsewhere(mem, mem', f, n, k, 4)
  <2>1. At(k) + HeaderLen + 2 = At(k) + 4 /\ is_passed \in Nat /\ 4 \in 0 .. 5
    BY <1>3, Place DEF HeaderLen
  <2>2. mem' = Put(mem, At(k) + 4, is_passed)
    BY <1>1, <1>4, <2>1, Zenon DEF Store, Put
  <2>3. mem' \in Pages /\ Cell(mem', At(k) + 4) = is_passed /\ Elsewhere(mem, mem', f, n, k, 4)
    BY <1>4, <2>1, <2>2, Zenon
  <2> QED
    BY <2>1, <2>3, Zenon
<1>6. /\ cpu' \in [CPUs -> {"idle", "fill", "judge", "submit", "wakeup"}]
      /\ cpu'[c] = "submit" /\ \A d \in CPUs : d # c => cpu'[d] = cpu[d]
  BY <1>1 DEF Inv, TypeOK
<1>7. /\ written' \in Seq(Samples) /\ Len(written') = n
      /\ written'[k].cpu = c /\ written'[k].ip = written[k].ip /\ written'[k].st = s
      /\ \A i \in 1 .. n : i # k => written'[i] = written[i]
  <2>1. written \in Seq(Samples) /\ DOMAIN written = 1 .. n
    BY <1>4 DEF Inv, TypeOK
  <2>2. written[k] \in Samples
    BY <1>4, <2>1
  <2>3. PICK y : y = [written[k] EXCEPT !.st = s]
    BY Zenon
  <2>4. y \in Samples /\ y.cpu = written[k].cpu /\ y.ip = written[k].ip /\ y.st = s
    BY <2>2, <2>3 DEF Samples
  <2>5. written' = [written EXCEPT ![k] = y]
    BY <1>1, <1>4, <2>3, Zenon
  <2>6. /\ written' \in Seq(Samples) /\ Len(written') = n /\ written'[k] = y
        /\ \A i \in 1 .. n : i # k => written'[i] = written[i]
    BY <1>4, <2>1, <2>4, <2>5, ExceptSeq
  <2> QED
    BY <1>4, <2>4, <2>6, Zenon
<1>8. s # "busy" /\ (s = "PASS" <=> is_passed = 1)
  OBVIOUS
<1> HIDE DEF s
<1>9. TypeOK'
  BY <1>1, <1>5, <1>6, <1>7, Zenon DEF Inv, TypeOK, Pages
<1>10. PosInv' /\ Freed' = Freed /\ Taken' = Taken
  BY <1>1, <1>4, <1>7, SamePlaces, Zenon
<1>11. \A d \in CPUs : \A i : Owns(d, i)' <=> Owns(d, i)
  BY <1>1, <1>6 DEF Owns
<1>12. OwnerInv'
  <2>0. Taken' = r /\ Len(written') = n /\ log' = log
    BY <1>1, <1>4, <1>7, <1>10, Zenon
  <2> SUFFICES ASSUME NEW d \in CPUs, cpu'[d] \in {"fill", "judge", "submit"}
               PROVE  \E i \in r + 1 .. n :
                        /\ log[d] = At(i) /\ written'[i].cpu = d
                        /\ written'[i].st = "busy" <=> cpu'[d] # "submit"
    BY <2>0, Zenon DEF OwnerInv
  <2>1. CASE d = c
    BY <1>4, <1>6, <1>7, <1>8, <2>1, Zenon
  <2>2. CASE d # c
    <3>1. cpu'[d] = cpu[d]
      BY <1>6, <2>2, Zenon
    <3>2. PICK i \in r + 1 .. n :
            /\ log[d] = At(i) /\ written[i].cpu = d
            /\ written[i].st = "busy" <=> cpu[d] # "submit"
      BY <1>4, <3>1, Zenon DEF Inv, OwnerInv
    <3>3. i # k /\ i \in 1 .. n
      BY <1>3, <1>4, <2>2, <3>2
    <3> QED
      BY <1>7, <3>1, <3>2, <3>3, Zenon
  <2> QED
    BY <2>1, <2>2
<1>13. RecordInv'
  <2> SUFFICES ASSUME NEW i \in f + 1 .. n
               PROVE  /\ Cell(mem', At(i)) = IF Owned(i)' THEN SampleLen + BusyBit ELSE SampleLen
                      /\ Owned(i)' \/ written'[i].st # "busy"
                      /\ \/ Cell(mem', At(i) + HeaderLen) = written'[i].ip
                         \/ \E d \in CPUs : Owns(d, i)' /\ cpu'[d] = "fill"
                      /\ written'[i].st # "busy" =>
                           Cell(mem', At(i) + HeaderLen + 2) = IF written'[i].st = "PASS" THEN 1 ELSE 0
    BY <1>4, <1>7, <1>10, Zenon DEF RecordInv
  <2>1. Owned(i)' <=> Owned(i)
    BY <1>11, Zenon DEF Owned
  <2>2. /\ Cell(mem', At(i)) = Cell(mem, At(i))
        /\ Cell(mem', At(i) + HeaderLen) = Cell(mem, At(i) + HeaderLen)
        /\ i # k => Cell(mem', At(i) + HeaderLen + 2) = Cell(mem, At(i) + HeaderLen + 2)
    <3>1. f \in Nat /\ 4 # 0 /\ 4 # 2
      BY <1>3
    <3>2. Cell(mem', At(i)) = Cell(mem, At(i))
      BY <1>5, <3>1, KeptLen, SMT
    <3>3. Cell(mem', At(i) + HeaderLen) = Cell(mem, At(i) + HeaderLen)
      BY <1>5, <3>1, KeptIp, SMT
    <3>4. i # k => Cell(mem', At(i) + HeaderLen + 2) = Cell(mem, At(i) + HeaderLen + 2)
      BY <1>5, <3>1, KeptPassed, SMT
    <3> QED
      BY <3>2, <3>3, <3>4, Zenon
  <2>3. written'[i].ip = written[i].ip /\ (i # k => written'[i] = written[i])
    <3>1. i \in 1 .. n
      BY <1>3
    <3> QED
      BY <1>7, <3>1, Zenon
  <2>4. \/ Cell(mem', At(i) + HeaderLen) = written'[i].ip
        \/ \E d \in CPUs : Owns(d, i)' /\ cpu'[d] = "fill"
    <3>1. \A d \in CPUs : Owns(d, i) /\ cpu[d] = "fill" => Owns(d, i)' /\ cpu'[d] = "fill"
      BY <1>1, <1>6, <1>11
    <3> QED
      BY <1>4, <2>2, <2>3, <3>1, Zenon DEF Inv, RecordInv
  <2>5. CASE i = k
    <3>1. Owned(k) /\ (is_passed = 1 \/ is_passed = 0)
      BY <1>4, Zenon DEF Owned
    <3> QED
      BY <1>4, <1>5, <1>7, <1>8, <2>1, <2>2, <2>4, <2>5, <3>1, Zenon DEF Inv, RecordInv
  <2>6. CASE i # k
    BY <1>4, <2>1, <2>2, <2>3, <2>4, <2>6, Zenon DEF Inv, RecordInv
  <2> QED
    BY <2>5, <2>6
<1>14. ReaderInv'
  <2>1. \A i : Owned(i)' <=> Owned(i)
    BY <1>11, Zenon DEF Owned
  <2>2. DeliveredAsWritten'
    <3>1. /\ Len(delivered) <= n /\ DOMAIN delivered = 1 .. Len(delivered) /\ Len(delivered) \in Nat
          /\ Len(delivered) = IF reader = "store" THEN r + 1 ELSE r
      <4>1. DOMAIN delivered = 1 .. Len(delivered) /\ Len(delivered) \in Nat
        BY DEF Inv, TypeOK
      <4> QED
        BY <1>4, <4>1, Zenon DEF Inv, ReaderInv, DeliveredAsWritten
    <3>2. reader = "store" => k # r + 1
      BY <1>4 DEF Inv, ReaderInv, Owned
    <3>3. \A i \in DOMAIN delivered : i \in 1 .. n /\ i # k
      BY <1>3, <1>4, <3>1, <3>2
    <3> QED
      BY <1>1, <1>4, <1>7, <3>1, <3>3, ZenonT(30) DEF Inv, ReaderInv, DeliveredAsWritten
  <2> QED
    BY <1>1, <1>10, <2>1, <2>2, Zenon DEF Inv, ReaderInv
<1> QED
  BY <1>9, <1>10, <1>12, <1>13, <1>14 DEF Inv

-----------------------------------------------------------------------------
(* Theorems. *)

LEMMA NextInv == Inv /\ [Next]_vars => Inv'
<1> SUFFICES ASSUME Inv, [Next]_vars PROVE Inv'
  OBVIOUS
<1>1. ASSUME NEW c \in CPUs, NEW ip \in IPs, Reserve(c, ip) PROVE Inv'
  BY <1>1, ReserveStep
<1>2. ASSUME NEW c \in CPUs, Produce(c) PROVE Inv'
  <2>1. CASE Fill(c)
    BY <2>1, FillStep
  <2>2. ASSUME NEW p \in {0, 1}, Judge(c, p) PROVE Inv'
    BY <2>2, JudgeStep
  <2>3. CASE Submit(c)
    BY <2>3, SubmitStep
  <2>4. CASE Wakeup(c)
    BY <2>4, WakeupStep
  <2> QED
    BY <1>2, <2>1, <2>2, <2>3, <2>4, Zenon DEF Produce
<1>3. CASE Consume
  BY <1>3, AddStep, PollStep, ProcessStep, InspectStep, SampleStep, AdvanceStep, Zenon DEF Consume
<1>4. CASE Visible
  BY <1>4, VisibleStep
<1>5. CASE UNCHANGED vars
  <2>1. /\ UNCHANGED <<mem, producer_pos, consumer_pos, cpu, log, ready, written>>
        /\ UNCHANGED <<reader, cons_pos, prod_pos, got_new_data, delivered>>
    BY <1>5, Zenon DEF vars, kernelVars, readerVars
  <2>2. TypeOK' /\ DeliveredAsWritten'
    BY <2>1, Zenon DEF Inv, TypeOK, ReaderInv, DeliveredAsWritten
  <2>3. Freed' = Freed /\ Taken' = Taken /\ Known' = Known
    BY <2>1, Zenon DEF Freed, Taken, Known
  <2>4. PosInv' /\ OwnerInv'
    BY <2>1, <2>3, Zenon DEF Inv, PosInv, OwnerInv
  <2>5. (\A c, i : Owns(c, i)' <=> Owns(c, i)) /\ \A i : Owned(i)' <=> Owned(i)
    BY <2>1, Zenon DEF Owns, Owned
  <2>6. RecordInv' /\ ReaderInv'
    BY <2>1, <2>2, <2>3, <2>5, Zenon DEF Inv, RecordInv, ReaderInv
  <2> QED
    BY <2>2, <2>4, <2>6 DEF Inv
<1> QED
  BY <1>1, <1>2, <1>3, <1>4, <1>5, Zenon DEF Next

LEMMA InvCorrect == Spec => []Inv
  BY InitMemory, NextInv, PTL DEF Spec

\* Positions, words and records keep their types, whatever wraps around.
THEOREM TypeCorrect == Spec => []TypeOK
<1>1. Inv => TypeOK
  BY DEF Inv
<1> QED
  BY <1>1, InvCorrect, PTL

\* For any number of CPUs, any size of the pages above one record and any
\* number of records: handle_log_event is given the records in the order of
\* their reservation, each with the address and the verdict xdp_filter wrote
\* into it before bpf_ringbuf_submit.
THEOREM DeliveredCorrect == Spec => []DeliveredAsWritten
<1>1. Inv => DeliveredAsWritten
  BY DEF Inv, ReaderInv
<1> QED
  BY <1>1, InvCorrect, PTL

-----------------------------------------------------------------------------
(* The refinement.  The abstract queue has a row for every record whose room *)
(* is in use: the record as it was written, but busy while a CPU owns it.    *)

HeldBy(cp, lg, i) == \E c \in CPUs : cp[c] \in {"fill", "judge", "submit"} /\ lg[c] = At(i)

Held(x) == [x EXCEPT !.st = "busy"]

View(w, cp, lg, i) == IF HeldBy(cp, lg, i) THEN Held(w[i]) ELSE w[i]

Rows(w, cp, lg, f) == [j \in 1 .. Len(w) - f |-> View(w, cp, lg, f + j)]

LEMMA RowsSame ==
  ASSUME NEW w, NEW cp, NEW lg, NEW w1, NEW cp1, NEW lg1, NEW f \in Nat, Len(w) \in Nat,
         Len(w1) = Len(w),
         \A i \in f + 1 .. Len(w) : View(w1, cp1, lg1, i) = View(w, cp, lg, i)
  PROVE  Rows(w1, cp1, lg1, f) = Rows(w, cp, lg, f)
<1>1. \A j \in 1 .. Len(w) - f : f + j \in f + 1 .. Len(w)
  OBVIOUS
<1>2. \A j \in 1 .. Len(w) - f : View(w1, cp1, lg1, f + j) = View(w, cp, lg, f + j)
  BY <1>1, Zenon
<1> QED
  BY <1>2, Zenon DEF Rows

LEMMA RowsSeq ==
  ASSUME NEW w \in Seq(Samples), NEW cp, NEW lg, NEW f \in Nat, f <= Len(w)
  PROVE  /\ Rows(w, cp, lg, f) \in Seq(Samples)
         /\ Len(Rows(w, cp, lg, f)) = Len(w) - f
         /\ \A j \in 1 .. Len(w) - f : Rows(w, cp, lg, f)[j] = View(w, cp, lg, f + j)
<1>1. PICK m \in Nat : m = Len(w) - f
  OBVIOUS
<1>2. /\ DOMAIN Rows(w, cp, lg, f) = 1 .. m
      /\ \A j \in 1 .. m : Rows(w, cp, lg, f)[j] = View(w, cp, lg, f + j)
  BY <1>1, Zenon DEF Rows
<1>3. ASSUME NEW j \in 1 .. m PROVE View(w, cp, lg, f + j) \in Samples
  <2>1. f + j \in 1 .. Len(w)
    BY <1>1
  <2>2. w[f + j] \in Samples
    BY <2>1, ElementOfSeq
  <2>3. \A x \in Samples : Held(x) \in Samples
    BY DEF Held, Samples
  <2> QED
    BY <2>2, <2>3, Zenon DEF View
<1>4. Rows(w, cp, lg, f) \in [1 .. m -> Samples]
  BY <1>1, <1>3, Zenon DEF Rows
<1>5. Rows(w, cp, lg, f) \in Seq(Samples)
  BY <1>1, <1>4, SeqDef, Zenon
<1>6. Len(Rows(w, cp, lg, f)) = m
  BY <1>1, <1>2, <1>5, LenProperties
<1> QED
  BY <1>1, <1>2, <1>5, <1>6, Zenon

\* From w to w1 a record x is added, and no row of the others changes.
Added(w, cp, lg, w1, cp1, lg1, f, x) ==
  /\ w \in Seq(Samples) /\ w1 \in Seq(Samples) /\ x \in Samples
  /\ f \in Nat /\ f <= Len(w) /\ Len(w1) = Len(w) + 1
  /\ View(w1, cp1, lg1, Len(w) + 1) = x
  /\ \A i \in f + 1 .. Len(w) : View(w1, cp1, lg1, i) = View(w, cp, lg, i)

LEMMA RowsAppend ==
  ASSUME NEW w, NEW cp, NEW lg, NEW w1, NEW cp1, NEW lg1, NEW f, NEW x,
         Added(w, cp, lg, w1, cp1, lg1, f, x)
  PROVE  Rows(w1, cp1, lg1, f) = Append(Rows(w, cp, lg, f), x)
<1> USE DEF Added
<1>1. PICK a : a = Rows(w, cp, lg, f)
  OBVIOUS
<1>2. PICK b : b = Rows(w1, cp1, lg1, f)
  OBVIOUS
<1>3. PICK m \in Nat : m = Len(w) - f
  OBVIOUS
<1>4. a \in Seq(Samples) /\ Len(a) = m /\ \A j \in 1 .. m : a[j] = View(w, cp, lg, f + j)
  <2>1. /\ a \in Seq(Samples) /\ Len(a) = Len(w) - f
        /\ \A j \in 1 .. Len(w) - f : a[j] = View(w, cp, lg, f + j)
    BY <1>1, RowsSeq
  <2> QED
    BY <1>3, <2>1, Zenon
<1>5. b \in Seq(Samples) /\ Len(b) = m + 1 /\ \A j \in 1 .. m + 1 : b[j] = View(w1, cp1, lg1, f + j)
  <2>1. Len(w1) - f = m + 1 /\ f <= Len(w1)
    BY <1>3
  <2>2. /\ b \in Seq(Samples) /\ Len(b) = Len(w1) - f
        /\ \A j \in 1 .. Len(w1) - f : b[j] = View(w1, cp1, lg1, f + j)
    BY <1>2, <2>1, RowsSeq
  <2> QED
    BY <2>1, <2>2, Zenon
<1>6. /\ Append(a, x) \in Seq(Samples) /\ Len(Append(a, x)) = m + 1
      /\ Append(a, x)[m + 1] = x /\ \A j \in 1 .. m : Append(a, x)[j] = a[j]
  BY <1>4, AppendProperties
<1>7. ASSUME NEW j \in 1 .. m + 1 PROVE b[j] = Append(a, x)[j]
  <2>1. CASE j = m + 1
    <3>1. f + j = Len(w) + 1
      BY <1>3, <2>1
    <3> QED
      BY <1>5, <1>6, <2>1, <3>1, Zenon
  <2>2. CASE j # m + 1
    <3>1. j \in 1 .. m /\ f + j \in f + 1 .. Len(w)
      BY <1>3, <2>2
    <3> QED
      BY <1>4, <1>5, <1>6, <3>1, Zenon
  <2> QED
    BY <2>1, <2>2, Zenon
<1>8. b = Append(a, x)
  BY <1>5, <1>6, <1>7, SeqEqual, Zenon
<1> QED
  BY <1>1, <1>2, <1>8

LEMMA RowsTail ==
  ASSUME NEW w \in Seq(Samples), NEW cp, NEW lg, NEW f \in Nat, f < Len(w)
  PROVE  Rows(w, cp, lg, f + 1) = Tail(Rows(w, cp, lg, f))
<1>1. PICK a : a = Rows(w, cp, lg, f)
  OBVIOUS
<1>2. PICK b : b = Rows(w, cp, lg, f + 1)
  OBVIOUS
<1>3. PICK m \in Nat : m = Len(w) - (f + 1)
  <2>1. Len(w) \in Nat
    BY LenProperties
  <2>2. Len(w) - (f + 1) \in Nat
    BY <2>1
  <2> QED
    BY <2>2, Zenon
<1>4. a \in Seq(Samples) /\ Len(a) = m + 1 /\ \A j \in 1 .. m + 1 : a[j] = View(w, cp, lg, f + j)
  <2>1. Len(w) - f = m + 1 /\ f <= Len(w)
    BY <1>3
  <2>2. /\ a \in Seq(Samples) /\ Len(a) = Len(w) - f
        /\ \A j \in 1 .. Len(w) - f : a[j] = View(w, cp, lg, f + j)
    BY <1>1, <2>1, RowsSeq
  <2> QED
    BY <2>1, <2>2, Zenon
<1>5. b \in Seq(Samples) /\ Len(b) = m /\ \A j \in 1 .. m : b[j] = View(w, cp, lg, f + 1 + j)
  <2>1. f + 1 \in Nat /\ f + 1 <= Len(w)
    OBVIOUS
  <2>2. /\ b \in Seq(Samples) /\ Len(b) = Len(w) - (f + 1)
        /\ \A j \in 1 .. Len(w) - (f + 1) : b[j] = View(w, cp, lg, f + 1 + j)
    BY <1>2, <2>1, RowsSeq
  <2> QED
    BY <1>3, <2>2, Zenon
<1>6. a # <<>> /\ (m + 1) - 1 = m
  BY <1>3, <1>4
<1>7. Tail(a) \in Seq(Samples) /\ Len(Tail(a)) = m /\ \A j \in 1 .. m : Tail(a)[j] = a[j + 1]
  <2>1. /\ Tail(a) \in Seq(Samples) /\ Len(Tail(a)) = Len(a) - 1
        /\ \A j \in 1 .. Len(Tail(a)) : Tail(a)[j] = a[j + 1]
    BY <1>4, <1>6, HeadTailProperties
  <2>2. Len(Tail(a)) = m
    BY <1>4, <1>6, <2>1
  <2> QED
    BY <2>1, <2>2, Zenon
<1>8. ASSUME NEW j \in 1 .. m PROVE b[j] = Tail(a)[j]
  <2>1. j + 1 \in 1 .. m + 1 /\ f + (j + 1) = f + 1 + j
    BY <1>3
  <2> QED
    BY <1>4, <1>5, <1>7, <2>1, Zenon
<1>9. b = Tail(a)
  BY <1>5, <1>7, <1>8, SeqEqual, Zenon
<1> QED
  BY <1>1, <1>2, <1>9

Barred == Rows(written, cpu, log, Freed)

Agree == AbstractRing = Barred

\* What headers and samples in memory say is what the histories say.
LEMMA InvBar == Inv => Agree
<1> SUFFICES ASSUME Inv PROVE AbstractRing = Barred
  BY DEF Agree
<1> DEFINE P(j) == consumer_pos + (j - 1) * RecordLen
           O(j) == written[P(j) \div RecordLen + 1]
           E(j) == IF Word(P(j)) >= BusyBit THEN [O(j) EXCEPT !.st = "busy"]
                   ELSE [cpu |-> O(j).cpu, ip |-> Word(P(j) + HeaderLen),
                         st |-> IF Word(P(j) + HeaderLen + 2) = 1 THEN "PASS" ELSE "DROP"]
<1>1. PICK f \in Nat, n \in Nat :
        /\ f = Freed /\ n = Len(written) /\ f <= n
        /\ consumer_pos = f * 6 /\ producer_pos = n * 6
  <2>1. /\ Len(written) \in Nat /\ Freed \in Nat /\ Taken \in Nat /\ Known \in Nat
        /\ producer_pos = Len(written) * 6 /\ consumer_pos = Freed * 6
        /\ Freed <= Taken /\ Taken <= Known /\ Known <= Len(written)
    BY Numbers DEF Inv
  <2>2. Freed <= Len(written)
    BY <2>1
  <2> QED
    BY <2>1, <2>2, Zenon
<1>2. (producer_pos - consumer_pos) \div RecordLen = n - f
  BY <1>1, LengthIs
<1>3. AbstractRing = [j \in 1 .. n - f |-> E(j)]
  BY <1>2, Zenon DEF AbstractRing
<1>4. ASSUME NEW j \in 1 .. n - f PROVE E(j) = View(written, cpu, log, f + j)
  <2>1. PICK i \in f + 1 .. n : i = f + j
    BY <1>1
  <2>2. P(j) = At(i) /\ P(j) \div RecordLen + 1 = i
    BY <1>1, <2>1, LengthIs, Place
  <2>3. O(j) = written[i] /\ i \in 1 .. n
    BY <1>1, <2>1, <2>2
  <2>4. written[i] \in Samples
    <3>1. written \in Seq(Samples)
      BY Zenon DEF Inv, TypeOK
    <3> QED
      BY <1>1, <2>3, <3>1, ElementOfSeq
  <2>5. /\ Word(P(j)) = Cell(mem, At(i)) /\ Word(P(j) + HeaderLen) = Cell(mem, At(i) + HeaderLen)
        /\ Word(P(j) + HeaderLen + 2) = Cell(mem, At(i) + HeaderLen + 2)
    BY <2>2, Zenon DEF Word, Cell
  <2>6. Owned(i) <=> HeldBy(cpu, log, i)
    BY Zenon DEF Owned, Owns, HeldBy
  <2> HIDE DEF P, O
  <2>7. CASE Owned(i)
    <3>1. Cell(mem, At(i)) = SampleLen + BusyBit
      BY <1>1, <2>1, <2>7, Zenon DEF Inv, RecordInv
    <3>2. Word(P(j)) >= BusyBit
      BY <2>5, <3>1, MemoryAssumption DEF SampleLen
    <3> QED
      BY <2>1, <2>3, <2>6, <2>7, <3>2, Zenon DEF View, Held
  <2>8. CASE ~Owned(i)
    <3>1. /\ Cell(mem, At(i)) = SampleLen /\ written[i].st # "busy"
          /\ Cell(mem, At(i) + HeaderLen) = written[i].ip
          /\ Cell(mem, At(i) + HeaderLen + 2) = IF written[i].st = "PASS" THEN 1 ELSE 0
      BY <1>1, <2>1, <2>8, Zenon DEF Inv, RecordInv, Owned
    <3>2. ~(Word(P(j)) >= BusyBit)
      BY <2>5, <3>1, MemoryAssumption DEF SampleLen
    <3>3. (IF Word(P(j) + HeaderLen + 2) = 1 THEN "PASS" ELSE "DROP") = written[i].st
      BY <2>4, <2>5, <3>1 DEF Samples
    <3>4. E(j) = [cpu |-> written[i].cpu, ip |-> written[i].ip, st |-> written[i].st]
      BY <2>3, <2>5, <3>1, <3>2, <3>3, Zenon
    <3>5. E(j) = written[i]
      BY <2>4, <3>4 DEF Samples
    <3> QED
      BY <2>1, <2>6, <2>8, <3>5, Zenon DEF View
  <2> QED
    BY <2>7, <2>8
<1> HIDE DEF E
<1> QED
  BY <1>1, <1>3, <1>4, Zenon DEF Barred, Rows

\* The owner of a record is the CPU that the history names.
LEMMA OwnerIs ==
  ASSUME Inv, NEW c \in CPUs, NEW i \in Nat, Owns(c, i)
  PROVE  i \in Taken + 1 .. Len(written) /\ written[i].cpu = c
<1>1. PICK k \in Taken + 1 .. Len(written) : log[c] = At(k) /\ written[k].cpu = c
  BY Zenon DEF Inv, OwnerInv, Owns
<1>2. Taken \in Nat /\ Len(written) \in Nat
  BY Numbers DEF Inv
<1>3. (i - 1) * 6 = (k - 1) * 6
  BY <1>1, Place, Zenon DEF Owns
<1>4. k = i
  BY <1>1, <1>2, <1>3
<1> QED
  BY <1>1, <1>4

\* A record is in flight for c exactly while c owns it.
LEMMA BusyRow ==
  ASSUME Inv, NEW c \in CPUs, NEW i \in Freed + 1 .. Len(written)
  PROVE  LET x == View(written, cpu, log, i) IN x.cpu = c /\ x.st = "busy" <=> Owns(c, i)
<1> DEFINE x == View(written, cpu, log, i)
<1>1. Freed \in Nat /\ Len(written) \in Nat
  BY Numbers DEF Inv
<1>2. written[i] \in Samples /\ i \in Nat
  <2>1. written \in Seq(Samples) /\ i \in 1 .. Len(written) /\ i \in Nat
    BY <1>1 DEF Inv, TypeOK
  <2> QED
    BY <2>1, ElementOfSeq
<1>3. Owned(i) <=> HeldBy(cpu, log, i)
  BY Zenon DEF Owned, Owns, HeldBy
<1>4. CASE Owned(i)
  <2>1. PICK d \in CPUs : Owns(d, i)
    BY <1>4, Zenon DEF Owned
  <2>2. written[i].cpu = d
    BY <1>2, <2>1, OwnerIs
  <2>3. x = Held(written[i])
    BY <1>3, <1>4, Zenon DEF View
  <2>4. x.cpu = d /\ x.st = "busy"
    BY <1>2, <2>2, <2>3 DEF Held, Samples
  <2>5. Owns(c, i) => c = d
    BY <1>2, <2>2, OwnerIs
  <2> QED
    BY <2>1, <2>4, <2>5
<1>5. CASE ~Owned(i)
  <2>1. written[i].st # "busy" /\ ~Owns(c, i)
    BY <1>5, Zenon DEF Inv, RecordInv, Owned
  <2>2. x = written[i]
    BY <1>3, <1>5, Zenon DEF View
  <2> QED
    BY <2>1, <2>2
<1> QED
  BY <1>4, <1>5

\* The rows that are busy for c are the records it owns.
LEMMA BusyIs ==
  ASSUME Inv, AbstractRing = Barred, NEW c \in CPUs, NEW f \in Nat, NEW n \in Nat,
         f = Freed, n = Len(written), f <= n
  PROVE  /\ DOMAIN AbstractRing = 1 .. n - f
         /\ \A j \in 1 .. n - f : Ring!Busy(j, c) <=> Owns(c, f + j)
<1>1. written \in Seq(Samples)
  BY Zenon DEF Inv, TypeOK
<1>2. \A j \in 1 .. n - f : AbstractRing[j] = View(written, cpu, log, f + j)
  BY <1>1, RowsSeq DEF Barred
<1>3. DOMAIN AbstractRing = 1 .. n - f
  BY Zenon DEF Barred, Rows
<1>4. ASSUME NEW j \in 1 .. n - f PROVE Ring!Busy(j, c) <=> Owns(c, f + j)
  <2>1. PICK i \in Freed + 1 .. Len(written) : i = f + j
    OBVIOUS
  <2>2. AbstractRing[j].cpu = c /\ AbstractRing[j].st = "busy" <=> Owns(c, i)
    BY <1>2, <2>1, BusyRow
  <2> QED
    BY <2>1, <2>2, Zenon DEF Ring!Busy
<1> QED
  BY <1>3, <1>4

\* Records stay with their owners.
LEMMA HeldKept ==
  ASSUME TypeOK, NEW c \in CPUs, NEW s, cpu' = [cpu EXCEPT ![c] = s], log' = log,
         s \in {"fill", "judge", "submit"} <=> cpu[c] \in {"fill", "judge", "submit"}
  PROVE  \A i : HeldBy(cpu', log', i) <=> HeldBy(cpu, log, i)
<1>1. cpu'[c] = s /\ \A d \in CPUs : d # c => cpu'[d] = cpu[d]
  BY DEF TypeOK
<1> QED
  BY <1>1, Zenon DEF HeldBy

LEMMA WrittenType ==
  ASSUME Inv
  PROVE  written \in Seq(Samples) /\ Freed \in Nat /\ Len(written) \in Nat /\ Freed <= Len(written)
<1>1. Freed \in Nat /\ Len(written) \in Nat /\ Taken \in Nat /\ Known \in Nat
      /\ Freed <= Taken /\ Taken <= Known /\ Known <= Len(written)
  BY Numbers DEF Inv
<1>2. Freed <= Len(written)
  BY <1>1
<1> QED
  BY <1>1, <1>2, Zenon DEF Inv, TypeOK

\* Fill, is_passed and the wake-up: the queue does not change.
LEMMA FillRows ==
  ASSUME Inv, NEW c \in CPUs, Fill(c) \/ Wakeup(c) PROVE Barred' = Barred
<1>1. written' = written /\ consumer_pos' = consumer_pos /\ log' = log
  BY Zenon DEF Fill, Wakeup
<1>2. \A i : HeldBy(cpu', log', i) <=> HeldBy(cpu, log, i)
  <2>1. CASE Fill(c)
    <3>1. cpu[c] = "fill" /\ cpu' = [cpu EXCEPT ![c] = "judge"] /\ TypeOK
      BY <2>1, Zenon DEF Fill, Inv
    <3>2. "judge" \in {"fill", "judge", "submit"} <=> cpu[c] \in {"fill", "judge", "submit"}
      BY <3>1
    <3> QED
      BY <1>1, <3>1, <3>2, HeldKept, Zenon
  <2>2. CASE Wakeup(c)
    <3>1. cpu[c] = "wakeup" /\ cpu' = [cpu EXCEPT ![c] = "idle"] /\ TypeOK
      BY <2>2, Zenon DEF Wakeup, Inv
    <3>2. "idle" \in {"fill", "judge", "submit"} <=> cpu[c] \in {"fill", "judge", "submit"}
      BY <3>1
    <3> QED
      BY <1>1, <3>1, <3>2, HeldKept, Zenon
  <2> QED
    BY <2>1, <2>2
<1>3. Freed' = Freed
  BY <1>1, Zenon DEF Freed
<1>4. \A i : View(written', cpu', log', i) = View(written, cpu, log, i)
  BY <1>1, <1>2, Zenon DEF View
<1> QED
  <2>1. Freed \in Nat /\ Len(written) \in Nat
    BY WrittenType
  <2>2. Rows(written', cpu', log', Freed) = Rows(written, cpu, log, Freed)
    BY <1>1, <1>3, <1>4, <2>1, RowsSame
  <2> QED
    BY <1>3, <2>2, Zenon DEF Barred

LEMMA JudgeRows ==
  ASSUME Inv, NEW c \in CPUs, NEW p \in {0, 1}, Judge(c, p) PROVE Barred' = Barred
<1> DEFINE s == IF p = 1 THEN "PASS" ELSE "DROP"
<1>1. /\ cpu[c] = "judge" /\ cpu' = [cpu EXCEPT ![c] = "submit"] /\ log' = log
      /\ written' = [written EXCEPT ![Own(c)].st = s] /\ consumer_pos' = consumer_pos
  BY Zenon DEF Judge
<1>2. \A i : HeldBy(cpu', log', i) <=> HeldBy(cpu, log, i)
  <2>1. "submit" \in {"fill", "judge", "submit"} <=> cpu[c] \in {"fill", "judge", "submit"}
    BY <1>1
  <2> QED
    BY <1>1, <2>1, HeldKept, Zenon DEF Inv
<1>3. PICK k \in DOMAIN written : Own(c) = k /\ Owns(c, k)
  BY <1>1, OwnRecord DEF Inv
<1>4. HeldBy(cpu, log, k)
  BY <1>3, Zenon DEF Owns, HeldBy
<1>5. written \in Seq(Samples) /\ Freed' = Freed /\ Len(written') = Len(written)
  BY <1>1, <1>3, WrittenType DEF Freed
<1>6. Held(written'[k]) = Held(written[k]) /\ \A i \in DOMAIN written : i # k => written'[i] = written[i]
  <2>1. written[k] \in Samples
    BY <1>3, <1>5
  <2>2. written'[k] = [written[k] EXCEPT !.st = s]
    BY <1>1, <1>3, <1>5
  <2>3. Held(written'[k]) = Held(written[k])
    BY <2>1, <2>2, Zenon DEF Held, Samples
  <2> QED
    BY <1>1, <1>3, <1>5, <2>3
<1>7. ASSUME NEW i \in Freed + 1 .. Len(written)
      PROVE  View(written', cpu', log', i) = View(written, cpu, log, i)
  <2>1. i \in DOMAIN written
    BY <1>5, WrittenType
  <2> QED
    BY <1>2, <1>4, <1>6, <2>1, Zenon DEF View
<1> QED
  <2>1. Freed \in Nat /\ Len(written) \in Nat
    BY WrittenType
  <2>2. Rows(written', cpu', log', Freed) = Rows(written, cpu, log, Freed)
    BY <1>5, <1>7, <2>1, RowsSame
  <2> QED
    BY <1>5, <2>2, Zenon DEF Barred

LEMMA ReserveRows ==
  ASSUME Inv, Inv', AbstractRing = Barred, AbstractRing' = Barred',
         NEW c \in CPUs, NEW ip \in IPs, Reserve(c, ip)
  PROVE  ~Ring!InFlight(c) /\ Ring!reserve(c, ip)
<1> DEFINE x == [cpu |-> c, ip |-> ip, st |-> "busy"]
<1>1. /\ cpu[c] = "idle" /\ cpu' = [cpu EXCEPT ![c] = "fill"] /\ consumer_pos' = consumer_pos
      /\ log' = [log EXCEPT ![c] = producer_pos] /\ written' = Append(written, x)
  BY Zenon DEF Reserve
<1>2. PICK f \in Nat, n \in Nat :
        f = Freed /\ n = Len(written) /\ f <= n /\ producer_pos = n * 6
  <2>1. producer_pos = Len(written) * 6
    BY Numbers DEF Inv
  <2> QED
    BY <2>1, WrittenType, Zenon
<1>3. x \in Samples /\ Held(x) = x
  BY DEF Samples, Held
<1> HIDE DEF x
<1>4. written \in Seq(Samples) /\ written' \in Seq(Samples)
  BY Zenon DEF Inv, TypeOK
<1>5. /\ Len(written') = n + 1 /\ written'[n + 1] = x
      /\ \A i \in 1 .. n : written'[i] = written[i]
  BY <1>1, <1>2, <1>3, <1>4, AppendProperties
<1>6. /\ cpu'[c] = "fill" /\ log'[c] = producer_pos
      /\ \A d \in CPUs : d # c => cpu'[d] = cpu[d] /\ log'[d] = log[d]
  BY <1>1 DEF Inv, TypeOK
<1>7. At(n + 1) = producer_pos /\ \A i \in 1 .. n : At(i) # producer_pos
  BY <1>2, Place
<1>8. HeldBy(cpu', log', n + 1)
  <2>1. cpu'[c] \in {"fill", "judge", "submit"}
    BY <1>6
  <2> QED
    BY <1>6, <1>7, <2>1, Zenon DEF HeldBy
<1>9. \A i \in 1 .. n : HeldBy(cpu', log', i) <=> HeldBy(cpu, log, i)
  <2>1. cpu[c] \notin {"fill", "judge", "submit"}
    BY <1>1
  <2> QED
    BY <1>6, <1>7, <2>1, Zenon DEF HeldBy
<1>10. View(written', cpu', log', n + 1) = x
  BY <1>3, <1>5, <1>8, Zenon DEF View
<1>11. ASSUME NEW i \in f + 1 .. n PROVE View(written', cpu', log', i) = View(written, cpu, log, i)
  <2>1. i \in 1 .. n
    BY <1>2
  <2> QED
    BY <1>5, <1>9, <2>1, Zenon DEF View
<1>12. Rows(written', cpu', log', f) = Append(Rows(written, cpu, log, f), x)
  <2>1. Added(written, cpu, log, written', cpu', log', f, x)
    BY <1>2, <1>3, <1>4, <1>5, <1>10, <1>11, Zenon DEF Added
  <2> QED
    BY <2>1, RowsAppend, SMT
<1>13. Freed' = Freed
  BY <1>1, Zenon DEF Freed
<1>14. Ring!reserve(c, ip)
  BY <1>2, <1>12, <1>13, Zenon DEF Barred, Ring!reserve, x
<1>15. ~Ring!InFlight(c)
  <2>1. \A i : ~Owns(c, i)
    BY <1>1 DEF Owns
  <2>2. /\ DOMAIN AbstractRing = 1 .. n - f
        /\ \A j \in 1 .. n - f : Ring!Busy(j, c) <=> Owns(c, f + j)
    BY <1>2, BusyIs
  <2> QED
    BY <2>1, <2>2, Zenon DEF Ring!InFlight
<1> QED
  BY <1>14, <1>15

LEMMA SubmitRows ==
  ASSUME Inv, Inv', AbstractRing = Barred, AbstractRing' = Barred', NEW c \in CPUs, Submit(c)
  PROVE  \E v \in {"DROP", "PASS"} : Ring!InFlight(c) /\ Ring!submit(c, v)
<1>1. /\ cpu[c] = "submit" /\ cpu' = [cpu EXCEPT ![c] = "wakeup"] /\ consumer_pos' = consumer_pos
      /\ log' = log /\ written' = written
  BY Zenon DEF Submit
<1>2. PICK f \in Nat, n \in Nat, k \in Nat :
        f = Freed /\ n = Len(written) /\ f <= n /\ \E r \in Nat : Mine(c, f, r, n, k)
  <2>1. cpu[c] \in {"fill", "judge", "submit"}
    BY <1>1
  <2>2. PICK f \in Nat, r \in Nat, n \in Nat, k \in Nat : Mine(c, f, r, n, k)
    BY <2>1, OwnStore, Zenon
  <2>3. f = Freed /\ n = Len(written)
    BY <2>2, Zenon DEF Mine
  <2> QED
    BY <2>2, <2>3, WrittenType, Zenon
<1>3. written \in Seq(Samples)
  BY Zenon DEF Inv, TypeOK
<1>6. /\ k \in f + 1 .. n /\ k \in 1 .. n /\ Owns(c, k) /\ written[k].st # "busy"
      /\ \A b \in CPUs : Owns(b, k) => b = c
      /\ \A i \in 1 .. n : Owns(c, i) => i = k
  BY <1>1, <1>2, Zenon DEF Mine
<1>7. written[k] \in Samples
  BY <1>2, <1>3, <1>6, ElementOfSeq
<1>8. PICK v \in {"DROP", "PASS"} : v = written[k].st
  BY <1>6, <1>7 DEF Samples
<1>9. cpu'[c] = "wakeup" /\ \A d \in CPUs : d # c => cpu'[d] = cpu[d]
  BY <1>1 DEF Inv, TypeOK
<1>10. \A i \in 1 .. n : HeldBy(cpu', log', i) <=> HeldBy(cpu, log, i) /\ i # k
  <2>1. cpu'[c] \notin {"fill", "judge", "submit"}
    BY <1>9
  <2> QED
    BY <1>1, <1>6, <1>9, <2>1, Zenon DEF HeldBy, Owns
<1>11. HeldBy(cpu, log, k)
  BY <1>6, Zenon DEF HeldBy, Owns
<1>12. View(written', cpu', log', k) = [View(written, cpu, log, k) EXCEPT !.st = v]
  <2>1. View(written', cpu', log', k) = written[k] /\ View(written, cpu, log, k) = Held(written[k])
    BY <1>1, <1>6, <1>10, <1>11, Zenon DEF View
  <2>2. [Held(written[k]) EXCEPT !.st = v] = written[k]
    BY <1>7, <1>8, Zenon DEF Held, Samples
  <2> QED
    BY <2>1, <2>2, Zenon
<1>13. \A i \in 1 .. n : i # k => View(written', cpu', log', i) = View(written, cpu, log, i)
  BY <1>1, <1>10, Zenon DEF View
<1>14. /\ DOMAIN AbstractRing = 1 .. n - f
       /\ \A j \in 1 .. n - f : Ring!Busy(j, c) <=> Owns(c, f + j)
  BY <1>2, BusyIs, Zenon
<1>15. \A j \in 1 .. n - f : AbstractRing[j] = View(written, cpu, log, f + j)
  BY <1>2, <1>3, RowsSeq DEF Barred
<1>16. AbstractRing' = [j \in 1 .. n - f |-> View(written', cpu', log', f + j)]
  <2>1. Freed' = f
    BY <1>1, <1>2, Zenon DEF Freed
  <2> QED
    BY <1>1, <1>2, <2>1, Zenon DEF Barred, Rows
<1>17. Ring!submit(c, v)
  <2>1. ASSUME NEW j \in 1 .. n - f
        PROVE  View(written', cpu', log', f + j) =
                 IF Ring!Busy(j, c) THEN [AbstractRing[j] EXCEPT !.st = v] ELSE AbstractRing[j]
    <3>1. f + j \in 1 .. n
      BY <1>2
    <3>2. Ring!Busy(j, c) <=> f + j = k
      BY <1>6, <1>14, <3>1, Zenon
    <3> QED
      BY <1>12, <1>13, <1>15, <3>1, <3>2, Zenon
  <2> QED
    BY <1>14, <1>16, <2>1, Zenon DEF Ring!submit
<1>18. Ring!InFlight(c)
  <2>1. k - f \in 1 .. n - f /\ f + (k - f) = k
    BY <1>2, <1>6, SMTT(30)
  <2> QED
    BY <1>6, <1>14, <2>1, Zenon DEF Ring!InFlight
<1> QED
  BY <1>17, <1>18

\* Past consumer_pos there is no owner: cons_pos is ahead of it.
LEMMA VisibleRows ==
  ASSUME Inv, Inv', AbstractRing = Barred, AbstractRing' = Barred', Visible
  PROVE  Ring!consume
<1>1. /\ UNCHANGED <<written, cpu, log>> /\ consumer_pos' = consumer_pos + 6
      /\ consumer_pos < cons_pos
  BY LengthIs, Zenon DEF Visible, kernelVars
<1>2. PICK f \in Nat, n \in Nat, r \in Nat :
        /\ f = Freed /\ n = Len(written) /\ r = Taken /\ f < r /\ r <= n /\ Freed' = f + 1
  <2>1. /\ Len(written) \in Nat /\ Freed \in Nat /\ Taken \in Nat /\ Known \in Nat
        /\ consumer_pos = Freed * 6 /\ cons_pos = Taken * 6
        /\ Taken <= Known /\ Known <= Len(written)
    BY Numbers DEF Inv
  <2>2. Freed < Taken /\ Taken <= Len(written) /\ Freed' = Freed + 1
    BY <1>1, <2>1, LengthIs DEF Freed
  <2> QED
    BY <2>1, <2>2, Zenon
<1>3. written \in Seq(Samples) /\ f < Len(written) /\ f <= Len(written)
  BY <1>2, SMTT(30) DEF Inv, TypeOK
<1>4. Rows(written, cpu, log, f + 1) = Tail(Rows(written, cpu, log, f))
  BY <1>2, <1>3, RowsTail
<1>5. AbstractRing' = Tail(AbstractRing)
  BY <1>1, <1>2, <1>4, Zenon DEF Barred
<1>6. /\ AbstractRing \in Seq(Samples) /\ Len(AbstractRing) = n - f
      /\ \A j \in 1 .. n - f : AbstractRing[j] = View(written, cpu, log, f + j)
  BY <1>2, <1>3, RowsSeq DEF Barred
<1>7. AbstractRing[1] = View(written, cpu, log, f + 1) /\ AbstractRing # <<>>
  BY <1>2, <1>6
<1>8. ~Owned(f + 1) /\ f + 1 \in f + 1 .. n
  <2>1. ASSUME NEW d \in CPUs, Owns(d, f + 1) PROVE FALSE
    <3>1. f + 1 \in Nat
      BY <1>2
    <3>2. f + 1 \in Taken + 1 .. Len(written)
      BY <2>1, <3>1, OwnerIs
    <3> QED
      BY <1>2, <3>2
  <2>2. f + 1 \in f + 1 .. n
    BY <1>2
  <2> QED
    BY <2>1, <2>2, Zenon DEF Owned
<1>9. View(written, cpu, log, f + 1) = written[f + 1] /\ written[f + 1].st # "busy"
  BY <1>2, <1>8, Zenon DEF View, HeldBy, Owned, Owns, Inv, RecordInv
<1> QED
  BY <1>5, <1>7, <1>9 DEF Ring!consume, Ring!Readable

LEMMA RingStep == Inv /\ Inv' /\ Agree /\ Agree' /\ [Next]_vars => [Ring!FifoNext]_AbstractRing
<1> SUFFICES ASSUME Inv, Inv', AbstractRing = Barred, AbstractRing' = Barred', [Next]_vars
             PROVE  [Ring!FifoNext]_AbstractRing
  BY DEF Agree
<1>1. ASSUME NEW c \in CPUs, NEW ip \in IPs, Reserve(c, ip) PROVE Ring!FifoNext
  BY <1>1, ReserveRows, Zenon DEF Ring!FifoNext
<1>2. ASSUME NEW c \in CPUs, Produce(c) PROVE [Ring!FifoNext]_AbstractRing
  <2>1. CASE Fill(c) \/ Wakeup(c)
    BY <2>1, FillRows
  <2>2. ASSUME NEW p \in {0, 1}, Judge(c, p) PROVE AbstractRing' = AbstractRing
    BY <2>2, JudgeRows
  <2>3. CASE Submit(c)
    BY <2>3, SubmitRows, Zenon DEF Ring!FifoNext, Ring!Verdicts
  <2> QED
    BY <1>2, <2>1, <2>2, <2>3, Zenon DEF Produce
<1>3. CASE Consume \/ UNCHANGED vars
  <2>1. UNCHANGED <<written, cpu, log, consumer_pos>>
    BY <1>3, Zenon DEF Consume, Add, Poll, Process, Inspect, Sample, Advance, vars, kernelVars
  <2> QED
    BY <2>1, Zenon DEF Barred, Freed
<1>4. CASE Visible
  BY <1>4, VisibleRows, Zenon DEF Ring!FifoNext
<1> QED
  BY <1>1, <1>2, <1>3, <1>4, Zenon DEF Next

\* The queue that XdpFilter and AccessLog take the ring for is what producers
\* and consumer make of the shared pages, for any number of CPUs, any size of
\* the pages above one record and any number of records, however late the
\* stores of consumer_pos become visible: bpf_ringbuf_reserve adds a record,
\* bpf_ringbuf_submit completes it in place, and a record leaves from the
\* head only when it is complete.
THEOREM MemoryRefinesRing == Spec => MemoryIsRing
<1>1. Init => Ring!RingInit
  <2> SUFFICES ASSUME Init PROVE AbstractRing = <<>>
    BY DEF Ring!RingInit
  <2>1. Inv /\ Len(written) = 0 /\ written = <<>>
    BY InitMemory DEF Init
  <2>2. Freed = 0
    BY <2>1, WrittenType
  <2>3. AbstractRing = Rows(written, cpu, log, 0)
    BY <2>1, <2>2, InvBar, Zenon DEF Barred, Agree
  <2>4. Rows(written, cpu, log, 0) \in Seq(Samples) /\ Len(Rows(written, cpu, log, 0)) = 0
    <3>1. written \in Seq(Samples) /\ 0 \in Nat /\ 0 <= Len(written) /\ Len(written) - 0 = 0
      BY <2>1, WrittenType
    <3> QED
      BY <3>1, RowsSeq, Zenon
  <2> QED
    BY <2>3, <2>4, EmptySeq
<1> QED
  BY <1>1, InitMemory, NextInv, InvBar, RingStep, PTL DEF Spec, MemoryIsRing, Ring!FifoSpec

-----------------------------------------------------------------------------
(* The wake-up. *)

\* The ring leaves the ready list only when it is empty and the kernel sees that
\* the reader has come up to its end; so the first record after that finds the
\* reader waiting for it.
Waited == \E c \in CPUs : cpu[c] # "idle" /\ log[c] = consumer_pos

WakeInv ==
  /\ reader = "add" => cons_pos = 0
  /\ reader \notin {"add", "poll"} => ready
  /\ reader = "poll" /\ ~ready => /\ consumer_pos = cons_pos
                                  /\ producer_pos = consumer_pos \/ Waited

LEMMA ReserveWakes ==
  ASSUME TypeOK, WakeInv, NEW c \in CPUs, NEW ip \in IPs, Reserve(c, ip) PROVE WakeInv'
<1>1. /\ cpu[c] = "idle" /\ cpu' = [cpu EXCEPT ![c] = "fill"] /\ log' = [log EXCEPT ![c] = producer_pos]
      /\ UNCHANGED <<consumer_pos, ready, reader, cons_pos>>
  BY Zenon DEF Reserve, readerVars
<1>2. /\ cpu'[c] = "fill" /\ log'[c] = producer_pos
      /\ \A d \in CPUs \ {c} : cpu'[d] = cpu[d] /\ log'[d] = log[d]
  BY <1>1 DEF TypeOK
<1>3. producer_pos = consumer_pos \/ Waited => Waited'
  <2>1. CASE producer_pos = consumer_pos
    BY <1>1, <1>2, <2>1 DEF Waited
  <2>2. CASE Waited
    <3>1. PICK d \in CPUs : cpu[d] # "idle" /\ log[d] = consumer_pos
      BY <2>2, Zenon DEF Waited
    <3>2. d # c
      BY <1>1, <3>1
    <3> QED
      BY <1>1, <1>2, <3>1, <3>2, Zenon DEF Waited
  <2> QED
    BY <2>1, <2>2
<1> QED
  BY <1>1, <1>3, Zenon DEF WakeInv

LEMMA ProduceWakes ==
  ASSUME TypeOK, WakeInv, NEW c \in CPUs, Produce(c) PROVE WakeInv'
<1>1. CASE Fill(c) \/ (\E p \in {0, 1} : Judge(c, p)) \/ Submit(c)
  <2>1. /\ \E l \in {"judge", "submit", "wakeup"} : cpu' = [cpu EXCEPT ![c] = l]
        /\ UNCHANGED <<producer_pos, consumer_pos, log, ready, reader, cons_pos>>
    BY <1>1, Zenon DEF Fill, Judge, Submit, readerVars
  <2>2. \A d \in CPUs : cpu[d] # "idle" => cpu'[d] # "idle"
    BY <2>1 DEF TypeOK
  <2>3. Waited => Waited'
    BY <2>1, <2>2, Zenon DEF Waited
  <2> QED
    BY <2>1, <2>3, Zenon DEF WakeInv
<1>2. CASE Wakeup(c)
  <2>1. /\ ready' = (ready \/ (reader # "add" /\ consumer_pos % Words = log[c] % Words))
        /\ cpu' = [cpu EXCEPT ![c] = "idle"]
        /\ UNCHANGED <<producer_pos, consumer_pos, log, reader, cons_pos>>
    BY <1>2, Zenon DEF Wakeup, readerVars
  <2>2. \A d \in CPUs \ {c} : cpu'[d] = cpu[d]
    BY <2>1 DEF TypeOK
  <2>3. CASE ready'
    BY <2>1, <2>3, Zenon DEF WakeInv
  <2>4. CASE ~ready' /\ reader = "poll"
    <3>1. ~ready /\ log[c] # consumer_pos
      <4>1. "poll" # "add"
        OBVIOUS
      <4> QED
        BY <2>1, <2>4, <4>1, Zenon
    <3>2. Waited => Waited'
      <4> SUFFICES ASSUME Waited PROVE Waited'
        OBVIOUS
      <4>1. PICK d \in CPUs : cpu[d] # "idle" /\ log[d] = consumer_pos
        BY Zenon DEF Waited
      <4>2. d # c
        BY <3>1, <4>1, Zenon
      <4> QED
        BY <2>1, <2>2, <4>1, <4>2, Zenon DEF Waited
    <3>3. "poll" # "add"
      OBVIOUS
    <3> QED
      BY <2>1, <2>4, <3>1, <3>2, <3>3, Zenon DEF WakeInv
  <2>5. CASE ~ready' /\ reader # "poll"
    BY <2>1, <2>5, Zenon DEF WakeInv
  <2> QED
    BY <2>3, <2>4, <2>5, Zenon
<1> QED
  BY <1>1, <1>2, Zenon DEF Produce

LEMMA ConsumeWakes ==
  ASSUME TypeOK, PosInv, WakeInv, Consume PROVE WakeInv'
<1>1. CASE Add
  <2>1. consumer_pos = cons_pos
    <3>1. reader = "add" /\ consumer_pos \in Nat
      BY <1>1, Zenon DEF Add, TypeOK
    <3> QED
      BY <3>1 DEF WakeInv, PosInv
  <2>2. "poll" # "add"
    OBVIOUS
  <2> QED
    BY <1>1, <2>1, <2>2, Zenon DEF Add, WakeInv, kernelVars
<1>2. CASE Poll
  <2>1. "poll" # "add" /\ "process" # "add" /\ "process" # "poll"
    OBVIOUS
  <2> QED
    BY <1>2, <2>1, Zenon DEF Poll, WakeInv, kernelVars
<1>3. CASE Process \/ Inspect \/ Sample \/ Advance
  <2>1. reader \notin {"add", "poll"} /\ reader' # "add" /\ ready' = ready
    <3>1. CASE Process
      BY <3>1 DEF Process
    <3>2. CASE Inspect
      BY <3>2 DEF Inspect
    <3>3. CASE Sample
      BY <3>3 DEF Sample
    <3>4. CASE Advance
      BY <3>4 DEF Advance
    <3> QED
      BY <1>3, <3>1, <3>2, <3>3, <3>4
  <2> QED
    BY <2>1, Zenon DEF WakeInv
<1> QED
  BY <1>1, <1>2, <1>3, Zenon DEF Consume

LEMMA NextWakes == Inv /\ WakeInv /\ [Next]_vars => WakeInv'
<1> SUFFICES ASSUME Inv, WakeInv, [Next]_vars PROVE WakeInv'
  OBVIOUS
<1>1. TypeOK /\ PosInv
  BY DEF Inv
<1>2. CASE Visible
  <2>1. /\ consumer_pos < cons_pos /\ consumer_pos \in Nat /\ cons_pos \in Nat
        /\ UNCHANGED <<reader, ready, cons_pos>>
    BY <1>1, <1>2, Zenon DEF Visible, readerVars, TypeOK
  <2>2. consumer_pos # cons_pos
    BY <2>1
  <2> QED
    BY <2>1, <2>2, Zenon DEF WakeInv
<1>3. CASE UNCHANGED vars
  BY <1>3, Zenon DEF vars, kernelVars, readerVars, WakeInv, Waited
<1> QED
  BY <1>1, <1>2, <1>3, ReserveWakes, ProduceWakes, ConsumeWakes, Zenon DEF Next

\* bpf_ringbuf_submit wakes the reader only when consumer_pos is at its record,
\* and libbpf polls level-triggered: for any number of CPUs and any delay of
\* consumer_pos, the reader never sleeps on a record without a wake-up to come.
THEOREM SleeperCorrect == Spec => []SleeperIsWoken
<1>1. Init => WakeInv
  BY Zenon DEF Init, WakeInv
<1>2. Inv /\ WakeInv => SleeperIsWoken
  <2> SUFFICES ASSUME Inv, WakeInv, reader = "poll", ~ready, Len(delivered) < Len(written)
               PROVE  Waited
    BY Zenon DEF SleeperIsWoken, Waited
  <2>1. consumer_pos = cons_pos /\ (producer_pos = consumer_pos \/ Waited)
    BY Zenon DEF WakeInv
  <2>2. Len(delivered) = Taken
    BY DEF Inv, ReaderInv
  <2>3. TypeOK /\ PosInv
    BY DEF Inv
  <2>4. producer_pos # cons_pos
    BY <2>2, <2>3, Numbers
  <2> QED
    BY <2>1, <2>4
<1> QED
  BY <1>1, <1>2, NextWakes, InvCorrect, PTL DEF Spec

=============================================================================
