-------------------------- MODULE InterruptProofs --------------------------
(***************************************************************************)
(* The two waits on an interrupt.  GETCHAR's, for every ring size and      *)
(* keyboard: the types, the shift invariant, and that the ring buffer      *)
(* implements KeyQueue.  And sleep_ms's, for any counter width: it sleeps  *)
(* as long as it was asked to, clear of the counter's wrap, and no longer  *)
(* near it.                                                                *)
(***************************************************************************)
EXTENDS Keyboard, Timer, SequenceTheorems, TLAPS

LEMMA Wrap ==
  ASSUME NEW i \in Slots
  PROVE  /\ (i + 1) % KB_BUFFER_SIZE = IF i + 1 = KB_BUFFER_SIZE THEN 0 ELSE i + 1
         /\ (i + 1) % KB_BUFFER_SIZE \in Slots
<1>1. KB_BUFFER_SIZE \in Nat /\ KB_BUFFER_SIZE >= 2
  BY KeyboardAssumption
<1>2. CASE i + 1 = KB_BUFFER_SIZE
  BY <1>1, <1>2 DEF Slots
<1>3. CASE i + 1 # KB_BUFFER_SIZE
  <2>1. i + 1 \in 0 .. KB_BUFFER_SIZE - 1
    BY <1>1, <1>3 DEF Slots
  <2>2. (i + 1) % KB_BUFFER_SIZE = i + 1
    BY <1>1, <2>1
  <2> QED
    BY <1>3, <2>1, <2>2 DEF Slots
<1> QED
  BY <1>2, <1>3

(* Between CheckEmpty and AdvanceTail the reader owns the oldest slot.     *)
ReaderOwnsSlot ==
  /\ reader \in {"load", "advance"} => kb_head # kb_tail
  /\ reader = "advance" => c = kb_buffer[kb_tail]

LEMMA AsciiTyped == ASSUME TypeOK, NEW k \in Keys PROVE Ascii(k) \in Typed
<1>1. CASE k \in LetterKeys
  BY <1>1 DEF Ascii, Typed, PlainKeys, TypeOK
<1>2. CASE k \notin LetterKeys /\ k \in SymbolKeys
  BY <1>2 DEF Ascii, Typed, PlainKeys, TypeOK
<1>3. CASE k \notin LetterKeys /\ k \notin SymbolKeys /\ k \in FixedKeys
  BY <1>3 DEF Ascii, Typed, PlainKeys, TypeOK
<1>4. CASE k \notin LetterKeys /\ k \notin SymbolKeys /\ k \notin FixedKeys
  BY <1>4 DEF Ascii, Typed
<1> QED
  BY <1>1, <1>2, <1>3, <1>4

LEMMA InitInv == Init => TypeOK /\ ReaderOwnsSlot /\ ShiftNeverSticks
BY KeyboardAssumption DEF Init, TypeOK, ReaderOwnsSlot, ShiftNeverSticks,
   Slots, Typed, Char

(* What storing a character does, in the three cases of the handler.       *)
LEMMA StoreCases ==
  ASSUME TypeOK, NEW ch \in Typed, Store(ch)
  PROVE  /\ kb_buffer' \in [Slots -> Typed] /\ kb_head' \in Slots
         /\ dropped' \in {0, 1}
         /\ kb_head # kb_tail =>
              kb_head' # kb_tail /\ kb_buffer'[kb_tail] = kb_buffer[kb_tail]
<1>1. (kb_head + 1) % KB_BUFFER_SIZE \in Slots
  BY Wrap DEF TypeOK
<1> QED
  BY <1>1 DEF Store, TypeOK

LEMMA TypeStep ==
  TypeOK /\ ReaderOwnsSlot /\ [Next]_vars => TypeOK' /\ ReaderOwnsSlot'
<1> SUFFICES ASSUME TypeOK, ReaderOwnsSlot, [Next]_vars
             PROVE  TypeOK' /\ ReaderOwnsSlot'
  OBVIOUS
<1>1. ASSUME NEW k \in Pressable, KeyDown(k) PROVE TypeOK' /\ ReaderOwnsSlot'
  <2>0. k \in Keys
    BY KeyboardAssumption
  <2>1. /\ kb_buffer' \in [Slots -> Typed] /\ kb_head' \in Slots
        /\ dropped' \in {0, 1}
        /\ kb_head # kb_tail =>
             kb_head' # kb_tail /\ kb_buffer'[kb_tail] = kb_buffer[kb_tail]
    BY <1>1, <2>0, StoreCases, AsciiTyped DEF KeyDown
  <2>2. /\ shift_pressed' \in {0, 1} /\ ctrl_pressed' \in {0, 1}
        /\ alt_pressed' \in {0, 1} /\ capslock_on' \in {0, 1}
    BY <1>1 DEF KeyDown, Press, TypeOK
  <2>3. /\ reader' \in {"user", "check", "load", "advance", "serial", "hlt", "asleep"}
        /\ reader' \in {"load", "advance"} => reader' = reader
    BY <1>1 DEF KeyDown, Wake, TypeOK
  <2>4. held' \subseteq Pressable
    BY <1>1 DEF KeyDown, TypeOK
  <2>5. TypeOK'
    BY <1>1, <2>1, <2>2, <2>3, <2>4 DEF KeyDown, TypeOK
  <2>6. ReaderOwnsSlot'
    BY <1>1, <2>1, <2>3 DEF KeyDown, ReaderOwnsSlot
  <2> QED
    BY <2>5, <2>6
<1>2. ASSUME NEW k \in Pressable, KeyUp(k) PROVE TypeOK' /\ ReaderOwnsSlot'
  <2>1. /\ shift_pressed' \in {0, 1} /\ ctrl_pressed' \in {0, 1}
        /\ alt_pressed' \in {0, 1} /\ capslock_on' \in {0, 1}
    BY <1>2 DEF KeyUp, Release, TypeOK
  <2>2. /\ reader' \in {"user", "check", "load", "advance", "serial", "hlt", "asleep"}
        /\ reader' \in {"load", "advance"} => reader' = reader
    BY <1>2 DEF KeyUp, Wake, TypeOK
  <2> QED
    BY <1>2, <2>1, <2>2 DEF KeyUp, TypeOK, ReaderOwnsSlot
<1>3. CASE TimerIrq
  BY <1>3 DEF TimerIrq, Wake, modifiers, ring, TypeOK, ReaderOwnsSlot
<1>4. ASSUME NEW b \in SerialBytes, SerialIn(b) PROVE TypeOK' /\ ReaderOwnsSlot'
  <2>1. serial' \in Seq(SerialBytes) /\ Len(serial') <= SERIAL_FIFO
    BY <1>4, KeyboardAssumption DEF SerialIn, TypeOK
  <2> QED
    BY <1>4, <2>1 DEF SerialIn, modifiers, ring, TypeOK, ReaderOwnsSlot
<1>5. CASE GetChar
  BY <1>5 DEF GetChar, modifiers, ring, TypeOK, ReaderOwnsSlot
<1>6. CASE CheckEmpty
  BY <1>6 DEF CheckEmpty, modifiers, ring, TypeOK, ReaderOwnsSlot
<1>7. CASE LoadChar
  <2>1. c' \in Char \cup {NUL}
    BY <1>7 DEF LoadChar, TypeOK, Typed, Char
  <2> QED
    BY <1>7, <2>1 DEF LoadChar, modifiers, ring, TypeOK, ReaderOwnsSlot
<1>8. CASE AdvanceTail
  <2>1. kb_tail' \in Slots
    BY <1>8, Wrap DEF AdvanceTail, NextTail, TypeOK
  <2>2. taken' \in Typed
    BY <1>8 DEF AdvanceTail, ReaderOwnsSlot, TypeOK
  <2> QED
    BY <1>8, <2>1, <2>2 DEF AdvanceTail, modifiers, TypeOK, ReaderOwnsSlot
<1>9. CASE CheckSerial
  <2>1. c' \in Char \cup {NUL}
    <3>1. CASE serial = <<>>
      BY <1>9, <3>1 DEF CheckSerial, TypeOK
    <3>2. CASE serial # <<>>
      <4>1. Head(serial) \in SerialBytes
        BY <3>2, HeadTailProperties DEF TypeOK
      <4> QED
        BY <1>9, <3>2, <4>1 DEF CheckSerial, FromSerial, Char
    <3> QED
      BY <3>1, <3>2
  <2>2. serial' \in Seq(SerialBytes) /\ Len(serial') <= SERIAL_FIFO
    <3>1. CASE serial = <<>>
      BY <1>9, <3>1 DEF CheckSerial, TypeOK
    <3>2. CASE serial # <<>>
      <4>1. serial \in Seq(SerialBytes) /\ Len(serial) \in Nat
        BY DEF TypeOK
      <4>2. Tail(serial) \in Seq(SerialBytes) /\ Len(Tail(serial)) = Len(serial) - 1
        BY <3>2, <4>1, HeadTailProperties
      <4>3. serial' = Tail(serial)
        BY <1>9, <3>2 DEF CheckSerial
      <4>4. Len(serial) <= SERIAL_FIFO /\ SERIAL_FIFO \in Nat
        BY KeyboardAssumption DEF TypeOK
      <4> QED
        BY <4>1, <4>2, <4>3, <4>4
    <3> QED
      BY <3>1, <3>2
  <2>3. reader' \in {"hlt", "user"}
    BY <1>9 DEF CheckSerial
  <2> QED
    BY <1>9, <2>1, <2>2, <2>3 DEF CheckSerial, modifiers, ring, TypeOK, ReaderOwnsSlot
<1>10. CASE Halt
  BY <1>10 DEF Halt, modifiers, ring, TypeOK, ReaderOwnsSlot
<1>11. CASE UNCHANGED vars
  BY <1>11 DEF vars, TypeOK, ReaderOwnsSlot
<1> QED
  BY <1>1, <1>2, <1>3, <1>4, <1>5, <1>6, <1>7, <1>8, <1>9, <1>10, <1>11 DEF Next

LEMMA ShiftStep == TypeOK /\ ShiftNeverSticks /\ [Next]_vars => ShiftNeverSticks'
<1> SUFFICES ASSUME TypeOK, ShiftNeverSticks, [Next]_vars PROVE ShiftNeverSticks'
  OBVIOUS
<1>1. ASSUME NEW k \in Pressable, KeyDown(k) PROVE ShiftNeverSticks'
  BY <1>1 DEF KeyDown, Press, ShiftNeverSticks
<1>2. ASSUME NEW k \in Pressable, KeyUp(k) PROVE ShiftNeverSticks'
  BY <1>2 DEF KeyUp, Release, ShiftNeverSticks
<1>3. ASSUME UNCHANGED <<modifiers, held>> PROVE ShiftNeverSticks'
  BY <1>3 DEF modifiers, ShiftNeverSticks
<1>4. ASSUME NEW b \in SerialBytes, SerialIn(b) PROVE ShiftNeverSticks'
  BY <1>3, <1>4 DEF SerialIn
<1>5. CASE TimerIrq \/ GetChar \/ CheckEmpty \/ LoadChar \/ AdvanceTail
           \/ CheckSerial \/ Halt
  BY <1>3, <1>5 DEF TimerIrq, GetChar, CheckEmpty, LoadChar, AdvanceTail,
     CheckSerial, Halt
<1>6. CASE UNCHANGED vars
  BY <1>3, <1>6 DEF vars, modifiers
<1> QED
  BY <1>1, <1>2, <1>4, <1>5, <1>6 DEF Next

KbInv == TypeOK /\ ReaderOwnsSlot /\ ShiftNeverSticks

(* Types, slot ownership and the shift invariant hold throughout.          *)
THEOREM KeyboardInvariant == Spec => []KbInv
<1>1. Init => KbInv
  BY InitInv DEF KbInv
<1>2. KbInv /\ [Next]_vars => KbInv'
  BY TypeStep, ShiftStep DEF KbInv
<1> QED
  BY <1>1, <1>2, PTL DEF Spec

(* For every ring size and keyboard the driver's variables keep their      *)
(* types; in particular head and tail stay inside the ring.                *)
THEOREM KeyboardTypeCorrect == Spec => []TypeOK
<1>1. KbInv => TypeOK
  BY DEF KbInv
<1> QED
  BY <1>1, KeyboardInvariant, PTL

(* shift_pressed is never left set with both shift keys up.                *)
THEOREM KeyboardShift == Spec => []ShiftNeverSticks
<1>1. KbInv => ShiftNeverSticks
  BY DEF KbInv
<1> QED
  BY <1>1, KeyboardInvariant, PTL
-----------------------------------------------------------------------------
(* The refinement: what the ring holds, as a sequence.                     *)
LEMMA RingSeqFacts ==
  ASSUME NEW head \in Slots, NEW tail \in Slots, NEW buf \in [Slots -> Typed]
  PROVE  /\ Count(head, tail) \in 0 .. KB_BUFFER_SIZE - 1
         /\ \A i \in 1 .. Count(head, tail) : Slot(tail, i) \in Slots
         /\ RingSeq(buf, head, tail) \in Seq(Typed)
         /\ Len(RingSeq(buf, head, tail)) = Count(head, tail)
         /\ \A i \in 1 .. Count(head, tail) :
              RingSeq(buf, head, tail)[i] = buf[Slot(tail, i)]
<1> USE KeyboardAssumption
<1>1. Count(head, tail) \in 0 .. KB_BUFFER_SIZE - 1
  BY DEF Count, Slots
<1>2. \A i \in 1 .. Count(head, tail) : Slot(tail, i) \in Slots
  BY <1>1 DEF Count, Slot, Slots
<1>3. \A i \in 1 .. Count(head, tail) : buf[Slot(tail, i)] \in Typed
  BY <1>2
<1>4. RingSeq(buf, head, tail) \in Seq(Typed) /\ Len(RingSeq(buf, head, tail)) = Count(head, tail)
  BY <1>1, <1>3 DEF RingSeq
<1>5. \A i \in 1 .. Count(head, tail) : RingSeq(buf, head, tail)[i] = buf[Slot(tail, i)]
  BY DEF RingSeq
<1> QED
  BY <1>1, <1>2, <1>4, <1>5

(* A character stored in a ring that is not full goes to the end of the    *)
(* queue; a full ring holds KB_BUFFER_SIZE - 1 characters.                 *)
LEMMA StorePuts ==
  ASSUME NEW head \in Slots, NEW tail \in Slots, NEW buf \in [Slots -> Typed],
         NEW ch \in Typed, (head + 1) % KB_BUFFER_SIZE # tail
  PROVE  /\ RingSeq([buf EXCEPT ![head] = ch], (head + 1) % KB_BUFFER_SIZE, tail)
              = Append(RingSeq(buf, head, tail), ch)
         /\ Len(RingSeq(buf, head, tail)) < KB_BUFFER_SIZE - 1
<1> DEFINE h2 == (head + 1) % KB_BUFFER_SIZE
           b2 == [buf EXCEPT ![head] = ch]
           n  == Count(head, tail)
           old == RingSeq(buf, head, tail)
           new == RingSeq(b2, h2, tail)
<1>0. KB_BUFFER_SIZE \in Nat /\ KB_BUFFER_SIZE >= 2
  BY KeyboardAssumption
<1>1. h2 \in Slots /\ h2 # tail /\ h2 = IF head + 1 = KB_BUFFER_SIZE THEN 0 ELSE head + 1
  BY Wrap
<1>2. Count(h2, tail) = n + 1 /\ n < KB_BUFFER_SIZE - 1 /\ n \in Nat
  <2> HIDE DEF h2
  <2> QED
    BY <1>0, <1>1 DEF Count, Slots
<1>3. /\ \A i \in 1 .. n : Slot(tail, i) # head
      /\ Slot(tail, n + 1) = head
  BY <1>0 DEF Count, Slot, Slots
<1>4. b2 \in [Slots -> Typed]
  OBVIOUS
<1>5. /\ old \in Seq(Typed) /\ Len(old) = n
      /\ \A i \in 1 .. n : old[i] = buf[Slot(tail, i)] /\ Slot(tail, i) \in Slots
  BY RingSeqFacts
<1>6. /\ new \in Seq(Typed) /\ Len(new) = n + 1
      /\ \A i \in 1 .. n + 1 : new[i] = b2[Slot(tail, i)]
  <2> HIDE DEF h2, b2, n
  <2>1. /\ RingSeq(b2, h2, tail) \in Seq(Typed)
        /\ Len(RingSeq(b2, h2, tail)) = Count(h2, tail)
        /\ \A i \in 1 .. Count(h2, tail) : RingSeq(b2, h2, tail)[i] = b2[Slot(tail, i)]
    BY <1>1, <1>4, RingSeqFacts, Zenon
  <2> QED
    BY <1>2, <2>1
<1>7. (\A i \in 1 .. n : new[i] = old[i]) /\ new[n + 1] = ch
  <2> HIDE DEF n, new, old
  <2> QED
    BY <1>2, <1>3, <1>5, <1>6
<1>8. new = Append(old, ch)
  <2> HIDE DEF n, new, old
  <2>1. /\ Append(old, ch) \in Seq(Typed) /\ Len(Append(old, ch)) = n + 1
        /\ \A i \in 1 .. n : Append(old, ch)[i] = old[i]
        /\ Append(old, ch)[n + 1] = ch
    BY <1>5, AppendProperties
  <2>2. \A i \in 1 .. n + 1 : new[i] = Append(old, ch)[i]
    BY <1>2, <1>7, <2>1
  <2> QED
    BY <1>6, <2>1, <2>2, SeqEqual
<1> QED
  BY <1>2, <1>5, <1>8, Zenon

LEMMA FullRing ==
  ASSUME NEW head \in Slots, NEW tail \in Slots, NEW buf \in [Slots -> Typed],
         (head + 1) % KB_BUFFER_SIZE = tail
  PROVE  Len(RingSeq(buf, head, tail)) = KB_BUFFER_SIZE - 1
<1>1. tail = IF head + 1 = KB_BUFFER_SIZE THEN 0 ELSE head + 1
  BY Wrap
<1>2. Count(head, tail) = KB_BUFFER_SIZE - 1
  BY <1>1, KeyboardAssumption DEF Count, Slots
<1> QED
  BY <1>2, RingSeqFacts

(* Advancing the tail of a ring that is not empty removes its oldest       *)
(* character.                                                              *)
LEMMA AdvanceGets ==
  ASSUME NEW head \in Slots, NEW tail \in Slots, NEW buf \in [Slots -> Typed],
         head # tail
  PROVE  /\ RingSeq(buf, head, tail) # <<>>
         /\ Head(RingSeq(buf, head, tail)) = buf[tail]
         /\ RingSeq(buf, head, (tail + 1) % KB_BUFFER_SIZE) = Tail(RingSeq(buf, head, tail))
<1> DEFINE t2 == (tail + 1) % KB_BUFFER_SIZE
           n  == Count(head, tail)
           old == RingSeq(buf, head, tail)
           new == RingSeq(buf, head, t2)
<1>0. KB_BUFFER_SIZE \in Nat /\ KB_BUFFER_SIZE >= 2
  BY KeyboardAssumption
<1>1. t2 \in Slots /\ t2 = IF tail + 1 = KB_BUFFER_SIZE THEN 0 ELSE tail + 1
  BY Wrap
<1>2. n \in Nat /\ n >= 1 /\ Count(head, t2) = n - 1
  <2> HIDE DEF t2
  <2> QED
    BY <1>0, <1>1 DEF Count, Slots
<1>3. Slot(tail, 1) = tail /\ \A i \in 1 .. n - 1 : Slot(t2, i) = Slot(tail, i + 1)
  <2> HIDE DEF t2
  <2> QED
    BY <1>0, <1>1 DEF Count, Slot, Slots
<1>4. /\ old \in Seq(Typed) /\ Len(old) = n
      /\ \A i \in 1 .. n : old[i] = buf[Slot(tail, i)]
  BY RingSeqFacts
<1>5. /\ new \in Seq(Typed) /\ Len(new) = n - 1
      /\ \A i \in 1 .. n - 1 : new[i] = buf[Slot(t2, i)]
  <2> HIDE DEF t2, n
  <2>1. /\ RingSeq(buf, head, t2) \in Seq(Typed)
        /\ Len(RingSeq(buf, head, t2)) = Count(head, t2)
        /\ \A i \in 1 .. Count(head, t2) : RingSeq(buf, head, t2)[i] = buf[Slot(t2, i)]
    BY <1>1, RingSeqFacts, Zenon
  <2> QED
    BY <1>2, <2>1
<1> HIDE DEF n, old, new, t2
<1>6. old # <<>> /\ Head(old) = buf[tail]
  BY <1>2, <1>3, <1>4
<1>7. new = Tail(old)
  <2>1. /\ Tail(old) \in Seq(Typed) /\ Len(Tail(old)) = n - 1
        /\ \A i \in 1 .. n - 1 : Tail(old)[i] = old[i + 1]
    BY <1>4, <1>6, HeadTailProperties
  <2>2. \A i \in 1 .. n - 1 : i + 1 \in 1 .. n
    BY <1>2
  <2>3. \A i \in 1 .. n - 1 : new[i] = Tail(old)[i]
    BY <1>3, <1>4, <1>5, <2>1, <2>2, SMTT(30)
  <2> QED
    BY <1>5, <2>1, <2>3, SeqEqual
<1> QED
  BY <1>6, <1>7 DEF old, new, t2

(* An empty ring is the empty queue.                                       *)
LEMMA EmptyRing == Init => Queue!Init
<1> SUFFICES ASSUME Init PROVE Queue!Init
  OBVIOUS
<1>1. kb_head \in Slots /\ kb_tail \in Slots /\ kb_buffer \in [Slots -> Typed]
  BY InitInv DEF TypeOK
<1>2. Contents \in Seq(Typed) /\ Len(Contents) = Count(kb_head, kb_tail)
  BY <1>1, RingSeqFacts DEF Contents
<1>3. Count(kb_head, kb_tail) = 0
  BY DEF Init, Count
<1>4. Contents = <<>>
  BY <1>2, <1>3, EmptySeq
<1> QED
  BY <1>4 DEF Queue!Init, Init, Typed

(* Every step of the driver is a step of the queue or leaves it alone.     *)
LEMMA RefinementStep ==
  TypeOK /\ ReaderOwnsSlot /\ [Next]_vars
    => [Queue!Next]_<<Contents, taken, dropped>>
<1> SUFFICES ASSUME TypeOK, ReaderOwnsSlot, [Next]_vars
             PROVE  [Queue!Next]_<<Contents, taken, dropped>>
  OBVIOUS
<1>0. ASSUME UNCHANGED <<ring, taken, dropped>>
      PROVE  UNCHANGED <<Contents, taken, dropped>>
  BY <1>0 DEF ring, Contents
<1>a. kb_head \in Slots /\ kb_tail \in Slots /\ kb_buffer \in [Slots -> Typed]
  BY DEF TypeOK
<1>1. ASSUME NEW k \in Pressable, KeyDown(k)
      PROVE  [Queue!Next]_<<Contents, taken, dropped>>
  <2> DEFINE ch == Ascii(k)
  <2>1. ch \in Typed
    BY AsciiTyped, KeyboardAssumption
  <2> HIDE DEF ch
  <2>2. Store(ch) /\ kb_tail' = kb_tail /\ taken' = taken
    BY <1>1 DEF KeyDown, ch
  <2>3. CASE ch = NUL
    BY <1>0, <2>2, <2>3 DEF Store, ring
  <2>4. CASE ch # NUL /\ (kb_head + 1) % KB_BUFFER_SIZE # kb_tail
    <3>1. /\ kb_buffer' = [kb_buffer EXCEPT ![kb_head] = ch]
          /\ kb_head' = (kb_head + 1) % KB_BUFFER_SIZE /\ dropped' = 0
      BY <2>2, <2>4 DEF Store
    <3>2. Contents' = Append(Contents, ch) /\ Len(Contents) < KB_BUFFER_SIZE - 1
      BY <1>a, <2>1, <2>2, <2>4, <3>1, StorePuts, Zenon DEF Contents
    <3>3. Queue!Put(ch)
      BY <2>2, <3>1, <3>2 DEF Queue!Put
    <3> QED
      BY <2>1, <3>3 DEF Queue!Next
  <2>5. CASE ch # NUL /\ (kb_head + 1) % KB_BUFFER_SIZE = kb_tail
    <3>1. UNCHANGED <<kb_buffer, kb_head>> /\ dropped' = 1
      BY <2>2, <2>5 DEF Store
    <3>2. Contents' = Contents
      BY <2>2, <3>1 DEF Contents
    <3>3. Len(Contents) = KB_BUFFER_SIZE - 1
      BY <1>a, <2>5, FullRing DEF Contents
    <3> QED
      BY <2>2, <3>1, <3>2, <3>3 DEF Queue!Next, Queue!Drop
  <2> QED
    BY <2>3, <2>4, <2>5
<1>2. CASE AdvanceTail
  <2>1. /\ kb_head # kb_tail /\ c = kb_buffer[kb_tail]
        /\ kb_tail' = (kb_tail + 1) % KB_BUFFER_SIZE
        /\ UNCHANGED <<kb_buffer, kb_head, dropped>> /\ taken' = c
    BY <1>2 DEF AdvanceTail, NextTail, ReaderOwnsSlot
  <2>2. Contents # <<>> /\ Head(Contents) = c /\ Contents' = Tail(Contents)
    BY <1>a, <2>1, AdvanceGets DEF Contents
  <2> QED
    BY <2>1, <2>2 DEF Queue!Next, Queue!Get
<1>3. ASSUME NEW k \in Pressable, KeyUp(k)
      PROVE  [Queue!Next]_<<Contents, taken, dropped>>
  BY <1>0, <1>3 DEF KeyUp, ring
<1>4. ASSUME NEW b \in SerialBytes, SerialIn(b)
      PROVE  [Queue!Next]_<<Contents, taken, dropped>>
  BY <1>0, <1>4 DEF SerialIn
<1>5. CASE TimerIrq \/ GetChar \/ CheckEmpty \/ LoadChar \/ CheckSerial \/ Halt
  BY <1>0, <1>5 DEF TimerIrq, GetChar, CheckEmpty, LoadChar, CheckSerial, Halt
<1>6. CASE UNCHANGED vars
  BY <1>0, <1>6 DEF vars, ring
<1> QED
  BY <1>1, <1>2, <1>3, <1>4, <1>5, <1>6 DEF Next

(* The ring buffer with its interrupt handler and its step-by-step reader  *)
(* implements the bounded FIFO, for every ring size.                       *)
THEOREM KeyboardRefinesQueue == Spec => RingIsQueue
<1>1. KbInv /\ [Next]_vars => [Queue!Next]_<<Contents, taken, dropped>>
  BY RefinementStep DEF KbInv
<1> QED
  BY EmptyRing, KeyboardInvariant, <1>1, PTL DEF Spec, RingIsQueue, Queue!Spec
-----------------------------------------------------------------------------
(* sleep_ms.                                                               *)
SleepTypes == TimerTypeOK /\ want <= MAX_COUNT

(* A sleep clear of the wrap: the counter is as many ticks past the start  *)
(* as the sleep has taken, and how many it can have taken depends on the   *)
(* statement and on whether a tick has struck since the last hlt.          *)
SleepProgress ==
  pc # "user" /\ start + want < WORD - 1 =>
    /\ target = start + want /\ pit_ticks = start + slept
    /\ want < MAX_COUNT
    /\ slept <= want + (IF pc = "test" THEN late ELSE 0)
    /\ pc = "hlt" /\ late = 0 => slept < want

SleepInv == SleepTypes /\ SleepProgress /\ SleepAccurate
-----------------------------------------------------------------------------
LEMMA InitSleepInv == TimerInit => SleepInv
  BY TimerAssumption DEF TimerInit, SleepInv, SleepTypes, TimerTypeOK, SleepProgress, SleepAccurate

LEMMA Step_sleep_ms == ASSUME SleepInv, NEW ms \in Sleeps, sleep_ms(ms) PROVE SleepInv'
<1>1. ticks_to_wait(ms) \in 1 .. MAX_COUNT - 1
  BY TimerAssumption
<1> DEFINE n == ticks_to_wait(ms)
<1> HIDE DEF n
<1>2. /\ pc' = "test" /\ start' = pit_ticks /\ want' = n /\ slept' = 0 /\ late' = 0
      /\ target' = (pit_ticks + n) % WORD /\ UNCHANGED <<pit_ticks, elapsed>>
  BY DEF sleep_ms, n
<1>3. n \in 1 .. MAX_COUNT - 1
  BY <1>1 DEF n
<1>4. target' \in 0 .. WORD - 1 /\ (pit_ticks + n < WORD => target' = pit_ticks + n)
  BY <1>2, <1>3, TimerAssumption DEF SleepInv, SleepTypes, TimerTypeOK
<1>5. SleepTypes'
  BY <1>2, <1>3, <1>4, TimerAssumption DEF SleepInv, SleepTypes, TimerTypeOK
<1>6. SleepProgress' /\ SleepAccurate'
  BY <1>2, <1>3, <1>4, TimerAssumption DEF SleepInv, SleepTypes, TimerTypeOK,
     SleepProgress, SleepAccurate
<1> QED
  BY <1>5, <1>6 DEF SleepInv

LEMMA Step_Test == ASSUME SleepInv, Test PROVE SleepInv'
  BY TimerAssumption DEF SleepInv, SleepTypes, TimerTypeOK, SleepProgress, SleepAccurate,
     Test, KeepWaiting

LEMMA Step_Hlt == ASSUME SleepInv, Hlt PROVE SleepInv'
  BY TimerAssumption DEF SleepInv, SleepTypes, TimerTypeOK, SleepProgress, SleepAccurate, Hlt

LEMMA Step_KeyIrq == ASSUME SleepInv, KeyIrq PROVE SleepInv'
  BY TimerAssumption DEF SleepInv, SleepTypes, TimerTypeOK, SleepProgress, SleepAccurate,
     KeyIrq, EndHlt

LEMMA Step_Tick == ASSUME SleepInv, Tick PROVE SleepInv'
<1>1. pit_ticks' \in 0 .. WORD - 1 /\ (pit_ticks + 1 < WORD => pit_ticks' = pit_ticks + 1)
  BY TimerAssumption DEF SleepInv, SleepTypes, TimerTypeOK, Tick, NextTick
<1>2. SleepTypes'
  BY <1>1, TimerAssumption DEF SleepInv, SleepTypes, TimerTypeOK, Tick, EndHlt, CountUp
<1>3. SleepAccurate'
  BY DEF SleepInv, SleepAccurate, Tick, EndHlt
<1>4. SleepProgress'
  <2>1. SUFFICES ASSUME pc # "user", start + want < WORD - 1 PROVE SleepProgress'
    BY DEF SleepProgress, Tick, EndHlt
  <2>2. slept <= want /\ want < MAX_COUNT /\ pit_ticks = start + slept /\ target = start + want
    BY <2>1 DEF SleepInv, SleepTypes, TimerTypeOK, SleepProgress, Tick
  <2>3. /\ slept' = slept + 1 /\ pit_ticks' = pit_ticks + 1 /\ late' = 1
        /\ UNCHANGED <<target, start, want>>
    BY <1>1, <2>1, <2>2, TimerAssumption DEF SleepInv, SleepTypes, TimerTypeOK, Tick, CountUp
  <2>4. pc = "hlt" => slept < want
    BY <2>1 DEF SleepInv, SleepProgress, Tick
  <2> QED
    BY <2>2, <2>3, <2>4, TimerAssumption DEF SleepInv, SleepTypes, TimerTypeOK,
       SleepProgress, Tick, EndHlt
<1> QED
  BY <1>2, <1>3, <1>4 DEF SleepInv

LEMMA TimerStep == SleepInv /\ [TimerNext]_timer_vars => SleepInv'
<1>1. ASSUME SleepInv, UNCHANGED timer_vars PROVE SleepInv'
  BY <1>1 DEF timer_vars, SleepInv, SleepTypes, TimerTypeOK, SleepProgress, SleepAccurate
<1> QED
  BY <1>1, Step_sleep_ms, Step_Test, Step_Hlt, Step_Tick, Step_KeyIrq DEF TimerNext

(* The counter and the target stay in their words, and sleep_ms in its     *)
(* loop.                                                                   *)
THEOREM TimerTypeCorrect == TimerSpec => []TimerTypeOK
<1>1. SleepInv => TimerTypeOK
  BY DEF SleepInv, SleepTypes
<1> QED
  BY <1>1, InitSleepInv, TimerStep, PTL DEF TimerSpec

(* Away from the wrap of pit_ticks a sleep takes the ticks asked or one    *)
(* more, wherever ticks and keys strike in the loop of sleep_ms.           *)
THEOREM TimerSleepAccurate == TimerSpec => []SleepAccurate
<1>1. SleepInv => SleepAccurate
  BY DEF SleepInv
<1> QED
  BY <1>1, InitSleepInv, TimerStep, PTL DEF TimerSpec
-----------------------------------------------------------------------------
(* The remainder of a sum that has passed the width of the counter.        *)
LEMMA RemainderUnique ==
  ASSUME NEW w \in Nat \ {0}, NEW q \in Nat, NEW r \in 0 .. w - 1
  PROVE  (q * w + r) % w = r
  BY SMT

(* A sleep whose target has wrapped.  Either it has not been tested yet    *)
(* and the counter has not wrapped, so that the test will end it; or the   *)
(* counter wrapped at once, and the sleep goes on like any other.          *)
WrapProgress ==
  pc # "user" /\ start + want >= WORD /\ target # WORD - 1 =>
    /\ target = start + want - WORD /\ want <= WORD /\ want < MAX_COUNT
    /\ \/ pc = "test" /\ slept = late /\ pit_ticks = start + slept
       \/ /\ start = WORD - 1 /\ pit_ticks + 1 = slept
          /\ slept <= want + (IF pc = "test" THEN late ELSE 0)
          /\ pc = "hlt" /\ late = 0 => slept < want

BoundInv ==
  /\ SleepInv /\ WrapProgress /\ SleepBounded
  /\ start + want = WORD - 1 => target = WORD - 1

LEMMA InitBoundInv == TimerInit => BoundInv
<1> SUFFICES ASSUME TimerInit PROVE BoundInv
  OBVIOUS
<1>1. SleepInv
  BY InitSleepInv
<1> QED
  BY <1>1, TimerAssumption DEF BoundInv, TimerInit, WrapProgress, SleepBounded

(* No sleep is longer than the counter is wide.                            *)
LEMMA WaitFits == ASSUME NEW ms \in Sleeps PROVE ticks_to_wait(ms) \in 1 .. WORD
<1>1. ms \in Nat /\ ms <= WORD - 1 /\ ms \div MS_PER_TICK \in Nat
  BY TimerAssumption
<1>2. ms \div MS_PER_TICK <= ms
  <2> DEFINE q == ms \div MS_PER_TICK
  <2>1. q \in Nat /\ MS_PER_TICK * q <= ms
    BY <1>1, TimerAssumption, SMT
  <2> HIDE DEF q
  <2>2. q <= MS_PER_TICK * q
    BY <2>1, TimerAssumption, SMT
  <2>3. MS_PER_TICK * q \in Nat
    BY <2>1, TimerAssumption, SMT
  <2> QED
    BY <1>1, <2>1, <2>2, <2>3 DEF q
<1> QED
  BY <1>1, <1>2, TimerAssumption DEF ticks_to_wait

LEMMA Bound_sleep_ms == ASSUME BoundInv, NEW ms \in Sleeps, sleep_ms(ms) PROVE BoundInv'
<1> DEFINE n == ticks_to_wait(ms)
<1>1. /\ pc' = "test" /\ start' = pit_ticks /\ want' = n /\ slept' = 0 /\ late' = 0
      /\ target' = (pit_ticks + n) % WORD /\ pit_ticks' = pit_ticks
  BY DEF sleep_ms
<1>2. n \in 1 .. MAX_COUNT - 1 /\ n \in 1 .. WORD
  BY TimerAssumption, WaitFits
<1> HIDE DEF n
<1>3. pit_ticks \in 0 .. WORD - 1
  BY DEF BoundInv, SleepInv, SleepTypes, TimerTypeOK
<1>4. target' = IF pit_ticks + n < WORD THEN pit_ticks + n ELSE pit_ticks + n - WORD
  <2>1. CASE pit_ticks + n < WORD
    BY <1>1, <1>2, <1>3, <2>1, TimerAssumption
  <2>2. CASE pit_ticks + n >= WORD
    <3> DEFINE x == pit_ticks + n - WORD
    <3>1. x \in 0 .. WORD - 1 /\ pit_ticks + n = 1 * WORD + x
      BY <1>2, <1>3, <2>2, TimerAssumption
    <3> HIDE DEF x
    <3>2. (1 * WORD + x) % WORD = x
      BY <3>1, RemainderUnique, TimerAssumption
    <3>3. target' = x
      BY <1>1, <3>1, <3>2
    <3>4. ~(pit_ticks + n < WORD)
      BY <1>2, <1>3, <2>2, TimerAssumption
    <3> QED
      BY <3>3, <3>4 DEF x
  <2> QED
    BY <1>2, <1>3, <2>1, <2>2, TimerAssumption
<1>5. SleepInv'
  BY Step_sleep_ms DEF BoundInv
<1>6. WrapProgress'
  BY <1>1, <1>2, <1>3, <1>4, TimerAssumption DEF WrapProgress
<1>7. SleepBounded' /\ (start' + want' = WORD - 1 => target' = WORD - 1)
  BY <1>1, <1>2, <1>3, <1>4, TimerAssumption DEF SleepBounded
<1> QED
  BY <1>5, <1>6, <1>7 DEF BoundInv

LEMMA Bound_Test == ASSUME BoundInv, Test PROVE BoundInv'
<1>1. SleepInv'
  BY Step_Test DEF BoundInv
<1>2. pc = "test" /\ pc' = (IF pit_ticks < target THEN "hlt" ELSE "user")
      /\ UNCHANGED <<pit_ticks, target, late, start, want, slept>>
  BY DEF Test, KeepWaiting
<1>3. WrapProgress'
  <2> SUFFICES ASSUME pc' # "user", start + want >= WORD, target # WORD - 1
               PROVE  WrapProgress'
    BY <1>2 DEF WrapProgress
  <2>1. pit_ticks < target /\ pc' = "hlt"
    BY <1>2
  <2>2. /\ start \in 0 .. WORD - 1 /\ want \in Nat /\ slept \in Nat /\ pit_ticks \in Nat
        /\ late \in {0, 1}
    BY TimerAssumption DEF BoundInv, SleepInv, SleepTypes, TimerTypeOK
  <2>3. /\ target = start + want - WORD /\ want <= WORD /\ want < MAX_COUNT
        /\ \/ slept = late /\ pit_ticks = start + slept
           \/ start = WORD - 1 /\ pit_ticks + 1 = slept
    BY <1>2, <2>1 DEF BoundInv, WrapProgress
  <2>4. start = WORD - 1 /\ pit_ticks + 1 = slept /\ slept < want
    BY <2>1, <2>2, <2>3, TimerAssumption
  <2> QED
    BY <1>2, <2>1, <2>2, <2>3, <2>4 DEF WrapProgress
<1> QED
  BY <1>1, <1>2, <1>3 DEF BoundInv, SleepBounded

LEMMA Bound_Hlt == ASSUME BoundInv, Hlt \/ KeyIrq PROVE BoundInv'
<1>1. SleepInv'
  BY Step_Hlt, Step_KeyIrq DEF BoundInv
<1>2. /\ \/ pc = "hlt" /\ pc' = "asleep" /\ late' = 0
         \/ pc = "asleep" /\ pc' = "test" /\ late' = late
      /\ UNCHANGED <<pit_ticks, target, start, want, slept>>
  BY DEF Hlt, KeyIrq, EndHlt
<1>3. want \in Nat /\ slept \in Nat /\ late \in {0, 1}
  BY DEF BoundInv, SleepInv, SleepTypes, TimerTypeOK
<1>4. WrapProgress'
  BY <1>2, <1>3 DEF BoundInv, WrapProgress
<1> QED
  BY <1>1, <1>2, <1>4 DEF BoundInv, SleepBounded

LEMMA Bound_Tick == ASSUME BoundInv, Tick PROVE BoundInv'
<1>1. SleepInv'
  BY Step_Tick DEF BoundInv
<1>2. /\ pc \in {"test", "hlt"} => late = 0
      /\ pc' = (IF pc = "asleep" THEN "test" ELSE pc) /\ late' = 1
      /\ slept' = (IF pc = "user" THEN slept ELSE CountUp(slept))
      /\ UNCHANGED <<target, start, want>>
  BY DEF Tick, EndHlt
<1>3. /\ start \in 0 .. WORD - 1 /\ want \in Nat /\ slept \in Nat /\ target \in 0 .. WORD - 1
      /\ pit_ticks \in 0 .. WORD - 1 /\ late \in {0, 1}
      /\ pc \in {"user", "test", "hlt", "asleep"}
  BY DEF BoundInv, SleepInv, SleepTypes, TimerTypeOK
<1>4. pit_ticks' = IF pit_ticks = WORD - 1 THEN 0 ELSE pit_ticks + 1
  BY <1>3, TimerAssumption DEF Tick, NextTick
<1>5. CASE pc = "user"
  BY <1>1, <1>2, <1>5 DEF BoundInv, WrapProgress, SleepBounded
<1>6. CASE pc # "user" /\ target = WORD - 1
  BY <1>1, <1>2, <1>6 DEF BoundInv, WrapProgress, SleepBounded
<1>7. CASE pc # "user" /\ target # WORD - 1 /\ start + want < WORD
  <2>1. start + want < WORD - 1
    BY <1>3, <1>7, TimerAssumption DEF BoundInv
  <2>2. slept <= want /\ want < MAX_COUNT
    BY <1>2, <1>3, <1>7, <2>1 DEF BoundInv, SleepInv, SleepProgress
  <2>3. slept' = slept + 1
    BY <1>2, <1>3, <1>7, <2>2, TimerAssumption DEF CountUp
  <2> QED
    BY <1>1, <1>2, <1>3, <1>7, <2>1, <2>2, <2>3, TimerAssumption
       DEF BoundInv, WrapProgress, SleepBounded
<1>8. CASE pc # "user" /\ target # WORD - 1 /\ start + want >= WORD
  <2>1. /\ target = start + want - WORD /\ want <= WORD /\ want < MAX_COUNT
        /\ \/ pc = "test" /\ slept = 0 /\ pit_ticks = start
           \/ start = WORD - 1 /\ pit_ticks + 1 = slept /\ slept <= want
              /\ (pc = "hlt" => slept < want)
    BY <1>2, <1>3, <1>8 DEF BoundInv, WrapProgress
  <2>2. want >= 1 /\ slept <= want /\ slept' = slept + 1
    BY <1>2, <1>3, <1>8, <2>1, TimerAssumption DEF CountUp
  <2>3. SleepBounded'
    BY <1>2, <1>3, <2>2 DEF SleepBounded
  <2>4. CASE pc = "test" /\ slept = 0 /\ pit_ticks = start
    <3>1. pc' = "test" /\ slept' = 1 /\ late' = 1
      BY <1>2, <2>2, <2>4
    <3>2. ASSUME start = WORD - 1 PROVE WrapProgress'
      BY <1>2, <1>3, <1>4, <2>1, <2>2, <2>4, <3>1, <3>2, TimerAssumption, SMTT(30) DEF WrapProgress
    <3>3. ASSUME start # WORD - 1 PROVE WrapProgress'
      BY <1>2, <1>3, <1>4, <2>1, <2>4, <3>1, <3>3, TimerAssumption DEF WrapProgress
    <3>4. WrapProgress'
      BY <3>2, <3>3
    <3> QED
      BY <1>1, <1>2, <1>8, <2>3, <3>4 DEF BoundInv
  <2>5. CASE start = WORD - 1 /\ pit_ticks + 1 = slept /\ (pc = "hlt" => slept < want)
    <3>1. pit_ticks' + 1 = slept'
      BY <1>3, <1>4, <1>8, <2>1, <2>2, <2>5, TimerAssumption
    <3>2. WrapProgress'
      BY <1>2, <1>3, <1>8, <2>1, <2>2, <2>5, <3>1, TimerAssumption DEF WrapProgress
    <3> QED
      BY <1>1, <1>2, <1>8, <2>3, <3>2 DEF BoundInv
  <2> QED
    BY <2>1, <2>4, <2>5
<1> QED
  BY <1>3, <1>5, <1>6, <1>7, <1>8, TimerAssumption

(* For any width of the counter and any sleeps: none takes more than one   *)
(* tick too long, wherever the wrap falls, unless its target is the last   *)
(* tick before it.                                                         *)
THEOREM TimerSleepBounded == TimerSpec => []SleepBounded
<1>1. ASSUME BoundInv, UNCHANGED timer_vars PROVE BoundInv'
  <2>1. SleepInv'
    BY <1>1, TimerStep DEF BoundInv
  <2> QED
    BY <1>1, <2>1 DEF timer_vars, BoundInv, WrapProgress, SleepBounded
<1>2. BoundInv /\ [TimerNext]_timer_vars => BoundInv'
  BY <1>1, Bound_sleep_ms, Bound_Test, Bound_Hlt, Bound_Tick DEF TimerNext
<1>3. BoundInv => SleepBounded
  BY DEF BoundInv
<1> QED
  BY <1>2, <1>3, InitBoundInv, PTL DEF TimerSpec
=============================================================================
