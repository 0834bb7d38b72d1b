----------------------------- MODULE Keyboard -----------------------------
(***************************************************************************)
(* The PS/2 keyboard driver (keyboard.c) and the blocking SYSCALL_GETCHAR  *)
(* loop (syscall.c).  The IRQ1 handler translates a scancode, updates the  *)
(* modifiers and fills a ring buffer; it runs with interrupts off, so it   *)
(* is one step.  keyboard_getchar and the loop around it run with          *)
(* interrupts on: the handler may come in between any two of their steps.  *)
(* hlt wakes on an interrupt only, and the UART raises none: a serial byte *)
(* is noticed when the timer or a key wakes the loop.                      *)
(***************************************************************************)
EXTENDS Naturals, Sequences

CONSTANTS
  KB_BUFFER_SIZE,
  LetterKeys,     \* shift and caps lock both matter
  SymbolKeys,     \* only shift matters
  FixedKeys,      \* same character with or without shift: enter, backspace...
  DeadKeys,       \* scancodes with no character: function keys...
  Pressable,      \* the keys anyone presses
  SerialBytes,    \* what a terminal may send
  CR, NL,         \* '\r' and '\n'
  SERIAL_FIFO,    \* bytes the UART holds (external hardware)
  NUL             \* the character 0: "nothing"

ShiftKeys == {"LSHIFT", "RSHIFT"}
CtrlKeys  == {"LCTRL", "RCTRL"}     \* the right ones send 0xE0 first, which
AltKeys   == {"LALT", "RALT"}       \* the driver takes for an unknown release
PlainKeys == LetterKeys \cup SymbolKeys \cup FixedKeys \cup DeadKeys
Keys == ShiftKeys \cup CtrlKeys \cup AltKeys \cup {"CAPSLOCK"} \cup PlainKeys
Char == (PlainKeys \X {0, 1}) \cup SerialBytes \cup {NL}

ASSUME KeyboardAssumption ==
  /\ KB_BUFFER_SIZE \in Nat /\ KB_BUFFER_SIZE >= 2
  /\ SERIAL_FIFO \in Nat
  /\ Pressable \subseteq Keys
  /\ NL # NUL
  /\ NUL \notin PlainKeys \X {0, 1}
  /\ LetterKeys \cap (SymbolKeys \cup FixedKeys \cup DeadKeys) = {}
  /\ SymbolKeys \cap (FixedKeys \cup DeadKeys) = {} /\ FixedKeys \cap DeadKeys = {}
  /\ PlainKeys \cap (ShiftKeys \cup CtrlKeys \cup AltKeys \cup {"CAPSLOCK"}) = {}

VARIABLES
  shift_pressed, ctrl_pressed, alt_pressed, capslock_on,
  kb_buffer, kb_head, kb_tail,
  reader,      \* where SYSCALL_GETCHAR is: see GetChar below
  c,           \* its local variable
  serial,      \* bytes waiting in the UART
  held,        \* keys physically held down (the keyboard itself)
  taken,       \* history: last character keyboard_getchar took
  dropped      \* history: did the last character typed find the ring full?

modifiers == <<shift_pressed, ctrl_pressed, alt_pressed, capslock_on>>
ring == <<kb_buffer, kb_head, kb_tail>>
vars == <<shift_pressed, ctrl_pressed, alt_pressed, capslock_on, kb_buffer,
          kb_head, kb_tail, reader, c, serial, held, taken, dropped>>

Slots == 0 .. KB_BUFFER_SIZE - 1
Typed == (PlainKeys \X {0, 1}) \cup {NUL}

TypeOK ==
  /\ shift_pressed \in {0, 1} /\ ctrl_pressed \in {0, 1}
  /\ alt_pressed \in {0, 1} /\ capslock_on \in {0, 1}
  /\ kb_buffer \in [Slots -> Typed]
  /\ kb_head \in Slots /\ kb_tail \in Slots
  /\ reader \in {"user", "check", "load", "advance", "serial", "hlt", "asleep"}
  /\ c \in Char \cup {NUL}
  /\ serial \in Seq(SerialBytes) /\ Len(serial) <= SERIAL_FIFO
  /\ held \subseteq Pressable
  /\ taken \in Typed /\ dropped \in {0, 1}

Init ==
  /\ shift_pressed = 0 /\ ctrl_pressed = 0 /\ alt_pressed = 0 /\ capslock_on = 0
  /\ kb_buffer = [s \in Slots |-> NUL]
  /\ kb_head = 0 /\ kb_tail = 0
  /\ reader = "user" /\ c = NUL
  /\ serial = <<>> /\ held = {}
  /\ taken = NUL /\ dropped = 0
-----------------------------------------------------------------------------
(* translate_scancode: the modifiers it leaves and the character it        *)
(* returns.                                                                *)
Release_KeepsShift(k) ==
  /\ UNCHANGED shift_pressed
  /\ ctrl_pressed'  = IF k \in CtrlKeys THEN 0 ELSE ctrl_pressed
  /\ alt_pressed'   = IF k \in AltKeys THEN 0 ELSE alt_pressed
  /\ UNCHANGED capslock_on
Release(k) ==
  /\ shift_pressed' = IF k \in ShiftKeys THEN 0 ELSE shift_pressed
  /\ ctrl_pressed'  = IF k \in CtrlKeys THEN 0 ELSE ctrl_pressed
  /\ alt_pressed'   = IF k \in AltKeys THEN 0 ELSE alt_pressed
  /\ UNCHANGED capslock_on

Press(k) ==
  /\ shift_pressed' = IF k \in ShiftKeys THEN 1 ELSE shift_pressed
  /\ ctrl_pressed'  = IF k \in CtrlKeys THEN 1 ELSE ctrl_pressed
  /\ alt_pressed'   = IF k \in AltKeys THEN 1 ELSE alt_pressed
  /\ capslock_on'   = IF k = "CAPSLOCK" THEN 1 - capslock_on ELSE capslock_on

Ascii(k) ==
  CASE k \in LetterKeys -> <<k, IF shift_pressed = capslock_on THEN 0 ELSE 1>>
    [] k \in SymbolKeys -> <<k, shift_pressed>>
    [] k \in FixedKeys  -> <<k, 0>>
    [] OTHER            -> NUL

(* An interrupt ends hlt; the loop then starts over.                       *)
Wake_SkipsRing == reader' = IF reader = "asleep" THEN "serial" ELSE reader
Wake == reader' = IF reader = "asleep" THEN "check" ELSE reader

(* The tail of keyboard_irq_handler.                                       *)
Store_NoFullCheck(ch) ==
  /\ kb_buffer' = [kb_buffer EXCEPT ![kb_head] = ch]
  /\ kb_head' = (kb_head + 1) % KB_BUFFER_SIZE
  /\ dropped' = 0
Store(ch) ==
  LET next_head == (kb_head + 1) % KB_BUFFER_SIZE IN
  IF ch = NUL THEN UNCHANGED <<kb_buffer, kb_head, dropped>>
  ELSE IF next_head # kb_tail
       THEN /\ kb_buffer' = [kb_buffer EXCEPT ![kb_head] = ch]
            /\ kb_head' = next_head /\ dropped' = 0
       ELSE dropped' = 1 /\ UNCHANGED <<kb_buffer, kb_head>>

(* IRQ1 for a key going down (again and again while it is held)...         *)
KeyDown(k) ==
  /\ held' = held \cup {k}
  /\ Press(k)
  /\ Store(Ascii(k))
  /\ Wake
  /\ UNCHANGED <<kb_tail, c, serial, taken>>

(* ... and for a key let go.                                               *)
KeyUp(k) ==
  /\ k \in held /\ held' = held \ {k}
  /\ Release(k)
  /\ Wake
  /\ UNCHANGED <<kb_buffer, kb_head, kb_tail, c, serial, taken, dropped>>

(* IRQ0.                                                                   *)
TimerIrq ==
  /\ Wake
  /\ UNCHANGED <<modifiers, ring, c, serial, held, taken, dropped>>

(* A terminal sends a byte; beyond SERIAL_FIFO the UART loses it.          *)
SerialIn(b) ==
  /\ Len(serial) < SERIAL_FIFO
  /\ serial' = Append(serial, b)
  /\ UNCHANGED <<modifiers, ring, reader, c, held, taken, dropped>>
-----------------------------------------------------------------------------
(* SYSCALL_GETCHAR, step by step.                                          *)
GetChar ==       \* int 0x80; interrupts come back on
  /\ reader = "user" /\ reader' = "check"
  /\ UNCHANGED <<modifiers, ring, c, serial, held, taken, dropped>>

CheckEmpty ==    \* if (kb_tail == kb_head) return 0
  /\ reader = "check"
  /\ \/ kb_tail = kb_head /\ c' = NUL /\ reader' = "serial"
     \/ kb_tail # kb_head /\ reader' = "load" /\ UNCHANGED c
  /\ UNCHANGED <<modifiers, ring, serial, held, taken, dropped>>

LoadChar ==      \* c = kb_buffer[kb_tail]
  /\ reader = "load" /\ reader' = "advance"
  /\ c' = kb_buffer[kb_tail]
  /\ UNCHANGED <<modifiers, ring, serial, held, taken, dropped>>

NextTail == (kb_tail + 1) % KB_BUFFER_SIZE

AdvanceTail ==   \* ... and return c
  /\ reader = "advance"
  /\ reader' = IF c = NUL THEN "serial" ELSE "user"
  /\ kb_tail' = NextTail
  /\ taken' = c
  /\ UNCHANGED <<modifiers, kb_buffer, kb_head, c, serial, held, dropped>>

FromSerial(b) == IF b = CR THEN NL ELSE b

CheckSerial ==   \* a NUL byte is consumed and counts as nothing
  /\ reader = "serial"
  /\ \/ /\ serial = <<>> /\ reader' = "hlt"
        /\ UNCHANGED <<c, serial>>
     \/ /\ serial # <<>>
        /\ c' = FromSerial(Head(serial)) /\ serial' = Tail(serial)
        /\ reader' = IF c' = NUL THEN "hlt" ELSE "user"
  /\ UNCHANGED <<modifiers, ring, held, taken, dropped>>

Halt ==
  /\ reader = "hlt" /\ reader' = "asleep"
  /\ UNCHANGED <<modifiers, ring, c, serial, held, taken, dropped>>

Loop == CheckEmpty \/ LoadChar \/ AdvanceTail \/ CheckSerial \/ Halt

Next ==
  \/ \E k \in Pressable : KeyDown(k) \/ KeyUp(k)
  \/ TimerIrq
  \/ \E b \in SerialBytes : SerialIn(b)
  \/ GetChar \/ CheckEmpty \/ LoadChar \/ AdvanceTail \/ CheckSerial \/ Halt

Spec == Init /\ [][Next]_vars

(* The CPU executes the loop whenever it is not halted, and the PIT ticks  *)
(* for ever.  Nobody is obliged to type or to send anything.               *)
Fairness == WF_vars(Loop) /\ WF_vars(TimerIrq)
FairSpec == Spec /\ Fairness
-----------------------------------------------------------------------------
(* The characters in the ring, oldest first.                               *)
Count(head, tail) == IF head >= tail THEN head - tail
                     ELSE head + KB_BUFFER_SIZE - tail
Slot(tail, i) == IF tail + i - 1 < KB_BUFFER_SIZE THEN tail + i - 1
                 ELSE tail + i - 1 - KB_BUFFER_SIZE
RingSeq(buf, head, tail) == [i \in 1 .. Count(head, tail) |-> buf[Slot(tail, i)]]
Contents == RingSeq(kb_buffer, kb_head, kb_tail)

Queue == INSTANCE KeyQueue WITH Char <- Typed, Capacity <- KB_BUFFER_SIZE - 1,
                                queue <- Contents

(* However the IRQ handler cuts into keyboard_getchar, the ring is a FIFO  *)
(* of KB_BUFFER_SIZE - 1 characters: each is taken once, in the order      *)
(* typed, and only a character typed into a full ring is dropped.          *)
RingIsQueue == Queue!Spec

(* shift_pressed never sticks: when it is set, a shift key is down.        *)
ShiftNeverSticks == shift_pressed = 1 => held \cap ShiftKeys # {}

(* A GETCHAR with something to return does return, even when the key       *)
(* arrived between the emptiness check and hlt and its interrupt woke      *)
(* nobody: the next timer tick does.                                       *)
InputPending == kb_head # kb_tail \/ \E i \in 1 .. Len(serial) : serial[i] # NUL
GetCharReturns == reader # "user" /\ InputPending ~> reader = "user"

(* keyboard.h on keyboard_shift_pressed: "Check if shift is pressed".      *)
ShiftTracksKeys == shift_pressed = 1 <=> held \cap ShiftKeys # {}
=============================================================================
