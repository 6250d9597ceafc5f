------------------------------ MODULE Keyboard ------------------------------
(***************************************************************************)
(* The keyboard driver of src/drivers/keyboard.c: scancodes of a German    *)
(* keyboard in, keys out, through a ring of KEYBOARD_BUFFER_SIZE slots     *)
(* that never refuses a key: when it is full it forgets the oldest one.    *)
(* Keys are bytes, 0 is no key.  This module holds no state of its own;    *)
(* its operators take and return the modifiers and the ring.               *)
(***************************************************************************)
EXTENDS Integers, Sequences

CONSTANT RingSize \* KEYBOARD_BUFFER_SIZE, one more than the keys that fit

ASSUME RingAssumption == RingSize \in Nat /\ RingSize >= 2

Byte == 0 .. 255
Key == Byte
NoKey == 0

Modifiers == [shift : BOOLEAN, ctrl : BOOLEAN, alt : BOOLEAN, extended : BOOLEAN]
Ring == [slot : [0 .. RingSize - 1 -> Key], head : 0 .. RingSize - 1, tail : 0 .. RingSize - 1]

NoModifiers == [shift |-> FALSE, ctrl |-> FALSE, alt |-> FALSE, extended |-> FALSE]
EmptyRing == [slot |-> [i \in 0 .. RingSize - 1 |-> NoKey], head |-> 0, tail |-> 0]

-----------------------------------------------------------------------------
(* What the scancodes 0 to 57 stand for, without and with shift.  Umlauts  *)
(* are character constants of two bytes, of which a char keeps the last.   *)
Keymap ==
  <<0, 0, 49, 50, 51, 52, 53, 54, 55, 56, 57, 48, 159, 180, 8,
    9, 113, 119, 101, 114, 116, 122, 117, 105, 111, 112, 188, 43, 10,
    0, 97, 115, 100, 102, 103, 104, 106, 107, 108, 182, 164, 94,
    0, 35, 121, 120, 99, 118, 98, 110, 109, 44, 46, 45, 0, 42, 0, 32>>

KeymapShifted ==
  <<0, 0, 33, 34, 167, 36, 37, 38, 47, 40, 41, 61, 63, 96, 8,
    9, 81, 87, 69, 82, 84, 90, 85, 73, 79, 80, 156, 42, 10,
    0, 65, 83, 68, 70, 71, 72, 74, 75, 76, 150, 132, 176,
    0, 39, 89, 88, 67, 86, 66, 78, 77, 59, 58, 95, 0, 42, 0, 32>>

(* The keys behind the prefix: arrows, Home, End, Page Up and Down, Insert,*)
(* Delete, as include/keyboard.h numbers them from 128 and from 144 on.    *)
ExtendedKey(code) ==
  CASE code = 72 -> 128 [] code = 80 -> 129 [] code = 75 -> 130 [] code = 77 -> 131
    [] code = 71 -> 144 [] code = 79 -> 145 [] code = 73 -> 146 [] code = 81 -> 147
    [] code = 82 -> 148 [] code = 83 -> 149 [] OTHER -> NoKey

FunctionKey(code) == IF code <= 68 THEN 132 + (code - 59) ELSE 142 + (code - 87)

Prefix == 224 \* 0xE0
ShiftKeys == {42, 54}
CtrlKey == 29
AltKey == 56

(* keyboard_process_scancode: a byte from 128 on is the release of a key.  *)
(* Behind the prefix 0xE0 the shift keys are not shift keys.               *)
ModifiersAfter(m, code) ==
  IF code = Prefix THEN [m EXCEPT !.extended = TRUE]
  ELSE LET pressed == code < 128
           k == code % 128
       IN  [shift    |-> IF k \in ShiftKeys /\ ~m.extended THEN pressed ELSE m.shift,
            ctrl     |-> IF k = CtrlKey THEN pressed ELSE m.ctrl,
            alt      |-> IF k = AltKey THEN pressed ELSE m.alt,
            extended |-> FALSE]

KeyOf(m, code) ==
  IF code >= 128 THEN NoKey
  ELSE IF m.extended THEN ExtendedKey(code)
  ELSE IF code \in 59 .. 68 \cup {87, 88} THEN FunctionKey(code)
  ELSE IF code > 57 THEN NoKey
  ELSE IF m.shift THEN KeymapShifted[code + 1] ELSE Keymap[code + 1]

-----------------------------------------------------------------------------
NextSlot(i) == (i + 1) % RingSize

(* Mutant: the head runs on past the end of the ring.                      *)
AddKeyUnwrapped(r, key) ==
  IF key = NoKey THEN r
  ELSE [r EXCEPT !.slot[r.head] = key, !.head = r.head + 1]

(* add_key_to_buffer, when there is a key to add.                          *)
AddKey(r, key) ==
  LET head == NextSlot(r.head)
  IN  IF key = NoKey THEN r
      ELSE [slot |-> [r.slot EXCEPT ![r.head] = key], head |-> head,
            tail |-> IF head = r.tail THEN NextSlot(r.tail) ELSE r.tail]

(* keyboard_get_key: the key, and the ring without it.  The slot of a key  *)
(* that has been taken is never read again and gets a fixed value.         *)
GetKey(r) == IF r.head = r.tail THEN NoKey ELSE r.slot[r.tail]
AfterGetKey(r) ==
  IF r.head = r.tail THEN r
  ELSE [r EXCEPT !.slot[r.tail] = NoKey, !.tail = NextSlot(r.tail)]

Waiting(r) == (r.head - r.tail) % RingSize \* keys in the ring
=============================================================================
