---------------------------- MODULE Editor_proofs ----------------------------
(***************************************************************************)
(* The cursor of the editor never leaves the text or the screen, for every *)
(* size of the array and of the screen.  What makes it so is that the last *)
(* character of every line stays zero, so that strlen ends in the line,    *)
(* and that the characters before the cursor are never zero.               *)
(***************************************************************************)
EXTENDS Editor, FiniteSetTheorems, WellFoundedInduction, SequenceTheorems, TLAPS

Ended(row) == row \in Row /\ row[MaxCols - 1] = 0

EdInv(e) ==
  /\ e \in EditorState
  /\ \A r \in Rows : Ended(e.buffer[r]) /\ (r >= e.lines => e.buffer[r][0] = 0)
  /\ e.lines \in 1 .. MaxLines /\ e.cursor_y < e.lines
  /\ e.cursor_x <= StrLen(CursorRow(e))

(* The cursor is in the window that the screen shows.                      *)
Shown(e) ==
  /\ e.cursor_x - e.scroll_x \in 0 .. ScreenCols - 1
  /\ e.cursor_y - e.scroll_y \in 0 .. ScreenLines - 1

-----------------------------------------------------------------------------
(* A set of numbers up to m has a least element.  Its initial segments are *)
(* well founded by inclusion, and the least of them ends at its minimum.   *)
LEMMA MinOfBounded ==
  ASSUME NEW m \in Nat, NEW S \in SUBSET (0 .. m), S # {}
  PROVE  Min(S) \in S /\ \A y \in S : Min(S) <= y
<1> DEFINE R == StrictSubsetOrdering(0 .. m)
           T == {0 .. x : x \in S}
<1>1. IsWellFoundedOn(R, FiniteSubsetsOf(0 .. m))
  BY FS_StrictSubsetOrderingWellFounded
<1>2. T \subseteq FiniteSubsetsOf(0 .. m) /\ T # {}
  <2>1. \A x \in S : IsFiniteSet(0 .. x) /\ 0 .. x \subseteq 0 .. m
    BY FS_Interval
  <2>2. QED
    BY <2>1 DEF FiniteSubsetsOf
<1>3. PICK t \in T : \A u \in T : ~(<<u, t>> \in R)
  <2> HIDE DEF R, T
  <2>1. QED
    BY <1>1, <1>2, WFMin
<1>4. \E x \in S : \A y \in S : x <= y
  <2>1. PICK x \in S : t = 0 .. x
    OBVIOUS
  <2>2. ASSUME NEW y \in S, y < x
        PROVE  FALSE
    <3>1. 0 .. y \subseteq 0 .. x /\ 0 .. y # 0 .. x
      BY <2>2
    <3>2. <<0 .. y, 0 .. x>> \in R
      BY <3>1 DEF StrictSubsetOrdering
    <3>3. QED
      BY <1>3, <2>1, <3>2
  <2>3. QED
    BY <2>2
<1>5. QED
  BY <1>4, Zenon DEF Min

(* strlen of a line that ends is in the line, and is at least k just when  *)
(* the first k characters are not zero.                                    *)
LEMMA StrLenSays ==
  ASSUME NEW row, Ended(row)
  PROVE  /\ StrLen(row) \in Cols
         /\ \A k \in Cols : k <= StrLen(row) <=> \A i \in Cols : i < k => row[i] # 0
<1> DEFINE Z == {i \in Cols : row[i] = 0}
<1>1. MaxCols - 1 \in Nat /\ Cols = 0 .. MaxCols - 1
  BY EditorAssumption DEF Cols
<1>2. Z \in SUBSET (0 .. MaxCols - 1) /\ Z # {}
  BY <1>1 DEF Ended
<1>3. Min(Z) \in Z /\ \A y \in Z : Min(Z) <= y
  BY <1>1, <1>2, MinOfBounded
<1>4. StrLen(row) = Min(Z)
  BY DEF StrLen
<1>5. ASSUME NEW k \in Cols
      PROVE  k <= Min(Z) <=> \A i \in Cols : i < k => row[i] # 0
  <2>1. Min(Z) \in Cols /\ Cols \subseteq Nat
    BY <1>1, <1>3
  <2>2. ASSUME k <= Min(Z), NEW i \in Cols, i < k PROVE row[i] # 0
    <3>1. i \notin Z
      BY <1>1, <1>3, <2>1, <2>2
    <3>2. QED
      BY <3>1
  <2>3. ASSUME \A i \in Cols : i < k => row[i] # 0 PROVE k <= Min(Z)
    <3>1. ~(Min(Z) < k)
      BY <1>3, <2>1, <2>3
    <3>2. QED
      BY <1>1, <2>1, <3>1
  <2>4. QED
    BY <2>2, <2>3
<1>6. QED
  BY <1>3, <1>4, <1>5

(* The cursor's line is one of the array and the column is in the line.    *)
LEMMA CursorPlace ==
  ASSUME NEW e, EdInv(e)
  PROVE  /\ e.cursor_y \in Rows /\ e.cursor_y \in Nat /\ e.lines \in Nat
         /\ Ended(CursorRow(e)) /\ StrLen(CursorRow(e)) \in Cols
         /\ e.cursor_x \in Cols /\ e.cursor_x \in Nat
<1>1. e.cursor_y \in Nat /\ e.cursor_x \in Nat /\ e.lines \in Nat
  BY DEF EdInv, EditorState
<1>2. e.cursor_y \in Rows
  BY <1>1, EditorAssumption DEF EdInv, Rows
<1>3. Ended(CursorRow(e))
  BY <1>2 DEF EdInv, CursorRow
<1>4. StrLen(CursorRow(e)) \in Cols
  BY <1>3, StrLenSays
<1>5. e.cursor_x \in Cols
  BY <1>1, <1>4, EditorAssumption DEF EdInv, Cols
<1>6. QED
  BY <1>1, <1>2, <1>3, <1>4, <1>5

-----------------------------------------------------------------------------
(* A new line of the cursor, and a column in it, keep the text in order.   *)
LEMMA RowReplaced ==
  ASSUME NEW e, EdInv(e), NEW row, Ended(row), NEW x \in Nat, x <= StrLen(row), NEW f,
         f = [e EXCEPT !.buffer[e.cursor_y] = row, !.cursor_x = x, !.modified = TRUE]
  PROVE  EdInv(f)
<1>1. e.cursor_y \in Rows /\ e.buffer \in [Rows -> Row] /\ e \in EditorState
  BY CursorPlace DEF EdInv, EditorState
<1>2. f.buffer = [e.buffer EXCEPT ![e.cursor_y] = row] /\ f.cursor_x = x
      /\ f.cursor_y = e.cursor_y /\ f.lines = e.lines
  BY <1>1 DEF EditorState
<1>3. f.buffer \in [Rows -> Row]
  BY <1>1, <1>2 DEF Ended
<1>4. f \in EditorState
  BY <1>1, <1>3 DEF EditorState
<1>5. CursorRow(f) = row
  BY <1>1, <1>2 DEF CursorRow
<1>6. \A r \in Rows : Ended(f.buffer[r])
  BY <1>1, <1>2 DEF EdInv
<1>7. ASSUME NEW r \in Rows, r >= f.lines PROVE f.buffer[r][0] = 0
  <2>1. r # e.cursor_y /\ f.buffer[r] = e.buffer[r]
    BY <1>1, <1>2, <1>7, CursorPlace DEF EdInv, Rows
  <2>2. QED
    BY <1>2, <1>7, <2>1 DEF EdInv
<1>8. QED
  BY <1>2, <1>4, <1>5, <1>6, <1>7 DEF EdInv

LEMMA InsertCharKeeps ==
  ASSUME NEW e, EdInv(e), NEW key \in Byte \ {0}
  PROVE  EdInv(InsertChar(e, key))
<1> DEFINE x == e.cursor_x
           row == CursorRow(e)
           new == [i \in Cols |-> IF i = x THEN key
                                  ELSE IF i > x /\ i < MaxCols - 1 THEN row[i - 1] ELSE row[i]]
<1>1. x \in Cols /\ x \in Nat /\ Ended(row) /\ row \in Row /\ Cols = 0 .. MaxCols - 1
      /\ MaxCols \in Nat
  BY CursorPlace, EditorAssumption DEF Ended, Cols
<1>2. CASE x >= MaxCols - 1
  BY <1>2 DEF InsertChar
<1>3. CASE x < MaxCols - 1
  <2> HIDE DEF row
  <2>1. \A i \in Cols : new[i] \in Byte
    BY <1>1 DEF Row
  <2>2. new \in Row /\ new[MaxCols - 1] = 0
    BY <1>1, <1>3, <2>1 DEF Row, Ended
  <2>3. Ended(new)
    BY <2>2 DEF Ended
  <2>4. \A i \in Cols : i < x => row[i] # 0
    BY <1>1, StrLenSays DEF EdInv, row
  <2>5. \A i \in Cols : i < x + 1 => new[i] # 0
    BY <1>1, <2>4
  <2>6. x + 1 \in Cols
    BY <1>1, <1>3
  <2>7. x + 1 <= StrLen(new)
    BY <2>3, <2>5, <2>6, StrLenSays
  <2>8. InsertChar(e, key) = [e EXCEPT !.buffer[e.cursor_y] = new, !.cursor_x = x + 1,
                                       !.modified = TRUE]
    BY <1>1, <1>3 DEF InsertChar, row
  <2>9. x + 1 \in Nat
    BY <1>1
  <2> HIDE DEF new, x
  <2>10. QED
    BY <2>3, <2>7, <2>8, <2>9, RowReplaced
<1>4. QED
  BY <1>1, <1>2, <1>3

LEMMA DeleteCharKeeps ==
  ASSUME NEW e, EdInv(e)
  PROVE  EdInv(DeleteChar(e))
<1> DEFINE x == e.cursor_x - 1
           row == CursorRow(e)
           new == [i \in Cols |-> IF i < x THEN row[i]
                                  ELSE IF i < MaxCols - 1 THEN row[i + 1] ELSE 0]
<1>1. e.cursor_x \in Cols /\ e.cursor_x \in Nat /\ Ended(row) /\ row \in Row
      /\ e.cursor_y \in Nat /\ e.cursor_y \in Rows /\ Cols = 0 .. MaxCols - 1 /\ MaxCols \in Nat
      /\ MaxCols >= 2
  BY CursorPlace, EditorAssumption DEF Ended, Cols
<1>2. CASE e.cursor_x > 0
  <2>1. x \in Nat /\ x \in Cols
    BY <1>1, <1>2
  <2> HIDE DEF row
  <2>2. \A i \in Cols : new[i] \in Byte
    BY <1>1, <2>1 DEF Row, Byte
  <2>3. new \in Row /\ new[MaxCols - 1] = 0
    BY <1>1, <2>1, <2>2 DEF Row
  <2>4. Ended(new)
    BY <2>3 DEF Ended
  <2>5. \A i \in Cols : i < e.cursor_x => row[i] # 0
    BY <1>1, StrLenSays DEF EdInv, row
  <2>6. \A i \in Cols : i < x => new[i] # 0
    BY <1>1, <2>1, <2>5
  <2>7. x <= StrLen(new)
    BY <2>1, <2>4, <2>6, StrLenSays
  <2>8. DeleteChar(e) = [e EXCEPT !.buffer[e.cursor_y] = new, !.cursor_x = x,
                                  !.modified = TRUE]
    BY <1>2 DEF DeleteChar, row
  <2> HIDE DEF new, x
  <2>9. QED
    BY <2>1, <2>4, <2>7, <2>8, RowReplaced
<1>3. CASE e.cursor_x = 0 /\ e.cursor_y > 0
  <2> DEFINE y == e.cursor_y - 1
             n == StrLen(e.buffer[y])
             f == [e EXCEPT !.cursor_x = n, !.cursor_y = y, !.modified = TRUE]
  <2>1. y \in Nat /\ y \in Rows /\ y < e.lines
    BY <1>1, <1>3, CursorPlace, EditorAssumption DEF Rows, EdInv
  <2>2. n \in Nat
    BY <1>1, <2>1, StrLenSays DEF EdInv
  <2>3. DeleteChar(e) = f
    BY <1>1, <1>3 DEF DeleteChar
  <2> HIDE DEF y, n
  <2>4. f \in EditorState /\ f.cursor_x = n /\ f.cursor_y = y /\ f.lines = e.lines
        /\ f.buffer = e.buffer
    BY <2>1, <2>2 DEF EdInv, EditorState
  <2>5. f.cursor_x <= StrLen(CursorRow(f))
    BY <2>2, <2>4 DEF CursorRow, n
  <2> HIDE DEF f
  <2>6. QED
    BY <2>1, <2>3, <2>4, <2>5 DEF EdInv
<1>4. CASE e.cursor_x = 0 /\ e.cursor_y = 0
  BY <1>1, <1>4 DEF DeleteChar
<1>5. QED
  BY <1>1, <1>2, <1>3, <1>4

LEMMA NewLineKeeps ==
  ASSUME NEW e, EdInv(e)
  PROVE  EdInv(NewLine(e))
<1>1. CASE e.cursor_y >= MaxLines - 1
  BY <1>1 DEF NewLine
<1>2. CASE e.cursor_y < MaxLines - 1
  <2> DEFINE n == IF e.cursor_y + 1 >= e.lines THEN e.cursor_y + 2 ELSE e.lines
             y == e.cursor_y + 1
             f == [e EXCEPT !.cursor_y = y, !.cursor_x = 0, !.modified = TRUE, !.lines = n]
  <2>1. e.cursor_y \in Nat /\ e.lines \in Nat /\ e \in EditorState
    BY CursorPlace DEF EdInv
  <2>2. y \in Nat /\ y \in Rows /\ n \in 1 .. MaxLines /\ n \in Nat /\ y < n
    BY <1>2, <2>1, EditorAssumption DEF Rows, EdInv
  <2>3. NewLine(e) = f
    BY <1>2, <2>1, EditorAssumption DEF NewLine
  <2> HIDE DEF n, y
  <2>4. f \in EditorState /\ f.cursor_x = 0 /\ f.cursor_y = y /\ f.lines = n
        /\ f.buffer = e.buffer
    BY <2>1, <2>2 DEF EditorState
  <2> HIDE DEF f
  <2>5. StrLen(CursorRow(f)) \in Cols
    BY <2>2, <2>4, StrLenSays DEF CursorRow, EdInv
  <2>6. 0 <= StrLen(CursorRow(f))
    BY <2>5, EditorAssumption DEF Cols
  <2>7. \A r \in Rows : r >= f.lines => r >= e.lines
    BY <2>1, <2>4 DEF n, Rows
  <2>8. QED
    BY <2>2, <2>3, <2>4, <2>6, <2>7 DEF EdInv
<1>3. QED
  BY <1>1, <1>2, CursorPlace, EditorAssumption

LEMMA MoveCursorKeeps ==
  ASSUME NEW e, EdInv(e), NEW dx \in Int, NEW dy \in Int
  PROVE  EdInv(MoveCursor(e, dx, dy))
<1> DEFINE y == Clamp(e.cursor_y + dy, 0, e.lines - 1)
           len == StrLen(e.buffer[y])
           x == Clamp(e.cursor_x + dx, 0, len)
           f == [e EXCEPT !.cursor_y = y, !.cursor_x = x]
<1>1. e.cursor_y \in Nat /\ e.cursor_x \in Nat /\ e.lines \in 1 .. MaxLines /\ e \in EditorState
  BY CursorPlace DEF EdInv
<1>2. y \in 0 .. e.lines - 1
  <2>1. e.cursor_y + dy \in Int /\ e.lines - 1 \in Int /\ 0 <= e.lines - 1
    BY <1>1, EditorAssumption
  <2>2. QED
    BY <2>1 DEF Clamp
<1> HIDE DEF y
<1>3. y \in Nat /\ y \in Rows /\ y < e.lines
  BY <1>1, <1>2, EditorAssumption DEF Rows
<1>4. len \in Cols
  BY <1>3, StrLenSays DEF EdInv
<1>5. len \in Nat
  BY <1>4, EditorAssumption DEF Cols
<1> HIDE DEF len
<1>6. x \in 0 .. len /\ x \in Nat
  <2>1. e.cursor_x + dx \in Int /\ len \in Int /\ 0 <= len
    BY <1>1, <1>5
  <2>2. x \in 0 .. len
    BY <2>1 DEF Clamp
  <2>3. QED
    BY <1>5, <2>2
<1>7. MoveCursor(e, dx, dy) = f
  BY DEF MoveCursor, y, len
<1> HIDE DEF x
<1>8. f \in EditorState /\ f.cursor_x = x /\ f.cursor_y = y /\ f.lines = e.lines
      /\ f.buffer = e.buffer
  BY <1>1, <1>3, <1>6 DEF EditorState
<1>9. f.cursor_x <= StrLen(CursorRow(f))
  BY <1>5, <1>6, <1>8 DEF CursorRow, len
<1> HIDE DEF f
<1>10. QED
  BY <1>3, <1>7, <1>8, <1>9 DEF EdInv

-----------------------------------------------------------------------------
(* Scrolling moves the window to the cursor and nothing else.              *)
LEMMA FollowSays ==
  ASSUME NEW cursor \in Nat, NEW scroll \in Nat, NEW size \in Nat \ {0}
  PROVE  /\ Follow(cursor, scroll, size) \in Nat
         /\ cursor - Follow(cursor, scroll, size) \in 0 .. size - 1
BY DEF Follow

LEMMA ScrollKeeps ==
  ASSUME NEW e, EdInv(e)
  PROVE  EdInv(ScrollIfNeeded(e)) /\ Shown(ScrollIfNeeded(e))
<1> DEFINE sx == Follow(e.cursor_x, e.scroll_x, ScreenCols)
           sy == Follow(e.cursor_y, e.scroll_y, ScreenLines)
           f == [e EXCEPT !.scroll_x = sx, !.scroll_y = sy]
<1>1. e \in EditorState /\ e.cursor_x \in Nat /\ e.cursor_y \in Nat
      /\ e.scroll_x \in Nat /\ e.scroll_y \in Nat
  BY DEF EdInv, EditorState
<1>2. sx \in Nat /\ e.cursor_x - sx \in 0 .. ScreenCols - 1
  BY <1>1, EditorAssumption, FollowSays
<1>3. sy \in Nat /\ e.cursor_y - sy \in 0 .. ScreenLines - 1
  BY <1>1, EditorAssumption, FollowSays
<1>4. ScrollIfNeeded(e) = f
  BY DEF ScrollIfNeeded
<1> HIDE DEF sx, sy
<1>5. f \in EditorState /\ f.cursor_x = e.cursor_x /\ f.cursor_y = e.cursor_y
      /\ f.lines = e.lines /\ f.buffer = e.buffer /\ f.scroll_x = sx /\ f.scroll_y = sy
  BY <1>1, <1>2, <1>3 DEF EditorState
<1> HIDE DEF f
<1>6. EdInv(f)
  BY <1>5 DEF EdInv, CursorRow
<1>7. Shown(f)
  BY <1>2, <1>3, <1>5 DEF Shown
<1>8. QED
  BY <1>4, <1>6, <1>7

LEMMA HelpToggled ==
  ASSUME NEW e, EdInv(e), NEW b \in BOOLEAN, NEW f, f = [e EXCEPT !.help_menu_open = b]
  PROVE  EdInv(f) /\ (Shown(e) => Shown(f))
<1>1. f \in EditorState /\ f.cursor_x = e.cursor_x /\ f.cursor_y = e.cursor_y
      /\ f.lines = e.lines /\ f.buffer = e.buffer /\ f.scroll_x = e.scroll_x
      /\ f.scroll_y = e.scroll_y
  BY DEF EdInv, EditorState
<1>2. QED
  BY <1>1 DEF EdInv, CursorRow, Shown

LEMMA EditedKeeps ==
  ASSUME NEW e, EdInv(e), NEW key \in Byte
  PROVE  EdInv(Edited(e, key))
<1> DEFINE Moves == {KEY_ARROW_UP, KEY_ARROW_DOWN, KEY_ARROW_LEFT, KEY_ARROW_RIGHT}
           Special == {KEY_F1, 10, 8} \cup Moves
           Printable == 32 .. 126 \ Special
<1> USE DEF KEY_F1, KEY_ARROW_UP, KEY_ARROW_DOWN, KEY_ARROW_LEFT, KEY_ARROW_RIGHT
<1>1. CASE key = KEY_F1
  <2>1. Edited(e, key) = [e EXCEPT !.help_menu_open = ~@] /\ e.help_menu_open \in BOOLEAN
    BY <1>1 DEF Edited, EdInv, EditorState
  <2>2. QED
    BY <2>1, HelpToggled
<1>2. CASE key = 10
  BY <1>2, NewLineKeeps DEF Edited
<1>3. CASE key = 8
  BY <1>3, DeleteCharKeeps DEF Edited
<1>4. CASE key \in Moves
  <2>1. CASE key = KEY_ARROW_UP
    <3>1. Edited(e, key) = MoveCursor(e, 0, -1)
      BY <2>1 DEF Edited
    <3>2. QED
      BY <3>1, MoveCursorKeeps
  <2>2. CASE key = KEY_ARROW_DOWN
    <3>1. Edited(e, key) = MoveCursor(e, 0, 1)
      BY <2>2 DEF Edited
    <3>2. QED
      BY <3>1, MoveCursorKeeps
  <2>3. CASE key = KEY_ARROW_LEFT
    <3>1. Edited(e, key) = MoveCursor(e, -1, 0)
      BY <2>3 DEF Edited
    <3>2. QED
      BY <3>1, MoveCursorKeeps
  <2>4. CASE key = KEY_ARROW_RIGHT
    <3>1. Edited(e, key) = MoveCursor(e, 1, 0)
      BY <2>4 DEF Edited
    <3>2. QED
      BY <3>1, MoveCursorKeeps
  <2>5. QED
    BY <1>4, <2>1, <2>2, <2>3, <2>4
<1>5. CASE key \in Printable
  <2>1. Edited(e, key) = InsertChar(e, key)
    BY <1>5 DEF Edited
  <2>2. key \in Byte \ {0}
    BY <1>5
  <2>3. QED
    BY <2>1, <2>2, InsertCharKeeps
<1>6. CASE key \notin Special \cup Printable
  BY <1>6 DEF Edited
<1>7. QED
  BY <1>1, <1>2, <1>3, <1>4, <1>5, <1>6

-----------------------------------------------------------------------------
(* One scancode puts one key into the ring, and the key is taken before    *)
(* the next scancode is read.                                              *)
RingInv ==
  /\ at \in {"poll", "get", "left"}
  /\ ring.head = ring.tail \/ (at = "get" /\ ring.head = NextSlot(ring.tail))

EditorInv == EdInv(ed) /\ Shown(ed) /\ mods \in Modifiers /\ ring \in Ring /\ RingInv

LEMMA ModifiersKept ==
  ASSUME NEW m \in Modifiers, NEW code \in Byte
  PROVE  ModifiersAfter(m, code) \in Modifiers
<1>1. CASE code = Prefix
  BY <1>1 DEF ModifiersAfter, Modifiers
<1>2. CASE code # Prefix
  <2> DEFINE pressed == code < 128
             k == code % 128
             shift == IF k \in ShiftKeys /\ ~m.extended THEN pressed ELSE m.shift
             ctrl == IF k = CtrlKey THEN pressed ELSE m.ctrl
             alt == IF k = AltKey THEN pressed ELSE m.alt
  <2>1. ModifiersAfter(m, code) = [shift |-> shift, ctrl |-> ctrl, alt |-> alt,
                                   extended |-> FALSE]
    BY <1>2, Zenon DEF ModifiersAfter
  <2>2. pressed \in BOOLEAN
    OBVIOUS
  <2> HIDE DEF pressed, k
  <2>3. shift \in BOOLEAN /\ ctrl \in BOOLEAN /\ alt \in BOOLEAN
    BY <2>2, Zenon DEF Modifiers
  <2> HIDE DEF shift, ctrl, alt
  <2>4. QED
    BY <2>1, <2>3 DEF Modifiers
<1>3. QED
  BY <1>1, <1>2

(* Every scancode gives a byte, and the ring of the driver keeps bytes.    *)
LEMMA KeyOfByte ==
  ASSUME NEW m, NEW code \in Byte
  PROVE  KeyOf(m, code) \in Byte
<1>1. ASSUME code <= 57 PROVE Keymap[code + 1] \in Byte /\ KeymapShifted[code + 1] \in Byte
  <2>1. code + 1 \in 1 .. 58
    BY <1>1 DEF Byte
  <2>2. \A i \in 1 .. 58 : Keymap[i] \in Byte /\ KeymapShifted[i] \in Byte
    BY DEF Keymap, KeymapShifted, Byte
  <2>3. QED
    BY <2>1, <2>2
<1>2. ExtendedKey(code) \in Byte
  BY DEF ExtendedKey, Byte, NoKey
<1>3. code \in 59 .. 68 \cup {87, 88} => FunctionKey(code) \in Byte
  BY DEF FunctionKey, Byte
<1>4. QED
  BY <1>1, <1>2, <1>3 DEF KeyOf, Byte, NoKey

LEMMA RingKept ==
  ASSUME NEW r \in Ring
  PROVE  /\ \A key \in Byte : AddKey(r, key) \in Ring
         /\ AfterGetKey(r) \in Ring /\ GetKey(r) \in Byte
<1>1. \A i \in 0 .. RingSize - 1 : NextSlot(i) \in 0 .. RingSize - 1
  BY RingAssumption DEF NextSlot
<1>2. NoKey \in Key /\ Key = Byte
  BY DEF NoKey, Key, Byte
<1>3. ASSUME NEW key \in Byte PROVE AddKey(r, key) \in Ring
  BY <1>1, <1>2 DEF AddKey, Ring
<1>4. AfterGetKey(r) \in Ring
  BY <1>1, <1>2 DEF AfterGetKey, Ring
<1>5. GetKey(r) \in Byte
  BY <1>2 DEF GetKey, Ring
<1>6. QED
  BY <1>3, <1>4, <1>5

(* The number of keys in a ring that has none or one.                      *)
LEMMA WaitingSays ==
  ASSUME NEW r \in Ring
  PROVE  /\ r.head = r.tail => Waiting(r) = 0
         /\ r.head = NextSlot(r.tail) => Waiting(r) = 1
<1> DEFINE n == RingSize
<1>1. r.head \in 0 .. n - 1 /\ r.tail \in 0 .. n - 1 /\ n \in Nat /\ n >= 2
  BY RingAssumption DEF Ring
<1>2. 0 % n = 0 /\ 1 % n = 1 /\ n % n = 0 /\ (1 - n) % n = 1
  BY <1>1
<1>3. \A i \in 0 .. n - 1 : NextSlot(i) = IF i = n - 1 THEN 0 ELSE i + 1
  <2>1. \A i \in 0 .. n - 1 : i % n = i
    BY <1>1
  <2>2. QED
    BY <1>1, <1>2, <2>1 DEF NextSlot
<1>4. CASE r.head = r.tail
  <2>1. r.head - r.tail = 0
    BY <1>1, <1>4
  <2>2. NextSlot(r.tail) # r.tail
    BY <1>1, <1>3
  <2>3. QED
    BY <1>2, <1>4, <2>1, <2>2 DEF Waiting
<1>5. CASE r.head = NextSlot(r.tail)
  <2>1. r.head - r.tail \in {1, 1 - n}
    BY <1>1, <1>3, <1>5
  <2>2. r.head # r.tail
    BY <1>1, <1>3, <1>5
  <2>3. QED
    BY <1>2, <1>5, <2>1, <2>2 DEF Waiting
<1>6. QED
  BY <1>4, <1>5

(* A key goes into an empty ring and is the one that is taken out.         *)
LEMMA RingAlternates ==
  ASSUME NEW r \in Ring
  PROVE  /\ \A key \in Byte : r.head = r.tail =>
              \/ AddKey(r, key).head = AddKey(r, key).tail
              \/ AddKey(r, key).head = NextSlot(AddKey(r, key).tail)
         /\ r.head = r.tail \/ r.head = NextSlot(r.tail) =>
              AfterGetKey(r).head = AfterGetKey(r).tail
<1>1. r.tail \in 0 .. RingSize - 1
  BY DEF Ring
<1>2. ASSUME NEW key \in Byte, r.head = r.tail
      PROVE  \/ AddKey(r, key).head = AddKey(r, key).tail
             \/ AddKey(r, key).head = NextSlot(AddKey(r, key).tail)
  <2>1. NextSlot(r.tail) # r.tail
    <3>1. r.tail + 1 < RingSize => NextSlot(r.tail) = r.tail + 1
      BY <1>1, RingAssumption DEF NextSlot
    <3>2. r.tail + 1 = RingSize => NextSlot(r.tail) = 0
      BY <1>1, RingAssumption DEF NextSlot
    <3>3. QED
      BY <1>1, <3>1, <3>2, RingAssumption
  <2>2. QED
    BY <1>2, <2>1 DEF AddKey
<1>3. ASSUME r.head = r.tail \/ r.head = NextSlot(r.tail)
      PROVE  AfterGetKey(r).head = AfterGetKey(r).tail
  BY <1>3 DEF AfterGetKey, Ring
<1>4. QED
  BY <1>2, <1>3

LEMMA LoadInv ==
  ASSUME NEW f \in Files
  PROVE  EdInv(Load(f)) /\ Shown(Load(f))
<1> DEFINE e == Load(f)
           char(r, c) == IF r < Len(f) /\ c < MaxCols - 1 /\ c < Len(f[r + 1])
                         THEN f[r + 1][c + 1] ELSE 0
<1>1. Len(f) \in 1 .. MaxLines /\ f \in Seq(Seq(Byte \ {0, 10})) /\ MaxLines \in Nat
      /\ MaxCols \in Nat /\ MaxCols >= 2
  BY EditorAssumption
<1>2. ASSUME NEW r \in Rows, NEW c \in Cols PROVE char(r, c) \in Byte
  <2>1. CASE r < Len(f) /\ c < MaxCols - 1 /\ c < Len(f[r + 1])
    <3>1. f[r + 1] \in Seq(Byte \ {0, 10})
      BY <1>1, <2>1 DEF Rows
    <3>2. c + 1 \in 1 .. Len(f[r + 1])
      BY <2>1, <3>1 DEF Cols
    <3>3. f[r + 1][c + 1] \in Byte
      BY <3>1, <3>2
    <3>4. QED
      BY <2>1, <3>3
  <2>2. CASE ~(r < Len(f) /\ c < MaxCols - 1 /\ c < Len(f[r + 1]))
    BY <2>2 DEF Byte
  <2>3. QED
    BY <2>1, <2>2
<1>3. \A r \in Rows : char(r, MaxCols - 1) = 0
  BY <1>1
<1>4. e.buffer = [r \in Rows |-> [c \in Cols |-> char(r, c)]] /\ e.cursor_x = 0
      /\ e.cursor_y = 0 /\ e.scroll_x = 0 /\ e.scroll_y = 0 /\ e.lines = Len(f)
  BY DEF Load
<1>5. e \in [buffer : {e.buffer}, cursor_x : Nat, cursor_y : Nat, scroll_x : Nat,
              scroll_y : Nat, lines : Nat, modified : BOOLEAN, help_menu_open : BOOLEAN]
  BY <1>1 DEF Load
<1> HIDE DEF e, char
<1>6. e.buffer \in [Rows -> Row]
  BY <1>2, <1>4 DEF Row
<1>7. e \in EditorState
  BY <1>5, <1>6 DEF EditorState
<1>8. \A r \in Rows : Ended(e.buffer[r])
  <2>1. MaxCols - 1 \in Cols
    BY <1>1 DEF Cols
  <2>2. QED
    BY <1>3, <1>4, <1>6, <2>1 DEF Ended
<1>9. e.cursor_x <= StrLen(CursorRow(e))
  <2>1. StrLen(CursorRow(e)) \in Cols
    BY <1>1, <1>4, <1>8, StrLenSays DEF CursorRow, Rows
  <2>2. QED
    BY <1>1, <1>4, <2>1 DEF Cols
<1>10. ASSUME NEW r \in Rows, r >= e.lines PROVE e.buffer[r][0] = 0
  <2>1. char(r, 0) = 0 /\ 0 \in Cols
    BY <1>1, <1>4, <1>10 DEF char, Rows, Cols
  <2>2. QED
    BY <1>4, <2>1
<1>11. EdInv(e)
  BY <1>1, <1>4, <1>7, <1>8, <1>9, <1>10 DEF EdInv
<1>12. Shown(e)
  BY <1>4, EditorAssumption DEF Shown
<1>13. QED
  BY <1>11, <1>12 DEF e

LEMMA WithKeyKeeps ==
  ASSUME NEW e, EdInv(e), Shown(e), NEW key \in Byte
  PROVE  EdInv(WithKey(e, key)) /\ Shown(WithKey(e, key))
<1>1. CASE e.help_menu_open
  BY <1>1, HelpToggled DEF WithKey
<1>2. CASE ~e.help_menu_open /\ key \in {NoKey, KEY_CTRL_Q}
  BY <1>2 DEF WithKey
<1>3. CASE ~e.help_menu_open /\ key \notin {NoKey, KEY_CTRL_Q}
  BY <1>3, EditedKeeps, ScrollKeeps DEF WithKey, HandleKey
<1>4. QED
  BY <1>1, <1>2, <1>3

LEMMA EditorInitInv == EditorInit => EditorInv
<1> SUFFICES ASSUME EditorInit PROVE EditorInv
  OBVIOUS
<1>1. EdInv(ed) /\ Shown(ed)
  BY LoadInv DEF EditorInit
<1>2. ring \in Ring
  BY RingAssumption DEF EditorInit, EmptyRing, Ring, NoKey, Key, Byte
<1>3. mods \in Modifiers
  BY DEF EditorInit, NoModifiers, Modifiers
<1>4. RingInv
  BY DEF EditorInit, EmptyRing, RingInv
<1>5. QED
  BY <1>1, <1>2, <1>3, <1>4 DEF EditorInv

LEMMA EditorNextInv == EditorInv /\ [EditorNext]_edVars => EditorInv'
<1> SUFFICES ASSUME EditorInv, [EditorNext]_edVars PROVE EditorInv'
  OBVIOUS
<1>1. CASE Poll
  <2>1. CASE UNCHANGED <<mods, ring>>
    BY <1>1, <2>1 DEF Poll, EditorInv, RingInv
  <2>2. ASSUME NEW code \in Scancodes[mods.shift],
               mods' = ModifiersAfter(mods, code), ring' = AddKey(ring, KeyOf(mods, code))
        PROVE  EditorInv'
    <3>1. mods.shift \in BOOLEAN
      BY DEF EditorInv, Modifiers
    <3>2. code \in Byte
      BY <3>1, EditorAssumption
    <3>3. mods' \in Modifiers
      BY <2>2, <3>2, ModifiersKept DEF EditorInv
    <3>4. ring' \in Ring
      BY <2>2, <3>2, KeyOfByte, RingKept DEF EditorInv
    <3>5. RingInv'
      BY <1>1, <2>2, <3>2, KeyOfByte, RingAlternates DEF Poll, EditorInv, RingInv
    <3>6. QED
      BY <1>1, <3>3, <3>4, <3>5 DEF Poll, EditorInv
  <2>3. QED
    BY <1>1, <2>1, <2>2 DEF Poll
<1>2. CASE Get
  <2>1. EdInv(ed)' /\ Shown(ed)' /\ mods' \in Modifiers /\ ring' \in Ring
    BY <1>2, RingKept, WithKeyKeeps DEF Get, EditorInv
  <2>2. RingInv'
    BY <1>2, RingAlternates DEF Get, EditorInv, RingInv
  <2>3. QED
    BY <2>1, <2>2 DEF EditorInv
<1>3. CASE UNCHANGED edVars
  BY <1>3 DEF edVars, EditorInv, RingInv
<1>4. QED
  BY <1>1, <1>2, <1>3 DEF EditorNext

(* Whatever is typed, and however long the file and its lines are, the     *)
(* cursor stays on a line of the text and not behind its end.              *)
THEOREM EditorCursorInText == EditorSpec => []CursorInText
<1>1. EditorInv => CursorInText
  BY DEF EditorInv, EdInv, CursorInText
<1>2. QED
  BY <1>1, EditorInitInv, EditorNextInv, PTL DEF EditorSpec

(* For every size of the screen, the window follows the cursor.            *)
THEOREM EditorCursorOnScreen == EditorSpec => []CursorOnScreen
<1>1. EditorInv => CursorOnScreen
  BY DEF EditorInv, Shown, CursorOnScreen
<1>2. QED
  BY <1>1, EditorInitInv, EditorNextInv, PTL DEF EditorSpec

LEMMA EditorInvHolds == EditorSpec => []EditorInv
BY EditorInitInv, EditorNextInv, PTL DEF EditorSpec

(* Every part of the state is of its type.                                 *)
THEOREM EditorTypeCorrect == EditorSpec => []EditorTypeOK
<1>1. EditorInv => EditorTypeOK
  BY DEF EditorInv, RingInv, EdInv, EditorTypeOK
<1>2. QED
  BY <1>1, EditorInvHolds, PTL

(* The ring of the driver never holds a second key, whatever its size, so  *)
(* none is forgotten: also not while the help menu is open.                *)
THEOREM EditorForgetsNoKey == EditorSpec => []NoKeyForgotten
<1>1. EditorInv => NoKeyForgotten
  BY WaitingSays DEF EditorInv, RingInv, NoKeyForgotten
<1>2. QED
  BY <1>1, EditorInvHolds, PTL

-----------------------------------------------------------------------------
(* What InsertAt and RemoveAt do to a sequence, element by element.        *)
LEMMA InsertAtSays ==
  ASSUME NEW S, NEW s \in Seq(S), NEW i \in 1 .. Len(s) + 1, NEW e \in S
  PROVE  /\ Text!InsertAt(s, i, e) \in Seq(S)
         /\ Len(Text!InsertAt(s, i, e)) = Len(s) + 1
         /\ \A k \in 1 .. Len(s) + 1 :
              Text!InsertAt(s, i, e)[k] = IF k < i THEN s[k] ELSE IF k = i THEN e ELSE s[k - 1]
<1> DEFINE a == SubSeq(s, 1, i - 1)
           b == SubSeq(s, i, Len(s))
<1>1. Len(s) \in Nat /\ \A k \in 1 .. Len(s) : s[k] \in S
  BY LenProperties
<1>2. a \in Seq(S) /\ Len(a) = i - 1 /\ \A k \in 1 .. i - 1 : a[k] = s[k]
  <2>1. \A k \in 1 .. i - 1 : s[k] \in S
    BY <1>1
  <2>2. QED
    BY <1>1, <2>1, SubSeqProperties
<1>3. b \in Seq(S) /\ Len(b) = Len(s) + 1 - i
      /\ \A k \in 1 .. Len(s) + 1 - i : b[k] = s[k + i - 1]
  <2>1. \A k \in i .. Len(s) : s[k] \in S
    BY <1>1
  <2>2. /\ SubSeq(s, i, Len(s)) \in Seq(S)
        /\ Len(SubSeq(s, i, Len(s))) = IF i <= Len(s) THEN Len(s) - i + 1 ELSE 0
        /\ \A k \in 1 .. Len(s) - i + 1 : SubSeq(s, i, Len(s))[k] = s[i + k - 1]
    BY <1>1, <2>1, SubSeqProperties
  <2>3. QED
    BY <1>1, <2>2
<1>4. <<e>> \in Seq(S) /\ Len(<<e>>) = 1 /\ <<e>>[1] = e
  OBVIOUS
<1> HIDE DEF a, b
<1>5. /\ a \o <<e>> \in Seq(S) /\ Len(a \o <<e>>) = i
      /\ \A k \in 1 .. i : (a \o <<e>>)[k] = IF k < i THEN s[k] ELSE e
  BY <1>1, <1>2, <1>4, ConcatProperties
<1> DEFINE c == a \o <<e>>
<1>6. c \in Seq(S) /\ Len(c) = i /\ \A k \in 1 .. i : c[k] = IF k < i THEN s[k] ELSE e
  BY <1>5
<1> HIDE DEF c
<1>7. /\ c \o b \in Seq(S) /\ Len(c \o b) = Len(c) + Len(b)
      /\ \A k \in 1 .. Len(c) + Len(b) :
           (c \o b)[k] = IF k <= Len(c) THEN c[k] ELSE b[k - Len(c)]
  BY <1>3, <1>6, ConcatProperties
<1>8. Text!InsertAt(s, i, e) = c \o b
  BY DEF Text!InsertAt, a, b, c
<1>9. QED
  BY <1>1, <1>3, <1>6, <1>7, <1>8

LEMMA RemoveAtSays ==
  ASSUME NEW S, NEW s \in Seq(S), NEW i \in 1 .. Len(s)
  PROVE  /\ Text!RemoveAt(s, i) \in Seq(S) /\ Len(Text!RemoveAt(s, i)) = Len(s) - 1
         /\ \A k \in 1 .. Len(s) - 1 :
              Text!RemoveAt(s, i)[k] = IF k < i THEN s[k] ELSE s[k + 1]
<1> DEFINE a == SubSeq(s, 1, i - 1)
           b == SubSeq(s, i + 1, Len(s))
<1>1. Len(s) \in Nat /\ \A k \in 1 .. Len(s) : s[k] \in S
  BY LenProperties
<1>2. a \in Seq(S) /\ Len(a) = i - 1 /\ \A k \in 1 .. i - 1 : a[k] = s[k]
  <2>1. \A k \in 1 .. i - 1 : s[k] \in S
    BY <1>1
  <2>2. QED
    BY <1>1, <2>1, SubSeqProperties
<1>3. b \in Seq(S) /\ Len(b) = Len(s) - i
      /\ \A k \in 1 .. Len(s) - i : b[k] = s[k + i]
  <2>1. \A k \in i + 1 .. Len(s) : s[k] \in S
    BY <1>1
  <2>2. /\ b \in Seq(S) /\ Len(b) = IF i + 1 <= Len(s) THEN Len(s) - (i + 1) + 1 ELSE 0
        /\ \A k \in 1 .. Len(s) - (i + 1) + 1 : b[k] = s[i + 1 + k - 1]
    BY <1>1, <2>1, SubSeqProperties
  <2> HIDE DEF b
  <2>3. QED
    BY <1>1, <2>2
<1>4. Text!RemoveAt(s, i) = a \o b
  BY DEF Text!RemoveAt
<1> HIDE DEF a, b
<1>5. /\ a \o b \in Seq(S) /\ Len(a \o b) = Len(a) + Len(b)
      /\ \A k \in 1 .. Len(a) + Len(b) :
           (a \o b)[k] = IF k <= Len(a) THEN a[k] ELSE b[k - Len(a)]
  BY <1>2, <1>3, ConcatProperties
<1>6. QED
  BY <1>1, <1>2, <1>3, <1>4, <1>5

(* The text of a line that ends: its characters up to the first zero.      *)
LEMMA TextOfSays ==
  ASSUME NEW row, Ended(row)
  PROVE  /\ TextOf(row) \in Seq(Byte) /\ Len(TextOf(row)) = StrLen(row)
         /\ \A k \in 1 .. StrLen(row) : TextOf(row)[k] = row[k - 1]
<1>1. StrLen(row) \in Cols /\ StrLen(row) \in Nat /\ StrLen(row) <= MaxCols - 1
  BY StrLenSays, EditorAssumption DEF Cols
<1>2. \A k \in 1 .. StrLen(row) : row[k - 1] \in Byte
  BY <1>1, EditorAssumption DEF Ended, Row, Cols
<1>3. QED
  BY <1>1, <1>2 DEF TextOf

(* The length of a line: where its first zero is.                          *)
LEMMA StrLenIs ==
  ASSUME NEW row, Ended(row), NEW n \in Cols, row[n] = 0,
         \A i \in Cols : i < n => row[i] # 0
  PROVE  StrLen(row) = n
<1>1. StrLen(row) \in Cols /\ n <= StrLen(row)
  BY StrLenSays
<1>2. CASE StrLen(row) > n
  <2>1. n + 1 \in Cols /\ n + 1 <= StrLen(row) /\ n < n + 1
    BY <1>1, <1>2, EditorAssumption DEF Cols
  <2>2. row[n] # 0
    BY <2>1, StrLenSays
  <2>3. QED
    BY <2>2
<1>3. QED
  BY <1>1, <1>2, EditorAssumption DEF Cols

(* The line that typing a character makes, and the one that Backspace      *)
(* makes, are the line with the character put in and taken out.            *)
LEMMA InsertedText ==
  ASSUME NEW row, Ended(row), NEW x \in Nat, x <= StrLen(row), x < MaxCols - 1,
         NEW key \in Byte \ {0}, NEW new,
         new = [i \in Cols |-> IF i = x THEN key
                               ELSE IF i > x /\ i < MaxCols - 1 THEN row[i - 1] ELSE row[i]]
  PROVE  Ended(new) /\ TextOf(new) = Text!Cut(Text!InsertAt(TextOf(row), x + 1, key))
<1> DEFINE n == StrLen(row)
           s == TextOf(row)
           t == Text!InsertAt(s, x + 1, key)
           m == IF n < MaxCols - 1 THEN n + 1 ELSE MaxCols - 1
<1>1. n \in Cols /\ MaxCols \in Nat /\ MaxCols >= 2 /\ Cols = 0 .. MaxCols - 1 /\ row \in Row
      /\ row[MaxCols - 1] = 0
  BY StrLenSays, EditorAssumption DEF Cols, Ended
<1>2. s \in Seq(Byte) /\ Len(s) = n /\ \A k \in 1 .. n : s[k] = row[k - 1]
  BY TextOfSays
<1>3. \A i \in Cols : i < n => row[i] # 0
  BY <1>1, StrLenSays
<1>4. n < MaxCols - 1 => row[n] = 0
  <2>1. ASSUME n < MaxCols - 1, row[n] # 0 PROVE FALSE
    <3>1. n + 1 \in Cols /\ \A i \in Cols : i < n + 1 => row[i] # 0
      BY <1>1, <1>3, <2>1
    <3>2. n + 1 <= StrLen(row)
      BY <3>1, StrLenSays
    <3>3. QED
      BY <1>1, <3>2
  <2>2. QED
    BY <2>1
<1> HIDE DEF n, s
<1>5. Ended(new)
  <2>1. \A i \in Cols : new[i] \in Byte
    BY <1>1 DEF Row
  <2>2. new \in Row /\ new[MaxCols - 1] = 0
    BY <1>1, <2>1 DEF Row
  <2>3. QED
    BY <2>2 DEF Ended
<1>6. StrLen(new) = m
  <2>1. m \in Cols
    BY <1>1
  <2>2. new[m] = 0
    <3>1. CASE n = MaxCols - 1
      BY <1>1, <1>5, <3>1 DEF Ended
    <3>2. CASE n + 1 = MaxCols - 1
      BY <1>1, <1>5, <3>2 DEF Ended
    <3>3. CASE n + 1 < MaxCols - 1
      BY <1>1, <1>4, <3>3 DEF n
    <3>4. QED
      BY <1>1, <3>1, <3>2, <3>3
  <2>3. ASSUME NEW i \in Cols, i < m PROVE new[i] # 0
    <3>1. CASE i < x
      <4>1. i < n /\ new[i] = row[i]
        BY <1>1, <2>3, <3>1 DEF n
      <4>2. QED
        BY <1>3, <4>1
    <3>2. CASE i = x
      BY <1>1, <3>2
    <3>3. CASE i > x
      <4>1. i - 1 \in Cols /\ i - 1 < n /\ new[i] = row[i - 1]
        BY <1>1, <2>3, <3>3
      <4>2. QED
        BY <1>3, <4>1
    <3>4. QED
      BY <1>1, <3>1, <3>2, <3>3
  <2> HIDE DEF m
  <2>4. QED
    BY <1>5, <2>1, <2>2, <2>3, StrLenIs
<1>7. /\ t \in Seq(Byte) /\ Len(t) = n + 1
      /\ \A k \in 1 .. n + 1 :
           t[k] = IF k < x + 1 THEN s[k] ELSE IF k = x + 1 THEN key ELSE s[k - 1]
  <2>1. x + 1 \in 1 .. Len(s) + 1
    BY <1>1, <1>2 DEF n
  <2>2. QED
    BY <1>2, <2>1, InsertAtSays
<1> HIDE DEF t
<1>8. Text!Cut(t) = SubSeq(t, 1, m)
  BY <1>1, <1>7 DEF Text!Cut
<1>9. /\ SubSeq(t, 1, m) \in Seq(Byte) /\ Len(SubSeq(t, 1, m)) = m
      /\ \A k \in 1 .. m : SubSeq(t, 1, m)[k] = t[k]
  <2>1. m \in Nat /\ m >= 1 /\ m <= n + 1
    BY <1>1
  <2>2. \A k \in 1 .. m : t[k] \in Byte
    BY <1>1, <1>7, <2>1, LenProperties
  <2> HIDE DEF m
  <2>3. /\ SubSeq(t, 1, m) \in Seq(Byte) /\ Len(SubSeq(t, 1, m)) = IF 1 <= m THEN m - 1 + 1 ELSE 0
        /\ \A k \in 1 .. m - 1 + 1 : SubSeq(t, 1, m)[k] = t[1 + k - 1]
    BY <2>1, <2>2, SubSeqProperties
  <2>4. QED
    BY <2>1, <2>3
<1>10. /\ TextOf(new) \in Seq(Byte) /\ Len(TextOf(new)) = m
       /\ \A k \in 1 .. m : TextOf(new)[k] = new[k - 1]
  BY <1>5, <1>6, TextOfSays
<1>11. ASSUME NEW k \in 1 .. m PROVE TextOf(new)[k] = SubSeq(t, 1, m)[k]
  <2>1. k \in 1 .. n + 1 /\ k <= MaxCols - 1
    BY <1>1, <1>11
  <2>2. TextOf(new)[k] = new[k - 1] /\ SubSeq(t, 1, m)[k] = t[k]
    BY <1>9, <1>10, <1>11
  <2>3. CASE k < x + 1
    <3>1. new[k - 1] = row[k - 1] /\ t[k] = s[k] /\ k \in 1 .. n
      BY <1>1, <1>7, <2>1, <2>3 DEF n
    <3>2. QED
      BY <1>2, <2>2, <3>1
  <2>4. CASE k = x + 1
    BY <1>1, <1>7, <2>1, <2>2, <2>4
  <2>5. CASE k > x + 1
    <3>1. new[k - 1] = row[k - 2] /\ t[k] = s[k - 1] /\ k - 1 \in 1 .. n
      BY <1>1, <1>7, <2>1, <2>5
    <3>2. s[k - 1] = row[k - 2]
      BY <1>1, <1>2, <2>1, <3>1
    <3>3. QED
      BY <2>2, <3>1, <3>2
  <2>6. k < x + 1 \/ k = x + 1 \/ k > x + 1
    BY <1>1, <2>1
  <2>7. QED
    BY <2>3, <2>4, <2>5, <2>6
<1> HIDE DEF m
<1>12. TextOf(new) = SubSeq(t, 1, m)
  BY <1>9, <1>10, <1>11, SeqEqual
<1>13. QED
  BY <1>5, <1>8, <1>12 DEF t, s

LEMMA RemovedText ==
  ASSUME NEW row, Ended(row), NEW x \in Nat, x + 1 <= StrLen(row), NEW new,
         new = [i \in Cols |-> IF i < x THEN row[i]
                               ELSE IF i < MaxCols - 1 THEN row[i + 1] ELSE 0]
  PROVE  Ended(new) /\ TextOf(new) = Text!RemoveAt(TextOf(row), x + 1)
<1> DEFINE n == StrLen(row)
           s == TextOf(row)
           t == Text!RemoveAt(s, x + 1)
<1>1. /\ n \in Cols /\ n \in Nat /\ MaxCols \in Nat /\ MaxCols >= 2 /\ Cols = 0 .. MaxCols - 1
      /\ row \in Row /\ row[MaxCols - 1] = 0 /\ x + 1 <= n /\ n - 1 \in Nat /\ n - 1 \in Cols
  BY StrLenSays, EditorAssumption DEF Cols, Ended
<1>2. s \in Seq(Byte) /\ Len(s) = n /\ \A k \in 1 .. n : s[k] = row[k - 1]
  BY TextOfSays
<1>3. \A i \in Cols : i < n => row[i] # 0
  BY <1>1, StrLenSays
<1>4. n < MaxCols - 1 => row[n] = 0
  <2>1. ASSUME n < MaxCols - 1, row[n] # 0 PROVE FALSE
    <3>1. n + 1 \in Cols /\ \A i \in Cols : i < n + 1 => row[i] # 0
      BY <1>1, <1>3, <2>1
    <3>2. n + 1 <= StrLen(row)
      BY <3>1, StrLenSays
    <3>3. QED
      BY <1>1, <3>2
  <2>2. QED
    BY <2>1
<1> HIDE DEF n, s
<1>5. Ended(new)
  <2>1. \A i \in Cols : new[i] \in Byte
    BY <1>1 DEF Row, Byte
  <2>2. new \in Row /\ new[MaxCols - 1] = 0
    BY <1>1, <2>1 DEF Row
  <2>3. QED
    BY <2>2 DEF Ended
<1>6. StrLen(new) = n - 1
  <2>1. new[n - 1] = 0
    <3>1. CASE n - 1 = MaxCols - 1
      BY <1>1, <3>1
    <3>2. CASE n = MaxCols - 1
      BY <1>1, <3>2
    <3>3. CASE n < MaxCols - 1
      BY <1>1, <1>4, <3>3
    <3>4. QED
      BY <1>1, <3>1, <3>2, <3>3
  <2>2. ASSUME NEW i \in Cols, i < n - 1 PROVE new[i] # 0
    <3>1. CASE i < x
      BY <1>1, <1>3, <2>2, <3>1
    <3>2. CASE i >= x
      <4>1. i + 1 \in Cols /\ i + 1 < n /\ new[i] = row[i + 1]
        BY <1>1, <2>2, <3>2
      <4>2. QED
        BY <1>3, <4>1
    <3>3. QED
      BY <1>1, <3>1, <3>2
  <2>3. QED
    BY <1>1, <1>5, <2>1, <2>2, StrLenIs
<1>7. /\ t \in Seq(Byte) /\ Len(t) = n - 1
      /\ \A k \in 1 .. n - 1 : t[k] = IF k < x + 1 THEN s[k] ELSE s[k + 1]
  <2>1. x + 1 \in 1 .. Len(s)
    BY <1>1, <1>2
  <2>2. QED
    BY <1>2, <2>1, RemoveAtSays
<1> HIDE DEF t
<1>8. /\ TextOf(new) \in Seq(Byte) /\ Len(TextOf(new)) = n - 1
      /\ \A k \in 1 .. n - 1 : TextOf(new)[k] = new[k - 1]
  BY <1>5, <1>6, TextOfSays
<1>9. ASSUME NEW k \in 1 .. n - 1 PROVE TextOf(new)[k] = t[k]
  <2>1. k \in 1 .. n /\ k + 1 \in 1 .. n /\ k - 1 \in Cols /\ k \in Cols /\ k - 1 < MaxCols - 1
    BY <1>1, <1>9
  <2>2. TextOf(new)[k] = new[k - 1] /\ s[k] = row[k - 1] /\ s[k + 1] = row[k]
    BY <1>2, <1>8, <2>1
  <2>3. CASE k < x + 1
    BY <1>1, <1>7, <2>1, <2>2, <2>3
  <2>4. CASE k >= x + 1
    BY <1>1, <1>7, <2>1, <2>2, <2>4
  <2>5. QED
    BY <2>3, <2>4
<1>10. TextOf(new) = t
  BY <1>7, <1>8, <1>9, SeqEqual
<1>11. QED
  BY <1>5, <1>10 DEF t, s

-----------------------------------------------------------------------------
(* The steps of TextBuffer from editor state e to f: Type, Erase, NewLine, *)
(* Move, or none.                                                          *)
LineOf(e) == TextIn(e)[e.cursor_y + 1]
Replaced(e, line) == [TextIn(e) EXCEPT ![e.cursor_y + 1] = line]

Typed(e, f) ==
  /\ e.cursor_x < MaxCols - 1 /\ f.cursor_x = e.cursor_x + 1 /\ f.cursor_y = e.cursor_y
  /\ \E c \in 32 .. 126 :
       TextIn(f) = Replaced(e, Text!Cut(Text!InsertAt(LineOf(e), e.cursor_x + 1, c)))

Erased(e, f) ==
  /\ e.cursor_x > 0 /\ f.cursor_x = e.cursor_x - 1 /\ f.cursor_y = e.cursor_y
  /\ TextIn(f) = Replaced(e, Text!RemoveAt(LineOf(e), e.cursor_x))

WentUp(e, f) ==
  /\ e.cursor_x = 0 /\ e.cursor_y + 1 > 1
  /\ f.cursor_y + 1 = e.cursor_y + 1 - 1 /\ f.cursor_x = Len(TextIn(e)[e.cursor_y + 1 - 1])
  /\ TextIn(f) = TextIn(e)

WentOn(e, f) ==
  /\ e.cursor_y + 1 < MaxLines /\ f.cursor_y + 1 = e.cursor_y + 1 + 1 /\ f.cursor_x = 0
  /\ TextIn(f) = IF e.cursor_y + 1 = Len(TextIn(e)) THEN Append(TextIn(e), <<>>) ELSE TextIn(e)

MovedInLine(e, f) ==
  /\ TextIn(f) = TextIn(e) /\ f.cursor_y = e.cursor_y
  /\ f.cursor_x \in {e.cursor_x - 1, e.cursor_x + 1} \cap 0 .. Len(LineOf(e))

MovedToLine(e, f) ==
  LET y == f.cursor_y + 1 IN
  /\ TextIn(f) = TextIn(e)
  /\ y \in {e.cursor_y + 1 - 1, e.cursor_y + 1 + 1} \cap 1 .. Len(TextIn(e))
  /\ f.cursor_x = IF e.cursor_x <= Len(TextIn(e)[y]) THEN e.cursor_x ELSE Len(TextIn(e)[y])

Stayed(e, f) == TextIn(f) = TextIn(e) /\ f.cursor_y = e.cursor_y /\ f.cursor_x = e.cursor_x

TextStep(e, f) ==
  \/ Typed(e, f) \/ Erased(e, f) \/ WentUp(e, f) \/ WentOn(e, f)
  \/ MovedInLine(e, f) \/ MovedToLine(e, f) \/ Stayed(e, f)

(* A change is marked, and a mark stays.                                   *)
Marks(e, f) == (TextIn(f) # TextIn(e) \/ e.modified) => f.modified

(* The lines of a text.                                                    *)
LEMMA TextInSays ==
  ASSUME NEW e, EdInv(e)
  PROVE  /\ e.lines \in Nat \ {0} /\ TextIn(e) \in Seq(Seq(Byte)) /\ Len(TextIn(e)) = e.lines
         /\ \A r \in 1 .. e.lines : /\ r - 1 \in Rows /\ TextIn(e)[r] = TextOf(e.buffer[r - 1])
                                    /\ Len(TextIn(e)[r]) = StrLen(e.buffer[r - 1])
         /\ e.cursor_y + 1 \in 1 .. e.lines /\ LineOf(e) = TextOf(CursorRow(e))
         /\ Len(LineOf(e)) = StrLen(CursorRow(e))
<1>1. e.lines \in 1 .. MaxLines /\ MaxLines \in Nat /\ e.cursor_y \in Nat /\ e.cursor_y < e.lines
  BY CursorPlace, EditorAssumption DEF EdInv
<1>2. \A r \in 1 .. e.lines : r - 1 \in Rows
  BY <1>1 DEF Rows
<1>3. \A r \in 1 .. e.lines : TextOf(e.buffer[r - 1]) \in Seq(Byte)
                              /\ Len(TextOf(e.buffer[r - 1])) = StrLen(e.buffer[r - 1])
  BY <1>2, TextOfSays DEF EdInv
<1>4. TextIn(e) \in Seq(Seq(Byte)) /\ Len(TextIn(e)) = e.lines
      /\ \A r \in 1 .. e.lines : TextIn(e)[r] = TextOf(e.buffer[r - 1])
  <2> DEFINE t == [r \in 1 .. e.lines |-> TextOf(e.buffer[r - 1])]
  <2>1. TextIn(e) = t
    BY DEF TextIn
  <2>2. e.lines \in Nat /\ \A r \in 1 .. e.lines : t[r] = TextOf(e.buffer[r - 1])
    BY <1>1
  <2>3. t \in [1 .. e.lines -> Seq(Byte)]
    BY <1>3
  <2> HIDE DEF t
  <2>4. t \in Seq(Seq(Byte)) /\ Len(t) = e.lines
    BY <2>2, <2>3
  <2>5. QED
    BY <2>1, <2>2, <2>4
<1>5. e.cursor_y + 1 \in 1 .. e.lines /\ e.cursor_y + 1 - 1 = e.cursor_y
  BY <1>1
<1>6. e.lines \in Nat \ {0}
  BY <1>1
<1>7. LineOf(e) = TextOf(CursorRow(e)) /\ Len(LineOf(e)) = StrLen(CursorRow(e))
  <2> DEFINE r == e.cursor_y + 1
  <2>1. r \in 1 .. e.lines /\ r - 1 = e.cursor_y
    BY <1>1
  <2>2. LineOf(e) = TextIn(e)[r] /\ CursorRow(e) = e.buffer[e.cursor_y]
    BY DEF LineOf, CursorRow
  <2> HIDE DEF r
  <2>3. TextIn(e)[r] = TextOf(e.buffer[r - 1]) /\ Len(TextOf(e.buffer[r - 1])) = StrLen(e.buffer[r - 1])
    BY <1>3, <1>4, <2>1
  <2>4. QED
    BY <2>1, <2>2, <2>3, Zenon
<1>8. \A r \in 1 .. e.lines : Len(TextIn(e)[r]) = StrLen(e.buffer[r - 1])
  BY <1>3, <1>4
<1>9. QED
  BY <1>2, <1>4, <1>5, <1>6, <1>7, <1>8

(* A new line of the cursor replaces its text.                             *)
LEMMA TextReplaced ==
  ASSUME NEW e, EdInv(e), NEW row, NEW f, f.lines = e.lines,
         f.buffer = [e.buffer EXCEPT ![e.cursor_y] = row]
  PROVE  TextIn(f) = Replaced(e, TextOf(row))
<1>1. e.cursor_y \in Rows /\ e.cursor_y \in Nat /\ e.lines \in Nat /\ DOMAIN e.buffer = Rows
  BY CursorPlace DEF EdInv, EditorState
<1>2. ASSUME NEW r \in 1 .. e.lines
      PROVE  TextOf(f.buffer[r - 1]) = IF r = e.cursor_y + 1 THEN TextOf(row)
                                       ELSE TextOf(e.buffer[r - 1])
  <2>1. r - 1 \in Rows
    BY TextInSays
  <2>2. f.buffer[r - 1] = IF r - 1 = e.cursor_y THEN row ELSE e.buffer[r - 1]
    BY <1>1, <2>1
  <2>3. r - 1 = e.cursor_y <=> r = e.cursor_y + 1
    BY <1>1
  <2>4. QED
    BY <2>2, <2>3
<1>3. TextIn(f) = [r \in 1 .. e.lines |-> TextOf(f.buffer[r - 1])]
  BY DEF TextIn
<1>4. Replaced(e, TextOf(row)) = [r \in 1 .. e.lines |->
                  IF r = e.cursor_y + 1 THEN TextOf(row) ELSE TextOf(e.buffer[r - 1])]
  BY DEF Replaced, TextIn
<1>5. QED
  BY <1>2, <1>3, <1>4

LEMMA InsertCharSteps ==
  ASSUME NEW e, EdInv(e), NEW key \in 32 .. 126
  PROVE  TextStep(e, InsertChar(e, key)) /\ Marks(e, InsertChar(e, key))
<1> DEFINE x == e.cursor_x
           row == CursorRow(e)
           new == [i \in Cols |-> IF i = x THEN key
                                  ELSE IF i > x /\ i < MaxCols - 1 THEN row[i - 1] ELSE row[i]]
           f == [e EXCEPT !.buffer[e.cursor_y] = new, !.cursor_x = x + 1, !.modified = TRUE]
<1>1. CASE x >= MaxCols - 1
  BY <1>1 DEF InsertChar, TextStep, Stayed, Marks
<1>2. CASE ~(x >= MaxCols - 1)
  <2>1. InsertChar(e, key) = f
    BY <1>2 DEF InsertChar
  <2>2. x \in Nat /\ Ended(row) /\ x < MaxCols - 1 /\ x <= StrLen(row) /\ key \in Byte \ {0}
    BY <1>2, CursorPlace, EditorAssumption DEF EdInv, Byte
  <2> HIDE DEF row
  <2>3. Ended(new) /\ TextOf(new) = Text!Cut(Text!InsertAt(TextOf(row), x + 1, key))
    BY <2>2, InsertedText
  <2> HIDE DEF new
  <2>4. /\ f.lines = e.lines /\ f.buffer = [e.buffer EXCEPT ![e.cursor_y] = new]
        /\ f.cursor_x = x + 1 /\ f.cursor_y = e.cursor_y /\ f.modified = TRUE
    BY DEF EdInv, EditorState
  <2> HIDE DEF f
  <2>5. TextIn(f) = Replaced(e, TextOf(new))
    BY <2>4, TextReplaced
  <2>6. LineOf(e) = TextOf(row)
    BY TextInSays DEF row
  <2>7. Typed(e, f) /\ Marks(e, f)
    BY <2>2, <2>3, <2>4, <2>5, <2>6 DEF Typed, Marks
  <2>8. QED
    BY <2>1, <2>7 DEF TextStep
<1>3. QED
  BY <1>1, <1>2

LEMMA DeleteCharSteps ==
  ASSUME NEW e, EdInv(e)
  PROVE  TextStep(e, DeleteChar(e)) /\ Marks(e, DeleteChar(e))
<1> DEFINE x == e.cursor_x - 1
           row == CursorRow(e)
           new == [i \in Cols |-> IF i < x THEN row[i]
                                  ELSE IF i < MaxCols - 1 THEN row[i + 1] ELSE 0]
<1>1. e.cursor_x \in Nat /\ e.cursor_y \in Nat /\ Ended(row) /\ e.cursor_x <= StrLen(row)
  BY CursorPlace DEF EdInv
<1>2. CASE e.cursor_x > 0
  <2> DEFINE f == [e EXCEPT !.buffer[e.cursor_y] = new, !.cursor_x = x, !.modified = TRUE]
  <2>1. DeleteChar(e) = f
    BY <1>2 DEF DeleteChar
  <2>2. x \in Nat /\ x + 1 = e.cursor_x
    BY <1>1, <1>2
  <2> HIDE DEF row
  <2>3. Ended(new) /\ TextOf(new) = Text!RemoveAt(TextOf(row), e.cursor_x)
    <3> HIDE DEF x
    <3> QED
      BY <1>1, <2>2, RemovedText
  <2> HIDE DEF new
  <2>4. /\ f.lines = e.lines /\ f.buffer = [e.buffer EXCEPT ![e.cursor_y] = new]
        /\ f.cursor_x = x /\ f.cursor_y = e.cursor_y /\ f.modified = TRUE
    BY DEF EdInv, EditorState
  <2> HIDE DEF f
  <2>5. TextIn(f) = Replaced(e, TextOf(new))
    BY <2>4, TextReplaced
  <2>6. LineOf(e) = TextOf(row)
    BY TextInSays DEF row
  <2>7. Erased(e, f) /\ Marks(e, f)
    BY <1>2, <2>3, <2>4, <2>5, <2>6 DEF Erased, Marks
  <2>8. QED
    BY <2>1, <2>7 DEF TextStep
<1>3. CASE e.cursor_x = 0 /\ e.cursor_y > 0
  <2> DEFINE y == e.cursor_y - 1
             f == [e EXCEPT !.cursor_x = StrLen(e.buffer[y]), !.cursor_y = y, !.modified = TRUE]
  <2>1. DeleteChar(e) = f
    BY <1>1, <1>3 DEF DeleteChar
  <2>2. /\ f.lines = e.lines /\ f.buffer = e.buffer /\ f.cursor_x = StrLen(e.buffer[y])
        /\ f.cursor_y = y /\ f.modified = TRUE
    BY DEF EdInv, EditorState
  <2> HIDE DEF f
  <2>3. TextIn(f) = TextIn(e)
    BY <2>2 DEF TextIn
  <2>4. e.cursor_y \in 1 .. e.lines /\ e.cursor_y + 1 - 1 = e.cursor_y
    BY <1>1, <1>3, TextInSays
  <2>5. Len(TextIn(e)[e.cursor_y]) = StrLen(e.buffer[y])
    BY <2>4, TextInSays
  <2>6. WentUp(e, f) /\ Marks(e, f)
    BY <1>1, <1>3, <2>2, <2>3, <2>4, <2>5 DEF WentUp, Marks
  <2>7. QED
    BY <2>1, <2>6 DEF TextStep
<1>4. CASE ~(e.cursor_x > 0) /\ ~(e.cursor_y > 0)
  BY <1>4 DEF DeleteChar, TextStep, Stayed, Marks
<1>5. QED
  BY <1>1, <1>2, <1>3, <1>4

LEMMA NewLineSteps ==
  ASSUME NEW e, EdInv(e)
  PROVE  TextStep(e, NewLine(e)) /\ Marks(e, NewLine(e))
<1> DEFINE y == e.cursor_y + 1
           n == IF e.cursor_y + 1 >= e.lines THEN e.cursor_y + 2 ELSE e.lines
           f == [e EXCEPT !.cursor_y = y, !.cursor_x = 0, !.modified = TRUE, !.lines = n]
<1>1. e.cursor_y \in Nat /\ e.lines \in Nat /\ e.cursor_y < e.lines /\ MaxLines \in Nat
  BY CursorPlace, EditorAssumption DEF EdInv
<1>2. CASE e.cursor_y >= MaxLines - 1
  BY <1>2 DEF NewLine, TextStep, Stayed, Marks
<1>3. CASE ~(e.cursor_y >= MaxLines - 1)
  <2>1. NewLine(e) = f
    BY <1>3 DEF NewLine
  <2>2. /\ f.lines = n /\ f.buffer = e.buffer /\ f.cursor_x = 0 /\ f.cursor_y = y
        /\ f.modified = TRUE
    BY DEF EdInv, EditorState
  <2> HIDE DEF f
  <2>3. TextIn(f) = IF y = Len(TextIn(e)) THEN Append(TextIn(e), <<>>) ELSE TextIn(e)
    <3>1. CASE y = e.lines
      <4>1. n = e.lines + 1
        BY <1>1, <3>1
      <4>2. TextOf(e.buffer[e.lines]) = <<>>
        <5>1. e.lines \in Rows /\ 0 \in Cols
          BY <1>1, <1>3, <3>1, EditorAssumption DEF Rows, Cols
        <5>2. Ended(e.buffer[e.lines]) /\ e.buffer[e.lines][0] = 0
          BY <1>1, <5>1 DEF EdInv
        <5>3. StrLen(e.buffer[e.lines]) = 0
          BY <5>1, <5>2, StrLenIs, EditorAssumption DEF Cols
        <5>4. TextOf(e.buffer[e.lines]) \in Seq(Byte) /\ Len(TextOf(e.buffer[e.lines])) = 0
          BY <5>2, <5>3, TextOfSays
        <5>5. QED
          BY <5>4, EmptySeq
      <4>3. TextIn(f) = [r \in 1 .. e.lines + 1 |-> TextOf(e.buffer[r - 1])]
        BY <2>2, <4>1 DEF TextIn
      <4>4. /\ TextIn(e) \in Seq(Seq(Byte)) /\ Len(TextIn(e)) = e.lines
            /\ \A r \in 1 .. e.lines : TextIn(e)[r] = TextOf(e.buffer[r - 1])
        BY TextInSays
      <4> DEFINE t == TextIn(e)
                 u == Append(t, <<>>)
      <4>5. /\ u \in Seq(Seq(Byte)) /\ Len(u) = e.lines + 1 /\ u[e.lines + 1] = <<>>
            /\ \A r \in 1 .. e.lines : u[r] = t[r]
        <5>1. <<>> \in Seq(Byte)
          BY EmptySeq
        <5>2. t \in Seq(Seq(Byte)) /\ Len(t) = e.lines
          BY <4>4
        <5> HIDE DEF t
        <5>3. QED
          BY <1>1, <5>1, <5>2
      <4> HIDE DEF u
      <4>6. ASSUME NEW r \in 1 .. e.lines + 1
            PROVE  TextOf(e.buffer[r - 1]) = u[r]
        <5>1. CASE r = e.lines + 1
          <6>1. r - 1 = e.lines
            BY <1>1, <5>1
          <6>2. QED
            BY <4>2, <4>5, <5>1, <6>1
        <5>2. CASE r # e.lines + 1
          <6>1. r \in 1 .. e.lines
            BY <1>1, <5>2
          <6>2. QED
            BY <4>4, <4>5, <6>1
        <5>3. QED
          BY <5>1, <5>2
      <4>7. TextIn(f) = Append(TextIn(e), <<>>)
        <5>1. u = [r \in 1 .. e.lines + 1 |-> u[r]]
          BY <4>5, LenProperties
        <5>2. TextIn(f) = u
          BY <4>3, <4>6, <5>1
        <5>3. QED
          BY <5>2 DEF u
      <4>8. QED
        BY <3>1, <4>4, <4>7
    <3>2. CASE y # e.lines
      <4>1. n = e.lines
        BY <1>1, <3>2
      <4>2. TextIn(f) = TextIn(e)
        BY <2>2, <4>1 DEF TextIn
      <4>3. QED
        BY <3>2, <4>2, TextInSays
    <3>3. QED
      BY <3>1, <3>2
  <2>4. WentOn(e, f) /\ Marks(e, f)
    BY <1>1, <1>3, <2>2, <2>3 DEF WentOn, Marks
  <2>5. QED
    BY <2>1, <2>4 DEF TextStep
<1>4. QED
  BY <1>2, <1>3

(* The arrows move the cursor one column or one line.                      *)
LEMMA MoveCursorSteps ==
  ASSUME NEW e, EdInv(e), NEW dx \in -1 .. 1, NEW dy \in -1 .. 1, dx = 0 \/ dy = 0
  PROVE  TextStep(e, MoveCursor(e, dx, dy)) /\ Marks(e, MoveCursor(e, dx, dy))
<1> DEFINE y == Clamp(e.cursor_y + dy, 0, e.lines - 1)
           len == StrLen(e.buffer[y])
           x == Clamp(e.cursor_x + dx, 0, len)
           f == [e EXCEPT !.cursor_y = y, !.cursor_x = x]
<1>1. /\ e.cursor_y \in Nat /\ e.cursor_x \in Nat /\ e.lines \in Nat \ {0} /\ e.cursor_y < e.lines
      /\ e.cursor_x <= StrLen(e.buffer[e.cursor_y])
  BY CursorPlace, TextInSays DEF EdInv, CursorRow
<1>2. MoveCursor(e, dx, dy) = f
  BY DEF MoveCursor
<1>3. /\ y \in 0 .. e.lines - 1 /\ y \in {e.cursor_y - 1, e.cursor_y, e.cursor_y + 1}
      /\ dy = 0 => y = e.cursor_y
  BY <1>1 DEF Clamp
<1> HIDE DEF y
<1>4. y + 1 \in 1 .. e.lines /\ y + 1 - 1 = y
  BY <1>1, <1>3
<1>5. Len(TextIn(e)[y + 1]) = len /\ len \in Nat
  <2>1. y \in Rows
    BY <1>1, <1>3, EditorAssumption DEF EdInv, Rows
  <2>2. len \in Cols
    BY <2>1, StrLenSays DEF EdInv
  <2> DEFINE r == y + 1
  <2>3. r \in 1 .. e.lines /\ r - 1 = y
    BY <1>1, <1>3
  <2> HIDE DEF r
  <2>4. Len(TextIn(e)[r]) = StrLen(e.buffer[r - 1])
    BY <2>3, TextInSays
  <2>5. Len(TextIn(e)[r]) = len
    BY <2>3, <2>4, Zenon
  <2>6. QED
    BY <2>2, <2>5, EditorAssumption DEF Cols, r
<1>6. y = e.cursor_y => e.cursor_x <= len
  BY <1>1
<1> HIDE DEF len
<1>7. f.lines = e.lines /\ f.buffer = e.buffer /\ f.cursor_x = x /\ f.cursor_y = y
      /\ f.modified = e.modified
  BY DEF EdInv, EditorState
<1> HIDE DEF f
<1>8. TextIn(f) = TextIn(e)
  BY <1>7 DEF TextIn
<1>9. Marks(e, f)
  BY <1>7, <1>8 DEF Marks
<1>10. CASE y = e.cursor_y
  <2>1. x = e.cursor_x \/ x \in {e.cursor_x - 1, e.cursor_x + 1} \cap 0 .. len
    BY <1>1, <1>5, <1>6, <1>10 DEF Clamp
  <2>2. Len(LineOf(e)) = len
    BY <1>5, <1>10 DEF LineOf
  <2>3. MovedInLine(e, f) \/ Stayed(e, f)
    BY <1>7, <1>8, <1>10, <2>1, <2>2 DEF MovedInLine, Stayed
  <2>4. QED
    BY <1>2, <1>9, <2>3 DEF TextStep
<1>11. CASE y # e.cursor_y
  <2>1. dx = 0
    BY <1>3, <1>11
  <2>2. x = IF e.cursor_x <= len THEN e.cursor_x ELSE len
    BY <1>1, <1>5, <2>1 DEF Clamp
  <2>3. y + 1 \in {e.cursor_y + 1 - 1, e.cursor_y + 1 + 1} \cap 1 .. Len(TextIn(e))
    <3>1. Len(TextIn(e)) = e.lines
      BY TextInSays
    <3>2. y \in {e.cursor_y - 1, e.cursor_y + 1}
      BY <1>3, <1>11
    <3>3. QED
      BY <1>1, <1>4, <3>1, <3>2
  <2>4. MovedToLine(e, f)
    BY <1>5, <1>7, <1>8, <2>2, <2>3 DEF MovedToLine
  <2>5. QED
    BY <1>2, <1>9, <2>4 DEF TextStep
<1>12. QED
  BY <1>10, <1>11

LEMMA EditedSteps ==
  ASSUME NEW e, EdInv(e), NEW key \in Byte
  PROVE  TextStep(e, Edited(e, key)) /\ Marks(e, Edited(e, key))
<1> DEFINE Moves == {KEY_ARROW_UP, KEY_ARROW_DOWN, KEY_ARROW_LEFT, KEY_ARROW_RIGHT}
           Special == {KEY_F1, 10, 8} \cup Moves
           Printable == 32 .. 126 \ Special
<1> USE DEF KEY_F1, KEY_ARROW_UP, KEY_ARROW_DOWN, KEY_ARROW_LEFT, KEY_ARROW_RIGHT
<1>1. CASE key = KEY_F1
  <2> DEFINE f == [e EXCEPT !.help_menu_open = ~@]
  <2>1. Edited(e, key) = f
    BY <1>1 DEF Edited
  <2>2. /\ f.lines = e.lines /\ f.buffer = e.buffer /\ f.cursor_x = e.cursor_x
        /\ f.cursor_y = e.cursor_y /\ f.modified = e.modified
    BY DEF EdInv, EditorState
  <2> HIDE DEF f
  <2>3. Stayed(e, f) /\ Marks(e, f)
    BY <2>2 DEF Stayed, Marks, TextIn
  <2>4. QED
    BY <2>1, <2>3 DEF TextStep
<1>2. CASE key = 10
  BY <1>2, NewLineSteps DEF Edited
<1>3. CASE key = 8
  BY <1>3, DeleteCharSteps DEF Edited
<1>4. CASE key \in Moves
  <2>1. \/ Edited(e, key) = MoveCursor(e, 0, -1) \/ Edited(e, key) = MoveCursor(e, 0, 1)
        \/ Edited(e, key) = MoveCursor(e, -1, 0) \/ Edited(e, key) = MoveCursor(e, 1, 0)
    BY <1>4 DEF Edited
  <2>2. QED
    BY <2>1, MoveCursorSteps
<1>5. CASE key \in Printable
  <2>1. Edited(e, key) = InsertChar(e, key)
    BY <1>5 DEF Edited
  <2>2. QED
    BY <1>5, <2>1, InsertCharSteps
<1>6. CASE key \notin Special \cup Printable
  <2>1. Edited(e, key) = e
    BY <1>6 DEF Edited
  <2>2. QED
    BY <2>1 DEF TextStep, Stayed, Marks
<1>7. QED
  BY <1>1, <1>2, <1>3, <1>4, <1>5, <1>6

LEMMA WithKeySteps ==
  ASSUME NEW e, EdInv(e), NEW key \in Byte
  PROVE  TextStep(e, WithKey(e, key)) /\ Marks(e, WithKey(e, key))
<1>1. CASE e.help_menu_open
  <2> DEFINE f == [e EXCEPT !.help_menu_open = key \notin {KEY_F1, KEY_ESCAPE}]
  <2>1. WithKey(e, key) = f
    BY <1>1 DEF WithKey
  <2>2. /\ f.lines = e.lines /\ f.buffer = e.buffer /\ f.cursor_x = e.cursor_x
        /\ f.cursor_y = e.cursor_y /\ f.modified = e.modified
    BY DEF EdInv, EditorState
  <2> HIDE DEF f
  <2>3. Stayed(e, f) /\ Marks(e, f)
    BY <2>2 DEF Stayed, Marks, TextIn
  <2>4. QED
    BY <2>1, <2>3 DEF TextStep
<1>2. CASE ~e.help_menu_open /\ key \in {NoKey, KEY_CTRL_Q}
  BY <1>2 DEF WithKey, TextStep, Stayed, Marks
<1>3. CASE ~e.help_menu_open /\ key \notin {NoKey, KEY_CTRL_Q}
  <2> DEFINE g == Edited(e, key)
             f == ScrollIfNeeded(g)
  <2>1. WithKey(e, key) = f
    BY <1>3 DEF WithKey, HandleKey
  <2>2. TextStep(e, g) /\ Marks(e, g) /\ EdInv(g)
    BY EditedSteps, EditedKeeps
  <2> HIDE DEF g
  <2>3. /\ f.lines = g.lines /\ f.buffer = g.buffer /\ f.cursor_x = g.cursor_x
        /\ f.cursor_y = g.cursor_y /\ f.modified = g.modified
    BY <2>2 DEF EdInv, EditorState, ScrollIfNeeded
  <2> HIDE DEF f
  <2>4. TextIn(f) = TextIn(g)
    BY <2>3 DEF TextIn
  <2>5. TextStep(e, f)
    BY <2>2, <2>3, <2>4 DEF TextStep, Typed, Erased, WentUp, WentOn, MovedInLine, MovedToLine,
                            Stayed
  <2>6. Marks(e, f)
    BY <2>2, <2>3, <2>4 DEF Marks
  <2>7. QED
    BY <2>1, <2>5, <2>6
<1>4. QED
  BY <1>1, <1>2, <1>3

LEMMA EditorNextSteps ==
  EditorInv /\ [EditorNext]_edVars => TextStep(ed, ed') /\ Marks(ed, ed')
<1> SUFFICES ASSUME EditorInv, [EditorNext]_edVars PROVE TextStep(ed, ed') /\ Marks(ed, ed')
  OBVIOUS
<1>1. CASE Get
  <2>1. ed' = WithKey(ed, GetKey(ring)) /\ GetKey(ring) \in Byte
    BY <1>1, RingKept DEF Get, EditorInv
  <2>2. QED
    BY <2>1, WithKeySteps DEF EditorInv
<1>2. CASE Poll \/ UNCHANGED edVars
  <2>1. ed' = ed
    BY <1>2 DEF Poll, edVars
  <2>2. QED
    BY <2>1 DEF TextStep, Stayed, Marks
<1>3. QED
  BY <1>1, <1>2 DEF EditorNext

(* A text that has been changed is marked as modified, on every path that  *)
(* changes it, and no key takes the mark away.                             *)
THEOREM EditorChangesMarked == EditorSpec => ChangesMarked
<1>1. EditorInv /\ [EditorNext]_edVars
      => [TextIn(ed)' # TextIn(ed) \/ ed.modified => ed'.modified]_edVars
  BY EditorNextSteps DEF Marks, TextIn
<1>2. QED
  BY <1>1, EditorInvHolds, PTL DEF EditorSpec, ChangesMarked

(* The steps above are those of the abstract editor.                       *)
LEMMA TextStepNext ==
  ASSUME EdInv(ed), TextStep(ed, ed')
  PROVE  [Text!TextNext]_(Text!textVars)
<1>1. TextIn(ed') = TextIn(ed)'
  BY DEF TextIn
<1>2. CASE Typed(ed, ed')
  BY <1>1, <1>2 DEF Typed, Replaced, LineOf, Text!TextNext, Text!Type, Text!Line
<1>3. CASE Erased(ed, ed')
  <2>1. /\ ed.cursor_x > 0 /\ ed'.cursor_x = ed.cursor_x - 1 /\ ed'.cursor_y + 1 = ed.cursor_y + 1
        /\ TextIn(ed)' = [TextIn(ed) EXCEPT ![ed.cursor_y + 1] =
                            Text!RemoveAt(TextIn(ed)[ed.cursor_y + 1], ed.cursor_x)]
    BY <1>1, <1>3 DEF Erased, Replaced, LineOf
  <2>2. Text!Erase
    BY <2>1 DEF Text!Erase, Text!Line
  <2>3. QED
    BY <2>2 DEF Text!TextNext
<1>4. CASE WentUp(ed, ed')
  <2>1. /\ ed.cursor_x = 0 /\ ed.cursor_y + 1 > 1 /\ ed'.cursor_y + 1 = ed.cursor_y + 1 - 1
        /\ ed'.cursor_x = Len(TextIn(ed)[ed.cursor_y + 1 - 1]) /\ TextIn(ed)' = TextIn(ed)
    BY <1>1, <1>4 DEF WentUp
  <2>2. Text!Erase
    BY <2>1, CursorPlace DEF Text!Erase
  <2>3. QED
    BY <2>2 DEF Text!TextNext
<1>5. CASE WentOn(ed, ed')
  BY <1>1, <1>5 DEF WentOn, Text!TextNext, Text!NewLine
<1>6. CASE MovedInLine(ed, ed')
  BY <1>1, <1>6 DEF MovedInLine, LineOf, Text!TextNext, Text!Move, Text!Line
<1>7. CASE MovedToLine(ed, ed')
  <2>1. /\ TextIn(ed)' = TextIn(ed)
        /\ ed'.cursor_y + 1 \in {ed.cursor_y + 1 - 1, ed.cursor_y + 1 + 1} \cap 1 .. Len(TextIn(ed))
        /\ ed'.cursor_x = IF ed.cursor_x <= Len(TextIn(ed)[ed'.cursor_y + 1]) THEN ed.cursor_x
                          ELSE Len(TextIn(ed)[ed'.cursor_y + 1])
    BY <1>1, <1>7 DEF MovedToLine
  <2>2. Text!Move
    BY <2>1, CursorPlace DEF Text!Move
  <2>3. QED
    BY <2>2 DEF Text!TextNext
<1>8. CASE Stayed(ed, ed')
  BY <1>1, <1>8 DEF Stayed, Text!textVars
<1>9. QED
  BY <1>2, <1>3, <1>4, <1>5, <1>6, <1>7, <1>8 DEF TextStep

(* Whatever the sizes of the array and of the screen, the array of lines   *)
(* and the shifting in it do what an editor of text does: the editor       *)
(* implements TextBuffer.                                                  *)
THEOREM EditorEditsText == EditorSpec => EditsText
<1>1. ASSUME EditorInit PROVE Text!TextInit
  <2>1. PICK f \in Files : ed = Load(f)
    BY <1>1 DEF EditorInit
  <2>2. ed.cursor_x = 0 /\ ed.cursor_y + 1 = 1
    BY <2>1 DEF Load
  <2>3. TextIn(ed) \in {TextIn(Load(g)) : g \in Files}
    BY <2>1
  <2>4. QED
    BY <2>2, <2>3 DEF Text!TextInit
<1>2. EditorInv /\ [EditorNext]_edVars => [Text!TextNext]_(Text!textVars)
  BY EditorNextSteps, TextStepNext DEF EditorInv
<1>3. QED
  BY <1>1, <1>2, EditorInvHolds, PTL DEF EditorSpec, EditsText, Text!TextSpec
=============================================================================
