------------------------------- MODULE Editor -------------------------------
(***************************************************************************)
(* The text editor of src/commands/pia.c over the keyboard driver: the     *)
(* loop of cmd_pia polls the keyboard once, takes at most one key and      *)
(* handles it.  The text is an array of lines, each a string that ends at  *)
(* its first zero; characters are bytes.  Drawing is left out, but what    *)
(* decides which part of the text is drawn is kept.                        *)
(***************************************************************************)
EXTENDS Keyboard, FiniteSetsExt

CONSTANTS
  MaxLines,    \* EDITOR_MAX_LINES
  MaxCols,     \* EDITOR_MAX_COLS, the ending zero included
  ScreenCols,  \* VGA_WIDTH
  ScreenLines, \* VGA_HEIGHT - 2, the lines of text on the screen
  Files,       \* the files pia is started with, as sequences of lines
  Scancodes    \* what the keyboard sends, while shift counts as pressed or not

(* A file of MaxLines newlines or more would leave the editor with         *)
(* MaxLines + 1 lines, of which the last is not in the array.              *)
ASSUME EditorAssumption ==
  /\ MaxLines \in Nat \ {0} /\ MaxCols \in Nat /\ MaxCols >= 2
  /\ ScreenCols \in Nat \ {0} /\ ScreenLines \in Nat \ {0}
  /\ \A f \in Files : Len(f) \in 1 .. MaxLines /\ f \in Seq(Seq(Byte \ {0, 10}))
  /\ Scancodes \in [BOOLEAN -> SUBSET Byte]

VARIABLES
  mods,    \* the driver's modifier flags
  ring,    \* and its ring of keys
  ed,      \* editor_state
  at       \* what the loop does next: "poll", "get" or, at its end, "left"

edVars == <<mods, ring, ed, at>>

Rows == 0 .. MaxLines - 1
Cols == 0 .. MaxCols - 1
Row == [Cols -> Byte]

EditorState == [buffer : [Rows -> Row], cursor_x : Nat, cursor_y : Nat, scroll_x : Nat,
                scroll_y : Nat, lines : Nat, modified : BOOLEAN, help_menu_open : BOOLEAN]

(* strlen of a line; every line has its last character zero.               *)
StrLen(row) == Min({i \in Cols : row[i] = 0})
CursorRow(e) == e.buffer[e.cursor_y]

-----------------------------------------------------------------------------
(* editor_load_file: lines too long for the array lose what does not fit.  *)
Load(f) ==
  [buffer |-> [r \in Rows |-> [c \in Cols |->
                 IF r < Len(f) /\ c < MaxCols - 1 /\ c < Len(f[r + 1])
                 THEN f[r + 1][c + 1] ELSE 0]],
   cursor_x |-> 0, cursor_y |-> 0, scroll_x |-> 0, scroll_y |-> 0,
   lines |-> Len(f), modified |-> FALSE, help_menu_open |-> FALSE]

(* Mutant: shifting begins at the cursor, so one character is smeared out.  *)
InsertCharSmearing(e, key) ==
  LET x == e.cursor_x
      row == CursorRow(e)
  IN  IF x >= MaxCols - 1 THEN e
      ELSE [e EXCEPT
             !.buffer[e.cursor_y] =
               [i \in Cols |-> IF i = x THEN key
                               ELSE IF i > x /\ i < MaxCols - 1 THEN row[x] ELSE row[i]],
             !.cursor_x = x + 1, !.modified = TRUE]

(* editor_insert_char shifts what is behind the cursor to the right.       *)
InsertChar(e, key) ==
  LET x == e.cursor_x
      row == CursorRow(e)
  IN  IF x >= MaxCols - 1 THEN e
      ELSE [e EXCEPT
             !.buffer[e.cursor_y] =
               [i \in Cols |-> IF i = x THEN key
                               ELSE IF i > x /\ i < MaxCols - 1 THEN row[i - 1] ELSE row[i]],
             !.cursor_x = x + 1, !.modified = TRUE]

(* Mutant: what is behind the cursor goes without a mark.                   *)
DeleteCharUnmarked(e) ==
  LET x == e.cursor_x - 1
      row == CursorRow(e)
  IN  IF e.cursor_x > 0
      THEN [e EXCEPT
             !.buffer[e.cursor_y] =
               [i \in Cols |-> IF i < x THEN row[i]
                               ELSE IF i < MaxCols - 1 THEN row[i + 1] ELSE 0],
             !.cursor_x = x]
      ELSE e

(* editor_delete_char shifts it to the left; at the beginning of a line    *)
(* the cursor goes to the end of the line above, which stays apart.        *)
DeleteChar(e) ==
  LET x == e.cursor_x - 1
      row == CursorRow(e)
  IN  IF e.cursor_x > 0
      THEN [e EXCEPT
             !.buffer[e.cursor_y] =
               [i \in Cols |-> IF i < x THEN row[i]
                               ELSE IF i < MaxCols - 1 THEN row[i + 1] ELSE 0],
             !.cursor_x = x, !.modified = TRUE]
      ELSE IF e.cursor_y > 0
      THEN [e EXCEPT !.cursor_x = StrLen(e.buffer[e.cursor_y - 1]),
                     !.cursor_y = @ - 1, !.modified = TRUE]
      ELSE e

(* Enter goes on to the next line and splits none.                         *)
NewLine(e) ==
  IF e.cursor_y >= MaxLines - 1 THEN e
  ELSE [e EXCEPT !.cursor_y = @ + 1, !.cursor_x = 0, !.modified = TRUE,
                 !.lines = IF e.cursor_y + 1 >= @ THEN e.cursor_y + 2 ELSE @]

(* i in lo .. hi, or the end of it nearest to i.                           *)
Clamp(i, lo, hi) == IF i < lo THEN lo ELSE IF i > hi THEN hi ELSE i

(* Mutant: the column is fitted to the line the cursor comes from.         *)
MoveCursorStale(e, dx, dy) ==
  [e EXCEPT !.cursor_y = Clamp(e.cursor_y + dy, 0, e.lines - 1),
            !.cursor_x = Clamp(e.cursor_x + dx, 0, StrLen(CursorRow(e)))]

(* editor_move_cursor                                                      *)
MoveCursor(e, dx, dy) ==
  LET y == Clamp(e.cursor_y + dy, 0, e.lines - 1)
  IN  [e EXCEPT !.cursor_y = y, !.cursor_x = Clamp(e.cursor_x + dx, 0, StrLen(e.buffer[y]))]

(* Mutant: the last column and line are not counted.                       *)
FollowLate(cursor, scroll, size) ==
  IF cursor < scroll THEN cursor
  ELSE IF cursor > scroll + size THEN cursor - size + 1 ELSE scroll

(* editor_scroll_if_needed                                                 *)
Follow(cursor, scroll, size) ==
  IF cursor < scroll THEN cursor
  ELSE IF cursor >= scroll + size THEN cursor - size + 1 ELSE scroll

ScrollIfNeeded(e) ==
  [e EXCEPT !.scroll_x = Follow(e.cursor_x, @, ScreenCols),
            !.scroll_y = Follow(e.cursor_y, @, ScreenLines)]

-----------------------------------------------------------------------------
(* The codes of pia.c, which are not those of the driver: they are 'H',    *)
(* 'P', 'K', 'M' and ';'.                                                  *)
KEY_ARROW_UP == 72
KEY_ARROW_DOWN == 80
KEY_ARROW_LEFT == 75
KEY_ARROW_RIGHT == 77
KEY_F1 == 59
KEY_ESCAPE == 27
KEY_CTRL_S == 19
KEY_CTRL_O == 15
KEY_CTRL_Q == 17

Edited(e, key) ==
  CASE key = KEY_F1              -> [e EXCEPT !.help_menu_open = ~@]
    [] key = 10                  -> NewLine(e)
    [] key = 8                   -> DeleteChar(e)
    [] key = KEY_ARROW_UP        -> MoveCursor(e, 0, -1)
    [] key = KEY_ARROW_DOWN      -> MoveCursor(e, 0, 1)
    [] key = KEY_ARROW_LEFT      -> MoveCursor(e, -1, 0)
    [] key = KEY_ARROW_RIGHT     -> MoveCursor(e, 1, 0)
    [] key \in 32 .. 126 \ {KEY_F1, KEY_ARROW_UP, KEY_ARROW_DOWN, KEY_ARROW_LEFT,
                             KEY_ARROW_RIGHT} -> InsertChar(e, key)
    [] OTHER                     -> e

(* editor_handle_key; saving and opening only write messages.              *)
HandleKey(e, key) == ScrollIfNeeded(Edited(e, key))

(* What the loop does with a key, or without one: while the help menu is   *)
(* open only the keys that close it count.                                 *)
WithKey(e, key) ==
  IF e.help_menu_open THEN [e EXCEPT !.help_menu_open = key \notin {KEY_F1, KEY_ESCAPE}]
  ELSE IF key \in {NoKey, KEY_CTRL_Q} THEN e ELSE HandleKey(e, key)

-----------------------------------------------------------------------------
(* keyboard_poll, with a scancode waiting or without.                      *)
Poll ==
  /\ at = "poll" /\ at' = "get"
  /\ \/ UNCHANGED <<mods, ring>>
     \/ \E code \in Scancodes[mods.shift] : /\ mods' = ModifiersAfter(mods, code)
                                /\ ring' = AddKey(ring, KeyOf(mods, code))
  /\ UNCHANGED ed

(* Mutant: the help menu looks at the key without taking it.               *)
GetPeeking ==
  /\ at = "get"
  /\ ring' = IF ed.help_menu_open THEN ring ELSE AfterGetKey(ring)
  /\ ed' = WithKey(ed, GetKey(ring))
  /\ at' = "poll"
  /\ UNCHANGED mods

Get ==
  /\ at = "get"
  /\ ring' = AfterGetKey(ring)
  /\ ed' = WithKey(ed, GetKey(ring))
  /\ at' = IF GetKey(ring) = KEY_CTRL_Q /\ ~ed.help_menu_open THEN "left" ELSE "poll"
  /\ UNCHANGED mods

EditorInit ==
  /\ mods = NoModifiers /\ ring = EmptyRing /\ at = "poll"
  /\ \E f \in Files : ed = Load(f)

EditorNext == Poll \/ Get

EditorSpec == EditorInit /\ [][EditorNext]_edVars

-----------------------------------------------------------------------------
EditorTypeOK ==
  /\ mods \in Modifiers /\ ring \in Ring /\ ed \in EditorState
  /\ at \in {"poll", "get", "left"}

(* The cursor stays in the array, on a line of the text and not behind its *)
(* end, though lines change their lengths under it.                        *)
CursorInText ==
  /\ ed.lines \in 1 .. MaxLines /\ ed.cursor_y < ed.lines
  /\ ed.cursor_x <= StrLen(CursorRow(ed))

(* After every key the screen shows the part of the text the cursor is in. *)
CursorOnScreen ==
  /\ ed.cursor_x - ed.scroll_x \in 0 .. ScreenCols - 1
  /\ ed.cursor_y - ed.scroll_y \in 0 .. ScreenLines - 1

(* The loop takes a key after every scancode it polls, with the help menu  *)
(* open too: the ring never holds a second one, so it never forgets any.   *)
NoKeyForgotten == Waiting(ring) <= (IF at = "get" THEN 1 ELSE 0)

(* The lines of text the array stands for.                                  *)
TextOf(row) == [i \in 1 .. StrLen(row) |-> row[i - 1]]
TextIn(e) == [r \in 1 .. e.lines |-> TextOf(e.buffer[r - 1])]

(* A text that has been changed is marked as modified, and stays so.       *)
ChangesMarked == [][TextIn(ed)' # TextIn(ed) \/ ed.modified => ed'.modified]_edVars

(* The array is edited as a text is: no step changes another line than     *)
(* that of the cursor, no character is lost or doubled on the way, and     *)
(* nothing is left behind the end of a line that would come back later.    *)
Text == INSTANCE TextBuffer WITH
  Char <- 32 .. 126, Texts <- {TextIn(Load(f)) : f \in Files}, MaxLength <- MaxCols - 1,
  text <- TextIn(ed), row <- ed.cursor_y + 1, col <- ed.cursor_x

EditsText == Text!TextSpec

(* "Ctrl+Q: Quit" (the line at the bottom of the editor's screen).         *)
CtrlQQuits ==
  [][Get /\ mods.ctrl /\ GetKey(ring) \in {113, KEY_CTRL_Q} /\ ~ed.help_menu_open
       => at' = "left"]_edVars
=============================================================================
