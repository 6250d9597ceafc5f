------------------------------ MODULE MCEditor ------------------------------
(***************************************************************************)
(* Texts and keys for TLC.                                                 *)
(***************************************************************************)
EXTENDS Editor

(* No file, and one whose first line is longer than the editor's.          *)
MCFiles == {<<<<>>>>, <<<<104, 109, 104, 104>>, <<109>>>>}

(* With shift: its release, the letters h, p, k and m and the comma, which *)
(* move the cursor and open the help menu.  Without: shift, the letters h  *)
(* and m, Enter, Backspace, and the prefix that makes an arrow of 0x48.    *)
MCScancodes == [shift \in BOOLEAN |-> IF shift THEN {170, 35, 25, 37, 50, 51}
                                      ELSE {42, 35, 50, 28, 14, 224, 72}]

(* Ctrl pressed and released, and Q.                                       *)
QuitScancodes == [shift \in BOOLEAN |-> {29, 157, 16}]
=============================================================================
