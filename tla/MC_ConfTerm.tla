---------------------------- MODULE MC_ConfTerm ----------------------------
(* Model-checking instance of ConfTerm: the app answers with one of two   *)
(* screens, a clear-screen with text and a text with a cursor position;  *)
(* the user types a known key, F10 or an unknown sequence.               *)
EXTENDS ConfTerm

MC_Screens == { <<27, 69, 65>>,              \* ESC E 'A'
                <<65, 27, 89, 33, 42>> }     \* 'A' ESC Y (row 1, column 10)
MC_KEY_F10 == 209
MC_Keys == {0, 65, MC_KEY_F10}
====
