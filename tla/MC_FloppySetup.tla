--------------------------- MODULE MC_FloppySetup ---------------------------
(* Model-checking instance of FloppySetup: two images the ST may upload, *)
(* the first four names getNewImageName tries (three slots can hold at    *)
(* most three of them), slot indexes 0 and 2 and the out-of-range 3.       *)
EXTENDS FloppySetup, TLC

CONSTANTS n1, n2, new0, new1, new2, new3

MC_Names == {n1, n2}
MC_NewImgNames == <<new0, new1, new2, new3>>
MC_Symmetry == Permutations(MC_Names)
=============================================================================
