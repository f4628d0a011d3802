---------------------------- MODULE MC_GemdosFiles ----------------------------
(* Two handle slots; on the read-write drive a name c1 with no file yet,  *)
(* on the read-only drive a two-byte file r1, and one path that is not    *)
(* ours.  Counts of one and two bytes (not multiples of 16, so Fread pads) *)
(* and one above the 254-sector limit; seeks back and past end of file.   *)
EXTENDS GemdosFiles, TLC

CONSTANTS c1, r1, x

MC_Paths == {c1, r1}
MC_InitLen == (c1 :> NONE) @@ (r1 :> 1)
\* a two-byte read-only file, for reads shorter than the file
MC_InitLenTwo == (c1 :> NONE) @@ (r1 :> 2)
MC_Counts == {1, 130049}
MC_ReadSeeks == {0, -1}
MC_SeekOffsets == {-1, 1}
====
