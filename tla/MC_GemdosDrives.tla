-------------------------- MODULE MC_GemdosDrives --------------------------
EXTENDS GemdosDrives, TLC

CONSTANTS root, sub, bad

MC_Dirs == {root, sub}
\* C: (2) starts with its root only, D: (3, read-only) with a subdirectory
MC_InitDirs == (2 :> {root}) @@ (3 :> {root, sub})
====
