---------------------------- MODULE MC_TimeSync ----------------------------
(* Model-checking instance of TimeSync: a 32-bit build, a process with   *)
(* four free descriptors, two answers a server may send (times in       *)
(* seconds, with the NTP era offset scaled down to 100).                 *)
EXTENDS TimeSync

MC_Answers == { [ref |-> 101, rx |-> 104, tx |-> 104],
                [ref |-> 102, rx |-> 107, tx |-> 108] }
====
