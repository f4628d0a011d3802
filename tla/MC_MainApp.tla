----------------------------- MODULE MC_MainApp -----------------------------
EXTENDS MainApp

CONSTANTS p1, p2, mount, periodic

MC_Procs == {p1, p2}
\* one worker stopped by its flag, one by pthread_kill
MC_ThreadOrder == <<mount, periodic>>
\* the normal app, a reset, the ce_conf terminal and the hwinfo tool
MC_CmdLines == {<<>>, <<"reset">>, <<"ce_conf">>, <<"hwinfo">>, <<"help">>, <<"display", "msg">>}
\* a default file with an unknown word and the newline fgets keeps
MC_DefaultArgs == <<"x", " ", "x", " ">>
\* every line of up to four chunks of a tag, an unknown word and a space
MC_Lines == UNION {[1..n -> {" ", "reset", "x"}] : n \in 0..4}
====
