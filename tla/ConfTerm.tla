------------------------------ MODULE ConfTerm ------------------------------
(***************************************************************************)
(* The ce_conf terminal (src/cosmosex/ce_conf_on_rpi.cpp): an instance of *)
(* the executable started with 'ce_conf' talks to the running app over    *)
(* two FIFOs.  It writes a 3-byte command to FIFO 1 (set resolution, key  *)
(* down, refresh), sleeps 50 ms, reads whatever the app has written to    *)
(* FIFO 2 by then, converts the VT52 screen codes to VT100 in place and   *)
(* prints the buffer.  Its main loop forwards keys, refreshes once a      *)
(* second, and ends on F10 or when sendCmd reports the app gone.          *)
(*                                                                         *)
(* The app side (ce_conf_createFifos, and the app's config stream that    *)
(* answers each command with a screen) is the environment: it may be     *)
(* late, crash, or never have created the FIFOs.  Bytes are naturals;     *)
(* inBfr and tmpBfr are byte sequences that read as 0 past their length: *)
(* new BYTE[] of the first allocations of the process come from fresh,    *)
(* zeroed heap pages.  The sleep in sendCmd is where the app runs, so     *)
(* sendCmd is two steps: the write, and the read 50 ms later.             *)
(***************************************************************************)
EXTENDS Integers, Sequences, FiniteSets, SequencesExt

CONSTANTS
    Screens,        \* VT52 screens the app may answer a command with
    Keys,           \* keys getKey may return; 0 is an unrecognised sequence
    KEY_F10,
    INBFR_SIZE,     \* the size of inBfr and tmpBfr
    MaxKeys,        \* bound: keys the user types in a behaviour
    MaxReplies      \* bound: screens the app writes in a behaviour

ASSUME KEY_F10 \in Keys /\ 0 \in Keys

VARIABLES
    pc,         \* where ce_conf_mainLoop is; "write"/"read": inside sendCmd
    caller,     \* the sendCmd call in progress: "resolution", "key", "refresh"
    fifos,      \* the app has created both FIFOs (ce_conf_createFifos)
    appUp,      \* the app reads commands and answers them
    pending,    \* commands in FIFO 1 the app has not read
    fromApp,    \* bytes in FIFO 2 ce_conf has not read
    replies,    \* screens the app has written (bounded by MaxReplies)
    reads,      \* the byte runs the reads took from FIFO 2, in order
    noReplies,  \* sendCmd's static count of reads that found nothing
    elapsed,    \* a second has passed since lastUpdate
    keysLeft,   \* keys the user may still type
    tty         \* stdin settings: "cooked", or "raw" (no ICANON, no ECHO)

vars == <<pc, caller, fifos, appUp, pending, fromApp, replies, reads,
          noReplies, elapsed, keysLeft, tty>>

-----------------------------------------------------------------------------
(* C strings in byte buffers *)

\* the byte at 1-based position i of a buffer; 0 past what was written
Byte(s, i) == IF i <= Len(s) THEN s[i] ELSE 0

\* the buffer with the bytes w written from position k on (memcpy)
PutSeq(s, k, w) ==
    [j \in 1..(IF Len(s) > k + Len(w) - 1 THEN Len(s) ELSE k + Len(w) - 1) |->
        IF k <= j /\ j < k + Len(w) THEN w[j - k + 1] ELSE Byte(s, j)]

\* strlen: the bytes before the first 0
StrLen(s) ==
    LET zeros == {j \in 1..Len(s) : s[j] = 0}
    IN  IF zeros = {} THEN Len(s) ELSE (CHOOSE j \in zeros : \A k \in zeros : j <= k) - 1

(* strcat(s, w): w and its terminating 0 go where s's string ends (a     *)
(* function, so that nested calls take their arguments as values)        *)
StrCat[s \in Seq(Int), w \in Seq(Int)] == PutSeq(s, StrLen(s) + 1, w \o <<0>>)

\* the string printf("%s") prints from a buffer
CString(s) == SubSeq(s, 1, StrLen(s))

-----------------------------------------------------------------------------
(* VT52 to VT100 *)

ESC == 27
CSI == <<27, 91>>                                           \* "\033["
WhiteOnBlack == CSI \o <<51, 55, 109>> \o CSI \o <<52, 48, 109>>   \* [37m [40m
BlackOnWhite == CSI \o <<51, 48, 109>> \o CSI \o <<52, 55, 109>>   \* [30m [47m
ClearAll == CSI \o <<50, 74>>                                \* "\033[2J"
Home == CSI \o <<72>>                                        \* "\033[H"
CursorOn == CSI \o <<63, 50, 53, 104>>                       \* "\033[?25h"
CursorOff == CSI \o <<63, 50, 53, 108>>                      \* "\033[?25l"

\* sprintf "%d" of a small integer: its decimal digits, '-' first if negative
RECURSIVE Decimal(_)
Decimal(n) ==
    IF n < 0 THEN <<45>> \o Decimal(-n)
    ELSE IF n < 10 THEN <<48 + n>> ELSE Decimal(n \div 10) \o <<48 + (n % 10)>>

\* sprintf(tmp, "%c[%d;%df", 27, y, x)
GotoYX(y, x) == CSI \o Decimal(y) \o <<59>> \o Decimal(x) \o <<102>>

(* translateVT52toVT100(bfr, cnt) with tmpBfr = tmp.  conv[i, t, out] is *)
(* the loop from the 1-based input index i with t bytes counted and       *)
(* tmpBfr = out: escape codes are strcat'ed to tmpBfr and counted into t *)
(* by hand, other bytes go to tmpBfr[t++]; then memcpy(bfr, tmpBfr, t).  *)
Translate(bfr, cnt, tmp) ==
    LET conv[i \in Nat, t \in Nat, out \in Seq(Int)] ==
          IF i > cnt THEN <<t, out>>
          ELSE IF Byte(bfr, i) # ESC
          THEN conv[i + 1, t + 1, PutSeq(out, t + 1, <<Byte(bfr, i)>>)]
          ELSE LET c == Byte(bfr, i + 1)
                   y == Byte(bfr, i + 2) - 32
                   x == Byte(bfr, i + 3) - 32
               IN CASE c = 69  -> conv[i + 2, t + 5 + 5 + 4,     \* 'E'
                                       StrCat[StrCat[StrCat[StrCat[out,
                                         SubSeq(WhiteOnBlack, 1, 5)],
                                         SubSeq(WhiteOnBlack, 6, 10)],
                                         ClearAll], Home]]
                    [] c = 89  -> conv[i + 4, t + Len(GotoYX(y, x)),   \* 'Y'
                                       StrCat[out, GotoYX(y, x)]]
                    [] c = 112 -> conv[i + 2, t + 10, StrCat[out, BlackOnWhite]]  \* 'p'
                    [] c = 113 -> conv[i + 2, t + 10, StrCat[out, WhiteOnBlack]]  \* 'q'
                    [] c = 101 -> conv[i + 2, t + 6, StrCat[out, CursorOn]]       \* 'e'
                    [] c = 102 -> conv[i + 2, t + 6, StrCat[out, CursorOff]]      \* 'f'
                    [] OTHER   -> conv[i + 2, t, out]
        r == conv[1, 0, tmp]
    IN  [bfr |-> PutSeq(bfr, 1, [j \in 1..r[1] |-> Byte(r[2], j)]), tmp |-> r[2]]

\* the VT100 text a VT52 screen stands for, code by code (the reference)
RECURSIVE Vt100(_)
Vt100(s) ==
    IF s = <<>> THEN <<>>
    ELSE IF Head(s) # ESC \/ Len(s) = 1 THEN <<Head(s)>> \o Vt100(Tail(s))
    ELSE LET c == s[2] IN
         IF c = 89 /\ Len(s) >= 4
         THEN GotoYX(s[3] - 32, s[4] - 32) \o Vt100(SubSeq(s, 5, Len(s)))
         ELSE (CASE c = 69  -> WhiteOnBlack \o ClearAll \o Home
                 [] c = 112 -> BlackOnWhite
                 [] c = 113 -> WhiteOnBlack
                 [] c = 101 -> CursorOn
                 [] c = 102 -> CursorOff
                 [] OTHER   -> <<>>) \o Vt100(SubSeq(s, 3, Len(s)))

(* inBfr and tmpBfr after the reads rs: only the reads of sendCmd write  *)
(* them, each one reading into inBfr and translating it in place.  They  *)
(* are kept as functions of the reads, so that deciding whether a read   *)
(* can happen does not translate.                                         *)
RECURSIVE Buffers(_)
Buffers(rs) ==
    IF rs = <<>> THEN [bfr |-> <<>>, tmp |-> <<>>]
    ELSE LET b == Buffers(Front(rs)) IN
         Translate(PutSeq(b.bfr, 1, Last(rs)), Len(Last(rs)), b.tmp)

\* the bytes the last read took from FIFO 2
got == IF reads = <<>> THEN <<>> ELSE Last(reads)

\* what the last printf("%s\n", inBfr) showed
shown == CString(Buffers(reads).bfr)

-----------------------------------------------------------------------------
AppStates == {"unstarted", "serving", "gone"}

TypeOK ==
    /\ pc \in {"start", "read", "loop", "done", "failed"}
    /\ caller \in {"none", "resolution", "key", "refresh"}
    /\ fifos \in BOOLEAN /\ appUp \in AppStates
    /\ pending \in 0..MaxReplies /\ fromApp \in Seq(Nat) /\ replies \in 0..MaxReplies
    /\ reads \in Seq(Seq(Nat))
    /\ noReplies \in 0..(MaxKeys + 6) /\ elapsed \in BOOLEAN
    /\ keysLeft \in 0..MaxKeys /\ tty \in {"cooked", "raw"}

(* The FIFOs may be left in /tmp by an earlier run of the app.            *)
Init ==
    /\ pc = "start" /\ caller = "none"
    /\ fifos \in BOOLEAN /\ appUp = "unstarted"
    /\ pending = 0 /\ fromApp = <<>> /\ replies = 0
    /\ reads = <<>>
    /\ noReplies = 0 /\ elapsed = FALSE /\ keysLeft = MaxKeys /\ tty = "cooked"

(* ce_conf_createFifos, run by the app: mkfifo of each FIFO (EEXIST is    *)
(* fine), open both O_RDWR and make them non-blocking.  A failing mkfifo *)
(* leaves the FIFOs missing; a failing open or fcntl leaves an app that  *)
(* cannot answer.  Every failure only logs and returns.                   *)
CreateFifos ==
    /\ appUp = "unstarted"
    /\ \E made \in BOOLEAN, opened \in BOOLEAN :
        /\ fifos' = (fifos \/ made)
        /\ appUp' = IF fifos' /\ opened THEN "serving" ELSE "gone"
    /\ UNCHANGED <<pc, caller, pending, fromApp, replies, reads, noReplies,
                   elapsed, keysLeft, tty>>

(* sendCmd, first half: write() the 3-byte command to FIFO 1.  The app   *)
(* answers at most MaxReplies commands in a behaviour, so the count of    *)
(* unread commands is kept up to that number.                             *)
Send(c) ==
    /\ pending' = IF pending < MaxReplies THEN pending + 1 ELSE pending
    /\ caller' = c
    /\ pc' = "read"

(* ce_conf_mainLoop up to the first sendCmd: open() of a missing FIFO     *)
(* fails (there is no O_CREAT) and the function returns; otherwise it     *)
(* sends SET_RESOLUTION.                                                   *)
ConfStart ==
    /\ pc = "start"
    /\ IF fifos THEN Send("resolution")
                 ELSE pc' = "failed" /\ UNCHANGED <<caller, pending>>
    /\ UNCHANGED <<fifos, appUp, fromApp, replies, reads,
                   noReplies, elapsed, keysLeft, tty>>

ReadReplyIgnoresRefreshResult ==
    /\ pc = "read"
    /\ LET n    == IF Len(fromApp) < INBFR_SIZE THEN Len(fromApp) ELSE INBFR_SIZE
           data == SubSeq(fromApp, 1, n)
           ok   == n > 0 \/ noReplies + 1 < 5
       IN /\ IF n > 0
             THEN /\ fromApp' = SubSeq(fromApp, n + 1, Len(fromApp))
                  /\ reads' = Append(reads, data)
                  /\ UNCHANGED noReplies
             ELSE /\ noReplies' = noReplies + 1
                  /\ UNCHANGED <<fromApp, reads>>
          /\ elapsed' = FALSE
          /\ IF FALSE
             THEN pc' = "done" /\ tty' = "cooked"
             ELSE pc' = "loop" /\ tty' = "raw"
    /\ caller' = "none"
    /\ UNCHANGED <<fifos, appUp, pending, replies, keysLeft>>

(* sendCmd, second half, 50 ms after the write, and the caller's use of   *)
(* its result: FIONREAD on FIFO 2; when bytes are there, read up to       *)
(* INBFR_SIZE of them, translate them in place and print inBfr; else      *)
(* count one more unanswered command and fail from the fifth one on.      *)
(* After SET_RESOLUTION the terminal goes raw and lastUpdate is set;     *)
(* after a key or a refresh lastUpdate is set; a failed refresh leaves   *)
(* the loop and restores the terminal.                                    *)
ReadReply ==
    /\ pc = "read"
    /\ LET n    == IF Len(fromApp) < INBFR_SIZE THEN Len(fromApp) ELSE INBFR_SIZE
           data == SubSeq(fromApp, 1, n)
           ok   == n > 0 \/ noReplies + 1 < 5
       IN /\ IF n > 0
             THEN /\ fromApp' = SubSeq(fromApp, n + 1, Len(fromApp))
                  /\ reads' = Append(reads, data)
                  /\ UNCHANGED noReplies
             ELSE /\ noReplies' = noReplies + 1
                  /\ UNCHANGED <<fromApp, reads>>
          /\ elapsed' = FALSE
          /\ IF caller = "refresh" /\ ~ok
             THEN pc' = "done" /\ tty' = "cooked"
             ELSE pc' = "loop" /\ tty' = "raw"
    /\ caller' = "none"
    /\ UNCHANGED <<fifos, appUp, pending, replies, keysLeft>>

(* A loop pass with a key in stdin: getKey; F10 leaves the loop and       *)
(* restores the terminal, a known key is sent as KEYDOWN, an unknown      *)
(* sequence (0) falls through to the refresh check.                       *)
KeyPress ==
    /\ pc = "loop" /\ keysLeft > 0
    /\ keysLeft' = keysLeft - 1
    /\ \E key \in Keys :
        CASE key = KEY_F10 -> /\ pc' = "done" /\ tty' = "cooked"
                              /\ UNCHANGED <<caller, pending>>
          [] key # 0       -> Send("key") /\ UNCHANGED tty
          [] elapsed       -> Send("refresh") /\ UNCHANGED tty
          [] OTHER         -> UNCHANGED <<pc, caller, pending, tty>>
    /\ UNCHANGED <<fifos, appUp, fromApp, replies, reads,
                   noReplies, elapsed>>

\* a loop pass without a key, a second or more after lastUpdate: REFRESH
Refresh ==
    /\ pc = "loop" /\ elapsed
    /\ Send("refresh")
    /\ UNCHANGED <<fifos, appUp, fromApp, replies, reads,
                   noReplies, elapsed, keysLeft, tty>>

\* a second passes (Utils::getCurrentMs)
Tick ==
    /\ ~elapsed /\ elapsed' = TRUE
    /\ UNCHANGED <<pc, caller, fifos, appUp, pending, fromApp, replies, reads,
                   noReplies, keysLeft, tty>>

(* The app's config stream reads one command and writes a screen to FIFO  *)
(* 2, whenever it gets to it: before or after ce_conf's read.            *)
AppServe ==
    /\ appUp = "serving" /\ pending > 0 /\ replies < MaxReplies
    /\ \E s \in Screens : fromApp' = fromApp \o s
    /\ pending' = pending - 1 /\ replies' = replies + 1
    /\ UNCHANGED <<pc, caller, fifos, appUp, reads,
                   noReplies, elapsed, keysLeft, tty>>

\* the app stops (crash or exit); the FIFOs stay
AppCrash ==
    /\ appUp = "serving" /\ appUp' = "gone"
    /\ UNCHANGED <<pc, caller, fifos, pending, fromApp, replies, reads,
                   noReplies, elapsed, keysLeft, tty>>

Next == \/ ConfStart \/ ReadReply \/ Refresh \/ KeyPress \/ Tick
        \/ CreateFifos \/ AppServe \/ AppCrash

(* The terminal process and the clock are fair; the user (keys) and the  *)
(* app are not.                                                            *)
Fairness == /\ WF_vars(ConfStart) /\ WF_vars(ReadReply)
            /\ WF_vars(Refresh) /\ WF_vars(Tick)

Spec == Init /\ [][Next]_vars /\ Fairness

-----------------------------------------------------------------------------
\* the app will answer no more commands
AppGone == appUp = "gone" \/ replies = MaxReplies

ScreenIsTranslation == got # <<>> => shown = Vt100(got)

====
