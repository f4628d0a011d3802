------------------------------ MODULE MainApp ------------------------------
(***************************************************************************)
(* The CosmosEx main application (ce_main_app/main.cpp) as seen by the     *)
(* operating system: several instances of the same executable may be       *)
(* launched, each with its own command line and the shared default        *)
(* argument file.  An instance picks its mode from the parsed flags (help, *)
(* display, ce_conf, hwinfo, reset or the normal app), a normal instance   *)
(* checks and writes the pid file, opens the GPIO, starts its worker       *)
(* threads, runs the core loop until SIGINT and then stops and joins the  *)
(* threads one after the other and unlinks the pid file.  Any instance may *)
(* crash.                                                                   *)
(***************************************************************************)
EXTENDS Naturals, Sequences, FiniteSets, SequencesExt, TLC

CONSTANTS
    Procs,          \* instances of the executable (their pids)
    CmdLines,       \* command lines an instance may be launched with
    DefaultArgs,    \* the first line of /ce/default_args, or NoFile
    NoFile,
    SP,             \* a separator character of that line: ' ', '\r', '\n'
    ARGV_SIZE,      \* the length of argv[] in loadDefaultArgumentsFromFile
    ThreadOrder,    \* worker threads, in the order main() stops them
    NoPid,          \* the pid file does not exist
    Unreadable,     \* it exists and holds no pid (fscanf fails)
    Lines           \* default argument lines the parser is checked on

Threads == Range(ThreadOrder)

VARIABLES
    pc,         \* where each instance is in main()
    cmd,        \* its command line
    pidfile,    \* the pid stored in /var/run/cosmosex.pid
    sigint,     \* sigintReceived of each instance
    thr,        \* state of each instance's worker threads
    next,       \* index in ThreadOrder of the thread being stopped
    registered  \* ghost: the instance wrote its pid to the pid file

vars == <<pc, cmd, pidfile, sigint, thr, next, registered>>

-----------------------------------------------------------------------------
(* Argument parsing.  A line is a sequence of chunks: SP or a piece of a   *)
(* word; adjacent pieces belong to the same argument.                      *)

\* the separator-delimited fields of a line, empty ones included
RECURSIVE Fields(_)
Fields(line) ==
    IF line = <<>> THEN << <<>> >>
    ELSE LET rest == Fields(Tail(line)) IN
         IF Head(line) = SP THEN << <<>> >> \o rest
         ELSE <<<<Head(line)>> \o Head(rest)>> \o Tail(rest)

\* the split without the final argc++: the last argument is dropped
TokenizeNoLastArg(line) ==
    IF line = <<>> THEN <<>>
    ELSE LET f == Fields(line) IN
         IF Len(f) < ARGV_SIZE THEN SubSeq(f, 1, Len(f) - 1)
         ELSE SubSeq(f, 1, ARGV_SIZE - 1)

(* loadDefaultArgumentsFromFile: argv[1..argc-1] after the split loop and  *)
(* the final argc++; past ARGV_SIZE fields the loop breaks at argc = 64    *)
(* and the ++ makes parseCmdLineArguments read argv[64], one past the      *)
(* array, which the model shows as the argument <<ARGV_SIZE>>              *)
Tokenize(line) ==
    IF line = <<>> THEN <<>>
    ELSE LET f == Fields(line) IN
         IF Len(f) < ARGV_SIZE THEN f
         ELSE SubSeq(f, 1, ARGV_SIZE - 1) \o << <<ARGV_SIZE>> >>

\* the tags of parseCmdLineArguments and the flag each one sets
TagFlag ==
    ("help" :> "justShowHelp") @@ ("--help" :> "justShowHelp") @@
    ("/?" :> "justShowHelp") @@ ("?" :> "justShowHelp") @@
    ("reset" :> "justDoReset") @@ ("noreset" :> "noReset") @@
    ("test" :> "test") @@ ("ce_conf" :> "actAsCeConf") @@
    ("hwinfo" :> "getHwInfo") @@ ("nofranz" :> "noFranz") @@
    ("ikbdlogs" :> "ikbdLogs") @@ ("fakeold" :> "fakeOldApp") @@
    ("display" :> "display")

\* the flags one argument sets; empty and unknown arguments set none
TagFlags(arg) ==
    IF Len(arg) = 1 /\ arg[1] \in DOMAIN TagFlag THEN {TagFlag[arg[1]]} ELSE {}

\* parseCmdLineArguments over argv[1..argc-1]; initializeFlags clears all
ParseArgs(args) == UNION {TagFlags(args[i]) : i \in DOMAIN args}

\* the flags after the default argument file and then the command line
Flags(c) ==
    (IF DefaultArgs = NoFile THEN {} ELSE ParseArgs(Tokenize(DefaultArgs)))
    \cup ParseArgs([i \in DOMAIN c |-> <<c[i]>>])

-----------------------------------------------------------------------------
\* a process of this executable exists (/proc/<pid>/exe resolves)
Alive(q) == pc[q] \notin {"idle", "exited", "crashed"}

\* the signal handlers are registered by every mode except ce_conf
Handled(p) == "actAsCeConf" \notin Flags(cmd[p])

Init ==
    /\ pc = [p \in Procs |-> "idle"]
    /\ cmd \in [Procs -> CmdLines]
    /\ pidfile = NoPid
    /\ sigint = [p \in Procs |-> FALSE]
    /\ thr = [p \in Procs |-> [t \in Threads |-> "none"]]
    /\ next = [p \in Procs |-> 1]
    /\ registered = [p \in Procs |-> FALSE]

(* main() up to the mode switch: 'display <text>' is shown and returns,    *)
(* help and display flags return, ce_conf and hwinfo take their own path  *)
Start(p) ==
    LET f == Flags(cmd[p]) IN
    /\ pc[p] = "idle"
    /\ pc' = [pc EXCEPT ![p] =
            CASE Len(cmd[p]) = 2 /\ cmd[p][1] = "display"       -> "exited"
              [] "justShowHelp" \in f \/ "display" \in f        -> "exited"
              [] "actAsCeConf" \in f                            -> "ceconf"
              [] "getHwInfo" \in f                              -> "hwgpio"
              [] OTHER                                          -> "check"]
    /\ UNCHANGED <<cmd, pidfile, sigint, thr, next, registered>>

(* the ce_conf terminal runs until a signal; without a handler SIGINT ends *)
(* the process                                                             *)

\* hwinfo: gpio_open fails and returns, or the core runs until SIGINT
HwInfoGpio(p) ==
    /\ pc[p] = "hwgpio"
    /\ \E ok \in BOOLEAN : pc' = [pc EXCEPT ![p] = IF ok THEN "hwrun" ELSE "exited"]
    /\ UNCHANGED <<cmd, pidfile, sigint, thr, next, registered>>

HwInfoRun(p) ==
    /\ pc[p] = "hwrun" /\ sigint[p]
    /\ pc' = [pc EXCEPT ![p] = "exited"]
    /\ UNCHANGED <<cmd, pidfile, sigint, thr, next, registered>>

(* otherInstanceIsRunning, first half.  A missing or unreadable pid file *)
(* falls through to the write, as does a failing readlink of             *)
(* /proc/self/exe or of /proc/<pid>/exe (the pid is dead).  Otherwise     *)
(* strcmp compares other_exe and self_exe: readlink fills them without a  *)
(* terminating NUL and both arrays are uninitialised, so after the equal  *)
(* path bytes the comparison reads stack garbage and may find the names   *)
(* equal or not.  main() returns when another instance is found.          *)
CheckRead(p) ==
    /\ pc[p] = "check"
    /\ \E selfOk, sameTail \in BOOLEAN :
        LET found == pidfile \in Procs /\ selfOk /\ Alive(pidfile) /\ sameTail
        IN pc' = [pc EXCEPT ![p] = IF found THEN "exited" ELSE "pidwrite"]
    /\ UNCHANGED <<cmd, pidfile, sigint, thr, next, registered>>

(* otherInstanceIsRunning, second half: fopen(PIDFILE, "w"), fprintf and *)
(* fclose; when the file cannot be opened, or fclose fails and the pid is  *)
(* lost from the truncated file, it returns false all the same             *)
PidWrite(p) ==
    /\ pc[p] = "pidwrite"
    /\ \E written \in {pidfile, Unreadable, p} :
        /\ pidfile' = written
        /\ registered' = [registered EXCEPT ![p] = (written = p)]
    /\ pc' = [pc EXCEPT ![p] = "gpio"]
    /\ UNCHANGED <<cmd, sigint, thr, next>>

(* gpio_open fails and main() returns; a reset command resets the chips   *)
(* and returns; neither unlinks the pid file                               *)
GpioOpen(p) ==
    /\ pc[p] = "gpio"
    /\ \E ok \in BOOLEAN :
        pc' = [pc EXCEPT ![p] =
                IF ok /\ "justDoReset" \notin Flags(cmd[p]) THEN "threads" ELSE "exited"]
    /\ UNCHANGED <<cmd, pidfile, sigint, thr, next, registered>>

(* pthread_create of every worker; handlePthreadCreate only logs a failure *)
(* and main() goes on to core->run()                                       *)
CreateThreads(p) ==
    /\ pc[p] = "threads"
    /\ \E failed \in SUBSET Threads :
        thr' = [thr EXCEPT ![p] = [t \in Threads |-> IF t \in failed THEN "failed" ELSE "running"]]
    /\ pc' = [pc EXCEPT ![p] = "running"]
    /\ UNCHANGED <<cmd, pidfile, sigint, next, registered>>

(* core->run() returns once sigintReceived is set; the services are        *)
(* stopped and the GPIO closed                                            *)
RunExit(p) ==
    /\ pc[p] = "running" /\ sigint[p]
    /\ pc' = [pc EXCEPT ![p] = "stopping"]
    /\ UNCHANGED <<cmd, pidfile, sigint, thr, next, registered>>

\* the end of a join: the next thread, or after the last one the cleanup
JoinDone(p) ==
    IF next[p] = Len(ThreadOrder)
    THEN pc' = [pc EXCEPT ![p] = "cleanup"] /\ UNCHANGED next
    ELSE /\ next' = [next EXCEPT ![p] = @ + 1]
         /\ pc' = [pc EXCEPT ![p] = "stopping"]

\* the first thread in the order is joined without being told to stop
StopNextSkipsFirst(p) ==
    LET t == ThreadOrder[next[p]] IN
    /\ pc[p] = "stopping"
    /\ thr' = [thr EXCEPT ![p][t] = IF @ = "running" /\ next[p] > 1 THEN "stopping" ELSE @]
    /\ pc' = [pc EXCEPT ![p] = "joining"]
    /\ UNCHANGED <<cmd, pidfile, sigint, next, registered>>

(* Mounter::stop(), Downloader::stop(), ImageSilo::stop() or pthread_kill  *)
(* of the next thread in the order; a thread whose creation failed is not  *)
(* there to be told                                                        *)
StopNext(p) ==
    LET t == ThreadOrder[next[p]] IN
    /\ pc[p] = "stopping"
    /\ thr' = [thr EXCEPT ![p][t] = IF @ = "running" THEN "stopping" ELSE @]
    /\ pc' = [pc EXCEPT ![p] = "joining"]
    /\ UNCHANGED <<cmd, pidfile, sigint, next, registered>>

(* pthread_join waits for the thread to end; on the pthread_t of a failed  *)
(* pthread_create, never written, its result is undefined: it returns an   *)
(* error or the process dies                                               *)
Join(p) ==
    LET t == ThreadOrder[next[p]] IN
    /\ pc[p] = "joining"
    /\ \/ /\ thr[p][t] = "exited"
          /\ thr' = [thr EXCEPT ![p][t] = "joined"]
          /\ JoinDone(p)
       \/ /\ thr[p][t] = "failed"
          /\ \/ JoinDone(p)
             \/ pc' = [pc EXCEPT ![p] = "crashed"] /\ UNCHANGED next
          /\ UNCHANGED thr
    /\ UNCHANGED <<cmd, pidfile, sigint, registered>>

\* unlink(PIDFILE), whoever's pid it holds, and return from main()
Cleanup(p) ==
    /\ pc[p] = "cleanup"
    /\ pidfile' = NoPid
    /\ pc' = [pc EXCEPT ![p] = "exited"]
    /\ UNCHANGED <<cmd, sigint, thr, next, registered>>

\* a worker thread that was told to stop leaves its loop
ThreadExit(p, t) ==
    /\ Alive(p) /\ thr[p][t] = "stopping"
    /\ thr' = [thr EXCEPT ![p][t] = "exited"]
    /\ UNCHANGED <<pc, cmd, pidfile, sigint, next, registered>>

(* SIGINT or SIGHUP: sigint_handler sets sigintReceived; an instance with  *)
(* no handler (ce_conf) is ended by the signal                             *)
Signal(p) ==
    /\ Alive(p) /\ ~sigint[p]
    /\ IF Handled(p)
       THEN sigint' = [sigint EXCEPT ![p] = TRUE] /\ UNCHANGED pc
       ELSE pc' = [pc EXCEPT ![p] = "exited"] /\ UNCHANGED sigint
    /\ UNCHANGED <<cmd, pidfile, thr, next, registered>>

\* the process dies at any point (SIGKILL, a fault); the pid file stays
Crash(p) ==
    /\ Alive(p)
    /\ pc' = [pc EXCEPT ![p] = "crashed"]
    /\ UNCHANGED <<cmd, pidfile, sigint, thr, next, registered>>

(* Instances launched one at a time: a launch reads the pid file only when *)
(* no other instance is between reading and writing it.                    *)
SerialCheckRead(p) ==
    /\ \A q \in Procs \ {p} : pc[q] # "pidwrite"
    /\ CheckRead(p)

\* the steps main() takes by itself
Step(p) ==
    \/ Start(p) \/ HwInfoGpio(p) \/ HwInfoRun(p) \/ SerialCheckRead(p)
    \/ PidWrite(p) \/ GpioOpen(p) \/ CreateThreads(p) \/ RunExit(p)
    \/ StopNext(p) \/ Join(p) \/ Cleanup(p)

Next ==
    \E p \in Procs :
        \/ Step(p) \/ Signal(p) \/ Crash(p)
        \/ \E t \in Threads : ThreadExit(p, t)

(* The kernel runs every runnable thread: each instance's main() and each  *)
(* worker that was told to stop make progress.  Signals and crashes come   *)
(* from outside and are never forced.                                      *)
Fairness ==
    \A p \in Procs :
        /\ WF_vars(Step(p))
        /\ \A t \in Threads : WF_vars(ThreadExit(p, t))

Spec == Init /\ [][Next]_vars /\ Fairness

\* instances launched at the same time: both may read before either writes
RacyNext == \E p \in Procs : CheckRead(p)

RacySpec == Init /\ [][Next \/ RacyNext]_vars /\ Fairness

-----------------------------------------------------------------------------
TypeOK ==
    /\ pc \in [Procs -> {"idle", "ceconf", "hwgpio", "hwrun", "check", "pidwrite",
                          "gpio", "threads", "running", "stopping", "joining",
                          "cleanup", "exited", "crashed"}]
    /\ cmd \in [Procs -> CmdLines]
    /\ pidfile \in Procs \cup {NoPid, Unreadable}
    /\ sigint \in [Procs -> BOOLEAN]
    /\ thr \in [Procs -> [Threads -> {"none", "failed", "running", "stopping", "exited", "joined"}]]
    /\ next \in [Procs -> 1..Len(ThreadOrder)]
    /\ registered \in [Procs -> BOOLEAN]

\* the instance is past the single-instance check and owns the hardware
InMain(p) == pc[p] \in {"gpio", "threads", "running", "stopping", "joining", "cleanup"}

(* The pid file keeps a second copy of the app out (otherInstanceIsRunning)*)
(* : never do two instances that both wrote their pid run past the check   *)
(* at once, across crashes, stale pid files, reset, hwinfo and ce_conf     *)
(* launches and failed writes of the file.                                 *)
SingleInstance ==
    \A p, q \in Procs :
        InMain(p) /\ InMain(q) /\ registered[p] /\ registered[q] => p = q

(* SIGINT makes every instance end: core->run() returns, each worker is    *)
(* stopped before main() joins it, and no join waits forever.              *)
ShutdownCompletes == \A p \in Procs : sigint[p] ~> ~Alive(p)

\* the words of a line: maximal runs of chunks that are not separators
WordsOf(line) ==
    LET n == Len(line)
        IsWord(i, j) ==
            /\ \A k \in i..j : line[k] # SP
            /\ i = 1 \/ line[i - 1] = SP
            /\ j = n \/ line[j + 1] = SP
    IN {SubSeq(line, ij[1], ij[2]) :
            ij \in {ij \in (1..n) \X (1..n) : ij[1] <= ij[2] /\ IsWord(ij[1], ij[2])}}

(* The default argument file is read as its whitespace-separated words:    *)
(* for every instance that has started, whatever line of Lines the file   *)
(* held, the split loop of loadDefaultArgumentsFromFile, its trailing      *)
(* argc++ and the skip of empty arguments set exactly the flags that the  *)
(* words set, with leading, doubled and trailing separators.               *)
ParseMatchesWords ==
    \A p \in Procs : pc[p] # "idle" =>
        \A line \in Lines :
            ParseArgs(Tokenize(line)) = UNION {TagFlags(w) : w \in WordsOf(line)}
====
