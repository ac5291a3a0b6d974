----------------------------- MODULE FifoBuild -----------------------------
(***************************************************************************)
(* Builds triggered from Vim: src/doc/notes.txt proposes, outside of Vim,  *)
(*                                                                         *)
(*   while fifowait; do echo "Building"; ./buildall; done                  *)
(*                                                                         *)
(* and <F12> in Vim saves all buffers and runs fifosignal with the current *)
(* file's directory.  Both scripts are translated step by step, since each *)
(* of their commands is a system call other processes may run between.     *)
(*                                                                         *)
(* Directory 1 is the innermost, directory Depth is the root.  The loop in *)
(* directory d is the process d; a directory has at most one.              *)
(***************************************************************************)
EXTENDS NamedPipe

CONSTANTS
    Depth,    \* the number of directories from the file's up to the root
    MaxStops  \* bound: how often a user or a crash ends a process

\* Readers are the directories with a loop, Writers the Vims: each of them runs
\* one fifosignal at a time.
ASSUME FifoAssumption ==
    /\ Depth \in Nat \ {0} /\ Dirs = 1 .. Depth
    /\ Readers \subseteq Dirs
    /\ MaxStops \in Nat

VARIABLES
    wpc,    \* loop -> where it is
    spc,    \* Vim -> where its fifosignal is
    dir,    \* Vim -> the directory its fifosignal looks at
    stops,  \* how many processes were ended, by CTRL-C or a crash
    \* History variables.
    cut,    \* loop -> did its last fifowait end before its trap had run?
    heard,  \* loop -> was a signal written there since fifowait started?
    built   \* Vim -> directories a build started in since the last save

vars == <<pipeVars, wpc, spc, dir, stops, cut, heard, built>>

WaitStep(d, from, to) == wpc[d] = from /\ wpc' = [wpc EXCEPT ![d] = to]
SignalStep(s, from, to) == spc[s] = from /\ spc' = [spc EXCEPT ![s] = to]

-----------------------------------------------------------------------------
(***************************************************************************)
(* fifowait, and the loop around it.                                       *)
(***************************************************************************)
\* trap 'rm "${FIFO}"' 0
StartWait(d) ==
    /\ WaitStep(d, "loop", "mkfifo")
    /\ heard' = [heard EXCEPT ![d] = FALSE]
    /\ UNCHANGED <<pipeVars, spc, dir, stops, cut, built>>

\* mkfifo "${FIFO}" || exit 1
\* Mutant: without "|| exit 1".
MakeFifoNoExit(d) ==
    /\ WaitStep(d, "mkfifo", "open")
    /\ Mkfifo(d) \/ (Exists(d) /\ UNCHANGED pipeVars)
    /\ UNCHANGED <<spc, dir, stops, cut, heard, built>>

\* Mutant: the trap is set after mkfifo.
MakeFifoThenTrap(d) ==
    /\ \/ WaitStep(d, "mkfifo", "open") /\ Mkfifo(d)
       \/ WaitStep(d, "mkfifo", "stopped") /\ Exists(d) /\ UNCHANGED pipeVars
    /\ UNCHANGED <<spc, dir, stops, cut, heard, built>>

MakeFifo(d) ==
    /\ \/ WaitStep(d, "mkfifo", "open") /\ Mkfifo(d)
       \/ WaitStep(d, "mkfifo", "failing") /\ Exists(d) /\ UNCHANGED pipeVars
    /\ UNCHANGED <<spc, dir, stops, cut, heard, built>>

\* read -r _junk < "${FIFO}": the pipe is still there, since with one loop in a
\* directory nobody else removes it (WaitingIsReachable).
OpenForRead(d) ==
    /\ WaitStep(d, "open", "read")
    /\ OpenRead(d, d)
    /\ UNCHANGED <<spc, dir, stops, cut, heard, built>>

ReadSignal(d) ==
    /\ \/ WaitStep(d, "read", "succeeded") /\ LineToRead(d)
       \/ WaitStep(d, "read", "failing") /\ EndOfFile(d)
    /\ Close(d)
    /\ UNCHANGED <<spc, dir, stops, cut, heard, built>>

\* The trap; then the loop builds, or ends because fifowait failed.
\* Mutant: no trap.
NoTrap(d) ==
    /\ \/ /\ WaitStep(d, "succeeded", "build")
          /\ built' = [s \in Writers |-> built[s] \cup {d}]
       \/ WaitStep(d, "failing", "stopped") /\ UNCHANGED built
    /\ cut' = [cut EXCEPT ![d] = FALSE]
    /\ UNCHANGED <<pipeVars, spc, dir, stops, heard>>

RunTrap(d) ==
    /\ \/ /\ WaitStep(d, "succeeded", "build")
          /\ built' = [s \in Writers |-> built[s] \cup {d}]
       \/ WaitStep(d, "failing", "stopped") /\ UNCHANGED built
    /\ Unlink(d)
    /\ cut' = [cut EXCEPT ![d] = FALSE]
    /\ UNCHANGED <<spc, dir, stops, heard>>

\* ./buildall; it may fail, the loop does not look.
FinishBuild(d) ==
    /\ WaitStep(d, "build", "loop")
    /\ UNCHANGED <<pipeVars, spc, dir, stops, cut, heard, built>>

\* The user starts the loop again.
Restart(d) ==
    /\ WaitStep(d, "stopped", "loop")
    /\ UNCHANGED <<pipeVars, spc, dir, stops, cut, heard, built>>

\* CTRL-C in the shell, which every process in the foreground gets: fifowait
\* runs its trap, the loop ends.  If the trap's rm is running, it ends, too,
\* before or after it removed the pipe.
InterruptTrap(d) ==
    /\ \E pc \in {"succeeded", "failing"} : WaitStep(d, pc, "stopped")
    /\ Unlink(d) \/ UNCHANGED pipeVars
    /\ cut' = [cut EXCEPT ![d] = TRUE]

Interrupt(d) ==
    /\ stops < MaxStops /\ stops' = stops + 1
    /\ \/ /\ \E pc \in {"mkfifo", "open", "read"} : WaitStep(d, pc, "failing")
          /\ Close(d) /\ UNCHANGED cut
       \/ InterruptTrap(d)
       \/ /\ \E pc \in {"loop", "build"} : WaitStep(d, pc, "stopped")
          /\ UNCHANGED <<pipeVars, cut>>
    /\ UNCHANGED <<spc, dir, heard, built>>

\* A crash, or SIGKILL: no trap is run.
Kill(d) ==
    /\ stops < MaxStops /\ stops' = stops + 1
    /\ wpc[d] # "stopped" /\ wpc' = [wpc EXCEPT ![d] = "stopped"]
    /\ cut' = [cut EXCEPT ![d] = @ \/ wpc[d] \notin {"loop", "build"}]
    /\ Close(d)
    /\ UNCHANGED <<spc, dir, heard, built>>

-----------------------------------------------------------------------------
(***************************************************************************)
(* fifosignal.                                                             *)
(***************************************************************************)
\* :wall, then fifosignal for directory d; with -n it does not scan upward.
Press(s, d, scanUpward) ==
    /\ \E pc \in {"idle", "sent", "failed"} :
        SignalStep(s, pc, IF scanUpward THEN "scan" ELSE "test")
    /\ dir' = [dir EXCEPT ![s] = d]
    /\ built' = [built EXCEPT ![s] = {}]
    /\ UNCHANGED <<pipeVars, wpc, stops, cut, heard>>

\* while [ ! -e "$fifoName" ], up to the root.
\* Mutant: it does not stop there.
ScanPastRoot(s) ==
    /\ \/ SignalStep(s, "scan", "test") /\ Exists(dir[s]) /\ UNCHANGED dir
       \/ /\ SignalStep(s, "scan", "scan") /\ ~Exists(dir[s])
          /\ dir' = [dir EXCEPT ![s] = @ + 1]
    /\ UNCHANGED <<pipeVars, wpc, stops, cut, heard, built>>

Scan(s) ==
    /\ \/ SignalStep(s, "scan", "test") /\ Exists(dir[s]) /\ UNCHANGED dir
       \/ SignalStep(s, "scan", "test") /\ dir[s] = Depth /\ UNCHANGED dir
       \/ /\ SignalStep(s, "scan", "scan")
          /\ ~Exists(dir[s]) /\ dir[s] # Depth
          /\ dir' = [dir EXCEPT ![s] = @ + 1]
    /\ UNCHANGED <<pipeVars, wpc, stops, cut, heard, built>>

\* if [ -p "$fifo" ]
\* Mutant: -e.
TestExists(s) ==
    /\ SignalStep(s, "test", IF Exists(dir[s]) THEN "open" ELSE "failed")
    /\ UNCHANGED <<pipeVars, wpc, dir, stops, cut, heard, built>>

TestFifo(s) ==
    /\ SignalStep(s, "test", IF IsFifo(dir[s]) THEN "open" ELSE "failed")
    /\ UNCHANGED <<pipeVars, wpc, dir, stops, cut, heard, built>>

\* echo "signal" > "$fifo": open, write and close.
OpenForWrite(s) ==
    /\ SignalStep(s, "open", "write")
    /\ OpenWrite(s, dir[s])
    /\ UNCHANGED <<wpc, dir, stops, cut, heard, built>>

WriteSignal(s) ==
    /\ \/ /\ SignalStep(s, "write", "close") /\ Write(s)
          /\ heard' = [d \in Readers |-> heard[d] \/ d = dir[s]]
       \/ /\ SignalStep(s, "write", "failed") /\ s \notin blocked /\ Broken(s)
          /\ Close(s) /\ UNCHANGED heard
    /\ UNCHANGED <<wpc, dir, stops, cut, built>>

CloseSignal(s) ==
    /\ SignalStep(s, "close", "sent")
    /\ Close(s)
    /\ UNCHANGED <<wpc, dir, stops, cut, heard, built>>

\* CTRL-C in Vim while system() waits for fifosignal.
GiveUp(s) ==
    /\ stops < MaxStops /\ stops' = stops + 1
    /\ \E pc \in {"scan", "test", "open", "write", "close"} :
        SignalStep(s, pc, "failed")
    /\ Close(s)
    /\ UNCHANGED <<wpc, dir, cut, heard, built>>

-----------------------------------------------------------------------------
Init ==
    /\ PipeInit
    /\ wpc = [d \in Readers |-> "loop"]
    /\ spc = [s \in Writers |-> "idle"]
    /\ dir = [s \in Writers |-> 1]
    /\ stops = 0
    /\ cut = [d \in Readers |-> FALSE]
    /\ heard = [d \in Readers |-> FALSE]
    /\ built = [s \in Writers |-> {}]

Wait(d) ==
    \/ StartWait(d) \/ MakeFifo(d) \/ OpenForRead(d) \/ ReadSignal(d)
    \/ RunTrap(d) \/ FinishBuild(d)

Signal(s) ==
    \/ Scan(s) \/ TestFifo(s) \/ OpenForWrite(s) \/ WriteSignal(s)
    \/ CloseSignal(s)

Next ==
    \/ \E d \in Readers : Wait(d) \/ Restart(d) \/ Interrupt(d) \/ Kill(d)
    \/ \E s \in Writers :
        \/ Signal(s) \/ GiveUp(s)
        \/ \E d \in Dirs, scanUpward \in BOOLEAN : Press(s, d, scanUpward)

Spec == Init /\ [][Next]_vars

\* Processes run, builds end, and the user starts an ended loop again; nobody
\* need press a key, interrupt or crash anything.
Fairness ==
    /\ \A d \in Readers : WF_vars(Wait(d)) /\ WF_vars(Restart(d))
    /\ \A s \in Writers : WF_vars(Signal(s))

FairSpec == Spec /\ Fairness

-----------------------------------------------------------------------------
(***************************************************************************)
(* Properties.                                                             *)
(***************************************************************************)
\* Every variable has its type.
TypeOK ==
    /\ PipeTypeOK
    /\ wpc \in [Readers -> {"loop", "mkfifo", "open", "read", "succeeded",
                          "failing", "build", "stopped"}]
    /\ spc \in [Writers -> {"idle", "scan", "test", "open", "write", "close",
                              "sent", "failed"}]
    /\ dir \in [Writers -> Dirs]
    /\ stops \in 0 .. MaxStops
    /\ cut \in [Readers -> BOOLEAN]
    /\ heard \in [Readers -> BOOLEAN]
    /\ built \in [Writers -> SUBSET Dirs]

\* fifowait waits on the pipe that fifosignal finds by name, whatever earlier
\* runs, crashes and late signals left in the directory.
WaitingIsReachable ==
    \A d \in Readers :
        /\ wpc[d] \in {"open", "read", "succeeded"} => IsFifo(d)
        /\ wpc[d] = "read" => fd[d] = name[d]

\* A pipe in a directory means that a fifowait is there, unless the last one
\* there was ended before its trap had run: fifosignal, which looks for a pipe,
\* finds no other abandoned one, and one that was left is gone as soon as a
\* later fifowait has run its trap, whatever ended that one.
FifoMeansWaiting ==
    \A d \in Dirs : IsFifo(d) =>
        /\ d \in Readers
        /\ cut[d] \/ wpc[d] \in {"open", "read", "succeeded", "failing"}

\* A build is only started by a signal sent since that fifowait was started,
\* never by a line left over from an earlier one.
OnlyFreshSignals ==
    \A d \in Readers : wpc[d] = "succeeded" => heard[d]

\* When fifosignal exits with 0, a build that starts after the save follows,
\* or has followed, in the directory it signalled, if nothing is interrupted.
SentIsBuilt ==
    \A s \in Writers :
        spc[s] = "sent" ~> (spc[s] # "sent" \/ dir[s] \in built[s])

\* Whatever a crash left behind, the loop waits again once it is restarted: a
\* failing fifowait removes the obstacle it failed on.
SelfHeals ==
    \A d \in Readers : wpc[d] = "stopped" ~> wpc[d] = "read"

\* The loop of src/doc/notes.txt builds for as long as nobody ends it: fifowait
\* never fails by itself.
LoopGoesOn ==
    stops = 0 => \A d \in Readers : wpc[d] # "stopped"

\* src/doc/notes.txt: each key causes a signal.  A fifosignal that has found
\* the pipe sends its signal or reports that it did not.
KeyCausesSignal ==
    \A s \in Writers : spc[s] = "open" ~> spc[s] \in {"sent", "failed"}
=============================================================================
