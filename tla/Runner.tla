------------------------------- MODULE Runner -------------------------------
(***************************************************************************)
(* OCIFSRunner (codegen/ocifsrunner.go): Start mounts an image and runs a  *)
(* process; the handle it returns has Wait and Close, which several        *)
(* goroutines may call, and a goroutine that watches for the end of the    *)
(* context.  No part of the program calls the runner yet; its callers here *)
(* may do what its interface allows.                                       *)
(***************************************************************************)
EXTENDS Container, Sequences

CONSTANT Callers    \* goroutines that use the handle

VARIABLES
    start,      \* the call that Start makes next
    todo,       \* the calls with which Start or Close has still to clean up
    waiting,    \* Wait of each caller: not called, called, or its exit code
    waitOnce,   \* sync.Once: free, busy, or done
    waitCode,   \* the exit code kept by Wait
    closing,    \* Close of each caller: not called, called, working, nil or error
    closeOnce,
    cancelled,  \* did the context end?
    watcher,    \* the goroutine that watches it: none, waits, gone
    cancelOnce

waitVars == <<waiting, waitOnce, waitCode>>
closeVars == <<todo, closing, closeOnce>>
cancelVars == <<cancelled, watcher, cancelOnce>>
runnerVars == <<start, waitVars, closeVars, cancelVars>>

Starting == {"image", "resolve", "root", "new", "exec", "inPipe", "outPipe", "errPipe"}
Once == {"free", "busy", "done"}
Closed == {"nil", "error"}

CleanupLocal == <<"unmount", "point", "root">>
StopCalls == <<"stop", "unmount", "point", "root">>
CloseCalls == <<"stdin", "stop", "unmount", "point", "root">>

\* What Start undoes when it fails at a stage.
Undoing(stage) ==
    CASE stage = "image" -> <<>>
      [] stage \in {"resolve", "root"} -> <<"unmount", "point">>
      [] stage \in {"new", "exec"} -> CleanupLocal
      [] stage = "inPipe" -> StopCalls
      [] stage \in {"outPipe", "errPipe"} -> CloseCalls

RunnerTypeOK ==
    /\ start \in Starting \cup {"undo", "up", "failed"}
    /\ todo \in Seq(Cleaning)
    /\ waiting \in [Callers -> {"no", "called", "zero", "one"}]
    /\ waitCode \in {"no", "zero", "one"}
    /\ closing \in [Callers -> {"no", "called", "working"} \cup Closed]
    /\ {waitOnce, closeOnce, cancelOnce} \subseteq Once
    /\ cancelled \in BOOLEAN
    /\ watcher \in {"none", "waits", "gone"}

RunnerInit ==
    /\ start = "image" /\ todo = <<>>
    /\ waiting = [c \in Callers |-> "no"]
    /\ waitOnce = "free" /\ waitCode = "no"
    /\ closing = [c \in Callers |-> "no"]
    /\ closeOnce = "free" /\ cancelOnce = "free"
    /\ cancelled = FALSE /\ watcher = "none"

-----------------------------------------------------------------------------

\* bestEffortStop: Kill if the runtime has it; or SIGTERM, which counts as done
\* when it is delivered, and SIGKILL only if it is not; or Stop.  Nobody waits
\* for the process, and all callers drop the error.
Stop ==
    /\ \/ /\ told' \in CASE runtime = "kill"   -> {"killed"}
                        [] runtime = "signal" -> {"asked", "killed"}
                        [] runtime = "stop"   -> {"asked"}
                        [] runtime = "none"   -> {told}
          /\ UNCHANGED holdings
       \/ runtime # "none" /\ Snag("stop") /\ UNCHANGED told
    /\ UNCHANGED <<proc, failed, manners, runtime, shut, pipeVars>>

CloseStdin ==
    /\ stdinOpen' = FALSE
    /\ UNCHANGED <<holdings, proc, failed, manners, runtime, told, shut, stdin,
                   stdout, stderr, wrote, complained>>

CleanUp(call) ==
    CASE call = "stdin"   -> CloseStdin
      [] call = "stop"    -> Stop
      [] call = "unmount" -> Unmount /\ UNCHANGED processVars
      [] call = "point"   -> RemovePoint /\ UNCHANGED processVars
      [] call = "root"    -> RemoveRoot /\ UNCHANGED processVars

-----------------------------------------------------------------------------

AfterStarting(stage) ==
    CASE stage = "image" -> "resolve" [] stage = "resolve" -> "root"
      [] stage = "root" -> "new"      [] stage = "new" -> "exec"
      [] stage = "exec" -> "inPipe"   [] stage = "inPipe" -> "outPipe"
      [] stage = "outPipe" -> "errPipe" [] stage = "errPipe" -> "up"

\* The handle is made and its watcher runs - after a first use of cancelOnce
\* that was to initialise it.
StartGoesOn ==
    /\ start \in Starting
    /\ start' = AfterStarting(start)
    /\ mount' = IF start = "image" THEN "mounted" ELSE mount
    /\ temp' = (temp \/ start = "root")
    /\ proc' = IF start = "exec" THEN "running" ELSE proc
    /\ stdinOpen' = (stdinOpen \/ start = "exec")
    /\ watcher' = IF start = "errPipe" THEN "waits" ELSE watcher
    /\ cancelOnce' = IF start = "errPipe" THEN "done" ELSE cancelOnce
    /\ UNCHANGED <<waitVars, closeVars, cancelled>>
    /\ UNCHANGED <<snagged, failed, manners, runtime, told, shut, stdin, stdout,
                   stderr, wrote, complained>>

\* Slip: the same clean-up for all failures, and so no stop.
StartFailsAlike ==
    /\ start \in Starting
    /\ start' = "undo"
    /\ todo' = IF start = "image" THEN <<>> ELSE CleanupLocal
    /\ UNCHANGED <<waitVars, closing, closeOnce, cancelVars, containerVars>>

StartFails ==
    /\ start \in Starting
    /\ start' = "undo"
    /\ todo' = Undoing(start)
    /\ UNCHANGED <<waitVars, closing, closeOnce, cancelVars, containerVars>>

StartUndoes ==
    /\ start = "undo"
    /\ IF todo = <<>>
       THEN start' = "failed" /\ UNCHANGED <<todo, containerVars>>
       ELSE CleanUp(Head(todo)) /\ todo' = Tail(todo) /\ UNCHANGED start
    /\ UNCHANGED <<waitVars, closing, closeOnce, cancelVars>>

-----------------------------------------------------------------------------
(***************************************************************************)
(* Wait and Close go through a sync.Once: the first caller does the work,  *)
(* and the others wait until he is done.                                   *)
(***************************************************************************)

CallWait(c) ==
    /\ start = "up" /\ waiting[c] = "no"
    /\ waiting' = [waiting EXCEPT ![c] = "called"]
    /\ waitOnce' = IF waitOnce = "free" THEN "busy" ELSE waitOnce
    /\ UNCHANGED <<start, waitCode, closeVars, cancelVars, containerVars>>

\* The container's Wait returns when the process is over, and reaps it.
ProcessWaited ==
    /\ waitOnce = "busy" /\ proc = "exited"
    /\ proc' = "reaped"
    /\ waitCode' = IF failed THEN "one" ELSE "zero"
    /\ waitOnce' = "done"
    /\ UNCHANGED <<start, waiting, closeVars, cancelVars>>
    /\ UNCHANGED <<holdings, failed, manners, runtime, told, shut, pipeVars>>

\* Slip: a caller that finds another one waiting does not wait for him.
WaitReturnsEarly(c) ==
    /\ waiting[c] = "called" /\ \E d \in Callers \ {c} : waiting[d] # "no"
    /\ waiting' = [waiting EXCEPT ![c] = IF waitCode = "no" THEN "zero" ELSE waitCode]
    /\ UNCHANGED <<start, waitOnce, waitCode, closeVars, cancelVars, containerVars>>

WaitReturns(c) ==
    /\ waiting[c] = "called" /\ waitOnce = "done"
    /\ waiting' = [waiting EXCEPT ![c] = waitCode]
    /\ UNCHANGED <<start, waitOnce, waitCode, closeVars, cancelVars, containerVars>>

\* Slip: closing stdin is thought to be enough.
CallCloseGently(c) ==
    /\ start = "up" /\ closing[c] = "no"
    /\ IF closeOnce = "free"
       THEN /\ closing' = [closing EXCEPT ![c] = "working"]
            /\ closeOnce' = "busy" /\ todo' = <<"stdin">> \o CleanupLocal
       ELSE /\ closing' = [closing EXCEPT ![c] = "called"]
            /\ UNCHANGED <<closeOnce, todo>>
    /\ UNCHANGED <<start, waitVars, cancelVars, containerVars>>

CallClose(c) ==
    /\ start = "up" /\ closing[c] = "no"
    /\ IF closeOnce = "free"
       THEN /\ closing' = [closing EXCEPT ![c] = "working"]
            /\ closeOnce' = "busy" /\ todo' = CloseCalls
       ELSE /\ closing' = [closing EXCEPT ![c] = "called"]
            /\ UNCHANGED <<closeOnce, todo>>
    /\ UNCHANGED <<start, waitVars, cancelVars, containerVars>>

\* The errors of cleanupLocal go to the caller that did the work.
CloseWorks(c) ==
    /\ closing[c] = "working"
    /\ IF todo = <<>>
       THEN /\ closing' = [closing EXCEPT
                    ![c] = IF snagged \subseteq {"stop"} THEN "nil" ELSE "error"]
            /\ closeOnce' = "done"
            /\ UNCHANGED <<todo, containerVars>>
       ELSE /\ CleanUp(Head(todo)) /\ todo' = Tail(todo)
            /\ UNCHANGED <<closing, closeOnce>>
    /\ UNCHANGED <<start, waitVars, cancelVars>>

\* Slip: the others return at once, as after a flag that says "closed".
CloseReturnsEarly(c) ==
    /\ closing[c] = "called"
    /\ closing' = [closing EXCEPT ![c] = "nil"]
    /\ UNCHANGED <<start, todo, closeOnce, waitVars, cancelVars, containerVars>>

CloseReturns(c) ==
    /\ closing[c] = "called" /\ closeOnce = "done"
    /\ closing' = [closing EXCEPT ![c] = "nil"]
    /\ UNCHANGED <<start, todo, closeOnce, waitVars, cancelVars, containerVars>>

ContextEnds ==
    /\ ~cancelled
    /\ cancelled' = TRUE
    /\ UNCHANGED <<start, waitVars, closeVars, watcher, cancelOnce, containerVars>>

\* watchCancel wakes up and goes through cancelOnce, which Start used up: stdin
\* is not closed and no stop is scheduled, although a comment of Start says
\* "best-effort stop + close stdin to unblock" (ocifsrunner.go:164).
WatchCancel ==
    /\ watcher = "waits" /\ cancelled
    /\ watcher' = "gone"
    /\ stdinOpen' = (stdinOpen /\ cancelOnce # "free")
    /\ UNCHANGED <<start, waitVars, closeVars, cancelled, cancelOnce>>
    /\ UNCHANGED <<holdings, proc, failed, manners, runtime, told, shut, stdin,
                   stdout, stderr, wrote, complained>>

\* What goes on without a caller deciding it.
RunnerWork ==
    \/ StartGoesOn \/ StartFails \/ StartUndoes \/ ProcessWaited \/ WatchCancel
    \/ \E c \in Callers : WaitReturns(c) \/ CloseWorks(c) \/ CloseReturns(c)

RunnerStep ==
    \/ RunnerWork \/ ContextEnds
    \/ \E c \in Callers : CallWait(c) \/ CallClose(c)

-----------------------------------------------------------------------------

\* Cleaned up, as far as the calls that clean up did not fail: no directory
\* either, and no process that nobody tried to end.  (It may still run: nobody
\* waits for it, and SIGTERM can be ignored.)
CleanedUp ==
    /\ LeftBySnags
    /\ mount = "left" => "point" \in snagged
    /\ Running => told # "no" \/ runtime = "none" \/ "stop" \in snagged

\* A Start that fails, at any of its stages, has tried to undo all that the
\* stages before did.
StartAllOrNothing == start = "failed" => CleanedUp

\* Whoever calls Wait learns the same: the exit of the process, not before it.
WaitsAgree ==
    \A c \in Callers : waiting[c] \in {"zero", "one"} =>
        proc = "reaped" /\ (waiting[c] = "one" <=> failed)

\* When any Close returns the cleaning up is over, though one caller does it,
\* and of what is left one caller learns: whoever got nil need not be that one.
ClosedIsClean ==
    \A c \in Callers : closing[c] \in Closed =>
        /\ ~stdinOpen /\ CleanedUp
        /\ mount # "none" \/ temp => \E d \in Callers : closing[d] = "error"

\* Every Close returns, whatever fails and however the process behaves.  If the
\* process was sent SIGKILL for it, or the runtime could kill and did not fail,
\* it unblocks those who wait too.
CloseEnds ==
    \A c \in Callers :
        closing[c] # "no" ~>
            /\ closing[c] \in Closed
            /\ told = "killed" \/ (runtime = "kill" /\ "stop" \notin snagged) =>
                   \A d \in Callers : waiting[d] # "called"
=============================================================================
