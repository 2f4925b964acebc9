------------------------------- MODULE Plugin -------------------------------
(***************************************************************************)
(* Plugin.CodeGen (codegen/plugin.go), called by GenerateCode: it mounts   *)
(* the plugin's image, runs it, writes the whole input, reads the whole    *)
(* output, then the errors, and waits.  Deferred calls clean up on every   *)
(* return, last registered first, and their errors are dropped.  A step is *)
(* one call to ocifs, the runtime or a pipe.                               *)
(***************************************************************************)
EXTENDS Container, Sequences

VARIABLES
    host,       \* the call that CodeGen makes next
    result,     \* what it returns: none yet, ok, or error
    defers,     \* the deferred calls, the one to run first at the head
    written,    \* units of input written
    read,       \* units of output read
    errRead     \* units of the errors read

counted == <<written, read, errRead>>
pluginVars == <<host, result, defers, counted>>

Preparing == {"mount", "entrypoint", "temp", "create", "run", "pipes", "marshal"}
Over == {"ok", "error"}
PluginStages ==
    Preparing \cup {"write", "stdout", "stderr", "wait", "decode", "return"} \cup Over

OfMount == <<"point", "unmount">>
OfRoot == <<"root", "point", "unmount">>

PluginTypeOK ==
    /\ host \in PluginStages
    /\ result \in {"none"} \cup Over
    /\ defers \in Seq({"unmount", "point", "root"})
    /\ written \in 0 .. InputSize
    /\ {read, errRead} \subseteq 0 .. MaxOutput

PluginInit ==
    /\ host = "mount" /\ result = "none" /\ defers = <<>>
    /\ written = 0 /\ read = 0 /\ errRead = 0

-----------------------------------------------------------------------------

Proceeds(stage) == host' = stage /\ UNCHANGED <<result, defers, counted>>
Returns(value) ==
    /\ host' = "return" /\ result' = value
    /\ UNCHANGED <<defers, counted, holdings>>

\* The next deferred call.  The mount point is removed before it is unmounted,
\* which fails, so a directory stays unless ocifs removes it.
Unwind ==
    /\ host = "return"
    /\ IF defers = <<>>
       THEN host' = result /\ UNCHANGED <<defers, holdings>>
       ELSE /\ CASE Head(defers) = "root"    -> RemoveRoot
                 [] Head(defers) = "point"   -> RemovePoint
                 [] Head(defers) = "unmount" -> Unmount
            /\ defers' = Tail(defers) /\ UNCHANGED host
    /\ UNCHANGED <<result, counted, processVars>>

MountImage ==
    /\ host = "mount"
    /\ \/ /\ mount' = "mounted" /\ defers' = OfMount
          /\ host' = "entrypoint" /\ UNCHANGED <<result, counted, temp, snagged>>
       \/ Returns("error")
    /\ UNCHANGED processVars

\* An image without an entrypoint, a temporary root or a container that cannot
\* be made, pipes that are not there, input that cannot be encoded.
PrepareFails ==
    /\ host \in Preparing \ {"mount"}
    /\ Returns("error")
    /\ UNCHANGED processVars

AfterPreparing(stage) ==
    CASE stage = "entrypoint" -> "temp" [] stage = "temp" -> "create"
      [] stage = "create" -> "run"      [] stage = "run" -> "pipes"
      [] stage = "pipes" -> "marshal"   [] stage = "marshal" -> "write"

\* Slip: the removal of the temporary root is deferred when its container is
\* there.
PrepareDefersLate ==
    /\ host \in Preparing \ {"mount"}
    /\ host' = AfterPreparing(host)
    /\ temp' = (temp \/ host = "temp")
    /\ defers' = IF host = "create" THEN OfRoot ELSE defers
    /\ proc' = IF host = "run" THEN "running" ELSE proc
    /\ stdinOpen' = (stdinOpen \/ host = "run")
    /\ UNCHANGED <<result, counted, mount, snagged, failed, manners, runtime, told,
                   shut, stdin, stdout, stderr, wrote, complained>>

Prepare ==
    /\ host \in Preparing \ {"mount"}
    /\ host' = AfterPreparing(host)
    /\ temp' = (temp \/ host = "temp")
    /\ defers' = IF host = "temp" THEN OfRoot ELSE defers
    /\ proc' = IF host = "run" THEN "running" ELSE proc
    /\ stdinOpen' = (stdinOpen \/ host = "run")
    /\ UNCHANGED <<result, counted, mount, snagged, failed, manners, runtime, told,
                   shut, stdin, stdout, stderr, wrote, complained>>

\* Slip: stdin stays open until the call returns.
WriteInputOpen ==
    /\ host = "write" /\ "in" \notin shut /\ stdin < PipeCap
    /\ stdin' = stdin + 1
    /\ written' = written + 1
    /\ host' = IF written + 1 = InputSize THEN "stdout" ELSE "write"
    /\ UNCHANGED <<result, defers, read, errRead>>
    /\ UNCHANGED <<holdings, proc, failed, manners, runtime, told, shut, stdout,
                   stderr, stdinOpen, wrote, complained>>

\* Blocks while the pipe is full; stdin is closed after the last unit.
WriteInput ==
    /\ host = "write" /\ "in" \notin shut /\ stdin < PipeCap
    /\ stdin' = stdin + 1
    /\ written' = written + 1
    /\ host' = IF written + 1 = InputSize THEN "stdout" ELSE "write"
    /\ stdinOpen' = (written + 1 < InputSize)
    /\ UNCHANGED <<result, defers, read, errRead>>
    /\ UNCHANGED <<holdings, proc, failed, manners, runtime, told, shut, stdout,
                   stderr, wrote, complained>>

\* The plugin exited, or closed its end, without reading it all.
WriteBreaks ==
    /\ host = "write" /\ "in" \in shut
    /\ Returns("error")
    /\ UNCHANGED processVars

\* Slip: what one read returns is taken for all.
ReadOutputOnce ==
    /\ host = "stdout"
    /\ \/ /\ stdout > 0
          /\ stdout' = stdout - 1 /\ read' = read + 1
          /\ host' = "stderr" /\ UNCHANGED <<result, defers, written, errRead>>
       \/ AtEnd(stdout, "out") /\ Proceeds("stderr") /\ UNCHANGED stdout
    /\ UNCHANGED <<holdings, proc, failed, manners, runtime, told, shut, stdin,
                   stderr, stdinOpen, wrote, complained>>

ReadOutput ==
    /\ host = "stdout"
    /\ \/ /\ stdout > 0
          /\ stdout' = stdout - 1 /\ read' = read + 1
          /\ UNCHANGED <<host, result, defers, written, errRead>>
       \/ AtEnd(stdout, "out") /\ Proceeds("stderr") /\ UNCHANGED stdout
    /\ UNCHANGED <<holdings, proc, failed, manners, runtime, told, shut, stdin,
                   stderr, stdinOpen, wrote, complained>>

ReadErrors ==
    /\ host = "stderr" /\ stderr > 0
    /\ stderr' = stderr - 1 /\ errRead' = errRead + 1
    /\ UNCHANGED <<host, result, defers, written, read>>
    /\ UNCHANGED <<holdings, proc, failed, manners, runtime, told, shut, stdin,
                   stdout, stdinOpen, wrote, complained>>

\* Either of the two io.ReadAll returns an error.
ReadFails ==
    /\ host \in {"stdout", "stderr"}
    /\ Returns("error")
    /\ UNCHANGED processVars

\* A complaint is an error, and then nobody waits for the process.
ErrorsRead ==
    /\ host = "stderr" /\ AtEnd(stderr, "err")
    /\ IF errRead > 0 THEN Returns("error")
       ELSE Proceeds("wait") /\ UNCHANGED holdings
    /\ UNCHANGED processVars

WaitForExit ==
    /\ host = "wait" /\ proc = "exited"
    /\ proc' = "reaped"
    /\ IF failed THEN Returns("error")
       ELSE Proceeds("decode") /\ UNCHANGED holdings
    /\ UNCHANGED <<failed, manners, runtime, told, shut, pipeVars>>

\* No output is an error, and so is output that is no response.
Decode ==
    /\ host = "decode"
    /\ \/ Returns("error")
       \/ read > 0 /\ Returns("ok")
    /\ UNCHANGED processVars

\* What goes on unless something fails that need not.
PluginWork ==
    \/ MountImage \/ Prepare \/ WriteInput \/ WriteBreaks \/ ReadOutput
    \/ ReadErrors \/ ErrorsRead \/ WaitForExit \/ Decode \/ Unwind

PluginStep == PluginWork \/ PrepareFails \/ ReadFails

-----------------------------------------------------------------------------

\* A code generation that succeeds has read all that the plugin wrote, the
\* plugin did not complain, exited without an error and was waited for, also
\* if it closed its pipes before - and all this before anything is cleaned up.
SuccessIsWhole ==
    result = "ok" =>
        /\ read = wrote /\ complained = 0
        /\ proc = "reaped" /\ ~failed

\* At whichever of its seventeen returns the call ends, the calls deferred so far
\* cover what it holds: a mount or a temporary root that is left is one that
\* Unmount or RemoveAll failed to remove.
FailureReleases == host \in Over => LeftBySnags
=============================================================================
