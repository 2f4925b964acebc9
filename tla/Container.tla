----------------------------- MODULE Container -----------------------------
(***************************************************************************)
(* What the code generation of internal/codegen uses and does not define:  *)
(* an image mounted by ocifs, a temporary directory, and a process of the  *)
(* container runtime with its three pipes.  Data is counted in units; a    *)
(* pipe holds PipeCap of them and blocks the writer when it is full.       *)
(***************************************************************************)
EXTENDS Integers

CONSTANTS
    PipeCap,        \* units a pipe holds
    InputSize,      \* units of the plugin's input
    MaxOutput       \* units a plugin writes at most, to each of its outputs

ASSUME ContainerAssumption == {PipeCap, InputSize} \subseteq Nat \ {0} /\ MaxOutput \in Nat

VARIABLES
    mount,      \* the mount point: none, mounted, or left as a directory
    temp,       \* does the temporary root exist?
    snagged,    \* clean-up calls that returned an error (history)
    proc,       \* the process: none, running, exited (a zombie), reaped
    failed,     \* did it exit with an error?
    manners,    \* how the plugin treats its pipes
    runtime,    \* what the runtime offers to end a process, if anything
    told,       \* what reached the process: nothing, a request to end, SIGKILL
    shut,       \* the ends of its pipes that the process has closed
    stdin, stdout, stderr,  \* units in the pipes
    stdinOpen,  \* is the writing end of stdin open?
    wrote, complained       \* units written to stdout and to stderr

pipeVars == <<stdin, stdout, stderr, stdinOpen, wrote, complained>>
holdings == <<mount, temp, snagged>>
processVars == <<proc, failed, manners, runtime, told, shut, pipeVars>>
containerVars == <<holdings, processVars>>

Ends == {"in", "out", "err"}
Cleaning == {"stdin", "stop", "unmount", "point", "root"}

ContainerTypeOK ==
    /\ mount \in {"none", "mounted", "left"}
    /\ snagged \subseteq Cleaning
    /\ proc \in {"none", "running", "exited", "reaped"}
    /\ manners \in {"orderly", "any"}
    /\ runtime \in {"kill", "signal", "stop", "none"}
    /\ told \in {"no", "asked", "killed"}
    /\ shut \subseteq Ends
    /\ {temp, failed, stdinOpen} \subseteq BOOLEAN
    /\ {stdin, stdout, stderr} \subseteq 0 .. PipeCap
    /\ {wrote, complained} \subseteq 0 .. MaxOutput

ContainerInit ==
    /\ mount = "none" /\ temp = FALSE /\ snagged = {}
    /\ proc = "none" /\ failed = FALSE
    /\ manners \in {"orderly", "any"}
    /\ runtime \in {"kill", "signal", "stop", "none"}
    /\ told = "no" /\ shut = {}
    /\ stdin = 0 /\ stdout = 0 /\ stderr = 0
    /\ stdinOpen = FALSE
    /\ wrote = 0 /\ complained = 0

-----------------------------------------------------------------------------
(***************************************************************************)
(* The process.                                                            *)
(***************************************************************************)

Running == proc = "running"

\* An orderly plugin reads its input to the end before it writes, and does not
\* complain more than its pipe holds.  Others write, close their ends and exit
\* when they like.
InputRead == stdin = 0 /\ ~stdinOpen
MayWrite == manners = "any" \/ InputRead

ReadInput ==
    /\ Running /\ stdin > 0 /\ "in" \notin shut
    /\ stdin' = stdin - 1
    /\ UNCHANGED <<holdings, proc, failed, manners, runtime, told, shut, stdout,
                   stderr, stdinOpen, wrote, complained>>

WriteOutput ==
    /\ Running /\ MayWrite /\ "out" \notin shut
    /\ stdout < PipeCap /\ wrote < MaxOutput
    /\ stdout' = stdout + 1 /\ wrote' = wrote + 1
    /\ UNCHANGED <<holdings, proc, failed, manners, runtime, told, shut, stdin,
                   stderr, stdinOpen, complained>>

Complain ==
    /\ Running /\ MayWrite /\ "err" \notin shut
    /\ stderr < PipeCap /\ complained < MaxOutput
    /\ manners = "orderly" => complained < PipeCap
    /\ stderr' = stderr + 1 /\ complained' = complained + 1
    /\ UNCHANGED <<holdings, proc, failed, manners, runtime, told, shut, stdin,
                   stdout, stdinOpen, wrote>>

ShutEnd ==
    /\ Running /\ manners = "any"
    /\ \E end \in Ends \ shut : shut' = shut \cup {end}
    /\ UNCHANGED <<holdings, proc, failed, manners, runtime, told, pipeVars>>

\* A process that was told to end may do so at any point; one that was only
\* asked need not.
Exit ==
    /\ Running /\ (MayWrite \/ told # "no")
    /\ proc' = "exited"
    /\ failed' \in BOOLEAN
    /\ shut' = Ends
    /\ UNCHANGED <<holdings, manners, runtime, told, pipeVars>>

ProcessStep == ReadInput \/ WriteOutput \/ Complain \/ ShutEnd \/ Exit

\* A reader gets what is left in a pipe whose writing end is closed.
AtEnd(pipe, end) == pipe = 0 /\ end \in shut

-----------------------------------------------------------------------------
(***************************************************************************)
(* Cleaning up: each call can fail, and then changes nothing.              *)
(***************************************************************************)

Snag(call) == snagged' = snagged \cup {call} /\ UNCHANGED <<mount, temp>>

\* ocifs may remove the mount point itself.
Unmount ==
    \/ /\ mount' \in IF mount = "mounted" THEN {"left", "none"} ELSE {mount}
       /\ UNCHANGED <<temp, snagged>>
    \/ Snag("unmount")

\* A directory that something is mounted on cannot be removed.
RemovePoint ==
    \/ mount # "mounted" /\ mount' = "none" /\ UNCHANGED <<temp, snagged>>
    \/ mount # "none" /\ Snag("point")

RemoveRoot ==
    \/ temp' = FALSE /\ UNCHANGED <<mount, snagged>>
    \/ temp /\ Snag("root")

\* What is left of a mount or of a temporary root is what a call failed to
\* remove.
LeftBySnags ==
    /\ mount = "mounted" => "unmount" \in snagged
    /\ temp => "root" \in snagged
=============================================================================
