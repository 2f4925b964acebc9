------------------------------ MODULE Codegen ------------------------------
(***************************************************************************)
(* The two ways in which a container is driven, each from its own start:   *)
(* by Plugin.CodeGen or by the runner.                                     *)
(***************************************************************************)
EXTENDS Plugin, Runner

VARIABLE driver     \* who runs the container

vars == <<containerVars, pluginVars, runnerVars, driver>>

TypeOK ==
    /\ ContainerTypeOK /\ PluginTypeOK /\ RunnerTypeOK
    /\ driver \in {"plugin", "runner"}

Init ==
    /\ ContainerInit /\ PluginInit /\ RunnerInit
    /\ driver \in {"plugin", "runner"}

ByPlugin == driver = "plugin" /\ PluginStep /\ UNCHANGED <<runnerVars, driver>>
ByRunner == driver = "runner" /\ RunnerStep /\ UNCHANGED <<pluginVars, driver>>
Generates == driver = "plugin" /\ PluginWork /\ UNCHANGED <<runnerVars, driver>>
Works == driver = "runner" /\ RunnerWork /\ UNCHANGED <<pluginVars, driver>>

\* What the runner's process writes goes to those who have its handle, and is
\* not counted.
InContainer ==
    /\ ProcessStep
    /\ driver = "runner" => UNCHANGED <<wrote, complained>>
    /\ UNCHANGED <<pluginVars, runnerVars, driver>>

Next == ByPlugin \/ ByRunner \/ InContainer

\* The kernel ends a process that was sent SIGKILL.
Killed == told = "killed" /\ Exit /\ UNCHANGED <<pluginVars, runnerVars, driver>>

\* The goroutines go on when they can, and so does a plugin.  What the runner
\* started may run for ever, as a container does that nobody kills.  Nobody has
\* to call Wait or Close, and no context has to end.
Spec ==
    /\ Init /\ [][Next]_vars
    /\ WF_vars(Generates) /\ WF_vars(Works)
    /\ WF_vars(driver = "plugin" /\ InContainer) /\ WF_vars(Killed)

\* With a plugin that reads its input before it writes, and writes no more
\* errors than a pipe holds, the call of Plugin.CodeGen ends.  (Others can block
\* it for ever: the plugin on a full pipe, CodeGen on another.)
PluginCallEnds == driver = "plugin" /\ manners = "orderly" ~> host \in Over
=============================================================================
