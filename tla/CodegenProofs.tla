--------------------------- MODULE CodegenProofs ---------------------------
(***************************************************************************)
(* What modules Plugin and Runner guarantee for any size of pipes and data *)
(* and any number of goroutines that share a handle.                       *)
(***************************************************************************)
EXTENDS Codegen, TLAPS

-----------------------------------------------------------------------------
(***************************************************************************)
(* Type correctness.                                                       *)
(***************************************************************************)

\* Nothing is lost in the pipes, input is written only while there is some, and
\* a call that returns has something to return.
Flow ==
    /\ read + stdout = wrote /\ errRead + stderr = complained
    /\ host \in Preparing => written = 0
    /\ host = "write" => written < InputSize
    /\ host = "return" => result \in Over

LEMMA Sizes == PipeCap \in Nat /\ InputSize \in Nat /\ MaxOutput \in Nat /\ InputSize > 0
BY ContainerAssumption

\* Is a call in a list of calls?
In(call, calls) == \E i \in 1 .. Len(calls) : calls[i] = call

\* A list is its first call and the others.
LEMMA FirstCall ==
    ASSUME NEW S, NEW calls \in Seq(S), calls # <<>>
    PROVE  /\ Head(calls) \in S /\ Tail(calls) \in Seq(S)
           /\ \A call : In(call, calls) => call = Head(calls) \/ In(call, Tail(calls))
<1>1. Len(calls) \in Nat /\ Len(calls) > 0
  OBVIOUS
<1>2. Head(calls) \in S /\ Tail(calls) \in Seq(S) /\ Head(calls) = calls[1]
  BY <1>1
<1>3. Len(Tail(calls)) = Len(calls) - 1
      /\ \A i \in 1 .. Len(calls) - 1 : Tail(calls)[i] = calls[i + 1]
  BY <1>1
<1>4. ASSUME NEW call, In(call, calls), call # Head(calls)
      PROVE  In(call, Tail(calls))
  <2>1. PICK i \in 1 .. Len(calls) : calls[i] = call
    BY <1>4 DEF In
  <2>2. i # 1
    BY <1>2, <1>4, <2>1
  <2>3. i - 1 \in 1 .. Len(calls) - 1 /\ i = (i - 1) + 1
    BY <1>1, <2>2
  <2>4. Tail(calls)[i - 1] = call
    BY <1>3, <2>1, <2>3
  <2> QED
    BY <1>3, <2>3, <2>4 DEF In
<1> QED
  BY <1>2, <1>4

LEMMA Lists ==
    /\ \A call : ~In(call, <<>>)
    /\ OfMount \in Seq({"unmount", "point", "root"}) /\ OfRoot \in Seq({"unmount", "point", "root"})
    /\ In("unmount", OfMount) /\ In("unmount", OfRoot) /\ In("root", OfRoot)
<1>1. \A call : ~In(call, <<>>)
  BY DEF In
<1>2. OfMount \in Seq({"unmount", "point", "root"}) /\ OfRoot \in Seq({"unmount", "point", "root"})
  BY DEF OfMount, OfRoot
<1>3. Len(OfMount) = 2 /\ OfMount[2] = "unmount"
  BY DEF OfMount
<1>4. Len(OfRoot) = 3 /\ OfRoot[3] = "unmount" /\ OfRoot[1] = "root"
  BY DEF OfRoot
<1> QED
  BY <1>1, <1>2, <1>3, <1>4 DEF In

\* What is undone: the calls of cleanupLocal, with the stop and stdin before
\* them from the stages on that have a process and its stdin.
LEMMA Undone ==
    /\ \A stage \in Starting : Undoing(stage) \in Seq(Cleaning)
    /\ \A stage \in Starting \ {"image"} :
           In("unmount", Undoing(stage)) /\ In("point", Undoing(stage))
    /\ \A stage \in {"new", "exec", "inPipe", "outPipe", "errPipe"} : In("root", Undoing(stage))
    /\ \A stage \in {"inPipe", "outPipe", "errPipe"} : In("stop", Undoing(stage))
    /\ CloseCalls \in Seq(Cleaning)
    /\ \A call \in Cleaning : In(call, CloseCalls)
<1>1. CleanupLocal \in Seq(Cleaning) /\ Len(CleanupLocal) = 3
      /\ CleanupLocal[1] = "unmount" /\ CleanupLocal[2] = "point" /\ CleanupLocal[3] = "root"
  BY DEF CleanupLocal, Cleaning
<1>3. CloseCalls \in Seq(Cleaning) /\ Len(CloseCalls) = 5
      /\ CloseCalls[1] = "stdin" /\ CloseCalls[2] = "stop" /\ CloseCalls[3] = "unmount"
      /\ CloseCalls[4] = "point" /\ CloseCalls[5] = "root"
  BY DEF CloseCalls, Cleaning
<1>5. StopCalls \in Seq(Cleaning) /\ Len(StopCalls) = 4
      /\ StopCalls[1] = "stop" /\ StopCalls[2] = "unmount" /\ StopCalls[3] = "point" /\ StopCalls[4] = "root"
  BY DEF StopCalls, Cleaning
<1> DEFINE Early == <<"unmount", "point">>
<1>6. Early \in Seq(Cleaning) /\ Len(Early) = 2 /\ Early[1] = "unmount" /\ Early[2] = "point"
  BY DEF Cleaning
<1>7. /\ In("unmount", Early) /\ In("point", Early)
      /\ \A call \in {"unmount", "point", "root"} : In(call, CleanupLocal)
      /\ \A call \in {"stop", "unmount", "point", "root"} : In(call, StopCalls)
      /\ \A call \in Cleaning : In(call, CloseCalls)
  BY <1>1, <1>3, <1>5, <1>6 DEF In, Cleaning
<1>8. /\ Undoing("image") = <<>>
      /\ Undoing("resolve") = Early /\ Undoing("root") = Early
      /\ Undoing("new") = CleanupLocal /\ Undoing("exec") = CleanupLocal
      /\ Undoing("inPipe") = StopCalls
      /\ Undoing("outPipe") = CloseCalls /\ Undoing("errPipe") = CloseCalls
  BY DEF Undoing
<1>9. <<>> \in Seq(Cleaning)
  OBVIOUS
<1> HIDE DEF Early
<1> QED
  BY <1>1, <1>3, <1>5, <1>6, <1>7, <1>8, <1>9 DEF Starting, Cleaning

LEMMA InitTyped == Init => TypeOK
<1> SUFFICES ASSUME Init PROVE TypeOK
  OBVIOUS
<1>1. ContainerTypeOK
  <2>1. /\ mount \in {"none", "mounted", "left"} /\ snagged \subseteq Cleaning
        /\ proc \in {"none", "running", "exited", "reaped"}
        /\ manners \in {"orderly", "any"} /\ told \in {"no", "asked", "killed"}
        /\ shut \subseteq Ends
    BY DEF Init, ContainerInit
  <2>2. temp \in BOOLEAN /\ failed \in BOOLEAN /\ stdinOpen \in BOOLEAN
    BY DEF Init, ContainerInit
  <2>3. {stdin, stdout, stderr} \subseteq 0 .. PipeCap /\ {wrote, complained} \subseteq 0 .. MaxOutput
    BY Sizes DEF Init, ContainerInit
  <2> QED
    BY <2>1, <2>2, <2>3 DEF ContainerTypeOK, Init, ContainerInit
<1>2. PluginTypeOK
  <2>1. written \in 0 .. InputSize /\ {read, errRead} \subseteq 0 .. MaxOutput
    BY Sizes DEF Init, PluginInit
  <2>2. defers \in Seq({"unmount", "point", "root"})
    BY DEF Init, PluginInit
  <2> QED
    BY <2>1, <2>2 DEF Init, PluginInit, PluginTypeOK, PluginStages, Preparing
<1>3. RunnerTypeOK
  <2>1. todo \in Seq(Cleaning)
    BY DEF Init, RunnerInit
  <2> QED
    BY <2>1 DEF Init, RunnerInit, RunnerTypeOK, Starting, Once
<1> QED
  BY <1>1, <1>2, <1>3 DEF Init, TypeOK

LEMMA ProcessTyped ==
    ASSUME ContainerTypeOK, ProcessStep
    PROVE  ContainerTypeOK'
<1>1. CASE ReadInput
  BY <1>1, Sizes DEF ReadInput, ContainerTypeOK, holdings
<1>2. CASE WriteOutput
  BY <1>2, Sizes DEF WriteOutput, ContainerTypeOK, holdings
<1>3. CASE Complain
  BY <1>3, Sizes DEF Complain, ContainerTypeOK, holdings
<1>4. CASE ShutEnd
  BY <1>4 DEF ShutEnd, ContainerTypeOK, holdings, pipeVars
<1>5. CASE Exit
  BY <1>5 DEF Exit, ContainerTypeOK, holdings, pipeVars
<1> QED
  BY <1>1, <1>2, <1>3, <1>4, <1>5 DEF ProcessStep

\* Of the mount, the temporary root and what snagged.
HoldingsOK ==
    /\ mount \in {"none", "mounted", "left"}
    /\ temp \in BOOLEAN
    /\ snagged \subseteq Cleaning

LEMMA ReleaseTyped ==
    ASSUME HoldingsOK, Unmount \/ RemovePoint \/ RemoveRoot
    PROVE  HoldingsOK'
BY DEF HoldingsOK, Unmount, RemovePoint, RemoveRoot, Snag, Cleaning

\* A step that returns leaves all but the process and the answer alone.
LEMMA ReturnTyped ==
    ASSUME ContainerTypeOK, PluginTypeOK, NEW value \in Over, Returns(value),
           proc' \in {proc, "reaped"},
           UNCHANGED <<failed, manners, runtime, told, shut, pipeVars>>
    PROVE  ContainerTypeOK' /\ PluginTypeOK'
<1>1. ContainerTypeOK'
  BY DEF Returns, ContainerTypeOK, holdings, pipeVars
<1>2. PluginTypeOK'
  BY DEF Returns, PluginTypeOK, PluginStages, counted, Over
<1> QED
  BY <1>1, <1>2

LEMMA PluginTyped ==
    ASSUME ContainerTypeOK, PluginTypeOK, Flow, PluginStep
    PROVE  ContainerTypeOK' /\ PluginTypeOK'
<1>1. CASE MountImage
  <2>1. CASE Returns("error")
    BY <1>1, <2>1, ReturnTyped DEF MountImage, processVars, Over
  <2>2. CASE ~Returns("error")
    BY <1>1, <2>2, Lists DEF MountImage, processVars, pipeVars, counted,
         ContainerTypeOK, PluginTypeOK, PluginStages, Preparing
  <2> QED
    BY <2>1, <2>2
<1>2. CASE Prepare
  BY <1>2, Lists DEF Prepare, AfterPreparing, ContainerTypeOK, PluginTypeOK,
       PluginStages, Preparing, counted
<1>3. CASE PrepareFails \/ WriteBreaks \/ ReadFails \/ Decode
  BY <1>3, ReturnTyped DEF PrepareFails, WriteBreaks, ReadFails, Decode, Over, processVars
<1>4. CASE WriteInput
  <2>1. stdin' \in 0 .. PipeCap /\ written' \in 0 .. InputSize /\ stdinOpen' \in BOOLEAN
    BY <1>4, Sizes DEF WriteInput, ContainerTypeOK, PluginTypeOK, Flow
  <2> QED
    BY <1>4, <2>1 DEF WriteInput, ContainerTypeOK, PluginTypeOK, PluginStages, holdings
<1>5. CASE ReadOutput
  <2>1. stdout' \in 0 .. PipeCap /\ read' \in 0 .. MaxOutput
    BY <1>5, Sizes DEF ReadOutput, Proceeds, ContainerTypeOK, PluginTypeOK, Flow, counted
  <2> QED
    BY <1>5, <2>1 DEF ReadOutput, Proceeds, ContainerTypeOK, PluginTypeOK, PluginStages,
         holdings, counted
<1>6. CASE ReadErrors
  <2>1. stderr' \in 0 .. PipeCap /\ errRead' \in 0 .. MaxOutput
    BY <1>6, Sizes DEF ReadErrors, ContainerTypeOK, PluginTypeOK, Flow
  <2> QED
    BY <1>6, <2>1 DEF ReadErrors, ContainerTypeOK, PluginTypeOK, holdings
<1>7. CASE ErrorsRead \/ WaitForExit
  <2>1. proc' \in {proc, "reaped"} /\ UNCHANGED <<failed, manners, runtime, told, shut, pipeVars>>
    BY <1>7 DEF ErrorsRead, WaitForExit, processVars
  <2>2. CASE Returns("error")
    BY <2>1, <2>2, ReturnTyped DEF Over
  <2>3. CASE (Proceeds("wait") \/ Proceeds("decode")) /\ UNCHANGED holdings
    BY <2>1, <2>3 DEF Proceeds, ContainerTypeOK, PluginTypeOK, PluginStages, holdings,
         pipeVars, counted
  <2> QED
    BY <1>7, <2>2, <2>3 DEF ErrorsRead, WaitForExit
<1>8. CASE Unwind
  <2>1. CASE defers = <<>>
    BY <1>8, <2>1 DEF Unwind, Flow, ContainerTypeOK, PluginTypeOK, PluginStages, holdings,
         processVars, pipeVars, counted
  <2>2. CASE defers # <<>>
    <3>1. Head(defers) \in {"unmount", "point", "root"}
          /\ Tail(defers) \in Seq({"unmount", "point", "root"})
      BY <2>2, FirstCall DEF PluginTypeOK
    <3>2. HoldingsOK'
      BY <1>8, <2>2, <3>1, ReleaseTyped DEF Unwind, HoldingsOK, ContainerTypeOK
    <3> QED
      BY <1>8, <2>2, <3>1, <3>2 DEF Unwind, HoldingsOK, ContainerTypeOK, PluginTypeOK,
           processVars, pipeVars, counted
  <2> QED
    BY <2>1, <2>2
<1> QED
  BY <1>1, <1>2, <1>3, <1>4, <1>5, <1>6, <1>7, <1>8 DEF PluginStep, PluginWork

LEMMA ProcessFlow ==
    ASSUME ContainerTypeOK, PluginTypeOK, Flow, ProcessStep, UNCHANGED pluginVars
    PROVE  Flow'
<1>1. CASE ReadInput \/ ShutEnd \/ Exit
  BY <1>1 DEF ReadInput, ShutEnd, Exit, Flow, pluginVars, counted, pipeVars
<1>2. CASE WriteOutput
  BY <1>2 DEF WriteOutput, Flow, pluginVars, counted, ContainerTypeOK, PluginTypeOK
<1>3. CASE Complain
  BY <1>3 DEF Complain, Flow, pluginVars, counted, ContainerTypeOK, PluginTypeOK
<1> QED
  BY <1>1, <1>2, <1>3 DEF ProcessStep

LEMMA PluginFlow ==
    ASSUME ContainerTypeOK, PluginTypeOK, Flow, PluginStep
    PROVE  Flow'
<1>1. ASSUME NEW value \in Over, Returns(value), UNCHANGED pipeVars
      PROVE  Flow'
  BY <1>1 DEF Returns, Flow, Preparing, pipeVars, counted
<1>2. CASE MountImage
  BY <1>1, <1>2 DEF MountImage, Flow, Over, Preparing, processVars, pipeVars, counted
<1>3. CASE Prepare
  BY <1>3, Sizes DEF Prepare, AfterPreparing, Flow, Preparing, counted
<1>4. CASE WriteInput
  BY <1>4, Sizes DEF WriteInput, Flow, Preparing, PluginTypeOK
<1>5. CASE ReadOutput
  BY <1>5 DEF ReadOutput, Proceeds, Flow, Preparing, ContainerTypeOK, PluginTypeOK, counted
<1>6. CASE ReadErrors
  BY <1>6 DEF ReadErrors, Flow, Preparing, ContainerTypeOK, PluginTypeOK
<1>7. CASE ErrorsRead \/ WaitForExit
  <2>1. UNCHANGED pipeVars
    BY <1>7 DEF ErrorsRead, WaitForExit, processVars
  <2>2. CASE Returns("error")
    BY <1>1, <2>1, <2>2 DEF Over
  <2>3. CASE Proceeds("wait") \/ Proceeds("decode")
    BY <2>1, <2>3 DEF Proceeds, Flow, Preparing, pipeVars, counted
  <2> QED
    BY <1>7, <2>2, <2>3 DEF ErrorsRead, WaitForExit
<1>8. CASE PrepareFails \/ WriteBreaks \/ ReadFails \/ Decode
  BY <1>1, <1>8 DEF Over, PrepareFails, WriteBreaks, ReadFails, Decode, processVars
<1>9. CASE Unwind
  BY <1>9 DEF Unwind, Flow, Preparing, PluginTypeOK, Over, processVars, pipeVars, counted
<1> QED
  BY <1>2, <1>3, <1>4, <1>5, <1>6, <1>7, <1>8, <1>9 DEF PluginStep, PluginWork

\* What each of the calls that clean up does, and that none touches the process.
LEMMA CleanUpIs ==
    ASSUME NEW call \in Cleaning, CleanUp(call)
    PROVE  /\ call = "stdin" => CloseStdin
           /\ call = "stop" => Stop
           /\ call = "unmount" => Unmount /\ UNCHANGED processVars
           /\ call = "point" => RemovePoint /\ UNCHANGED processVars
           /\ call = "root" => RemoveRoot /\ UNCHANGED processVars
           /\ UNCHANGED <<proc, failed, manners, runtime, shut>>
           /\ UNCHANGED <<stdin, stdout, stderr, wrote, complained>>
<1>1. CASE call = "stdin"
  BY <1>1 DEF CleanUp, CloseStdin
<1>2. CASE call = "stop"
  BY <1>2 DEF CleanUp, Stop, pipeVars
<1>3. CASE call = "unmount"
  BY <1>3 DEF CleanUp, processVars, pipeVars
<1>4. CASE call = "point"
  BY <1>4 DEF CleanUp, processVars, pipeVars
<1>5. CASE call = "root"
  BY <1>5 DEF CleanUp, processVars, pipeVars
<1> QED
  BY <1>1, <1>2, <1>3, <1>4, <1>5 DEF Cleaning

LEMMA StopTold ==
    ASSUME ContainerTypeOK, Stop
    PROVE  told' \in {"no", "asked", "killed"}
<1>1. CASE runtime = "kill"
  BY <1>1 DEF Stop, ContainerTypeOK
<1>2. CASE runtime = "signal"
  BY <1>2 DEF Stop, ContainerTypeOK
<1>3. CASE runtime = "stop"
  BY <1>3 DEF Stop, ContainerTypeOK
<1>4. CASE runtime = "none"
  BY <1>4 DEF Stop, ContainerTypeOK
<1> QED
  BY <1>1, <1>2, <1>3, <1>4 DEF ContainerTypeOK

LEMMA CleanUpTyped ==
    ASSUME ContainerTypeOK, NEW call \in Cleaning, CleanUp(call)
    PROVE  ContainerTypeOK'
<1>1. CASE call = "stdin"
  BY <1>1, CleanUpIs DEF CloseStdin, ContainerTypeOK, holdings
<1>2. CASE call = "stop"
  <2>1. Stop
    BY <1>2, CleanUpIs
  <2>2. mount' = mount /\ temp' = temp /\ snagged' \in {snagged, snagged \cup {"stop"}}
    BY <2>1 DEF Stop, Snag, holdings
  <2>3. UNCHANGED <<proc, failed, manners, runtime, shut, pipeVars>>
    BY <2>1 DEF Stop
  <2> QED
    BY <2>1, <2>2, <2>3, StopTold DEF ContainerTypeOK, pipeVars, Cleaning
<1>3. CASE call \in {"unmount", "point", "root"}
  <2>1. UNCHANGED processVars /\ (Unmount \/ RemovePoint \/ RemoveRoot)
    BY <1>3, CleanUpIs
  <2>2. HoldingsOK'
    BY <2>1, ReleaseTyped DEF HoldingsOK, ContainerTypeOK
  <2> QED
    BY <2>1, <2>2 DEF HoldingsOK, ContainerTypeOK, processVars, pipeVars
<1> QED
  BY <1>1, <1>2, <1>3 DEF Cleaning

\* A step of the runner leaves the pipes' contents alone.
LEMMA RunnerTyped ==
    ASSUME ContainerTypeOK, RunnerTypeOK, RunnerStep
    PROVE  /\ ContainerTypeOK' /\ RunnerTypeOK'
           /\ UNCHANGED <<stdin, stdout, stderr, wrote, complained>>
<1> DEFINE Goal == /\ ContainerTypeOK' /\ RunnerTypeOK'
                   /\ UNCHANGED <<stdin, stdout, stderr, wrote, complained>>
<1>1. CASE StartGoesOn
  BY <1>1 DEF StartGoesOn, AfterStarting, ContainerTypeOK, RunnerTypeOK, Starting, Once,
       waitVars, closeVars
<1>2. CASE StartFails
  <2>1. todo' \in Seq(Cleaning)
    BY <1>2, Undone DEF StartFails
  <2> QED
    BY <1>2, <2>1 DEF StartFails, ContainerTypeOK, RunnerTypeOK, waitVars, cancelVars,
         containerVars, holdings, processVars, pipeVars
<1>3. ASSUME CleanUp(Head(todo)), todo # <<>>
      PROVE  /\ ContainerTypeOK' /\ Tail(todo) \in Seq(Cleaning)
             /\ UNCHANGED <<stdin, stdout, stderr, wrote, complained>>
  <2>1. Head(todo) \in Cleaning /\ Tail(todo) \in Seq(Cleaning)
    BY <1>3, FirstCall DEF RunnerTypeOK
  <2> QED
    BY <1>3, <2>1, CleanUpIs, CleanUpTyped
<1>4. CASE StartUndoes
  <2>1. CASE todo = <<>>
    BY <1>4, <2>1 DEF StartUndoes, ContainerTypeOK, RunnerTypeOK, Once, waitVars,
         cancelVars, containerVars, holdings, processVars, pipeVars
  <2>2. CASE todo # <<>>
    BY <1>3, <1>4, <2>2 DEF StartUndoes, RunnerTypeOK, waitVars, cancelVars
  <2> QED
    BY <2>1, <2>2
<1>5. CASE ProcessWaited
  BY <1>5 DEF ProcessWaited, ContainerTypeOK, RunnerTypeOK, Once, closeVars, cancelVars,
       holdings, pipeVars
<1>6. CASE WatchCancel
  BY <1>6 DEF WatchCancel, ContainerTypeOK, RunnerTypeOK, Once, waitVars, closeVars, holdings
<1>7. CASE ContextEnds
  BY <1>7 DEF ContextEnds, ContainerTypeOK, RunnerTypeOK, waitVars, closeVars,
       containerVars, holdings, processVars, pipeVars
<1>8. ASSUME NEW c \in Callers, CallWait(c) \/ WaitReturns(c)
      PROVE  Goal
  BY <1>8 DEF CallWait, WaitReturns, ContainerTypeOK, RunnerTypeOK, Once, closeVars,
       cancelVars, containerVars, holdings, processVars, pipeVars
<1>9. ASSUME NEW c \in Callers, CallClose(c) \/ CloseReturns(c)
      PROVE  Goal
  BY <1>9, Undone DEF CallClose, CloseReturns, ContainerTypeOK, RunnerTypeOK, Once, Closed,
       waitVars, cancelVars, containerVars, holdings, processVars, pipeVars
<1>10. ASSUME NEW c \in Callers, CloseWorks(c)
       PROVE  Goal
  <2>1. CASE todo = <<>>
    BY <1>10, <2>1 DEF CloseWorks, ContainerTypeOK, RunnerTypeOK, Once, Closed, waitVars,
         cancelVars, containerVars, holdings, processVars, pipeVars
  <2>2. CASE todo # <<>>
    BY <1>3, <1>10, <2>2 DEF CloseWorks, RunnerTypeOK, waitVars, cancelVars
  <2> QED
    BY <2>1, <2>2
<1> QED
  BY <1>1, <1>2, <1>4, <1>5, <1>6, <1>7, <1>8, <1>9, <1>10 DEF RunnerStep, RunnerWork

Typed == TypeOK /\ Flow

LEMMA NextTyped == Typed /\ [Next]_vars => Typed'
<1> SUFFICES ASSUME Typed, [Next]_vars PROVE Typed'
  OBVIOUS
<1> USE DEF Typed, TypeOK
<1>1. CASE ByPlugin
  <2>1. RunnerTypeOK'
    BY <1>1 DEF ByPlugin, RunnerTypeOK, runnerVars, waitVars, closeVars, cancelVars
  <2> QED
    BY <1>1, <2>1, PluginTyped, PluginFlow DEF ByPlugin
<1>2. CASE ByRunner
  <2>1. PluginTypeOK' /\ (UNCHANGED <<stdin, stdout, stderr, wrote, complained>> => Flow')
    BY <1>2 DEF ByRunner, PluginTypeOK, pluginVars, counted, Flow
  <2> QED
    BY <1>2, <2>1, RunnerTyped DEF ByRunner
<1>3. CASE InContainer
  <2>1. PluginTypeOK' /\ RunnerTypeOK'
    BY <1>3 DEF InContainer, PluginTypeOK, RunnerTypeOK, pluginVars, counted, runnerVars,
         waitVars, closeVars, cancelVars
  <2> QED
    BY <1>3, <2>1, ProcessTyped, ProcessFlow DEF InContainer
<1>4. CASE UNCHANGED vars
  BY <1>4 DEF vars, containerVars, holdings, processVars, pipeVars, pluginVars, counted,
       runnerVars, waitVars, closeVars, cancelVars, ContainerTypeOK, PluginTypeOK,
       RunnerTypeOK, Flow
<1> QED
  BY <1>1, <1>2, <1>3, <1>4 DEF Next

LEMMA TypedHolds == Spec => []Typed
<1>1. Init => Flow
  BY DEF Init, ContainerInit, PluginInit, Flow
<1> QED
  BY <1>1, InitTyped, NextTyped, PTL DEF Spec, Typed

\* Pipes never hold more than they can, and nothing is read that was not
\* written.
THEOREM CodegenTyped == Spec => []TypeOK
<1>1. Typed => TypeOK
  BY DEF Typed
<1> QED
  BY <1>1, TypedHolds, PTL

-----------------------------------------------------------------------------
(***************************************************************************)
(* Plugin.CodeGen.                                                         *)
(***************************************************************************)

\* What CodeGen has got behind it at each of its calls, and that what it holds
\* is still to be released by a deferred call or snagged.
PluginSound ==
    /\ host = "mount" => ~temp
    /\ host \in {"stderr", "wait", "decode"} \/ result = "ok" => stdout = 0 /\ "out" \in shut
    /\ host \in {"wait", "decode"} \/ result = "ok" => errRead = 0 /\ stderr = 0 /\ "err" \in shut
    /\ host = "decode" \/ result = "ok" => proc = "reaped" /\ ~failed
    /\ result = "ok" => host \in {"return", "ok"}
    /\ host \in Over => defers = <<>>
    /\ mount = "mounted" => In("unmount", defers) \/ "unmount" \in snagged
    /\ temp => In("root", defers) \/ "root" \in snagged

PluginSafe == driver = "plugin" => PluginSound

LEMMA ProcessSound ==
    ASSUME PluginSound, ProcessStep, UNCHANGED pluginVars
    PROVE  PluginSound'
<1>1. proc = "running" /\ UNCHANGED <<mount, temp, snagged>>
  BY DEF Running, ProcessStep, ReadInput, WriteOutput, Complain, ShutEnd, Exit, holdings
<1>2. /\ "out" \in shut => stdout' = stdout /\ "out" \in shut'
      /\ "err" \in shut => stderr' = stderr /\ "err" \in shut'
  BY DEF ProcessStep, ReadInput, WriteOutput, Complain, ShutEnd, Exit, Ends, pipeVars
<1>3. UNCHANGED <<host, result, defers, errRead>>
  BY DEF pluginVars, counted
<1> QED
  BY <1>1, <1>2, <1>3 DEF PluginSound, Over

\* A call that fails goes on to its deferred calls.
LEMMA ReturnSound ==
    ASSUME PluginSound, Returns("error")
    PROVE  PluginSound'
BY DEF Returns, PluginSound, holdings, Over

LEMMA UnwindSound ==
    ASSUME PluginTypeOK, PluginSound, Flow, Unwind
    PROVE  PluginSound'
<1>1. host = "return" /\ UNCHANGED <<result, errRead, stdout, stderr, shut, proc, failed>>
  BY DEF Unwind, counted, processVars, pipeVars
<1>2. CASE defers = <<>>
  BY <1>1, <1>2 DEF Unwind, PluginSound, Flow, Over, holdings
<1>3. CASE defers # <<>>
  <2>1. /\ host' = host /\ defers' = Tail(defers)
        /\ \/ Head(defers) = "root" /\ RemoveRoot
           \/ Head(defers) = "point" /\ RemovePoint
           \/ Head(defers) = "unmount" /\ Unmount
    <3>1. Head(defers) \in {"unmount", "point", "root"}
      BY <1>3, FirstCall DEF PluginTypeOK
    <3>2. CASE Head(defers) = "root"
      BY <1>3, <3>2 DEF Unwind
    <3>3. CASE Head(defers) = "point"
      BY <1>3, <3>3 DEF Unwind
    <3>4. CASE Head(defers) = "unmount"
      BY <1>3, <3>4 DEF Unwind
    <3> QED
      BY <3>1, <3>2, <3>3, <3>4
  <2>2. \A call : In(call, defers) => call = Head(defers) \/ In(call, Tail(defers))
    BY <1>3, FirstCall DEF PluginTypeOK
  <2>3. mount' = "mounted" => In("unmount", defers') \/ "unmount" \in snagged'
    BY <2>1, <2>2 DEF PluginSound, Unmount, RemovePoint, RemoveRoot, Snag
  <2>4. temp' => In("root", defers') \/ "root" \in snagged'
    BY <2>1, <2>2 DEF PluginSound, Unmount, RemovePoint, RemoveRoot, Snag
  <2> QED
    BY <1>1, <2>1, <2>3, <2>4 DEF PluginSound, Over
<1> QED
  BY <1>2, <1>3

LEMMA PluginKeeps ==
    ASSUME ContainerTypeOK, PluginTypeOK, Flow, PluginSound, PluginStep
    PROVE  PluginSound'
<1>1. CASE MountImage
  <2>1. CASE Returns("error")
    BY <2>1, ReturnSound
  <2>2. CASE ~Returns("error")
    BY <1>1, <2>2, Lists DEF MountImage, PluginSound, processVars, pipeVars, counted, Over
  <2> QED
    BY <2>1, <2>2
<1>2. CASE Prepare
  <2>1. host \in Preparing \ {"mount"} /\ host' \in (Preparing \ {"mount"}) \cup {"write"}
    BY <1>2 DEF Prepare, AfterPreparing, Preparing
  <2>2. result # "ok" /\ UNCHANGED <<result, mount, snagged>>
    BY <1>2, <2>1 DEF Prepare, PluginSound, Preparing
  <2>3. mount' = "mounted" => In("unmount", defers') \/ "unmount" \in snagged'
    BY <1>2, <2>2, Lists DEF Prepare, PluginSound
  <2>4. temp' => In("root", defers') \/ "root" \in snagged'
    BY <1>2, <2>2, Lists DEF Prepare, PluginSound
  <2> QED
    BY <2>1, <2>2, <2>3, <2>4 DEF PluginSound, Preparing, Over
<1>3. CASE WriteInput
  BY <1>3 DEF WriteInput, PluginSound, Over, holdings
<1>4. CASE ReadOutput
  BY <1>4 DEF ReadOutput, AtEnd, Proceeds, PluginSound, Over, holdings, counted
<1>5. CASE ReadErrors
  BY <1>5 DEF ReadErrors, PluginSound, Over, holdings
<1>6. CASE ErrorsRead
  <2>1. CASE errRead > 0
    BY <1>6, <2>1, ReturnSound DEF ErrorsRead
  <2>2. CASE ~(errRead > 0)
    <3>1. errRead = 0
      BY <2>2 DEF PluginTypeOK
    <3> QED
      BY <1>6, <2>2, <3>1 DEF ErrorsRead, AtEnd, Proceeds, PluginSound, Over, holdings,
           processVars, pipeVars, counted
  <2> QED
    BY <2>1, <2>2
<1>7. CASE WaitForExit
  <2>1. CASE failed
    BY <1>7, <2>1, ReturnSound DEF WaitForExit
  <2>2. CASE ~failed
    BY <1>7, <2>2 DEF WaitForExit, Proceeds, PluginSound, Over, holdings, pipeVars, counted
  <2> QED
    BY <2>1, <2>2
<1>8. CASE Decode
  <2>1. CASE Returns("ok")
    BY <1>8, <2>1 DEF Decode, Returns, PluginSound, Over, holdings, processVars, pipeVars, counted
  <2> QED
    BY <1>8, <2>1, ReturnSound DEF Decode
<1>9. CASE PrepareFails \/ WriteBreaks \/ ReadFails
  BY <1>9, ReturnSound DEF PrepareFails, WriteBreaks, ReadFails
<1>10. CASE Unwind
  BY <1>10, UnwindSound
<1> QED
  BY <1>1, <1>2, <1>3, <1>4, <1>5, <1>6, <1>7, <1>8, <1>9, <1>10 DEF PluginStep, PluginWork

LEMMA NextPluginSafe == Typed /\ PluginSafe /\ [Next]_vars => PluginSafe'
<1> SUFFICES ASSUME Typed, PluginSafe, [Next]_vars, driver' = "plugin"
             PROVE  PluginSound'
  BY DEF PluginSafe
<1>1. driver = "plugin"
  BY DEF Next, ByPlugin, ByRunner, InContainer, vars
<1>2. PluginSound
  BY <1>1 DEF PluginSafe
<1>3. CASE ByPlugin
  BY <1>2, <1>3, PluginKeeps DEF ByPlugin, Typed, TypeOK
<1>4. CASE ByRunner
  BY <1>1, <1>4 DEF ByRunner
<1>5. CASE InContainer
  BY <1>2, <1>5, ProcessSound DEF InContainer
<1>6. CASE UNCHANGED vars
  BY <1>2, <1>6 DEF vars, containerVars, holdings, processVars, pipeVars, pluginVars,
       counted, PluginSound
<1> QED
  BY <1>3, <1>4, <1>5, <1>6 DEF Next

\* In the runs in which the runner is used CodeGen is not called.
NotCalled == driver # "plugin" => host = "mount" /\ result = "none"

LEMMA PluginHolds == Spec => [](Typed /\ PluginSafe /\ NotCalled)
<1>1. Init => PluginSafe /\ NotCalled
  BY DEF Init, ContainerInit, PluginInit, PluginSafe, PluginSound, NotCalled, Over
<1>2. NotCalled /\ [Next]_vars => NotCalled'
  BY DEF NotCalled, Next, ByPlugin, ByRunner, InContainer, vars, pluginVars
<1> QED
  BY <1>1, <1>2, NextPluginSafe, TypedHolds, PTL DEF Spec

\* A code generation that succeeds took the plugin's whole output, and the
\* plugin was waited for, before anything is cleaned up.
THEOREM SuccessAlwaysWhole == Spec => []SuccessIsWhole
<1>1. Typed /\ PluginSafe /\ NotCalled => SuccessIsWhole
  <2> SUFFICES ASSUME Typed, PluginSafe, NotCalled, result = "ok"
               PROVE  /\ read = wrote /\ complained = 0
                      /\ proc = "reaped" /\ ~failed
    BY DEF SuccessIsWhole
  <2>1. PluginSound
    BY DEF PluginSafe, NotCalled
  <2>2. read = wrote /\ complained = 0
    BY <2>1 DEF PluginSound, Typed, Flow, TypeOK, PluginTypeOK
  <2> QED
    BY <2>1, <2>2 DEF PluginSound
<1> QED
  BY <1>1, PluginHolds, PTL

\* At whichever return code generation ends: a mount or a temporary root that is
\* left is one whose removal failed.
THEOREM FailureAlwaysReleases == Spec => []FailureReleases
<1>1. Typed /\ PluginSafe /\ NotCalled => FailureReleases
  BY Lists DEF PluginSafe, PluginSound, NotCalled, FailureReleases, LeftBySnags, Over
<1> QED
  BY <1>1, PluginHolds, PTL

-----------------------------------------------------------------------------
(***************************************************************************)
(* The runner.                                                             *)
(***************************************************************************)

\* While Start or Close cleans up, what is there is still to be removed, or its
\* removal snagged.
Due(call) == In(call, todo) \/ call \in snagged

Tidying ==
    /\ mount = "mounted" => Due("unmount")
    /\ mount # "none" => Due("point")
    /\ temp => Due("root")
    /\ proc = "running" => told # "no" \/ runtime = "none" \/ Due("stop")

LEMMA TidyingDone ==
    ASSUME Tidying, todo = <<>>
    PROVE  CleanedUp
BY Lists DEF Tidying, Due, CleanedUp, LeftBySnags, Running

LEMMA TidyingGoesOn ==
    ASSUME ContainerTypeOK, todo \in Seq(Cleaning), todo # <<>>, Tidying,
           CleanUp(Head(todo)), todo' = Tail(todo)
    PROVE  /\ Tidying'
           /\ (stdinOpen => In("stdin", todo)) => (stdinOpen' => In("stdin", todo'))
<1>1. Head(todo) \in Cleaning /\ \A call : In(call, todo) => call = Head(todo) \/ In(call, todo')
  BY FirstCall
<1>2. UNCHANGED <<proc, runtime>>
  BY <1>1, CleanUpIs
<1>3. CASE Head(todo) = "stdin"
  <2>1. stdinOpen' = FALSE /\ UNCHANGED <<mount, temp, snagged, told>>
    BY <1>1, <1>3, CleanUpIs DEF CloseStdin, holdings
  <2> QED
    BY <1>1, <1>2, <1>3, <2>1 DEF Tidying, Due
<1>4. CASE Head(todo) = "stop"
  <2>1. Stop
    BY <1>1, <1>4, CleanUpIs
  <2>2. UNCHANGED <<mount, temp, stdinOpen>> /\ snagged \subseteq snagged'
    BY <2>1 DEF Stop, Snag, holdings, pipeVars
  <2>3. told' # "no" \/ runtime = "none" \/ "stop" \in snagged'
    <3>1. CASE runtime = "kill"
      BY <2>1, <3>1 DEF Stop, Snag
    <3>2. CASE runtime = "signal"
      BY <2>1, <3>2 DEF Stop, Snag
    <3>3. CASE runtime = "stop"
      BY <2>1, <3>3 DEF Stop, Snag
    <3> QED
      BY <3>1, <3>2, <3>3 DEF ContainerTypeOK
  <2> QED
    BY <1>1, <1>2, <1>4, <2>2, <2>3 DEF Tidying, Due
<1>5. CASE Head(todo) \in {"unmount", "point", "root"}
  <2>1. UNCHANGED <<stdinOpen, told>>
    BY <1>1, <1>5, CleanUpIs DEF processVars, pipeVars
  <2>2. \/ Head(todo) = "unmount" /\ Unmount
        \/ Head(todo) = "point" /\ RemovePoint
        \/ Head(todo) = "root" /\ RemoveRoot
    BY <1>1, <1>5, CleanUpIs
  <2>3. mount' = "mounted" => Due("unmount")'
    BY <1>1, <2>2 DEF Tidying, Due, Unmount, RemovePoint, RemoveRoot, Snag
  <2>4. mount' # "none" => Due("point")'
    BY <1>1, <2>2 DEF Tidying, Due, Unmount, RemovePoint, RemoveRoot, Snag
  <2>5. temp' => Due("root")'
    BY <1>1, <2>2 DEF Tidying, Due, Unmount, RemovePoint, RemoveRoot, Snag
  <2>6. snagged \subseteq snagged'
    BY <2>2 DEF Unmount, RemovePoint, RemoveRoot, Snag
  <2> QED
    BY <1>1, <1>2, <1>5, <2>1, <2>3, <2>4, <2>5, <2>6 DEF Tidying, Due
<1> QED
  BY <1>1, <1>3, <1>4, <1>5 DEF Cleaning

\* Nobody uses the handle before there is one.
HandleOK ==
    start # "up" =>
        /\ waitOnce = "free" /\ closeOnce = "free" /\ watcher = "none"
        /\ \A c \in Callers : waiting[c] = "no" /\ closing[c] = "no"

StartOK ==
    /\ start = "image" => mount = "none"
    /\ start \in {"image", "resolve", "root"} => ~temp
    /\ start \in {"image", "resolve", "root", "new", "exec"} => proc = "none"
    /\ start = "undo" => Tidying
    /\ start = "failed" => CleanedUp

\* Wait's answer is set when the process is reaped, and given afterwards.
WaitOK ==
    /\ proc = "reaped" => waitOnce = "done"
    /\ waitOnce = "done" =>
           proc = "reaped" /\ waitCode = IF failed THEN "one" ELSE "zero"
    /\ \A c \in Callers : waiting[c] \in {"zero", "one"} =>
           waitOnce = "done" /\ waiting[c] = waitCode

\* Some caller learns of what is left.
Reported == mount # "none" \/ temp => \E d \in Callers : closing[d] = "error"

\* One caller at most does the work of Close, and nobody returns before it is
\* done.
CloseOK ==
    /\ \A c \in Callers : closing[c] = "working" => closeOnce = "busy"
    /\ \A c, d \in Callers : closing[c] = "working" /\ closing[d] = "working" => c = d
    /\ \A c \in Callers : closing[c] \in Closed => closeOnce = "done"
    /\ closeOnce = "busy" => Tidying /\ (stdinOpen => In("stdin", todo))
    /\ closeOnce = "done" => CleanedUp /\ ~stdinOpen /\ Reported

RunnerSound == HandleOK /\ StartOK /\ WaitOK /\ CloseOK
RunnerSafe == driver = "runner" => RunnerSound

\* What the process, Wait and the watcher leave alone.
LEMMA TidyStays ==
    ASSUME UNCHANGED <<todo, mount, temp, snagged, told, runtime>>,
           proc' = "running" => proc = "running"
    PROVE  (Tidying => Tidying') /\ (CleanedUp => CleanedUp')
BY DEF Tidying, Due, CleanedUp, LeftBySnags, Running

LEMMA ProcessRunnerSound ==
    ASSUME RunnerSound, ProcessStep, UNCHANGED runnerVars
    PROVE  RunnerSound'
<1>1. /\ proc = "running" /\ proc' \in {"running", "exited"}
      /\ UNCHANGED <<mount, temp, snagged, told, runtime, stdinOpen>>
  BY DEF Running, ProcessStep, ReadInput, WriteOutput, Complain, ShutEnd, Exit, pipeVars,
     holdings
<1>2. UNCHANGED <<start, todo, waiting, waitOnce, waitCode, closing, closeOnce, watcher>>
  BY DEF runnerVars, waitVars, closeVars, cancelVars
<1>3. (Tidying => Tidying') /\ (CleanedUp => CleanedUp')
  BY <1>1, <1>2, TidyStays
<1>4. HandleOK' /\ StartOK'
  BY <1>1, <1>2, <1>3 DEF RunnerSound, HandleOK, StartOK
<1>5. WaitOK'
  BY <1>1, <1>2 DEF RunnerSound, WaitOK
<1>6. CloseOK'
  BY <1>1, <1>2, <1>3 DEF RunnerSound, CloseOK, Reported
<1> QED
  BY <1>4, <1>5, <1>6 DEF RunnerSound

\* Start: there is no handle yet, so only the first two parts are at stake.
LEMMA StartKeeps ==
    ASSUME ContainerTypeOK, RunnerTypeOK, RunnerSound,
           StartGoesOn \/ StartFails \/ StartUndoes
    PROVE  RunnerSound'
<1>1. start # "up" /\ UNCHANGED <<waiting, waitOnce, waitCode, closing, closeOnce>>
  BY DEF StartGoesOn, StartFails, StartUndoes, Starting, waitVars, closeVars
<1>2. HandleOK'
  <2>1. start' # "up" => UNCHANGED watcher
    BY DEF StartGoesOn, StartFails, StartUndoes, AfterStarting, cancelVars
  <2> QED
    BY <1>1, <2>1 DEF RunnerSound, HandleOK
<1>3. StartOK' /\ proc' # "reaped"
  <2>1. proc # "reaped"
    BY <1>1 DEF RunnerSound, HandleOK, WaitOK
  <2>2. CASE StartGoesOn
    BY <2>1, <2>2 DEF StartGoesOn, AfterStarting, Starting, RunnerSound, StartOK
  <2>3. CASE StartFails
    <3>1. start \in Starting /\ start' = "undo" /\ todo' = Undoing(start)
          /\ UNCHANGED <<mount, temp, snagged, proc, told, runtime>>
      BY <2>3 DEF StartFails, containerVars, holdings, processVars
    <3>2. start # "image" => In("unmount", todo') /\ In("point", todo')
      BY <3>1, Undone
    <3>3. start \in {"new", "exec", "inPipe", "outPipe", "errPipe"} => In("root", todo')
      BY <3>1, Undone
    <3>4. start \in {"inPipe", "outPipe", "errPipe"} => In("stop", todo')
      BY <3>1, Undone
    <3>5. Tidying'
      BY <3>1, <3>2, <3>3, <3>4 DEF Starting, Tidying, Due, RunnerSound, StartOK
    <3> QED
      BY <2>1, <3>1, <3>5 DEF StartOK
  <2>4. CASE StartUndoes /\ todo = <<>>
    <3>1. CleanedUp
      BY <2>4, TidyingDone DEF StartUndoes, RunnerSound, StartOK
    <3>2. start' = "failed" /\ UNCHANGED <<todo, mount, temp, snagged, proc, told, runtime>>
      BY <2>4 DEF StartUndoes, containerVars, holdings, processVars
    <3>3. CleanedUp'
      BY <3>1, <3>2, TidyStays
    <3> QED
      BY <2>1, <3>2, <3>3 DEF StartOK
  <2>5. CASE StartUndoes /\ todo # <<>>
    <3>1. start = "undo" /\ start' = start /\ todo' = Tail(todo) /\ CleanUp(Head(todo))
      BY <2>5 DEF StartUndoes
    <3>2. todo \in Seq(Cleaning) /\ Head(todo) \in Cleaning
      BY <2>5, FirstCall DEF RunnerTypeOK
    <3>3. proc' = proc
      BY <3>1, <3>2, CleanUpIs
    <3>4. Tidying'
      BY <2>5, <3>1, <3>2, TidyingGoesOn DEF RunnerSound, StartOK
    <3> QED
      BY <2>1, <3>1, <3>3, <3>4 DEF StartOK
  <2> QED
    BY <2>2, <2>3, <2>4, <2>5
<1>4. WaitOK' /\ CloseOK'
  BY <1>1, <1>3 DEF RunnerSound, HandleOK, WaitOK, CloseOK, Closed
<1> QED
  BY <1>2, <1>3, <1>4 DEF RunnerSound

LEMMA WaitKeeps ==
    ASSUME ContainerTypeOK, RunnerTypeOK, RunnerSound,
           \/ ProcessWaited \/ WatchCancel \/ ContextEnds
           \/ \E c \in Callers : CallWait(c) \/ WaitReturns(c)
    PROVE  RunnerSound'
<1>1. /\ UNCHANGED <<start, todo, closing, closeOnce, mount, temp, snagged, told, runtime>>
      /\ proc' \in {proc, "reaped"}
      /\ ~stdinOpen => ~stdinOpen'
  <2>1. CASE ProcessWaited
    BY <2>1 DEF ProcessWaited, closeVars, holdings, pipeVars
  <2>2. CASE WatchCancel
    <3>1. ~stdinOpen => ~stdinOpen'
      BY <2>2, Zenon DEF WatchCancel
    <3> QED
      BY <2>2, <3>1 DEF WatchCancel, closeVars, holdings
  <2>3. CASE ContextEnds
    BY <2>3 DEF ContextEnds, closeVars, containerVars, holdings, processVars, pipeVars
  <2>4. ASSUME NEW c \in Callers, CallWait(c) \/ WaitReturns(c)
        PROVE  /\ UNCHANGED <<start, todo, closing, closeOnce, mount, temp, snagged, told, runtime>>
               /\ proc' = proc /\ stdinOpen' = stdinOpen
    BY <2>4 DEF CallWait, WaitReturns, closeVars, containerVars, holdings, processVars, pipeVars
  <2> QED
    BY <2>1, <2>2, <2>3, <2>4
<1>2. (Tidying => Tidying') /\ (CleanedUp => CleanedUp')
  BY <1>1, TidyStays
<1>3. start # "up" => ~ProcessWaited /\ ~WatchCancel
                      /\ \A c \in Callers : ~CallWait(c) /\ ~WaitReturns(c)
  BY DEF ProcessWaited, WatchCancel, CallWait, WaitReturns, RunnerSound, HandleOK
<1>4. HandleOK'
  BY <1>1, <1>3 DEF ContextEnds, waitVars, RunnerSound, HandleOK
<1>5. StartOK'
  <2>1. start # "up" => proc' = proc
    BY <1>3 DEF ContextEnds, containerVars, processVars
  <2>2. start = "up" => StartOK'
    BY <1>1 DEF StartOK
  <2> QED
    BY <1>1, <1>2, <2>1, <2>2 DEF RunnerSound, StartOK
<1>6. CloseOK'
  <2>1. closeOnce = "busy" => (stdinOpen' => In("stdin", todo'))
    BY <1>1 DEF RunnerSound, CloseOK
  <2> QED
    BY <1>1, <1>2, <2>1 DEF RunnerSound, CloseOK, Reported
<1>7. WaitOK'
  <2>1. CASE ProcessWaited
    BY <2>1 DEF ProcessWaited, RunnerSound, WaitOK
  <2>2. CASE WatchCancel \/ ContextEnds
    BY <2>2 DEF WatchCancel, ContextEnds, waitVars, containerVars, processVars, RunnerSound, WaitOK
  <2>3. ASSUME NEW c \in Callers, CallWait(c)
        PROVE  WaitOK'
    BY <2>3 DEF CallWait, containerVars, processVars, RunnerSound, WaitOK, RunnerTypeOK
  <2>4. ASSUME NEW c \in Callers, WaitReturns(c)
        PROVE  WaitOK'
    BY <2>4 DEF WaitReturns, containerVars, processVars, RunnerSound, WaitOK, RunnerTypeOK
  <2> QED
    BY <2>1, <2>2, <2>3, <2>4
<1> QED
  BY <1>4, <1>5, <1>6, <1>7 DEF RunnerSound

LEMMA CloseKeeps ==
    ASSUME ContainerTypeOK, RunnerTypeOK, RunnerSound, NEW c \in Callers,
           CallClose(c) \/ CloseWorks(c) \/ CloseReturns(c)
    PROVE  RunnerSound'
<1>1. start = "up" /\ UNCHANGED <<start, waiting, waitOnce, waitCode>>
  BY DEF CallClose, CloseWorks, CloseReturns, RunnerSound, HandleOK, waitVars
<1>2. HandleOK' /\ StartOK'
  BY <1>1 DEF HandleOK, StartOK
<1>3. CASE CallClose(c) \/ CloseReturns(c)
  <2>1. UNCHANGED <<proc, failed, mount, temp, snagged, told, runtime, stdinOpen>>
    BY <1>3 DEF CallClose, CloseReturns, containerVars, holdings, processVars, pipeVars
  <2>2. WaitOK'
    BY <1>1, <2>1 DEF RunnerSound, WaitOK
  <2>3. CleanedUp => CleanedUp'
    BY <2>1 DEF CleanedUp, LeftBySnags, Running
  <2>4. CASE CallClose(c) /\ closeOnce = "free"
    <3>1. closing' = [closing EXCEPT ![c] = "working"] /\ closeOnce' = "busy" /\ todo' = CloseCalls
      BY <2>4 DEF CallClose
    <3>2. /\ In("stdin", todo') /\ In("stop", todo')
          /\ In("unmount", todo') /\ In("point", todo') /\ In("root", todo')
      BY <3>1, Undone DEF Cleaning
    <3>3. Tidying'
      BY <3>2 DEF Tidying, Due
    <3> QED
      BY <1>2, <2>2, <2>4, <3>1, <3>2, <3>3 DEF RunnerSound, CloseOK, RunnerTypeOK, Closed
  <2>5. CASE CallClose(c) /\ closeOnce # "free"
    <3>1. closing' = [closing EXCEPT ![c] = "called"] /\ UNCHANGED <<closeOnce, todo>>
          /\ closing[c] = "no"
      BY <2>5 DEF CallClose
    <3>2. Tidying => Tidying'
      BY <2>1, <3>1 DEF Tidying, Due
    <3> QED
      BY <1>2, <2>1, <2>2, <2>3, <3>1, <3>2 DEF RunnerSound, CloseOK, RunnerTypeOK, Closed, Reported
  <2>6. CASE CloseReturns(c)
    <3>1. closing' = [closing EXCEPT ![c] = "nil"] /\ UNCHANGED <<closeOnce, todo>>
          /\ closing[c] = "called" /\ closeOnce = "done"
      BY <2>6 DEF CloseReturns
    <3> QED
      BY <1>2, <2>1, <2>2, <2>3, <3>1 DEF RunnerSound, CloseOK, RunnerTypeOK, Closed, Reported
  <2> QED
    BY <1>3, <2>4, <2>5, <2>6
<1>4. CASE CloseWorks(c) /\ todo = <<>>
  <2>1. /\ closing' = [closing EXCEPT ![c] = IF snagged \subseteq {"stop"} THEN "nil" ELSE "error"]
        /\ closeOnce' = "done" /\ closing[c] = "working"
        /\ UNCHANGED <<todo, proc, failed, mount, temp, snagged, told, runtime, stdinOpen>>
    BY <1>4 DEF CloseWorks, containerVars, holdings, processVars, pipeVars
  <2>2. WaitOK'
    BY <1>1, <2>1 DEF RunnerSound, WaitOK
  <2>3. Tidying /\ (stdinOpen => In("stdin", todo))
    BY <2>1 DEF RunnerSound, CloseOK
  <2>4. CleanedUp /\ ~stdinOpen
    BY <1>4, <2>3, TidyingDone, Lists
  <2>5. CleanedUp' /\ ~stdinOpen'
    BY <2>1, <2>4 DEF CleanedUp, LeftBySnags, Running
  <2>6. Reported'
    <3>1. mount # "none" \/ temp => "unmount" \in snagged \/ "point" \in snagged \/ "root" \in snagged
      BY <2>4 DEF CleanedUp, LeftBySnags, ContainerTypeOK
    <3>2. mount # "none" \/ temp => closing'[c] = "error"
      BY <2>1, <3>1 DEF RunnerTypeOK
    <3> QED
      BY <2>1, <3>2 DEF Reported
  <2> QED
    BY <1>2, <2>1, <2>2, <2>5, <2>6 DEF RunnerSound, CloseOK, RunnerTypeOK, Closed
<1>5. CASE CloseWorks(c) /\ todo # <<>>
  <2>1. /\ CleanUp(Head(todo)) /\ todo' = Tail(todo) /\ closing[c] = "working"
        /\ UNCHANGED <<closing, closeOnce>>
    BY <1>5 DEF CloseWorks
  <2>2. todo \in Seq(Cleaning) /\ Head(todo) \in Cleaning
    BY <1>5, FirstCall DEF RunnerTypeOK
  <2>3. UNCHANGED <<proc, failed>>
    BY <2>1, <2>2, CleanUpIs
  <2>4. WaitOK'
    BY <1>1, <2>3 DEF RunnerSound, WaitOK
  <2>5. closeOnce = "busy"
    BY <2>1 DEF RunnerSound, CloseOK
  <2>6. Tidying' /\ (stdinOpen' => In("stdin", todo'))
    BY <1>5, <2>1, <2>2, <2>5, TidyingGoesOn DEF RunnerSound, CloseOK
  <2> QED
    BY <1>2, <2>1, <2>4, <2>5, <2>6 DEF RunnerSound, CloseOK
<1> QED
  BY <1>3, <1>4, <1>5

LEMMA NextRunnerSafe == Typed /\ RunnerSafe /\ [Next]_vars => RunnerSafe'
<1> SUFFICES ASSUME Typed, RunnerSafe, [Next]_vars, driver' = "runner"
             PROVE  RunnerSound'
  BY DEF RunnerSafe
<1>1. driver = "runner"
  BY DEF Next, ByPlugin, ByRunner, InContainer, vars
<1>2. RunnerSound
  BY <1>1 DEF RunnerSafe
<1>3. CASE ByPlugin
  BY <1>1, <1>3 DEF ByPlugin
<1>4. CASE ByRunner
  <2>1. RunnerStep /\ ContainerTypeOK /\ RunnerTypeOK
    BY <1>4 DEF ByRunner, Typed, TypeOK
  <2> QED
    BY <1>2, <2>1, StartKeeps, WaitKeeps, CloseKeeps DEF RunnerStep, RunnerWork
<1>5. CASE InContainer
  BY <1>2, <1>5, ProcessRunnerSound DEF InContainer
<1>6. CASE UNCHANGED vars
  <2>1. /\ UNCHANGED <<start, todo, waiting, waitOnce, waitCode, closing, closeOnce, watcher>>
        /\ UNCHANGED <<proc, failed, mount, temp, snagged, told, runtime, stdinOpen>>
    BY <1>6 DEF vars, containerVars, holdings, processVars, pipeVars, runnerVars, waitVars,
         closeVars, cancelVars
  <2>2. (Tidying => Tidying') /\ (CleanedUp => CleanedUp')
    BY <2>1, TidyStays
  <2> QED
    BY <1>2, <2>1, <2>2 DEF RunnerSound, HandleOK, StartOK, WaitOK, CloseOK, Reported
<1> QED
  BY <1>3, <1>4, <1>5, <1>6 DEF Next

\* In the runs in which CodeGen is called the runner is not used.
NotStarted ==
    driver # "runner" =>
        start = "image" /\ \A c \in Callers : waiting[c] = "no" /\ closing[c] = "no"

LEMMA RunnerHolds == Spec => [](RunnerSafe /\ NotStarted)
<1>1. Init => RunnerSafe /\ NotStarted
  BY DEF Init, ContainerInit, RunnerInit, RunnerSafe, RunnerSound, HandleOK,
       StartOK, WaitOK, CloseOK, Closed, NotStarted
<1>2. NotStarted /\ [Next]_vars => NotStarted'
  BY DEF NotStarted, Next, ByPlugin, ByRunner, InContainer, vars, runnerVars, waitVars, closeVars
<1> QED
  BY <1>1, <1>2, NextRunnerSafe, TypedHolds, PTL DEF Spec

\* At whichever stage Start fails: what is left is what a call failed to remove,
\* and a process that still runs is one that somebody tried to end.
THEOREM StartsAllOrNothing == Spec => []StartAllOrNothing
<1>1. RunnerSafe /\ NotStarted => StartAllOrNothing
  BY DEF RunnerSafe, RunnerSound, StartOK, NotStarted, StartAllOrNothing
<1> QED
  BY <1>1, RunnerHolds, PTL

\* All the goroutines that call Wait learn the same, and not before the process
\* is over.
THEOREM WaitsAlwaysAgree == Spec => []WaitsAgree
<1>1. RunnerSafe /\ NotStarted /\ Typed => WaitsAgree
  BY DEF RunnerSafe, RunnerSound, WaitOK, NotStarted, WaitsAgree, Typed, TypeOK
<1> QED
  BY <1>1, RunnerHolds, TypedHolds, PTL

\* Whichever goroutine's Close returns, the clean-up is over, and if anything
\* could not be removed one of them learns of it.
THEOREM ClosedAlwaysClean == Spec => []ClosedIsClean
<1>1. RunnerSafe /\ NotStarted => ClosedIsClean
  BY DEF RunnerSafe, RunnerSound, CloseOK, Reported, NotStarted, ClosedIsClean, Closed
<1> QED
  BY <1>1, RunnerHolds, PTL
=============================================================================
