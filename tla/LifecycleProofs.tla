-------------------------- MODULE LifecycleProofs --------------------------
(***************************************************************************)
(* What module Lifecycle guarantees for any number of requests and starts: *)
(* a shutdown that ends with code 0 was a complete one.                    *)
(***************************************************************************)
EXTENDS Lifecycle, TLAPS

\* With TLS the shutdown fails nothing.  Once Shutdown has begun nothing new
\* comes in on a tracked connection, and when it has returned in time no request
\* runs on one.
Kept ==
    /\ tls => \A r \in Requests : req[r] # "failed"
    /\ ShuttingDown => serve # "listening"
    /\ \A r \in tracked : req[r] # "new"
    /\ proc = "telemetry" /\ ~expired => \A r \in tracked : req[r] \notin Running

Safe == TypeOK /\ Kept

-----------------------------------------------------------------------------

LEMMA InitSafe == Init => Safe
<1> SUFFICES ASSUME Init PROVE Safe
  OBVIOUS
<1>1. TypeOK
  <2>1. req \in [Requests -> {"new", "answered", "failed", "cut"} \cup Running]
    BY DEF Init
  <2>2. starts \in 0 .. MaxStarts
    BY MaxStartsAssumption DEF Init
  <2> QED
    BY <2>1, <2>2 DEF Init, TypeOK, Alive
<1>2. Kept
  BY DEF Init, Kept, ShuttingDown
<1> QED
  BY <1>1, <1>2 DEF Safe

\* The end of the process cuts the requests that run and answers none.
LEMMA ExitSafe ==
    ASSUME Safe, NEW c \in {0, 1}, Exit(c)
    PROVE  Safe'
<1>1. /\ req' \in [Requests -> {"new", "answered", "failed", "cut"} \cup Running]
      /\ \A r \in Requests : req'[r] \in {"cut", req[r]}
  BY DEF Safe, TypeOK, Exit, Running
<1>2. TypeOK'
  BY <1>1 DEF Safe, TypeOK, Exit, Alive, Running
<1>3. Kept'
  BY <1>1 DEF Safe, Kept, Exit, ShuttingDown, TypeOK, Running
<1> QED
  BY <1>2, <1>3 DEF Safe

LEMMA MainSafe ==
    ASSUME Safe, Start \/ New \/ StopWaiting \/ Shutdown \/ Expire \/ Drained \/ Signal
    PROVE  Safe'
<1>1. CASE Start
  <2>1. TypeOK'
    <3>1. starts' \in 0 .. MaxStarts
      BY <1>1, MaxStartsAssumption DEF Safe, TypeOK, Start
    <3> QED
      BY <1>1, <3>1 DEF Safe, TypeOK, Start, Alive
  <2>2. Kept'
    BY <1>1 DEF Safe, Kept, Start, ShuttingDown
  <2> QED
    BY <2>1, <2>2 DEF Safe
<1>2. CASE New
  <2>1. TypeOK'
    BY <1>2 DEF Safe, TypeOK, New, OpenDocstoreCollections, Alive
  <2>2. Kept'
    BY <1>2 DEF Safe, Kept, New, OpenDocstoreCollections, ShuttingDown
  <2> QED
    BY <2>1, <2>2 DEF Safe
<1>3. CASE StopWaiting \/ Expire \/ Drained \/ Signal
  <2>1. TypeOK'
    <3>1. CASE StopWaiting
      BY <3>1 DEF Safe, TypeOK, StopWaiting, Alive
    <3>2. CASE Expire
      BY <3>2 DEF Safe, TypeOK, Expire, Alive
    <3>3. CASE Drained
      BY <3>3 DEF Safe, TypeOK, Drained, Alive
    <3>4. CASE Signal
      BY <3>4 DEF Safe, TypeOK, Signal, Alive
    <3> QED
      BY <1>3, <3>1, <3>2, <3>3, <3>4
  <2>2. Kept'
    BY <1>3 DEF Safe, Kept, StopWaiting, Expire, Drained, Signal, ShuttingDown
  <2> QED
    BY <2>1, <2>2 DEF Safe
<1>4. CASE Shutdown
  BY <1>4 DEF Safe, TypeOK, Kept, Shutdown, Alive, ShuttingDown
<1> QED
  BY <1>1, <1>2, <1>3, <1>4

LEMMA ServerSafe ==
    ASSUME Safe, Listen \/ ServeFails
    PROVE  Safe'
BY DEF Safe, TypeOK, Kept, Listen, ServeFails, ShuttingDown

LEMMA RequestSafe ==
    ASSUME Safe, NEW r \in Requests, Arrive(r) \/ Store(r) \/ Answer(r) \/ Cancel(r)
    PROVE  Safe'
<1>1. CASE Arrive(r)
  BY <1>1 DEF Safe, TypeOK, Kept, Arrive, Running, ShuttingDown
<1>2. CASE Store(r)
  BY <1>2 DEF Safe, TypeOK, Kept, Store, Running, ShuttingDown
<1>3. CASE Answer(r)
  BY <1>3 DEF Safe, TypeOK, Kept, Answer, Running, ShuttingDown
<1>4. CASE Cancel(r)
  BY <1>4 DEF Safe, TypeOK, Kept, Cancel, Running, ShuttingDown
<1> QED
  BY <1>1, <1>2, <1>3, <1>4

LEMMA NextSafe == Safe /\ [Next]_vars => Safe'
<1> SUFFICES ASSUME Safe, [Next]_vars PROVE Safe'
  OBVIOUS
<1>1. CASE BootFails \/ Return \/ ServeError
  BY <1>1, ExitSafe DEF BootFails, Return, ServeError
<1>2. CASE Start \/ New \/ StopWaiting \/ Shutdown \/ Expire \/ Drained \/ Signal
  BY <1>2, MainSafe
<1>3. CASE Listen \/ ServeFails
  BY <1>3, ServerSafe
<1>4. CASE \E r \in Requests : Arrive(r) \/ Store(r) \/ Answer(r) \/ Cancel(r)
  BY <1>4, RequestSafe
<1>5. CASE UNCHANGED vars
  BY <1>5 DEF vars, Safe, TypeOK, Kept, ShuttingDown
<1> QED
  BY <1>1, <1>2, <1>3, <1>4, <1>5 DEF Next, Main

\* The invariant: types, no failures with TLS, nothing left after draining.
LEMMA SafeHolds == Spec => []Safe
BY InitSafe, NextSafe, PTL DEF Spec

\* The variables of main, the goroutine and the requests keep their types.
THEOREM LifecycleTyped == Spec => []TypeOK
<1>1. Safe => TypeOK
  BY DEF Safe
<1> QED
  BY <1>1, SafeHolds, PTL

\* Only main's return ends the process with code 0: it has waited for every
\* request on a tracked connection, or its grace period was over.
THEOREM DrainsAlwaysComplete == Spec => DrainComplete
<1>1. Safe /\ [Next]_vars =>
          [proc # "exited" /\ proc' = "exited" /\ code' = 0 /\ ~expired =>
              \A r \in tracked :
                  /\ req[r] \notin Running
                  /\ tls => req[r] # "failed"]_vars
  <2> SUFFICES ASSUME Safe, Next, proc # "exited", proc' = "exited", code' = 0,
                      ~expired
               PROVE  \A r \in tracked :
                          /\ req[r] \notin Running
                          /\ tls => req[r] # "failed"
    OBVIOUS
  <2>1. Return
    <3>1. ~BootFails /\ ~ServeError
      BY DEF BootFails, ServeError, Exit
    <3>2. ~Start /\ ~New /\ ~StopWaiting /\ ~Shutdown /\ ~Drained /\ ~Expire
          /\ ~Signal /\ ~Listen /\ ~ServeFails
      BY DEF Start, New, StopWaiting, Shutdown, Drained, Expire, Signal, Listen, ServeFails
    <3>3. \A r \in Requests : ~(Arrive(r) \/ Store(r) \/ Answer(r) \/ Cancel(r))
      BY DEF Arrive, Store, Answer, Cancel
    <3> QED
      BY <3>1, <3>2, <3>3 DEF Next, Main
  <2> QED
    BY <2>1 DEF Return, Safe, Kept, TypeOK
<1> QED
  BY <1>1, SafeHolds, PTL DEF Spec, DrainComplete
=============================================================================
