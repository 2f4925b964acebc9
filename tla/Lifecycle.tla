---------------------------- MODULE Lifecycle ----------------------------
(***************************************************************************)
(* The life of the server process: cmd/pbr/main.go with New, Serve and     *)
(* Shutdown of internal/service/service.go.  Three actors run in it: main, *)
(* which waits for a signal and shuts the server down; the goroutine that  *)
(* serves; and the requests.  A request stores one document and is then    *)
(* answered.  The process may be started again after it has ended.         *)
(*                                                                         *)
(* Of net/http and h2c the module has what the code relies on: Shutdown    *)
(* makes ListenAndServe return at once and waits for the requests of       *)
(* connections the server tracks; a connection that h2c took over is not   *)
(* tracked.                                                                *)
(***************************************************************************)
EXTENDS Naturals, FiniteSets

CONSTANTS
    Requests,       \* requests that clients may send; each names its document
    Docstores,      \* metadata stores the configuration may choose
    MaxStarts       \* how often the process is started

ASSUME DocstoresAssumption == Docstores \subseteq {"mem", "server"}
ASSUME MaxStartsAssumption == MaxStarts \in Nat

VARIABLES
    proc,       \* where main is
    serve,      \* what the serving goroutine does
    code,       \* exit code of the last process
    tls,        \* whether a certificate is configured
    docstore,   \* the metadata store: mem:// or one outside of the process
    signalled,  \* SIGTERM or SIGINT has arrived, so main's context is done
    expired,    \* the grace period of the shutdown is over
    held,       \* a client holds a connection that h2c took over
    req,        \* stage of every request
    tracked,    \* requests on connections that the server tracks
    mem,        \* documents in the memory of the process (mem://)
    disk,       \* documents outside of the process
    starts      \* how often the process was started

vars == <<proc, serve, code, tls, docstore, signalled, expired, held, req,
          tracked, mem, disk, starts>>

Alive == {"booting", "waiting", "closing", "draining", "telemetry"}
Running == {"open", "stored"}
ShuttingDown == proc \in {"draining", "telemetry"}

TypeOK ==
    /\ proc \in Alive \cup {"down", "exited"}
    /\ serve \in {"none", "starting", "listening", "returned"}
    /\ code \in {0, 1}
    /\ tls \in BOOLEAN /\ signalled \in BOOLEAN /\ expired \in BOOLEAN
    /\ held \in BOOLEAN
    /\ docstore \in Docstores
    /\ req \in [Requests -> {"new", "answered", "failed", "cut"} \cup Running]
    /\ tracked \subseteq Requests
    /\ mem \subseteq Requests /\ disk \subseteq Requests
    /\ starts \in 0..MaxStarts

Init ==
    /\ proc = "down" /\ serve = "none" /\ code = 0
    /\ tls \in BOOLEAN /\ docstore \in Docstores
    /\ signalled = FALSE /\ expired = FALSE /\ held = FALSE
    /\ req = [r \in Requests |-> "new"] /\ tracked = {}
    /\ mem = {} /\ disk = {} /\ starts = 0

----------------------------------------------------------------------------
\* The process ends with exit code c, whatever its goroutines are doing.  The
\* memory is gone: nothing calls MetadataStoreImpl.Close, which would have
\* written the collections of mem:// to their files.
Exit(c) ==
    /\ proc' = "exited" /\ code' = c
    /\ serve' = "none" /\ held' = FALSE
    /\ req' = [r \in Requests |-> IF req[r] \in Running THEN "cut" ELSE req[r]]
    /\ mem' = {}
    /\ UNCHANGED <<tls, docstore, signalled, expired, tracked, disk, starts>>

\* main: from the start of the process to setupTelemetry.
Start ==
    /\ proc \in {"down", "exited"} /\ starts < MaxStarts
    /\ starts' = starts + 1
    /\ proc' = "booting"
    /\ signalled' = FALSE /\ expired' = FALSE
    /\ UNCHANGED <<serve, code, tls, docstore, held, req, tracked, mem, disk>>

\* The configuration, the log level, the telemetry or New fails.
BootFails == proc = "booting" /\ Exit(1)

\* openDocstoreCollections: a mem:// collection reads the file that is there.
OpenDocstoreCollections == mem' = IF docstore = "mem" THEN disk ELSE {}

\* New succeeds and the goroutine that serves is started.
New ==
    /\ proc = "booting"
    /\ OpenDocstoreCollections
    /\ proc' = "waiting" /\ serve' = "starting"
    /\ UNCHANGED <<code, tls, docstore, signalled, expired, held, req, tracked,
                   disk, starts>>

\* Slip: main waits for the server to return, not for the signal.
StopWaitingForServe ==
    /\ proc = "waiting" /\ signalled /\ serve = "returned"
    /\ proc' = "closing"
    /\ UNCHANGED <<serve, code, tls, docstore, signalled, expired, held, req,
                   tracked, mem, disk, starts>>

\* <-ctx.Done() returns; the grace period starts.
StopWaiting ==
    /\ proc = "waiting" /\ signalled
    /\ proc' = "closing"
    /\ UNCHANGED <<serve, code, tls, docstore, signalled, expired, held, req,
                   tracked, mem, disk, starts>>

\* svc.Shutdown begins: the listeners are closed, and so ListenAndServe
\* returns http.ErrServerClosed.
Shutdown ==
    /\ proc = "closing"
    /\ proc' = "draining"
    /\ serve' = IF serve = "listening" THEN "returned" ELSE serve
    /\ UNCHANGED <<code, tls, docstore, signalled, expired, held, req, tracked,
                   mem, disk, starts>>

Expire ==
    /\ proc \in {"closing", "draining", "telemetry"} /\ ~expired
    /\ expired' = TRUE
    /\ UNCHANGED <<proc, serve, code, tls, docstore, signalled, held, req,
                   tracked, mem, disk, starts>>

\* Slip: the server is closed without waiting for its requests.
DrainedAtOnce ==
    /\ proc = "draining"
    /\ proc' = "telemetry"
    /\ UNCHANGED <<serve, code, tls, docstore, signalled, expired, held, req,
                   tracked, mem, disk, starts>>

\* svc.Shutdown returns: the tracked connections are idle, or the grace period
\* is over.
Drained ==
    /\ proc = "draining"
    /\ expired \/ \A r \in tracked : req[r] \notin Running
    /\ proc' = "telemetry"
    /\ UNCHANGED <<serve, code, tls, docstore, signalled, expired, held, req,
                   tracked, mem, disk, starts>>

\* telShutdown returns, and with it main.
Return == proc = "telemetry" /\ Exit(0)

----------------------------------------------------------------------------
\* The serving goroutine.

\* The listener is open.
Listen ==
    /\ serve = "starting" /\ ~ShuttingDown
    /\ serve' = "listening"
    /\ UNCHANGED <<proc, code, tls, docstore, signalled, expired, held, req,
                   tracked, mem, disk, starts>>

\* The address cannot be used, accepting fails, or the server was shut down
\* before it listened.
ServeFails ==
    /\ serve \in {"starting", "listening"}
    /\ serve' = "returned"
    /\ UNCHANGED <<proc, code, tls, docstore, signalled, expired, held, req,
                   tracked, mem, disk, starts>>

\* Slip: an error of the server is only logged.
ServeErrorLogged ==
    /\ serve = "returned"
    /\ serve' = "none"
    /\ UNCHANGED <<proc, code, tls, docstore, signalled, expired, held, req,
                   tracked, mem, disk, starts>>

\* main.go:72: every return of Serve is an error, http.ErrServerClosed too.
ServeError == serve = "returned" /\ Exit(1)

----------------------------------------------------------------------------
\* Requests.

\* A request arrives: on a new connection while the server listens, or on a
\* connection that h2c holds.  There is no h2c with TLS.
Arrive(r) ==
    /\ req[r] = "new" /\ proc \in Alive
    /\ req' = [req EXCEPT ![r] = "open"]
    /\ \/ serve = "listening" /\ tracked' = tracked \cup {r} /\ UNCHANGED held
       \/ /\ ~tls /\ (serve = "listening" \/ held)
          /\ held' = TRUE /\ UNCHANGED tracked
    /\ UNCHANGED <<proc, serve, code, tls, docstore, signalled, expired, mem,
                   disk, starts>>

\* The document of the request is stored.
Store(r) ==
    /\ req[r] = "open"
    /\ req' = [req EXCEPT ![r] = "stored"]
    /\ IF docstore = "mem" THEN mem' = mem \cup {r} /\ UNCHANGED disk
                           ELSE disk' = disk \cup {r} /\ UNCHANGED mem
    /\ UNCHANGED <<proc, serve, code, tls, docstore, signalled, expired, held,
                   tracked, starts>>

\* It is answered once its document is stored.
Answer(r) ==
    /\ req[r] = "stored"
    /\ req' = [req EXCEPT ![r] = "answered"]
    /\ UNCHANGED <<proc, serve, code, tls, docstore, signalled, expired, held,
                   tracked, mem, disk, starts>>

\* Without TLS the context of a request is derived from main's, which the
\* signal ends: the request may fail at its next call, even after its document
\* was stored.
Cancel(r) ==
    /\ req[r] \in Running /\ signalled /\ ~tls
    /\ req' = [req EXCEPT ![r] = "failed"]
    /\ UNCHANGED <<proc, serve, code, tls, docstore, signalled, expired, held,
                   tracked, mem, disk, starts>>

Signal ==
    /\ proc \in Alive /\ ~signalled
    /\ signalled' = TRUE
    /\ UNCHANGED <<proc, serve, code, tls, docstore, expired, held, req, tracked,
                   mem, disk, starts>>

----------------------------------------------------------------------------
Main ==
    New \/ BootFails \/ StopWaiting \/ Shutdown \/ Drained \/ Return
Server == ServeError \/ (ShuttingDown /\ ServeFails)

Next ==
    \/ Start \/ Signal \/ Main \/ Expire
    \/ Listen \/ ServeFails \/ ServeError
    \/ \E r \in Requests : Arrive(r) \/ Store(r) \/ Answer(r) \/ Cancel(r)

\* main, the serving goroutine and the timer of the grace period go on.  A
\* request may take as long as it likes, and no signal has to come.
Spec ==
    /\ Init /\ [][Next]_vars
    /\ WF_vars(Main) /\ WF_vars(Expire) /\ WF_vars(Listen \/ Server)

----------------------------------------------------------------------------
\* A process that ends with code 0 within the grace period has finished every
\* request on a tracked connection, and with TLS none of them was failed by the
\* shutdown (Service.Shutdown, Serve's BaseContext).  Code 1 promises nothing:
\* ListenAndServe returns as soon as Shutdown begins, and main.go:74 then ends
\* the process under the requests that Shutdown waits for.
DrainComplete ==
    [][proc # "exited" /\ proc' = "exited" /\ code' = 0 /\ ~expired =>
        \A r \in tracked :
            /\ req[r] \notin Running
            /\ tls => req[r] # "failed"]_vars

\* After a signal the process ends, however long its requests take.
SignalEnds == signalled ~> proc = "exited"

\* A process whose server could not listen, or stopped, does not linger as if
\* it served (main.go:72-75).
UnservedEnds == proc = "waiting" /\ serve = "returned" ~> proc = "exited"

\* 'docstore_url: "mem://"  # In-memory (persisted to cachedir on shutdown)'
\* (README.md:205): what is in memory when main returns after a signal is on
\* disk.
ShutdownPersists ==
    [][proc # "exited" /\ proc' = "exited" /\ code' = 0 => mem \subseteq disk']_vars
============================================================================
