------------------------------ MODULE EngineHost ------------------------------
(***************************************************************************)
(* The embedded engine: Host in src/backend/internal/enginehost (host.go)  *)
(* and, for what its goroutine goes through, App.RunWithReady in           *)
(* src/backend/internal/app (app.go).                                      *)
(*                                                                         *)
(* Threads of the application call Start and Stop.  Host.mu is held for    *)
(* one look at the state; the waiting for done and startDone is outside    *)
(* it, so calls and the engine's goroutine interleave there.  A run is one *)
(* life of the engine, with its context and its two channels.              *)
(***************************************************************************)
EXTENDS Integers

CONSTANTS
  Callers,  \* threads that call Start and Stop
  Runs,     \* names of runs; a name is used again when nobody refers to it
  NoRun

ASSUME HostAssumption == NoRun \notin Runs

VARIABLES
  state,      \* Host.state
  run,        \* the run whose cancel, done and startDone the host holds
  started,    \* Host.started
  runErr,     \* Host.runErr is not nil
  lastError,  \* Host.lastError, by where it comes from
  engine,     \* where the goroutine of a run is in RunWithReady
  canceled,   \* runs whose context is canceled and that are not over
  ready,      \* how often startDone of a run was closed
  done,       \* runs whose done is closed
  pc,         \* what a caller does
  at          \* the run it waits for

hostVars   == <<state, run, started, runErr, lastError>>
runVars    == <<engine, canceled, ready, done>>
callerVars == <<pc, at>>
vars == <<hostVars, runVars, callerVars>>

\* The goroutine initializes, serves until its context is canceled or the server
\* fails, and has an outcome before it reports to the host.
Phases   == {"unused", "initializing", "serving", "finished", "failed", "unready"}
Returned == {"finished", "failed", "unready"}

Init ==
  /\ state = "stopped" /\ run = NoRun /\ started = FALSE
  /\ runErr = FALSE /\ lastError = "none"
  /\ engine = [r \in Runs |-> "unused"]
  /\ canceled = {} /\ done = {}
  /\ ready = [r \in Runs |-> 0]
  /\ pc = [c \in Callers |-> "idle"]
  /\ at = [c \in Callers |-> NoRun]

Wait(c, for, r) ==
  /\ pc' = [pc EXCEPT ![c] = for]
  /\ at' = [at EXCEPT ![c] = r]

Return(c) == Wait(c, "idle", NoRun)

-----------------------------------------------------------------------------
(* Start.                                                                  *)

\* The configuration is refused before the host looks at its state.
StartRejected(c) ==
  /\ pc[c] = "idle"
  /\ lastError' = "configuration"
  /\ Return(c)
  /\ UNCHANGED <<state, run, started, runErr, runVars>>

\* A call enters the loop, or enters it again when the run it found stopping is over.
Looks(c) == pc[c] = "idle" \/ (pc[c] = "start after" /\ at[c] \in done)

StartRunning(c) ==
  /\ Looks(c) /\ state = "running"
  /\ lastError' = "none"
  /\ Return(c)
  /\ UNCHANGED <<state, run, started, runErr, runVars>>

StartJoins(c) ==
  /\ Looks(c) /\ state = "starting"
  /\ Wait(c, "joined", run)
  /\ UNCHANGED <<hostVars, runVars>>

StartStopping(c) ==
  /\ Looks(c) /\ state = "stopping"
  /\ Wait(c, "start after", run)
  /\ UNCHANGED <<hostVars, runVars>>

\* A run that no other caller waits for and whose goroutine is over.
Unreferenced(r, c) ==
  /\ engine[r] = "unused" \/ r \in done
  /\ \A other \in Callers \ {c} : at[other] # r

\* Mutant: a new engine is launched beside one that is stopping.
MayLaunchBeside(s) == s \in {"stopped", "stopping"}

MayLaunch(s) == s = "stopped"

StartLaunches(c) ==
  /\ Looks(c) /\ MayLaunch(state)
  /\ \E r \in Runs :
       /\ Unreferenced(r, c)
       /\ run' = r
       /\ engine' = [engine EXCEPT ![r] = "initializing"]
       /\ done' = done \ {r}
       /\ UNCHANGED canceled
       /\ ready' = [ready EXCEPT ![r] = 0]
       /\ Wait(c, "starting", r)
  /\ state' = "starting" /\ started' = FALSE
  /\ runErr' = FALSE /\ lastError' = "none"

\* startDone is closed; the state is read again, under mu.
StartReturns(c) ==
  /\ pc[c] \in {"joined", "starting"} /\ ready[at[c]] > 0
  /\ Return(c)
  /\ UNCHANGED <<hostVars, runVars>>

StartSucceeds(c) == state = "running" /\ StartReturns(c)
StartFails(c)    == state # "running" /\ StartReturns(c)

\* Mutant: a stopped engine is told nothing.
CancelNothing(r) == canceled

CancelRun(r) == canceled \cup ({r} \ done)

\* startupTimeout: the caller that launched the run cancels it and waits.
StartTimesOut(c) ==
  /\ pc[c] = "starting"
  /\ canceled' = CancelRun(at[c])
  /\ Wait(c, "timed out", at[c])
  /\ UNCHANGED <<hostVars, engine, ready, done>>

StartGivesUp(c) ==
  /\ pc[c] = "timed out" /\ at[c] \in done
  /\ lastError' = "timeout"
  /\ Return(c)
  /\ UNCHANGED <<state, run, started, runErr, runVars>>

-----------------------------------------------------------------------------
(* Stop.                                                                   *)

\* On a stopped host the call returns at once and changes nothing.
StopStopping(c) ==
  /\ pc[c] = "idle" /\ state = "stopping"
  /\ Wait(c, "stopping", run)
  /\ UNCHANGED <<hostVars, runVars>>

StopBegins(c) ==
  /\ pc[c] = "idle" /\ state \in {"starting", "running"}
  /\ state' = "stopping"
  /\ Wait(c, "canceling", run)
  /\ UNCHANGED <<run, started, runErr, lastError, runVars>>

\* cancel, after mu was released.
StopCancels(c) ==
  /\ pc[c] = "canceling"
  /\ canceled' = CancelRun(at[c])
  /\ Wait(c, "stopping", at[c])
  /\ UNCHANGED <<hostVars, engine, ready, done>>

\* done is closed; currentRunError reads the errors of the host, not of the run.
StopReturns(c) ==
  /\ pc[c] = "stopping" /\ at[c] \in done
  /\ Return(c)
  /\ UNCHANGED <<hostVars, runVars>>

CurrentRunError == runErr \/ lastError # "none"

StopSucceeds(c) == ~ CurrentRunError /\ StopReturns(c)
StopFails(c)    == CurrentRunError /\ StopReturns(c)

-----------------------------------------------------------------------------
(* The engine's goroutine.                                                 *)

\* Opening the database, the settings or the listener fails.
EngineUnready(r) ==
  /\ engine[r] = "initializing"
  /\ engine' = [engine EXCEPT ![r] = "unready"]
  /\ UNCHANGED <<hostVars, canceled, ready, done, callerVars>>

AcceptsReady == state = "starting" /\ ~ started

\* The listener is there and the ready callback tells the host; the context is
\* looked at afterwards.
EngineReady(r) ==
  /\ engine[r] = "initializing"
  /\ engine' = [engine EXCEPT ![r] = "serving"]
  /\ IF AcceptsReady
     THEN /\ state' = "running" /\ started' = TRUE
          /\ ready' = [ready EXCEPT ![run] = @ + 1]
     ELSE UNCHANGED <<state, started, ready>>
  /\ UNCHANGED <<run, runErr, lastError, canceled, done, callerVars>>

\* The server fails, or the context is canceled and the shutdown ends, with an
\* error if it takes longer than its 5 seconds.
EngineReturns(r) ==
  /\ engine[r] = "serving"
  /\ \E outcome \in {"finished", "failed"} :
       /\ outcome = "finished" => r \in canceled
       /\ engine' = [engine EXCEPT ![r] = outcome]
  /\ UNCHANGED <<hostVars, canceled, ready, done, callerVars>>

\* Mutant: startDone is closed by every run that ends.
ClosesAlways == TRUE

ClosesStartDone == ~ started

Failed(r) == engine[r] # "finished" \/ state = "starting"

\* The goroutine's last section reports to the host and closes the channels.
EngineEnds(r) ==
  /\ engine[r] \in Returned /\ r \notin done
  /\ runErr' = Failed(r)
  /\ lastError' = IF Failed(r) THEN "engine" ELSE lastError
  /\ ready' = IF ClosesStartDone THEN [ready EXCEPT ![run] = @ + 1] ELSE ready
  /\ started' = TRUE
  /\ state' = "stopped"
  /\ done' = done \cup {run} /\ canceled' = canceled \ {run}
  /\ UNCHANGED <<run, engine, callerVars>>

-----------------------------------------------------------------------------

Call(c) ==
  \/ StartRejected(c) \/ StartRunning(c) \/ StartJoins(c) \/ StartStopping(c)
  \/ StartLaunches(c) \/ StartSucceeds(c) \/ StartFails(c) \/ StartTimesOut(c) \/ StartGivesUp(c)
  \/ StopStopping(c) \/ StopBegins(c) \/ StopCancels(c)
  \/ StopSucceeds(c) \/ StopFails(c)

Engine(r) == EngineUnready(r) \/ EngineReady(r) \/ EngineReturns(r) \/ EngineEnds(r)

Next == (\E c \in Callers : Call(c)) \/ (\E r \in Runs : Engine(r))

Spec == Init /\ [][Next]_vars

\* A caller that can go on does, a canceled engine returns and initialization
\* ends, well or badly: every step of it has a deadline.  Nobody has to call,
\* and the timeout does not have to strike.
Fairness ==
  /\ \A c \in Callers :
       /\ WF_vars(StartReturns(c)) /\ WF_vars(StartGivesUp(c))
       /\ WF_vars(StopCancels(c)) /\ WF_vars(StopReturns(c))
  /\ \A r \in Runs :
       /\ WF_vars(EngineUnready(r) \/ EngineReady(r))
       /\ WF_vars(r \in canceled /\ EngineReturns(r))
       /\ WF_vars(EngineEnds(r))

FairSpec == Spec /\ Fairness

-----------------------------------------------------------------------------
(* Properties.                                                             *)

Live(r) == engine[r] # "unused" /\ r \notin done

\* Every variable keeps its type; startDone of a run is closed at most once, by
\* the ready callback or by the run's end, for a second close would bring the
\* process down.
TypeOK ==
  /\ state \in {"stopped", "starting", "running", "stopping"}
  /\ run \in Runs \cup {NoRun}
  /\ started \in BOOLEAN /\ runErr \in BOOLEAN
  /\ lastError \in {"none", "configuration", "engine", "timeout"}
  /\ engine \in [Runs -> Phases]
  /\ canceled \subseteq Runs /\ done \subseteq Runs
  /\ ready \in [Runs -> 0..1]
  /\ pc \in [Callers -> {"idle", "joined", "start after", "starting", "timed out",
                         "canceling", "stopping"}]
  /\ at \in [Callers -> Runs \cup {NoRun}]

\* At most one engine lives, and it is the host's: two would fight for the
\* database and the address (Start launches only when the last one is over).
OneEngine ==
  \A r \in Runs : Live(r) <=> r = run /\ state # "stopped"

\* A Start that succeeds returns with a listener that is there: the host is
\* still running at that step and the engine has passed its initialization
\* (README.md: the embedded engine listens before its start returns).
StartedMeansListening ==
  [][\A c \in Callers :
       StartSucceeds(c) => engine[run] \in {"serving", "finished", "failed"}]_vars

\* A Stop, and a Start that launched a run or joined one, returns.
CallsReturn ==
  \A c \in Callers :
    pc[c] \in {"joined", "starting", "timed out", "canceling", "stopping"} ~> pc[c] = "idle"

\* A Stop reports an error only when the run it stopped ended with one.  It fails
\* when another Start was refused in the meantime (README, Disagreements).
StopReportsItsRun ==
  [][\A c \in Callers :
       StopFails(c) => engine[at[c]] # "finished"]_vars
=============================================================================
