--------------------------- MODULE EngineHostProofs ---------------------------
(* The theorems about EngineHost: one engine at a time, for any number of  *)
(* callers.                                                                *)
EXTENDS EngineHost, TLAPS

\* What the host knows of the live run: how often its startDone was closed, and
\* how far the engine has come.
Tracked ==
  /\ state # "stopped" => run \in Runs /\ ready[run] = IF started THEN 1 ELSE 0
  /\ state = "starting" => ~ started
  /\ state = "running" => engine[run] \in {"serving", "finished", "failed"}

\* done is closed by a goroutine that has returned.
DoneReturned == \A r \in done : engine[r] \in Returned

\* A caller that waits for a run has one to wait for.
WaitsForRun == \A c \in Callers : pc[c] # "idle" => at[c] \in Runs

HInv == TypeOK /\ OneEngine /\ Tracked /\ DoneReturned /\ WaitsForRun

-----------------------------------------------------------------------------

LEMMA InitHolds == Init => HInv
<1> SUFFICES ASSUME Init PROVE HInv
  OBVIOUS
<1>1. TypeOK
  <2>1. ready \in [Runs -> 0..1] /\ engine \in [Runs -> Phases]
    BY DEF Init, Phases
  <2>2. started \in BOOLEAN /\ runErr \in BOOLEAN
    BY Zenon DEF Init
  <2>3. canceled \subseteq Runs /\ done \subseteq Runs /\ run \in Runs \cup {NoRun}
    BY DEF Init
  <2>4. at \in [Callers -> Runs \cup {NoRun}]
    BY DEF Init
  <2>5. pc \in [Callers -> {"idle", "joined", "start after", "starting", "timed out",
                            "canceling", "stopping"}]
    BY DEF Init
  <2>6. QED BY <2>1, <2>2, <2>3, <2>4, <2>5 DEF Init, TypeOK
<1>2. OneEngine /\ Tracked /\ DoneReturned /\ WaitsForRun
  BY DEF Init, OneEngine, Live, Tracked, DoneReturned, WaitsForRun
<1>3. QED BY <1>1, <1>2 DEF HInv

\* A step of a caller that leaves the runs alone, and the host's state but for
\* its last error.
Waits ==
  /\ UNCHANGED <<state, run, started, runErr, engine, ready, done>>
  /\ lastError' \in {"none", "configuration", "engine", "timeout"}
  /\ canceled' \subseteq Runs
  /\ \E c \in Callers, for \in {"idle", "joined", "start after", "starting", "timed out",
                                "canceling", "stopping"}, r \in Runs \cup {NoRun} :
       Wait(c, for, r) /\ (for # "idle" => r \in Runs)

LEMMA WaitKeeps ==
  ASSUME TypeOK, WaitsForRun, NEW c \in Callers,
         NEW for \in {"idle", "joined", "start after", "starting", "timed out",
                      "canceling", "stopping"},
         NEW r \in Runs \cup {NoRun},
         Wait(c, for, r), for # "idle" => r \in Runs
  PROVE  /\ pc' \in [Callers -> {"idle", "joined", "start after", "starting",
                                 "timed out", "canceling", "stopping"}]
         /\ at' \in [Callers -> Runs \cup {NoRun}]
         /\ WaitsForRun'
BY DEF TypeOK, WaitsForRun, Wait

LEMMA WaitsKeep == HInv /\ Waits => HInv'
<1> SUFFICES ASSUME HInv, Waits PROVE HInv'
  OBVIOUS
<1>1. /\ pc' \in [Callers -> {"idle", "joined", "start after", "starting",
                              "timed out", "canceling", "stopping"}]
      /\ at' \in [Callers -> Runs \cup {NoRun}]
      /\ WaitsForRun'
  BY WaitKeeps DEF HInv, Waits
<1>2. TypeOK'
  BY <1>1 DEF HInv, TypeOK, Waits
<1>3. OneEngine' /\ Tracked' /\ DoneReturned'
  BY DEF HInv, OneEngine, Live, Tracked, DoneReturned, Waits
<1>4. QED BY <1>1, <1>2, <1>3 DEF HInv

\* On a host that is not stopped, run names a run.
LEMMA HostHasRun == HInv /\ state \in {"starting", "stopping", "running"} => run \in Runs
BY DEF HInv, Tracked

LEMMA CallWaits ==
  ASSUME HInv, NEW c \in Callers,
         \/ StartRejected(c) \/ StartRunning(c) \/ StartJoins(c) \/ StartStopping(c)
         \/ StartSucceeds(c) \/ StartFails(c) \/ StartTimesOut(c) \/ StartGivesUp(c)
         \/ StopStopping(c) \/ StopCancels(c) \/ StopSucceeds(c) \/ StopFails(c)
  PROVE  Waits
BY HostHasRun
DEF HInv, TypeOK, WaitsForRun, Waits, Return, CancelRun, hostVars, runVars,
    StartRejected, StartRunning, StartJoins, StartStopping, StartSucceeds, StartFails,
    StartReturns, StartTimesOut, StartGivesUp, StopStopping, StopCancels, StopSucceeds,
    StopFails, StopReturns

\* StopBegins leaves the run alone and the state not stopped.
LEMMA StopKeeps == ASSUME HInv, NEW c \in Callers, StopBegins(c) PROVE HInv'
<1>1. run \in Runs
  BY HostHasRun DEF StopBegins
<1>2. /\ pc' \in [Callers -> {"idle", "joined", "start after", "starting",
                              "timed out", "canceling", "stopping"}]
      /\ at' \in [Callers -> Runs \cup {NoRun}]
      /\ WaitsForRun'
  BY <1>1, WaitKeeps DEF HInv, StopBegins
<1>3. TypeOK'
  BY <1>2 DEF HInv, TypeOK, StopBegins, runVars
<1>4. OneEngine' /\ Tracked' /\ DoneReturned'
  BY DEF HInv, OneEngine, Live, Tracked, DoneReturned, StopBegins, runVars
<1>5. QED BY <1>2, <1>3, <1>4 DEF HInv

\* A launch: the host was stopped, so no engine lived.
LEMMA LaunchKeeps == ASSUME HInv, NEW c \in Callers, StartLaunches(c) PROVE HInv'
<1>1. state = "stopped"
  BY DEF StartLaunches, MayLaunch
<1>2. PICK r \in Runs :
        /\ Unreferenced(r, c)
        /\ run' = r
        /\ engine' = [engine EXCEPT ![r] = "initializing"]
        /\ done' = done \ {r}
        /\ UNCHANGED canceled
        /\ ready' = [ready EXCEPT ![r] = 0]
        /\ Wait(c, "starting", r)
  BY DEF StartLaunches
<1>3. /\ pc' \in [Callers -> {"idle", "joined", "start after", "starting",
                              "timed out", "canceling", "stopping"}]
      /\ at' \in [Callers -> Runs \cup {NoRun}]
      /\ WaitsForRun'
  BY <1>2, WaitKeeps DEF HInv
<1>4. TypeOK'
  <2>1. ready' \in [Runs -> 0..1] /\ engine' \in [Runs -> Phases]
    <3>1. ready \in [Runs -> 0..1] /\ engine \in [Runs -> Phases]
      BY DEF HInv, TypeOK
    <3>2. engine' \in [Runs -> Phases]
      BY <1>2, <3>1 DEF Phases
    <3>3. ready' \in [Runs -> 0..1]
      BY <1>2, <3>1
    <3>4. QED BY <3>2, <3>3
  <2>2. started' \in BOOLEAN /\ runErr' \in BOOLEAN
    BY Zenon DEF StartLaunches
  <2>3. QED BY <1>2, <1>3, <2>1, <2>2 DEF HInv, TypeOK, StartLaunches
<1>5. OneEngine'
  BY <1>1, <1>2 DEF HInv, TypeOK, OneEngine, Live, StartLaunches
<1>6. Tracked' /\ DoneReturned'
  BY <1>2 DEF HInv, TypeOK, Tracked, DoneReturned, StartLaunches
<1>7. QED BY <1>3, <1>4, <1>5, <1>6 DEF HInv

\* A live run is the host's.
LEMMA LiveIsHosts ==
  ASSUME HInv, NEW r \in Runs, Live(r)
  PROVE  r = run /\ state # "stopped"
BY DEF HInv, OneEngine

LEMMA EngineKeeps == ASSUME HInv, NEW r \in Runs, Engine(r) PROVE HInv'
<1>1. Live(r)
  BY DEF HInv, DoneReturned, Returned, Live, Engine, EngineUnready, EngineReady,
         EngineReturns, EngineEnds
<1>2. r = run /\ state # "stopped"
  BY <1>1, LiveIsHosts
<1>3. WaitsForRun' /\ UNCHANGED <<pc, at, run>>
  BY DEF HInv, WaitsForRun, Engine, EngineUnready, EngineReady, EngineReturns,
         EngineEnds, callerVars, hostVars
<1>4. CASE EngineUnready(r)
  <2>1. engine' = [engine EXCEPT ![r] = "unready"] /\ engine[r] = "initializing"
    BY <1>4 DEF EngineUnready
  <2>2. TypeOK'
    BY <1>4, <2>1 DEF HInv, TypeOK, EngineUnready, Phases, hostVars, callerVars
  <2>3. OneEngine' /\ Tracked' /\ DoneReturned'
    BY <1>1, <1>2, <1>4, <2>1
    DEF HInv, TypeOK, OneEngine, Live, Tracked, DoneReturned, EngineUnready, hostVars
  <2>4. QED BY <1>3, <2>2, <2>3 DEF HInv
<1>5. CASE EngineReady(r)
  <2>1. engine' = [engine EXCEPT ![r] = "serving"] /\ engine[r] = "initializing"
    BY <1>5 DEF EngineReady
  <2>2. engine' \in [Runs -> Phases]
    BY <2>1 DEF HInv, TypeOK, Phases
  <2>3. CASE AcceptsReady
    <3>1. /\ state' = "running" /\ started' = TRUE
          /\ ready' = [ready EXCEPT ![run] = @ + 1]
          /\ ready[run] = 0
      BY <1>2, <1>5, <2>3 DEF EngineReady, AcceptsReady, HInv, Tracked
    <3>2. started' \in BOOLEAN
      BY <3>1, Zenon
    <3>3. ready' \in [Runs -> 0..1] /\ ready'[run] = 1
      <4>1. ready \in [Runs -> 0..1]
        BY DEF HInv, TypeOK
      <4>2. QED BY <1>2, <3>1, <4>1
    <3>4. TypeOK'
      BY <1>5, <2>2, <3>1, <3>2, <3>3 DEF HInv, TypeOK, EngineReady, callerVars
    <3>5. OneEngine' /\ DoneReturned'
      BY <1>1, <1>2, <1>5, <2>1, <3>1
      DEF HInv, TypeOK, OneEngine, Live, DoneReturned, EngineReady
    <3>6. Tracked'
      BY <1>2, <1>3, <2>1, <3>1, <3>3 DEF HInv, TypeOK, Tracked
    <3>7. QED BY <1>3, <3>4, <3>5, <3>6 DEF HInv
  <2>4. CASE ~ AcceptsReady
    <3>1. UNCHANGED <<state, started, ready>>
      BY <1>5, <2>4 DEF EngineReady
    <3>2. TypeOK'
      BY <1>5, <2>2, <3>1 DEF HInv, TypeOK, EngineReady, callerVars
    <3>3. OneEngine' /\ Tracked' /\ DoneReturned'
      BY <1>1, <1>2, <1>5, <2>1, <3>1
      DEF HInv, TypeOK, OneEngine, Live, Tracked, DoneReturned, EngineReady
    <3>4. QED BY <1>3, <3>2, <3>3 DEF HInv
  <2>5. QED BY <2>3, <2>4
<1>6. CASE EngineReturns(r)
  <2>1. PICK outcome \in {"finished", "failed"} :
          engine' = [engine EXCEPT ![r] = outcome]
    BY <1>6 DEF EngineReturns
  <2>2. engine[r] = "serving"
    BY <1>6 DEF EngineReturns
  <2>3. TypeOK'
    BY <1>6, <2>1 DEF HInv, TypeOK, EngineReturns, Phases, hostVars, callerVars
  <2>4. OneEngine' /\ Tracked' /\ DoneReturned'
    BY <1>1, <1>2, <1>6, <2>1, <2>2
    DEF HInv, TypeOK, OneEngine, Live, Tracked, DoneReturned, EngineReturns, hostVars
  <2>5. QED BY <1>3, <2>3, <2>4 DEF HInv
<1>7. CASE EngineEnds(r)
  <2>1. TypeOK'
    <3>1. started' \in BOOLEAN /\ runErr' \in BOOLEAN
      BY <1>7, Zenon DEF EngineEnds, Failed
    <3>2. ready' \in [Runs -> 0..1]
      <4>1. ready \in [Runs -> 0..1] /\ (~ started => ready[run] = 0)
        BY <1>2 DEF HInv, TypeOK, Tracked
      <4>2. QED BY <1>2, <1>7, <4>1 DEF EngineEnds, ClosesStartDone
    <3>3. lastError' \in {"none", "configuration", "engine", "timeout"}
      BY <1>7 DEF HInv, TypeOK, EngineEnds
    <3>4. QED BY <1>2, <1>7, <3>1, <3>2, <3>3 DEF HInv, TypeOK, EngineEnds, callerVars
  <2>2. OneEngine' /\ Tracked' /\ DoneReturned'
    BY <1>2, <1>7
    DEF HInv, TypeOK, OneEngine, Live, Tracked, DoneReturned, EngineEnds
  <2>3. QED BY <1>3, <2>1, <2>2 DEF HInv
<1>8. QED BY <1>4, <1>5, <1>6, <1>7 DEF Engine

LEMMA HostNextKeeps == HInv /\ [Next]_vars => HInv'
<1> SUFFICES ASSUME HInv, [Next]_vars PROVE HInv'
  OBVIOUS
<1>1. CASE UNCHANGED vars
  BY <1>1 DEF HInv, TypeOK, OneEngine, Live, Tracked, DoneReturned, WaitsForRun,
              vars, hostVars, runVars, callerVars
<1>2. ASSUME NEW c \in Callers, Call(c) PROVE HInv'
  <2>1. CASE StartLaunches(c)
    BY <2>1, LaunchKeeps
  <2>2. CASE StopBegins(c)
    BY <2>2, StopKeeps
  <2>3. CASE ~ StartLaunches(c) /\ ~ StopBegins(c)
    BY <1>2, <2>3, CallWaits, WaitsKeep DEF Call
  <2>4. QED BY <2>1, <2>2, <2>3
<1>3. ASSUME NEW r \in Runs, Engine(r) PROVE HInv'
  BY <1>3, EngineKeeps
<1>4. QED BY <1>1, <1>2, <1>3 DEF Next

-----------------------------------------------------------------------------

\* The inductive invariant holds in every reachable state.
THEOREM HostInvariance == Spec => []HInv
BY InitHolds, HostNextKeeps, PTL DEF Spec

\* Every variable keeps its type, and startDone of a run is closed at most once.
THEOREM HostTypeCorrect == Spec => []TypeOK
BY HostInvariance, PTL DEF HInv

\* At most one engine lives, and it is the host's, for any number of callers.
THEOREM AtMostOneEngine == Spec => []OneEngine
BY HostInvariance, PTL DEF HInv

\* A Start that succeeds returns with a listener that is there.
THEOREM StartedListens == Spec => StartedMeansListening
<1>1. HInv => \A c \in Callers :
                StartSucceeds(c) => engine[run] \in {"serving", "finished", "failed"}
  BY DEF HInv, Tracked, StartSucceeds
<1>2. QED BY <1>1, HostInvariance, PTL DEF StartedMeansListening

\* What Stop and the process that is about to exit rely on: a Stop that returns,
\* with an error or without, leaves an engine that has returned, listener and
\* database closed (Host.Stop, Host.run).
StoppedMeansReturned ==
  [][\A c \in Callers : StopReturns(c) => engine[at[c]] \in Returned]_vars

\* Stop never returns before the engine it waited for has, although another run
\* may have been launched since and the host's state be the new run's.
THEOREM StoppedHasReturned == Spec => StoppedMeansReturned
<1>1. HInv => \A c \in Callers : StopReturns(c) => engine[at[c]] \in Returned
  BY DEF HInv, DoneReturned, StopReturns
<1>2. QED BY <1>1, HostInvariance, PTL DEF StoppedMeansReturned
=============================================================================
