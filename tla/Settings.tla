------------------------------- MODULE Settings -------------------------------
(***************************************************************************)
(* The engine's settings: the PUT handler (httpapi/settings.go), the       *)
(* SettingsManager (download/settings.go), the stored record               *)
(* (repository/bolt_task_store.go) and what runs with the values: the      *)
(* download manager and the proxy's transport (protocol/http/proxy.go).    *)
(*                                                                         *)
(* A PUT reads the current settings, fills in what the request leaves out  *)
(* and validates, all outside SettingsManager.mu; under mu it saves,       *)
(* applies the sections one after the other, and replaces the settings     *)
(* that readers see.  A value is a member of Accepted[s], Zero (what a     *)
(* record or a request without the section holds) or Bad (refused).        *)
(***************************************************************************)
EXTENDS Naturals, FiniteSets

CONSTANTS
  Clients,     \* concurrent PUT /api/v1/settings
  Accepted,    \* for each section, the values its validation accepts
  Default,     \* the settings of a first start
  Omittable,   \* sections a request may leave out (bound)
  Passwords,   \* proxy passwords
  NoPassword,
  Zero, Bad, NoSettings

Sections == {"directory", "policy", "scheduler", "proxy", "bt"}

ASSUME SettingsAssumption ==
  /\ Default \in [Sections -> UNION {Accepted[s] : s \in Sections}]
  /\ \A s \in Sections : Default[s] \in Accepted[s]
  /\ \A s \in Sections : {Zero, Bad} \cap Accepted[s] = {}
  /\ Omittable \subseteq Sections \ {"directory"}
  /\ NoPassword \notin Passwords /\ "nobody" \notin Clients

VARIABLES
  disk,      \* the stored record; its directory is Zero when there is none
  up,        \* the engine has started
  settings,  \* SettingsManager.settings
  owner,     \* who holds SettingsManager.mu for writing
  applied,   \* the scheduler's and the policy's values in the download manager
  closed,    \* Manager.closed
  proxy,     \* ProxyRuntime.settings
  password,  \* ProxyRuntime.password
  transport, \* what the current transport was built from
  pc,        \* what a PUT does next
  input,     \* its merged and validated settings
  left,      \* the sections its request left out (history)
  answered   \* the last acknowledged settings nobody has replaced (history)

runtime == <<applied, closed, proxy, password, transport>>
putVars == <<pc, input, left>>
vars == <<disk, up, settings, owner, runtime, putVars, answered>>

Free == "nobody"

\* Every validation divides the values of its section in three: accepted, zero, and
\* refused.
Values   == (UNION {Accepted[s] : s \in Sections}) \cup {Zero, Bad}
Asked    == {m \in [Sections -> Values] : \A s \in Sections : m[s] \in Accepted[s] \cup {Zero, Bad}}
Stored   == {m \in Asked : \A s \in Sections : m[s] \in Accepted[s] \cup {Zero}}
Complete == {m \in Asked : \A s \in Sections : m[s] \in Accepted[s]}

\* normalizeBTPolicySettings and validateProxySettings turn the zero value into
\* the default; the other validations refuse it.
Normal(m) == [s \in Sections |-> IF s \in {"proxy", "bt"} /\ m[s] = Zero THEN Default[s] ELSE m[s]]

\* validateEngineSettings; that the directory exists is up to the moment.
Valid(m) == \A s \in Sections : Normal(m)[s] \in Accepted[s]

\* What a request and the settings merged with it come to when it is accepted.
Granted == {Normal(m) : m \in {a \in Asked : Valid(a)}}

\* Changed: the defaults win.
OverridingMigrated(m) == [s \in Sections |-> IF s # "directory" THEN Default[s] ELSE m[s]]

\* NewSettingsManager: sections an older version did not store get their default;
\* a record that does not validate is replaced as a whole.
Migrated(m) == [s \in Sections |-> IF s # "directory" /\ m[s] = Zero THEN Default[s] ELSE m[s]]
Loaded(m, exists) == IF exists /\ Valid(Migrated(m)) THEN Migrated(m) ELSE Default

Init ==
  /\ disk \in {[s \in Sections |-> Zero], [Default EXCEPT !["scheduler"] = Zero, !["bt"] = Zero]}
  /\ up = FALSE /\ settings = Default /\ owner = Free
  /\ applied = Default /\ closed = TRUE
  /\ proxy = Zero /\ password = NoPassword
  /\ transport = [settings |-> Zero, password |-> NoPassword]
  /\ pc = [c \in Clients |-> "idle"]
  /\ input = [c \in Clients |-> NoSettings]
  /\ left = [c \in Clients |-> {}]
  /\ answered = NoSettings

-----------------------------------------------------------------------------
(* PUT /api/v1/settings.                                                   *)

Go(c, at) == pc' = [pc EXCEPT ![c] = at]

Holds(c, at) == owner = c /\ pc[c] = at

\* updateSettings and UpdateSettings up to SettingsManager.mu: GetSettings waits
\* for a writer; the request always carries a directory; a refused one ends here.
Submit(c) ==
  /\ up /\ pc[c] = "idle" /\ owner = Free
  /\ \E omitted \in SUBSET Omittable, m \in Granted :
       /\ \A s \in omitted : m[s] = settings[s]
       /\ input' = [input EXCEPT ![c] = m]
       /\ left' = [left EXCEPT ![c] = omitted]
  /\ Go(c, "lock")
  /\ UNCHANGED <<disk, up, settings, owner, runtime, answered>>

\* Changed: a mutex of the client's own.
EagerLock(c) ==
  /\ pc[c] = "lock"
  /\ owner' = c /\ Go(c, "save")
  /\ UNCHANGED <<disk, up, settings, runtime, input, left, answered>>

Lock(c) ==
  /\ pc[c] = "lock" /\ owner = Free
  /\ owner' = c /\ Go(c, "save")
  /\ UNCHANGED <<disk, up, settings, runtime, input, left, answered>>

\* The store has the settings before anything else has.
Save(c) ==
  /\ Holds(c, "save")
  /\ disk' = input[c] /\ answered' = NoSettings
  /\ Go(c, "scheduler")
  /\ UNCHANGED <<up, settings, owner, runtime, input, left>>

Forget(c) ==
  /\ Go(c, "idle")
  /\ input' = [input EXCEPT ![c] = NoSettings]
  /\ left' = [left EXCEPT ![c] = {}]
  /\ owner' = Free

\* Changed: the error of the store is ignored.
BlindSaveFails(c) ==
  /\ Holds(c, "save") /\ Go(c, "scheduler")
  /\ UNCHANGED <<disk, up, settings, owner, runtime, input, left, answered>>

\* Changed: the mutex stays locked on the way out.
JammedSaveFails(c) ==
  /\ Holds(c, "save") /\ Go(c, "idle")
  /\ input' = [input EXCEPT ![c] = NoSettings]
  /\ left' = [left EXCEPT ![c] = {}]
  /\ UNCHANGED <<disk, up, settings, owner, runtime, answered>>

\* The request is canceled, the database refuses, or it is closed.
SaveFails(c) ==
  /\ Holds(c, "save")
  /\ Forget(c)
  /\ UNCHANGED <<disk, up, settings, runtime, answered>>

\* Manager.ApplySchedulerSettings: a closed manager takes no settings.
ApplySchedulerSettings(c) ==
  /\ Holds(c, "scheduler") /\ Go(c, "policy")
  /\ applied' = IF closed THEN applied ELSE [applied EXCEPT !["scheduler"] = input[c]["scheduler"]]
  /\ UNCHANGED <<disk, up, settings, owner, closed, proxy, password, transport, input, left, answered>>

\* Manager.ApplyFileConflictPolicy
ApplyFileConflictPolicy(c) ==
  /\ Holds(c, "policy") /\ Go(c, "proxy")
  /\ applied' = IF closed THEN applied ELSE [applied EXCEPT !["policy"] = input[c]["policy"]]
  /\ UNCHANGED <<disk, up, settings, owner, closed, proxy, password, transport, input, left, answered>>

\* rebuildLocked: a transport of the settings and the password of this moment.
Rebuild(s, w) ==
  /\ proxy' = s /\ password' = w
  /\ transport' = [settings |-> s, password |-> w]

\* Changed: new settings come with a transport without the password.
BareApplySettings(c) ==
  /\ Holds(c, "proxy") /\ Go(c, "commit")
  /\ proxy' = input[c]["proxy"]
  /\ transport' = [settings |-> input[c]["proxy"], password |-> NoPassword]
  /\ UNCHANGED <<disk, up, settings, owner, applied, closed, password, input, left, answered>>

\* ProxyRuntime.ApplySettings
ApplySettings(c) ==
  /\ Holds(c, "proxy") /\ Go(c, "commit")
  /\ Rebuild(input[c]["proxy"], password)
  /\ UNCHANGED <<disk, up, settings, owner, applied, closed, input, left, answered>>

\* Readers see the settings, mu is released and the request is answered.
Commit(c) ==
  /\ Holds(c, "commit")
  /\ settings' = input[c] /\ answered' = input[c]
  /\ Forget(c)
  /\ UNCHANGED <<disk, up, runtime>>

\* PUT /api/v1/settings/proxy/credential: kept in memory only.
SetPassword ==
  /\ up
  /\ \E w \in Passwords \cup {NoPassword} : Rebuild(proxy, w)
  /\ UNCHANGED <<disk, up, settings, owner, applied, closed, putVars, answered>>

-----------------------------------------------------------------------------
(* The engine's life, and the file system around it.                       *)

\* RunWithReady up to its first request: the default directory is created, the
\* settings are loaded and saved again when loading changed them.  A directory
\* that is gone replaces all of them by the default.
Load(exists) ==
  /\ ~up
  /\ disk["directory"] = Default["directory"] => exists
  /\ disk' = Loaded(disk, exists)
  /\ answered' = IF exists THEN answered ELSE NoSettings
  /\ UNCHANGED <<owner, putVars>>

\* What runs is built from the loaded settings; no password is known.
Boot ==
  /\ \E exists \in BOOLEAN : Load(exists)
  /\ up' = TRUE /\ settings' = disk' /\ applied' = disk'
  /\ closed' = FALSE
  /\ Rebuild(disk'["proxy"], NoPassword)

\* The process ends before it serves.
BootDies == (\E exists \in BOOLEAN : Load(exists)) /\ UNCHANGED <<up, settings, runtime>>

\* Manager.Close, when the shutdown does not wait for requests any longer.
CloseManager ==
  /\ up /\ ~closed
  /\ closed' = TRUE
  /\ UNCHANGED <<disk, up, settings, owner, applied, proxy, password, transport, putVars, answered>>

\* The process ends, by itself or killed, wherever its requests are.
Crash ==
  /\ up
  /\ up' = FALSE /\ closed' = TRUE
  /\ settings' = Default /\ applied' = Default
  /\ Rebuild(Zero, NoPassword)
  /\ owner' = Free
  /\ pc' = [c \in Clients |-> "idle"]
  /\ input' = [c \in Clients |-> NoSettings]
  /\ left' = [c \in Clients |-> {}]
  /\ UNCHANGED <<disk, answered>>

Put(c) ==
  \/ Submit(c) \/ Lock(c) \/ Save(c) \/ SaveFails(c)
  \/ ApplySchedulerSettings(c) \/ ApplyFileConflictPolicy(c) \/ ApplySettings(c)
  \/ Commit(c)

Next ==
  \/ \E c \in Clients : Put(c)
  \/ SetPassword
  \/ Boot \/ BootDies \/ CloseManager \/ Crash

Spec == Init /\ [][Next]_vars

\* The scheduler runs every request, and a mutex lets nobody wait for ever.
Fairness == \A c \in Clients :
  /\ SF_vars(Lock(c))
  /\ WF_vars(Save(c) \/ SaveFails(c))
  /\ WF_vars(ApplySchedulerSettings(c)) /\ WF_vars(ApplyFileConflictPolicy(c))
  /\ WF_vars(ApplySettings(c)) /\ WF_vars(Commit(c))

FairSpec == Spec /\ Fairness

-----------------------------------------------------------------------------
(* Properties.                                                             *)

\* Only complete settings are read, saved by a PUT or run with; a writer is past
\* Lock, and nobody else is.
TypeOK ==
  /\ disk \in Stored /\ settings \in Complete /\ applied \in Complete
  /\ up \in BOOLEAN /\ closed \in BOOLEAN
  /\ (up => disk \in Complete) /\ (~up => closed)
  /\ proxy \in Accepted["proxy"] \cup {Zero}
  /\ password \in Passwords \cup {NoPassword}
  /\ answered \in Complete \cup {NoSettings}
  /\ pc \in [Clients -> {"idle", "lock", "save", "scheduler", "policy", "proxy", "commit"}]
  /\ input \in [Clients -> Complete \cup {NoSettings}]
  /\ left \in [Clients -> SUBSET Omittable]
  /\ \A c \in Clients :
       /\ IF pc[c] = "idle" THEN input[c] = NoSettings ELSE up /\ input[c] \in Complete
       /\ pc[c] \notin {"idle", "lock"} <=> owner = c
  /\ owner \in Clients \cup {Free}

\* What runs is what was saved: whenever no PUT is under way the record, the
\* settings readers get, the scheduler and the policy agree, and new connections
\* always use the proxy in force with the password in force (a failed save, a
\* crash and a migration included).
RuntimeFollowsSettings ==
  /\ up => transport = [settings |-> proxy, password |-> password]
  /\ up /\ owner = Free => disk = settings /\ proxy = settings["proxy"]
  /\ up /\ owner = Free /\ ~closed =>
       \A s \in {"scheduler", "policy"} : applied[s] = settings[s]

\* README.md:370: settings are saved before they are applied, and a failed save
\* changes nothing that runs: whatever runs with other values than readers see
\* runs with saved ones.
SavedBeforeApplied ==
  up => /\ \A s \in {"scheduler", "policy"} : applied[s] # settings[s] /\ ~closed => applied[s] = disk[s]
        /\ proxy # settings["proxy"] => proxy = disk["proxy"]

\* The settings a PUT answered with are the stored ones until a later PUT saves
\* others, through crashes, deaths while loading and restarts; a restart forgets
\* them only when their directory does not exist.
AnswerIsDurable == answered # NoSettings => disk = answered

\* Every PUT that waits for or holds the mutex is answered, or the engine ends.
UpdateEnds == \A c \in Clients : pc[c] # "idle" ~> pc[c] = "idle"

\* README.md:332: a section that a PUT leaves out keeps the value it has.
OmittedSectionsKept ==
  [][\A c \in Clients : Commit(c) => \A s \in left[c] : settings'[s] = settings[s]]_vars
=============================================================================
