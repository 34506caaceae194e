---------------------------- MODULE SettingsProofs ----------------------------
(***************************************************************************)
(* Theorems about Settings for any clients, values and passwords.          *)
(*                                                                         *)
(* The properties speak of moments at which nobody writes; the inductive   *)
(* invariant Progress says, for every position of the writer, which values *)
(* are the new ones already.                                               *)
(***************************************************************************)
EXTENDS Settings, TLAPS

\* Where a writer is when the record and each section are the new ones.
Past(s) ==
  CASE s = "disk"      -> {"scheduler", "policy", "proxy", "commit"}
    [] s = "scheduler" -> {"policy", "proxy", "commit"}
    [] s = "policy"    -> {"proxy", "commit"}
    [] s = "proxy"     -> {"commit"}

Current(s) == IF owner # Free /\ pc[owner] \in Past(s) THEN input[owner] ELSE settings

Progress ==
  /\ up => /\ transport = [settings |-> proxy, password |-> password]
           /\ disk = Current("disk")
           /\ proxy = Current("proxy")["proxy"]
           /\ ~closed => /\ applied["scheduler"] = Current("scheduler")["scheduler"]
                         /\ applied["policy"] = Current("policy")["policy"]
  /\ answered # NoSettings => disk = answered

Inv == TypeOK /\ Progress

-----------------------------------------------------------------------------
(* What validation and loading return.                                     *)

\* Accepted settings are complete.
LEMMA GrantedComplete == ASSUME NEW m \in Granted PROVE m \in Complete
<1>1. PICK a \in Asked : Valid(a) /\ m = Normal(a)
  BY DEF Granted
<1>2. \A s \in Sections : m[s] \in Accepted[s]
  BY <1>1 DEF Valid
<1>3. m \in [Sections -> Values]
  <2>1. m = [s \in Sections |-> m[s]]
    BY <1>1 DEF Normal
  <2>2. \A s \in Sections : m[s] \in Values
    BY <1>2 DEF Values
  <2> QED BY <2>1, <2>2
<1> QED BY <1>2, <1>3 DEF Complete, Asked

LEMMA DefaultComplete == Default \in Complete
<1>1. \A s \in Sections : Default[s] \in Accepted[s]
  BY SettingsAssumption
<1>2. Default \in [Sections -> Values]
  <2>1. Default = [s \in Sections |-> Default[s]]
    BY SettingsAssumption
  <2>2. \A s \in Sections : Default[s] \in Values
    BY <1>1 DEF Values
  <2> QED BY <2>1, <2>2
<1> QED BY <1>1, <1>2 DEF Complete, Asked

\* Loading returns complete settings, and complete settings whose directory
\* exists as they are.
LEMMA LoadedComplete ==
  ASSUME NEW m \in Stored, NEW exists \in BOOLEAN
  PROVE  /\ Loaded(m, exists) \in Complete
         /\ m \in Complete /\ exists => Loaded(m, exists) = m
<1>1. ASSUME Valid(Migrated(m)) PROVE Migrated(m) \in Complete
  <2>1. \A s \in Sections : Normal(Migrated(m))[s] \in Accepted[s]
    BY <1>1 DEF Valid
  <2>2. \A s \in Sections : Migrated(m)[s] \in Accepted[s]
    <3> TAKE s \in Sections
    <3>1. CASE s = "directory"
      BY <2>1, <3>1 DEF Normal, Migrated
    <3>2. CASE s # "directory" /\ m[s] = Zero
      BY <3>2, SettingsAssumption DEF Migrated
    <3>3. CASE s # "directory" /\ m[s] # Zero
      BY <2>1, <3>3 DEF Normal, Migrated
    <3> QED BY <3>1, <3>2, <3>3
  <2>3. Migrated(m) \in [Sections -> Values]
    <3>1. \A s \in Sections : Migrated(m)[s] \in Values
      BY <2>2 DEF Values
    <3> QED BY <3>1 DEF Migrated
  <2> QED BY <2>2, <2>3 DEF Complete, Asked
<1>2. ASSUME m \in Complete PROVE Migrated(m) = m /\ Valid(m)
  <2>1. m \in [Sections -> Values] /\ \A s \in Sections : m[s] \in Accepted[s] /\ m[s] # Zero
    BY <1>2, SettingsAssumption DEF Complete, Asked
  <2>2. Migrated(m) = m
    BY <2>1 DEF Migrated
  <2>3. Valid(m)
    BY <2>1 DEF Valid, Normal
  <2> QED BY <2>2, <2>3
<1> QED BY <1>1, <1>2, DefaultComplete DEF Loaded

LEMMA CompleteIsStored == Complete \subseteq Stored
BY SettingsAssumption DEF Complete, Stored

-----------------------------------------------------------------------------
(* The mutex and the values in it.                                         *)

LEMMA InitInv == ASSUME Init PROVE Inv
<1>1. disk \in Stored
  <2>1. \A s \in Sections : Zero \in Values /\ Zero \in Accepted[s] \cup {Zero}
    BY DEF Values
  <2> QED BY <2>1, DefaultComplete DEF Init, Stored, Asked, Complete
<1>2. TypeOK
  BY <1>1, DefaultComplete, SettingsAssumption DEF Init, TypeOK, Free
<1> QED BY <1>2 DEF Init, Inv, Progress

\* The steps of a PUT that leave the mutex alone.
LEMMA SubmitInv == ASSUME Inv, NEW c \in Clients, Submit(c) PROVE Inv'
<1>1. PICK m \in Granted : input' = [input EXCEPT ![c] = m]
  BY DEF Submit
<1>2. m \in Complete
  BY GrantedComplete
<1>3. TypeOK'
  BY <1>1, <1>2 DEF Inv, TypeOK, Submit, Go, runtime, Free
<1> QED BY <1>3 DEF Inv, Submit, Go, runtime, Progress, Current, Past

LEMMA LockInv == ASSUME Inv, NEW c \in Clients, Lock(c) PROVE Inv'
<1>1. TypeOK'
  BY SettingsAssumption DEF Inv, TypeOK, Lock, Go, runtime, Free
<1> QED BY <1>1, SettingsAssumption DEF Inv, TypeOK, Lock, Go, runtime, Free, Progress, Current, Past

LEMMA SaveInv == ASSUME Inv, NEW c \in Clients, Save(c) PROVE Inv'
<1>1. TypeOK'
  BY SettingsAssumption, CompleteIsStored DEF Inv, TypeOK, Save, Holds, Go, runtime, Free
<1> QED BY <1>1, SettingsAssumption DEF Inv, TypeOK, Save, Holds, Go, runtime, Free, Progress, Current, Past

LEMMA SaveFailsInv == ASSUME Inv, NEW c \in Clients, SaveFails(c) PROVE Inv'
<1>1. TypeOK'
  BY SettingsAssumption DEF Inv, TypeOK, SaveFails, Forget, Holds, Go, runtime, Free
<1> QED BY <1>1, SettingsAssumption DEF Inv, TypeOK, SaveFails, Forget, Holds, Go, runtime, Free, Progress, Current, Past

\* One section of complete settings replaced by that of others.
LEMMA MixComplete ==
  ASSUME NEW a \in Complete, NEW b \in Complete, NEW s \in Sections
  PROVE  /\ [a EXCEPT ![s] = b[s]] \in Complete
         /\ \A r \in Sections : [a EXCEPT ![s] = b[s]][r] = IF r = s THEN b[s] ELSE a[r]
BY DEF Complete, Asked

LEMMA SchedulerInv == ASSUME Inv, NEW c \in Clients, ApplySchedulerSettings(c) PROVE Inv'
<1>1. applied \in Complete /\ input[c] \in Complete /\ "scheduler" \in Sections /\ "policy" \in Sections
  BY DEF Inv, TypeOK, ApplySchedulerSettings, Holds, Sections
<1> DEFINE mixed == [applied EXCEPT !["scheduler"] = input[c]["scheduler"]]
<1>a. mixed \in Complete
  BY <1>1, MixComplete
<1>b. mixed["scheduler"] = input[c]["scheduler"] /\ mixed["policy"] = applied["policy"]
  BY <1>1 DEF Complete, Asked
<1>c. applied' = IF closed THEN applied ELSE mixed
  BY DEF ApplySchedulerSettings
<1> HIDE DEF mixed
<1>2. applied' \in Complete /\ applied'["policy"] = applied["policy"]
      /\ (~closed => applied'["scheduler"] = input[c]["scheduler"])
  BY <1>1, <1>a, <1>b, <1>c
<1>3. TypeOK'
  BY <1>2, SettingsAssumption DEF Inv, TypeOK, ApplySchedulerSettings, Holds, Go, Free
<1> QED BY <1>2, <1>3, SettingsAssumption DEF Inv, TypeOK, ApplySchedulerSettings, Holds, Go, Free, Progress, Current, Past

LEMMA PolicyInv == ASSUME Inv, NEW c \in Clients, ApplyFileConflictPolicy(c) PROVE Inv'
<1>1. applied \in Complete /\ input[c] \in Complete /\ "scheduler" \in Sections /\ "policy" \in Sections
  BY DEF Inv, TypeOK, ApplyFileConflictPolicy, Holds, Sections
<1> DEFINE mixed == [applied EXCEPT !["policy"] = input[c]["policy"]]
<1>a. mixed \in Complete
  BY <1>1, MixComplete
<1>b. mixed["policy"] = input[c]["policy"] /\ mixed["scheduler"] = applied["scheduler"]
  BY <1>1 DEF Complete, Asked
<1>c. applied' = IF closed THEN applied ELSE mixed
  BY DEF ApplyFileConflictPolicy
<1> HIDE DEF mixed
<1>2. applied' \in Complete /\ applied'["scheduler"] = applied["scheduler"]
      /\ (~closed => applied'["policy"] = input[c]["policy"])
  BY <1>1, <1>a, <1>b, <1>c
<1>3. TypeOK'
  BY <1>2, SettingsAssumption DEF Inv, TypeOK, ApplyFileConflictPolicy, Holds, Go, Free
<1> QED BY <1>2, <1>3, SettingsAssumption DEF Inv, TypeOK, ApplyFileConflictPolicy, Holds, Go, Free, Progress, Current, Past

LEMMA ProxyInv == ASSUME Inv, NEW c \in Clients, ApplySettings(c) PROVE Inv'
<1>1. input[c]["proxy"] \in Accepted["proxy"]
  BY DEF Inv, TypeOK, ApplySettings, Holds, Complete, Sections
<1>2. TypeOK'
  BY <1>1, SettingsAssumption DEF Inv, TypeOK, ApplySettings, Rebuild, Holds, Go, Free
<1> QED BY <1>2, SettingsAssumption DEF Inv, TypeOK, ApplySettings, Rebuild, Holds, Go, Free, Progress, Current, Past

LEMMA CommitInv == ASSUME Inv, NEW c \in Clients, Commit(c) PROVE Inv'
<1>1. TypeOK'
  BY SettingsAssumption DEF Inv, TypeOK, Commit, Forget, Holds, Go, runtime, Free
<1> QED BY <1>1, SettingsAssumption DEF Inv, TypeOK, Commit, Forget, Holds, Go, runtime, Free, Progress, Current, Past

-----------------------------------------------------------------------------
(* The engine's life.                                                      *)

LEMMA LoadFacts ==
  ASSUME Inv, NEW exists \in BOOLEAN, Load(exists)
  PROVE  /\ disk' \in Complete /\ disk' \in Stored
         /\ answered' \in Complete \cup {NoSettings}
         /\ answered' # NoSettings => disk' = answered'
<1>1. disk' \in Complete /\ (disk \in Complete /\ exists => disk' = disk)
  BY LoadedComplete DEF Inv, TypeOK, Load
<1> QED BY <1>1, CompleteIsStored DEF Inv, TypeOK, Progress, Load

LEMMA BootInv == ASSUME Inv, Boot PROVE Inv'
<1>1. PICK exists \in BOOLEAN : Load(exists)
  BY DEF Boot
<1>2. disk'["proxy"] \in Accepted["proxy"] /\ owner = Free
  BY <1>1, LoadFacts DEF Complete, Sections, Inv, TypeOK, Load, Free
<1>3. TypeOK'
  BY <1>1, <1>2, LoadFacts DEF Inv, TypeOK, Boot, Load, Rebuild, putVars, Free
<1> QED BY <1>1, <1>2, <1>3, LoadFacts DEF Inv, Progress, Current, Boot, Load, Rebuild, putVars, Free

LEMMA BootDiesInv == ASSUME Inv, BootDies PROVE Inv'
<1>1. PICK exists \in BOOLEAN : Load(exists)
  BY DEF BootDies
<1>2. TypeOK'
  BY <1>1, LoadFacts DEF Inv, TypeOK, BootDies, Load, putVars, runtime, Free
<1> QED BY <1>1, <1>2, LoadFacts DEF Inv, Progress, BootDies, Load

LEMMA CrashInv == ASSUME Inv, Crash PROVE Inv'
<1>1. TypeOK'
  BY SettingsAssumption, DefaultComplete DEF Inv, TypeOK, Crash, Rebuild, Free
<1> QED BY <1>1 DEF Inv, Progress, Crash

LEMMA OtherInv == ASSUME Inv, SetPassword \/ CloseManager PROVE Inv'
<1>1. TypeOK'
  BY DEF Inv, TypeOK, SetPassword, CloseManager, Rebuild, putVars, Free
<1> QED BY <1>1 DEF Inv, Progress, SetPassword, CloseManager, Rebuild, putVars, Current, Past

LEMMA StepInv == ASSUME Inv, [Next]_vars PROVE Inv'
<1>1. CASE \E c \in Clients : Put(c)
  BY <1>1, SubmitInv, LockInv, SaveInv, SaveFailsInv, SchedulerInv, PolicyInv, ProxyInv, CommitInv DEF Put
<1>2. CASE SetPassword \/ CloseManager
  BY <1>2, OtherInv
<1>3. CASE Boot \/ BootDies \/ Crash
  BY <1>3, BootInv, BootDiesInv, CrashInv
<1>4. CASE UNCHANGED vars
  BY <1>4 DEF vars, runtime, putVars, Inv, TypeOK, Progress, Current, Past
<1> QED BY <1>1, <1>2, <1>3, <1>4 DEF Next

-----------------------------------------------------------------------------
(* Theorems.                                                               *)

LEMMA AlwaysInv == Spec => []Inv
BY InitInv, StepInv, PTL DEF Spec

\* One PUT at a time writes, and only complete settings are saved, read or run with.
THEOREM SettingsTypeCorrect == Spec => []TypeOK
<1>1. Inv => TypeOK
  BY DEF Inv
<1> QED BY <1>1, AlwaysInv, PTL

\* Between PUTs the record, the readers, the scheduler, the policy and the
\* transport agree, after any failures, crashes and migrations.
THEOREM SettingsRuntimeFollows == Spec => []RuntimeFollowsSettings
<1>1. Inv => RuntimeFollowsSettings
  BY DEF Inv, Progress, Current, RuntimeFollowsSettings
<1> QED BY <1>1, AlwaysInv, PTL

\* Nothing runs with values that are neither what readers see nor saved.
THEOREM SettingsSavedFirst == Spec => []SavedBeforeApplied
<1>1. Inv => SavedBeforeApplied
  BY DEF Inv, Progress, Current, Past, SavedBeforeApplied
<1> QED BY <1>1, AlwaysInv, PTL

\* The settings of an answered PUT stay stored until a later PUT saves others or
\* their directory is gone at a restart.
THEOREM SettingsAnswerDurable == Spec => []AnswerIsDurable
<1>1. Inv => AnswerIsDurable
  BY DEF Inv, Progress, AnswerIsDurable
<1> QED BY <1>1, AlwaysInv, PTL
=============================================================================
