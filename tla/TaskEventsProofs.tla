---------------------------- MODULE TaskEventsProofs ----------------------------
(***************************************************************************)
(* Proofs about TaskEvents, for any number of tasks and any capacity: a    *)
(* client that has heard everything shows the manager's tasks, and old     *)
(* completions are not announced.                                          *)
(*                                                                         *)
(* The argument follows the newest event of each task that was not missed: *)
(* it is still to be published, or it is the last word on the task in the  *)
(* channel, or on the wire, or the client's list has it already.           *)
(***************************************************************************)
EXTENDS TaskEvents, FiniteSetTheorems, TLAPS

Kinds   == {"none", "waiting", "running", "completed", "removed"}
Records == [rev : Nat, kind : Kinds]
Events  == [task : Tasks, rev : Nat, kind : Kinds \ {"none"}]

(* Types, and where events can be.                                         *)
Typing ==
  /\ task \in [Tasks -> Records]
  /\ due \in [Publishers -> Seq(Events)]
  /\ channel \in Seq(Events) /\ wire \in Seq(Events)
  /\ rows \in [Tasks -> Records]
  /\ answer # NoAnswer => DOMAIN answer \subseteq Tasks
  /\ awaited \in Tasks \cup {NoTask}
  /\ stream \in {"off", "subscribed", "live"} /\ registered \in BOOLEAN
  /\ stream # "live" => wire = <<>>
  /\ stream = "off" => channel = <<>> /\ ~ registered

(* A word about t at revision r: older than the task, or just what it is.  *)
IsTrue(t, r, k) == r <= task[t].rev /\ (r = task[t].rev => k = task[t].kind)

AllTrue(s) == \A i \in DOMAIN s : IsTrue(s[i].task, s[i].rev, s[i].kind)

Truthful ==
  /\ \A p \in Publishers : AllTrue(due[p])
  /\ AllTrue(channel) /\ AllTrue(wire)
  /\ answer # NoAnswer => \A t \in DOMAIN answer :
       answer[t] \in Records /\ IsTrue(t, answer[t].rev, answer[t].kind)

Has(s, t, r) == \E i \in DOMAIN s : s[i].task = t /\ s[i].rev = r

Silent(s, t) == \A i \in DOMAIN s : s[i].task # t

(* The last event about t in s has revision r.                             *)
Settles(s, t, r) ==
  \E i \in DOMAIN s : s[i].task = t /\ s[i].rev = r /\ \A j \in DOMAIN s : s[j].task = t => j <= i

Shown(t) == IF Exists(t) THEN task[t] ELSE Nothing

(* The list needs no more word of t; a snapshot brings every task that is. *)
AtRest(t) == IF stream = "live" THEN rows[t] = Shown(t) ELSE Exists(t) \/ rows[t] = Nothing

Coming(t) ==
  \/ Unpublished(t)
  \/ Settles(channel, t, task[t].rev)
  \/ Silent(channel, t) /\ Settles(wire, t, task[t].rev)
  \/ Silent(channel, t) /\ Silent(wire, t) /\ AtRest(t)

NothingLost == \A t \in Tasks \ missed : Coming(t)

(* Whatever is said of a task that was complete at the start.              *)
Over(k) == k \in {"completed", "removed"}

AllOver(s) == \A i \in DOMAIN s : s[i].task \in old => Over(s[i].kind)

OldIsOver ==
  /\ old \subseteq Tasks
  /\ \A t \in old : Over(task[t].kind) /\ rows[t].kind \in {"none", "completed"}
  /\ \A p \in Publishers : AllOver(due[p])
  /\ AllOver(channel) /\ AllOver(wire)
  /\ answer # NoAnswer => \A t \in old \cap DOMAIN answer : Over(answer[t].kind)
  /\ HistoryIsQuiet

Inv == Typing /\ Truthful /\ NothingLost /\ OldIsOver

-----------------------------------------------------------------------------
(* Sequences.                                                              *)

LEMMA SetToSeqFacts ==
  ASSUME NEW S, IsFiniteSet(S)
  PROVE  /\ SetToSeq(S) \in Seq(S)
         /\ \A e \in S : \E i \in DOMAIN SetToSeq(S) : SetToSeq(S)[i] = e
         /\ \A i, j \in DOMAIN SetToSeq(S) : SetToSeq(S)[i] = SetToSeq(S)[j] => i = j
<1> DEFINE n == Cardinality(S)
           f == SetToSeq(S)
<1>1. n \in Nat /\ ExistsBijection(1..n, S)
  BY FS_CardinalityType
<1>2. PICK g \in [1..n -> S] : IsInjective(g)
  BY <1>1 DEF ExistsBijection, Bijection, Injection
<1>3. f \in [1..n -> S] /\ IsInjective(f)
  BY <1>2 DEF SetToSeq
<1>4. f \in Injection(1..n, S)
  BY <1>3 DEF Injection
<1>5. Cardinality(1..n) = n
  BY <1>1, FS_Interval
<1>6. f \in Surjection(1..n, S)
  <2> HIDE DEF f
  <2> QED BY <1>4, <1>5, FS_Injection
<1>7. \A e \in S : \E i \in 1..n : f[i] = e
  BY <1>6 DEF Surjection
<1>8. \A i, j \in 1..n : f[i] = f[j] => i = j
  <2> HIDE DEF f
  <2> QED BY <1>3 DEF IsInjective
<1> QED BY <1>1, <1>3, <1>7, <1>8

LEMMA AppendFacts ==
  ASSUME NEW s \in Seq(Events), NEW e \in Events, NEW t, NEW r
  PROVE  /\ Append(s, e) \in Seq(Events)
         /\ e.task = t /\ e.rev = r => Settles(Append(s, e), t, r)
         /\ e.task # t => /\ Settles(s, t, r) => Settles(Append(s, e), t, r)
                          /\ Silent(s, t) => Silent(Append(s, e), t)
<1>1. /\ Append(s, e) \in Seq(Events) /\ Len(s) \in Nat /\ DOMAIN s = 1 .. Len(s)
      /\ DOMAIN Append(s, e) = 1 .. Len(s) + 1 /\ Append(s, e)[Len(s) + 1] = e
      /\ \A i \in DOMAIN s : Append(s, e)[i] = s[i]
  OBVIOUS
<1>2. ASSUME e.task = t, e.rev = r PROVE Settles(Append(s, e), t, r)
  <2>1. Len(s) + 1 \in DOMAIN Append(s, e) /\ \A j \in DOMAIN Append(s, e) : j <= Len(s) + 1
    BY <1>1
  <2> QED BY <1>1, <1>2, <2>1 DEF Settles
<1>3. ASSUME NEW i \in DOMAIN Append(s, e), i \notin DOMAIN s PROVE Append(s, e)[i] = e
  BY <1>1, <1>3
<1>4. DOMAIN s \subseteq DOMAIN Append(s, e)
  BY <1>1
<1>5. ASSUME e.task # t, Settles(s, t, r) PROVE Settles(Append(s, e), t, r)
  BY <1>1, <1>3, <1>4, <1>5 DEF Settles
<1>6. ASSUME e.task # t, Silent(s, t) PROVE Silent(Append(s, e), t)
  BY <1>1, <1>3, <1>6 DEF Silent
<1> QED BY <1>1, <1>2, <1>5, <1>6

LEMMA TailFacts ==
  ASSUME NEW s \in Seq(Events), s # <<>>, NEW t, NEW r
  PROVE  /\ Tail(s) \in Seq(Events) /\ Head(s) \in Events /\ Head(s) = s[1] /\ 1 \in DOMAIN s
         /\ Settles(s, t, r) => \/ Settles(Tail(s), t, r)
                                \/ Head(s).task = t /\ Head(s).rev = r /\ Silent(Tail(s), t)
         /\ Silent(s, t) => Silent(Tail(s), t) /\ Head(s).task # t
         /\ Has(s, t, r) => Has(Tail(s), t, r) \/ (Head(s).task = t /\ Head(s).rev = r)
<1>1. /\ Tail(s) \in Seq(Events) /\ Head(s) \in Events /\ Head(s) = s[1] /\ 1 \in DOMAIN s
      /\ DOMAIN Tail(s) = 1 .. Len(s) - 1 /\ \A i \in DOMAIN Tail(s) : Tail(s)[i] = s[i + 1]
      /\ DOMAIN s = 1 .. Len(s) /\ Len(s) \in Nat
  OBVIOUS
<1>2. ASSUME Settles(s, t, r)
      PROVE  Settles(Tail(s), t, r) \/ (Head(s).task = t /\ Head(s).rev = r /\ Silent(Tail(s), t))
  <2>1. PICK i \in DOMAIN s : s[i].task = t /\ s[i].rev = r /\ \A j \in DOMAIN s : s[j].task = t => j <= i
    BY <1>2 DEF Settles
  <2>2. CASE i = 1
    BY <1>1, <2>1, <2>2 DEF Silent
  <2>3. CASE i # 1
    <3>1. i - 1 \in DOMAIN Tail(s) /\ Tail(s)[i - 1] = s[i]
      BY <1>1, <2>3
    <3>2. \A j \in DOMAIN Tail(s) : Tail(s)[j].task = t => j <= i - 1
      BY <1>1, <2>1
    <3> QED BY <2>1, <3>1, <3>2 DEF Settles
  <2> QED BY <2>2, <2>3
<1>3. ASSUME Has(s, t, r) PROVE Has(Tail(s), t, r) \/ (Head(s).task = t /\ Head(s).rev = r)
  <2>1. PICK i \in DOMAIN s : s[i].task = t /\ s[i].rev = r
    BY <1>3 DEF Has
  <2>2. CASE i = 1
    BY <1>1, <2>1, <2>2
  <2>3. CASE i # 1
    <3>1. i - 1 \in DOMAIN Tail(s) /\ Tail(s)[i - 1] = s[i]
      BY <1>1, <2>3
    <3> QED BY <2>1, <3>1 DEF Has
  <2> QED BY <2>2, <2>3
<1> QED BY <1>1, <1>2, <1>3 DEF Silent

\* What every event of a sequence has, its tail has.
LEMMA TailKeeps ==
  ASSUME NEW s \in Seq(Events), s # <<>>
  PROVE  \A i \in DOMAIN Tail(s) : \E j \in DOMAIN s : Tail(s)[i] = s[j]
<1>1. \A i \in DOMAIN Tail(s) : i + 1 \in DOMAIN s /\ Tail(s)[i] = s[i + 1]
  OBVIOUS
<1> QED BY <1>1

\* What every event of a sequence and one more have, the longer sequence has.
LEMMA AppendKeeps ==
  ASSUME NEW s \in Seq(Events), NEW e
  PROVE  \A i \in DOMAIN Append(s, e) : Append(s, e)[i] = e \/ \E j \in DOMAIN s : Append(s, e)[i] = s[j]
<1>1. \A i \in DOMAIN Append(s, e) : i \in DOMAIN s \/ i = Len(s) + 1
  OBVIOUS
<1>2. \A i \in DOMAIN s : Append(s, e)[i] = s[i]
  OBVIOUS
<1>3. Append(s, e)[Len(s) + 1] = e
  OBVIOUS
<1> QED BY <1>1, <1>2, <1>3

LEMMA ConcatFacts ==
  ASSUME NEW s \in Seq(Events), NEW w \in Seq(Events), NEW t, NEW r
  PROVE  Has(s \o w, t, r) <=> Has(s, t, r) \/ Has(w, t, r)
<1>1. /\ DOMAIN (s \o w) = 1 .. Len(s) + Len(w) /\ DOMAIN s = 1 .. Len(s) /\ DOMAIN w = 1 .. Len(w)
      /\ Len(s) \in Nat /\ Len(w) \in Nat
      /\ \A i \in DOMAIN s : (s \o w)[i] = s[i]
      /\ \A i \in DOMAIN w : (s \o w)[Len(s) + i] = w[i]
  OBVIOUS
<1>2. ASSUME NEW i \in DOMAIN (s \o w), i \notin DOMAIN s
      PROVE  i - Len(s) \in DOMAIN w /\ (s \o w)[i] = w[i - Len(s)]
  <2>1. i - Len(s) \in DOMAIN w
    BY <1>1, <1>2
  <2> QED BY <1>1, <2>1
<1>3. \A i \in DOMAIN s : i \in DOMAIN (s \o w)
  BY <1>1
<1>4. \A i \in DOMAIN w : Len(s) + i \in DOMAIN (s \o w)
  BY <1>1
<1> QED BY <1>1, <1>2, <1>3, <1>4 DEF Has

LEMMA CarriesHas ==
  ASSUME NEW s, NEW t PROVE Carries(s, t) <=> Has(s, t, task[t].rev)
BY DEF Carries, Newest, Has

-----------------------------------------------------------------------------
(* Steps of the manager.                                                   *)

LEMMA InitInv == ASSUME Init PROVE Inv
<1> USE EventsAssumption
<1>1. Typing
  <2>1. task \in [Tasks -> Records] /\ rows \in [Tasks -> Records]
    BY DEF Init, Records, Kinds, Nothing
  <2>2. \A p \in Publishers : <<>> \in Seq(Events)
    OBVIOUS
  <2>3. due \in [Publishers -> Seq(Events)] /\ channel \in Seq(Events) /\ wire \in Seq(Events)
    BY <2>2 DEF Init
  <2> QED BY <2>1, <2>3 DEF Init, Typing
<1>2. Truthful
  BY DEF Init, Truthful, AllTrue
<1>3. NothingLost
  BY DEF Init, NothingLost, Coming, Silent, AtRest
<1>4. OldIsOver
  BY DEF Init, OldIsOver, AllOver, Over, HistoryIsQuiet, Nothing
<1> QED BY <1>1, <1>2, <1>3, <1>4 DEF Inv

(* What a critical section leaves.                                         *)
Section(p, S) ==
  /\ due[p] = <<>>
  /\ task' \in [Tasks -> Records]
  /\ \A t \in S : task'[t].rev = task[t].rev + 1 /\ task'[t].kind # "none"
  /\ \A t \in Tasks \ S : task'[t] = task[t]
  /\ due' \in [Publishers -> Seq(Events)]
  /\ \A q \in Publishers \ {p} : due'[q] = due[q]
  /\ \A t \in S : Has(due'[p], t, task'[t].rev)
  /\ \A i \in DOMAIN due'[p] :
       LET e == due'[p][i]
       IN e.task \in S /\ e.rev = task'[e.task].rev /\ e.kind = task'[e.task].kind

(* A completed task can only be removed, and a removed one not be changed. *)
Lawful(S) ==
  \A t \in S : task[t].kind # "removed" /\ (task[t].kind = "completed" => task'[t].kind = "removed")

LEMMA ChangesSection ==
  ASSUME Typing, NEW p \in Publishers, NEW first \in Tasks, NEW changes,
         DOMAIN changes \subseteq Tasks, first \in DOMAIN changes,
         \A t \in DOMAIN changes : changes[t] \in Kinds \ {"none"},
         Changes(p, first, changes)
  PROVE  /\ Section(p, DOMAIN changes)
         /\ \A t \in DOMAIN changes : task'[t].kind = changes[t]
<1> DEFINE S == DOMAIN changes
           after == [t \in Tasks |-> IF t \in S
                                     THEN [rev |-> task[t].rev + 1, kind |-> changes[t]] ELSE task[t]]
           E == {Event(t, after[t]) : t \in S \ {first}}
           d == <<Event(first, after[first])>> \o SetToSeq(E)
<1>1. due[p] = <<>> /\ task' = after /\ due' = [due EXCEPT ![p] = d]
  BY DEF Changes
<1>2. after \in [Tasks -> Records] /\ \A t \in S : after[t] = [rev |-> task[t].rev + 1, kind |-> changes[t]]
  <2>1. \A t \in Tasks : after[t] \in Records
    BY DEF Typing, Records
  <2> QED BY <2>1
<1>3. \A t \in S : Event(t, after[t]) \in Events
  <2>1. ASSUME NEW t \in S PROVE t \in Tasks /\ after[t].rev \in Nat /\ after[t].kind \in Kinds \ {"none"}
    <3>1. after[t] \in Records /\ after[t] = [rev |-> task[t].rev + 1, kind |-> changes[t]] /\ t \in Tasks
      BY <1>2
    <3>2. changes[t] \in Kinds \ {"none"}
      OBVIOUS
    <3> HIDE DEF after, S
    <3>3. after[t].rev \in Nat /\ after[t].kind = changes[t]
      BY <3>1 DEF Records
    <3> QED BY <3>1, <3>2, <3>3
  <2> HIDE DEF after, S
  <2> QED BY <2>1 DEF Event, Events
<1>4. IsFiniteSet(E)
  <2>1. IsFiniteSet(S \ {first})
    BY EventsAssumption, FS_Subset
  <2>2. IsFiniteSet({Event(t, after[t]) : t \in S \ {first}})
    <3> HIDE DEF after, S
    <3> DEFINE g == [t \in S \ {first} |-> Event(t, after[t])]
    <3>1. g \in Surjection(S \ {first}, E)
      BY DEF Surjection
    <3> QED BY <2>1, <3>1, FS_Surjection
  <2> QED BY <2>2
<1>5. SetToSeq(E) \in Seq(E) /\ \A e \in E : \E i \in DOMAIN SetToSeq(E) : SetToSeq(E)[i] = e
  BY <1>4, SetToSeqFacts
<1>6. E \subseteq Events
  BY <1>3
<1> DEFINE w == SetToSeq(E)
           one == <<Event(first, after[first])>>
<1>7. w \in Seq(Events) /\ \A i \in DOMAIN w : w[i] \in E
  <2> HIDE DEF w, E
  <2>1. w \in Seq(E)
    BY <1>5 DEF w
  <2>2. \A i \in 1 .. Len(w) : w[i] \in E
    BY <2>1
  <2>3. w \in [1 .. Len(w) -> Events] /\ Len(w) \in Nat
    BY <1>6, <2>1
  <2> QED BY <2>1, <2>2, <2>3
<1>8. one \in Seq(Events) /\ d = one \o w
  <2>1. Event(first, after[first]) \in Events
    BY <1>3
  <2> HIDE DEF after
  <2> QED BY <2>1
<1>9. /\ d \in Seq(Events) /\ DOMAIN d = 1 .. 1 + Len(w) /\ d[1] = Event(first, after[first])
      /\ \A i \in DOMAIN d : i # 1 => i - 1 \in DOMAIN w /\ d[i] = w[i - 1]
      /\ \A i \in DOMAIN w : i + 1 \in DOMAIN d /\ d[i + 1] = w[i]
  <2> HIDE DEF w, after, E
  <2>1. one = <<Event(first, after[first])>> /\ one \in Seq(Events) /\ w \in Seq(Events) /\ d = one \o w
    BY <1>7, <1>8
  <2> HIDE DEF d
  <2>2. Len(one) = 1 /\ one[1] = Event(first, after[first])
    BY <2>1
  <2> HIDE DEF one
  <2> QED BY <2>1, <2>2
<1>10. ASSUME NEW i \in DOMAIN d PROVE \E t \in S : d[i] = Event(t, after[t])
  BY <1>7, <1>9
<1>11. ASSUME NEW t \in S PROVE \E i \in DOMAIN d : d[i] = Event(t, after[t])
  <2>1. CASE t = first
    BY <1>9, <2>1
  <2>2. CASE t # first
    <3>1. Event(t, after[t]) \in E
      BY <2>2
    <3>2. PICK i \in DOMAIN w : w[i] = Event(t, after[t])
      BY <1>5, <3>1
    <3>3. \A j \in DOMAIN w : j + 1 \in DOMAIN d /\ d[j + 1] = w[j]
      BY <1>9
    <3> HIDE DEF d, w, after
    <3>4. i + 1 \in DOMAIN d /\ d[i + 1] = Event(t, after[t])
      BY <3>2, <3>3
    <3> QED BY <3>4
  <2> QED BY <2>1, <2>2
<1>12. due'[p] = d /\ due' \in [Publishers -> Seq(Events)] /\ \A q \in Publishers \ {p} : due'[q] = due[q]
  <2> HIDE DEF d
  <2> QED BY <1>1, <1>9 DEF Typing
<1>13. \A t \in S : Has(d, t, after[t].rev)
  <2> HIDE DEF d, after
  <2> QED BY <1>11 DEF Has, Event
<1>14. \A i \in DOMAIN d : d[i].task \in S /\ d[i].rev = after[d[i].task].rev /\ d[i].kind = after[d[i].task].kind
  <2> HIDE DEF d, after
  <2> QED BY <1>10 DEF Event
<1>15. \A t \in S : after[t].rev = task[t].rev + 1 /\ after[t].kind = changes[t] /\ after[t].kind # "none"
  BY <1>2
<1>16. \A t \in Tasks \ S : after[t] = task[t]
  OBVIOUS
<1> HIDE DEF d, after, E
<1> QED BY <1>1, <1>2, <1>12, <1>13, <1>14, <1>15, <1>16 DEF Section

LEMMA SectionKeeps ==
  ASSUME Inv, NEW p \in Publishers, NEW S \in SUBSET Tasks, Section(p, S), Lawful(S),
         Elsewhere, awaited' \in Tasks \cup {NoTask}
  PROVE  Inv'
<1> USE DEF Elsewhere, streamVars, clientVars, history
<1>0. \A t \in Tasks : task[t].rev \in Nat /\ task'[t].rev \in Nat
  BY DEF Inv, Typing, Section, Records
<1>1. Typing'
  BY DEF Inv, Typing, Section
<1>2. ASSUME NEW t \in Tasks, NEW r \in Nat, NEW k, IsTrue(t, r, k) PROVE IsTrue(t, r, k)'
  BY <1>0, <1>2 DEF IsTrue, Section
<1>3. Truthful'
  <2>1. ASSUME NEW s \in Seq(Events), AllTrue(s) PROVE \A i \in DOMAIN s : IsTrue(s[i].task, s[i].rev, s[i].kind)'
    <3> SUFFICES ASSUME NEW i \in DOMAIN s PROVE IsTrue(s[i].task, s[i].rev, s[i].kind)'
      OBVIOUS
    <3>1. s[i] \in Events
      OBVIOUS
    <3>2. s[i].task \in Tasks /\ s[i].rev \in Nat
      BY <3>1 DEF Events
    <3> QED BY <1>2, <2>1, <3>2 DEF AllTrue
  <2>2. \A q \in Publishers \ {p} : AllTrue(due[q])'
    BY <2>1 DEF Inv, Typing, Truthful, Section, AllTrue
  <2>3. AllTrue(due[p])'
    BY <1>0 DEF Section, AllTrue, IsTrue
  <2>4. AllTrue(channel)' /\ AllTrue(wire)'
    BY <2>1 DEF Inv, Typing, Truthful, AllTrue
  <2>5. (answer # NoAnswer => \A t \in DOMAIN answer :
            answer[t] \in Records /\ IsTrue(t, answer[t].rev, answer[t].kind))'
    BY <1>2 DEF Inv, Typing, Truthful, Records
  <2> QED BY <2>2, <2>3, <2>4, <2>5 DEF Truthful
<1>4. ASSUME NEW t \in Tasks \ missed PROVE Coming(t)'
  <2>1. CASE t \in S
    <3>1. Carries(due[p], t)'
      BY <2>1 DEF Section, Has, Carries, Newest
    <3> QED BY <3>1 DEF Coming, Unpublished
  <2>2. CASE t \notin S
    <3>1. task'[t] = task[t] /\ Coming(t)
      BY <2>2, <1>4 DEF Section, Inv, NothingLost
    <3>2. CASE Unpublished(t)
      <4>1. PICK q \in Publishers : Carries(due[q], t)
        BY <3>2 DEF Unpublished
      <4>2. q # p
        BY <4>1 DEF Carries, Section
      <4>3. Carries(due[q], t)'
        BY <3>1, <4>1, <4>2 DEF Carries, Newest, Section
      <4> QED BY <4>3 DEF Coming, Unpublished
    <3>3. CASE ~ Unpublished(t)
      BY <3>1, <3>3 DEF Coming, AtRest, Shown, Exists
    <3> QED BY <3>2, <3>3
  <2> QED BY <2>1, <2>2
<1>5. OldIsOver'
  <2>1. \A t \in old : Over(task'[t].kind)
    BY DEF Inv, OldIsOver, Section, Lawful, Over
  <2>2. \A q \in Publishers : AllOver(due[q])'
    BY <2>1 DEF Inv, OldIsOver, Section, AllOver
  <2> QED BY <2>1, <2>2 DEF Inv, OldIsOver, HistoryIsQuiet, AllOver
<1> QED BY <1>1, <1>3, <1>4, <1>5 DEF Inv, NothingLost

(* The operations on tasks, one critical section each.                     *)
LEMMA BecomesKeeps ==
  ASSUME Inv, NEW p \in Publishers, NEW t \in Tasks, NEW kind \in {"waiting", "running", "completed", "removed"},
         task[t].kind # "removed", task[t].kind = "completed" => kind = "removed",
         Becomes(p, t, kind), Elsewhere, awaited' \in Tasks \cup {NoTask}
  PROVE  Inv'
<1> DEFINE changes == [u \in {t} |-> kind]
<1>1. Changes(p, t, changes)
  BY DEF Becomes
<1>2. DOMAIN changes = {t} /\ changes[t] = kind
  OBVIOUS
<1> HIDE DEF changes
<1>3. Section(p, {t}) /\ task'[t].kind = kind
  BY <1>1, <1>2, ChangesSection DEF Inv, Kinds
<1>4. Lawful({t})
  BY <1>3 DEF Lawful
<1> QED BY <1>3, <1>4, SectionKeeps

LEMMA BecomesAndFillsKeeps ==
  ASSUME Inv, NEW p \in Publishers, NEW t \in Tasks, NEW kind \in {"waiting", "running", "completed"},
         task[t].kind \notin {"removed", "completed"},
         BecomesAndFills(p, t, kind), Elsewhere, awaited' \in Tasks \cup {NoTask}
  PROVE  Inv'
<1>1. PICK u \in Tasks \ {t} :
        task[u].kind = "waiting" /\ Changes(p, t, [v \in {t, u} |-> IF v = t THEN kind ELSE "running"])
  BY DEF BecomesAndFills
<1> DEFINE changes == [v \in {t, u} |-> IF v = t THEN kind ELSE "running"]
<1>2. DOMAIN changes = {t, u} /\ changes[t] = kind /\ changes[u] = "running" /\ Changes(p, t, changes)
  BY <1>1
<1> HIDE DEF changes
<1>3. Section(p, {t, u})
  BY <1>2, ChangesSection DEF Inv, Kinds
<1>4. Lawful({t, u})
  BY <1>1 DEF Lawful
<1> QED BY <1>3, <1>4, SectionKeeps

LEMMA OperationKeeps ==
  ASSUME Inv, NEW t \in Tasks,
         Queue(t) \/ Stop(t) \/ Yield(t) \/ Delete(t) \/ Progress(t) \/ Finish(t) \/ Fill(t)
  PROVE  Inv'
<1>1. {t, "requests", "timers"} \subseteq Publishers /\ awaited \in Tasks \cup {NoTask}
  BY DEF Publishers, Inv, Typing
<1>2. CASE Queue(t)
  BY <1>1, <1>2, BecomesKeeps, BecomesAndFillsKeeps DEF Queue
<1>3. CASE Stop(t)
  <2>1. awaited' \in Tasks \cup {NoTask}
    BY <1>3 DEF Stop
  <2> QED BY <1>1, <1>3, <2>1, BecomesKeeps DEF Stop
<1>4. CASE Yield(t)
  <2>1. PICK u \in Tasks \ {t} : task[u].kind = "waiting" /\ Becomes(t, u, "running")
    BY <1>4 DEF Yield
  <2> QED BY <1>1, <1>4, <2>1, BecomesKeeps DEF Yield
<1>5. CASE Delete(t)
  BY <1>1, <1>5, BecomesKeeps DEF Delete
<1>6. CASE Progress(t)
  BY <1>1, <1>6, BecomesKeeps DEF Progress
<1>7. CASE Finish(t)
  BY <1>1, <1>7, BecomesKeeps, BecomesAndFillsKeeps DEF Finish
<1>8. CASE Fill(t)
  BY <1>1, <1>8, BecomesKeeps, BecomesAndFillsKeeps DEF Fill
<1> QED BY <1>2, <1>3, <1>4, <1>5, <1>6, <1>7, <1>8

(* A publication moves the first event of p into the channel, or loses it. *)
LEMMA PublishKeeps ==
  ASSUME Inv, NEW p \in Publishers, Publish(p)
  PROVE  Inv'
<1> DEFINE e == Head(due[p])
           fits == registered /\ Len(channel) < Capacity
<1>1. /\ due[p] \in Seq(Events) /\ due[p] # <<>>
      /\ due' = [due EXCEPT ![p] = Tail(due[p])]
      /\ channel' = IF fits THEN Append(channel, e) ELSE channel
      /\ missed' = IF fits /\ Newest(e) THEN missed \ {e.task}
                   ELSE IF Unpublished(e.task) /\ ~ Newest(e) THEN missed
                   ELSE missed \cup {e.task}
      /\ awaited' \in Tasks \cup {NoTask}
      /\ UNCHANGED <<task, stream, registered, wire, rows, answer, notified, old>>
  BY DEF Publish, Inv, Typing, clientVars
<1>2. Tail(due[p]) \in Seq(Events) /\ e \in Events /\ e = due[p][1] /\ 1 \in DOMAIN due[p]
  BY <1>1, TailFacts
<1>3. channel \in Seq(Events) /\ due \in [Publishers -> Seq(Events)]
  BY DEF Inv, Typing
<1> HIDE DEF e
<1>4. channel' \in Seq(Events)
  BY <1>1, <1>2, <1>3, AppendFacts
<1>5. \A i \in DOMAIN channel' : channel'[i] = e \/ \E j \in DOMAIN channel : channel'[i] = channel[j]
  BY <1>1, <1>3, AppendKeeps
<1>6. due'[p] = Tail(due[p]) /\ \A q \in Publishers \ {p} : due'[q] = due[q]
  BY <1>1, <1>3
<1>7. \A q \in Publishers : \A i \in DOMAIN due'[q] : \E j \in DOMAIN due[q] : due'[q][i] = due[q][j]
  BY <1>1, <1>6, TailKeeps
<1>8. Typing'
  <2>1. due' \in [Publishers -> Seq(Events)]
    BY <1>1, <1>2, <1>3
  <2> QED BY <1>1, <1>4, <2>1 DEF Inv, Typing
<1>9. Truthful'
  <2>1. \A q \in Publishers : AllTrue(due[q])'
    BY <1>1, <1>7 DEF Inv, Truthful, AllTrue, IsTrue
  <2>2. IsTrue(e.task, e.rev, e.kind)
    BY <1>1, <1>2 DEF Inv, Truthful, AllTrue
  <2>3. AllTrue(channel)'
    BY <1>1, <1>5, <2>2 DEF Inv, Truthful, AllTrue, IsTrue
  <2> QED BY <1>1, <2>1, <2>3 DEF Inv, Truthful, AllTrue, IsTrue
<1>10. ASSUME NEW t \in Tasks, Unpublished(t), ~ (e.task = t /\ Newest(e)) PROVE Unpublished(t)'
  <2>1. PICK q \in Publishers : Has(due[q], t, task[t].rev)
    BY <1>10, CarriesHas DEF Unpublished
  <2>2. Has(due'[q], t, task[t].rev)
    <3>1. CASE q = p
      BY <1>1, <1>6, <1>10, <2>1, <3>1, TailFacts DEF e, Newest
    <3>2. CASE q # p
      BY <1>6, <2>1, <3>2
    <3> QED BY <3>1, <3>2
  <2> QED BY <1>1, <2>2 DEF Unpublished, Has, Carries, Newest
<1>11. ASSUME NEW t \in Tasks \ missed' PROVE Coming(t)'
  <2>1. CASE e.task = t
    <3>1. CASE fits /\ Newest(e)
      <4>1. Settles(Append(channel, e), t, task[t].rev)
        BY <1>2, <1>3, <2>1, <3>1, AppendFacts DEF Newest
      <4> QED BY <1>1, <3>1, <4>1 DEF Coming, Settles
    <3>2. CASE ~ (fits /\ Newest(e))
      BY <1>1, <1>10, <1>11, <2>1, <3>2 DEF Coming
    <3> QED BY <3>1, <3>2
  <2>2. CASE e.task # t
    <3>1. Coming(t)
      BY <1>1, <1>11, <2>2 DEF Inv, NothingLost
    <3>2. CASE Unpublished(t)
      BY <1>10, <2>2, <3>2 DEF Coming
    <3>3. CASE ~ Unpublished(t)
      <4>1. /\ Settles(channel, t, task[t].rev) => Settles(channel', t, task[t].rev)
            /\ Silent(channel, t) => Silent(channel', t)
        BY <1>1, <1>2, <1>3, <2>2, AppendFacts
      <4> QED BY <1>1, <3>1, <3>3, <4>1 DEF Coming, AtRest, Shown, Exists, Settles, Silent
    <3> QED BY <3>2, <3>3
  <2> QED BY <2>1, <2>2
<1>12. OldIsOver'
  <2>1. \A q \in Publishers : AllOver(due[q])'
    BY <1>1, <1>7 DEF Inv, OldIsOver, AllOver
  <2>2. e.task \in old => Over(e.kind)
    BY <1>2 DEF Inv, OldIsOver, AllOver
  <2>3. AllOver(channel)'
    BY <1>1, <1>5, <2>2 DEF Inv, OldIsOver, AllOver
  <2> QED BY <1>1, <2>1, <2>3 DEF Inv, OldIsOver, AllOver, HistoryIsQuiet
<1> QED BY <1>8, <1>9, <1>11, <1>12 DEF Inv, NothingLost

(* Steps of the event handler.                                             *)
LEMMA ConnectKeeps ==
  ASSUME Inv, Connect
  PROVE  Inv'
<1> USE DEF Connect, managerVars, clientVars, history, Inv
<1>1. Typing'
  BY DEF Typing
<1>2. Truthful'
  BY DEF Truthful, AllTrue, IsTrue
<1>3. ASSUME NEW t \in Tasks \ missed PROVE Coming(t)'
  BY <1>3 DEF NothingLost, Coming, AtRest, Shown, Exists, Unpublished, Carries, Newest, Settles, Silent
<1>4. OldIsOver'
  BY DEF OldIsOver, AllOver, HistoryIsQuiet
<1> QED BY <1>1, <1>2, <1>3, <1>4 DEF NothingLost

LEMMA SnapshotKeeps ==
  ASSUME Inv, Snapshot
  PROVE  Inv'
<1> DEFINE L == {u \in Tasks : Exists(u)}
           E == {Event(t, task[t]) : t \in L}
<1>1. /\ stream = "subscribed" /\ stream' = "live" /\ wire' = SetToSeq(E)
      /\ missed' = {t \in missed : ~ Exists(t) \/ \E i \in DOMAIN channel : channel[i].task = t}
      /\ UNCHANGED <<task, due, awaited, registered, channel, rows, answer, notified, old>>
  BY DEF Snapshot, managerVars, clientVars
<1>2. ASSUME NEW t \in L PROVE Event(t, task[t]) \in Events
  <2>1. t \in Tasks /\ task[t] \in Records /\ task[t].kind # "none"
    BY <1>2 DEF Exists, Inv, Typing
  <2>2. task[t].rev \in Nat /\ task[t].kind \in Kinds \ {"none"}
    BY <2>1 DEF Records
  <2> QED BY <2>1, <2>2 DEF Event, Events
<1>3. IsFiniteSet(E)
  <2>1. IsFiniteSet(L)
    BY EventsAssumption, FS_Subset
  <2> HIDE DEF L
  <2> DEFINE g == [t \in L |-> Event(t, task[t])]
  <2>2. g \in Surjection(L, E)
    BY DEF Surjection
  <2> QED BY <2>1, <2>2, FS_Surjection
<1>4. /\ wire' \in Seq(E) /\ \A x \in E : \E i \in DOMAIN wire' : wire'[i] = x
      /\ \A i, j \in DOMAIN wire' : wire'[i] = wire'[j] => i = j
  <2> HIDE DEF E
  <2> QED BY <1>1, <1>3, SetToSeqFacts
<1>5. E \subseteq Events
  BY <1>2
<1>6. wire' \in Seq(Events) /\ \A i \in DOMAIN wire' : i \in Nat /\ wire'[i] \in E
  <2> HIDE DEF E
  <2>1. wire' \in [1 .. Len(wire') -> Events] /\ Len(wire') \in Nat
    BY <1>4, <1>5
  <2> QED BY <1>4, <2>1
<1>7. ASSUME NEW i \in DOMAIN wire'
      PROVE  wire'[i].task \in L /\ wire'[i] = Event(wire'[i].task, task[wire'[i].task])
  <2>1. PICK t \in L : wire'[i] = Event(t, task[t])
    BY <1>6
  <2>2. wire'[i].task = t
    BY <2>1 DEF Event
  <2> QED BY <2>1, <2>2
<1>8. ASSUME NEW t \in L PROVE Settles(wire', t, task[t].rev)
  <2>1. PICK i \in DOMAIN wire' : wire'[i] = Event(t, task[t])
    BY <1>4
  <2>2. \A j \in DOMAIN wire' : wire'[j].task = t => j = i
    BY <1>4, <1>7, <2>1
  <2>3. \A j \in DOMAIN wire' : wire'[j].task = t => j <= i
    BY <1>6, <2>2
  <2> QED BY <2>1, <2>3 DEF Settles, Event
<1> HIDE DEF E
<1>9. Typing'
  BY <1>1, <1>6 DEF Inv, Typing
<1>10. Truthful'
  <2>1. AllTrue(wire)'
    <3>1. ASSUME NEW i \in DOMAIN wire' PROVE IsTrue(wire'[i].task, wire'[i].rev, wire'[i].kind)
      <4>1. /\ wire'[i].task \in Tasks /\ wire'[i].rev = task[wire'[i].task].rev
            /\ wire'[i].kind = task[wire'[i].task].kind
        BY <1>7 DEF Event
      <4>2. task[wire'[i].task].rev \in Nat
        BY <4>1 DEF Inv, Typing, Records
      <4> QED BY <4>1, <4>2 DEF IsTrue
    <3> QED BY <1>1, <3>1 DEF AllTrue, IsTrue
  <2> QED BY <1>1, <2>1 DEF Inv, Truthful, AllTrue, IsTrue
<1>11. ASSUME NEW t \in Tasks \ missed' PROVE Coming(t)'
  <2>1. Unpublished(t)' <=> Unpublished(t)
    BY <1>1 DEF Unpublished, Carries, Newest
  <2>2. wire = <<>>
    BY <1>1 DEF Inv, Typing
  <2>3. CASE t \in missed
    <3>1. t \in L /\ Silent(channel, t)
      BY <1>1, <1>11, <2>3 DEF Silent
    <3> QED BY <1>1, <1>8, <3>1 DEF Coming
  <2>4. CASE t \notin missed
    <3>1. Coming(t)
      BY <2>4 DEF Inv, NothingLost
    <3>2. ASSUME Silent(channel, t), t \in L PROVE Coming(t)'
      BY <1>1, <1>8, <3>2 DEF Coming
    <3>3. ASSUME Silent(channel, t), t \notin L, ~ Unpublished(t), ~ Settles(channel, t, task[t].rev)
          PROVE  Coming(t)'
      <4>1. rows[t] = Nothing /\ ~ Exists(t)
        BY <1>1, <2>2, <3>1, <3>3 DEF Coming, AtRest, Settles
      <4>2. Silent(wire', t)
        BY <1>7, <3>3 DEF Silent
      <4> QED BY <1>1, <3>3, <4>1, <4>2 DEF Coming, AtRest, Shown, Exists
    <3> QED BY <1>1, <2>1, <3>1, <3>2, <3>3 DEF Coming
  <2> QED BY <2>3, <2>4
<1>12. OldIsOver'
  <2>1. AllOver(wire)'
    BY <1>1, <1>7 DEF AllOver, Event, Inv, OldIsOver
  <2> QED BY <1>1, <2>1 DEF Inv, OldIsOver, AllOver, HistoryIsQuiet
<1> QED BY <1>9, <1>10, <1>11, <1>12 DEF Inv, NothingLost

LEMMA ForwardKeeps ==
  ASSUME Inv, Forward
  PROVE  Inv'
<1> DEFINE e == Head(channel)
<1>1. /\ stream = "live" /\ channel # <<>> /\ wire' = Append(wire, e) /\ channel' = Tail(channel)
      /\ channel \in Seq(Events) /\ wire \in Seq(Events)
      /\ UNCHANGED <<task, due, awaited, stream, registered, rows, answer, notified, missed, old>>
  BY DEF Forward, managerVars, clientVars, history, Inv, Typing
<1>2. Tail(channel) \in Seq(Events) /\ e \in Events /\ e = channel[1] /\ 1 \in DOMAIN channel
  BY <1>1, TailFacts
<1> HIDE DEF e
<1>3. \A i \in DOMAIN channel' : \E j \in DOMAIN channel : channel'[i] = channel[j]
  BY <1>1, TailKeeps
<1>4. \A i \in DOMAIN wire' : wire'[i] = e \/ \E j \in DOMAIN wire : wire'[i] = wire[j]
  BY <1>1, AppendKeeps
<1>5. Typing'
  BY <1>1, <1>2, AppendFacts DEF Inv, Typing
<1>6. Truthful'
  <2>1. IsTrue(e.task, e.rev, e.kind)
    BY <1>1, <1>2 DEF Inv, Truthful, AllTrue
  <2>2. AllTrue(wire)' /\ AllTrue(channel)'
    BY <1>1, <1>3, <1>4, <2>1 DEF Inv, Truthful, AllTrue, IsTrue
  <2> QED BY <1>1, <2>2 DEF Inv, Truthful, AllTrue, IsTrue
<1>7. ASSUME NEW t \in Tasks \ missed PROVE Coming(t)'
  <2> DEFINE r == task[t].rev
  <2>1. Coming(t)
    BY <1>7 DEF Inv, NothingLost
  <2>2. Unpublished(t) => Unpublished(t)'
    BY <1>1 DEF Unpublished, Carries, Newest
  <2>3. ASSUME Settles(channel, t, r) PROVE Coming(t)'
    <3>1. CASE Settles(channel', t, r)
      BY <1>1, <3>1 DEF Coming
    <3>2. CASE e.task = t /\ e.rev = r /\ Silent(channel', t)
      <4>1. Settles(wire', t, r)
        BY <1>1, <1>2, <3>2, AppendFacts
      <4> QED BY <1>1, <3>2, <4>1 DEF Coming
    <3> QED BY <1>1, <2>3, <3>1, <3>2, TailFacts DEF e
  <2>4. ASSUME Silent(channel, t)
        PROVE  /\ Silent(channel', t)
               /\ Settles(wire, t, r) => Settles(wire', t, r)
               /\ Silent(wire, t) => Silent(wire', t)
    <3>1. Silent(channel', t) /\ e.task # t
      BY <1>1, <2>4, TailFacts DEF e
    <3> QED BY <1>1, <1>2, <3>1, AppendFacts
  <2>5. AtRest(t) => AtRest(t)'
    BY <1>1 DEF AtRest, Shown, Exists
  <2>6. Unpublished(t) => Coming(t)'
    BY <2>2 DEF Coming
  <2>7. ASSUME Silent(channel', t), Settles(wire', t, r) PROVE Coming(t)'
    BY <1>1, <2>7 DEF Coming
  <2>8. ASSUME Silent(channel', t), Silent(wire', t), AtRest(t) PROVE Coming(t)'
    BY <1>1, <2>5, <2>8 DEF Coming
  <2>9. \/ Unpublished(t) \/ Settles(channel, t, r)
        \/ Silent(channel, t) /\ Settles(wire, t, r)
        \/ Silent(channel, t) /\ Silent(wire, t) /\ AtRest(t)
    BY <2>1 DEF Coming
  <2> HIDE DEF r
  <2>10. CASE Silent(channel, t) /\ Settles(wire, t, r)
    BY <2>4, <2>7, <2>10
  <2>11. CASE Silent(channel, t) /\ Silent(wire, t) /\ AtRest(t)
    BY <2>4, <2>8, <2>11
  <2> QED BY <2>3, <2>6, <2>9, <2>10, <2>11
<1>8. OldIsOver'
  <2>1. e.task \in old => Over(e.kind)
    BY <1>1, <1>2 DEF Inv, OldIsOver, AllOver
  <2>2. AllOver(wire)' /\ AllOver(channel)'
    BY <1>1, <1>3, <1>4, <2>1 DEF Inv, OldIsOver, AllOver
  <2> QED BY <1>1, <2>2 DEF Inv, OldIsOver, AllOver, HistoryIsQuiet
<1> QED BY <1>1, <1>5, <1>6, <1>7, <1>8 DEF Inv, NothingLost

\* What is under way when the stream breaks counts as missed.
LEMMA DisconnectKeeps ==
  ASSUME Inv, Disconnect
  PROVE  Inv'
<1>1. /\ stream' = "off" /\ ~ registered' /\ channel' = <<>> /\ wire' = <<>>
      /\ missed' = missed \cup {t \in Tasks : Carries(channel \o wire, t)}
      /\ UNCHANGED <<task, due, awaited, rows, answer, notified, old>>
      /\ channel \in Seq(Events) /\ wire \in Seq(Events)
  BY DEF Disconnect, managerVars, clientVars, Inv, Typing
<1>2. <<>> \in Seq(Events)
  OBVIOUS
<1>3. registered' \in BOOLEAN
  BY DEF Disconnect
<1>4. Typing'
  BY <1>1, <1>2, <1>3 DEF Inv, Typing
<1>5. Truthful'
  BY <1>1 DEF Inv, Truthful, AllTrue, IsTrue
<1>6. ASSUME NEW t \in Tasks \ missed' PROVE Coming(t)'
  <2>1. ~ Has(channel, t, task[t].rev) /\ ~ Has(wire, t, task[t].rev)
    BY <1>1, <1>6, CarriesHas, ConcatFacts
  <2>2. ~ Settles(channel, t, task[t].rev) /\ ~ Settles(wire, t, task[t].rev)
    BY <2>1 DEF Settles, Has
  <2>3. Unpublished(t) \/ AtRest(t)
    BY <1>1, <1>6, <2>2 DEF Inv, NothingLost, Coming
  <2>4. CASE Unpublished(t)
    BY <1>1, <2>4 DEF Coming, Unpublished, Carries, Newest
  <2>5. CASE AtRest(t)
    BY <1>1, <2>5 DEF Coming, AtRest, Shown, Exists, Silent
  <2> QED BY <2>3, <2>4, <2>5
<1>7. OldIsOver'
  BY <1>1 DEF Inv, OldIsOver, AllOver, HistoryIsQuiet
<1> QED BY <1>4, <1>5, <1>6, <1>7 DEF Inv, NothingLost

\* The engine stops, and the handler with it; nothing is under way at its end.
LEMMA EndKeeps ==
  ASSUME Inv, Shutdown \/ Close \/ Unsubscribe \/ HandlerEnds
  PROVE  Inv'
<1>1. /\ UNCHANGED <<task, due, awaited, channel, wire, rows, answer, notified, missed, old>>
      /\ registered' \in BOOLEAN /\ (registered' => registered)
      /\ \/ stream' = stream
         \/ stream = "live" /\ stream' = "off" /\ ~ registered' /\ channel = <<>> /\ wire = <<>>
  <2> USE DEF managerVars, streamVars, clientVars, history
  <2>1. registered \in BOOLEAN
    BY DEF Inv, Typing
  <2>2. CASE Shutdown
    BY <2>1, <2>2 DEF Shutdown
  <2>3. CASE Close
    BY <2>1, <2>3 DEF Close
  <2>4. CASE Unsubscribe
    BY <2>4 DEF Unsubscribe
  <2>5. CASE HandlerEnds
    BY <2>1, <2>5 DEF HandlerEnds
  <2> QED BY <2>2, <2>3, <2>4, <2>5
<1>2. Typing'
  BY <1>1 DEF Inv, Typing
<1>3. Truthful'
  BY <1>1 DEF Inv, Truthful, AllTrue, IsTrue
<1>4. ASSUME NEW t \in Tasks \ missed' PROVE Coming(t)'
  <2>1. Coming(t) /\ (AtRest(t) => AtRest(t)')
    BY <1>1, <1>4 DEF Inv, NothingLost, AtRest, Shown, Exists
  <2>2. Unpublished(t) => Unpublished(t)'
    BY <1>1 DEF Unpublished, Carries, Newest
  <2> QED BY <1>1, <2>1, <2>2 DEF Coming
<1>5. OldIsOver'
  BY <1>1 DEF Inv, OldIsOver, AllOver, HistoryIsQuiet
<1> QED BY <1>1, <1>2, <1>3, <1>4, <1>5 DEF Inv, NothingLost

-----------------------------------------------------------------------------
(* Steps of the client.                                                    *)

LEMMA ReceiveKeeps ==
  ASSUME Inv, Receive
  PROVE  Inv'
<1> DEFINE e == Head(wire)
           row == IF e.kind = "removed" THEN Nothing ELSE [rev |-> e.rev, kind |-> e.kind]
<1>1. /\ wire # <<>> /\ wire' = Tail(wire) /\ wire \in Seq(Events) /\ rows \in [Tasks -> Records]
      /\ rows' = [rows EXCEPT ![e.task] = row]
      /\ notified' = IF e.kind = "completed" /\ rows[e.task].kind \notin {"none", "completed"}
                     THEN notified \cup {e.task} ELSE notified
      /\ UNCHANGED <<task, due, awaited, stream, registered, channel, answer, missed, old>>
  BY DEF Receive, managerVars, history, Inv, Typing
<1>2. Tail(wire) \in Seq(Events) /\ e \in Events /\ e = wire[1] /\ 1 \in DOMAIN wire
  BY <1>1, TailFacts
<1> HIDE DEF e
<1>3. \A i \in DOMAIN wire' : \E j \in DOMAIN wire : wire'[i] = wire[j]
  BY <1>1, TailKeeps
<1>4. e.task \in Tasks /\ e.rev \in Nat /\ e.kind \in Kinds /\ e.kind # "none" /\ row \in Records
  BY <1>2 DEF Events, Records, Nothing, Kinds
<1>5. stream = "live"
  BY <1>1 DEF Inv, Typing
<1>6. Typing'
  <2>1. rows' \in [Tasks -> Records]
    <3> HIDE DEF row
    <3> QED BY <1>1, <1>4
  <2> QED BY <1>1, <1>2, <1>5, <2>1 DEF Inv, Typing
<1>7. Truthful'
  BY <1>1, <1>3 DEF Inv, Truthful, AllTrue, IsTrue
<1>8. IsTrue(e.task, e.rev, e.kind)
  BY <1>1, <1>2 DEF Inv, Truthful, AllTrue
<1>9. ASSUME NEW t \in Tasks \ missed PROVE Coming(t)'
  <2> DEFINE r == task[t].rev
  <2>1. Unpublished(t) => Coming(t)'
    BY <1>1 DEF Coming, Unpublished, Carries, Newest
  <2>2. Settles(channel, t, r) => Coming(t)'
    BY <1>1 DEF Coming
  <2>3. ASSUME Silent(channel, t), Settles(wire, t, r) PROVE Coming(t)'
    <3>1. CASE Settles(wire', t, r)
      BY <1>1, <2>3, <3>1 DEF Coming
    <3>2. CASE e.task = t /\ e.rev = r /\ Silent(wire', t)
      <4>1. e.kind = task[t].kind
        BY <1>8, <3>2 DEF IsTrue
      <4>2. task[t] = [rev |-> e.rev, kind |-> e.kind]
        BY <3>2, <4>1 DEF Inv, Typing, Records
      <4>3. rows'[t] = Shown(t)
        BY <1>1, <1>4, <3>2, <4>1, <4>2 DEF Shown, Exists
      <4> QED BY <1>1, <1>5, <2>3, <3>2, <4>3 DEF Coming, AtRest, Shown, Exists
    <3> QED BY <1>1, <2>3, <3>1, <3>2, TailFacts DEF e
  <2>4. ASSUME Silent(channel, t), Silent(wire, t), AtRest(t) PROVE Coming(t)'
    <3>1. Silent(wire', t) /\ e.task # t
      BY <1>1, <2>4, TailFacts DEF e
    <3>2. rows'[t] = rows[t]
      BY <1>1, <3>1
    <3> QED BY <1>1, <2>4, <3>1, <3>2 DEF Coming, AtRest, Shown, Exists
  <2> HIDE DEF r
  <2>5. \/ Unpublished(t) \/ Settles(channel, t, r)
        \/ Silent(channel, t) /\ Settles(wire, t, r)
        \/ Silent(channel, t) /\ Silent(wire, t) /\ AtRest(t)
    BY <1>9 DEF Inv, NothingLost, Coming, r
  <2> QED BY <2>1, <2>2, <2>3, <2>4, <2>5
<1>10. OldIsOver'
  <2>1. AllOver(wire)'
    BY <1>1, <1>3 DEF Inv, OldIsOver, AllOver
  <2>2. e.task \in old => Over(e.kind) /\ rows[e.task].kind \in {"none", "completed"}
    BY <1>2 DEF Inv, OldIsOver, AllOver
  <2>3. \A t \in old : rows'[t].kind \in {"none", "completed"}
    <3>1. e.task \in old => row.kind \in {"none", "completed"}
      BY <2>2 DEF Over, Nothing
    <3> HIDE DEF row
    <3> QED BY <1>1, <3>1 DEF Inv, OldIsOver
  <2>4. HistoryIsQuiet'
    BY <1>1, <2>2 DEF Inv, OldIsOver, HistoryIsQuiet
  <2> QED BY <1>1, <2>1, <2>3, <2>4 DEF Inv, OldIsOver, AllOver
<1> QED BY <1>1, <1>6, <1>7, <1>9, <1>10 DEF Inv, NothingLost

LEMMA AnswerKeeps ==
  ASSUME Inv, Answer
  PROVE  Inv'
<1>1. PICK S \in SUBSET Tasks : answer' = [t \in S |-> task[t]]
  BY DEF Answer
<1>2. UNCHANGED <<task, due, awaited, stream, registered, channel, wire, rows, notified, missed, old>>
  BY DEF Answer, managerVars, streamVars, history
<1>3. Typing'
  BY <1>1, <1>2 DEF Inv, Typing
<1>4. Truthful'
  <2>1. \A t \in S : task[t] \in Records /\ IsTrue(t, task[t].rev, task[t].kind)
    BY DEF Inv, Typing, Records, IsTrue
  <2> QED BY <1>1, <1>2, <2>1 DEF Inv, Truthful, AllTrue, IsTrue
<1>5. NothingLost'
  BY <1>2 DEF Inv, NothingLost, Coming, AtRest, Shown, Exists, Unpublished, Carries, Newest, Settles, Silent
<1>6. OldIsOver'
  BY <1>1, <1>2 DEF Inv, OldIsOver, AllOver, HistoryIsQuiet
<1> QED BY <1>3, <1>4, <1>5, <1>6 DEF Inv

\* An answer that is older than the task replaces it only where nothing newer is
\* under way, and counts as missed there.
LEMMA TakeAnswerKeeps ==
  ASSUME Inv, TakeAnswer
  PROVE  Inv'
<1> DEFINE told == DOMAIN answer
           gone(t) == answer[t].kind \in {"none", "removed"}
           stale(t) == answer[t].rev # task[t].rev /\ ~ Unpublished(t) /\ ~ Carries(channel \o wire, t)
<1>1. /\ answer # NoAnswer /\ answer' = NoAnswer
      /\ rows' = [t \in Tasks |-> IF t \notin told THEN rows[t]
                                  ELSE IF gone(t) THEN Nothing ELSE answer[t]]
      /\ missed' = missed \cup {t \in told : stale(t)}
      /\ UNCHANGED <<task, due, awaited, stream, registered, channel, wire, notified, old>>
      /\ channel \in Seq(Events) /\ wire \in Seq(Events)
  BY DEF TakeAnswer, managerVars, streamVars, Inv, Typing
<1>2. ASSUME NEW t \in told PROVE t \in Tasks /\ answer[t] \in Records /\ IsTrue(t, answer[t].rev, answer[t].kind)
  BY <1>1, <1>2 DEF Inv, Typing, Truthful
<1>3. Typing'
  <2>1. rows' \in [Tasks -> Records]
    BY <1>1, <1>2 DEF Inv, Typing, Records, Nothing, Kinds
  <2> QED BY <1>1, <2>1 DEF Inv, Typing
<1>4. Truthful'
  BY <1>1 DEF Inv, Truthful, AllTrue, IsTrue
<1>5. ASSUME NEW t \in Tasks \ missed' PROVE Coming(t)'
  <2>1. Coming(t)
    BY <1>1, <1>5 DEF Inv, NothingLost
  <2>2. Unpublished(t) => Coming(t)'
    BY <1>1 DEF Coming, Unpublished, Carries, Newest
  <2>3. \/ Settles(channel, t, task[t].rev)
        \/ Silent(channel, t) /\ Settles(wire, t, task[t].rev)
        => Coming(t)'
    BY <1>1 DEF Coming
  <2>4. ASSUME Silent(channel, t), Silent(wire, t), AtRest(t), ~ Unpublished(t) PROVE Coming(t)'
    <3>1. CASE t \notin told
      BY <1>1, <2>4, <3>1 DEF Coming, AtRest, Shown, Exists
    <3>2. CASE t \in told
      <4>1. ~ Carries(channel \o wire, t)
        <5>1. ~ Has(channel, t, task[t].rev) /\ ~ Has(wire, t, task[t].rev)
          BY <2>4 DEF Silent, Has
        <5> QED BY <1>1, <5>1, CarriesHas, ConcatFacts
      <4>2. answer[t].rev = task[t].rev
        BY <1>1, <1>5, <2>4, <3>2, <4>1
      <4>3. answer[t] = task[t]
        <5>1. answer[t] \in Records /\ task[t] \in Records /\ answer[t].kind = task[t].kind
          BY <1>2, <3>2, <4>2 DEF IsTrue, Inv, Typing
        <5> QED BY <4>2, <5>1 DEF Records
      <4>4. rows'[t] = Shown(t)
        BY <1>1, <3>2, <4>3 DEF Shown, Exists
      <4> QED BY <1>1, <2>4, <4>4 DEF Coming, AtRest, Shown, Exists
    <3> QED BY <3>1, <3>2
  <2> QED BY <2>1, <2>2, <2>3, <2>4 DEF Coming
<1>6. OldIsOver'
  <2>1. ASSUME NEW t \in old PROVE rows'[t].kind \in {"none", "completed"}
    BY <1>1, <2>1 DEF Inv, OldIsOver, Over, Nothing
  <2> QED BY <1>1, <2>1 DEF Inv, OldIsOver, AllOver, HistoryIsQuiet
<1> QED BY <1>3, <1>4, <1>5, <1>6 DEF Inv, NothingLost

-----------------------------------------------------------------------------
(* The specification.                                                      *)

LEMMA NextInv ==
  ASSUME Inv, [Next]_vars
  PROVE  Inv'
<1>1. CASE UNCHANGED vars
  BY <1>1 DEF vars, managerVars, streamVars, clientVars, history, Inv, Typing, Truthful, AllTrue, IsTrue, NothingLost,
       Coming, AtRest, Shown, Exists, Unpublished, Carries, Newest, Settles, Silent, OldIsOver, AllOver, HistoryIsQuiet
<1>2. CASE Manager
  BY <1>2, OperationKeeps, PublishKeeps DEF Manager
<1>3. CASE Handler
  BY <1>3, ConnectKeeps, SnapshotKeeps, ForwardKeeps, DisconnectKeeps, EndKeeps DEF Handler
<1>4. CASE Client
  BY <1>4, ReceiveKeeps, AnswerKeeps, TakeAnswerKeeps DEF Client
<1>5. CASE Shutdown \/ Close
  BY <1>5, EndKeeps
<1> QED BY <1>1, <1>2, <1>3, <1>4, <1>5 DEF Next

\* In every reachable state the newest word about a task that was not missed is still
\* to be published, in the channel, on its way to the client or in its list, and
\* what is said of a task that was complete at the start is that it is over.
THEOREM EventsInvariant == Spec => []Inv
<1>1. Init => Inv
  BY InitInv
<1>2. Inv /\ [Next]_vars => Inv'
  BY NextInv
<1> QED BY <1>1, <1>2, PTL DEF Spec

\* A client that has heard everything shows the tasks of the manager (task_service.dart,
\* httpapi/tasks.go), whatever the number of tasks and the size of the channel.
THEOREM EventsNoGap == Spec => []NoGap
<1>1. Inv => NoGap
  <2> SUFFICES ASSUME Inv, Quiet, NEW t \in Tasks \ missed
               PROVE  rows[t] = IF Exists(t) THEN task[t] ELSE Nothing
    BY DEF NoGap
  <2>1. ~ Unpublished(t)
    BY DEF Quiet, Unpublished, Carries
  <2>2. ~ Settles(channel, t, task[t].rev) /\ ~ Settles(wire, t, task[t].rev)
    BY DEF Quiet, Settles
  <2> QED BY <2>1, <2>2 DEF Inv, NothingLost, Coming, AtRest, Shown, Quiet
<1> QED BY <1>1, EventsInvariant, PTL

\* A download that was complete before the client started is never announced to the
\* user, however the client hears of it (task_service.dart).
THEOREM EventsHistoryIsQuiet == Spec => []HistoryIsQuiet
<1>1. Inv => HistoryIsQuiet
  BY DEF Inv, OldIsOver
<1> QED BY <1>1, EventsInvariant, PTL
=============================================================================
