------------------------------- MODULE TaskEvents -------------------------------
(***************************************************************************)
(* How a client's task list follows the manager's: a change is made under  *)
(* Manager.mu and published after it is released (publishEvent), into the  *)
(* bounded channel of a subscriber (Subscribe); the event handler of       *)
(* httpapi/tasks.go subscribes, sends a snapshot and forwards the channel; *)
(* TaskService (task_service.dart) merges the events with the answers to   *)
(* its own requests and notifies the user of completions.                  *)
(*                                                                         *)
(* A change of a task gives it a new revision; what it was besides is      *)
(* TaskManager's.  Three kinds of goroutines change and publish: the       *)
(* requests (one at a time, operationMu), the run of each task, and timers *)
(* that fill free slots.  Each publishes what it changed before it changes *)
(* anything else; between goroutines nothing orders publications.          *)
(***************************************************************************)
EXTENDS Integers, Sequences, FiniteSets, SequencesExt

CONSTANTS
  Tasks,
  Capacity,   \* of a subscriber's channel (32 in the code)
  Revisions,  \* changes of the tasks in all (bound)
  Transit,    \* events between the handler and the client (bound)
  NoTask,
  NoAnswer

ASSUME EventsAssumption ==
  IsFiniteSet(Tasks) /\ Capacity \in Nat \ {0} /\ Revisions \in Nat /\ Transit \in Nat \ {0} /\ NoTask \notin Tasks

VARIABLES
  task,       \* the manager's tasks: revision and kind
  due,        \* what each goroutine has changed and not yet published
  awaited,    \* the task whose run Pause or Cancel waits for
  engine,     \* "serving", "stopping" (Server.Shutdown) or "closed"
  stream,     \* the event handler: "off", "subscribed" or "live"
  registered, \* its channel is among the subscribers
  channel,
  wire,       \* what the handler has written and the client has not read
  rows,       \* the client's list
  answer,     \* an answer to a request of the client, under way
  notified,   \* tasks whose completion was announced to the user
  missed,     \* tasks whose newest event was lost or overtaken (history)
  old         \* tasks that were complete when the client started (history)

managerVars == <<task, due, awaited>>
streamVars  == <<stream, registered, channel, wire>>
clientVars  == <<rows, answer, notified>>
history     == <<missed, old>>
vars == <<managerVars, engine, streamVars, clientVars, history>>

Publishers == Tasks \cup {"requests", "timers"}
Nothing    == [rev |-> 0, kind |-> "none"]
Exists(t)  == task[t].kind \notin {"none", "removed"}

\* The client starts: its list is empty, the manager has its records.
Init ==
  /\ task \in [Tasks -> {[rev |-> 0, kind |-> k] : k \in {"none", "waiting", "running", "completed"}}]
  /\ old = {t \in Tasks : task[t].kind = "completed"}
  /\ due = [p \in Publishers |-> <<>>] /\ awaited = NoTask
  /\ engine = "serving"
  /\ stream = "off" /\ registered = FALSE /\ channel = <<>> /\ wire = <<>>
  /\ rows = [t \in Tasks |-> Nothing] /\ answer = NoAnswer /\ notified = {}
  /\ missed = {}

-----------------------------------------------------------------------------
(* The manager.                                                            *)

Event(t, r) == [task |-> t, rev |-> r.rev, kind |-> r.kind]

Newest(e) == e.rev = task[e.task].rev

\* The newest event of t is among the events of s.
Carries(s, t) == \E i \in DOMAIN s : s[i].task = t /\ Newest(s[i])

Unpublished(t) == \E p \in Publishers : Carries(due[p], t)

Elsewhere == UNCHANGED <<engine, streamVars, clientVars, history>>

WithinBound(records) == MapThenSumSet(LAMBDA t : records[t].rev, Tasks) <= Revisions

\* One critical section of p that gives every task of changes another kind; first is
\* published first.  Shutdown stops the requests, and Close the rest.
Changes(p, first, changes) ==
  LET after == [t \in Tasks |-> IF t \in DOMAIN changes
                                THEN [rev |-> task[t].rev + 1, kind |-> changes[t]] ELSE task[t]]
      others == DOMAIN changes \ {first}
  IN /\ due[p] = <<>>
     /\ engine = "serving" \/ (engine = "stopping" /\ p # "requests")
     /\ WithinBound(after)
     /\ task' = after
     /\ due' = [due EXCEPT ![p] = <<Event(first, after[first])>>
                                  \o SetToSeq({Event(t, after[t]) : t \in others})]

Becomes(p, t, kind) == Changes(p, t, [u \in {t} |-> kind])

\* The same, and fillAvailableSlotsLocked starts a waiting task.
BecomesAndFills(p, t, kind) ==
  \E u \in Tasks \ {t} :
    /\ task[u].kind = "waiting"
    /\ Changes(p, t, [v \in {t, u} |-> IF v = t THEN kind ELSE "running"])

\* Create, Resume and Retry.
Queue(t) ==
  /\ task[t].kind \in {"none", "waiting"}
  /\ \/ \E kind \in {"waiting", "running"} : Becomes("requests", t, kind)
     \/ BecomesAndFills("requests", t, "waiting")
  /\ UNCHANGED awaited /\ Elsewhere

\* Pause and Cancel wait for the end of a run before they publish.
Stop(t) ==
  /\ task[t].kind \in {"waiting", "running"}
  /\ Becomes("requests", t, "waiting")
  /\ awaited' = IF task[t].kind = "running" THEN t ELSE NoTask
  /\ Elsewhere

\* The run they wait for frees its slot.
Yield(t) ==
  /\ awaited = t
  /\ \E u \in Tasks \ {t} : task[u].kind = "waiting" /\ Becomes(t, u, "running")
  /\ UNCHANGED awaited /\ Elsewhere

Delete(t) ==
  /\ task[t].kind \in {"waiting", "completed"}
  /\ Becomes("requests", t, "removed")
  /\ UNCHANGED awaited /\ Elsewhere

\* Manager.run: a report, and the end (success, or a failure that may be retried).
Progress(t) ==
  /\ task[t].kind = "running"
  /\ Becomes(t, t, "running")
  /\ UNCHANGED awaited /\ Elsewhere

Finish(t) ==
  /\ task[t].kind = "running"
  /\ \E kind \in {"completed", "waiting"} : Becomes(t, t, kind) \/ BecomesAndFills(t, t, kind)
  /\ UNCHANGED awaited /\ Elsewhere

\* waitForRetry and the schedule timer.
Fill(t) ==
  /\ task[t].kind = "waiting"
  /\ Becomes("timers", t, "running") \/ BecomesAndFills("timers", t, "running")
  /\ UNCHANGED awaited /\ Elsewhere

\* publishEvent drops an event for a channel that is full.
Publish(p) ==
  /\ due[p] # <<>> /\ (p = "requests" /\ awaited # NoTask => due[awaited] = <<>>)
  /\ LET e == Head(due[p])
         fits == registered /\ Len(channel) < Capacity
     IN /\ due' = [due EXCEPT ![p] = Tail(@)]
        /\ channel' = IF fits THEN Append(channel, e) ELSE channel
        /\ missed' = IF fits /\ Newest(e) THEN missed \ {e.task}
                     ELSE IF Unpublished(e.task) /\ ~ Newest(e) THEN missed
                     ELSE missed \cup {e.task}
  /\ awaited' = IF p = "requests" THEN NoTask ELSE awaited
  /\ UNCHANGED <<task, engine, stream, registered, wire, clientVars, old>>

-----------------------------------------------------------------------------
(* The event handler.                                                      *)

\* A client opens one stream at a time.
Connect ==
  /\ stream = "off" /\ engine = "serving"
  /\ stream' = "subscribed" /\ registered' = TRUE
  /\ UNCHANGED <<managerVars, engine, channel, wire, clientVars, history>>

\* Changed: what the channel holds when the list is read is thrown away.
DrainingSnapshot ==
  /\ stream = "subscribed" /\ stream' = "live"
  /\ wire' = SetToSeq({Event(t, task[t]) : t \in {u \in Tasks : Exists(u)}})
  /\ channel' = <<>>
  /\ missed' = {t \in missed : ~ Exists(t) \/ \E i \in DOMAIN channel : channel[i].task = t}
  /\ UNCHANGED <<managerVars, engine, registered, clientVars, old>>

\* List, after Subscribe.  A task that has gone in the meantime stays in the list of
\* the client, and what the channel holds is older than the snapshot.
Snapshot ==
  /\ stream = "subscribed" /\ stream' = "live"
  /\ wire' = SetToSeq({Event(t, task[t]) : t \in {u \in Tasks : Exists(u)}})
  /\ missed' = {t \in missed : ~ Exists(t) \/ \E i \in DOMAIN channel : channel[i].task = t}
  /\ UNCHANGED <<managerVars, engine, registered, channel, clientVars, old>>

Forward ==
  /\ stream = "live" /\ channel # <<>> /\ Len(wire) < Transit
  /\ wire' = Append(wire, Head(channel))
  /\ channel' = Tail(channel)
  /\ UNCHANGED <<managerVars, engine, stream, registered, clientVars, history>>

\* The client goes away or the connection breaks: what is under way is lost.  The
\* channel that nobody reads any more is removed some time later.
Disconnect ==
  /\ stream # "off"
  /\ stream' = "off" /\ registered' = FALSE
  /\ missed' = missed \cup {t \in Tasks : Carries(channel \o wire, t)}
  /\ channel' = <<>> /\ wire' = <<>>
  /\ UNCHANGED <<managerVars, engine, clientVars, old>>

\* RunWithReady: no new requests; the manager closes when the handlers have ended or
\* five seconds have passed.
Shutdown ==
  /\ engine = "serving" /\ engine' = "stopping"
  /\ UNCHANGED <<managerVars, streamVars, clientVars, history>>

Close ==
  /\ engine = "stopping" /\ engine' = "closed"
  /\ UNCHANGED <<managerVars, streamVars, clientVars, history>>

\* Changed: the goroutine waits for the client only, not for the manager.
LingeringUnsubscribe ==
  /\ engine = "closed" /\ stream = "off" /\ registered
  /\ registered' = FALSE
  /\ UNCHANGED <<managerVars, engine, stream, channel, wire, clientVars, history>>

\* The subscriber's goroutine closes the channel, and the handler forwards what is
\* left in it.
Unsubscribe ==
  /\ engine = "closed" /\ registered
  /\ registered' = FALSE
  /\ UNCHANGED <<managerVars, engine, stream, channel, wire, clientVars, history>>

HandlerEnds ==
  /\ stream = "live" /\ ~ registered /\ channel = <<>> /\ wire = <<>>
  /\ stream' = "off"
  /\ UNCHANGED <<managerVars, engine, registered, channel, wire, clientVars, history>>

-----------------------------------------------------------------------------
(* The client.                                                             *)

\* Changed: a completed task that was not in the list is announced too.
LoudReceive ==
  /\ wire # <<>> /\ wire' = Tail(wire)
  /\ LET e == Head(wire)
         t == e.task
     IN /\ rows' = [rows EXCEPT ![t] = IF e.kind = "removed" THEN Nothing
                                       ELSE [rev |-> e.rev, kind |-> e.kind]]
        /\ notified' = IF e.kind = "completed" /\ rows[t].kind # "completed"
                       THEN notified \cup {t} ELSE notified
  /\ UNCHANGED <<managerVars, engine, stream, registered, channel, answer, history>>

\* _upsert or _removeIDs; a completion of a task that was in the list as unfinished
\* is announced to the user.
Receive ==
  /\ wire # <<>> /\ wire' = Tail(wire)
  /\ LET e == Head(wire)
         t == e.task
         completes == e.kind = "completed" /\ rows[t].kind \notin {"none", "completed"}
     IN /\ rows' = [rows EXCEPT ![t] = IF e.kind = "removed" THEN Nothing
                                       ELSE [rev |-> e.rev, kind |-> e.kind]]
        /\ notified' = IF completes THEN notified \cup {t} ELSE notified
  /\ UNCHANGED <<managerVars, engine, stream, registered, channel, answer, history>>

\* The server's part of a request: List for refresh, Get for one task, or the task as
\* an operation of the client left it, which may have deleted it.
Answer ==
  /\ answer = NoAnswer /\ engine = "serving"
  /\ \E S \in {Tasks} \cup {{t} : t \in {u \in Tasks : task[u].kind # "none"}} : answer' = [t \in S |-> task[t]]
  /\ UNCHANGED <<managerVars, engine, streamVars, rows, notified, history>>

\* _replaceTasks or _upsert when the answer arrives: an answer that is older than what
\* the client was told replaces it.
TakeAnswer ==
  /\ answer # NoAnswer /\ answer' = NoAnswer
  /\ LET told == DOMAIN answer
         gone(t) == answer[t].kind \in {"none", "removed"}
         stale(t) == answer[t].rev # task[t].rev /\ ~ Unpublished(t) /\ ~ Carries(channel \o wire, t)
     IN /\ rows' = [t \in Tasks |-> IF t \notin told THEN rows[t]
                                    ELSE IF gone(t) THEN Nothing ELSE answer[t]]
        /\ missed' = missed \cup {t \in told : stale(t)}
  /\ UNCHANGED <<managerVars, engine, streamVars, notified, old>>

Manager ==
  \/ \E t \in Tasks : Queue(t) \/ Stop(t) \/ Yield(t) \/ Delete(t) \/ Progress(t) \/ Finish(t) \/ Fill(t)
  \/ \E p \in Publishers : Publish(p)

Handler == Connect \/ Snapshot \/ Forward \/ Disconnect \/ Unsubscribe \/ HandlerEnds

Client == Receive \/ Answer \/ TakeAnswer

Next == Manager \/ Handler \/ Client \/ Shutdown \/ Close

Spec == Init /\ [][Next]_vars

\* Goroutines run, and a connected client reads.
Fairness ==
  WF_vars(Snapshot) /\ WF_vars(Forward) /\ WF_vars(Unsubscribe) /\ WF_vars(HandlerEnds) /\ WF_vars(Receive)

FairSpec == Spec /\ Fairness

-----------------------------------------------------------------------------
(* Properties.                                                             *)

Quiet ==
  /\ engine = "serving" /\ stream = "live" /\ channel = <<>> /\ wire = <<>> /\ answer = NoAnswer
  /\ \A p \in Publishers : due[p] = <<>>

\* A connected client that has received everything shows the manager's tasks: nothing
\* falls between the snapshot and the first event, across reconnections and answers
\* to its own requests, except for a task whose last event was dropped by a full
\* channel, overtaken by an older one (publishEvent runs after mu is released), or
\* replaced by an older answer.
NoGap ==
  Quiet => \A t \in Tasks \ missed : rows[t] = IF Exists(t) THEN task[t] ELSE Nothing

\* A task that was complete before the client started is not announced, however it
\* reaches the list: by the snapshot, a request or a reconnection (README.md:366).
HistoryIsQuiet == \A t \in old : t \notin notified

\* When the manager closes, every event handler comes to its end, and with it the
\* connection that the shutdown waits for in vain before (app.go:135).
StreamsEnd == engine = "closed" ~> stream = "off"
=============================================================================
