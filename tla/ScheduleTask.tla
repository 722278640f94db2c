---------------------------- MODULE ScheduleTask ----------------------------
(***************************************************************************)
(* ScheduleTaskServiceImpl: the tasks of an executor, each round of which  *)
(* is one transaction that takes the service's only permit, reads the user *)
(* by name, acts, gives the permit back and then commits.                  *)
(*                                                                         *)
(* The release is not in a finally block: a round that throws while it     *)
(* holds the permit keeps it, and scheduleAtFixedRate does not run the     *)
(* task again.                                                             *)
(***************************************************************************)
EXTENDS KafkaAgent, ExecutorService

\* Mutant: released in the body and again in a finally block.
releaseTwice == permits' = permits + 2

release == permits' = permits + 1

\* The timer starts a round.  The first publication is due at once and the
\* first activity check only after the inactivity threshold.
Fire(t) ==
    /\ tasks[t].pc \in {"new", "scheduled"}
    /\ down[t[1]] = "running"
    /\ t[2] = "activity" => tasks[<<t[1], "publish">>].pc \in {"scheduled", "ended"}
    /\ tasks' = [tasks EXCEPT ![t] = Task("acquire", Null)]
    /\ UNCHANGED permits /\ OnlyTasks

\* A task's findByName has found a user who has been challenged before.
HasStatus(u) == u # Null /\ u.sstatus # "NONE"

\* Mutant: tryAcquire, its result ignored.
AcquireUnguarded(t) ==
    LET u == rows[owner[t[1]].name] IN
    /\ tasks[t].pc = "acquire"
    /\ HasStatus(u)
    /\ permits' = IF permits > 0 THEN permits - 1 ELSE permits
    /\ tasks' = [tasks EXCEPT ![t] = Task("hold", u)]
    /\ OnlyTasks

\* sem.acquire, then findByName.
Acquire(t) ==
    LET u == rows[owner[t[1]].name] IN
    /\ tasks[t].pc = "acquire" /\ permits > 0
    /\ HasStatus(u)
    /\ permits' = permits - 1
    /\ tasks' = [tasks EXCEPT ![t] = Task("hold", u)]
    /\ OnlyTasks

\* orElseThrow, or getSstatus() of a user registered anew, throws.
AcquireFailed(t) ==
    LET u == rows[owner[t[1]].name] IN
    /\ tasks[t].pc = "acquire" /\ permits > 0
    /\ ~HasStatus(u)
    /\ permits' = permits - 1
    /\ tasks' = [tasks EXCEPT ![t] = Ended]
    /\ OnlyTasks

\* The user the task has read, while it holds the permit.
Holding(t, kind, statuses) ==
    tasks[t].pc = "hold" /\ t[2] = kind /\ tasks[t].user.sstatus \in statuses

\* Mutant: release inside the branches that change something.
SkipUnreleased(t) ==
    /\ tasks[t].pc = "hold" /\ tasks[t].user.sstatus = "INVALIDATED"
    /\ tasks' = [tasks EXCEPT ![t] = Rearmed(t[1])]
    /\ UNCHANGED permits /\ OnlyTasks

\* A round that has nothing to change.
Skip(t) ==
    /\ tasks[t].pc = "hold" /\ tasks[t].user.sstatus = "INVALIDATED"
    /\ release
    /\ tasks' = [tasks EXCEPT ![t] = Rearmed(t[1])]
    /\ OnlyTasks

PublishChallenge(t) ==
    LET u == tasks[t].user IN
    /\ Holding(t, "publish", SessionStatus \ {"INVALIDATED"})
    /\ publishTo(owner[t[1]].name)
    /\ \E s \in FreshSecrets(owner[t[1]].name) : tasks' = [tasks EXCEPT ![t] = Task("commit", Rotated(u, s))]
    /\ release
    /\ UNCHANGED <<rows, diaries, reqs, executorVars>>

\* handleActivity of a session without a request since the last round.
KickOut(t) ==
    LET o == owner[t[1]] IN
    /\ Holding(t, "activity", {"WAITING", "INITIATING"})
    /\ IF Kafka THEN closable(o.name) /\ closeTopic(o.name) ELSE UNCHANGED topicVars
    /\ ShutDown(kafkaTiming[o.id])
    /\ tasks' = [Cancelled(kafkaTiming[o.id]) EXCEPT
                   ![t] = Task("commit", KickedOut(tasks[t].user))]
    /\ release
    /\ UNCHANGED <<rows, diaries, reqs, owner, kafkaTiming>>

\* handleActivity of a session that has been used.
Demote(t) ==
    /\ Holding(t, "activity", {"VALIDATED"})
    /\ tasks' = [tasks EXCEPT ![t] = Task("commit", Demoted(tasks[t].user))]
    /\ release
    /\ OnlyTasks

\* A call to ZooKeeper or Kafka throws: the broker fails, shutdownNow interrupts
\* the call, or there is no topic to delete.
KafkaCallFails(t) ==
    /\ Kafka
    /\ \/ /\ Holding(t, "publish", SessionStatus \ {"INVALIDATED"})
          /\ KafkaFails \/ down[t[1]] = "stopped"
          /\ openTopic(owner[t[1]].name) \/ UNCHANGED topicVars
       \/ /\ Holding(t, "activity", {"WAITING", "INITIATING"})
          /\ KafkaFails \/ down[t[1]] = "stopped" \/ ~closable(owner[t[1]].name)
          /\ UNCHANGED topicVars
    /\ tasks' = [tasks EXCEPT ![t] = Ended]
    /\ UNCHANGED <<rows, diaries, reqs, executorVars, permits>>

\* The commit of a round; it throws when the row is gone.
TaskCommit(t) ==
    LET n == owner[t[1]].name
        u == tasks[t].user IN
    /\ tasks[t].pc = "commit"
    /\ IF Persisted(n, u)
       THEN Save(n, u) /\ tasks' = [tasks EXCEPT ![t] = Rearmed(t[1])]
       ELSE tasks' = [tasks EXCEPT ![t] = Ended] /\ UNCHANGED rows
    /\ UNCHANGED <<diaries, reqs, executorVars, permits, topicVars>>

Round(t) ==
    \/ Skip(t) \/ PublishChallenge(t) \/ KickOut(t) \/ Demote(t)
    \/ KafkaCallFails(t) \/ TaskCommit(t)
=============================================================================
