-------------------------- MODULE ExecutorService --------------------------
(***************************************************************************)
(* The ScheduledExecutorService of java.util.concurrent as the services    *)
(* use it, and scheduleAuthTask, which gives a session its executor.       *)
(***************************************************************************)
EXTENDS ZKAuthState

\* shutdown() drops the periodic tasks that are not running; a running one
\* finishes its round.
Cancelled(e) ==
    [t \in Tasks |-> IF t[1] = e /\ tasks[t].pc \in {"new", "scheduled"}
                     THEN Ended ELSE tasks[t]]

\* shutdownNow() also interrupts the running ones: a task waiting in
\* sem.acquire() ends there, holding nothing.
Interrupted(e) ==
    [t \in Tasks |-> IF t[1] = e /\ tasks[t].pc \in {"new", "scheduled", "acquire"}
                     THEN Ended ELSE tasks[t]]

ShutDown(e) ==
    down' = [down EXCEPT ![e] = IF @ = "running" THEN "shutdown" ELSE @]

\* The executor of a session that is rejected, when it has one.
ShutdownNow(i) ==
    IF kafkaTiming[i] = Null
    THEN UNCHANGED <<tasks, down>>
    ELSE /\ down' = [down EXCEPT ![kafkaTiming[i]] = "stopped"]
         /\ tasks' = Interrupted(kafkaTiming[i])

\* Mutant: without kafkaTiming.put.
scheduleUnregistered(n, u) ==
    \E e \in FreshExecutors :
        /\ tasks' = [tasks EXCEPT ![<<e, "activity">>] = Scheduled]
        /\ owner' = [owner EXCEPT ![e] = [name |-> n, id |-> u.id]]
        /\ down' = [down EXCEPT ![e] = "running"]
        /\ UNCHANGED kafkaTiming

\* The first publication starts at once, the first activity check one
\* threshold later.
scheduleAuthTask(n, u) ==
    \E e \in FreshExecutors :
        /\ tasks' = [tasks EXCEPT
                       ![<<e, "publish">>]  = IF Kafka THEN Task("new", Null) ELSE Ended,
                       ![<<e, "activity">>] = Scheduled]
        /\ owner' = [owner EXCEPT ![e] = [name |-> n, id |-> u.id]]
        /\ down' = [down EXCEPT ![e] = "running"]
        /\ kafkaTiming' = [kafkaTiming EXCEPT ![u.id] = e]

\* Mutant: schedule instead of scheduleAtFixedRate.
RunOnce(e) == Ended

\* scheduleAtFixedRate runs a task again unless its executor was shut down.
Rearmed(e) == IF down[e] = "running" THEN Scheduled ELSE Ended
=============================================================================
