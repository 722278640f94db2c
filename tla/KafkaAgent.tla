----------------------------- MODULE KafkaAgent -----------------------------
(***************************************************************************)
(* KafkaAgentServiceImpl: the topics the server opens and closes for its   *)
(* users.  Its callers hold the semaphore of ScheduleTask, so a call is    *)
(* one step.  Deletion is asynchronous: ZooKeeper marks the topic, and the *)
(* broker removes it later.                                                *)
(***************************************************************************)
EXTENDS ZKAuthState

TopicStates == {"absent", "present", "deleting"}

\* A topic that is marked for deletion still exists for topicExists.
topicExists(n) == topics[n] # "absent"

\* A cached topic is not looked up again.
openTopic(n) ==
    /\ openTopics' = openTopics \cup {n}
    /\ topics' = IF n \in openTopics \/ topicExists(n)
                 THEN topics
                 ELSE [topics EXCEPT ![n] = "present"]

\* Mutant: openTopic without openTopics.add.
publishUnrecorded(n) ==
    /\ topics' = [topics EXCEPT ![n] = IF topicExists(n) THEN @ ELSE "present"]
    /\ UNCHANGED openTopics

\* openTopic, then send.  The broker creates a topic on the first message sent
\* to it; the message itself may be lost, which onFailure only logs.
publishTo(n) ==
    /\ openTopics' = openTopics \cup {n}
    /\ topics' = [topics EXCEPT ![n] = IF topicExists(n) THEN @ ELSE "present"]

\* AdminUtils.deleteTopic throws when the topic is unknown or already marked.
closable(n) == topics[n] = "present"

closeTopic(n) ==
    /\ topics' = [topics EXCEPT ![n] = "deleting"]
    /\ openTopics' = openTopics \ {n}

\* The broker completes a deletion.
TopicDeleted(n) ==
    /\ topics[n] = "deleting"
    /\ topics' = [topics EXCEPT ![n] = "absent"]
    /\ UNCHANGED <<rows, diaries, reqs, tasks, executorVars, permits, openTopics>>
=============================================================================
