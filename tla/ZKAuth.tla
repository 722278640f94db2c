------------------------------- MODULE ZKAuth -------------------------------
(***************************************************************************)
(* The server: its request threads, its session tasks and its topics run   *)
(* concurrently over the tables, kafkaTiming and the semaphore.            *)
(***************************************************************************)
EXTENDS DiaryService, ScheduleTask

\* An empty database (ddl-auto: create-drop) and a broker without topics.
Init ==
    /\ rows = [n \in Names |-> Null]
    /\ diaries = {}
    /\ reqs = [r \in Requests |-> Idle(0)]
    /\ tasks = [t \in Tasks |-> Ended]
    /\ owner = [e \in Executors |-> Null]
    /\ down = [e \in Executors |-> "stopped"]
    /\ kafkaTiming = [i \in Ids |-> Null]
    /\ permits = 1
    /\ openTopics = {}
    /\ topics = [n \in Names |-> "absent"]

\* A bound: a request that may start an executor arrives only while the pool has
\* one left; with SpareExecutor, so does every other authenticated request.
ExecutorBound(n) ==
    \/ FreeExecutors # {}
    \/ ~SpareExecutor /\ rows[n] # Null /\ rows[n].sstatus # "INITIATING"

Arrival(r) ==
    \/ Register(r)
    \/ \E n \in Names :
          /\ ExecutorBound(n)
          /\ \/ Fetch(r, n) \/ RemoveByName(r, n)
             \/ Add(r, n) \/ RemoveEntry(r, n) \/ FetchByUsername(r, n)

Step(r) == UserServiceStep(r) \/ DiaryServiceStep(r)

Next ==
    \/ \E r \in Requests : Arrival(r) \/ Step(r)
    \/ \E t \in Tasks : Fire(t) \/ Acquire(t) \/ AcquireFailed(t) \/ Round(t)
    \/ \E n \in Names : TopicDeleted(n)

Spec == Init /\ [][Next]_vars

\* Threads and timers run; a task waiting for the permit gets it if it is free
\* again and again, because rounds are milliseconds long and seconds apart.
\* Clients owe nothing.
Fairness ==
    /\ \A r \in Requests : WF_vars(Step(r))
    /\ \A t \in Tasks : /\ WF_vars(Fire(t))
                        /\ SF_vars(Acquire(t) \/ AcquireFailed(t))
                        /\ WF_vars(Round(t))
    /\ \A n \in Names : WF_vars(TopicDeleted(n))

FairSpec == Spec /\ Fairness

-----------------------------------------------------------------------------
\* The type of every variable.
TypeOK ==
    /\ rows \in [Names -> User \cup {Null}]
    /\ diaries \subseteq Names \X Entries
    /\ reqs \in [Requests -> Request]
    /\ tasks \in [Tasks -> [pc : TaskPcs, user : User \cup {Null}]]
    /\ owner \in [Executors -> Captured \cup {Null}]
    /\ down \in [Executors -> {"running", "shutdown", "stopped"}]
    /\ kafkaTiming \in [Ids -> Executors \cup {Null}]
    /\ permits \in {0, 1}
    /\ openTopics \subseteq Names
    /\ topics \in [Names -> TopicStates]

-----------------------------------------------------------------------------
\* A user has a secret exactly while it is challenged or in a session.
Consistent(u) == u.secret = Null <=> u.sstatus \in {"NONE", "INVALIDATED"}

(* The secret and the status of a user are written by the transactions of  *)
(* two services, each over the columns it once read; however they          *)
(* interleave, a stored user never has a session without a secret, which   *)
(* verify would dereference, nor a secret without a session, which no      *)
(* activity check would ever remove.                                       *)
SecretMatchesStatus == \A n \in Names : rows[n] # Null => Consistent(rows[n])

(* At most one round of all the tasks of the server is between acquire and *)
(* release, whatever fails, and the permit is not free then: openTopics, a *)
(* plain HashSet, is never used by two threads.                            *)
Holders == {t \in Tasks : tasks[t].pc = "hold"}
OneHolder ==
    /\ \A t1, t2 \in Holders : t1 = t2
    /\ Holders # {} => permits = 0

(* As long as no user is removed and no call to Kafka throws, the permit   *)
(* is free or a round holds it: no round ends without giving it back.      *)
PermitAccounted == permits = 0 => Holders # {}

-----------------------------------------------------------------------------
\* The inductive invariant behind TypeOK, SecretMatchesStatus and OneHolder: what is
\* stored is consistent because every entity that a transaction may still write is.

ConsistentUser == {u \in User : Consistent(u)}
KnownUser == {u \in ConsistentUser : u.sstatus # "NONE"}

\* A request has read a user by the time it verifies or challenges, verifies
\* against a secret, and commits a user that is known: challenged at least once.
\* It is where only its operation leads.
ConsistentRequest ==
    {q \in Request :
        /\ q.pc # "idle" => q.name \in Names
        /\ q.pc \in {"verify", "challenge"} => q.user \in ConsistentUser
        /\ q.pc = "verify" => q.user.secret # Null
        /\ q.pc = "commit" => q.user \in KnownUser
        /\ q.pc \in {"nested", "list", "purge"} => q.op = "remove"
        /\ q.pc = "erase" => q.op = "delete"
        /\ q.op \in {"add", "delete"} => q.entry \in Entries}

\* A task has read a known user by the time it holds the permit.
ConsistentTask ==
    {x \in [pc : TaskPcs, user : User \cup {Null}] :
        x.pc \in {"hold", "commit"} => x.user \in KnownUser}

(* Every entity in flight is consistent, every task that may still run     *)
(* knows the user it runs for, and the permit is not free while a round    *)
(* holds it, so that giving it back never makes it two.                    *)
IInv ==
    /\ TypeOK
    /\ rows \in [Names -> ConsistentUser \cup {Null}]
    /\ reqs \in [Requests -> ConsistentRequest]
    /\ tasks \in [Tasks -> ConsistentTask]
    /\ \A t \in Tasks : tasks[t].pc # "ended" => owner[t[1]] \in Captured
    /\ OneHolder

-----------------------------------------------------------------------------
\* Sessions and their executors.

InSession(n) == rows[n] # Null /\ rows[n].sstatus \in {"VALIDATED", "WAITING"}
Silent(n) == \A r \in Requests : reqs[r].name # n

(* Every user in a session has had an executor registered for its id, and  *)
(* a round that holds the permit finds one for the id it has captured: the *)
(* get in handleActivity never returns null.                               *)
TimerRegistered ==
    /\ \A n \in Names : InSession(n) => kafkaTiming[rows[n].id] # Null
    /\ \A t \in Holders : kafkaTiming[owner[t[1]].id] # Null

\* The executor kafkaTiming has for the user still runs.
Timed(n) ==
    /\ rows[n] # Null
    /\ kafkaTiming[rows[n].id] # Null
    /\ down[kafkaTiming[rows[n].id]] = "running"

(* The session of a client that stays silent ends.                         *)
SilentSessionExpires == \A n \in Names : []<>~(Silent(n) /\ InSession(n))

(* The session of a client that stays silent ends unless its executor is   *)
(* stopped: its activity task keeps getting the permit that the tasks of   *)
(* all users share.                                                        *)
TimedSessionExpires == \A n \in Names : []<>~(Silent(n) /\ InSession(n) /\ Timed(n))

-----------------------------------------------------------------------------
\* What requests are answered, and what they change.

(* A transaction that read a user never writes over the row of a user who  *)
(* has since been registered under the same name.                          *)
IncarnationStable ==
    [][\A n \in Names : rows[n] # Null /\ rows'[n] # Null => rows'[n].id = rows[n].id]_rows

\* The step answers the request of r with code c.
Answers(r, c) == reqs[r].pc # "idle" /\ reqs'[r].pc = "idle" /\ reqs'[r].code = c

(* A 401 answer carries a challenge the server has stored and waits for,   *)
(* so that the client's answer to it can succeed.                          *)
ChallengeIsPersisted ==
    [][\A r \in Requests : Answers(r, Unauthorized) =>
          LET u == rows'[reqs[r].name] IN u # Null /\ u.sstatus = "INITIATING"]_vars

(* A challenge that replaced the secret of a user is effective at once: a  *)
(* request that is granted never brings an earlier secret back.            *)
RotationEffective ==
    [][\A r \in Requests : Answers(r, OK) =>
          \A n \in Names : rows[n] # Null /\ rows'[n] # Null
                             => rows'[n].secret = rows[n].secret]_vars

(* Every stored diary entry belongs to a registered user.                  *)
NoOrphanDiaries == \A d \in diaries : rows[d[1]] # Null

(* When removeByName succeeds, neither the user nor any of its entries is  *)
(* left.                                                                   *)
RemovalIsComplete ==
    [][\A r \in Requests : reqs[r].op = "remove" /\ Answers(r, OK) =>
          /\ rows'[reqs[r].name] = Null
          /\ \A d \in Entries : <<reqs[r].name, d>> \notin diaries']_vars

\* Who is registered and who was challenged, as the rows show it: a status is
\* written with the first challenge and never taken back.
IdOf(n) == IF rows[n] = Null THEN Null ELSE rows[n].id

Abstract == INSTANCE Registry WITH
                id      <- [n \in Names |-> IdOf(n)],
                known   <- {n \in Names : HasStatus(rows[n])},
                entries <- diaries

(* As long as one request is served at a time, the transactions, retries   *)
(* and tasks over the two tables amount to a registry: whatever they leave *)
(* half done or undone is in the secrets and the statuses, not in who is   *)
(* registered and which entries there are.                                 *)
IsRegistry == Abstract!Spec

-----------------------------------------------------------------------------
\* Topics.

(* A topic the broker has, and does not delete already, is one the server  *)
(* knows as open: no deletion that overtakes a new session hides it.       *)
OpenTopicsComplete == \A n \in Names : topics[n] = "present" => n \in openTopics

(* The topic of a user that has been removed is deleted.                   *)
TopicsScaleDown ==
    \A n \in Names : rows[n] = Null ~> (rows[n] # Null \/ topics[n] = "absent")
=============================================================================
