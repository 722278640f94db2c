---------------------------- MODULE ZKAuthState ----------------------------
(***************************************************************************)
(* The state of one SpringZKAuth server: the two tables of its database,   *)
(* the requests in flight, the per-session executors with their periodic   *)
(* tasks, the semaphore of the task service and the Kafka topics.          *)
(*                                                                         *)
(* A user's secret y stands for everything computed from it: the challenge *)
(* g^y mod N the client receives and the token (g^x)^y mod N the client    *)
(* sends back.  A token is therefore the secret it answers, Wrong (it      *)
(* answers no challenge now stored), or Null (no ZKAuth-Token header).     *)
(***************************************************************************)
EXTENDS Naturals, FiniteSets

CONSTANTS
    Names,      \* user names clients work with
    Ids,        \* values of the user_seq sequence in use at one time
    Secrets,    \* values of y in use at one time
    Executors,  \* ScheduledExecutorService instances alive at one time
    Requests,   \* servlet threads, each serving one HTTP request at a time
    Entries,    \* names of diary entries
    Workload,   \* the operations clients call, a subset of Operations
    Kafka,      \* the kafka.enabled setting
    SpareExecutor, \* a bound: see ExecutorBound in ZKAuth
    KafkaFails, \* calls to ZooKeeper and Kafka may throw
    Null,       \* Java's null, SQL's NULL, an empty Optional
    Wrong       \* a token that answers no challenge

Operations == {"register", "fetch", "remove", "add", "delete", "list"}
Kinds == {"publish", "activity"}
Tasks == Executors \X Kinds

VARIABLES
    rows,        \* table user: the row of each name (name is unique), or Null
    diaries,     \* table diary: the <<username, entryname>> pairs stored
    reqs,        \* the request each servlet thread is serving
    tasks,       \* the periodic task of each kind of each executor
    owner,       \* the User object each executor's tasks have captured
    down,        \* "running", "shutdown" or "stopped", for each executor
    kafkaTiming, \* UserServiceImpl's map from user id to executor
    permits,     \* permits of ScheduleTaskServiceImpl's Semaphore(1)
    openTopics,  \* KafkaAgentServiceImpl's set of topics known to be open
    topics       \* the topics the broker has

executorVars == <<owner, down, kafkaTiming>>
topicVars == <<openTopics, topics>>
vars == <<rows, diaries, reqs, tasks, executorVars, permits, topicVars>>

\* Steps that change one thing only.
OnlyRequests == UNCHANGED <<rows, diaries, tasks, executorVars, permits, topicVars>>
OnlyTasks    == UNCHANGED <<rows, diaries, reqs, executorVars, topicVars>>

-----------------------------------------------------------------------------
\* User entities.  "NONE" is the NULL sstatus of a user never challenged.

SessionStatus == {"VALIDATED", "WAITING", "INVALIDATED", "INITIATING"}

User == [id      : Ids,
         secret  : Secrets \cup {Null},
         sstatus : SessionStatus \cup {"NONE"}]

ASSUME NullAssumption ==
    /\ Null \notin Names \cup Ids \cup Secrets \cup Executors \cup Operations
    /\ Null \notin User
ASSUME WrongAssumption == Wrong \notin Secrets \cup {Null}
ASSUME SettingAssumption ==
    /\ Workload \subseteq Operations
    /\ Kafka \in BOOLEAN
    /\ KafkaFails \in BOOLEAN
    /\ SpareExecutor \in BOOLEAN

Registered(i)    == [id |-> i, secret |-> Null, sstatus |-> "NONE"]
Challenged(u, s) == [u EXCEPT !.secret = s, !.sstatus = "INITIATING"]
Validated(u)     == [u EXCEPT !.sstatus = "VALIDATED"]
Rotated(u, s)    == [u EXCEPT !.secret = s]
Demoted(u)       == [u EXCEPT !.sstatus = "WAITING"]

\* Mutant: the secret is not set to null.
SecretKept(u)    == [u EXCEPT !.sstatus = "INVALIDATED"]
KickedOut(u)     == [u EXCEPT !.secret = Null, !.sstatus = "INVALIDATED"]

\* Mutant: the statement names the user, not the row.
HasName(n, i) == rows[n] # Null

\* An UPDATE or DELETE ... WHERE id = i finds its row; Hibernate throws when it
\* does not.
HasId(n, i) == rows[n] # Null /\ rows[n].id = i
Persisted(n, u) == HasId(n, u.id)

\* The UPDATE writes every column of the entity: there is no @DynamicUpdate and
\* no @Version.
Save(n, u) == rows' = [rows EXCEPT ![n] = u]

-----------------------------------------------------------------------------
\* The periodic tasks.

Task(pc, u) == [pc |-> pc, user |-> u]
Scheduled == Task("scheduled", Null)
Ended     == Task("ended", Null)
TaskPcs == {"new", "scheduled", "acquire", "hold", "commit", "ended"}

Captured == [name : Names, id : Ids]
Live(e) == \E k \in Kinds : tasks[<<e, k>>].pc # "ended"

-----------------------------------------------------------------------------
\* A request in flight.  user is the entity managed by the innermost
\* transaction.  While removeByName runs the nested one, outer is the id of the
\* entity of its own and dirty whether verify has changed it; listed and victim
\* are the entries and the id of the user it will delete.

RequestPcs == {"idle", "insert", "verify", "challenge", "commit", "nested",
               "list", "purge", "body", "erase"}

\* HTTP status codes: the controllers' own, and those the handlers in
\* web/handlers make of an exception.
OK           == 200
Created      == 201
Unauthorized == 401     \* AccessDeniedException, whose message is the challenge
NotFound     == 404     \* EmptyResultDataAccessException
Conflict     == 409     \* DataIntegrityViolationException
ServerError  == 500     \* any other exception
Codes == {0, OK, Created, Unauthorized, NotFound, Conflict, ServerError}

Request == [pc        : RequestPcs,
            op        : Operations \cup {Null},
            name      : Names \cup {Null},
            entry     : Entries \cup {Null},
            token     : Secrets \cup {Wrong, Null},
            user      : User \cup {Null},
            outer     : Ids \cup {Null},
            dirty     : BOOLEAN,
            listed    : SUBSET Entries,
            victim    : Ids \cup {Null},
            code      : Codes]

\* A thread without a request keeps the answer to its last one.
Idle(c) ==
    [pc |-> "idle", op |-> Null, name |-> Null, entry |-> Null, token |-> Null,
     user |-> Null, outer |-> Null, dirty |-> FALSE, listed |-> {}, victim |-> Null,
     code |-> c]

Incoming(o, n, d, tok) ==
    [Idle(0) EXCEPT !.op = o, !.name = n, !.entry = d, !.token = tok]

Reply(r, c) == reqs' = [reqs EXCEPT ![r] = Idle(c)]

-----------------------------------------------------------------------------
\* Values that nothing refers to any more may be drawn again, so that a few
\* stand for the server's unbounded supply of 256-bit secrets, sequence numbers
\* and executors.  They are interchangeable, so one of them stands for any.

AnyOf(S) == IF S = {} THEN {} ELSE {CHOOSE x \in S : TRUE}

LiveUsers == ({rows[n] : n \in Names} \cup {reqs[r].user : r \in Requests}
              \cup {tasks[t].user : t \in Tasks}) \ {Null}

\* A token is only ever compared with the secrets of the user it is sent for.
UsersOf(n) ==
    ({rows[n]} \cup {reqs[r].user : r \in {x \in Requests : reqs[x].name = n}}
     \cup {tasks[t].user : t \in {x \in Tasks : Live(x[1]) /\ owner[x[1]].name = n}})
    \ {Null}

FreshSecrets(n) ==
    AnyOf(Secrets \ ( {u.secret : u \in UsersOf(n)}
                      \cup {reqs[r].token : r \in {x \in Requests : reqs[x].name = n}} ))

UsedIds ==
    {u.id : u \in LiveUsers}
    \cup {owner[e].id : e \in {x \in Executors : Live(x)}}
    \cup UNION {{reqs[r].outer, reqs[r].victim} : r \in Requests}

FreshIds == AnyOf(Ids \ UsedIds)

FreeExecutors ==
    {e \in Executors : ~Live(e) /\ \A i \in UsedIds \cap Ids : kafkaTiming[i] # e}

FreshExecutors == AnyOf(FreeExecutors)
=============================================================================
