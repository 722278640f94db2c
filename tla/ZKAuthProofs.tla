---------------------------- MODULE ZKAuthProofs ----------------------------
(***************************************************************************)
(* Proofs about ZKAuth, for any number of users, request threads,          *)
(* executors and values, with and without Kafka.                           *)
(***************************************************************************)
EXTENDS ZKAuth, TLAPS

-----------------------------------------------------------------------------
\* What the helpers of ZKAuthState return.

(* A value drawn from a pool is one of the pool.                           *)
LEMMA AnyOfSubset == ASSUME NEW S PROVE AnyOf(S) \subseteq S
  BY DEF AnyOf

(* Fresh values are of their kind.                                         *)
LEMMA FreshTypes ==
    /\ \A n \in Names : FreshSecrets(n) \subseteq Secrets
    /\ FreshIds \subseteq Ids
    /\ FreshExecutors \subseteq Executors
  BY AnyOfSubset DEF FreshSecrets, FreshIds, FreshExecutors, FreeExecutors

(* Every change the services make to an entity keeps it consistent and     *)
(* leaves a status in it, given what they have checked before.             *)
LEMMA EntityChanges ==
    ASSUME NEW u \in ConsistentUser, NEW s \in Secrets
    PROVE  /\ Challenged(u, s) \in KnownUser
           /\ KickedOut(u) \in KnownUser
           /\ u.secret # Null => Validated(u) \in KnownUser
           /\ u.sstatus \notin {"NONE", "INVALIDATED"} => Rotated(u, s) \in KnownUser
           /\ u.sstatus = "VALIDATED" => Demoted(u) \in KnownUser
  BY NullAssumption DEF KnownUser, ConsistentUser, Consistent, User, SessionStatus,
     Challenged, KickedOut, Validated, Rotated, Demoted

(* A new user is consistent: it has neither a secret nor a session.        *)
LEMMA RegisteredConsistent ==
    ASSUME NEW i \in Ids PROVE Registered(i) \in ConsistentUser
  BY DEF Registered, ConsistentUser, Consistent, User, SessionStatus

(* A thread that has answered its request is consistent.                   *)
LEMMA IdleConsistent == ASSUME NEW c \in Codes PROVE Idle(c) \in ConsistentRequest
  BY NullAssumption DEF Idle, ConsistentRequest, Request, RequestPcs, Operations

(* So is one that has received a request, whatever the request carries.    *)
LEMMA IncomingConsistent ==
    ASSUME NEW o \in Operations, NEW n \in Names, NEW d \in Entries \cup {Null},
           NEW tok \in Secrets \cup {Wrong, Null},
           o \in {"add", "delete"} => d \in Entries
    PROVE  /\ Incoming(o, n, d, tok) \in ConsistentRequest
           /\ Incoming(o, n, d, tok).name = n
           /\ Incoming(o, n, d, tok).user = Null
<1>1. 0 \in Codes
  BY DEF Codes
<1> QED
  BY <1>1 DEF Idle, Incoming, ConsistentRequest, Request, RequestPcs

(* The values the services give to a task are consistent.                  *)
LEMMA TaskValues ==
    /\ Ended \in ConsistentTask
    /\ Scheduled \in ConsistentTask
    /\ \A pc \in {"new", "acquire"} : Task(pc, Null) \in ConsistentTask
    /\ \A pc \in {"hold", "commit"}, u \in KnownUser : Task(pc, u) \in ConsistentTask
    /\ \A e \in Executors : Rearmed(e) \in ConsistentTask
  BY DEF Ended, Scheduled, Task, ConsistentTask, TaskPcs, Rearmed, KnownUser, ConsistentUser

(* What a shutdown does to the tasks of an executor leaves them            *)
(* consistent, ends some and starts no round.                              *)
LEMMA TaskUpdates ==
    ASSUME tasks \in [Tasks -> ConsistentTask], NEW e
    PROVE  /\ Cancelled(e) \in [Tasks -> ConsistentTask]
           /\ Interrupted(e) \in [Tasks -> ConsistentTask]
           /\ \A t \in Tasks : /\ Cancelled(e)[t] \in {tasks[t], Ended}
                              /\ Interrupted(e)[t] \in {tasks[t], Ended}
  BY TaskValues DEF Cancelled, Interrupted

(* Reading a user by name is the step every authenticated request takes.   *)
LEMMA ReadConsistent ==
    ASSUME rows \in [Names -> ConsistentUser \cup {Null}],
           NEW q \in ConsistentRequest, q.name \in Names
    PROVE  Read(q) \in ConsistentRequest
<1>1. CASE rows[q.name] = Null
  BY <1>1, IdleConsistent DEF Read, Codes
<1>2. CASE rows[q.name] \in ConsistentUser
  <2> DEFINE u == rows[q.name]
  <2>1. /\ Read(q) = [q EXCEPT !.user = u,
                        !.pc = IF u.secret = Null THEN "challenge" ELSE "verify"]
        /\ u # Null
    BY <1>2, NullAssumption DEF Read, ConsistentUser
  <2> QED
    BY <1>2, <2>1 DEF ConsistentRequest, Request, RequestPcs, ConsistentUser
<1> QED
  BY <1>1, <1>2

(* A request commits a user it has changed.                                *)
LEMMA CommitConsistent ==
    ASSUME NEW q \in ConsistentRequest, q.pc # "idle", NEW u \in KnownUser
    PROVE  [q EXCEPT !.pc = "commit", !.user = u] \in ConsistentRequest
<1> DEFINE q2 == [q EXCEPT !.pc = "commit", !.user = u]
<1>1. u \in User /\ q \in Request
  BY DEF KnownUser, ConsistentUser, ConsistentRequest
<1>2. /\ q2 \in Request
      /\ q2.pc = "commit" /\ q2.user = u
      /\ q2.name = q.name /\ q2.op = q.op /\ q2.entry = q.entry
  BY <1>1 DEF Request, RequestPcs
<1> HIDE DEF q2
<1>3. q2 \in ConsistentRequest
  BY <1>2 DEF ConsistentRequest
<1> QED
  BY <1>3 DEF q2

(* Whatever its caller does next, a granted request is consistent.         *)
LEMMA GrantedConsistent ==
    ASSUME NEW q \in ConsistentRequest, q.pc # "idle"
    PROVE  Granted(q) \in ConsistentRequest
<1>1. CASE q.op = "fetch"
  BY <1>1, IdleConsistent DEF Granted, Codes
<1>2. CASE q.op = "remove"
  BY <1>2 DEF Granted, ConsistentRequest, Request, RequestPcs
<1>3. CASE q.op \notin {"fetch", "remove"}
  BY <1>3 DEF Granted, ConsistentRequest, Request, RequestPcs
<1> QED
  BY <1>1, <1>2, <1>3

-----------------------------------------------------------------------------
\* IInv is inductive.

(* A server that starts is consistent.                                     *)
LEMMA InitInv == Init => IInv
<1> SUFFICES ASSUME Init PROVE IInv
  OBVIOUS
<1>1. reqs \in [Requests -> ConsistentRequest] /\ reqs \in [Requests -> Request]
  BY IdleConsistent DEF Init, Codes, ConsistentRequest
<1>2. tasks \in [Tasks -> ConsistentTask]
  BY TaskValues DEF Init
<1> QED
  BY <1>1, <1>2 DEF Init, IInv, TypeOK, OneHolder, Holders, TopicStates, ConsistentTask, Ended, Task

(* A step at which no round begins, and the permit stays where it is,      *)
(* leaves at most one holder.                                              *)
LEMMA NoNewHolder ==
    ASSUME OneHolder, permits' = permits,
           \A t \in Tasks : tasks'[t].pc = "hold" => tasks[t].pc = "hold"
    PROVE  OneHolder'
  BY DEF OneHolder, Holders

(* The holder that gives the permit back leaves none.                      *)
LEMMA ReleaseStep ==
    ASSUME IInv, NEW t \in Holders, release, tasks'[t].pc # "hold",
           \A x \in Tasks : tasks'[x].pc = "hold" => tasks[x].pc = "hold"
    PROVE  OneHolder' /\ permits' = 1
<1>1. permits = 0 /\ \A x \in Holders : x = t
  BY DEF IInv, OneHolder
<1>2. Holders' = {}
  BY <1>1 DEF Holders
<1> QED
  BY <1>1, <1>2 DEF OneHolder, release

(* The parts of IInv about the table and the requests, for a step that     *)
(* gives one request a consistent record.                                  *)
LEMMA RequestUpdate ==
    ASSUME IInv, NEW r \in Requests, NEW q \in ConsistentRequest,
           reqs' = [reqs EXCEPT ![r] = q]
    PROVE  /\ reqs' \in [Requests -> ConsistentRequest]
           /\ reqs' \in [Requests -> Request]
  BY DEF IInv, ConsistentRequest

(* A step that only gives one request a consistent record.                 *)
LEMMA OnlyRequestsStep ==
    ASSUME IInv, NEW r \in Requests, NEW q \in ConsistentRequest,
           reqs' = [reqs EXCEPT ![r] = q], OnlyRequests
    PROVE  IInv'
  BY RequestUpdate
     DEF OnlyRequests, IInv, TypeOK, OneHolder, Holders, executorVars, topicVars

(* Answering a request is such a step when it changes nothing else.        *)
LEMMA ReplyStep ==
    ASSUME IInv, NEW r \in Requests, NEW c \in Codes, Reply(r, c), OnlyRequests
    PROVE  IInv'
  BY OnlyRequestsStep, IdleConsistent DEF Reply

(* A request that arrives finds a consistent user or none.                 *)
LEMMA ArrivalStep ==
    ASSUME IInv, NEW r \in Requests, Arrival(r)
    PROVE  IInv'
<1>1. ASSUME Register(r) PROVE IInv'
  <2>1. PICK n \in Names :
          \/ Reply(r, Conflict)
          \/ reqs' = [reqs EXCEPT ![r] =
                        [Incoming("register", n, Null, Null) EXCEPT !.pc = "insert"]]
    BY <1>1 DEF Register
  <2> DEFINE q == Incoming("register", n, Null, Null)
  <2>2. q \in ConsistentRequest /\ q.name = n
    BY IncomingConsistent DEF Operations
  <2>3. [q EXCEPT !.pc = "insert"] \in ConsistentRequest
    BY <2>2 DEF ConsistentRequest, Request, RequestPcs
  <2>4. Conflict \in Codes
    BY DEF Codes
  <2> QED
    BY <1>1, <2>1, <2>3, <2>4, OnlyRequestsStep, ReplyStep DEF Register
<1>2. ASSUME NEW o \in Operations, NEW n \in Names, NEW d \in Entries \cup {Null},
             o \in {"add", "delete"} => d \in Entries, Receive(r, o, n, d)
      PROVE  IInv'
  <2>1. PICK tok \in Tokens(n) :
          reqs' = [reqs EXCEPT ![r] = Read(Incoming(o, n, d, tok))]
    BY <1>2 DEF Receive
  <2>2. tok \in Secrets \cup {Wrong, Null}
    BY DEF IInv, TypeOK, Tokens, User
  <2>3. Incoming(o, n, d, tok) \in ConsistentRequest /\ Incoming(o, n, d, tok).name = n
    BY <1>2, <2>2, IncomingConsistent
  <2>5. Read(Incoming(o, n, d, tok)) \in ConsistentRequest
    BY <2>3, ReadConsistent DEF IInv
  <2> QED
    BY <1>2, <2>1, <2>5, OnlyRequestsStep DEF Receive
<1> QED
  BY <1>1, <1>2 DEF Arrival, Fetch, RemoveByName, Add, RemoveEntry, FetchByUsername, Operations

(* scheduleAuthTask for a user whose request is being verified.            *)
LEMMA ScheduleStep ==
    ASSUME IInv, NEW n \in Names, NEW u \in User, scheduleAuthTask(n, u)
    PROVE  /\ tasks' \in [Tasks -> ConsistentTask]
           /\ owner' \in [Executors -> Captured \cup {Null}]
           /\ down' \in [Executors -> {"running", "shutdown", "stopped"}]
           /\ kafkaTiming' \in [Ids -> Executors \cup {Null}]
           /\ \A t \in Tasks : tasks'[t].pc # "ended" => owner'[t[1]] \in Captured
           /\ \A t \in Tasks : tasks'[t].pc = "hold" => tasks[t].pc = "hold"
<1>1. PICK e \in FreshExecutors :
        /\ tasks' = [tasks EXCEPT
                       ![<<e, "publish">>]  = IF Kafka THEN Task("new", Null) ELSE Ended,
                       ![<<e, "activity">>] = Scheduled]
        /\ owner' = [owner EXCEPT ![e] = [name |-> n, id |-> u.id]]
        /\ down' = [down EXCEPT ![e] = "running"]
        /\ kafkaTiming' = [kafkaTiming EXCEPT ![u.id] = e]
  BY DEF scheduleAuthTask
<1>2. e \in Executors /\ [name |-> n, id |-> u.id] \in Captured
  BY FreshTypes DEF Captured, User
<1>3. tasks' \in [Tasks -> ConsistentTask]
  BY <1>1, TaskValues DEF IInv
<1>4. /\ owner' \in [Executors -> Captured \cup {Null}]
      /\ down' \in [Executors -> {"running", "shutdown", "stopped"}]
      /\ kafkaTiming' \in [Ids -> Executors \cup {Null}]
  BY <1>1, <1>2 DEF IInv, TypeOK
<1>5. ASSUME NEW t \in Tasks, tasks'[t].pc # "ended"
      PROVE  owner'[t[1]] \in Captured
  <2>1. t[1] \in Executors
    BY DEF Tasks
  <2>2. CASE t[1] = e
    BY <1>1, <1>2, <2>1, <2>2 DEF IInv, TypeOK
  <2>3. CASE t[1] # e
    <3>1. t # <<e, "publish">> /\ t # <<e, "activity">>
      BY <2>3
    <3>2. tasks'[t] = tasks[t]
      BY <1>1, <3>1 DEF IInv
    <3> QED
      BY <1>1, <1>5, <2>1, <2>3, <3>2 DEF IInv, TypeOK
  <2> QED
    BY <2>2, <2>3
<1>6. \A t \in Tasks : tasks'[t].pc = "hold" => tasks[t].pc = "hold"
  BY <1>1 DEF IInv, Task, Scheduled, Ended
<1> QED
  BY <1>3, <1>4, <1>5, <1>6

(* Stopping a session's executor leaves the tasks and executors typed.     *)
LEMMA ShutdownNowStep ==
    ASSUME IInv, NEW i \in Ids, ShutdownNow(i)
    PROVE  /\ tasks' \in [Tasks -> ConsistentTask]
           /\ down' \in [Executors -> {"running", "shutdown", "stopped"}]
           /\ \A t \in Tasks : tasks'[t] \in {tasks[t], Ended}
<1>1. CASE kafkaTiming[i] = Null
  BY <1>1 DEF ShutdownNow, IInv, TypeOK
<1>2. CASE kafkaTiming[i] # Null
  <2>1. down' = [down EXCEPT ![kafkaTiming[i]] = "stopped"]
    BY <1>2 DEF ShutdownNow
  <2>2. tasks' = Interrupted(kafkaTiming[i])
    BY <1>2 DEF ShutdownNow
  <2>3. tasks' \in [Tasks -> ConsistentTask] /\ \A t \in Tasks : tasks'[t] \in {tasks[t], Ended}
    BY <2>2, TaskUpdates DEF IInv
  <2> QED
    BY <2>1, <2>3 DEF IInv, TypeOK
<1> QED
  BY <1>1, <1>2

(* Challenging the user of a request, whether or not it will be stored.    *)
LEMMA ChallengeStep ==
    ASSUME IInv, NEW r \in Requests, reqs[r].user \in ConsistentUser,
           reqs[r].pc # "idle", Challenge(r, reqs[r])
    PROVE  \E q \in ConsistentRequest : reqs' = [reqs EXCEPT ![r] = q]
<1> DEFINE q == reqs[r]
<1>1. q \in ConsistentRequest
  BY DEF IInv
<1>2. CASE Outermost(q)
  BY <1>2, IdleConsistent DEF Challenge, Reply, Codes
<1>3. CASE ~Outermost(q)
  <2>1. PICK s \in FreshSecrets(q.name) : reqs' = [reqs EXCEPT ![r] =
                        [q EXCEPT !.pc = "commit", !.user = Challenged(q.user, s)]]
    BY <1>3 DEF Challenge
  <2>2. Challenged(q.user, s) \in KnownUser
    <3>1. q.name \in Names
      BY <1>1 DEF ConsistentRequest
    <3> QED
      BY <3>1, FreshTypes, EntityChanges
  <2>3. [q EXCEPT !.pc = "commit", !.user = Challenged(q.user, s)] \in ConsistentRequest
    BY <1>1, <2>2, CommitConsistent
  <2> QED
    BY <2>1, <2>3
<1> QED
  BY <1>2, <1>3

(* A step of a request that may also write its user, the entries and the   *)
(* executors, and starts no round.                                         *)
LEMMA RequestStep ==
    ASSUME IInv, NEW r \in Requests, NEW q \in ConsistentRequest,
           reqs' = [reqs EXCEPT ![r] = q],
           rows' \in [Names -> ConsistentUser \cup {Null}],
           diaries' \subseteq Names \X Entries,
           tasks' \in [Tasks -> ConsistentTask],
           owner' \in [Executors -> Captured \cup {Null}],
           down' \in [Executors -> {"running", "shutdown", "stopped"}],
           kafkaTiming' \in [Ids -> Executors \cup {Null}],
           \A t \in Tasks : tasks'[t].pc # "ended" => owner'[t[1]] \in Captured,
           \A t \in Tasks : tasks'[t].pc = "hold" => tasks[t].pc = "hold",
           UNCHANGED <<permits, topicVars>>
    PROVE  IInv'
<1>1. rows' \in [Names -> User \cup {Null}]
  BY DEF ConsistentUser
<1>2. tasks' \in [Tasks -> [pc : TaskPcs, user : User \cup {Null}]]
  BY DEF ConsistentTask
<1>3. OneHolder'
  BY NoNewHolder DEF IInv
<1> QED
  BY <1>1, <1>2, <1>3, RequestUpdate DEF IInv, TypeOK, topicVars

(* The parts of IInv a request's step may change, for the ones it does not. *)
LEMMA InvParts ==
    ASSUME IInv
    PROVE  /\ rows \in [Names -> ConsistentUser \cup {Null}]
           /\ diaries \subseteq Names \X Entries
           /\ tasks \in [Tasks -> ConsistentTask]
           /\ owner \in [Executors -> Captured \cup {Null}]
           /\ down \in [Executors -> {"running", "shutdown", "stopped"}]
           /\ kafkaTiming \in [Ids -> Executors \cup {Null}]
           /\ \A t \in Tasks : tasks[t].pc # "ended" => owner[t[1]] \in Captured
  BY DEF IInv, TypeOK

(* Every step of UserService writes back an entity that it has read and    *)
(* changed consistently, or removes the row.                               *)
LEMMA UserStep ==
    ASSUME IInv, NEW r \in Requests, UserServiceStep(r)
    PROVE  IInv'
<1> DEFINE q == reqs[r]
<1>1. q \in ConsistentRequest /\ q \in Request
  BY DEF IInv, ConsistentRequest
<1>2. /\ OK \in Codes /\ Created \in Codes /\ Unauthorized \in Codes
      /\ NotFound \in Codes /\ Conflict \in Codes /\ ServerError \in Codes
  BY DEF Codes
<1>3. CASE RegisterCommit(r)
  <2>1. q.name \in Names
    BY <1>1, <1>3 DEF RegisterCommit, ConsistentRequest
  <2>2. CASE Reply(r, Conflict) /\ UNCHANGED <<rows, kafkaTiming>>
    BY InvParts, <1>2, <1>3, <2>2, IdleConsistent, RequestStep DEF RegisterCommit, Reply
  <2>3. CASE /\ \E i \in FreshIds :
                   /\ Save(q.name, Registered(i))
                   /\ kafkaTiming' = [kafkaTiming EXCEPT ![i] = Null]
             /\ Reply(r, Created)
    <3>1. PICK i \in Ids : /\ Save(q.name, Registered(i))
                           /\ kafkaTiming' = [kafkaTiming EXCEPT ![i] = Null]
      BY <2>3, FreshTypes
    <3>2. /\ rows' \in [Names -> ConsistentUser \cup {Null}]
          /\ kafkaTiming' \in [Ids -> Executors \cup {Null}]
      BY InvParts, <2>1, <3>1, RegisteredConsistent DEF Save
    <3> QED
      BY InvParts, <1>2, <1>3, <2>3, <3>2, IdleConsistent, RequestStep DEF RegisterCommit, Reply
  <2> QED
    BY <1>3, <2>2, <2>3 DEF RegisterCommit
<1>4. CASE VerifyAccepted(r)
  <2>1. /\ q.pc = "verify" /\ q.name \in Names
        /\ q.user \in ConsistentUser /\ q.user \in User
        /\ q.user.secret # Null
    BY <1>1, <1>4 DEF VerifyAccepted, ConsistentRequest, ConsistentUser
  <2> DEFINE dirty == q.user.sstatus # "VALIDATED"
             q2 == IF Outermost(q)
                   THEN [q EXCEPT !.pc = "nested", !.user = Null, !.outer = q.user.id,
                                  !.dirty = dirty]
                   ELSE IF q.user.sstatus = "VALIDATED"
                   THEN Granted(q)
                   ELSE [q EXCEPT !.pc = "commit", !.user = Validated(q.user)]
  <2>2. reqs' = [reqs EXCEPT ![r] = q2]
    BY <1>4 DEF VerifyAccepted
  <2>3. Validated(q.user) \in KnownUser
    BY <2>1 DEF Validated, KnownUser, ConsistentUser, Consistent, User, SessionStatus
  <2>4. q.op = "remove" => [q EXCEPT !.pc = "nested", !.user = Null, !.outer = q.user.id,
                                     !.dirty = dirty] \in ConsistentRequest
    <3>1. dirty \in BOOLEAN /\ q.user.id \in Ids
      BY <2>1 DEF User
    <3> HIDE DEF dirty
    <3> QED
      BY <1>1, <2>1, <3>1 DEF ConsistentRequest, Request, RequestPcs
  <2>5. [q EXCEPT !.pc = "commit", !.user = Validated(q.user)] \in ConsistentRequest
    BY <1>1, <2>1, <2>3, CommitConsistent
  <2>6. q2 \in ConsistentRequest
    <3>1. Outermost(q) => q.op = "remove"
      BY DEF Outermost
    <3> HIDE DEF dirty
    <3> QED
      BY <1>1, <2>1, <2>4, <2>5, <3>1, GrantedConsistent
  <2>7. UNCHANGED <<rows, diaries, permits, topicVars>>
    BY <1>4 DEF VerifyAccepted
  <2>8. CASE scheduleAuthTask(q.name, q.user)
    <3> HIDE DEF q2
    <3> QED
      BY InvParts, <2>1, <2>2, <2>6, <2>7, <2>8, ScheduleStep, RequestStep
  <2>9. CASE UNCHANGED <<tasks, executorVars>>
    <3> HIDE DEF q2
    <3> QED
      BY InvParts, <2>2, <2>6, <2>7, <2>9, RequestStep DEF executorVars
  <2> QED
    BY <1>4, <2>8, <2>9 DEF VerifyAccepted
<1>5. CASE VerifyRejected(r)
  <2>1. /\ q.pc = "verify" /\ q.name \in Names
        /\ q.user \in ConsistentUser /\ q.user.id \in Ids
    BY <1>1, <1>5 DEF VerifyRejected, ConsistentRequest, ConsistentUser, User
  <2>2. PICK q2 \in ConsistentRequest : reqs' = [reqs EXCEPT ![r] = q2]
    BY <1>2, <1>5, <2>1, ChallengeStep, IdleConsistent DEF VerifyRejected, Reply
  <2>3. ShutdownNow(q.user.id) /\ UNCHANGED <<rows, diaries, owner, kafkaTiming, permits, topicVars>>
    BY <1>5 DEF VerifyRejected
  <2>4. /\ tasks' \in [Tasks -> ConsistentTask]
        /\ down' \in [Executors -> {"running", "shutdown", "stopped"}]
        /\ \A t \in Tasks : tasks'[t] \in {tasks[t], Ended}
    BY <2>1, <2>3, ShutdownNowStep
  <2>5. \A t \in Tasks : tasks'[t].pc # "ended" => owner'[t[1]] \in Captured
    BY InvParts, <2>3, <2>4 DEF Ended, Task
  <2>6. \A t \in Tasks : tasks'[t].pc = "hold" => tasks[t].pc = "hold"
    BY <2>4 DEF Ended, Task
  <2> QED
    BY InvParts, <2>2, <2>3, <2>4, <2>5, <2>6, RequestStep
<1>6. CASE TokenMissing(r)
  BY <1>2, <1>6, ReplyStep DEF TokenMissing
<1>7. CASE ChallengeUser(r)
  <2>1. q.pc = "challenge" /\ q.user \in ConsistentUser
    BY <1>1, <1>7 DEF ChallengeUser, ConsistentRequest
  <2>2. PICK q2 \in ConsistentRequest : reqs' = [reqs EXCEPT ![r] = q2]
    BY <1>2, <1>7, <2>1, ChallengeStep, IdleConsistent DEF ChallengeUser, Reply
  <2> QED
    BY <1>7, <2>2, OnlyRequestsStep DEF ChallengeUser
<1>8. CASE FetchCommit(r)
  <2>1. q.pc = "commit" /\ q.name \in Names /\ q.user \in ConsistentUser
    BY <1>1, <1>8 DEF FetchCommit, ConsistentRequest, KnownUser
  <2>2. PICK q2 \in ConsistentRequest : reqs' = [reqs EXCEPT ![r] = q2]
    BY <1>1, <1>2, <1>8, <2>1, IdleConsistent, GrantedConsistent DEF FetchCommit, Reply
  <2>3. rows' \in [Names -> ConsistentUser \cup {Null}]
    BY InvParts, <1>8, <2>1 DEF FetchCommit, Save
  <2> QED
    BY InvParts, <1>8, <2>2, <2>3, RequestStep DEF FetchCommit, executorVars
<1>9. CASE NestedFetch(r)
  <2>1. q.name \in Names
    BY <1>1, <1>9 DEF NestedFetch, ConsistentRequest
  <2> QED
    BY InvParts, <1>1, <1>9, <2>1, ReadConsistent, OnlyRequestsStep DEF NestedFetch
<1>10. CASE RemoveAll(r)
  <2>1. q.pc = "list" /\ q.name \in Names /\ OnlyRequests
    BY <1>1, <1>10 DEF RemoveAll, ConsistentRequest
  <2> DEFINE q2 == [q EXCEPT !.pc = "purge", !.listed = Listed(q.name),
                         !.victim = Victim(q.name)]
  <2>2. Listed(q.name) \in SUBSET Entries /\ Victim(q.name) \in Ids \cup {Null}
    BY InvParts, <2>1 DEF Listed, Victim, ConsistentUser, User
  <2>3. q2 \in ConsistentRequest
    BY <1>1, <2>1, <2>2 DEF ConsistentRequest, Request, RequestPcs
  <2>4. Reply(r, ServerError) \/ reqs' = [reqs EXCEPT ![r] = q2]
    BY <1>10 DEF RemoveAll
  <2> HIDE DEF q2
  <2> QED
    BY <1>2, <2>1, <2>3, <2>4, ReplyStep, OnlyRequestsStep
<1>11. CASE RemoveCommit(r)
  <2>1. q.name \in Names
    BY <1>1, <1>11 DEF RemoveCommit, ConsistentRequest
  <2>2. PICK q2 \in ConsistentRequest : reqs' = [reqs EXCEPT ![r] = q2]
    BY <1>2, <1>11, IdleConsistent DEF RemoveCommit, Reply
  <2>3. /\ rows' \in [Names -> ConsistentUser \cup {Null}]
        /\ diaries' \subseteq Names \X Entries
    BY InvParts, <1>11, <2>1 DEF RemoveCommit
  <2> QED
    BY InvParts, <1>11, <2>2, <2>3, RequestStep DEF RemoveCommit, executorVars
<1> QED
  BY <1>3, <1>4, <1>5, <1>6, <1>7, <1>8, <1>9, <1>10, <1>11 DEF UserServiceStep

(* The diary's own steps write entries of the name and entry asked for.    *)
LEMMA DiaryStep ==
    ASSUME IInv, NEW r \in Requests, DiaryServiceStep(r)
    PROVE  IInv'
<1> DEFINE q == reqs[r]
<1>1. q \in ConsistentRequest /\ q \in Request
  BY DEF IInv, ConsistentRequest
<1>2. OK \in Codes /\ Created \in Codes /\ Conflict \in Codes /\ ServerError \in Codes
  BY DEF Codes
<1>3. CASE AddCommit(r)
  <2>1. q.name \in Names /\ q.entry \in Entries
    BY <1>1, <1>3 DEF AddCommit, ConsistentRequest
  <2>2. PICK q2 \in ConsistentRequest : reqs' = [reqs EXCEPT ![r] = q2]
    BY <1>2, <1>3, IdleConsistent DEF AddCommit, Reply
  <2>3. diaries' \subseteq Names \X Entries
    BY <1>3, InvParts, <2>1 DEF AddCommit
  <2> QED
    BY <1>3, InvParts, <2>2, <2>3, RequestStep DEF AddCommit, executorVars
<1>4. CASE RemoveEntrySelect(r)
  <2>1. q.pc = "body" /\ q.op = "delete"
    BY <1>4 DEF RemoveEntrySelect
  <2>2. [q EXCEPT !.pc = "erase"] \in ConsistentRequest
    BY <1>1, <2>1 DEF ConsistentRequest, Request, RequestPcs
  <2> QED
    BY <1>2, <1>4, <2>2, ReplyStep, OnlyRequestsStep DEF RemoveEntrySelect
<1>5. CASE RemoveEntryCommit(r)
  <2>1. PICK q2 \in ConsistentRequest : reqs' = [reqs EXCEPT ![r] = q2]
    BY <1>2, <1>5, IdleConsistent DEF RemoveEntryCommit, Reply
  <2> QED
    BY <1>5, InvParts, <2>1, RequestStep DEF RemoveEntryCommit, executorVars
<1>6. CASE FetchEntries(r)
  BY <1>2, <1>6, ReplyStep DEF FetchEntries
<1> QED
  BY <1>3, <1>4, <1>5, <1>6 DEF DiaryServiceStep

(* A step of a task may write its user, change the topics, end tasks and   *)
(* move the permit, as long as at most one holder remains.                 *)
LEMMA TaskStep ==
    ASSUME IInv, OneHolder', permits' \in {0, 1},
           rows' \in [Names -> ConsistentUser \cup {Null}],
           tasks' \in [Tasks -> ConsistentTask],
           \A t \in Tasks : tasks'[t].pc # "ended" => tasks[t].pc # "ended",
           down' \in [Executors -> {"running", "shutdown", "stopped"}],
           openTopics' \subseteq Names,
           topics' \in [Names -> TopicStates],
           UNCHANGED <<diaries, reqs, owner, kafkaTiming>>
    PROVE  IInv'
<1>1. rows' \in [Names -> User \cup {Null}]
  BY DEF ConsistentUser
<1>2. tasks' \in [Tasks -> [pc : TaskPcs, user : User \cup {Null}]]
  BY DEF ConsistentTask
<1> QED
  BY <1>1, <1>2 DEF IInv, TypeOK

(* So may a step that gives only task t a new value.                       *)
LEMMA OneTaskStep ==
    ASSUME IInv, NEW t \in Tasks, tasks[t].pc # "ended",
           NEW x \in ConsistentTask, tasks' = [tasks EXCEPT ![t] = x],
           OneHolder', permits' \in {0, 1}, OnlyTasks
    PROVE  IInv'
<1>1. /\ tasks' \in [Tasks -> ConsistentTask]
      /\ \A y \in Tasks : tasks'[y].pc # "ended" => tasks[y].pc # "ended"
  BY DEF IInv
<1>2. openTopics \subseteq Names /\ topics \in [Names -> TopicStates]
  BY DEF IInv, TypeOK
<1> QED
  BY InvParts, <1>1, <1>2, TaskStep DEF OnlyTasks, executorVars, topicVars

(* A round takes the permit only when no round holds it.                   *)
LEMMA AcquireStep ==
    ASSUME IInv, NEW t \in Tasks, Fire(t) \/ Acquire(t) \/ AcquireFailed(t)
    PROVE  IInv'
<1>1. CASE Fire(t)
  <2>1. Task("acquire", Null) \in ConsistentTask /\ tasks \in [Tasks -> ConsistentTask]
    BY TaskValues, InvParts
  <2>2. /\ tasks' = [tasks EXCEPT ![t] = Task("acquire", Null)]
        /\ tasks[t].pc # "ended" /\ permits' = permits /\ OnlyTasks
    BY <1>1 DEF Fire
  <2>3. \A x \in Tasks : tasks'[x].pc = "hold" => tasks[x].pc = "hold"
    BY <2>1, <2>2 DEF Task
  <2>4. OneHolder' /\ permits' \in {0, 1}
    BY <2>2, <2>3, NoNewHolder DEF IInv, TypeOK
  <2> QED
    BY <2>1, <2>2, <2>4, OneTaskStep
<1> DEFINE u == rows[owner[t[1]].name]
<1>2. ASSUME permits > 0, permits' = permits - 1,
             tasks[t].pc = "acquire",
             NEW x \in ConsistentTask, tasks' = [tasks EXCEPT ![t] = x], OnlyTasks
      PROVE  IInv'
  <2>1. permits' = 0 /\ Holders = {}
    BY <1>2 DEF IInv, TypeOK, OneHolder
  <2>2. Holders' \subseteq {t}
    BY <1>2, <2>1, InvParts DEF Holders
  <2>3. OneHolder'
    BY <2>1, <2>2 DEF OneHolder
  <2> QED
    BY <1>2, <2>1, <2>3, OneTaskStep
<1>3. CASE Acquire(t)
  <2>1. owner[t[1]].name \in Names
    BY <1>3, InvParts DEF Acquire, Captured
  <2>2. u \in KnownUser
    BY <1>3, <2>1, InvParts DEF Acquire, HasStatus, KnownUser
  <2>3. Task("hold", u) \in ConsistentTask
    BY <2>2, TaskValues
  <2> QED
    BY <1>2, <1>3, <2>3 DEF Acquire
<1>4. CASE AcquireFailed(t)
  BY <1>2, <1>4, TaskValues DEF AcquireFailed
<1> QED
  BY <1>1, <1>3, <1>4

(* A round that holds the permit gives it back at most once, and commits   *)
(* an entity it has changed consistently.                                  *)
LEMMA RoundStep ==
    ASSUME IInv, NEW t \in Tasks, Round(t)
    PROVE  IInv'
<1> DEFINE u == tasks[t].user
           n == owner[t[1]].name
<1>1. /\ tasks \in [Tasks -> ConsistentTask]
      /\ openTopics \subseteq Names /\ topics \in [Names -> TopicStates]
      /\ permits \in {0, 1} /\ OneHolder
      /\ t[1] \in Executors
  BY DEF IInv, TypeOK, Tasks
<1>2. tasks[t].pc # "ended" => n \in Names /\ owner[t[1]] \in Captured
  BY InvParts DEF Captured
<1>3. tasks[t].pc = "hold" => u \in ConsistentUser /\ u.sstatus # "NONE"
  BY <1>1 DEF ConsistentTask, KnownUser
<1>4. ASSUME tasks[t].pc = "hold", release,
             NEW x \in ConsistentTask, x.pc # "hold",
             tasks' = [tasks EXCEPT ![t] = x], OnlyTasks
      PROVE  IInv'
  <2>1. \A y \in Tasks : tasks'[y].pc = "hold" => tasks[y].pc = "hold"
    BY <1>1, <1>4
  <2>2. t \in Holders /\ tasks'[t].pc # "hold"
    BY <1>1, <1>4 DEF Holders
  <2>3. OneHolder' /\ permits' \in {0, 1}
    BY <1>4, <2>1, <2>2, ReleaseStep
  <2> QED
    BY <1>4, <2>3, OneTaskStep
<1>5. CASE Skip(t)
  BY <1>1, <1>4, <1>5, TaskValues DEF Skip, Rearmed, Scheduled, Ended, Task
<1>6. CASE Demote(t)
  <2>1. Demoted(u) \in KnownUser
    BY <1>3, <1>6 DEF Demote, Holding, Demoted, KnownUser, ConsistentUser, Consistent, User,
       SessionStatus
  <2>2. Task("commit", Demoted(u)) \in ConsistentTask /\ Task("commit", Demoted(u)).pc # "hold"
    BY <2>1, TaskValues DEF Task
  <2> QED
    BY <1>4, <1>6, <2>2 DEF Demote, Holding
<1>7. CASE PublishChallenge(t)
  <2>1. /\ tasks[t].pc = "hold" /\ u.sstatus # "INVALIDATED" /\ release
        /\ publishTo(n)
        /\ UNCHANGED <<rows, diaries, reqs, executorVars>>
    BY <1>7 DEF PublishChallenge, Holding
  <2>2. PICK s \in Secrets : tasks' = [tasks EXCEPT ![t] = Task("commit", Rotated(u, s))]
    BY <1>2, <1>7, <2>1, FreshTypes DEF PublishChallenge
  <2>3. Rotated(u, s) \in KnownUser
    BY <1>3, <2>1, EntityChanges
  <2>4. tasks' \in [Tasks -> ConsistentTask]
    BY <1>1, <2>2, <2>3, TaskValues
  <2>5. /\ \A x \in Tasks : tasks'[x].pc = "hold" => tasks[x].pc = "hold"
        /\ \A x \in Tasks : tasks'[x].pc # "ended" => tasks[x].pc # "ended"
    BY <1>1, <2>1, <2>2 DEF Task
  <2>6. t \in Holders /\ tasks'[t].pc # "hold"
    BY <1>1, <2>1, <2>2 DEF Holders, Task
  <2>7. OneHolder' /\ permits' \in {0, 1}
    BY <2>1, <2>5, <2>6, ReleaseStep
  <2>8. openTopics' \subseteq Names /\ topics' \in [Names -> TopicStates]
    BY <1>1, <1>2, <2>1 DEF publishTo, TopicStates
  <2> QED
    BY <2>1, <2>4, <2>5, <2>7, <2>8, InvParts, TaskStep DEF executorVars
<1>8. CASE KickOut(t)
  <2> DEFINE e == kafkaTiming[owner[t[1]].id]
  <2>1. /\ tasks[t].pc = "hold" /\ release
        /\ ShutDown(e)
        /\ tasks' = [Cancelled(e) EXCEPT ![t] = Task("commit", KickedOut(u))]
        /\ UNCHANGED <<rows, diaries, reqs, owner, kafkaTiming>>
    BY <1>8 DEF KickOut, Holding
  <2>2. KickedOut(u) \in KnownUser
    BY <1>3, <2>1 DEF KickedOut, KnownUser, ConsistentUser, Consistent, User, SessionStatus
  <2>3. /\ Cancelled(e) \in [Tasks -> ConsistentTask]
        /\ \A x \in Tasks : Cancelled(e)[x] \in {tasks[x], Ended}
    BY <1>1, TaskUpdates
  <2>4. tasks' \in [Tasks -> ConsistentTask]
    BY <2>1, <2>2, <2>3, TaskValues
  <2>5. /\ \A x \in Tasks : tasks'[x].pc = "hold" => tasks[x].pc = "hold"
        /\ \A x \in Tasks : tasks'[x].pc # "ended" => tasks[x].pc # "ended"
    <3>1. tasks'[t].pc = "commit"
      BY <2>1, <2>3 DEF Task
    <3>2. ASSUME NEW x \in Tasks, x # t
          PROVE  tasks'[x] \in {tasks[x], Ended}
      BY <2>1, <2>3, <3>2
    <3>3. Ended.pc = "ended"
      BY DEF Ended, Task
    <3> QED
      BY <2>1, <3>1, <3>2, <3>3
  <2>6. t \in Holders /\ tasks'[t].pc # "hold"
    BY <2>1, <2>3 DEF Holders, Task
  <2>7. OneHolder' /\ permits' \in {0, 1}
    BY <2>1, <2>5, <2>6, ReleaseStep
  <2>8. openTopics' \subseteq Names /\ topics' \in [Names -> TopicStates]
    BY <1>1, <1>8 DEF KickOut, closeTopic, TopicStates, topicVars
  <2>9. down' \in [Executors -> {"running", "shutdown", "stopped"}]
    BY <2>1, InvParts DEF ShutDown
  <2> QED
    BY <2>1, <2>4, <2>5, <2>7, <2>8, <2>9, InvParts, TaskStep
<1>9. CASE KafkaCallFails(t)
  <2>1. /\ tasks[t].pc = "hold" /\ tasks' = [tasks EXCEPT ![t] = Ended]
        /\ openTopic(n) \/ UNCHANGED topicVars
        /\ UNCHANGED <<rows, diaries, reqs, executorVars, permits>>
    BY <1>9 DEF KafkaCallFails, Holding
  <2>2. /\ tasks' \in [Tasks -> ConsistentTask]
        /\ \A x \in Tasks : tasks'[x].pc = "hold" => tasks[x].pc = "hold"
        /\ \A x \in Tasks : tasks'[x].pc # "ended" => tasks[x].pc # "ended"
    BY <1>1, <2>1, TaskValues DEF Ended, Task
  <2>3. OneHolder' /\ permits' \in {0, 1}
    BY <1>1, <2>1, <2>2, NoNewHolder
  <2>4. openTopics' \subseteq Names /\ topics' \in [Names -> TopicStates]
    BY <1>1, <1>2, <2>1 DEF openTopic, TopicStates, topicVars
  <2> QED
    BY <2>1, <2>2, <2>3, <2>4, InvParts, TaskStep DEF executorVars
<1>10. CASE TaskCommit(t)
  <2>1. /\ tasks[t].pc = "commit" /\ u \in ConsistentUser
        /\ UNCHANGED <<diaries, reqs, executorVars, permits, topicVars>>
    BY <1>1, <1>10 DEF TaskCommit, ConsistentTask, KnownUser
  <2>2. rows' \in [Names -> ConsistentUser \cup {Null}]
    BY <1>10, <2>1, InvParts DEF TaskCommit, Save
  <2>3. PICK x \in {Rearmed(t[1]), Ended} : tasks' = [tasks EXCEPT ![t] = x]
    BY <1>10 DEF TaskCommit
  <2>4. x \in ConsistentTask /\ x.pc # "hold"
    BY <1>1, <2>3, TaskValues DEF Rearmed, Scheduled, Ended, Task
  <2>5. /\ tasks' \in [Tasks -> ConsistentTask]
        /\ \A y \in Tasks : tasks'[y].pc = "hold" => tasks[y].pc = "hold"
        /\ \A y \in Tasks : tasks'[y].pc # "ended" => tasks[y].pc # "ended"
    BY <1>1, <2>1, <2>3, <2>4
  <2>6. OneHolder' /\ permits' \in {0, 1}
    BY <1>1, <2>1, <2>5, NoNewHolder
  <2> QED
    BY <1>1, <2>1, <2>2, <2>5, <2>6, InvParts, TaskStep DEF executorVars, topicVars
<1> QED
  BY <1>5, <1>6, <1>7, <1>8, <1>9, <1>10 DEF Round

-----------------------------------------------------------------------------
\* The theorems.

(* IInv is inductive.                                                      *)
LEMMA NextInv == IInv /\ [Next]_vars => IInv'
<1> SUFFICES ASSUME IInv, [Next]_vars PROVE IInv'
  OBVIOUS
<1>1. ASSUME NEW r \in Requests, Arrival(r) PROVE IInv'
  BY <1>1, ArrivalStep
<1>2. ASSUME NEW r \in Requests, Step(r) PROVE IInv'
  BY <1>2, UserStep, DiaryStep DEF Step
<1>3. ASSUME NEW t \in Tasks, Fire(t) \/ Acquire(t) \/ AcquireFailed(t) PROVE IInv'
  BY <1>3, AcquireStep
<1>4. ASSUME NEW t \in Tasks, Round(t) PROVE IInv'
  BY <1>4, RoundStep
<1>5. ASSUME NEW n \in Names, TopicDeleted(n) PROVE IInv'
  <2>1. topics' \in [Names -> TopicStates] /\ openTopics' \subseteq Names
    BY <1>5 DEF TopicDeleted, IInv, TypeOK, TopicStates
  <2>2. permits \in {0, 1} /\ OneHolder
    BY DEF IInv, TypeOK
  <2>3. UNCHANGED <<rows, diaries, reqs, tasks, executorVars, permits>>
    BY <1>5 DEF TopicDeleted
  <2>4. OneHolder'
    BY <2>2, <2>3 DEF OneHolder, Holders
  <2> QED
    BY <2>1, <2>2, <2>3, <2>4, InvParts, TaskStep DEF executorVars
<1>6. CASE UNCHANGED vars
  BY <1>6 DEF vars, executorVars, topicVars, IInv, TypeOK, OneHolder, Holders
<1> QED
  BY <1>1, <1>2, <1>3, <1>4, <1>5, <1>6 DEF Next

(* The inductive invariant holds of every run of the server.               *)
THEOREM Invariant == Spec => []IInv
  BY InitInv, NextInv, PTL DEF Spec

(* Every variable always has its type: in particular the semaphore, which  *)
(* nothing stops from being released twice, never has two permits.         *)
THEOREM TypeCorrect == Spec => []TypeOK
<1>1. IInv => TypeOK
  BY DEF IInv
<1> QED
  BY Invariant, <1>1, PTL

(* However the transactions of requests and tasks interleave, a stored     *)
(* user has a secret exactly while it is challenged or in a session.       *)
THEOREM SecretFollowsStatus == Spec => []SecretMatchesStatus
<1>1. IInv => SecretMatchesStatus
  BY DEF IInv, SecretMatchesStatus, ConsistentUser
<1> QED
  BY Invariant, <1>1, PTL

(* At most one round of all tasks is between acquire and release.          *)
THEOREM MutualExclusion == Spec => []OneHolder
<1>1. IInv => OneHolder
  BY DEF IInv
<1> QED
  BY Invariant, <1>1, PTL

(* Only the steps of tasks and of the broker touch the topics.             *)
LEMMA RequestsLeaveTopics ==
    ASSUME NEW r \in Requests, Arrival(r) \/ Step(r)
    PROVE  UNCHANGED topicVars
<1>1. OnlyRequests => UNCHANGED topicVars
  BY DEF OnlyRequests
<1>2. Arrival(r) => OnlyRequests
  BY DEF Arrival, Register, Fetch, RemoveByName, Add, RemoveEntry, FetchByUsername, Receive
<1>3. UserServiceStep(r) => UNCHANGED topicVars
  BY <1>1 DEF UserServiceStep, RegisterCommit, VerifyAccepted, VerifyRejected, TokenMissing,
     ChallengeUser, FetchCommit, NestedFetch, RemoveAll, RemoveCommit
<1>4. DiaryServiceStep(r) => UNCHANGED topicVars
  BY <1>1 DEF DiaryServiceStep, AddCommit, RemoveEntrySelect, RemoveEntryCommit, FetchEntries
<1> QED
  BY <1>1, <1>2, <1>3, <1>4 DEF Step

(* The agent never forgets a topic that the broker keeps: it forgets one   *)
(* only when it marks it, and a marked topic comes back only through the   *)
(* agent.                                                                  *)
THEOREM TopicsKnown == Spec => []OpenTopicsComplete
<1>1. Init => OpenTopicsComplete
  BY DEF Init, OpenTopicsComplete
<1>2. IInv /\ OpenTopicsComplete /\ [Next]_vars => OpenTopicsComplete'
  <2> SUFFICES ASSUME IInv, OpenTopicsComplete, [Next]_vars PROVE OpenTopicsComplete'
    OBVIOUS
  <2>1. topics \in [Names -> TopicStates]
    BY DEF IInv, TypeOK
  <2>2. CASE UNCHANGED topicVars
    BY <2>2 DEF OpenTopicsComplete, topicVars
  <2>3. ASSUME NEW n, publishTo(n) \/ openTopic(n) \/ closeTopic(n) PROVE OpenTopicsComplete'
    BY <2>1, <2>3 DEF OpenTopicsComplete, publishTo, openTopic, closeTopic
  <2>4. ASSUME NEW n \in Names, TopicDeleted(n) PROVE OpenTopicsComplete'
    BY <2>1, <2>4 DEF OpenTopicsComplete, TopicDeleted
  <2>5. ASSUME NEW t \in Tasks, Fire(t) \/ Acquire(t) \/ AcquireFailed(t)
        PROVE  UNCHANGED topicVars
    BY <2>5 DEF Fire, Acquire, AcquireFailed, OnlyTasks
  <2>6. ASSUME NEW t \in Tasks, Round(t) PROVE OpenTopicsComplete'
    <3> DEFINE n == owner[t[1]].name
    <3>1. UNCHANGED topicVars \/ publishTo(n) \/ openTopic(n) \/ closeTopic(n)
      BY <2>6 DEF Round, Skip, Demote, OnlyTasks, PublishChallenge, KickOut,
         KafkaCallFails, TaskCommit
    <3> QED
      BY <2>2, <2>3, <3>1
  <2>7. CASE UNCHANGED vars
    BY <2>2, <2>7 DEF vars
  <2> QED
    BY <2>2, <2>4, <2>5, <2>6, <2>7, RequestsLeaveTopics DEF Next
<1> QED
  BY <1>1, <1>2, Invariant, PTL DEF Spec

(* No transaction ever writes over the row of a user registered since it   *)
(* read: every UPDATE finds the row of the id it has read, or none.        *)
THEOREM Incarnations == Spec => IncarnationStable
<1> DEFINE Same == \A n \in Names : rows[n] # Null /\ rows'[n] # Null
                                        => rows'[n].id = rows[n].id
<1>1. IInv /\ [Next]_vars => [Same]_rows
  <2> SUFFICES ASSUME IInv, [Next]_vars PROVE Same \/ UNCHANGED rows
    OBVIOUS
  <2>1. ASSUME NEW n \in Names, NEW x,
               rows' = [rows EXCEPT ![n] = x],
               rows[n] = Null \/ x = Null \/ x.id = rows[n].id
        PROVE  Same
    BY <2>1, InvParts
  <2>2. ASSUME NEW r \in Requests, Step(r), reqs[r].pc # "idle" PROVE Same \/ UNCHANGED rows
    <3> DEFINE q == reqs[r]
    <3>1. q.name \in Names
      BY <2>2 DEF IInv, ConsistentRequest
    <3>2. OnlyRequests => UNCHANGED rows
      BY DEF OnlyRequests
    <3>3. CASE RegisterCommit(r)
      BY <2>1, <3>1, <3>3 DEF RegisterCommit, Save
    <3>4. CASE FetchCommit(r)
      BY <2>1, <3>1, <3>4 DEF FetchCommit, Save, Persisted, HasId
    <3>5. CASE RemoveCommit(r)
      BY <2>1, <3>1, <3>5 DEF RemoveCommit
    <3> QED
      BY <2>2, <3>2, <3>3, <3>4, <3>5
         DEF Step, UserServiceStep, DiaryServiceStep, VerifyAccepted, VerifyRejected, TokenMissing,
             ChallengeUser, NestedFetch, RemoveAll, AddCommit, RemoveEntrySelect,
             RemoveEntryCommit, FetchEntries
  <2>3. ASSUME NEW r \in Requests, Step(r) PROVE reqs[r].pc # "idle"
    BY <2>3 DEF Step, UserServiceStep, DiaryServiceStep, RegisterCommit, VerifyAccepted,
       VerifyRejected, TokenMissing, ChallengeUser, FetchCommit, NestedFetch, RemoveAll,
       RemoveCommit, AddCommit, RemoveEntrySelect, RemoveEntryCommit, FetchEntries
  <2>4. ASSUME NEW r \in Requests, Arrival(r) PROVE UNCHANGED rows
    BY <2>4 DEF Arrival, Register, Fetch, RemoveByName, Add, RemoveEntry, FetchByUsername,
       Receive, OnlyRequests
  <2>5. ASSUME NEW t \in Tasks, Fire(t) \/ Acquire(t) \/ AcquireFailed(t) PROVE UNCHANGED rows
    BY <2>5 DEF Fire, Acquire, AcquireFailed, OnlyTasks
  <2>6. ASSUME NEW t \in Tasks, Round(t) PROVE Same \/ UNCHANGED rows
    <3>1. CASE TaskCommit(t)
      <4>1. owner[t[1]].name \in Names
        BY <3>1, InvParts DEF TaskCommit, Captured
      <4> QED
        BY <2>1, <3>1, <4>1 DEF TaskCommit, Save, Persisted, HasId
    <3> QED
      BY <2>6, <3>1 DEF Round, Skip, Demote, OnlyTasks, PublishChallenge, KickOut, KafkaCallFails
  <2>7. ASSUME NEW n \in Names, TopicDeleted(n) PROVE UNCHANGED rows
    BY <2>7 DEF TopicDeleted
  <2>8. CASE UNCHANGED vars
    BY <2>8 DEF vars
  <2> QED
    BY <2>2, <2>3, <2>4, <2>5, <2>6, <2>7, <2>8 DEF Next
<1> QED
  BY <1>1, Invariant, PTL DEF Spec, IncarnationStable
(* A thread writes its own request only.                                   *)
LEMMA OwnRequest ==
    ASSUME NEW r \in Requests, Arrival(r) \/ Step(r)
    PROVE  \E q : reqs' = [reqs EXCEPT ![r] = q]
<1>1. CASE Arrival(r)
  BY <1>1 DEF Arrival, Register, Fetch, RemoveByName, Add, RemoveEntry, FetchByUsername, Receive,
     Reply
<1>2. CASE UserServiceStep(r)
  BY <1>2 DEF UserServiceStep, RegisterCommit, VerifyAccepted, VerifyRejected, TokenMissing,
     ChallengeUser, Challenge, FetchCommit, NestedFetch, RemoveAll, RemoveCommit, Reply
<1>3. CASE DiaryServiceStep(r)
  BY <1>3 DEF DiaryServiceStep, AddCommit, RemoveEntrySelect, RemoveEntryCommit, FetchEntries,
     Reply
<1> QED
  BY <1>1, <1>2, <1>3 DEF Step

(* So the step that answers a request is one of its own thread.            *)
LEMMA AnswerStep ==
    ASSUME IInv, [Next]_vars, NEW r \in Requests, NEW c, Answers(r, c)
    PROVE  Step(r)
<1>1. reqs[r].pc # "idle" /\ reqs'[r].pc = "idle" /\ reqs'[r] # reqs[r]
  BY DEF Answers
<1>2. ASSUME NEW x \in Requests, Arrival(x) \/ Step(x) PROVE Step(r)
  <2>1. x = r
    BY <1>1, <1>2, OwnRequest DEF IInv, TypeOK
  <2>2. Arrival(x) => reqs[x].pc = "idle"
    BY DEF Arrival, Register, Fetch, RemoveByName, Add, RemoveEntry, FetchByUsername, Receive
  <2> QED
    BY <1>1, <1>2, <2>1, <2>2
<1>3. CASE UNCHANGED reqs
  BY <1>1, <1>3
<1> QED
  BY <1>2, <1>3 DEF Next, vars, Fire, Acquire, AcquireFailed, OnlyTasks, Round, Skip,
     PublishChallenge, KickOut, Demote, KafkaCallFails, TaskCommit, TopicDeleted

(* The code of an answered request is the one it was given.                *)
LEMMA AnswerCode ==
    ASSUME IInv, NEW r \in Requests, NEW c, NEW d, Answers(r, c), Reply(r, d)
    PROVE  c = d
  BY DEF IInv, TypeOK, Answers, Reply, Idle
=============================================================================
