--------------------------- MODULE SessionProofs ---------------------------
(***************************************************************************)
(* Proofs about the sessions of ZKAuth, for any number of users, request   *)
(* threads and executors: a session has its executor, the permit is not    *)
(* lost without a removal or a failed call to Kafka, and a challenge that  *)
(* is sent is stored.                                                      *)
(***************************************************************************)
EXTENDS ZKAuthProofs

-----------------------------------------------------------------------------
\* Every session has an executor.

\* If u is in a session, timing has an executor for it.
HasTimer(u, timing) ==
    u # Null /\ u.sstatus \in {"VALIDATED", "WAITING"} => timing[u.id] # Null

\* So has a task that may still run.
TaskHasTimer(t) == tasks[t].pc # "ended" => kafkaTiming[owner[t[1]].id] # Null

(* Besides the rows, every copy of a user that a request or a round carries *)
(* and may yet write is one whose session has an executor, and so is every *)
(* user that a task has captured.                                          *)
TInv ==
    /\ \A n \in Names : HasTimer(rows[n], kafkaTiming)
    /\ \A r \in Requests : HasTimer(reqs[r].user, kafkaTiming)
    /\ \A t \in Tasks : HasTimer(tasks[t].user, kafkaTiming) /\ TaskHasTimer(t)

\* No executor is forgotten.
TimersKept == \A i \in Ids : kafkaTiming[i] # Null => kafkaTiming'[i] # Null

(* What had an executor keeps it.                                          *)
LEMMA TimerStays ==
    ASSUME TimersKept, NEW u \in User \cup {Null}, HasTimer(u, kafkaTiming)
    PROVE  HasTimer(u, kafkaTiming')
  BY NullAssumption DEF TimersKept, HasTimer, User

(* A change of the status, from one of a session or to one of none, needs  *)
(* no new executor.                                                        *)
LEMMA TimerChanges ==
    ASSUME NEW u \in User, NEW timing
    PROVE  /\ \A s \in Secrets : HasTimer(Challenged(u, s), timing)
           /\ HasTimer(KickedOut(u), timing)
           /\ HasTimer(Null, timing)
           /\ u.sstatus = "VALIDATED" /\ HasTimer(u, timing) => HasTimer(Demoted(u), timing)
           /\ HasTimer(u, timing) => \A s \in Secrets : HasTimer(Rotated(u, s), timing)
           /\ timing[u.id] # Null => HasTimer(Validated(u), timing)
<1>1. u # Null
  BY NullAssumption
<1> QED
  BY <1>1 DEF HasTimer, User, Challenged, KickedOut, Demoted, Rotated, Validated

(* The step of a request that carries at most what it carried, or a user   *)
(* whose session has an executor, and that keeps the tasks or ends some.   *)
LEMMA TimerStep ==
    ASSUME IInv, TInv, TimersKept,
           \A n \in Names : rows'[n] = rows[n] \/ HasTimer(rows'[n], kafkaTiming'),
           \A r \in Requests : reqs'[r] = reqs[r] \/ HasTimer(reqs'[r].user, kafkaTiming'),
           \A t \in Tasks : \/ tasks'[t] = tasks[t]
                            \/ HasTimer(tasks'[t].user, kafkaTiming'),
           \A t \in Tasks : \/ tasks'[t].pc # "ended" => tasks[t].pc # "ended" /\ owner' = owner
                            \/ TaskHasTimer(t)'
    PROVE  TInv'
<1>1. ASSUME NEW n \in Names PROVE HasTimer(rows'[n], kafkaTiming')
  BY TimerStays DEF IInv, TypeOK, TInv
<1>2. ASSUME NEW r \in Requests PROVE HasTimer(reqs'[r].user, kafkaTiming')
  <2>1. reqs[r].user \in User \cup {Null}
    BY DEF IInv, TypeOK, Request
  <2> QED
    BY <2>1, TimerStays DEF TInv
<1>3. ASSUME NEW t \in Tasks PROVE HasTimer(tasks'[t].user, kafkaTiming')
  <2>1. tasks[t].user \in User \cup {Null}
    BY DEF IInv, TypeOK
  <2> QED
    BY <2>1, TimerStays DEF TInv
<1>4. ASSUME NEW t \in Tasks PROVE TaskHasTimer(t)'
  <2>1. CASE tasks'[t].pc # "ended" => tasks[t].pc # "ended" /\ owner' = owner
    <3>1. tasks[t].pc # "ended" => owner[t[1]].id \in Ids
      BY InvParts DEF Captured
    <3> QED
      BY <2>1, <3>1 DEF TInv, TaskHasTimer, TimersKept
  <2> QED
    BY <1>4, <2>1
<1> QED
  BY <1>1, <1>2, <1>3, <1>4 DEF TInv

(* A step that gives one request a record, and leaves executors alone.     *)
LEMMA OneRequestTimer ==
    ASSUME IInv, TInv, NEW r \in Requests, NEW q, reqs' = [reqs EXCEPT ![r] = q],
           HasTimer(q.user, kafkaTiming),
           \A n \in Names : rows'[n] = rows[n] \/ HasTimer(rows'[n], kafkaTiming),
           UNCHANGED <<tasks, executorVars>>
    PROVE  TInv'
<1>1. \A x \in Requests : reqs'[x] = reqs[x] \/ HasTimer(reqs'[x].user, kafkaTiming')
  BY DEF IInv, TypeOK, executorVars
<1> QED
  BY <1>1, TimerStep DEF executorVars, TimersKept

(* A request carries no user when it is answered or granted.               *)
LEMMA NoUserTimer ==
    ASSUME NEW timing
    PROVE  /\ \A c : HasTimer(Idle(c).user, timing)
           /\ \A q \in Request : HasTimer(Granted(q).user, timing)
<1>1. HasTimer(Null, timing)
  BY DEF HasTimer
<1>2. \A c : Idle(c).user = Null
  BY DEF Idle
<1>3. ASSUME NEW q \in Request PROVE Granted(q).user = Null
  <2>1. CASE q.op = "fetch"
    BY <1>2, <2>1 DEF Granted
  <2>2. CASE q.op = "remove"
    BY <2>2 DEF Granted, Request
  <2>3. CASE q.op \notin {"fetch", "remove"}
    BY <2>3 DEF Granted, Request
  <2> QED
    BY <2>1, <2>2, <2>3
<1> QED
  BY <1>1, <1>2, <1>3

(* A request that reads a user carries its row.                            *)
LEMMA ReadTimer ==
    ASSUME IInv, TInv, NEW q \in Request, q.name \in Names
    PROVE  HasTimer(Read(q).user, kafkaTiming)
<1>1. CASE rows[q.name] = Null
  BY <1>1, NoUserTimer DEF Read
<1>2. CASE rows[q.name] # Null
  <2>1. Read(q).user = rows[q.name]
    BY <1>2 DEF Read, Request
  <2> QED
    BY <2>1 DEF TInv
<1> QED
  BY <1>1, <1>2

(* A request that arrives at most reads a user.                            *)
LEMMA ArrivalTimer ==
    ASSUME IInv, TInv, NEW r \in Requests, Arrival(r)
    PROVE  TInv'
<1>1. OnlyRequests => UNCHANGED <<rows, tasks, executorVars>>
  BY DEF OnlyRequests
<1>2. ASSUME Register(r) PROVE TInv'
  <2>1. PICK n \in Names :
          \/ Reply(r, Conflict)
          \/ reqs' = [reqs EXCEPT ![r] =
                        [Incoming("register", n, Null, Null) EXCEPT !.pc = "insert"]]
    BY <1>2 DEF Register
  <2> DEFINE q == [Incoming("register", n, Null, Null) EXCEPT !.pc = "insert"]
  <2>2. q.user = Null
    BY DEF Incoming, Idle
  <2>3. HasTimer(q.user, kafkaTiming) /\ HasTimer(Idle(Conflict).user, kafkaTiming)
    BY <2>2, NoUserTimer DEF HasTimer
  <2> HIDE DEF q
  <2>4. Reply(r, Conflict) \/ reqs' = [reqs EXCEPT ![r] = q]
    BY <2>1 DEF q
  <2> QED
    BY <1>1, <1>2, <2>3, <2>4, OneRequestTimer DEF Register, Reply
<1>3. ASSUME NEW o \in Operations, NEW n \in Names, NEW d \in Entries \cup {Null},
             o \in {"add", "delete"} => d \in Entries, Receive(r, o, n, d)
      PROVE  TInv'
  <2>1. PICK tok \in Tokens(n) :
          reqs' = [reqs EXCEPT ![r] = Read(Incoming(o, n, d, tok))]
    BY <1>3 DEF Receive
  <2>2. tok \in Secrets \cup {Wrong, Null}
    BY DEF IInv, TypeOK, Tokens, User
  <2>3. Incoming(o, n, d, tok) \in Request /\ Incoming(o, n, d, tok).name = n
    BY <1>3, <2>2, IncomingConsistent DEF ConsistentRequest
  <2>4. HasTimer(Read(Incoming(o, n, d, tok)).user, kafkaTiming)
    BY <2>3, ReadTimer
  <2> QED
    BY <1>1, <1>3, <2>1, <2>4, OneRequestTimer DEF Receive
<1> QED
  BY <1>2, <1>3 DEF Arrival, Fetch, RemoveByName, Add, RemoveEntry, FetchByUsername, Operations

(* The session that verify starts has its executor before the user, now    *)
(* VALIDATED, is stored: scheduleAuthTask registers it in the same step.   *)
LEMMA VerifyTimer ==
    ASSUME IInv, TInv, NEW r \in Requests, VerifyAccepted(r)
    PROVE  TInv'
<1> DEFINE q == reqs[r]
           u == q.user
<1>1. /\ q \in Request /\ u \in User /\ u.id \in Ids /\ u.sstatus \in SessionStatus
      /\ u.sstatus # "INVALIDATED" /\ rows' = rows
  BY DEF VerifyAccepted, IInv, ConsistentRequest, ConsistentUser, Consistent, User
<1>2. PICK q2 : /\ reqs' = [reqs EXCEPT ![r] = q2]
                /\ q2.user = Null \/ q2.user = Validated(u)
  <2> DEFINE dirty == u.sstatus # "VALIDATED"
             nested == [q EXCEPT !.pc = "nested", !.user = Null, !.outer = u.id, !.dirty = dirty]
             commit == [q EXCEPT !.pc = "commit", !.user = Validated(u)]
  <2>1. \/ reqs' = [reqs EXCEPT ![r] = nested]
        \/ reqs' = [reqs EXCEPT ![r] = Granted(q)]
        \/ reqs' = [reqs EXCEPT ![r] = commit]
    BY DEF VerifyAccepted
  <2>2. nested.user = Null
    <3> HIDE DEF dirty
    <3> QED
      BY <1>1 DEF Request
  <2>3. commit.user = Validated(u)
    BY <1>1 DEF Request
  <2>4. Granted(q).user = Null
    BY <1>1 DEF Granted, Idle, Request
  <2> HIDE DEF nested, commit
  <2> QED
    BY <2>1, <2>2, <2>3, <2>4
<1>3. kafkaTiming'[u.id] # Null => HasTimer(q2.user, kafkaTiming')
  BY <1>1, <1>2, TimerChanges DEF HasTimer
<1>4. \A x \in Requests : reqs'[x] = reqs[x] \/ reqs'[x] = q2
  BY <1>2 DEF IInv, TypeOK
<1>5. CASE u.sstatus = "INITIATING"
  <2>1. PICK e \in Executors :
          /\ tasks' = [tasks EXCEPT
                         ![<<e, "publish">>]  = IF Kafka THEN Task("new", Null) ELSE Ended,
                         ![<<e, "activity">>] = Scheduled]
          /\ owner' = [owner EXCEPT ![e] = [name |-> q.name, id |-> u.id]]
          /\ kafkaTiming' = [kafkaTiming EXCEPT ![u.id] = e]
    BY <1>5, FreshTypes DEF VerifyAccepted, scheduleAuthTask
  <2>2. kafkaTiming'[u.id] # Null /\ TimersKept
    BY <1>1, <2>1, InvParts, NullAssumption DEF TimersKept
  <2>3. HasTimer(q2.user, kafkaTiming')
    BY <1>3, <2>2
  <2>4. ASSUME NEW t \in Tasks
        PROVE  tasks'[t] = tasks[t] \/ HasTimer(tasks'[t].user, kafkaTiming')
    BY <2>1, InvParts DEF HasTimer, Task, Ended, Scheduled
  <2>5. ASSUME NEW t \in Tasks
        PROVE  TaskHasTimer(t)'
    <3>1. CASE t[1] = e
      <4>1. owner'[t[1]].id = u.id
        BY <2>1, <3>1, InvParts
      <4> QED
        BY <2>2, <4>1 DEF TaskHasTimer
    <3>2. CASE t[1] # e
      <4>1. tasks'[t] = tasks[t]
        BY <2>1, <3>2, InvParts
      <4>2. t[1] \in Executors /\ owner'[t[1]] = owner[t[1]]
        BY <2>1, <3>2, InvParts DEF Tasks
      <4>3. tasks[t].pc # "ended" => owner[t[1]].id \in Ids
        BY InvParts DEF Captured
      <4> QED
        BY <2>2, <4>1, <4>2, <4>3 DEF TaskHasTimer, TInv, TimersKept
    <3> QED
      BY <3>1, <3>2
  <2> QED
    <3>1. \A x \in Requests : reqs'[x] = reqs[x] \/ HasTimer(reqs'[x].user, kafkaTiming')
      BY <1>4, <2>3
    <3> QED
      BY <1>1, <2>2, <2>4, <2>5, <3>1, TimerStep
<1>6. CASE u.sstatus # "INITIATING"
  <2>1. UNCHANGED <<tasks, executorVars>>
    BY <1>6 DEF VerifyAccepted
  <2>2. kafkaTiming'[u.id] # Null
    BY <1>1, <1>6, <2>1, NullAssumption DEF TInv, HasTimer, SessionStatus, executorVars
  <2>3. HasTimer(q2.user, kafkaTiming)
    BY <1>3, <2>1, <2>2 DEF executorVars
  <2> QED
    BY <1>1, <1>2, <2>1, <2>3, OneRequestTimer
<1> QED
  BY <1>5, <1>6
(* A registration draws an id that no row, no request, no round and no     *)
(* task that may still run knows: forgetting its executor harms nobody.    *)
LEMMA RegisterTimer ==
    ASSUME IInv, TInv, NEW r \in Requests, RegisterCommit(r)
    PROVE  TInv'
<1> DEFINE q == reqs[r]
<1>1. CASE UNCHANGED <<rows, kafkaTiming>>
  <2>1. reqs' = [reqs EXCEPT ![r] = Idle(Conflict)] \/ reqs' = [reqs EXCEPT ![r] = Idle(Created)]
    BY DEF RegisterCommit, Reply
  <2>2. UNCHANGED <<tasks, executorVars>>
    BY <1>1 DEF RegisterCommit, executorVars
  <2> QED
    BY <1>1, <2>1, <2>2, NoUserTimer, OneRequestTimer
<1>2. ASSUME NEW i \in FreshIds, Save(q.name, Registered(i)),
             kafkaTiming' = [kafkaTiming EXCEPT ![i] = Null], Reply(r, Created)
      PROVE  TInv'
  <2>1. i \in Ids /\ i \notin UsedIds
    BY AnyOfSubset DEF FreshIds
  <2>2. ASSUME NEW j \in Ids, j # i PROVE kafkaTiming'[j] = kafkaTiming[j]
    BY <1>2, <2>2, InvParts
  <2>3. ASSUME NEW u \in LiveUsers, u \in User, HasTimer(u, kafkaTiming)
        PROVE  HasTimer(u, kafkaTiming')
    <3>1. u.id \in Ids /\ u.id # i
      BY <2>1, <2>3 DEF UsedIds, User
    <3> QED
      BY <2>2, <2>3, <3>1 DEF HasTimer
  <2>4. HasTimer(Registered(i), kafkaTiming') /\ HasTimer(Null, kafkaTiming')
    BY DEF HasTimer, Registered
  <2>5. ASSUME NEW n \in Names PROVE HasTimer(rows'[n], kafkaTiming')
    <3>1. rows'[n] = rows[n] \/ rows'[n] = Registered(i)
      BY <1>2, InvParts DEF Save
    <3>2. rows[n] # Null => rows[n] \in LiveUsers /\ rows[n] \in User
      BY DEF LiveUsers, IInv, TypeOK
    <3> QED
      BY <2>3, <2>4, <3>1, <3>2 DEF TInv
  <2>6. ASSUME NEW x \in Requests PROVE HasTimer(reqs'[x].user, kafkaTiming')
    <3>1. reqs'[x] = reqs[x] \/ reqs'[x] = Idle(Created)
      BY <1>2 DEF Reply, IInv, TypeOK
    <3>2. reqs[x].user # Null => reqs[x].user \in LiveUsers /\ reqs[x].user \in User
      BY DEF LiveUsers, IInv, TypeOK, Request
    <3> QED
      BY <2>3, <2>4, <3>1, <3>2, NoUserTimer DEF TInv
  <2>7. tasks' = tasks /\ owner' = owner
    BY DEF RegisterCommit
  <2>8. ASSUME NEW t \in Tasks PROVE HasTimer(tasks'[t].user, kafkaTiming')
    <3>1. tasks[t].user # Null => tasks[t].user \in LiveUsers /\ tasks[t].user \in User
      BY DEF LiveUsers, IInv, TypeOK
    <3> QED
      BY <2>3, <2>4, <2>7, <3>1 DEF TInv
  <2>9. ASSUME NEW t \in Tasks PROVE TaskHasTimer(t)'
    <3>1. CASE tasks[t].pc # "ended"
      <4>1. t[1] \in Executors /\ t[2] \in Kinds /\ t = <<t[1], t[2]>>
        BY DEF Tasks
      <4>2. Live(t[1]) /\ owner[t[1]].id \in Ids
        BY <3>1, <4>1, InvParts DEF Live, Captured
      <4>3. owner[t[1]].id \in {owner[e].id : e \in {x \in Executors : Live(x)}}
        BY <4>1, <4>2
      <4>4. owner[t[1]].id \in UsedIds
        BY <4>3 DEF UsedIds
      <4> QED
        BY <2>1, <2>2, <2>7, <4>2, <4>4 DEF TInv, TaskHasTimer
    <3>2. CASE tasks[t].pc = "ended"
      BY <2>7, <3>2 DEF TaskHasTimer
    <3> QED
      BY <3>1, <3>2
  <2> QED
    BY <2>5, <2>6, <2>8, <2>9 DEF TInv
<1> QED
  BY <1>1, <1>2 DEF RegisterCommit

(* A challenge is for a user who is in no session until it is answered.    *)
LEMMA ChallengeTimer ==
    ASSUME IInv, NEW r \in Requests, reqs[r].pc \in {"verify", "challenge"},
           Challenge(r, reqs[r])
    PROVE  \E q : reqs' = [reqs EXCEPT ![r] = q] /\ HasTimer(q.user, kafkaTiming)
<1> DEFINE q == reqs[r]
           u == q.user
<1>1. q \in Request /\ u \in User /\ q.name \in Names
  BY DEF IInv, ConsistentRequest, ConsistentUser
<1>2. CASE Reply(r, Unauthorized)
  BY <1>2, NoUserTimer DEF Reply
<1>3. ASSUME NEW s \in FreshSecrets(q.name),
             reqs' = [reqs EXCEPT ![r] = [q EXCEPT !.pc = "commit", !.user = Challenged(u, s)]]
      PROVE  \E q2 : reqs' = [reqs EXCEPT ![r] = q2] /\ HasTimer(q2.user, kafkaTiming)
  <2>1. s \in Secrets
    BY <1>1, FreshTypes
  <2>2. [q EXCEPT !.pc = "commit", !.user = Challenged(u, s)].user = Challenged(u, s)
    BY <1>1 DEF Request
  <2>3. HasTimer(Challenged(u, s), kafkaTiming)
    BY <1>1, <2>1, TimerChanges
  <2> QED
    BY <1>3, <2>2, <2>3
<1> QED
  BY <1>2, <1>3 DEF Challenge

(* Stopping an executor does not forget it.                                *)
LEMMA ShutdownTimer ==
    ASSUME IInv, TInv, NEW i \in Ids, ShutdownNow(i), NEW r \in Requests, NEW q,
           reqs' = [reqs EXCEPT ![r] = q], HasTimer(q.user, kafkaTiming),
           UNCHANGED <<rows, owner, kafkaTiming>>
    PROVE  TInv'
<1>1. \A t \in Tasks : tasks'[t] \in {tasks[t], Ended}
  BY ShutdownNowStep
<1>2. Ended.user = Null /\ Ended.pc = "ended"
  BY DEF Ended, Task
<1>3. \A x \in Requests : reqs'[x] = reqs[x] \/ HasTimer(reqs'[x].user, kafkaTiming')
  BY DEF IInv, TypeOK
<1>4. HasTimer(Null, kafkaTiming')
  BY DEF HasTimer
<1> QED
  BY <1>1, <1>2, <1>3, <1>4, TimerStep DEF TimersKept

(* Every step of a request carries users whose sessions have an executor.  *)
LEMMA StepTimer ==
    ASSUME IInv, TInv, NEW r \in Requests, Step(r)
    PROVE  TInv'
<1> DEFINE q == reqs[r]
           OneRequest == \E q2 : /\ reqs' = [reqs EXCEPT ![r] = q2]
                                 /\ HasTimer(q2.user, kafkaTiming)
           Unwritten == \A n \in Names : rows'[n] = rows[n] \/ HasTimer(rows'[n], kafkaTiming)
<1>1. q \in ConsistentRequest /\ q \in Request /\ HasTimer(q.user, kafkaTiming)
  BY DEF IInv, ConsistentRequest, TInv
<1>2. \A c : Reply(r, c) => OneRequest
  BY NoUserTimer DEF Reply
<1>3. OneRequest /\ Unwritten /\ UNCHANGED <<tasks, executorVars>> => TInv'
  BY OneRequestTimer
<1>4. OnlyRequests => Unwritten /\ UNCHANGED <<tasks, executorVars>>
  BY DEF OnlyRequests
<1>5. CASE VerifyRejected(r)
  <2>1. q.user.id \in Ids /\ q.pc = "verify"
    BY <1>1, <1>5 DEF VerifyRejected, ConsistentRequest, ConsistentUser, User
  <2>2. OneRequest
    BY <1>2, <1>5, <2>1, ChallengeTimer DEF VerifyRejected
  <2> QED
    BY <1>5, <2>1, <2>2, ShutdownTimer DEF VerifyRejected
<1>6. CASE ChallengeUser(r)
  <2>1. OneRequest
    BY <1>2, <1>6, ChallengeTimer DEF ChallengeUser
  <2> QED
    BY <1>3, <1>4, <1>6, <2>1 DEF ChallengeUser
<1>7. CASE FetchCommit(r)
  <2>1. q.pc = "commit" /\ UNCHANGED <<tasks, executorVars>>
    BY <1>7 DEF FetchCommit
  <2>2. Unwritten
    BY <1>1, <1>7, InvParts DEF FetchCommit, Save
  <2>3. HasTimer(Granted(q).user, kafkaTiming)
    BY <1>1, NoUserTimer
  <2>4. OneRequest
    BY <1>2, <1>7, <2>3 DEF FetchCommit
  <2> QED
    BY <1>3, <2>1, <2>2, <2>4
<1>8. CASE NestedFetch(r)
  <2>1. q.name \in Names
    BY <1>1, <1>8 DEF NestedFetch, ConsistentRequest
  <2>2. OneRequest
    BY <1>1, <1>8, <2>1, ReadTimer DEF NestedFetch
  <2> QED
    BY <1>3, <1>4, <1>8, <2>2 DEF NestedFetch
<1>9. CASE RemoveAll(r)
  <2> DEFINE q2 == [q EXCEPT !.pc = "purge", !.listed = Listed(q.name),
                         !.victim = Victim(q.name)]
  <2>1. Reply(r, ServerError) \/ reqs' = [reqs EXCEPT ![r] = q2]
    BY <1>9 DEF RemoveAll
  <2>2. q2.user = q.user
    BY <1>1 DEF Request
  <2> HIDE DEF q2
  <2>3. OneRequest
    BY <1>1, <1>2, <2>1, <2>2
  <2> QED
    BY <1>3, <1>4, <1>9, <2>3 DEF RemoveAll
<1>10. CASE RemoveCommit(r)
  <2>1. OneRequest /\ UNCHANGED <<tasks, executorVars>>
    BY <1>2, <1>10 DEF RemoveCommit
  <2>2. Unwritten
    BY <1>10, InvParts DEF RemoveCommit, HasTimer
  <2> QED
    BY <1>3, <2>1, <2>2
<1>11. CASE RemoveEntrySelect(r)
  <2> DEFINE q2 == [q EXCEPT !.pc = "erase"]
  <2>1. Reply(r, OK) \/ reqs' = [reqs EXCEPT ![r] = q2]
    BY <1>11 DEF RemoveEntrySelect
  <2>2. q2.user = q.user
    BY <1>1 DEF Request
  <2> HIDE DEF q2
  <2>3. OneRequest
    BY <1>1, <1>2, <2>1, <2>2
  <2> QED
    BY <1>3, <1>4, <1>11, <2>3 DEF RemoveEntrySelect
<1>12. CASE TokenMissing(r) \/ FetchEntries(r) \/ AddCommit(r) \/ RemoveEntryCommit(r)
  BY <1>2, <1>3, <1>4, <1>12 DEF TokenMissing, FetchEntries, AddCommit, RemoveEntryCommit
<1> QED
  BY <1>5, <1>6, <1>7, <1>8, <1>9, <1>10, <1>11, <1>12, RegisterTimer, VerifyTimer
     DEF Step, UserServiceStep, DiaryServiceStep
(* A step of a task that gives it a value and may end others.              *)
LEMMA OneTaskTimer ==
    ASSUME IInv, TInv, NEW t \in Tasks, tasks[t].pc # "ended",
           NEW x, HasTimer(x.user, kafkaTiming),
           NEW f \in [Tasks -> ConsistentTask],
           \A y \in Tasks : f[y] \in {tasks[y], Ended},
           tasks' = [f EXCEPT ![t] = x],
           \A n \in Names : rows'[n] = rows[n] \/ HasTimer(rows'[n], kafkaTiming),
           UNCHANGED <<reqs, owner, kafkaTiming>>
    PROVE  TInv'
<1>1. Ended.pc = "ended" /\ HasTimer(Ended.user, kafkaTiming)
  BY DEF Ended, Task, HasTimer
<1>2. ASSUME NEW y \in Tasks
      PROVE  /\ tasks'[y] = tasks[y] \/ HasTimer(tasks'[y].user, kafkaTiming)
             /\ tasks'[y].pc # "ended" => tasks[y].pc # "ended"
  <2>1. CASE y = t
    BY <2>1
  <2>2. CASE y # t
    BY <1>1, <2>2
  <2> QED
    BY <2>1, <2>2
<1> QED
  BY <1>2, TimerStep DEF TimersKept

(* Every round reads and writes users whose sessions have an executor.     *)
LEMMA RoundTimer ==
    ASSUME IInv, TInv, NEW t \in Tasks,
           Fire(t) \/ Acquire(t) \/ AcquireFailed(t) \/ Round(t)
    PROVE  TInv'
<1> DEFINE u == tasks[t].user
           n == owner[t[1]].name
           Becomes(x) == tasks' = [tasks EXCEPT ![t] = x]
           Rest == UNCHANGED <<rows, reqs, owner, kafkaTiming>>
<1>1. tasks \in [Tasks -> ConsistentTask] /\ HasTimer(u, kafkaTiming)
  BY InvParts DEF TInv
<1>2. ASSUME tasks[t].pc # "ended", NEW x, HasTimer(x.user, kafkaTiming), Becomes(x), Rest
      PROVE  TInv'
  BY <1>1, <1>2, OneTaskTimer
<1>3. /\ HasTimer(Ended.user, kafkaTiming) /\ HasTimer(Rearmed(t[1]).user, kafkaTiming)
      /\ \A pc : HasTimer(Task(pc, Null).user, kafkaTiming)
      /\ \A pc, v : Task(pc, v).user = v
  BY DEF HasTimer, Ended, Rearmed, Scheduled, Task
<1>4. OnlyTasks => Rest
  BY DEF OnlyTasks, executorVars
<1>5. tasks[t].pc # "ended" => n \in Names
  BY InvParts DEF Captured
<1>6. tasks[t].pc = "hold" => u \in User /\ u \in ConsistentUser
  BY <1>1 DEF ConsistentTask, KnownUser, ConsistentUser
<1>7. CASE Fire(t)
  BY <1>2, <1>3, <1>4, <1>7 DEF Fire
<1>8. CASE Acquire(t)
  <2>1. HasTimer(rows[n], kafkaTiming)
    BY <1>5, <1>8 DEF Acquire, TInv
  <2> QED
    BY <1>2, <1>3, <1>4, <1>8, <2>1 DEF Acquire
<1>9. CASE AcquireFailed(t)
  BY <1>2, <1>3, <1>4, <1>9 DEF AcquireFailed
<1>10. CASE Skip(t)
  BY <1>2, <1>3, <1>4, <1>10 DEF Skip
<1>11. CASE PublishChallenge(t)
  <2>1. tasks[t].pc = "hold" /\ Rest
    BY <1>11 DEF PublishChallenge, Holding, executorVars
  <2>2. PICK s \in Secrets : Becomes(Task("commit", Rotated(u, s)))
    BY <1>5, <1>11, <2>1, FreshTypes DEF PublishChallenge
  <2>3. HasTimer(Rotated(u, s), kafkaTiming)
    BY <1>1, <1>6, <2>1, TimerChanges
  <2> QED
    BY <1>2, <1>3, <2>1, <2>2, <2>3
<1>12. CASE KickOut(t)
  <2> DEFINE e == kafkaTiming[owner[t[1]].id]
  <2>1. tasks[t].pc = "hold" /\ Rest
    BY <1>12 DEF KickOut, Holding
  <2>2. tasks' = [Cancelled(e) EXCEPT ![t] = Task("commit", KickedOut(u))]
    BY <1>12 DEF KickOut
  <2>3. HasTimer(KickedOut(u), kafkaTiming)
    BY <1>6, <2>1, TimerChanges
  <2>4. /\ Cancelled(e) \in [Tasks -> ConsistentTask]
        /\ \A y \in Tasks : Cancelled(e)[y] \in {tasks[y], Ended}
    BY <1>1, TaskUpdates
  <2> QED
    BY <1>3, <2>1, <2>2, <2>3, <2>4, OneTaskTimer
<1>13. CASE Demote(t)
  <2>1. tasks[t].pc = "hold" /\ u.sstatus = "VALIDATED"
    BY <1>13 DEF Demote, Holding
  <2>2. Becomes(Task("commit", Demoted(u))) /\ Rest
    BY <1>4, <1>13 DEF Demote
  <2>3. HasTimer(Demoted(u), kafkaTiming)
    BY <1>1, <1>6, <2>1, TimerChanges
  <2>4. HasTimer(Task("commit", Demoted(u)).user, kafkaTiming)
    BY <1>3, <2>3
  <2> QED
    BY <1>2, <2>1, <2>2, <2>4
<1>14. CASE KafkaCallFails(t)
  <2>1. tasks[t].pc = "hold" /\ Becomes(Ended) /\ Rest
    BY <1>14 DEF KafkaCallFails, Holding, executorVars
  <2> QED
    BY <1>2, <1>3, <2>1
<1>15. CASE TaskCommit(t)
  <2>1. /\ tasks[t].pc = "commit"
        /\ Becomes(Rearmed(t[1])) \/ Becomes(Ended)
        /\ UNCHANGED <<reqs, owner, kafkaTiming>>
    BY <1>15 DEF TaskCommit, executorVars
  <2>2. \A m \in Names : rows'[m] = rows[m] \/ HasTimer(rows'[m], kafkaTiming)
    BY <1>1, <1>15, InvParts DEF TaskCommit, Save
  <2> QED
    BY <1>1, <1>3, <2>1, <2>2, OneTaskTimer
<1> QED
  BY <1>7, <1>8, <1>9, <1>10, <1>11, <1>12, <1>13, <1>14, <1>15 DEF Round

(* Every user in a session, and every user whose task holds the permit,    *)
(* has an executor: the get in handleActivity never returns null, however  *)
(* removals and registrations of the same name interleave with the tasks.  *)
THEOREM SessionsTimed == Spec => []TimerRegistered
<1>1. Init => TInv
  BY DEF Init, TInv, TaskHasTimer, HasTimer, Idle, Ended, Task
<1>2. IInv /\ TInv /\ [Next]_vars => TInv'
  <2> SUFFICES ASSUME IInv, TInv, [Next]_vars PROVE TInv'
    OBVIOUS
  <2>1. CASE UNCHANGED <<rows, reqs, tasks, executorVars>>
    BY <2>1 DEF TInv, TaskHasTimer, executorVars
  <2> QED
    BY <2>1, ArrivalTimer, StepTimer, RoundTimer DEF Next, vars, TopicDeleted
<1>3. TInv => TimerRegistered
  <2> SUFFICES ASSUME TInv PROVE TimerRegistered
    OBVIOUS
  <2>1. \A n \in Names : InSession(n) => kafkaTiming[rows[n].id] # Null
    BY DEF TInv, HasTimer, InSession
  <2>2. \A t \in Holders : kafkaTiming[owner[t[1]].id] # Null
    BY DEF TInv, TaskHasTimer, Holders
  <2> QED
    BY <2>1, <2>2 DEF TimerRegistered
<1> QED
  BY <1>1, <1>2, <1>3, Invariant, PTL DEF Spec

-----------------------------------------------------------------------------
\* The requests in flight are ones that clients make.

InWorkload == \A r \in Requests : reqs[r].op \in Workload \cup {Null}

(* A request keeps its operation until it is answered.                     *)
LEMMA OperationKept ==
    ASSUME IInv, NEW r \in Requests, Step(r), NEW x \in Requests
    PROVE  reqs'[x].op \in {reqs[x].op, Null}
<1> DEFINE q == reqs[r]
           Becomes(q2) == reqs' = [reqs EXCEPT ![r] = q2]
           Kept == \E q2 : Becomes(q2) /\ q2.op \in {q.op, Null}
<1>1. q \in Request /\ reqs \in [Requests -> Request]
  BY DEF IInv, TypeOK
<1>2. Idle(0).op = Null /\ \A c : Reply(r, c) => Kept
  BY DEF Reply, Idle
<1>3. Granted(q).op \in {q.op, Null}
  <2>1. CASE q.op = "fetch"
    BY <2>1 DEF Granted, Idle
  <2>2. CASE q.op = "remove"
    BY <1>1, <2>2 DEF Granted, Request
  <2>3. CASE q.op \notin {"fetch", "remove"}
    BY <1>1, <2>3 DEF Granted, Request
  <2> QED
    BY <2>1, <2>2, <2>3
<1>4. Read(q).op \in {q.op, Null}
  BY <1>1 DEF Read, Idle, Request
<1>5. ASSUME Challenge(r, q) PROVE Kept
  <2>1. \A s : [q EXCEPT !.pc = "commit", !.user = Challenged(q.user, s)].op = q.op
    BY <1>1 DEF Request
  <2> QED
    BY <1>2, <1>5, <2>1 DEF Challenge
<1>6. CASE VerifyAccepted(r)
  <2> DEFINE dirty == q.user.sstatus # "VALIDATED"
             nested == [q EXCEPT !.pc = "nested", !.user = Null, !.outer = q.user.id,
                                 !.dirty = dirty]
             commit == [q EXCEPT !.pc = "commit", !.user = Validated(q.user)]
  <2>1. Becomes(nested) \/ Becomes(Granted(q)) \/ Becomes(commit)
    BY <1>6 DEF VerifyAccepted
  <2>2. nested.op = q.op
    <3> HIDE DEF dirty
    <3> QED
      BY <1>1 DEF Request
  <2>3. commit.op = q.op
    BY <1>1 DEF Request
  <2> HIDE DEF nested, commit
  <2>4. Kept
    BY <1>3, <2>1, <2>2, <2>3
  <2> QED
    BY <1>1, <2>4
<1>7. CASE RemoveAll(r)
  <2> DEFINE q2 == [q EXCEPT !.pc = "purge", !.listed = Listed(q.name),
                         !.victim = Victim(q.name)]
  <2>1. Reply(r, ServerError) \/ Becomes(q2)
    BY <1>7 DEF RemoveAll
  <2>2. q2.op = q.op
    BY <1>1 DEF Request
  <2> HIDE DEF q2
  <2>3. Kept
    BY <1>2, <2>1, <2>2
  <2> QED
    BY <1>1, <2>3
<1>8. CASE RemoveEntrySelect(r)
  <2>1. [q EXCEPT !.pc = "erase"].op = q.op
    BY <1>1 DEF Request
  <2>2. Kept
    BY <1>2, <1>8, <2>1 DEF RemoveEntrySelect
  <2> QED
    BY <1>1, <2>2
<1>9. CASE FetchCommit(r) \/ NestedFetch(r) \/ ChallengeUser(r) \/ VerifyRejected(r)
  <2>1. Kept
    BY <1>2, <1>3, <1>4, <1>5, <1>9 DEF FetchCommit, NestedFetch, ChallengeUser, VerifyRejected
  <2> QED
    BY <1>1, <2>1
<1>10. CASE \/ RegisterCommit(r) \/ TokenMissing(r) \/ RemoveCommit(r)
            \/ AddCommit(r) \/ RemoveEntryCommit(r) \/ FetchEntries(r)
  <2>1. Kept
    BY <1>2, <1>10 DEF RegisterCommit, TokenMissing, RemoveCommit, AddCommit,
       RemoveEntryCommit, FetchEntries
  <2> QED
    BY <1>1, <2>1
<1> QED
  BY <1>6, <1>7, <1>8, <1>9, <1>10 DEF Step, UserServiceStep, DiaryServiceStep

(* No request is of an operation that clients do not call.                 *)
LEMMA NextWorkload ==
    ASSUME IInv, InWorkload, [Next]_vars
    PROVE  InWorkload'
<1>1. ASSUME NEW r \in Requests, Step(r) PROVE InWorkload'
  BY <1>1, OperationKept DEF InWorkload
<1>2. ASSUME NEW r \in Requests, Arrival(r) PROVE InWorkload'
  <2>1. ASSUME NEW q, q.op \in Workload \cup {Null}, reqs' = [reqs EXCEPT ![r] = q]
        PROVE  InWorkload'
    BY <2>1 DEF IInv, TypeOK, InWorkload
  <2>2. ASSUME NEW o \in Workload, NEW n, NEW d, NEW tok
        PROVE  /\ [Incoming(o, n, d, tok) EXCEPT !.pc = "insert"].op \in Workload \cup {Null}
               /\ Read(Incoming(o, n, d, tok)).op \in Workload \cup {Null}
    BY DEF Incoming, Idle, Read
  <2>3. \A c : Idle(c).op \in Workload \cup {Null}
    BY DEF Idle
  <2>4. CASE Register(r)
    BY <2>1, <2>2, <2>3, <2>4 DEF Register, Reply
  <2>5. ASSUME NEW o, NEW n, NEW d, Receive(r, o, n, d) PROVE InWorkload'
    BY <2>1, <2>2, <2>5 DEF Receive
  <2> QED
    BY <1>2, <2>4, <2>5 DEF Arrival, Fetch, RemoveByName, Add, RemoveEntry, FetchByUsername
<1>3. CASE UNCHANGED reqs
  BY <1>3 DEF InWorkload
<1> QED
  BY <1>1, <1>2, <1>3 DEF Next, vars, Fire, Acquire, AcquireFailed, OnlyTasks, Round, Skip,
     PublishChallenge, KickOut, Demote, KafkaCallFails, TaskCommit, TopicDeleted

(* A server that starts has no requests.                                   *)
LEMMA InitWorkload == Init => InWorkload
  BY DEF Init, InWorkload, Idle

-----------------------------------------------------------------------------
\* Challenges.

(* Only the commit of fetch's own transaction answers 401, unless fetch    *)
(* would run in the transaction of removeByName.                           *)
LEMMA UnauthorizedStep ==
    ASSUME IInv, NEW r \in Requests, reqs[r].op # "remove", Step(r), Answers(r, Unauthorized)
    PROVE  LET u == rows'[reqs[r].name] IN u # Null /\ u.sstatus = "INITIATING"
<1> DEFINE q == reqs[r]
           Becomes(q2) == reqs' = [reqs EXCEPT ![r] = q2]
           Other(q2) == q2.pc # "idle" \/ q2.code # Unauthorized
<1>1. q \in Request /\ q \in ConsistentRequest /\ reqs \in [Requests -> Request]
  BY DEF IInv, TypeOK
<1>2. ASSUME NEW q2, Becomes(q2), Other(q2) PROVE FALSE
  BY <1>1, <1>2 DEF Answers
<1>3. /\ ~Reply(r, OK) /\ ~Reply(r, Created) /\ ~Reply(r, NotFound)
      /\ ~Reply(r, Conflict) /\ ~Reply(r, ServerError)
  BY AnswerCode DEF OK, Created, Unauthorized, NotFound, Conflict, ServerError
<1>4. Other(Granted(q))
  <2>1. CASE q.op = "fetch"
    BY <2>1 DEF Granted, Idle, OK, Unauthorized
  <2>2. CASE q.op \notin {"fetch", "remove"}
    BY <1>1, <2>2 DEF Granted, Request
  <2> QED
    BY <2>1, <2>2
<1>5. ~Challenge(r, q)
  <2>1. \A s : [q EXCEPT !.pc = "commit", !.user = Challenged(q.user, s)].pc = "commit"
    BY <1>1 DEF Request
  <2> QED
    BY <1>2, <2>1 DEF Challenge, Outermost
<1>6. CASE FetchCommit(r)
  <2>1. q.name \in Names /\ q.user # Null
    BY <1>1, <1>6, NullAssumption DEF FetchCommit, ConsistentRequest, KnownUser, ConsistentUser
  <2>2. Save(q.name, q.user) /\ q.user.sstatus = "INITIATING"
    BY <1>2, <1>3, <1>4, <1>6 DEF FetchCommit
  <2> QED
    BY <2>1, <2>2, InvParts DEF Save
<1>7. CASE VerifyAccepted(r)
  <2> DEFINE commit == [q EXCEPT !.pc = "commit", !.user = Validated(q.user)]
  <2>1. Becomes(Granted(q)) \/ Becomes(commit)
    BY <1>7 DEF VerifyAccepted, Outermost
  <2>2. commit.pc = "commit"
    BY <1>1 DEF Request
  <2> QED
    BY <1>2, <1>4, <2>1, <2>2
<1>8. CASE NestedFetch(r) \/ RemoveAll(r) \/ RemoveCommit(r)
  BY <1>1, <1>8 DEF NestedFetch, RemoveAll, RemoveCommit, ConsistentRequest
<1>9. CASE RemoveEntrySelect(r)
  <2>1. [q EXCEPT !.pc = "erase"].pc = "erase"
    BY <1>1 DEF Request
  <2> QED
    BY <1>2, <1>3, <1>9, <2>1 DEF RemoveEntrySelect
<1>10. CASE VerifyRejected(r) \/ ChallengeUser(r)
  BY <1>3, <1>5, <1>10 DEF VerifyRejected, ChallengeUser
<1>11. CASE \/ RegisterCommit(r) \/ TokenMissing(r) \/ AddCommit(r) \/ RemoveEntryCommit(r)
            \/ FetchEntries(r)
  BY <1>3, <1>11 DEF RegisterCommit, TokenMissing, AddCommit, RemoveEntryCommit, FetchEntries
<1> QED
  BY <1>6, <1>7, <1>8, <1>9, <1>10, <1>11 DEF Step, UserServiceStep, DiaryServiceStep

\* The 401 answer to r, if this step gives one, is to a challenge that is stored.
StoresChallenge(r) ==
    Answers(r, Unauthorized) =>
        LET u == rows'[reqs[r].name] IN u # Null /\ u.sstatus = "INITIATING"

(* Whatever else the clients do, removals included, every 401 answer to a  *)
(* request that is not itself a removal carries a challenge that is in the *)
(* table: fetch commits it before it answers, and a transaction that lost  *)
(* its row answers 500.                                                    *)
THEOREM OthersPersist ==
    Spec => [][\A r \in Requests : reqs[r].op # "remove" => StoresChallenge(r)]_vars
<1>1. IInv /\ [Next]_vars
        => [\A r \in Requests : reqs[r].op # "remove" => StoresChallenge(r)]_vars
  BY AnswerStep, UnauthorizedStep DEF StoresChallenge
<1> QED
  BY <1>1, Invariant, PTL DEF Spec

(* So when no client removes users, every 401 answer does.  (A removal's   *)
(* own challenge is rolled back: with removals the claim is false.)        *)
THEOREM ChallengesPersist == ASSUME "remove" \notin Workload PROVE Spec => ChallengeIsPersisted
<1> DEFINE Stored == \A r \in Requests : Answers(r, Unauthorized) =>
                       LET u == rows'[reqs[r].name] IN u # Null /\ u.sstatus = "INITIATING"
<1>1. InWorkload /\ [\A r \in Requests : reqs[r].op # "remove" => StoresChallenge(r)]_vars
        => [Stored]_vars
  BY NullAssumption DEF InWorkload, Operations, StoresChallenge
<1> QED
  BY <1>1, OthersPersist, InitWorkload, NextWorkload, Invariant, PTL DEF Spec, ChallengeIsPersisted

-----------------------------------------------------------------------------
\* The permit.

\* A step that removes no user, and at which no call to Kafka throws.
Undisturbed ==
    /\ \A r \in Requests : ~RemoveCommit(r)
    /\ \A t \in Tasks : ~KafkaCallFails(t)

(* As long as nobody is removed, a request that verifies and a task that   *)
(* may still run are of a user whose row has a status, so that no round    *)
(* ends at findByName or getSstatus with the permit taken.                 *)
PInv ==
    /\ \A r \in Requests : reqs[r].pc = "verify" => HasStatus(rows[reqs[r].name])
    /\ \A t \in Tasks : tasks[t].pc # "ended" => HasStatus(rows[owner[t[1]].name])
    /\ PermitAccounted

\* No row loses its status.
StatusKept == \A n \in Names : HasStatus(rows[n]) => HasStatus(rows'[n])

(* Only a removal takes a row's status away.                               *)
LEMMA StatusStays == ASSUME IInv, [Next]_vars, Undisturbed PROVE StatusKept
<1>1. ASSUME UNCHANGED rows PROVE StatusKept
  BY <1>1 DEF StatusKept
<1>2. ASSUME NEW n \in Names, NEW u \in KnownUser, Save(n, u) PROVE StatusKept
  <2>1. HasStatus(u)
    BY NullAssumption DEF KnownUser, ConsistentUser, HasStatus
  <2> QED
    BY <1>2, <2>1, InvParts DEF Save, StatusKept
<1>3. ASSUME NEW r \in Requests, Step(r) PROVE StatusKept
  <2> DEFINE q == reqs[r]
  <2>1. CASE RegisterCommit(r)
    <3>1. q.name \in Names
      BY <2>1 DEF RegisterCommit, IInv, ConsistentRequest
    <3>2. \/ UNCHANGED rows
          \/ rows[q.name] = Null /\ \E u : rows' = [rows EXCEPT ![q.name] = u]
      BY <2>1 DEF RegisterCommit, Save
    <3> QED
      BY <3>1, <3>2, InvParts DEF StatusKept, HasStatus
  <2>2. CASE FetchCommit(r)
    <3>1. q.name \in Names /\ q.user \in KnownUser
      BY <2>2 DEF FetchCommit, IInv, ConsistentRequest
    <3> QED
      BY <1>1, <1>2, <2>2, <3>1 DEF FetchCommit
  <2> QED
    BY <1>1, <1>3, <2>1, <2>2
       DEF Undisturbed, Step, UserServiceStep, DiaryServiceStep, VerifyAccepted, VerifyRejected,
           TokenMissing, ChallengeUser, NestedFetch, RemoveAll, AddCommit, RemoveEntrySelect,
           RemoveEntryCommit, FetchEntries, OnlyRequests
<1>4. ASSUME NEW r \in Requests, Arrival(r) PROVE UNCHANGED rows
  BY <1>4 DEF Arrival, Register, Fetch, RemoveByName, Add, RemoveEntry, FetchByUsername,
     Receive, OnlyRequests
<1>5. ASSUME NEW t \in Tasks, TaskCommit(t) PROVE StatusKept
  <2>1. owner[t[1]].name \in Names /\ tasks[t].user \in KnownUser
    BY <1>5, InvParts DEF TaskCommit, ConsistentTask, Captured
  <2> QED
    BY <1>1, <1>2, <1>5, <2>1 DEF TaskCommit
<1> QED
  BY <1>1, <1>3, <1>4, <1>5 DEF Next, vars, Fire, Acquire, AcquireFailed, OnlyTasks, Round, Skip,
     PublishChallenge, KickOut, Demote, KafkaCallFails, TopicDeleted

(* A step of a request that leaves the permit with whom it was.            *)
LEMMA RequestPermit ==
    ASSUME IInv, PInv, StatusKept, NEW r \in Requests, NEW q, reqs' = [reqs EXCEPT ![r] = q],
           q.pc = "verify" => HasStatus(rows'[q.name]),
           permits' = permits,
           \A t \in Tasks : tasks[t].pc = "hold" => tasks'[t] = tasks[t],
           \A t \in Tasks : tasks'[t].pc # "ended" => HasStatus(rows'[owner'[t[1]].name])
    PROVE  PInv'
<1>1. ASSUME NEW x \in Requests, reqs'[x].pc = "verify"
      PROVE  HasStatus(rows'[reqs'[x].name])
  <2>1. CASE x = r
    BY <1>1, <2>1 DEF IInv, TypeOK
  <2>2. CASE x # r
    <3>1. reqs'[x] = reqs[x]
      BY <2>2 DEF IInv, TypeOK
    <3>2. reqs[x].name \in Names
      BY <1>1, <3>1 DEF IInv, ConsistentRequest
    <3> QED
      BY <1>1, <3>1, <3>2 DEF PInv, StatusKept
  <2> QED
    BY <2>1, <2>2
<1>2. PermitAccounted'
  BY DEF PInv, PermitAccounted, Holders
<1> QED
  BY <1>1, <1>2 DEF PInv
(* Reading a user shows a status when there is a secret to verify.         *)
LEMMA ReadStatus ==
    ASSUME IInv, NEW q \in Request, q.name \in Names
    PROVE  Read(q).pc = "verify" => HasStatus(rows[Read(q).name])
<1> DEFINE u == rows[q.name]
<1>1. CASE u = Null
  BY <1>1 DEF Read, Idle
<1>2. CASE u # Null
  <2>1. u \in ConsistentUser
    BY <1>2, InvParts
  <2>2. /\ Read(q).name = q.name
        /\ Read(q).pc = IF u.secret = Null THEN "challenge" ELSE "verify"
    BY <1>2 DEF Read, Request
  <2> QED
    BY <1>2, <2>1, <2>2 DEF ConsistentUser, Consistent, HasStatus
<1> QED
  BY <1>1, <1>2

\* What a step makes of the request of r still verifies only against a status.
VerifiesStatus(r) ==
    \E q : /\ reqs' = [reqs EXCEPT ![r] = q]
           /\ q.pc = "verify" => HasStatus(rows'[q.name])

(* Every step of a request does.                                           *)
LEMMA StepStatus ==
    ASSUME IInv, NEW r \in Requests, Arrival(r) \/ Step(r)
    PROVE  VerifiesStatus(r)
<1> DEFINE q == reqs[r]
           Becomes(q2) == reqs' = [reqs EXCEPT ![r] = q2]
<1>1. q \in Request /\ q \in ConsistentRequest
  BY DEF IInv, TypeOK
<1>2. ASSUME NEW q2, Becomes(q2), q2.pc # "verify" PROVE VerifiesStatus(r)
  BY <1>2 DEF VerifiesStatus
<1>3. ASSUME NEW c, Reply(r, c) PROVE VerifiesStatus(r)
  <2>1. Idle(c).pc = "idle"
    BY DEF Idle
  <2> QED
    BY <1>2, <1>3, <2>1 DEF Reply
<1>4. Granted(q).pc # "verify"
  <2>1. CASE q.op = "fetch"
    BY <2>1 DEF Granted, Idle
  <2>2. CASE q.op = "remove"
    BY <1>1, <2>2 DEF Granted, Request
  <2>3. CASE q.op \notin {"fetch", "remove"}
    BY <1>1, <2>3 DEF Granted, Request
  <2> QED
    BY <2>1, <2>2, <2>3
<1>5. ASSUME Challenge(r, q) PROVE VerifiesStatus(r)
  <2>1. \A s : [q EXCEPT !.pc = "commit", !.user = Challenged(q.user, s)].pc = "commit"
    BY <1>1 DEF Request
  <2> QED
    BY <1>2, <1>3, <1>5, <2>1 DEF Challenge
<1>6. CASE Register(r)
  <2>1. \A n : [Incoming("register", n, Null, Null) EXCEPT !.pc = "insert"].pc = "insert"
    BY DEF Incoming, Idle
  <2> QED
    BY <1>2, <1>3, <1>6, <2>1 DEF Register
<1>7. ASSUME NEW o \in Operations, NEW n \in Names, NEW d \in Entries \cup {Null},
             o \in {"add", "delete"} => d \in Entries, Receive(r, o, n, d)
      PROVE  VerifiesStatus(r)
  <2>1. PICK tok \in Tokens(n) : Becomes(Read(Incoming(o, n, d, tok)))
    BY <1>7 DEF Receive
  <2>2. tok \in Secrets \cup {Wrong, Null}
    BY DEF IInv, TypeOK, Tokens, User
  <2>3. Incoming(o, n, d, tok) \in Request /\ Incoming(o, n, d, tok).name = n
    BY <1>7, <2>2, IncomingConsistent DEF ConsistentRequest
  <2>4. rows' = rows
    BY <1>7 DEF Receive, OnlyRequests
  <2> QED
    BY <2>1, <2>3, <2>4, ReadStatus DEF VerifiesStatus
<1>8. CASE NestedFetch(r)
  <2>1. Becomes(Read(q)) /\ q.name \in Names /\ rows' = rows
    BY <1>1, <1>8 DEF NestedFetch, OnlyRequests, ConsistentRequest
  <2> QED
    BY <1>1, <2>1, ReadStatus DEF VerifiesStatus
<1>9. CASE VerifyAccepted(r)
  <2> DEFINE dirty == q.user.sstatus # "VALIDATED"
             nested == [q EXCEPT !.pc = "nested", !.user = Null, !.outer = q.user.id,
                                 !.dirty = dirty]
             commit == [q EXCEPT !.pc = "commit", !.user = Validated(q.user)]
  <2>1. Becomes(nested) \/ Becomes(Granted(q)) \/ Becomes(commit)
    BY <1>9 DEF VerifyAccepted
  <2>2. nested.pc = "nested"
    <3> HIDE DEF dirty
    <3> QED
      BY <1>1 DEF Request
  <2>3. commit.pc = "commit"
    BY <1>1 DEF Request
  <2> HIDE DEF nested, commit
  <2> QED
    BY <1>2, <1>4, <2>1, <2>2, <2>3
<1>10. CASE RemoveAll(r)
  <2> DEFINE q2 == [q EXCEPT !.pc = "purge", !.listed = Listed(q.name),
                         !.victim = Victim(q.name)]
  <2>1. Reply(r, ServerError) \/ Becomes(q2)
    BY <1>10 DEF RemoveAll
  <2>2. q2.pc = "purge"
    BY <1>1 DEF Request
  <2> HIDE DEF q2
  <2> QED
    BY <1>2, <1>3, <2>1, <2>2
<1>11. CASE RemoveEntrySelect(r)
  <2>1. [q EXCEPT !.pc = "erase"].pc = "erase"
    BY <1>1 DEF Request
  <2> QED
    BY <1>2, <1>3, <1>11, <2>1 DEF RemoveEntrySelect
<1>12. CASE FetchCommit(r) \/ VerifyRejected(r) \/ ChallengeUser(r)
  BY <1>2, <1>3, <1>4, <1>5, <1>12 DEF FetchCommit, VerifyRejected, ChallengeUser
<1>13. CASE \/ RegisterCommit(r) \/ TokenMissing(r) \/ RemoveCommit(r) \/ AddCommit(r)
            \/ RemoveEntryCommit(r) \/ FetchEntries(r)
  BY <1>3, <1>13 DEF RegisterCommit, TokenMissing, RemoveCommit, AddCommit, RemoveEntryCommit,
     FetchEntries
<1> QED
  BY <1>6, <1>7, <1>8, <1>9, <1>10, <1>11, <1>12, <1>13
     DEF Arrival, Fetch, RemoveByName, Add, RemoveEntry, FetchByUsername, Operations,
         Step, UserServiceStep, DiaryServiceStep

(* Requests start tasks for users with a status and end tasks that wait:   *)
(* the round that holds the permit goes on.                                *)
LEMMA StepPermit ==
    ASSUME IInv, PInv, StatusKept, NEW r \in Requests, Arrival(r) \/ Step(r)
    PROVE  PInv'
<1> DEFINE q == reqs[r]
           HoldersKept == \A t \in Tasks : tasks[t].pc = "hold" => tasks'[t] = tasks[t]
           OwnersKnown == \A t \in Tasks : tasks'[t].pc # "ended"
                                              => HasStatus(rows'[owner'[t[1]].name])
<1>1. VerifiesStatus(r)
  BY StepStatus
<1>2. permits' = permits /\ HoldersKept /\ OwnersKnown => PInv'
  BY <1>1, RequestPermit DEF VerifiesStatus
<1>3. ASSUME NEW t \in Tasks, tasks[t].pc # "ended"
      PROVE  HasStatus(rows'[owner[t[1]].name])
  BY <1>3, InvParts DEF Captured, PInv, StatusKept
<1>4. CASE UNCHANGED <<tasks, owner, permits>>
  BY <1>2, <1>3, <1>4
<1>5. CASE VerifyAccepted(r) /\ q.user.sstatus = "INITIATING"
  <2>1. PICK e \in FreshExecutors :
          /\ tasks' = [tasks EXCEPT
                         ![<<e, "publish">>]  = IF Kafka THEN Task("new", Null) ELSE Ended,
                         ![<<e, "activity">>] = Scheduled]
          /\ owner' = [owner EXCEPT ![e] = [name |-> q.name, id |-> q.user.id]]
    BY <1>5 DEF VerifyAccepted, scheduleAuthTask
  <2>2. e \in Executors /\ ~Live(e)
    BY AnyOfSubset DEF FreshExecutors, FreeExecutors
  <2>3. permits' = permits /\ rows' = rows /\ HasStatus(rows[q.name])
    BY <1>5 DEF VerifyAccepted, PInv
  <2>4. ASSUME NEW t \in Tasks
        PROVE  /\ tasks[t].pc = "hold" => tasks'[t] = tasks[t]
               /\ tasks'[t].pc # "ended" => HasStatus(rows'[owner'[t[1]].name])
    <3>1. t[1] \in Executors /\ t[2] \in Kinds /\ t = <<t[1], t[2]>>
      BY DEF Tasks
    <3>2. CASE t[1] = e
      <4>1. tasks[t].pc # "hold"
        BY <2>2, <3>1, <3>2 DEF Live
      <4>2. owner'[t[1]].name = q.name
        BY <2>1, <3>1, <3>2, InvParts
      <4> QED
        BY <2>3, <4>1, <4>2
    <3>3. CASE t[1] # e
      <4>1. tasks'[t] = tasks[t] /\ owner'[t[1]] = owner[t[1]]
        BY <2>1, <3>1, <3>3, InvParts
      <4> QED
        BY <1>3, <4>1
    <3> QED
      BY <3>2, <3>3
  <2> QED
    BY <1>2, <2>3, <2>4
<1>6. CASE VerifyRejected(r)
  <2>1. q.user.id \in Ids /\ permits' = permits /\ owner' = owner
    BY <1>6 DEF VerifyRejected, IInv, ConsistentRequest, ConsistentUser, User
  <2>2. ShutdownNow(q.user.id)
    BY <1>6 DEF VerifyRejected
  <2>3. \A t \in Tasks : tasks'[t] \in {tasks[t], Ended}
    BY <2>1, <2>2, ShutdownNowStep
  <2>4. HoldersKept
    BY <2>2 DEF ShutdownNow, Interrupted
  <2>5. OwnersKnown
    BY <1>3, <2>1, <2>3 DEF Ended, Task
  <2> QED
    BY <1>2, <2>1, <2>4, <2>5
<1> QED
  BY <1>4, <1>5, <1>6
     DEF Arrival, Register, Fetch, RemoveByName, Add, RemoveEntry, FetchByUsername, Receive,
         Step, UserServiceStep, DiaryServiceStep, RegisterCommit, VerifyAccepted, TokenMissing,
         ChallengeUser, FetchCommit, NestedFetch, RemoveAll, RemoveCommit, AddCommit,
         RemoveEntrySelect, RemoveEntryCommit, FetchEntries, OnlyRequests, executorVars
(* A round that takes the permit holds it, and one that gives it back or   *)
(* commits has it no more.                                                 *)
LEMMA RoundPermit ==
    ASSUME IInv, PInv, StatusKept, Undisturbed, NEW t \in Tasks,
           Fire(t) \/ Acquire(t) \/ AcquireFailed(t) \/ Round(t)
    PROVE  PInv'
<1> DEFINE n == owner[t[1]].name
<1>1. /\ tasks \in [Tasks -> ConsistentTask] /\ OneHolder /\ permits \in {0, 1}
  BY DEF IInv, TypeOK
<1>2. reqs' = reqs /\ owner' = owner
  BY DEF Fire, Acquire, AcquireFailed, OnlyTasks, Round, Skip, PublishChallenge, KickOut, Demote,
     KafkaCallFails, TaskCommit, executorVars
<1>3. ASSUME NEW r \in Requests, reqs'[r].pc = "verify"
      PROVE  HasStatus(rows'[reqs'[r].name])
  <2>1. reqs[r].pc = "verify" /\ reqs[r].name \in Names
    BY <1>2, <1>3 DEF IInv, ConsistentRequest
  <2> QED
    BY <1>2, <2>1 DEF PInv, StatusKept
<1>4. ASSUME NEW x \in Tasks, tasks[x].pc # "ended"
      PROVE  HasStatus(rows'[owner'[x[1]].name])
  BY <1>2, <1>4, InvParts DEF Captured, PInv, StatusKept
<1>5. \A x \in Tasks : tasks'[x].pc # "ended" => tasks[x].pc # "ended"
  <2>1. CASE \E e : \E x : tasks' = [Cancelled(e) EXCEPT ![t] = x] /\ tasks[t].pc # "ended"
    BY <1>1, <2>1, TaskUpdates DEF Ended, Task
  <2>2. CASE \E x : tasks' = [tasks EXCEPT ![t] = x] /\ tasks[t].pc # "ended"
    BY <1>1, <2>2
  <2>3. Fire(t) \/ Acquire(t) \/ AcquireFailed(t) => tasks[t].pc # "ended"
    BY DEF Fire, Acquire, AcquireFailed
  <2>4. Round(t) => tasks[t].pc # "ended"
    BY DEF Round, Skip, PublishChallenge, KickOut, Demote, KafkaCallFails, TaskCommit, Holding
  <2> QED
    BY <2>1, <2>2, <2>3, <2>4 DEF Fire, Acquire, AcquireFailed, Round, Skip, PublishChallenge,
       KickOut, Demote, KafkaCallFails, TaskCommit
<1>6. PermitAccounted'
  <2>1. CASE UNCHANGED permits /\ \A x \in Tasks : tasks[x].pc = "hold" => tasks'[x] = tasks[x]
    BY <2>1 DEF PInv, PermitAccounted, Holders
  <2>2. CASE tasks[t].pc = "hold" /\ release
    <3>1. permits = 0
      BY <1>1, <2>2 DEF OneHolder, Holders
    <3> QED
      BY <2>2, <3>1 DEF release, PermitAccounted
  <2>3. CASE Fire(t)
    <3>1. \A x \in Tasks : tasks[x].pc = "hold" => tasks'[x] = tasks[x]
      BY <1>1, <2>3 DEF Fire
    <3> QED
      BY <2>1, <2>3, <3>1 DEF Fire
  <2>4. CASE Acquire(t)
    <3>1. tasks'[t].pc = "hold"
      BY <1>1, <2>4 DEF Acquire, Task
    <3> QED
      BY <3>1 DEF PermitAccounted, Holders
  <2>5. CASE AcquireFailed(t)
    BY <2>5 DEF AcquireFailed, PInv
  <2>6. CASE TaskCommit(t)
    <3>1. \A x \in Tasks : tasks[x].pc = "hold" => tasks'[x] = tasks[x]
      BY <1>1, <2>6 DEF TaskCommit
    <3> QED
      BY <2>1, <2>6, <3>1 DEF TaskCommit
  <2>7. CASE Skip(t) \/ PublishChallenge(t) \/ KickOut(t) \/ Demote(t)
    BY <2>2, <2>7 DEF Skip, PublishChallenge, KickOut, Demote, Holding
  <2> QED
    BY <2>3, <2>4, <2>5, <2>6, <2>7 DEF Round, Undisturbed
<1> QED
  BY <1>3, <1>4, <1>5, <1>6 DEF PInv

(* As long as no user is removed and no call to Kafka throws, the permit   *)
(* is free or a round holds it: findByName and getSstatus, the other two   *)
(* calls of a round that may throw before the release, then never do.      *)
THEOREM PermitNotLost == Spec /\ [][Undisturbed]_vars => []PermitAccounted
<1>1. Init => PInv
  BY DEF Init, PInv, PermitAccounted, Idle, Ended, Task
<1>2. IInv /\ PInv /\ [Next]_vars /\ [Undisturbed]_vars => PInv'
  <2> SUFFICES ASSUME IInv, PInv, [Next]_vars, [Undisturbed]_vars PROVE PInv'
    OBVIOUS
  <2>1. CASE UNCHANGED <<rows, reqs, tasks, owner, permits>>
    BY <2>1 DEF PInv, PermitAccounted, Holders
  <2>2. CASE Undisturbed /\ Next
    <3>1. StatusKept
      BY <2>2, StatusStays
    <3> QED
      BY <2>1, <2>2, <3>1, StepPermit, RoundPermit DEF Next, TopicDeleted, executorVars
  <2> QED
    BY <2>1, <2>2 DEF vars, executorVars
<1>3. PInv => PermitAccounted
  BY DEF PInv
<1> QED
  BY <1>1, <1>2, <1>3, Invariant, PTL DEF Spec

(* A server without Kafka whose clients remove no users loses no permit.   *)
THEOREM PermitNeverLost ==
    ASSUME Kafka = FALSE, "remove" \notin Workload
    PROVE  Spec => []PermitAccounted
<1>1. IInv /\ InWorkload => Undisturbed
  <2> SUFFICES ASSUME IInv, InWorkload PROVE Undisturbed
    OBVIOUS
  <2>1. ASSUME NEW r \in Requests, RemoveCommit(r) PROVE FALSE
    BY <2>1, NullAssumption DEF InWorkload, Operations, RemoveCommit, IInv, ConsistentRequest
  <2>2. ASSUME NEW t \in Tasks PROVE ~KafkaCallFails(t)
    BY DEF KafkaCallFails
  <2> QED
    BY <2>1, <2>2 DEF Undisturbed
<1> QED
  BY <1>1, InitWorkload, NextWorkload, Invariant, PermitNotLost, PTL DEF Spec
=============================================================================
