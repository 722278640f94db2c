--------------------------- MODULE RegistryProofs ---------------------------
(***************************************************************************)
(* With one request at a time, the two tables implement the registry,      *)
(* whatever the tasks of the sessions do in between.                       *)
(***************************************************************************)
EXTENDS ZKAuthProofs

\* Interleaved requests may leave entries without a user; one client at a time may not.
SingleClient == \A r1, r2 \in Requests : r1 = r2

\* A request that has a secret to verify, or is past fetch, is of such a user; one
\* that is about to remove the user has read the row and the entries as they are.
RequestFresh(q, row, listed) ==
    /\ q.pc \in {"verify", "body", "list", "purge", "erase"} => HasStatus(row)
    /\ q.pc = "purge" => q.listed = listed /\ q.victim = row.id

Fresh(r) == RequestFresh(reqs[r], rows[reqs[r].name], Listed(reqs[r].name))

RInv == \A r \in Requests : Fresh(r)

-----------------------------------------------------------------------------
\* Requests.

(* A round's commit keeps the id of the row and leaves a status in it, and *)
(* the entries are not its business: requests in flight notice nothing.    *)
LEMMA CommitUnnoticed ==
    ASSUME IInv, RInv, NEW t \in Tasks, TaskCommit(t), NEW r \in Requests
    PROVE  Fresh(r)'
<1> DEFINE n == owner[t[1]].name
           u == tasks[t].user
           q == reqs[r]
<1>1. /\ reqs' = reqs /\ diaries' = diaries
      /\ tasks[t].pc = "commit"
    BY DEF TaskCommit
<1>2. CASE UNCHANGED rows
  BY <1>1, <1>2 DEF RInv, Fresh, Listed
<1>3. CASE Persisted(n, u) /\ Save(n, u)
  <2>1. u \in ConsistentUser /\ u # Null /\ u.sstatus # "NONE"
    BY <1>1, InvParts, NullAssumption DEF ConsistentTask, KnownUser, ConsistentUser
  <2>2. /\ rows' = [rows EXCEPT ![n] = u] /\ rows[n] # Null /\ rows[n].id = u.id
    BY <1>3 DEF Persisted, HasId, Save
  <2>3. /\ rows[q.name] # Null => /\ rows'[q.name] # Null
                                  /\ rows'[q.name].id = rows[q.name].id
        /\ HasStatus(rows[q.name]) => HasStatus(rows'[q.name])
    <3>1. CASE q.name = n /\ n \in Names
      BY <2>1, <2>2, <3>1, InvParts DEF HasStatus
    <3>2. CASE q.name # n \/ n \notin Names
      BY <2>2, <3>2, InvParts
    <3> QED
      BY <3>1, <3>2
  <2>4. Listed(q.name)' = Listed(q.name)
    BY <1>1 DEF Listed
  <2>5. RequestFresh(q, rows[q.name], Listed(q.name))
    BY DEF RInv, Fresh
  <2> QED
    BY <1>1, <2>3, <2>4, <2>5 DEF Fresh, RequestFresh, HasStatus
<1> QED
  BY <1>2, <1>3 DEF TaskCommit

(* Reading a user with a secret shows it was challenged.                   *)
LEMMA ReadFresh ==
    ASSUME IInv, NEW q \in ConsistentRequest, q.name \in Names, NEW listed
    PROVE  RequestFresh(Read(q), rows[Read(q).name], listed)
<1> DEFINE u == rows[q.name]
<1>1. CASE u = Null
  BY <1>1 DEF Read, Idle, RequestFresh
<1>2. CASE u # Null
  <2>1. u \in ConsistentUser
    BY <1>2, InvParts
  <2>2. /\ Read(q).name = q.name
        /\ Read(q).pc = IF u.secret = Null THEN "challenge" ELSE "verify"
    BY <1>2 DEF Read, ConsistentRequest, Request
  <2>3. u.secret # Null => u.sstatus # "NONE"
    BY <2>1 DEF ConsistentUser, Consistent
  <2> QED
    BY <1>2, <2>2, <2>3 DEF RequestFresh, HasStatus
<1> QED
  BY <1>1, <1>2

(* A granted request is answered or goes on for the same user.             *)
LEMMA GrantedPc ==
    ASSUME NEW q \in Request
    PROVE  /\ Granted(q).pc \in {"idle", "list", "body"}
           /\ Granted(q).pc # "idle" => Granted(q).name = q.name
<1>1. CASE q.op = "fetch"
  BY <1>1 DEF Granted, Idle
<1>2. CASE q.op = "remove"
  BY <1>2 DEF Granted, Request
<1>3. CASE q.op \notin {"fetch", "remove"}
  BY <1>3 DEF Granted, Request
<1> QED
  BY <1>1, <1>2, <1>3

\* What Listed returns in the next state.
ListedNext(n) == {d \in Entries : <<n, d>> \in diaries'}

(* The only request is fresh if what it becomes is.                        *)
LEMMA OnlyRequest ==
    ASSUME SingleClient, IInv, NEW r \in Requests, NEW q,
           reqs' = [reqs EXCEPT ![r] = q],
           RequestFresh(q, rows'[q.name], ListedNext(q.name))
    PROVE  \A x \in Requests : Fresh(x)'
<1>1. \A x \in Requests : x = r
  BY DEF SingleClient
<1>2. reqs'[r] = q
  BY DEF IInv, TypeOK
<1> QED
  BY <1>1, <1>2 DEF Fresh, Listed, ListedNext

(* An answered request is past caring.                                     *)
LEMMA Answered ==
    ASSUME SingleClient, IInv, NEW r \in Requests, NEW c, Reply(r, c)
    PROVE  \A x \in Requests : Fresh(x)'
<1>1. RequestFresh(Idle(c), rows'[Idle(c).name], ListedNext(Idle(c).name))
  BY DEF RequestFresh, Idle
<1> QED
  BY <1>1, OnlyRequest DEF Reply

(* A request that arrives has at most read a user.                         *)
LEMMA ArrivalFresh ==
    ASSUME SingleClient, IInv, NEW r \in Requests, Arrival(r)
    PROVE  \A x \in Requests : Fresh(x)'
<1>1. ASSUME Register(r) PROVE \A x \in Requests : Fresh(x)'
  <2>1. PICK n \in Names :
          \/ Reply(r, Conflict)
          \/ reqs' = [reqs EXCEPT ![r] =
                        [Incoming("register", n, Null, Null) EXCEPT !.pc = "insert"]]
    BY <1>1 DEF Register
  <2> DEFINE q == [Incoming("register", n, Null, Null) EXCEPT !.pc = "insert"]
  <2>2. q.pc = "insert"
    BY IncomingConsistent DEF Operations, ConsistentRequest, Request
  <2>3. RequestFresh(q, rows'[q.name], ListedNext(q.name))
    BY <2>2 DEF RequestFresh
  <2> QED
    BY <2>1, <2>3, Answered, OnlyRequest
<1>2. ASSUME NEW o \in Operations, NEW n \in Names, NEW d \in Entries \cup {Null},
             o \in {"add", "delete"} => d \in Entries, Receive(r, o, n, d)
      PROVE  \A x \in Requests : Fresh(x)'
  <2>1. PICK tok \in Tokens(n) :
          reqs' = [reqs EXCEPT ![r] = Read(Incoming(o, n, d, tok))]
    BY <1>2 DEF Receive
  <2>2. tok \in Secrets \cup {Wrong, Null}
    BY DEF IInv, TypeOK, Tokens, User
  <2> DEFINE q == Incoming(o, n, d, tok)
  <2>3. q \in ConsistentRequest /\ q.name \in Names
    BY <1>2, <2>2, IncomingConsistent
  <2>4. rows' = rows
    BY <1>2 DEF Receive, OnlyRequests
  <2>5. RequestFresh(Read(q), rows'[Read(q).name], ListedNext(Read(q).name))
    BY <2>3, <2>4, ReadFresh
  <2> QED
    BY <2>1, <2>5, OnlyRequest
<1> QED
  BY <1>1, <1>2 DEF Arrival, Fetch, RemoveByName, Add, RemoveEntry, FetchByUsername, Operations

(* A challenge is a status.                                                *)
LEMMA ChallengeFresh ==
    ASSUME SingleClient, IInv, NEW r \in Requests, reqs[r].user \in ConsistentUser,
           Challenge(r, reqs[r])
    PROVE  \A x \in Requests : Fresh(x)'
<1> DEFINE q == reqs[r]
<1>1. CASE Reply(r, Unauthorized)
  BY <1>1, Answered
<1>2. ASSUME NEW s, reqs' = [reqs EXCEPT ![r] =
                               [q EXCEPT !.pc = "commit", !.user = Challenged(q.user, s)]]
      PROVE  \A x \in Requests : Fresh(x)'
  <2> DEFINE q2 == [q EXCEPT !.pc = "commit", !.user = Challenged(q.user, s)]
  <2>1. q \in Request
    BY DEF IInv, TypeOK
  <2>2. q2.pc = "commit"
    BY <2>1 DEF Request
  <2>3. RequestFresh(q2, rows'[q2.name], ListedNext(q2.name))
    BY <2>2 DEF RequestFresh
  <2> QED
    BY <1>2, <2>3, OnlyRequest
<1> QED
  BY <1>1, <1>2 DEF Challenge

(* Every step of a request leaves it fresh.                                *)
LEMMA StepFresh ==
    ASSUME SingleClient, IInv, RInv, NEW r \in Requests, Step(r)
    PROVE  \A x \in Requests : Fresh(x)'
<1> DEFINE q == reqs[r]
           Becomes(q2) == reqs' = [reqs EXCEPT ![r] = q2]
           Goal == \A x \in Requests : Fresh(x)'
<1>1. q \in ConsistentRequest /\ q \in Request
  BY DEF IInv, ConsistentRequest
<1>2. RequestFresh(q, rows[q.name], Listed(q.name))
  BY DEF RInv, Fresh
<1>3. CASE RegisterCommit(r)
  BY <1>3, Answered DEF RegisterCommit
<1>4. CASE VerifyAccepted(r)
  <2>1. q.pc = "verify" /\ rows' = rows /\ HasStatus(rows[q.name])
    BY <1>2, <1>4 DEF VerifyAccepted, RequestFresh
  <2>2. CASE Becomes([q EXCEPT !.pc = "nested", !.user = Null, !.outer = q.user.id,
                                !.dirty = q.user.sstatus # "VALIDATED"])
    <3> DEFINE d  == q.user.sstatus # "VALIDATED"
               q2 == [q EXCEPT !.pc = "nested", !.user = Null, !.outer = q.user.id, !.dirty = d]
    <3>1. Becomes(q2)
      BY <2>2
    <3>2. q2.pc = "nested"
      <4> HIDE DEF d
      <4> QED
        BY <1>1 DEF Request
    <3> HIDE DEF q2
    <3> QED
      BY <3>1, <3>2, OnlyRequest DEF RequestFresh
  <2>3. CASE Becomes(Granted(q))
    <3>1. RequestFresh(Granted(q), rows'[Granted(q).name], ListedNext(Granted(q).name))
      BY <1>1, <2>1, GrantedPc DEF RequestFresh
    <3> QED
      BY <2>3, <3>1, OnlyRequest
  <2>4. CASE Becomes([q EXCEPT !.pc = "commit", !.user = Validated(q.user)])
    <3> DEFINE q2 == [q EXCEPT !.pc = "commit", !.user = Validated(q.user)]
    <3>1. q2.pc = "commit"
      BY <1>1 DEF Request
    <3>2. RequestFresh(q2, rows'[q2.name], ListedNext(q2.name))
      BY <3>1 DEF RequestFresh
    <3> QED
      BY <2>4, <3>2, OnlyRequest
  <2> QED
    BY <1>4, <2>2, <2>3, <2>4 DEF VerifyAccepted
<1>5. CASE VerifyRejected(r)
  <2>1. q.user \in ConsistentUser
    BY <1>1, <1>5 DEF VerifyRejected, ConsistentRequest
  <2> QED
    BY <1>5, <2>1, ChallengeFresh, Answered DEF VerifyRejected
<1>6. CASE TokenMissing(r)
  BY <1>6, Answered DEF TokenMissing
<1>7. CASE ChallengeUser(r)
  <2>1. q.user \in ConsistentUser
    BY <1>1, <1>7 DEF ChallengeUser, ConsistentRequest
  <2> QED
    BY <1>7, <2>1, ChallengeFresh, Answered DEF ChallengeUser
<1>8. CASE FetchCommit(r)
  <2>1. q.pc = "commit" /\ q.name \in Names /\ q.user \in ConsistentUser /\ q.user \in KnownUser
    BY <1>1, <1>8 DEF FetchCommit, ConsistentRequest, KnownUser
  <2>2. CASE Save(q.name, q.user) /\ Becomes(Granted(q))
    <3>1. HasStatus(rows'[q.name])
      BY <1>2, <2>1, <2>2, InvParts, NullAssumption
         DEF Save, HasStatus, KnownUser, ConsistentUser
    <3>2. RequestFresh(Granted(q), rows'[Granted(q).name], ListedNext(Granted(q).name))
      BY <1>1, <3>1, GrantedPc DEF RequestFresh
    <3> QED
      BY <2>2, <3>2, OnlyRequest
  <2> QED
    BY <1>8, <2>2, Answered DEF FetchCommit
<1>9. CASE NestedFetch(r)
  <2>1. q.name \in Names /\ Becomes(Read(q)) /\ rows' = rows
    BY <1>1, <1>9 DEF NestedFetch, ConsistentRequest, OnlyRequests
  <2>2. RequestFresh(Read(q), rows'[Read(q).name], ListedNext(Read(q).name))
    BY <1>1, <2>1, ReadFresh
  <2> QED
    BY <2>1, <2>2, OnlyRequest
<1>10. CASE RemoveAll(r)
  <2> DEFINE q2 == [q EXCEPT !.pc = "purge", !.listed = Listed(q.name),
                         !.victim = Victim(q.name)]
  <2>1. /\ q.pc = "list" /\ rows' = rows /\ diaries' = diaries
        /\ HasStatus(rows[q.name])
    BY <1>2, <1>10 DEF RemoveAll, OnlyRequests, RequestFresh
  <2>2. Reply(r, ServerError) \/ Becomes(q2)
    BY <1>10 DEF RemoveAll
  <2>3. /\ q2.pc = "purge" /\ q2.name = q.name
        /\ q2.listed = Listed(q.name) /\ q2.victim = Victim(q.name)
    BY <1>1 DEF Request
  <2>4. Listed(q.name) = ListedNext(q.name) /\ Victim(q.name) = rows[q.name].id
    BY <2>1 DEF Listed, ListedNext, Victim, HasStatus
  <2>5. RequestFresh(q2, rows'[q2.name], ListedNext(q2.name))
    BY <2>1, <2>3, <2>4 DEF RequestFresh
  <2> QED
    BY <2>2, <2>5, Answered, OnlyRequest
<1>11. CASE RemoveCommit(r)
  BY <1>11, Answered DEF RemoveCommit
<1>12. CASE AddCommit(r)
  BY <1>12, Answered DEF AddCommit
<1>13. CASE RemoveEntrySelect(r)
  <2> DEFINE q2 == [q EXCEPT !.pc = "erase"]
  <2>1. /\ q.pc = "body" /\ rows' = rows
        /\ Reply(r, OK) \/ Becomes(q2)
    BY <1>13 DEF RemoveEntrySelect, OnlyRequests
  <2>2. q2.pc = "erase" /\ q2.name = q.name
    BY <1>1 DEF Request
  <2>3. RequestFresh(q2, rows'[q2.name], ListedNext(q2.name))
    BY <1>2, <2>1, <2>2 DEF RequestFresh
  <2> QED
    BY <2>1, <2>3, Answered, OnlyRequest
<1>14. CASE RemoveEntryCommit(r)
  BY <1>14, Answered DEF RemoveEntryCommit
<1>15. CASE FetchEntries(r)
  BY <1>15, Answered DEF FetchEntries
<1> QED
  BY <1>3, <1>4, <1>5, <1>6, <1>7, <1>8, <1>9, <1>10, <1>11, <1>12, <1>13, <1>14, <1>15
     DEF Step, UserServiceStep, DiaryServiceStep

-----------------------------------------------------------------------------
\* RInv is inductive, with IInv.

(* A server that starts has nothing in flight.                             *)
LEMMA InitRInv == Init => RInv
<1> SUFFICES ASSUME Init PROVE RInv
  OBVIOUS
<1>1. \A r \in Requests : reqs[r].pc = "idle"
  BY DEF Init, Idle
<1> QED
  BY <1>1 DEF RInv, Fresh, RequestFresh

(* One request at a time, and no step of a task disturbs it.               *)
LEMMA NextRInv == ASSUME SingleClient, IInv, RInv, [Next]_vars PROVE RInv'
<1>1. CASE \E r \in Requests : Arrival(r) \/ Step(r)
  BY <1>1, ArrivalFresh, StepFresh DEF RInv
<1>2. CASE \E t \in Tasks : TaskCommit(t)
  BY <1>2, CommitUnnoticed DEF RInv
<1>3. CASE UNCHANGED <<rows, diaries, reqs>>
  BY <1>3 DEF RInv, Fresh, Listed
<1> QED
  BY <1>1, <1>2, <1>3 DEF Next, vars, TopicDeleted, Fire, Acquire, AcquireFailed, OnlyTasks,
     Round, Skip, PublishChallenge, KickOut, Demote, KafkaCallFails

-----------------------------------------------------------------------------
\* The refinement.

(* The tables of a server that starts are an empty registry.               *)
LEMMA InitRegistry == Init => Abstract!Init
  BY DEF Init, Abstract!Init, IdOf, HasStatus

(* Writing back a row with a status is at most a first challenge.          *)
LEMMA SaveRegistry ==
    ASSUME IInv, NEW n \in Names, NEW u \in KnownUser,
           Persisted(n, u), Save(n, u), UNCHANGED diaries
    PROVE  Abstract!Next
<1>1. /\ rows[n] # Null /\ rows[n].id = u.id /\ u # Null /\ u.sstatus # "NONE"
      /\ rows' = [rows EXCEPT ![n] = u]
  BY NullAssumption DEF Persisted, HasId, Save, KnownUser, ConsistentUser
<1>2. /\ rows'[n] = u
      /\ \A m \in Names : m # n => rows'[m] = rows[m]
  BY <1>1, InvParts
<1>3. [m \in Names |-> IdOf(m)]' = [m \in Names |-> IdOf(m)]
  BY <1>1, <1>2 DEF IdOf
<1>4. {m \in Names : HasStatus(rows[m])}' = {m \in Names : HasStatus(rows[m])} \cup {n}
  BY <1>1, <1>2 DEF HasStatus
<1>5. [m \in Names |-> IdOf(m)][n] # Null
  BY <1>1, InvParts, NullAssumption DEF IdOf, ConsistentUser, User
<1>6. Abstract!FirstChallenge(n)
  BY <1>3, <1>4, <1>5 DEF Abstract!FirstChallenge
<1> QED
  BY <1>6 DEF Abstract!Next

(* A registration takes a free name.                                       *)
LEMMA RegisterRegistry ==
    ASSUME IInv, NEW n \in Names, rows[n] = Null, NEW i \in Ids, Save(n, Registered(i)),
           UNCHANGED diaries
    PROVE  Abstract!Next
<1>1. /\ rows'[n] = Registered(i)
      /\ \A m \in Names : m # n => rows'[m] = rows[m]
  BY InvParts DEF Save
<1>2. /\ Registered(i) # Null
      /\ Registered(i).id = i /\ Registered(i).sstatus = "NONE"
  BY RegisteredConsistent, NullAssumption DEF Registered, ConsistentUser
<1>3. [m \in Names |-> IdOf(m)]' = [[m \in Names |-> IdOf(m)] EXCEPT ![n] = i]
  BY <1>1, <1>2 DEF IdOf
<1>4. {m \in Names : HasStatus(rows[m])}' = {m \in Names : HasStatus(rows[m])}
  BY <1>1, <1>2 DEF HasStatus
<1>5. [m \in Names |-> IdOf(m)][n] = Null
  BY DEF IdOf
<1>6. Abstract!Register(n)
  BY <1>3, <1>4, <1>5 DEF Abstract!Register
<1> QED
  BY <1>6 DEF Abstract!Next

(* A removal that commits takes the user and all entries at once.          *)
LEMMA RemoveRegistry ==
    ASSUME IInv, RInv, NEW r \in Requests, RemoveCommit(r)
    PROVE  Abstract!Next \/ UNCHANGED <<rows, diaries>>
<1> DEFINE q == reqs[r]
           n == q.name
<1>1. q.pc = "purge" /\ n \in Names
  BY DEF RemoveCommit, IInv, ConsistentRequest
<1>2. HasStatus(rows[n]) /\ q.listed = Listed(n) /\ q.victim = rows[n].id
  BY <1>1 DEF RInv, Fresh, RequestFresh
<1>3. rows[n] # Null /\ rows[n].id \in Ids
  BY <1>1, <1>2, InvParts DEF HasStatus, ConsistentUser, User
<1>4. CASE /\ rows' = [rows EXCEPT ![n] = Null]
           /\ diaries' = diaries \ {<<n, d>> : d \in q.listed}
  <2>1. /\ rows'[n] = Null
        /\ \A m \in Names : m # n => rows'[m] = rows[m]
    BY <1>1, <1>4, InvParts
  <2>2. [m \in Names |-> IdOf(m)]' = [[m \in Names |-> IdOf(m)] EXCEPT ![n] = Null]
    BY <2>1 DEF IdOf
  <2>3. {m \in Names : HasStatus(rows[m])}' = {m \in Names : HasStatus(rows[m])} \ {n}
    BY <2>1 DEF HasStatus
  <2>4. diaries' = diaries \ ({n} \X Entries)
    <3>1. diaries \subseteq Names \X Entries
      BY InvParts
    <3>2. ASSUME NEW e \in diaries
          PROVE  e \in {<<n, d>> : d \in q.listed} <=> e \in {n} \X Entries
      <4>1. PICK m \in Names, d \in Entries : e = <<m, d>>
        BY <3>1
      <4> QED
        BY <1>2, <4>1 DEF Listed
    <3> QED
      BY <1>4, <3>2
  <2>5. n \in {m \in Names : HasStatus(rows[m])}
    BY <1>1, <1>2
  <2>6. Abstract!Unregister(n)
    BY <2>2, <2>3, <2>4, <2>5 DEF Abstract!Unregister
  <2> QED
    BY <1>1, <2>6 DEF Abstract!Next
<1>5. q.victim # Null
  BY <1>2, <1>3, NullAssumption
<1> QED
  BY <1>4, <1>5 DEF RemoveCommit

(* A step of a request is a step of the registry, or none.                 *)
LEMMA RequestRegistry ==
    ASSUME IInv, RInv, NEW r \in Requests, Step(r)
    PROVE  Abstract!Next \/ UNCHANGED <<rows, diaries>>
<1> DEFINE q == reqs[r]
<1>1. q \in ConsistentRequest
  BY DEF IInv
<1>2. RequestFresh(q, rows[q.name], Listed(q.name))
  BY DEF RInv, Fresh
<1>3. CASE RegisterCommit(r)
  <2>1. q.name \in Names /\ diaries' = diaries
    BY <1>1, <1>3 DEF RegisterCommit, ConsistentRequest
  <2>2. CASE UNCHANGED rows
    BY <2>1, <2>2
  <2>3. CASE rows[q.name] = Null /\ \E i \in FreshIds : Save(q.name, Registered(i))
    BY <2>1, <2>3, FreshTypes, RegisterRegistry
  <2> QED
    BY <1>3, <2>2, <2>3 DEF RegisterCommit
<1>4. CASE FetchCommit(r)
  <2>1. q.name \in Names /\ q.user \in KnownUser /\ diaries' = diaries
    BY <1>1, <1>4 DEF FetchCommit, ConsistentRequest
  <2> QED
    BY <1>4, <2>1, SaveRegistry DEF FetchCommit
<1>5. CASE RemoveCommit(r)
  BY <1>5, RemoveRegistry
<1>6. CASE AddCommit(r) \/ RemoveEntryCommit(r)
  <2>1. /\ q.pc \in {"body", "erase"} /\ q.name \in Names /\ rows' = rows
        /\ \/ diaries' = diaries \cup {<<q.name, q.entry>>} /\ q.entry \in Entries
           \/ diaries' = diaries \ {<<q.name, q.entry>>}
    BY <1>1, <1>6 DEF AddCommit, RemoveEntryCommit, ConsistentRequest
  <2>2. q.name \in {m \in Names : HasStatus(rows[m])}
    BY <1>2, <2>1 DEF RequestFresh
  <2>3. /\ [m \in Names |-> IdOf(m)]' = [m \in Names |-> IdOf(m)]
        /\ {m \in Names : HasStatus(rows[m])}' = {m \in Names : HasStatus(rows[m])}
    BY <2>1 DEF IdOf, HasStatus
  <2>4. CASE q.entry \in Entries
    <3>1. Abstract!Write(q.name, q.entry) \/ Abstract!Erase(q.name, q.entry)
      BY <2>1, <2>2, <2>3 DEF Abstract!Write, Abstract!Erase
    <3> QED
      BY <2>1, <2>4, <3>1 DEF Abstract!Next
  <2>5. CASE q.entry \notin Entries
    <3>1. diaries \subseteq Names \X Entries
      BY InvParts
    <3>2. <<q.name, q.entry>> \notin diaries
      BY <2>5, <3>1
    <3> QED
      BY <2>1, <2>5, <3>2
  <2> QED
    BY <2>4, <2>5
<1>7. CASE UNCHANGED <<rows, diaries>>
  BY <1>7
<1> QED
  BY <1>3, <1>4, <1>5, <1>6, <1>7
     DEF Step, UserServiceStep, DiaryServiceStep, VerifyAccepted, VerifyRejected, TokenMissing,
         ChallengeUser, NestedFetch, RemoveAll, RemoveEntrySelect, FetchEntries, OnlyRequests

(* Every step of the server is a step of the registry, or none.            *)
LEMMA NextRegistry ==
    ASSUME IInv, RInv, [Next]_vars
    PROVE  Abstract!Next \/ UNCHANGED <<rows, diaries>>
<1>1. ASSUME NEW r \in Requests, Arrival(r) PROVE UNCHANGED <<rows, diaries>>
  BY <1>1 DEF Arrival, Register, Fetch, RemoveByName, Add, RemoveEntry, FetchByUsername,
     Receive, OnlyRequests
<1>2. ASSUME NEW t \in Tasks, Fire(t) \/ Acquire(t) \/ AcquireFailed(t) \/ Round(t)
      PROVE  Abstract!Next \/ UNCHANGED <<rows, diaries>>
  <2>1. CASE TaskCommit(t)
    <3> DEFINE n == owner[t[1]].name
               u == tasks[t].user
    <3>1. n \in Names /\ u \in KnownUser /\ diaries' = diaries
      BY <2>1, InvParts DEF TaskCommit, ConsistentTask, Captured
    <3> QED
      BY <2>1, <3>1, SaveRegistry DEF TaskCommit
  <2> QED
    BY <1>2, <2>1 DEF Fire, Acquire, AcquireFailed, OnlyTasks, Round, Skip,
       PublishChallenge, KickOut, Demote, KafkaCallFails
<1> QED
  BY <1>1, <1>2, RequestRegistry DEF Next, vars, TopicDeleted

(* The tables of a server that serves one request at a time implement the  *)
(* registry: whatever tasks, stale writes and failed transactions do, a    *)
(* user is registered once, keeps the id, and leaves with all entries.     *)
THEOREM Implements == ASSUME SingleClient PROVE Spec => IsRegistry
<1>1. IInv /\ RInv /\ [Next]_vars
        => [Abstract!Next]_<<[n \in Names |-> IdOf(n)], {n \in Names : HasStatus(rows[n])}, diaries>>
  <2> SUFFICES ASSUME IInv, RInv, [Next]_vars
               PROVE  \/ Abstract!Next
                      \/ UNCHANGED <<[n \in Names |-> IdOf(n)],
                                     {n \in Names : HasStatus(rows[n])}, diaries>>
    OBVIOUS
  <2>1. UNCHANGED rows => UNCHANGED <<[n \in Names |-> IdOf(n)],
                                      {n \in Names : HasStatus(rows[n])}>>
    BY DEF IdOf, HasStatus
  <2> QED
    BY <2>1, NextRegistry
<1>2. IInv /\ RInv /\ [Next]_vars => RInv'
  BY NextRInv
<1> QED
  BY <1>1, <1>2, InitRInv, InitRegistry, Invariant, PTL DEF Spec, IsRegistry, Abstract!Spec

-----------------------------------------------------------------------------
\* What follows for the entries.

\* Every entry is of a user who was challenged before writing it.
Owned == \A e \in diaries : HasStatus(rows[e[1]])

(* The steps of the registry keep every entry owned: only a known user     *)
(* writes, and one that leaves takes all entries along.                    *)
LEMMA OwnedStep ==
    ASSUME IInv, Owned, Abstract!Next \/ UNCHANGED <<rows, diaries>>
    PROVE  Owned'
<1> DEFINE known == {m \in Names : HasStatus(rows[m])}
<1>1. diaries \subseteq Names \X Entries
  BY InvParts
<1>2. \A e \in diaries : e[1] \in known
  BY <1>1 DEF Owned
<1>3. ASSUME \A e \in diaries' : e[1] \in known' PROVE Owned'
  BY <1>3 DEF Owned
<1>4. ASSUME NEW n \in Names, Abstract!Register(n) \/ Abstract!FirstChallenge(n)
      PROVE  diaries' = diaries /\ known \subseteq known'
  BY <1>4 DEF Abstract!Register, Abstract!FirstChallenge
<1>5. ASSUME NEW n \in Names, Abstract!Unregister(n)
      PROVE  \A e \in diaries' : e[1] \in known'
  <2>1. known' = known \ {n} /\ diaries' = diaries \ ({n} \X Entries)
    BY <1>5 DEF Abstract!Unregister
  <2> SUFFICES ASSUME NEW e \in diaries' PROVE e[1] \in known'
    OBVIOUS
  <2>2. PICK m \in Names, d \in Entries : e = <<m, d>>
    BY <1>1, <2>1
  <2> QED
    BY <1>2, <2>1, <2>2
<1>6. ASSUME NEW n \in Names, NEW d \in Entries, Abstract!Write(n, d) \/ Abstract!Erase(n, d)
      PROVE  \A e \in diaries' : e[1] \in known'
  <2>1. /\ known' = known /\ n \in known
        /\ diaries' = diaries \cup {<<n, d>>} \/ diaries' = diaries \ {<<n, d>>}
    BY <1>6 DEF Abstract!Write, Abstract!Erase
  <2> QED
    BY <1>2, <2>1
<1>7. CASE UNCHANGED <<rows, diaries>>
  BY <1>7 DEF Owned
<1> QED
  BY <1>2, <1>3, <1>4, <1>5, <1>6, <1>7 DEF Abstract!Next

(* With one request at a time, every stored entry belongs to a registered  *)
(* user: the entry of a user is written after fetch has read the user, and *)
(* removeByName deletes in one transaction all that it has listed.         *)
THEOREM EntriesOwned == ASSUME SingleClient PROVE Spec => []NoOrphanDiaries
<1>1. Init => Owned
  BY DEF Init, Owned
<1>2. IInv /\ RInv /\ Owned /\ [Next]_vars => Owned'
  BY OwnedStep, NextRegistry
<1>3. IInv /\ RInv /\ [Next]_vars => RInv'
  BY NextRInv
<1>4. Owned => NoOrphanDiaries
  BY DEF Owned, NoOrphanDiaries, HasStatus
<1> QED
  BY <1>1, <1>2, <1>3, <1>4, InitRInv, Invariant, PTL DEF Spec

(* A removal that answers 200 is a commit that found the user it had read. *)
LEMMA RemovalAnswer ==
    ASSUME IInv, NEW r \in Requests, reqs[r].op = "remove", Step(r), Answers(r, OK)
    PROVE  RemoveCommit(r)
<1> DEFINE q == reqs[r]
           Becomes(q2) == reqs' = [reqs EXCEPT ![r] = q2]
<1>1. q \in Request /\ q \in ConsistentRequest /\ reqs \in [Requests -> Request]
  BY DEF IInv, TypeOK
<1>2. ASSUME NEW q2, Becomes(q2), q2.pc # "idle" \/ q2.code # OK PROVE FALSE
  BY <1>1, <1>2 DEF Answers
<1>3. /\ ~Reply(r, Created) /\ ~Reply(r, NotFound) /\ ~Reply(r, Unauthorized)
      /\ ~Reply(r, Conflict) /\ ~Reply(r, ServerError)
  BY AnswerCode DEF OK, Created, Unauthorized, NotFound, Conflict, ServerError
<1>4. ~Becomes(Granted(q))
  <2>1. Granted(q).pc = "list"
    BY <1>1 DEF Granted, Request
  <2> QED
    BY <1>2, <2>1
<1>5. ~Challenge(r, q)
  <2>1. \A s : [q EXCEPT !.pc = "commit", !.user = Challenged(q.user, s)].pc = "commit"
    BY <1>1 DEF Request
  <2> QED
    BY <1>2, <1>3, <2>1 DEF Challenge
<1>6. ~VerifyAccepted(r)
  <2> DEFINE dirty == q.user.sstatus # "VALIDATED"
             nested == [q EXCEPT !.pc = "nested", !.user = Null, !.outer = q.user.id,
                                 !.dirty = dirty]
             commit == [q EXCEPT !.pc = "commit", !.user = Validated(q.user)]
  <2>1. VerifyAccepted(r) => Becomes(nested) \/ Becomes(Granted(q)) \/ Becomes(commit)
    BY DEF VerifyAccepted
  <2>2. nested.pc = "nested"
    <3> HIDE DEF dirty
    <3> QED
      BY <1>1 DEF Request
  <2>3. commit.pc = "commit"
    BY <1>1 DEF Request
  <2> HIDE DEF nested, commit
  <2> QED
    BY <1>2, <1>4, <2>1, <2>2, <2>3
<1>7. ~NestedFetch(r)
  <2>1. Read(q).pc # "idle" \/ Read(q).code # OK
    BY <1>1 DEF Read, Idle, Request, NotFound, OK
  <2> QED
    BY <1>2, <2>1 DEF NestedFetch
<1>8. ~RemoveAll(r)
  <2> DEFINE q2 == [q EXCEPT !.pc = "purge", !.listed = Listed(q.name),
                         !.victim = Victim(q.name)]
  <2>1. RemoveAll(r) => Reply(r, ServerError) \/ Becomes(q2)
    BY DEF RemoveAll
  <2>2. q2.pc = "purge"
    BY <1>1 DEF Request
  <2> HIDE DEF q2
  <2> QED
    BY <1>2, <1>3, <2>1, <2>2
<1>9. ~FetchCommit(r) /\ ~VerifyRejected(r) /\ ~ChallengeUser(r)
  BY <1>3, <1>4, <1>5 DEF FetchCommit, VerifyRejected, ChallengeUser
<1>10. ~RegisterCommit(r) /\ ~TokenMissing(r)
  BY <1>3 DEF RegisterCommit, TokenMissing
<1>11. /\ ~AddCommit(r) /\ ~RemoveEntrySelect(r) /\ ~FetchEntries(r)
       /\ ~RemoveEntryCommit(r)
  BY <1>1 DEF AddCommit, RemoveEntrySelect, FetchEntries, RemoveEntryCommit, ConsistentRequest
<1> QED
  BY <1>6, <1>7, <1>8, <1>9, <1>10, <1>11 DEF Step, UserServiceStep, DiaryServiceStep

(* With one request at a time, a removal that answers 200 leaves neither   *)
(* the user nor an entry: it has listed them all and nothing was added.    *)
THEOREM RemovalsComplete == ASSUME SingleClient PROVE Spec => RemovalIsComplete
<1> DEFINE Complete == \A r \in Requests : reqs[r].op = "remove" /\ Answers(r, OK) =>
                         /\ rows'[reqs[r].name] = Null
                         /\ \A d \in Entries : <<reqs[r].name, d>> \notin diaries'
<1>1. IInv /\ RInv /\ [Next]_vars => [Complete]_vars
  <2> SUFFICES ASSUME IInv, RInv, [Next]_vars, NEW r \in Requests,
                      reqs[r].op = "remove", Answers(r, OK)
               PROVE  /\ rows'[reqs[r].name] = Null
                      /\ \A d \in Entries : <<reqs[r].name, d>> \notin diaries'
    OBVIOUS
  <2> DEFINE q == reqs[r]
             n == q.name
  <2>1. RemoveCommit(r)
    BY AnswerStep, RemovalAnswer
  <2>2. n \in Names /\ q.pc = "purge"
    BY <2>1 DEF RemoveCommit, IInv, ConsistentRequest
  <2>3. HasStatus(rows[n]) /\ q.listed = Listed(n) /\ q.victim = rows[n].id
    BY <2>2 DEF RInv, Fresh, RequestFresh
  <2>4. q.victim # Null
    BY <2>2, <2>3, InvParts, NullAssumption DEF HasStatus, ConsistentUser, User
  <2>5. ~Reply(r, ServerError)
    BY AnswerCode DEF OK, ServerError
  <2>6. /\ rows' = [rows EXCEPT ![n] = Null]
        /\ diaries' = diaries \ {<<n, d>> : d \in q.listed}
    BY <2>1, <2>4, <2>5 DEF RemoveCommit
  <2>7. \A d \in Entries : <<n, d>> \notin diaries'
    BY <2>3, <2>6 DEF Listed
  <2> QED
    BY <2>2, <2>6, <2>7, InvParts
<1>2. IInv /\ RInv /\ [Next]_vars => RInv'
  BY NextRInv
<1> QED
  BY <1>1, <1>2, InitRInv, Invariant, PTL DEF Spec, RemovalIsComplete
=============================================================================
