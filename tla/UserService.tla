---------------------------- MODULE UserService ----------------------------
(***************************************************************************)
(* UserServiceImpl behind UserController: register, fetch and removeByName *)
(* on a servlet thread r.                                                  *)
(*                                                                         *)
(* A transaction reads its entity with a SELECT (isolation READ COMMITTED) *)
(* and writes it back when it commits, so a step of any other thread may   *)
(* come between.  fetch runs in a transaction of its own (REQUIRES_NEW)    *)
(* which commits even when it ends in a challenge (noRollbackFor); every   *)
(* other exception rolls its transaction back.                             *)
(***************************************************************************)
EXTENDS ExecutorService

-----------------------------------------------------------------------------
\* POST /users

\* register's own look-up of the name.
Register(r) ==
    /\ reqs[r].pc = "idle" /\ "register" \in Workload
    /\ \E n \in Names :
          IF rows[n] # Null
          THEN Reply(r, Conflict)
          ELSE reqs' = [reqs EXCEPT ![r] =
                          [Incoming("register", n, Null, Null) EXCEPT !.pc = "insert"]]
    /\ OnlyRequests

\* The INSERT; the unique constraint on the name has the last word.  A sequence
\* number drawn for the first time has no executor.
RegisterCommit(r) ==
    /\ reqs[r].pc = "insert"
    /\ \/ /\ rows[reqs[r].name] # Null
          /\ Reply(r, Conflict)
          /\ UNCHANGED <<rows, kafkaTiming>>
       \/ /\ rows[reqs[r].name] = Null
          /\ \E i \in FreshIds :
                /\ Save(reqs[r].name, Registered(i))
                /\ kafkaTiming' = [kafkaTiming EXCEPT ![i] = Null]
          /\ Reply(r, Created)
    /\ UNCHANGED <<diaries, tasks, owner, down, permits, topicVars>>

-----------------------------------------------------------------------------
\* Authenticated requests: every one of them starts with findByName.

\* The tokens a client may send for n.
Tokens(n) ==
    {Null, Wrong} \cup IF rows[n] = Null THEN {} ELSE {rows[n].secret}

\* Mutant: the secret is not compared with null.
ReadUnchecked(q) ==
    LET u == rows[q.name]
    IN  IF u = Null THEN Idle(NotFound) ELSE [q EXCEPT !.user = u, !.pc = "verify"]

\* findByName ... orElseThrow, and whether there is a secret to verify against.
Read(q) ==
    LET u == rows[q.name]
    IN  IF u = Null THEN Idle(NotFound)
        ELSE [q EXCEPT !.user = u,
                       !.pc = IF u.secret = Null THEN "challenge" ELSE "verify"]

\* The request arrives and is read up to its first look-up of the user.
Receive(r, o, n, d) ==
    /\ reqs[r].pc = "idle" /\ o \in Workload
    /\ \E tok \in Tokens(n) : reqs' = [reqs EXCEPT ![r] = Read(Incoming(o, n, d, tok))]
    /\ OnlyRequests

Fetch(r, n)        == Receive(r, "fetch", n, Null)
RemoveByName(r, n) == Receive(r, "remove", n, Null)

\* The request is in removeByName's own transaction, not yet in fetch's.
Outermost(q) == q.op = "remove" /\ q.outer = Null

\* fetch returned a user to its caller.
Granted(q) ==
    CASE q.op = "fetch"  -> Idle(OK)
      [] q.op = "remove" -> [q EXCEPT !.user = Null, !.pc = "list"]
      [] OTHER           -> [q EXCEPT !.user = Null, !.pc = "body"]

\* verify accepts: the first right answer to a challenge starts the session's
\* executor, before anything is committed.
VerifyAccepted(r) ==
    LET q == reqs[r] IN
    /\ q.pc = "verify" /\ q.token = q.user.secret
    /\ IF q.user.sstatus = "INITIATING"
       THEN scheduleAuthTask(q.name, q.user)
       ELSE UNCHANGED <<tasks, executorVars>>
    /\ reqs' = [reqs EXCEPT ![r] =
          IF Outermost(q)
          THEN [q EXCEPT !.pc = "nested", !.user = Null, !.outer = q.user.id,
                         !.dirty = q.user.sstatus # "VALIDATED"]
          ELSE IF q.user.sstatus = "VALIDATED"
          THEN Granted(q)
          ELSE [q EXCEPT !.pc = "commit", !.user = Validated(q.user)]]
    /\ UNCHANGED <<rows, diaries, permits, topicVars>>

\* The challenge is set on the entity; in removeByName the AccessDeniedException
\* then rolls it back.
Challenge(r, q) ==
    IF Outermost(q)
    THEN Reply(r, Unauthorized)
    ELSE \E s \in FreshSecrets(q.name) :
            reqs' = [reqs EXCEPT ![r] =
                       [q EXCEPT !.pc = "commit", !.user = Challenged(q.user, s)]]

\* verify rejects: the session's tasks stop at once, then generateServerSecret
\* replaces the secret.  Its query flushes the entity, whose row may be gone.
VerifyRejected(r) ==
    LET q == reqs[r] IN
    /\ q.pc = "verify" /\ q.token \notin {Null, q.user.secret}
    /\ ShutdownNow(q.user.id)
    /\ IF Persisted(q.name, q.user) THEN Challenge(r, q) ELSE Reply(r, ServerError)
    /\ UNCHANGED <<rows, diaries, owner, kafkaTiming, permits, topicVars>>

\* equals() dereferences the missing header.
TokenMissing(r) ==
    /\ reqs[r].pc = "verify" /\ reqs[r].token = Null
    /\ Reply(r, ServerError)
    /\ OnlyRequests

\* A user without a secret: generateServerSecret looks the name up again.
ChallengeUser(r) ==
    LET q == reqs[r] IN
    /\ q.pc = "challenge"
    /\ IF rows[q.name] = Null THEN Reply(r, NotFound)
       ELSE IF Persisted(q.name, q.user) THEN Challenge(r, q)
       ELSE Reply(r, ServerError)
    /\ OnlyRequests

\* Mutant: fetch without noRollbackFor.
FetchRollsBack(r) ==
    LET q == reqs[r] IN
    /\ q.pc = "commit"
    /\ Persisted(q.name, q.user)
    /\ IF q.user.sstatus = "INITIATING"
       THEN Reply(r, Unauthorized) /\ UNCHANGED rows
       ELSE reqs' = [reqs EXCEPT ![r] = Granted(q)] /\ Save(q.name, q.user)
    /\ UNCHANGED <<diaries, tasks, executorVars, permits, topicVars>>

\* The commit of fetch's transaction.
FetchCommit(r) ==
    LET q == reqs[r] IN
    /\ q.pc = "commit"
    /\ IF Persisted(q.name, q.user)
       THEN /\ Save(q.name, q.user)
            /\ IF q.user.sstatus = "INITIATING"
               THEN Reply(r, Unauthorized)
               ELSE reqs' = [reqs EXCEPT ![r] = Granted(q)]
       ELSE /\ Reply(r, ServerError)
            /\ UNCHANGED rows
    /\ UNCHANGED <<diaries, tasks, executorVars, permits, topicVars>>

-----------------------------------------------------------------------------
\* DELETE /users/{name}: verified in its own transaction, removeByName calls
\* removeAll, which fetches (and so verifies) again in a nested one.

NestedFetch(r) ==
    /\ reqs[r].pc = "nested"
    /\ reqs' = [reqs EXCEPT ![r] = Read(reqs[r])]
    /\ OnlyRequests

\* Mutant: only the first entry is deleted.
ListedFirst(n) == AnyOf({d \in Entries : <<n, d>> \in diaries})

\* findByUsername, as removeAll uses it.
Listed(n) == {d \in Entries : <<n, d>> \in diaries}

\* Mutant: removeByName does not call deleteByName.
NoVictim(n) == Null

\* The user deleteByName selects, if there is one.
Victim(n) == IF rows[n] = Null THEN Null ELSE rows[n].id

\* removeAll selects the diaries, deleteByName the user; its query first flushes
\* the outer entity if verify changed it.
RemoveAll(r) ==
    LET q == reqs[r]
        n == q.name IN
    /\ q.pc = "list"
    /\ IF q.dirty /\ ~HasId(n, q.outer)
       THEN Reply(r, ServerError)
       ELSE reqs' = [reqs EXCEPT ![r] =
               [q EXCEPT !.pc = "purge", !.listed = Listed(n), !.victim = Victim(n)]]
    /\ OnlyRequests

\* The DELETEs and the commit: one that finds its row gone rolls all of it back.
RemoveCommit(r) ==
    LET q == reqs[r]
        n == q.name
        doomed == {<<n, d>> : d \in q.listed} IN
    /\ q.pc = "purge"
    /\ IF /\ q.victim = Null \/ HasId(n, q.victim)
          /\ doomed \subseteq diaries
       THEN /\ rows' = IF q.victim = Null THEN rows ELSE [rows EXCEPT ![n] = Null]
            /\ diaries' = diaries \ doomed
            /\ Reply(r, OK)
       ELSE Reply(r, ServerError) /\ UNCHANGED <<rows, diaries>>
    /\ UNCHANGED <<tasks, executorVars, permits, topicVars>>

UserServiceStep(r) ==
    \/ RegisterCommit(r)
    \/ VerifyAccepted(r) \/ VerifyRejected(r) \/ TokenMissing(r)
    \/ ChallengeUser(r) \/ FetchCommit(r)
    \/ NestedFetch(r) \/ RemoveAll(r) \/ RemoveCommit(r)
=============================================================================
