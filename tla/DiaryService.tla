---------------------------- MODULE DiaryService ----------------------------
(***************************************************************************)
(* DiaryServiceImpl behind DiaryController.  Every operation authenticates *)
(* with UserService.fetch, whose transaction has committed by the time the *)
(* operation's own one touches the diary table.                            *)
(***************************************************************************)
EXTENDS UserService

Add(r, n)             == \E d \in Entries : Receive(r, "add", n, d)
RemoveEntry(r, n)     == \E d \in Entries : Receive(r, "delete", n, d)
FetchByUsername(r, n) == Receive(r, "list", n, Null)

\* save: the unique constraint is on the pair of user name and entry name, and
\* nothing ties the entry to a row of the user table.
AddCommit(r) ==
    LET q == reqs[r]
        entry == <<q.name, q.entry>> IN
    /\ q.pc = "body" /\ q.op = "add"
    /\ diaries' = diaries \cup {entry}
    /\ Reply(r, IF entry \in diaries THEN Conflict ELSE Created)
    /\ UNCHANGED <<rows, tasks, executorVars, permits, topicVars>>

\* deleteByUsernameAndEntryname selects the entry and is content without one.
RemoveEntrySelect(r) ==
    LET q == reqs[r] IN
    /\ q.pc = "body" /\ q.op = "delete"
    /\ IF <<q.name, q.entry>> \in diaries
       THEN reqs' = [reqs EXCEPT ![r].pc = "erase"]
       ELSE Reply(r, OK)
    /\ OnlyRequests

\* Mutant: deleteByUsername.
EveryEntryErased(r) ==
    LET q == reqs[r] IN
    /\ q.pc = "erase"
    /\ diaries' = {x \in diaries : x[1] # q.name}
    /\ Reply(r, OK)
    /\ UNCHANGED <<rows, tasks, executorVars, permits, topicVars>>

\* The DELETE at commit throws when the entry is no longer there.
RemoveEntryCommit(r) ==
    LET q == reqs[r]
        entry == <<q.name, q.entry>> IN
    /\ q.pc = "erase"
    /\ diaries' = diaries \ {entry}
    /\ Reply(r, IF entry \in diaries THEN OK ELSE ServerError)
    /\ UNCHANGED <<rows, tasks, executorVars, permits, topicVars>>

\* The entries the client gets; none is not an error.
FetchEntries(r) ==
    /\ reqs[r].pc = "body" /\ reqs[r].op = "list"
    /\ Reply(r, OK)
    /\ OnlyRequests

DiaryServiceStep(r) ==
    \/ AddCommit(r)
    \/ RemoveEntrySelect(r) \/ RemoveEntryCommit(r)
    \/ FetchEntries(r)
=============================================================================
