------------------------------ MODULE Registry ------------------------------
(***************************************************************************)
(* What the server promises about the two tables, whatever its threads and *)
(* tasks do to the rest of a row: a user lives under one id from its       *)
(* registration to its removal, can do nothing before its first challenge, *)
(* writes and erases one diary entry at a time, and takes all of its       *)
(* entries along when it goes.                                             *)
(***************************************************************************)
CONSTANTS Names, Ids, Entries, Null

VARIABLES
    id,       \* the id of each registered user, Null for other names
    known,    \* the users that were ever challenged
    entries   \* the <<user name, entry name>> pairs

Init ==
    /\ id = [n \in Names |-> Null]
    /\ known = {}
    /\ entries = {}

Register(n) ==
    /\ id[n] = Null
    /\ \E i \in Ids : id' = [id EXCEPT ![n] = i]
    /\ UNCHANGED <<known, entries>>

FirstChallenge(n) ==
    /\ id[n] # Null
    /\ known' = known \cup {n}
    /\ UNCHANGED <<id, entries>>

Unregister(n) ==
    /\ n \in known
    /\ id' = [id EXCEPT ![n] = Null]
    /\ known' = known \ {n}
    /\ entries' = entries \ ({n} \X Entries)

Write(n, d) ==
    /\ n \in known
    /\ entries' = entries \cup {<<n, d>>}
    /\ UNCHANGED <<id, known>>

Erase(n, d) ==
    /\ n \in known
    /\ entries' = entries \ {<<n, d>>}
    /\ UNCHANGED <<id, known>>

Next ==
    \E n \in Names :
        \/ Register(n) \/ FirstChallenge(n) \/ Unregister(n)
        \/ \E d \in Entries : Write(n, d) \/ Erase(n, d)

Spec == Init /\ [][Next]_<<id, known, entries>>
=============================================================================
