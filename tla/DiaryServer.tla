---------------------------- MODULE DiaryServer ----------------------------
(***************************************************************************)
(* The server as one page sees it: every request is served in one step,    *)
(* and between requests the session's tasks rotate or drop the secret.     *)
(* ZKAuth models the same server with its transactions, threads, tasks     *)
(* and executors apart; this module keeps what an answer depends on, and   *)
(* adds what ZKAuth leaves out, the numbers.                               *)
(***************************************************************************)
EXTENDS ZKCrypto, FiniteSets

CONSTANTS
    Names,      \* user names
    Titles,     \* names of diary entries
    Passwords,  \* the numbers passwords are digested to
    Secrets,    \* the server's secrets
    Null        \* no name, no title, no secret, no account: Java's null, the page's ""

VARIABLES
    account,   \* the row of each name, or Null
    diary,     \* the <<name, title>> pairs stored
    published, \* the last challenge published to each name's topic, or <<>>
    answer     \* the answer on its way to the page, NoAnswer if there is none

tables == <<account, diary>>
serverVars == <<tables, published>>

(***************************************************************************)
(* Where the session of a user is: "none" without a secret, "initiating"   *)
(* once challenged, "running" when the first answer has started the        *)
(* executor, "stopped" when the executor was shut down but the secret      *)
(* stayed.                                                                 *)
(***************************************************************************)
Sessions == {"none", "initiating", "running", "stopped"}
Account == [passwordless : {Passwordless(x) : x \in Passwords},
            secret       : Secrets \cup {Null},
            session      : Sessions]

\* What the owner of each password answers to each secret.
token == [x \in Passwords |-> [s \in Secrets |-> Answer(Challenge(s), x)]]

\* As with the 256 bits of a real secret, no two of these are the same, and
\* there is one that is neither of any two.
ASSUME SecretsAssumption ==
    /\ Null \notin Names \cup Titles \cup Passwords \cup Secrets \cup Account
    /\ Passwords \subseteq Nat /\ Secrets \subseteq Nat
    /\ \A s, t \in Secrets \cup {Null} : Secrets \ {s, t} # {}
    /\ \A x, y \in Passwords, s, t \in Secrets :
          token[x][s] = token[y][t] => x = y /\ s = t

-----------------------------------------------------------------------------
(***************************************************************************)
(* Answers.  A status other than 200, 201 and 401 is "refused": the page   *)
(* treats 400, 404, 405, 409 and 500 alike.  text is the decimal challenge *)
(* of a 401, titles the list a GET returns, and data says whether there is *)
(* a body: void handlers have none.                                        *)
(***************************************************************************)
NoAnswer     == [status |-> "none",    data |-> FALSE, text |-> <<>>, titles |-> {}]
Refused      == [status |-> "refused", data |-> TRUE,  text |-> <<>>, titles |-> {}]
Created      == [status |-> "201",     data |-> TRUE,  text |-> <<>>, titles |-> {}]
Done         == [status |-> "200",     data |-> FALSE, text |-> <<>>, titles |-> {}]
Listed(set)  == [status |-> "200",     data |-> TRUE,  text |-> <<>>, titles |-> set]

\* Mutant: the challenge is printed in hexadecimal, as the one sent to Kafka is.
ChallengedInHex(secret) ==
    [status |-> "401", data |-> TRUE, text |-> toString(Challenge(secret), 16), titles |-> {}]
Challenged(secret) ==
    [status |-> "401", data |-> TRUE, text |-> toString(Challenge(secret), 10), titles |-> {}]

-----------------------------------------------------------------------------
\* The challenge of each secret as it is sent to Kafka.
hint == [s \in Secrets |-> toString(Challenge(s), 16)]

Registered(n) == n \in Names /\ account[n] # Null

ServerInit ==
    /\ account = [n \in Names |-> Null]
    /\ diary = {}
    /\ published = [n \in Names |-> <<>>]
    /\ answer = NoAnswer

TitlesOf(n) == {t \in Titles : <<n, t>> \in diary}

\* SecureRandom's 256 bits: neither the secret there was nor the one the page
\* last answered comes again.
FreshSecret(n, solution) ==
    CHOOSE s \in Secrets :
        /\ s # account[n].secret
        /\ \A x \in Passwords : token[x][s] # solution

Register(n, passwordless) ==
    /\ IF n = Null \/ Registered(n)
       THEN answer' = Refused /\ UNCHANGED account
       ELSE /\ answer' = Created
            /\ account' = [account EXCEPT ![n] = [passwordless |-> passwordless,
                                                  secret |-> Null, session |-> "none"]]
    /\ UNCHANGED <<diary, published>>

(***************************************************************************)
(* What an authenticated request does once the token is accepted.  An      *)
(* entry is added once; deleting an entry that is not there deletes        *)
(* nothing and succeeds; a removed user takes the entries along.           *)
(***************************************************************************)
Granted(command, n, title) ==
    LET opened == [account EXCEPT ![n].session = IF @ = "initiating" THEN "running" ELSE @] IN
    \/ /\ command = "REFRESH"
       /\ answer' = Listed(TitlesOf(n))
       /\ account' = opened /\ UNCHANGED diary
    \/ /\ command = "ADD"
       /\ answer' = IF <<n, title>> \in diary THEN Refused ELSE Created
       /\ account' = opened /\ diary' = diary \cup {<<n, title>>}
    \/ /\ command = "DELETE"
       /\ answer' = Done
       /\ account' = opened /\ diary' = diary \ {<<n, title>>}
    \/ /\ command = "REMOVE"
       /\ answer' = Done
       /\ account' = [account EXCEPT ![n] = Null]
       /\ diary' = {d \in diary : d[1] # n}

\* A wrong token stops the executor.  The transaction of a removal rolls its
\* new secret back, the other requests keep theirs.
Challenging(command, n, secret) ==
    /\ answer' = Challenged(secret)
    /\ account' = IF command = "REMOVE"
                  THEN [account EXCEPT ![n].session = IF @ = "running" THEN "stopped" ELSE @]
                  ELSE [account EXCEPT ![n].secret = secret, ![n].session = "initiating"]
    /\ UNCHANGED diary

\* Requests that are answered before, or instead of, the token being compared.
Rejected(command, n, title, header) ==
    \/ ~Registered(n)
    \/ command \in {"ADD", "DELETE"} /\ title = Null
    \/ Registered(n) /\ account[n].secret # Null /\ header = <<>>

Accepted(n, header) ==
    /\ account[n].secret # Null
    /\ equals(Expected(account[n].passwordless, account[n].secret), header)

Authenticated(command, n, title, header, solution) ==
    /\ UNCHANGED published
    /\ \/ /\ Rejected(command, n, title, header)
          /\ answer' = Refused /\ UNCHANGED tables
       \/ /\ ~Rejected(command, n, title, header) /\ Accepted(n, header)
          /\ Granted(command, n, title)
       \/ /\ ~Rejected(command, n, title, header) /\ ~Accepted(n, header)
          /\ Challenging(command, n, FreshSecret(n, solution))

(***************************************************************************)
(* publishChallenge replaces the secret of a running session and sends the *)
(* new challenge to the user's topic; a failed send is only logged.        *)
(* handleActivity drops the secret of a session that stayed idle.          *)
(***************************************************************************)
Rotate(n, solution) ==
    /\ Registered(n) /\ account[n].session = "running"
    /\ LET s == FreshSecret(n, solution) IN
       /\ account' = [account EXCEPT ![n].secret = s]
       /\ \/ published' = [published EXCEPT ![n] = hint[s]]
          \/ UNCHANGED published
    /\ UNCHANGED <<diary, answer>>

Expire(n) ==
    /\ Registered(n) /\ account[n].session = "running"
    /\ account' = [account EXCEPT ![n].secret = Null, ![n].session = "none"]
    /\ UNCHANGED <<diary, published, answer>>
=============================================================================
