# SpringZKAuth in TLA+

SpringZKAuth is a REST server that keeps diaries for users who prove that they
know a password without sending it, and SecureDiary, a page that talks to it. This
directory holds a TLA+ model of both, TLC configurations that check it on small
instances, and TLAPS proofs about the server, the arithmetic, the page and its list
that hold for any number of users, threads, executors, titles and fingers, and for
every group, password and secret.

## The system

Paths are relative to `src/src/main/java/com/github/maxamel/server/` and, for the
page, to `src/src/`.

| component | state it keeps | operations | works with |
|---|---|---|---|
| user service (`services/impl/UserServiceImpl`) | `kafkaTiming`: executor of each user id | `register`, `fetch`, `removeByName`; privately `verify`, `generateServerSecret`, `scheduleAuthTask` | user table, diary service, starts and stops executors |
| diary service (`services/impl/DiaryServiceImpl`) | none | `add`, `removeByUsernameAndEntryname`, `fetchByUsername`, `removeAll` | every operation calls `fetch` first; diary table |
| schedule task service (`services/impl/ScheduleTaskServiceImpl`) | a `Semaphore(1)` | `publishChallenge`, `handleActivity` | user table, Kafka agent, `kafkaTiming` |
| session executors (java.util.concurrent) | two periodic tasks each | `scheduleAtFixedRate`, `shutdown`, `shutdownNow` | call the schedule task service |
| Kafka agent (`services/impl/KafkaAgentServiceImpl`) | `openTopics` | `openTopic`, `send`, `closeTopic` | ZooKeeper, broker |
| persistence (`domain/`) | tables `user`, `diary` | Spring Data queries, Hibernate flush and commit | |
| web layer (`web/`) | none | six routes; exceptions to status codes | services |
| challenge arithmetic | none | `modPow`, radix conversions, `dec2hex`, `equals` | both sides |
| client (`SecureDiary/js/script.js`) | `cache`, `solution`, `prevTitle`, the form, the list, `KafkaId` | one function per button, the handlers of the answers, the Kafka poll | routes, Kafka REST proxy |
| entry list and swipe plugin (`script.js` 50-140, `jquery.touchSwipe.js`) | per title: phase, coordinates, bound listeners; delete icons, unfolded entries | `touchStart`, `touchMove`, `touchEnd`, `touchCancel`, the swipe and click handlers | browser events |

What makes the server hard is concurrency. A request runs on a servlet thread in
one or two database transactions; the two tasks of each session run on threads of
their own and write the same row; the isolation is READ COMMITTED, entities have
no version, and an UPDATE writes every column. A step that throws rolls back the
tables but not the executors, the semaphore or the topics it has already touched.
The page is single threaded, but what it holds goes stale: a secret is rotated,
dropped or replaced between the moment a token is computed and the moment the
server compares it, answers get lost, and commands are chains of requests whose
handlers share variables. The plugin keeps its state from one gesture to the next.

What makes each part correct:

- user service: a stored user has a secret exactly while it is challenged or in a
  session; a challenge that is sent is stored; a removal removes everything; no
  transaction writes over a user registered later under the same name;
- schedule task service: one round at a time; the permit comes back; sessions of
  silent clients end; rotations take effect;
- executors: a session has an executor that can end it;
- Kafka agent: the cache knows every topic; topics of removed users go away;
- diary service: no entry without a user;
- the two tables, under all of them: a plain registry of users and their entries;
- challenge arithmetic: both sides compute the same number, and no conversion
  between texts loses a digit;
- client: a user with the right password gets in, commands end, a user who is told
  "Request Success" sees what the server stores, an edit keeps the entry;
- list and plugin: a gesture is taken for what it is, once, and at most one entry
  shows a delete icon.

## Modules

| module | models | code |
|---|---|---|
| `ZKAuthState` | constants, all variables, entities, requests, tasks, status codes, pools of values | `User`, `Diary`, `SessionStatus`, repositories, exception handlers |
| `KafkaAgent` | the topics and the agent's cache | `KafkaAgentServiceImpl`, the broker |
| `ExecutorService` | shutdown, shutdownNow, scheduleAuthTask | `UserServiceImpl` 132-136 and 171-184, java.util.concurrent |
| `UserService` | register, fetch, removeByName on a servlet thread | `UserServiceImpl`, `UserController` |
| `DiaryService` | the diary operations after `fetch` | `DiaryServiceImpl`, `DiaryController` |
| `ScheduleTask` | the rounds of publishChallenge and handleActivity | `ScheduleTaskServiceImpl` |
| `Registry` | abstract: what the two tables promise | |
| `ZKAuth` | composes the server: Init, Next, fairness, properties, the refinement of `Registry` | |
| `MCZKAuth` | symmetry set for the server's configurations | |
| `ZKAuthProofs` | the inductive invariant, its consequences, and their proofs | |
| `SessionProofs` | proofs: sessions have executors, challenges are stored, the permit is not lost | |
| `RegistryProofs` | the proof that `ZKAuth` implements `Registry`, and what follows for entries | |
| `ZKCrypto` | the arithmetic and the texts it travels as | `script.js` 486-492, 549, 645-659; `UserServiceImpl` 112-117, 142-158 |
| `Recursion` | lemmas: induction over numbers, functions defined by recursion | |
| `ZKCryptoProofs` | proofs: both sides compute one number, and conversions keep it | |
| `DiaryServer` | the server as one page sees it, one step per request | the same services |
| `SecureDiary` | the page, composed with `DiaryServer` and the Kafka proxy | `script.js` |
| `SecureDiaryProofs` | the inductive invariant of the page, its consequences, and their proofs | |
| `MCSecureDiary` | symmetry, and that the group fits TLC's integers | |
| `TouchSwipe` | one plugin instance: its handlers as functions of its state | `jquery.touchSwipe.js` |
| `EntryList` | the list under fingers or a mouse: browser events, callbacks, icons | `script.js` 50-140, 413-460 |
| `EntryListProofs` | the inductive invariant of the list, its consequences, and their proofs | |
| `MCEntryList` | the positions a finger can be at | |

The server: `UserService` EXTENDS `ExecutorService`, `DiaryService` EXTENDS
`UserService`, `ScheduleTask` EXTENDS `KafkaAgent` and `ExecutorService`, and
`ZKAuth` EXTENDS `DiaryService` and `ScheduleTask` and instantiates `Registry`.
The page: `SecureDiary` EXTENDS `DiaryServer` EXTENDS `ZKCrypto`. The list:
`EntryList` EXTENDS `TouchSwipe`.

### The server: how state and steps correspond to the code

- `rows[n]` is the row of the user named n (the name is unique) or `Null`;
  `diaries` the pairs of the diary table. Of a row the model keeps id, secret and
  sstatus; "NONE" is a NULL sstatus.
- A secret y stands for everything computed from it: the challenge g^y mod N and
  the token (g^x)^y mod N. A token is the secret it answers, `Wrong`, or `Null`
  when the header is missing. A client may send any of the three at any time, so
  the model covers every client that keeps to the routes. A collision of two
  solutions is left out, and so are client-chosen ids in request bodies: the
  client sends none.
- `reqs[r]` is the request of servlet thread r. Its `pc` names the transaction
  boundary it has reached. One action is one stretch between two points where
  another thread's effect can be seen: a SELECT, a flush, a commit. `fetch` is
  read (`Receive`), verify (`VerifyAccepted`, `VerifyRejected`, `TokenMissing`,
  `ChallengeUser`), commit (`FetchCommit`). `removeByName` goes through the same
  steps twice, first in its own transaction (`Outermost`), then in the nested
  REQUIRES_NEW one that `removeAll` opens, and then `RemoveAll` (the SELECTs) and
  `RemoveCommit` (the DELETEs).
- A save of a row that is gone makes Hibernate throw (`Persisted`, `HasId`), which
  ends as a 500; a round that meets it ends its periodic task.
- `tasks[<<e, k>>]` is the publish or the activity task of executor e: waiting for
  its time, for the permit (`acquire`), holding it (`hold`), past the release but
  not committed (`commit`), or ended. The release comes before the commit because
  it is inside the transactional method.
- `owner[e]` is the User object the tasks have captured; `down[e]` tells apart
  running, shut down (the running round finishes) and stopped (interrupted).
- `Fire` of the activity task waits for the first publication: the first is due
  after `inactivityKickOut`, the second at once.
- `topics[n]` is absent, present, or marked for deletion; the broker completes a
  deletion at any later time.

### The refinement of Registry

`Registry` knows three things: the id of each registered user, who was ever
challenged, and the entries. Its users register, get a first challenge, write or
erase one entry at a time, and unregister, taking all of their entries along.
`ZKAuth` maps `id` to the ids in `rows`, `known` to the names whose row has a status
and `entries` to `diaries`. A transaction that commits is one step of the registry or
none; all that goes wrong with secrets, statuses, executors and permits is invisible
to it. This holds as long as requests do not overlap: with two, `add` can commit an
entry for a user removed between its two transactions.

### The page: how state and steps correspond to the code

- An action of `SecureDiary` is one run of the browser's event loop: a click, the
  handler of an answer, a poll. What a handler does in full, including the request
  it starts next (`executeCommand`) and `nullify`, is one action.
- `cache` and `solution` are the globals of that name; `solution` is the token sent
  with the next request. `prevTitle` is the title under edit, `view` and `titleField`
  the form, `login` the command that opened the login dialog. An entry's content is
  blank exactly when its title is, so that the title alone decides between 201 and
  400.
- `call` is the exchange in flight with its `retry`: a first answer of 401 sends the
  request again with the solution, and the handlers of the repetition are fewer than
  those of the first (`RetryUnheard`: a 200 without a body reaches none).
- `Serve` is the server's whole treatment of a request (`DiaryServer`). The detailed
  transactions are ZKAuth's subject; one page gives one request at a time, so here
  they are one step, and `Background` is what the session's tasks do in between:
  `Rotate` (the challenge is published or lost) and `Expire`.
- `Poll` is the consumer's interval. A new consumer instance starts at the smallest
  offset, so a poll may bring the last challenge at any time, stale ones included.
- With `Lossy`, `NetworkError` loses the request or its answer.

A password is the number it digests to. `modPow` is computed over the group of
`N = 1019` with generator 2; the products of the passwords 7 and 11 and the secrets
4, 5 and 6 stay below its order, so that, as in the real group, two different pairs
have different tokens (`SecretsAssumption`, evaluated by TLC). Numbers travel as
sequences of digits, so that a radix mistaken or a carry lost shows.

### The list: how state and steps correspond to the code

- `plugin[h]` is the closure of the plugin instance on title h: `phase`,
  `fingerCount`, `start`, `end`, and `bound`, how often the move and end listeners
  are bound. `touchStart` binds, only `touchEnd` unbinds. When they are bound twice,
  `touchEnd` runs twice; `Callback(h, i)` is what its i-th run calls.
- `touches` is `event.touches`: the fingers of the whole screen in the order they
  came down, which is what the plugin reads (`fingers[1]`).
- The page's options fix most of the plugin: one finger, threshold 50, handlers for
  swipes left and right and for clicks. Distances are compared squared.
- `swipeCallback` and `clickCallback` are the page's handlers, with what jQuery finds
  inside the event's target: an icon contains no icon.

## Pools and bounds

The server draws 256-bit secrets, sequence numbers and executors without limit.
`AnyOf` takes one unused value of a finite pool; a value that no row, request,
task or captured user refers to is unused and may be drawn again. Unused values
differ in nothing but their name, so drawing one stands for drawing any, and the
state space is finite without a counter. Secrets are drawn per user
(`FreshSecrets(n)`): a token is only compared with the secrets of the user it is
sent for.

A step that needs a secret or an id when the pool is empty waits until a commit
frees one. With three secrets a rotation may wait for a request that holds both a
stale token and a pending challenge; four, one for each place a secret of one user
can be in with one request thread and one round, never run out. `Threads` and
`Expiry` use four, the larger instances three.

The one bound that cuts server behaviour off is `ExecutorBound`: with no executor of
the pool left, a request for a user whose challenge it may answer does not arrive
(that request starts an executor), and with `SpareExecutor` no authenticated
request does. Two executors suffice for a session and its successor, or for the
two that one challenge can start. Only `PermitLost` sets `SpareExecutor`, to keep
its state space small enough for liveness checking.

`Kafka` is `kafka.enabled`; `KafkaFails` lets any call to ZooKeeper or Kafka throw.
The runs that look at topics or rotation set Kafka; the others leave it out,
because publication adds nothing to their question but states.

`CHECK_DEADLOCK FALSE` is set where the server really may stop: after a permit is
lost the tasks of a session wait for ever, and executors that are never shut
down (those of removed users) use up the pool, so that no request is admitted.
The page and the list never stop.

The page's bounds: one name, two passwords (so one of them is wrong), two titles, one
command at a time. A secret drawn is neither the one stored nor the one the page has
answered last; with three there always is one. The page types a name, never "". The
POST that makes the Kafka consumer is answered before the next event or never.

The list's bounds: two titles, two fingers (the plugin distinguishes one from more),
listeners bound twice (a third run of `touchEnd` meets what the second met), and six
positions: short and long moves, horizontal, vertical and diagonal, the icon, the
page's left edge, and a point outside of the titles.

## Runs

Passing runs:

| run | instance | checks |
|---|---|---|
| `Sessions` | one user, one thread, two executors, Kafka that may fail | `TypeOK`, `SecretMatchesStatus`, `OneHolder`, `OpenTopicsComplete` |
| `Threads` | one user, two threads | `PermitAccounted`: without removals and Kafka failures no round ends without giving the permit back; `ChallengeIsPersisted`: a 401 carries a stored challenge |
| `Lifecycle` | one user, all six operations, two ids, two entries | `IInv`, the invariant the proofs rest on; `TimerRegistered`: `kafkaTiming.get` never returns null; `IncarnationStable`; `NoOrphanDiaries`; `RemovalIsComplete`; `IsRegistry`: the two tables implement `Registry` |
| `Expiry` | one user, two executors, fairness | `TimedSessionExpires`: a silent session whose executor runs ends |
| `Client` | the page, one user, two passwords, two titles, lossy network | `PageInv`, the invariant the proofs rest on; `RegisteredFromPassword`: the hexadecimal text the server stores is g^x of a password; `RetryAccepted`: the right password is never refused twice, except for a removal; `DiaryShown`: after "Request Success" the list lacks nothing; `PollAgrees`: a published challenge gives the token the server expects; `CommandsFinish`: each request of a chain is closer to its end |
| `Gestures` | two titles, two fingers or a mouse | `ListInv`, the invariant the proofs rest on; `OneIcon`; `OneCallback`: on a touch screen one touch, at most one handler; `AloneGesture`: the gesture of one finger alone is taken for what it is, whatever listeners earlier ones left bound |

Runs that find the code at odds with its documentation, one property each:

| run | the code | the document |
|---|---|---|
| `PermitLost` | a round that finds no user keeps the only permit; no session ends any more | README:45 |
| `KickOutUndone` | a request verified before a kick-out commits after it; the session has no executor left and never ends | README:45 |
| `Rotation` | a granted request writes the replaced secret back | README:28 |
| `RemoveChallenge` | removeByName rolls back the challenge it sends | README:28, UserController:57 |
| `TopicLeak` | the topic of a removed user is never closed | README:49 |
| `EditLost` | an edit whose DELETE is challenged deletes the entry and never adds it again | README:42 |

Two further disagreements are visible in the model and have no run: a missing token
with a stored secret ends in a 500 (`TokenMissing`; plantuml:43-46 shows a 401), and
deleting a missing entry in a 200 (`RemoveEntryCommit`; DiaryController:59 has a 404).

The server's safety runs use symmetry in all pools, `Client` in the titles; liveness
runs use none.

### Fairness

`Fairness` is what the platform gives: servlet threads and timers are scheduled
(weak fairness of a request's steps, of firing, of rounds, of the broker), and a
task that waits for the permit gets it if it becomes free again and again (strong
fairness of the acquisition). `Semaphore(1)` is not fair in the sense of FIFO, but
rounds take milliseconds and are 12 seconds (publication) or 6 minutes (activity)
apart, so a waiting task cannot be overtaken for ever. Clients owe nothing: no
fairness is assumed of arrivals, and the liveness properties speak of clients that
are silent. `SecureDiary` and `EntryList` assume no fairness: a user may stop at any
time, and that commands end is stated as a rank that falls with every request
(`CommandsFinish`).

## Proofs

Every property of the passing runs but one is a theorem; the exception is
`TimedSessionExpires`, which is liveness. A theorem holds for all values of the constants that
the modules' assumptions allow: the settings are of their type, `Null` and `Wrong`
are no values, and what each part below adds.

### The server: `ZKAuthProofs`, `SessionProofs`, `RegistryProofs`

| theorem | says |
|---|---|
| `Invariant`, `TypeCorrect` | `Spec => []IInv`, `Spec => []TypeOK` |
| `SecretFollowsStatus` | `Spec => []SecretMatchesStatus` |
| `MutualExclusion` | `Spec => []OneHolder` |
| `TopicsKnown` | `Spec => []OpenTopicsComplete` |
| `Incarnations` | `Spec => IncarnationStable` |
| `SessionsTimed` | `Spec => []TimerRegistered` |
| `OthersPersist` | a 401 answer to anything but a removal carries a stored challenge |
| `ChallengesPersist` | `Spec => ChallengeIsPersisted`, if no client removes users |
| `PermitNotLost` | `[]PermitAccounted` in every run in which no removal commits and no call to Kafka throws |
| `PermitNeverLost` | `Spec => []PermitAccounted`, without Kafka and without removals |
| `Implements` | `Spec => IsRegistry`, with at most one request thread |
| `EntriesOwned`, `RemovalsComplete` | `NoOrphanDiaries`, `RemovalIsComplete`, with at most one request thread |

The hypotheses are the ones under which the code keeps the promise, and the runs
show that it does not without them: `RemoveChallenge` violates `ChallengeIsPersisted`
through a removal, `PermitLost` loses the permit through one, and with two request
threads an `add` can commit an entry after its user is removed.

`SecretMatchesStatus` is not inductive: the row is written by transactions that
read it earlier. `IInv` says that every entity such a transaction carries is
consistent as well (`ConsistentRequest`, `ConsistentTask`), that verify is reached
only with a secret, that a round proceeds only with a user that has a status
(`KnownUser`), that every task that may run knows its user, and that the permit is
not free while a round holds it, without which a release could make it two. The
proof has one lemma per group of actions (`ArrivalStep`, `UserStep`, `DiaryStep`,
`AcquireStep`, `RoundStep`), each with one case per action; `RequestStep` and
`TaskStep` are the frames they share. `TopicsKnown` adds that only the agent and the
broker touch topics; `Incarnations` that a save finds the row of the id it has read.

`SessionsTimed` needs `TInv`: not only the rows but every copy of a user that a
request or a round may yet write, and every user that a task has captured, has an
executor once it is in a session (`HasTimer`). It is preserved because no entry of
`kafkaTiming` is ever taken out (`TimersKept`): what was true when a copy was read is
true when it is written. `OthersPersist` needs only `IInv` and the commits: the
answer is given by the step that stores the challenge or after it failed.
`PermitNotLost` needs `PInv`: a request that verifies, and a task that may run, are
of a user whose row has a status. Only a removal takes a status away (`StatusKept`),
so `findByName` and `getSstatus`, which could throw between acquire and release,
never do; what is left are Kafka's own failures.

`Implements` needs more than `IInv`. A request is past its point of no return when it
has verified or read; what it does then is a registry step only if what it saw still
stands. `RInv` says that a request with a secret to verify, or past `fetch`, is of a
user that has a status, and that one about to remove the user has read the row and
the list of entries as they are now. Other requests could invalidate this, hence
`SingleClient`; the rounds of the sessions cannot, because a commit only rewrites a
row that is there under the same id and never clears its status (`CommitUnnoticed`).
With `RInv` each commit is mapped to one action of `Registry` (`SaveRegistry`,
`RegisterRegistry`, `RemoveRegistry`, `RequestRegistry`), and `NextRegistry` collects
them. `EntriesOwned` then follows from the registry's own steps (`Owned`), and
`RemovalsComplete` from what `RInv` says of the list that is deleted.

### The arithmetic: `ZKCryptoProofs`

| theorem | says |
|---|---|
| `SameNumber` | (g^s)^x = (g^x)^s mod N |
| `PrintedRead` | a number printed and read in one radix is that number |
| `ConversionKeeps` | the text `dec2hex` makes reads in hexadecimal as its argument in decimal, whatever its length |
| `PasswordlessRead` | what the page registers reads back as g^x mod N |
| `TokenExpected` | the page's token is the one the server expects, for a challenge printed and read in either radix |

The only assumption is that N is at least 2 and g between 1 and N - 1: N need not be
prime. These are statements about functions defined by recursion, over numbers and
over the places of a text. `Recursion` states induction of sets instead of
predicates (a set of numbers that holds 0 and each successor is Nat), and derives
from it that a function defined by recursion exists and that two with the same
recursion agree, so that the functions of `ZKCrypto` take their steps.
`ZKCryptoProofs` applies it to the power (`SameNumber` is that a power of a power is
the power of the product, `PowerOfPower`), to the digits, and to `dec2hex`: one step
of it, whatever its carries, multiplies the number by ten and adds the digit
(`TimesTen`).

### The page: `SecureDiaryProofs`

| theorem | says |
|---|---|
| `PageInvariant` | `Spec => []PageInv` |
| `RegisteredCorrect`, `RetryCorrect`, `ShownCorrect` | `Spec => []P` for `RegisteredFromPassword`, `RetryAccepted`, `DiaryShown` |
| `PollCorrect`, `CommandsCorrect` | `Spec => PollAgrees`, `Spec => CommandsFinish` |

They hold for every group, any number of names and titles, with and without losses,
under `SecretsAssumption`: passwords and secrets are numbers, different pairs have
different tokens, and a secret besides any two can be drawn. `PageInv` adds to the
types of the page and the exchange (`ExchangeTypeOK`) what relates the two ends of
it: a request is of the user signed in (`CallOfUser`), an answer has a body exactly
for the commands that expect one, and a list on its way is the user's
(`AnswerOfCall`), the secret a 401 or its repetition speaks of is the one stored
(`ChallengeKept`), and a user told of a success sees the whole diary unless a list
is still to come (`ToldShown`). `ChallengeKept` is the heart: from the 401 to the
repetition the user is challenged but has no session, so neither `Rotate` nor `Expire`
applies and nothing else of the user is in flight. `RetryCorrect` and `PollCorrect`
then rest on `TokenExpected`, `RegisteredCorrect` on `PasswordlessRead`.

### The list: `EntryListProofs`

| theorem | says |
|---|---|
| `ListInvariant` | `Spec => []ListInv` |
| `SingleIcon`, `SingleCallback` | `Spec => []OneIcon`, `Spec => []OneCallback` |
| `GestureTaken` | `Spec => AloneGesture` |

They hold for any titles and positions, any number of fingers, and any bound on how
often listeners can be bound, on touch screens and with a mouse. `ListInv` says that
the plugin of the title under a finger that has been alone knows where the finger
came down and where it is (`AloneTracked`); a mouse may leave the title and come back,
which loses moves but is made good before it is released there. `OneIcon` is by
induction over the runs of `touchEnd`, with `Recursion` for the function that adds up
their effects; `OneCallback` because the first run leaves a plugin that counts no
finger, so that every later one meets no gesture (`LaterRuns`).

### Only model-checked

`TimedSessionExpires`: liveness is out of the prover's reach. The properties of the runs
that find a violation are false and have counterexamples instead. That a drawn value
stands for any unused one (`AnyOf`) is an argument about the model, not a theorem.

## Not modelled

- The connection pool: every diary request holds a connection while `fetch` opens a
  second transaction. Hazard without a property.
- Two commands of the page in flight at a time, which share implicit globals, and two
  pollers when two first refreshes overlap.
- Body validation, unknown routes, media types, audit columns, logging: they
  answer or record without touching the state above.
- Torn reads of the unsynchronised `kafkaTiming` map; crashes of the server (the
  schema is dropped and nothing survives).
- The single-entry `DiaryService.fetch`: it only reads and no route calls it.
- Of the plugin: options the page does not set (status handlers, time thresholds,
  pinch), `enable`, `disable` and `destroy`, which nothing calls, and
  `validateDefaultEvent`, which only decides whether the browser scrolls.
- Styling, the texts of dialogs, the values of the entries, `require.js`, `html5.js`.

## Plan

1. Done: the server (`ZKAuthState` to `ZKAuth`), `IInv` and its theorems.
2. Done: `ZKCrypto`, `DiaryServer`, `SecureDiary`; `TouchSwipe`, `EntryList`.
3. Done: `Registry`, the refinement, checked and proved for one request at a time.
4. Done: theorems for every safety property of the passing runs.
5. A lost 401 that locks the user out of the page; the deletion of the wrong entry
   through a `prevTitle` left by a cancelled edit; two servlet threads with removals.
6. `ConnectionPool`: nested transactions and blocked rounds over a bounded pool.
