---------------------------- MODULE SecureDiary ----------------------------
(***************************************************************************)
(* The SecureDiary page (script.js), the server it calls and the Kafka     *)
(* REST proxy it polls.  The page is single threaded: every action is one  *)
(* run of the browser's event loop, a click, the answer to a request or    *)
(* the answer to a poll.                                                   *)
(*                                                                         *)
(* The user gives one command at a time and waits for its exchanges to     *)
(* end.  The texts of the page stand for themselves, "" is Null or <<>>;   *)
(* an entry's content is blank exactly when its title is.                  *)
(***************************************************************************)
EXTENDS DiaryServer

CONSTANT Lossy  \* a request or its answer may be lost

VARIABLES
    cache,       \* the name and password of the user signed in
    solution,    \* the token sent with the next request, <<>> if none
    titleField,  \* the title in the form
    prevTitle,   \* the title of the entry being edited
    view,        \* "list", or the command of the form shown: "ADD" or "DELETE"
    login,       \* the command the login dialog gives, Null if it is closed
    shown,       \* the titles of the list
    told,        \* the last message to the user was "Request Success"
    call,        \* the HTTP exchange in flight, NoCall if there is none
    KafkaId      \* the topic the interval KafkaId polls, Null if it is ""

formVars == <<titleField, prevTitle, view>>
pageVars == <<cache, solution, formVars, login, shown, told>>
exchange == <<call, answer>>
vars == <<serverVars, exchange, pageVars, KafkaId>>

ASSUME LossyAssumption == Lossy \in BOOLEAN

Commands == {"REFRESH", "REMOVE", "REGISTER", "ADD", "DELETE"}
Nobody == [name |-> Null, password |-> Null]
User == [name : Names, password : Passwords] \cup {Nobody}
NoCall == [command |-> Null]
Quiet == call = NoCall

\* An emptied password is 0 to modPow.
Exponent == IF cache.password = Null THEN 0 ELSE cache.password

\* The list of a browser that has stored nothing; the page never stores an entry.
loadEntries == shown = {}

Init ==
    /\ ServerInit
    /\ cache = Nobody
    /\ solution = <<>>
    /\ titleField = Null /\ prevTitle = Null /\ view = "list"
    /\ login = Null
    /\ loadEntries
    /\ told = FALSE
    /\ call = NoCall
    /\ KafkaId = Null

-----------------------------------------------------------------------------
(***************************************************************************)
(* Commands.  A request is built from the page as it is when the command   *)
(* runs: a deletion is of prevTitle if there is one, else of the title in  *)
(* the form.                                                               *)
(***************************************************************************)
Request(command, user, title) ==
    [command      |-> command,
     name         |-> user.name,
     title        |-> CASE command = "ADD" -> title
                        [] command = "DELETE" /\ prevTitle = Null -> title
                        [] command = "DELETE" /\ prevTitle # Null -> prevTitle
                        [] OTHER -> Null,
     passwordless |-> IF command = "REGISTER" THEN Passwordless(user.password) ELSE <<>>,
     token        |-> solution,
     retry        |-> FALSE]

Send(request) == call' = request /\ answer' = NoAnswer
executeCommand(command, title) == Send(Request(command, cache, title))

SignedIn == cache.name # Null

\* A command that needs a user opens the login dialog if there is none.
Command(command, title) ==
    IF SignedIn
    THEN executeCommand(command, title) /\ UNCHANGED login
    ELSE login' = command /\ UNCHANGED exchange

\* The user's events, each possible when nothing is in flight and no dialog is open.
Free(where) == Quiet /\ login = Null /\ view \in where
List == {"list"}
Form == {"ADD", "DELETE"}
PageOnly == UNCHANGED <<serverVars, solution, shown, told, KafkaId>>

resetForm == titleField' = Null
showList == view' = "list"
showForm(command) == view' = command

RefreshClicked ==
    /\ Free(List) /\ Command("REFRESH", titleField)
    /\ PageOnly /\ UNCHANGED <<cache, formVars>>

RemoveClicked ==
    /\ Free(List) /\ Command("REMOVE", titleField)
    /\ PageOnly /\ UNCHANGED <<cache, formVars>>

RegisterClicked ==
    /\ Free(List) /\ login' = "REGISTER"
    /\ PageOnly /\ UNCHANGED <<cache, formVars, exchange>>

\* The dialog's button; the dialog stays until a command succeeds or it is closed.
Go(user) ==
    /\ Quiet /\ login # Null
    /\ cache' = user
    /\ Send(Request(login, user, titleField))
    /\ PageOnly /\ UNCHANGED <<formVars, login>>

CloseDialog ==
    /\ Quiet /\ login # Null
    /\ login' = Null
    /\ PageOnly /\ UNCHANGED <<cache, formVars, exchange>>

NewEntry ==
    /\ Free(List)
    /\ showForm("ADD")
    /\ PageOnly /\ UNCHANGED <<cache, titleField, prevTitle, login, exchange>>

EditEntry(title) ==
    /\ Free(List) /\ title \in shown
    /\ titleField' = title /\ prevTitle' = title
    /\ showForm("DELETE")
    /\ PageOnly /\ UNCHANGED <<cache, login, exchange>>

\* The delete icon gives its command whether a user is signed in or not.
deleteEntry(title) ==
    /\ Free(List) /\ title \in shown
    /\ executeCommand("DELETE", title)
    /\ showList /\ resetForm
    /\ PageOnly /\ UNCHANGED <<cache, prevTitle, login>>

TypeTitle(title) ==
    /\ Free(Form) /\ titleField' = title
    /\ PageOnly /\ UNCHANGED <<cache, prevTitle, view, login, exchange>>

\* The form is hidden with its fields kept once the command is on its way.
Submit ==
    /\ Free(Form) /\ Command(view, titleField)
    /\ IF SignedIn THEN showList ELSE UNCHANGED view
    /\ PageOnly /\ UNCHANGED <<cache, titleField, prevTitle>>

Cancel ==
    /\ Free(Form)
    /\ resetForm /\ showList
    /\ PageOnly /\ UNCHANGED <<cache, prevTitle, login, exchange>>

-----------------------------------------------------------------------------
\* The server's steps.

Serve ==
    /\ ~Quiet /\ answer = NoAnswer
    /\ IF call.command = "REGISTER"
       THEN Register(call.name, call.passwordless)
       ELSE Authenticated(call.command, call.name, call.title, call.token, solution)
    /\ UNCHANGED <<call, pageVars, KafkaId>>

Background ==
    /\ \E n \in Names : Rotate(n, solution) \/ Expire(n)
    /\ UNCHANGED <<pageVars, call, KafkaId>>

-----------------------------------------------------------------------------
(***************************************************************************)
(* Kafka.  The REST proxy has one consumer instance, with a fixed name.    *)
(* The POST that makes it is answered before the next event or never, and  *)
(* the DELETE takes it away at once.  A new instance starts at the         *)
(* smallest offset, so a poll may bring the last challenge again.          *)
(***************************************************************************)
spinUpKafkaConsumer(topic) == KafkaId' = topic \/ UNCHANGED KafkaId
spinDownKafkaConsumer == KafkaId' = Null

-----------------------------------------------------------------------------
(***************************************************************************)
(* Answers.  An answer with a body is handled in its data event, one with  *)
(* an empty body only by what runs on the status of a first answer.        *)
(***************************************************************************)
Answered(retry, status, data) ==
    /\ ~Quiet /\ call.retry = retry
    /\ answer.status \in status /\ answer.data = data
    /\ UNCHANGED serverVars

End == Send(NoCall)

\* Mutant: the password stays in the cache.
PasswordKept == cache' = [cache EXCEPT !.name = Null]

\* nullify empties the cache and the dialog's fields, and nothing else.
nullify == cache' = Nobody

Failed == told' = FALSE /\ nullify /\ End /\ UNCHANGED <<solution, formVars, login, shown>>

\* 401: the challenge is answered with the cached password and the request
\* repeated once with the answer.
FirstChallenged ==
    /\ Answered(FALSE, {"401"}, TRUE)
    /\ solution' = Answer(bigInt(answer.text, 10), Exponent)
    /\ Send([call EXCEPT !.token = solution', !.retry = TRUE])
    /\ UNCHANGED <<cache, formVars, login, shown, told, KafkaId>>

\* The list fetched replaces the one shown.
runEntries == shown' = IF call.command = "REFRESH" THEN answer.titles ELSE shown

\* Mutant: every success is followed by a refresh, a refresh too.
AlwaysRefresh ==
    /\ runEntries
    /\ executeCommand("REFRESH", titleField)
    /\ told' = TRUE

\* Mutant: the list is not fetched after an entry was added.
NoRefreshAfterAdd ==
    /\ runEntries
    /\ End /\ told' = TRUE

\* 200 or 201 with a body; ADD and REGISTER go on to REFRESH.
Succeeded ==
    /\ runEntries
    /\ IF call.command \in {"ADD", "REGISTER"}
       THEN executeCommand("REFRESH", titleField) /\ UNCHANGED told
       ELSE End /\ told' = TRUE

FirstSucceeded ==
    /\ Answered(FALSE, {"200", "201"}, TRUE)
    /\ Succeeded /\ login' = Null
    /\ UNCHANGED <<cache, solution, formVars, KafkaId>>

\* The first list a challenged user fetches starts the Kafka consumer.
RetrySucceeded ==
    /\ Answered(TRUE, {"200", "201"}, TRUE)
    /\ Succeeded /\ login' = Null
    /\ IF call.command = "REFRESH" /\ KafkaId = Null
       THEN spinUpKafkaConsumer(cache.name)
       ELSE UNCHANGED KafkaId
    /\ UNCHANGED <<cache, solution, formVars>>

FirstRefused ==
    /\ Answered(FALSE, {"refused"}, TRUE)
    /\ Failed
    /\ UNCHANGED KafkaId

RetryRefused ==
    /\ Answered(TRUE, {"401", "refused"}, TRUE)
    /\ Failed /\ spinDownKafkaConsumer

Removed ==
    /\ Answered(FALSE, {"200"}, FALSE) /\ call.command = "REMOVE"
    /\ nullify /\ shown' = {} /\ told' = FALSE /\ End
    /\ spinDownKafkaConsumer
    /\ UNCHANGED <<solution, formVars, login>>

\* An edit is a deletion; the entry in the form is added when it has succeeded.
Deleted ==
    /\ Answered(FALSE, {"200"}, FALSE) /\ call.command = "DELETE"
    /\ executeCommand(IF prevTitle # Null THEN "ADD" ELSE "REFRESH", titleField)
    /\ prevTitle' = Null
    /\ UNCHANGED <<cache, solution, titleField, view, login, shown, told,
                   KafkaId>>

\* A repeated DELETE or REMOVE that succeeds has no body, and no handler.
RetryUnheard ==
    /\ Answered(TRUE, {"200"}, FALSE)
    /\ End /\ UNCHANGED <<pageVars, KafkaId>>

\* The connection breaks, before the request was served or after.
NetworkError ==
    /\ Lossy /\ ~Quiet
    /\ Failed
    /\ UNCHANGED <<serverVars, KafkaId>>

Receive == \/ FirstChallenged \/ FirstSucceeded \/ RetrySucceeded
           \/ FirstRefused \/ RetryRefused
           \/ Removed \/ Deleted \/ RetryUnheard

-----------------------------------------------------------------------------
\* Mutant: the published challenge is read as a decimal number.
PollDecimal ==
    /\ KafkaId # Null /\ published[KafkaId] # <<>>
    /\ solution' = Answer(bigInt(published[KafkaId], 10), Exponent)
    /\ UNCHANGED <<serverVars, cache, formVars, login, shown, told, exchange, KafkaId>>

Poll ==
    /\ KafkaId # Null /\ published[KafkaId] # <<>>
    /\ solution' = Answer(bigInt(published[KafkaId], 16), Exponent)
    /\ UNCHANGED <<serverVars, cache, formVars, login, shown, told, exchange, KafkaId>>

Next ==
    \/ RefreshClicked \/ RemoveClicked \/ RegisterClicked \/ CloseDialog
    \/ NewEntry \/ Submit \/ Cancel
    \/ \E user \in User \ {Nobody} : Go(user)
    \/ \E title \in Titles : EditEntry(title) \/ deleteEntry(title) \/ TypeTitle(title)
    \/ Serve \/ Background \/ Receive \/ NetworkError
    \/ Poll

Spec == Init /\ [][Next]_vars

-----------------------------------------------------------------------------
(***************************************************************************)
(* Properties.                                                             *)
(***************************************************************************)
Titled == Titles \cup {Null}

PageTypeOK ==
    /\ account \in [Names -> Account \cup {Null}]
    /\ diary \subseteq Names \X Titles
    /\ cache \in User
    /\ titleField \in Titled /\ prevTitle \in Titled
    /\ view \in List \cup Form
    /\ login \in Commands \cup {Null}
    /\ shown \subseteq Titles
    /\ told \in BOOLEAN
    /\ KafkaId \in Names \cup {Null}

\* The user signed in is registered, and typed the password registered.
RightPassword ==
    /\ Registered(cache.name)
    /\ bigInt(account[cache.name].passwordless, 16) = modPow(g, cache.password)

\* The passwordless stored by the server is g^x mod N of a password x: the
\* page's own conversion to hexadecimal loses nothing the server reads back.
RegisteredFromPassword ==
    \A n \in Names : Registered(n) =>
        \E x \in Passwords : bigInt(account[n].passwordless, 16) = modPow(g, x)

\* A user who typed the right password is never refused twice: the repeated
\* request carries the answer to the secret the server now has, whatever the
\* page sent first, and whatever was rotated, dropped or lost before.  A
\* removal is the exception: its challenge is rolled back.
RetryAccepted ==
    /\ ~Quiet /\ call.retry /\ answer = NoAnswer
    /\ call.command # "REMOVE" /\ RightPassword
    => LET row == account[call.name] IN
       row.secret # Null /\ equals(Expected(row.passwordless, row.secret), call.token)

\* The last thing a user at rest was told is "Request Success" only if every
\* entry the server holds for the user is in the list.
DiaryShown == Quiet /\ SignedIn /\ told => TitlesOf(cache.name) \subseteq shown

\* A poll that brings the challenge of the current secret gives a user with
\* the right password the token the server expects: the challenge is printed
\* by one side and read by the other in the same radix.
PollAgrees ==
    [][LET row == account[KafkaId] IN
       /\ solution' # solution /\ UNCHANGED call
       /\ RightPassword /\ KafkaId = cache.name
       /\ row.secret # Null /\ published[KafkaId] = hint[row.secret]
       => equals(Expected(row.passwordless, row.secret), solution')]_vars

\* Every command comes to an end: a request that follows another repeats it
\* once with an answer, or is of a command that asks for less (an edit deletes,
\* then adds, then refreshes), so no command keeps the page busy for ever.
Rank(c) == 2 * (CASE c.command = "DELETE" -> 3
                  [] c.command \in {"ADD", "REGISTER"} -> 2
                  [] OTHER -> 1)
           - (IF c.retry THEN 1 ELSE 0)
CommandsFinish == [][~Quiet /\ ~Quiet' /\ call' # call => Rank(call') < Rank(call)]_vars

\* An edit never loses the entry: at rest, with the form closed, an entry that
\* was opened for editing is still stored unless the edit replaced it.
\* README.md:42 lists "Write/Edit/Remove diaries per user" among the features.
EditKeepsEntry ==
    Quiet /\ SignedIn /\ view = "list" /\ prevTitle # Null
        => <<cache.name, prevTitle>> \in diary

(***************************************************************************)
(* What makes them inductive.                                              *)
(***************************************************************************)
Text == Seq(Nat)
Calls == [command : Commands, name : Names \cup {Null}, title : Titled,
          passwordless : Text, token : Text, retry : BOOLEAN]
Statuses == {"none", "refused", "401", "201", "200"}
Answers == [status : Statuses, data : BOOLEAN, text : Text, titles : SUBSET Titles]

ExchangeTypeOK ==
    /\ Quiet \/ call \in Calls
    /\ answer \in Answers
    /\ published \in [Names -> Text]
    /\ solution \in Text

\* A request is of the user signed in, a registration with what that user typed.
CallOfUser ==
    ~Quiet => /\ call.name = cache.name
              /\ call.command = "REGISTER"
                    => \E x \in Passwords : call.passwordless = Passwordless(x)

\* Only the answers to lists, additions and registrations have a body, and a
\* list on its way is still the user's.
AnswerOfCall ==
    ~Quiet /\ answer.status \in {"200", "201"} =>
        /\ call.name \in Names
        /\ answer.data <=> call.command \in {"REFRESH", "ADD", "REGISTER"}
        /\ call.command = "REFRESH" => answer.titles = TitlesOf(call.name)

\* From the challenge to the repeated request the secret is the one challenged with.
ChallengeKept ==
    ~Quiet /\ call.command # "REMOVE" =>
        LET row == account[call.name] IN
        /\ ~call.retry /\ answer.status = "401" =>
              /\ Registered(call.name) /\ row.session = "initiating" /\ row.secret \in Secrets
              /\ answer.text = toString(Challenge(row.secret), 10)
        /\ call.retry /\ answer = NoAnswer =>
              /\ Registered(call.name) /\ row.session = "initiating" /\ row.secret \in Secrets
              /\ call.token = Answer(Challenge(row.secret), Exponent)

\* Nobody is told of a success before signing in, and the list is complete
\* unless a request under way is about to fetch it.
ToldShown ==
    told => /\ SignedIn /\ login \in {Null, "REGISTER"}
            /\ Quiet \/ call.command \in {"DELETE", "REMOVE"}
                  => TitlesOf(cache.name) \subseteq shown

PageInv == /\ PageTypeOK /\ ExchangeTypeOK
           /\ CallOfUser /\ AnswerOfCall /\ ChallengeKept /\ ToldShown
=============================================================================
