------------------------- MODULE SecureDiaryProofs -------------------------
(***************************************************************************)
(* Proofs about the page, for every group, password and secret, any number *)
(* of users and titles, lost requests or not.                              *)
(***************************************************************************)
EXTENDS SecureDiary, ZKCryptoProofs

LEMMA InvParts == PageInv => /\ PageTypeOK /\ ExchangeTypeOK
                             /\ CallOfUser /\ AnswerOfCall /\ ChallengeKept /\ ToldShown
BY DEF PageInv

(* An empty text is a text, and so are the ones the page and the server send. *)
LEMMA Texts ==
  /\ <<>> \in Text
  /\ \A x \in Nat : Passwordless(x) \in Text
  /\ \A b, x \in Nat : Answer(b, x) \in Text
  /\ \A s \in Nat, radix \in {10, 16} :
        toString(Challenge(s), radix) \in Text /\ bigInt(toString(Challenge(s), radix), radix) = Challenge(s)
  /\ \A s \in Nat : Challenge(s) \in Nat
<1>1. g \in Nat /\ N \in Nat
  BY GroupAssumption
<1>2. \A b, x \in Nat : modPow(b, x) \in Nat
  BY <1>1, Power
<1>3. \A n \in Nat, radix \in {10, 16} :
         toString(n, radix) \in Text /\ bigInt(toString(n, radix), radix) = n
  BY PrintedRead DEF Text
<1> QED
  BY <1>1, <1>2, <1>3, EmptyText, PasswordlessRead DEF Answer, Challenge, Text

(* Every text is read as a number.                                         *)
LEMMA TextRead ==
  ASSUME NEW text \in Text, NEW radix \in Nat PROVE bigInt(text, radix) \in Nat
BY ReadExists, ReadText DEF Text

LEMMA ExponentType == ASSUME PageTypeOK PROVE Exponent \in Nat
<1>1. cache.password \in Passwords \/ cache.password = Null
  BY DEF PageTypeOK, User, Nobody
<1>2. Passwords \subseteq Nat /\ 0 \in Nat
  BY SecretsAssumption
<1> QED
  BY <1>1, <1>2 DEF Exponent

\* What is known of a request c of user's.
IsRequest(c, command, user) ==
    /\ c \in Calls
    /\ c.command = command /\ c.name = user.name /\ c.retry = FALSE
    /\ command = "REGISTER" => \E x \in Passwords : c.passwordless = Passwordless(x)

(* A request of the page has its type.                                     *)
LEMMA Requested ==
  ASSUME PageTypeOK, ExchangeTypeOK, NEW command \in Commands, NEW user \in User,
         NEW title \in Titled, command = "REGISTER" => user # Nobody
  PROVE  IsRequest(Request(command, user, title), command, user)
<1> DEFINE c == Request(command, user, title)
           what == CASE command = "ADD" -> title
                     [] command = "DELETE" /\ prevTitle = Null -> title
                     [] command = "DELETE" /\ prevTitle # Null -> prevTitle
                     [] OTHER -> Null
           pw == IF command = "REGISTER" THEN Passwordless(user.password) ELSE <<>>
<1>1. c = [command |-> command, name |-> user.name, title |-> what,
           passwordless |-> pw, token |-> solution, retry |-> FALSE]
  BY DEF Request
<1>2. what \in Titled
  BY DEF PageTypeOK, Titled
<1>3. user.name \in Names \cup {Null} /\ (user # Nobody => user.password \in Passwords)
  BY DEF User, Nobody
<1>4. pw \in Text /\ (command = "REGISTER" => \E x \in Passwords : pw = Passwordless(x))
  BY <1>3, Texts, SecretsAssumption
<1>5. solution \in Text
  BY DEF ExchangeTypeOK
<1> HIDE DEF c, what, pw
<1>6. c \in Calls
  BY <1>1, <1>2, <1>3, <1>4, <1>5 DEF Calls
<1>7. c.command = command /\ c.name = user.name /\ c.retry = FALSE /\ c.passwordless = pw
  BY <1>1
<1> QED
  BY <1>4, <1>6, <1>7 DEF c, IsRequest

(* A request is in flight, not nothing.                                    *)
LEMMA InFlight == \A c \in Calls : c # NoCall
<1> SUFFICES ASSUME NEW c \in Calls PROVE c # NoCall
  OBVIOUS
<1>1. "name" \in DOMAIN c
  BY DEF Calls
<1>2. "name" \notin DOMAIN NoCall
  BY DEF NoCall
<1> QED
  BY <1>1, <1>2

LEMMA SecretsDiffer ==
  /\ \A s, t \in Secrets \cup {Null} : \E r \in Secrets : r # s /\ r # t
  /\ \A x, y \in Passwords, s, t \in Secrets : token[x][s] = token[y][t] => s = t
<1>1. \A s, t \in Secrets \cup {Null} : Secrets \ {s, t} # {}
  BY SecretsAssumption
<1>2. \A x, y \in Passwords, s, t \in Secrets : token[x][s] = token[y][t] => s = t
  BY SecretsAssumption
<1>3. ASSUME NEW s \in Secrets \cup {Null}, NEW t \in Secrets \cup {Null}
      PROVE  \E r \in Secrets : r # s /\ r # t
  <2>1. Secrets \ {s, t} # {}
    BY <1>1
  <2> QED
    BY <2>1
<1> QED
  BY <1>2, <1>3

(* There always is a fresh secret.                                         *)
LEMMA FreshSecretExists ==
  ASSUME PageTypeOK, NEW n \in Names, Registered(n)
  PROVE  FreshSecret(n, solution) \in Secrets
<1> DEFINE old == account[n].secret
<1>1. old \in Secrets \cup {Null}
  BY DEF PageTypeOK, Account, Registered
<1> HIDE DEF old
<1>2. \E s \in Secrets : s # old /\ \A x \in Passwords : token[x][s] # solution
  <2>1. CASE \E t \in Secrets, y \in Passwords : token[y][t] = solution
    <3>1. PICK t \in Secrets, y \in Passwords : token[y][t] = solution
      BY <2>1
    <3>2. PICK s \in Secrets : s # old /\ s # t
      BY <1>1, <3>1, SecretsDiffer
    <3>3. \A x \in Passwords : token[x][s] # solution
      BY <3>1, <3>2, SecretsDiffer
    <3> QED
      BY <3>2, <3>3
  <2>2. CASE ~\E t \in Secrets, y \in Passwords : token[y][t] = solution
    <3>1. PICK s \in Secrets : s # old
      BY <1>1, SecretsDiffer
    <3> QED
      BY <2>2, <3>1
  <2> QED
    BY <2>1, <2>2
<1> QED
  BY <1>2 DEF FreshSecret, old

-----------------------------------------------------------------------------
(* A step that puts a request on its way keeps the invariant when what it  *)
(* leaves has its type and the list is complete where it should be.        *)
LEMMA Sent ==
  ASSUME PageTypeOK', published' \in [Names -> Text], solution' \in Text,
         NEW c \in Calls, call' = c, answer' = NoAnswer,
         c.retry = FALSE, c.name = cache'.name,
         c.command = "REGISTER" => \E x \in Passwords : c.passwordless = Passwordless(x),
         told' => /\ SignedIn' /\ login' \in {Null, "REGISTER"}
                  /\ c.command \in {"DELETE", "REMOVE"} => TitlesOf(cache.name)' \subseteq shown'
  PROVE  PageInv'
<1>1. ~Quiet'
  BY InFlight DEF Quiet
<1>2. NoAnswer \in Answers /\ NoAnswer.status = "none"
  BY EmptyText DEF NoAnswer, Answers, Statuses, Text
<1>3. ExchangeTypeOK'
  BY <1>2 DEF ExchangeTypeOK
<1>4. CallOfUser'
  BY DEF CallOfUser
<1>5. AnswerOfCall' /\ ChallengeKept'
  BY <1>2 DEF AnswerOfCall, ChallengeKept
<1>6. ToldShown'
  BY <1>1 DEF ToldShown
<1> QED
  BY <1>3, <1>4, <1>5, <1>6 DEF PageInv

(* So does one after which nothing is on its way.                          *)
LEMMA Ended ==
  ASSUME PageTypeOK', published' \in [Names -> Text], solution' \in Text,
         call' = NoCall, answer' = NoAnswer,
         told' => /\ SignedIn' /\ login' \in {Null, "REGISTER"}
                  /\ TitlesOf(cache.name)' \subseteq shown'
  PROVE  PageInv'
<1>1. NoAnswer \in Answers
  BY EmptyText DEF NoAnswer, Answers, Statuses, Text
<1>2. Quiet'
  BY DEF Quiet
<1> QED
  BY <1>1, <1>2 DEF PageInv, ExchangeTypeOK, CallOfUser, AnswerOfCall, ChallengeKept, ToldShown

(* And one that only turns the page.                                       *)
LEMMA Turned ==
  ASSUME PageInv, UNCHANGED <<serverVars, exchange, cache, solution, shown, told, KafkaId>>,
         titleField' \in Titled, prevTitle' \in Titled, view' \in List \cup Form,
         login' \in Commands \cup {Null}, told => login' \in {Null, "REGISTER"}
  PROVE  PageInv'
<1>1. /\ PageTypeOK /\ ExchangeTypeOK
      /\ CallOfUser /\ AnswerOfCall /\ ChallengeKept /\ ToldShown
  BY DEF PageInv
<1>2. UNCHANGED <<account, diary, published, call, answer, cache, solution, shown, told, KafkaId>>
  BY DEF serverVars, tables, exchange
<1>3. PageTypeOK'
  BY <1>1, <1>2 DEF PageTypeOK
<1>4. ExchangeTypeOK'
  BY <1>1, <1>2 DEF ExchangeTypeOK, Quiet
<1>5. CallOfUser' /\ AnswerOfCall'
  BY <1>1, <1>2 DEF CallOfUser, AnswerOfCall, Quiet, TitlesOf
<1>6. ChallengeKept'
  BY <1>1, <1>2 DEF ChallengeKept, Quiet, Registered, Exponent
<1>7. ToldShown'
  BY <1>1, <1>2 DEF ToldShown, Quiet, TitlesOf, SignedIn
<1> QED
  BY <1>3, <1>4, <1>5, <1>6, <1>7 DEF PageInv

LEMMA InitInv == Init => PageInv
<1> SUFFICES ASSUME Init PROVE PageInv
  OBVIOUS
<1>1. NoAnswer \in Answers /\ <<>> \in Text
  BY EmptyText DEF NoAnswer, Answers, Statuses, Text
<1>2. PageTypeOK
  BY DEF Init, ServerInit, PageTypeOK, Titled, User, List, loadEntries
<1>3. Quiet /\ ExchangeTypeOK
  BY <1>1 DEF Init, ServerInit, ExchangeTypeOK, Quiet
<1>4. CallOfUser /\ AnswerOfCall /\ ChallengeKept /\ ToldShown
  BY <1>3 DEF Init, CallOfUser, AnswerOfCall, ChallengeKept, ToldShown
<1> QED
  BY <1>2, <1>3, <1>4 DEF PageInv

-----------------------------------------------------------------------------
(* The user's clicks.                                                      *)
LEMMA ClickInv ==
  ASSUME PageInv,
         \/ RefreshClicked \/ RemoveClicked \/ RegisterClicked \/ CloseDialog
         \/ NewEntry \/ Submit \/ Cancel
         \/ \E user \in User \ {Nobody} : Go(user)
         \/ \E title \in Titles : EditEntry(title) \/ deleteEntry(title) \/ TypeTitle(title)
  PROVE  PageInv'
<1>1. /\ PageTypeOK /\ ExchangeTypeOK
      /\ CallOfUser /\ AnswerOfCall /\ ChallengeKept /\ ToldShown
  BY DEF PageInv
<1>2. /\ titleField \in Titled /\ prevTitle \in Titled /\ Null \in Titled /\ Titles \subseteq Titled
      /\ view \in List \cup Form /\ login \in Commands \cup {Null} /\ cache \in User
  BY <1>1 DEF PageTypeOK, Titled
<1>3. Commands = {"REFRESH", "REMOVE", "REGISTER", "ADD", "DELETE"} /\ List = {"list"} /\ Form = {"ADD", "DELETE"}
  BY DEF Commands, List, Form
<1>4. ASSUME NEW command \in Commands, NEW user \in User, NEW title \in Titled,
             Quiet, call' = Request(command, user, title), answer' = NoAnswer, cache' = user,
             PageOnly, command = "REGISTER" => user # Nobody,
             titleField' \in Titled, prevTitle' \in Titled, view' \in List \cup Form,
             login' \in Commands \cup {Null},
             told => /\ login' \in {Null, "REGISTER"} /\ user.name # Null
                     /\ command \in {"DELETE", "REMOVE"} => user = cache
      PROVE  PageInv'
  <2>1. UNCHANGED <<account, diary, published, solution, shown, told, KafkaId>>
    BY <1>4 DEF PageOnly, serverVars, tables
  <2>2. PageTypeOK'
    BY <1>1, <1>4, <2>1 DEF PageTypeOK
  <2>3. published' \in [Names -> Text] /\ solution' \in Text
    BY <1>1, <2>1 DEF ExchangeTypeOK
  <2> DEFINE c == Request(command, user, title)
  <2>7. IsRequest(c, command, user) /\ call' = c
    BY <1>1, <1>4, Requested
  <2> HIDE DEF c
  <2>4. /\ c \in Calls /\ c.command = command /\ c.name = user.name /\ c.retry = FALSE
        /\ command = "REGISTER" => \E x \in Passwords : c.passwordless = Passwordless(x)
    BY <2>7 DEF IsRequest
  <2>6. told' => /\ SignedIn' /\ login' \in {Null, "REGISTER"}
                 /\ c.command \in {"DELETE", "REMOVE"} => TitlesOf(cache.name)' \subseteq shown'
    BY <1>1, <1>4, <2>1, <2>4 DEF ToldShown, SignedIn, TitlesOf
  <2> QED
    BY <1>4, <2>2, <2>3, <2>4, <2>6, <2>7, Sent
<1>5. ASSUME NEW command \in Commands \ {"REGISTER"}, Quiet, login = Null,
             Command(command, titleField), UNCHANGED <<cache, titleField, prevTitle>>,
             PageOnly, view' \in List \cup Form
      PROVE  PageInv'
  <2>1. CASE SignedIn
    <3>1. call' = Request(command, cache, titleField) /\ answer' = NoAnswer /\ login' = login
      BY <1>5, <2>1 DEF Command, executeCommand, Send
    <3> QED
      BY <1>2, <1>4, <1>5, <2>1, <3>1 DEF SignedIn
  <2>2. CASE ~SignedIn
    <3>1. login' = command /\ UNCHANGED exchange /\ ~told
      BY <1>1, <1>5, <2>2 DEF Command, ToldShown
    <3> QED
      BY <1>2, <1>5, <3>1, Turned DEF PageOnly
  <2> QED
    BY <2>1, <2>2
<1>6. CASE RefreshClicked
  BY <1>2, <1>3, <1>5, <1>6 DEF RefreshClicked, Free, formVars
<1>7. CASE RemoveClicked
  BY <1>2, <1>3, <1>5, <1>7 DEF RemoveClicked, Free, formVars
<1>8. CASE RegisterClicked
  BY <1>2, <1>3, <1>8, Turned DEF RegisterClicked, PageOnly, formVars
<1>9. CASE CloseDialog
  BY <1>2, <1>9, Turned DEF CloseDialog, PageOnly, formVars
<1>10. CASE NewEntry
  BY <1>1, <1>2, <1>3, <1>10, Turned DEF NewEntry, PageOnly, showForm, Free
<1>11. CASE Submit
  <2>1. view \in Commands \ {"REGISTER"} /\ view' \in List \cup Form
    BY <1>2, <1>3, <1>11 DEF Submit, Free, showList
  <2> QED
    BY <1>5, <1>11, <2>1 DEF Submit, Free
<1>12. CASE Cancel
  BY <1>2, <1>3, <1>12, Turned DEF Cancel, PageOnly, resetForm, showList, Free
<1>13. ASSUME NEW user \in User \ {Nobody}, Go(user) PROVE PageInv'
  <2>1. login \in Commands /\ user \in User /\ user.name \in Names /\ user.name # Null
    BY <1>2, <1>13, SecretsAssumption DEF Go, User
  <2>2. told => login = "REGISTER"
    BY <1>1, <1>13 DEF Go, ToldShown
  <2> QED
    BY <1>2, <1>4, <1>13, <2>1, <2>2 DEF Go, Send, formVars
<1>14. ASSUME NEW title \in Titles, EditEntry(title) PROVE PageInv'
  BY <1>2, <1>3, <1>14, Turned DEF EditEntry, PageOnly, showForm, Free
<1>15. ASSUME NEW title \in Titles, deleteEntry(title) PROVE PageInv'
  <2>1. told => cache.name # Null
    BY <1>1 DEF ToldShown, SignedIn
  <2>2. call' = Request("DELETE", cache, title) /\ answer' = NoAnswer
    BY <1>15 DEF deleteEntry, executeCommand, Send
  <2> QED
    BY <1>2, <1>3, <1>4, <1>15, <2>1, <2>2 DEF deleteEntry, Free, showList, resetForm
<1>16. ASSUME NEW title \in Titles, TypeTitle(title) PROVE PageInv'
  BY <1>2, <1>16, Turned DEF TypeTitle, PageOnly, Free
<1> QED
  BY <1>6, <1>7, <1>8, <1>9, <1>10, <1>11, <1>12, <1>13, <1>14, <1>15, <1>16

-----------------------------------------------------------------------------
LEMMA NoAccount == Null \notin Account
BY SecretsAssumption

LEMMA AnswerTypes ==
  /\ NoAnswer \in Answers /\ Refused \in Answers /\ Created \in Answers /\ Done \in Answers
  /\ NoAnswer.status = "none" /\ Refused.status = "refused"
  /\ Created.status = "201" /\ Created.data = TRUE
  /\ Done.status = "200" /\ Done.data = FALSE
BY EmptyText DEF NoAnswer, Refused, Created, Done, Answers, Statuses, Text

LEMMA ListedType ==
  ASSUME NEW set \in SUBSET Titles
  PROVE  /\ Listed(set) \in Answers
         /\ Listed(set).status = "200" /\ Listed(set).data = TRUE /\ Listed(set).titles = set
BY EmptyText DEF Listed, Answers, Statuses, Text

LEMMA ChallengedType ==
  ASSUME NEW s \in Secrets
  PROVE  /\ Challenged(s) \in Answers /\ Challenged(s).status = "401"
         /\ Challenged(s).text = toString(Challenge(s), 10)
<1> DEFINE t == toString(Challenge(s), 10)
<1>1. t \in Text
  BY Texts, SecretsAssumption
<1> HIDE DEF t
<1>2. Challenged(s) = [status |-> "401", data |-> TRUE, text |-> t, titles |-> {}]
  BY DEF Challenged, t
<1> QED
  BY <1>1, <1>2 DEF Answers, Statuses, t

(* A step of the server keeps the invariant when what it leaves has its    *)
(* type, and the answer and the list are as they should be.                *)
LEMMA ServedInv ==
  ASSUME PageInv, ~Quiet, UNCHANGED <<call, pageVars, KafkaId, published>>,
         account' \in [Names -> Account \cup {Null}], diary' \subseteq Names \X Titles,
         answer' \in Answers, answer'.status # "none",
         call.command \in {"DELETE", "REMOVE"} => diary' \subseteq diary,
         answer'.status \in {"200", "201"} =>
             /\ call.name \in Names
             /\ answer'.data <=> call.command \in {"REFRESH", "ADD", "REGISTER"}
             /\ call.command = "REFRESH" => answer'.titles = TitlesOf(call.name) /\ diary' = diary,
         answer'.status = "401" /\ call.command # "REMOVE" =>
             /\ Registered(call.name)'
             /\ account'[call.name].session = "initiating" /\ account'[call.name].secret \in Secrets
             /\ answer'.text = toString(Challenge(account'[call.name].secret), 10)
  PROVE  PageInv'
<1>1. /\ PageTypeOK /\ ExchangeTypeOK
      /\ CallOfUser /\ AnswerOfCall /\ ChallengeKept /\ ToldShown
  BY DEF PageInv
<1>2. UNCHANGED <<cache, solution, titleField, prevTitle, view, login, shown, told, call, KafkaId, published>>
  BY DEF pageVars, formVars
<1>3. PageTypeOK'
  BY <1>1, <1>2 DEF PageTypeOK
<1>4. ExchangeTypeOK'
  BY <1>1, <1>2 DEF ExchangeTypeOK, Quiet
<1>5. CallOfUser'
  BY <1>1, <1>2 DEF CallOfUser, Quiet
<1>6. AnswerOfCall'
  BY <1>2 DEF AnswerOfCall, TitlesOf
<1>7. answer' # NoAnswer
  BY AnswerTypes
<1>8. ChallengeKept'
  BY <1>2, <1>7 DEF ChallengeKept, Registered
<1>9. ToldShown'
  BY <1>1, <1>2 DEF ToldShown, Quiet, TitlesOf, SignedIn
<1> QED
  BY <1>3, <1>4, <1>5, <1>6, <1>8, <1>9 DEF PageInv

LEMMA ServeInv == ASSUME PageInv, Serve PROVE PageInv'
<1>1. /\ PageTypeOK /\ ExchangeTypeOK /\ CallOfUser
      /\ ~Quiet /\ UNCHANGED <<call, pageVars, KafkaId>>
  BY DEF PageInv, Serve
<1>2. /\ call \in Calls /\ call.command \in Commands
      /\ call.name \in Names \cup {Null} /\ call.title \in Titled
  BY <1>1 DEF ExchangeTypeOK, Calls
<1>3. account \in [Names -> Account \cup {Null}] /\ diary \subseteq Names \X Titles
  BY <1>1 DEF PageTypeOK
<1> DEFINE n == call.name
<1>4. CASE call.command = "REGISTER"
  <2>1. Register(n, call.passwordless)
    BY <1>4 DEF Serve
  <2>2. CASE n = Null \/ Registered(n)
    <3>1. answer' = Refused /\ UNCHANGED <<account, diary, published>>
      BY <2>1, <2>2 DEF Register
    <3> QED
      BY <1>1, <1>3, <3>1, AnswerTypes, ServedInv
  <2>3. CASE ~(n = Null \/ Registered(n))
    <3>1. /\ answer' = Created /\ UNCHANGED <<diary, published>> /\ n \in Names
          /\ account' = [account EXCEPT ![n] = [passwordless |-> call.passwordless,
                                                secret |-> Null, session |-> "none"]]
      BY <1>2, <2>1, <2>3 DEF Register
    <3>2. [passwordless |-> call.passwordless, secret |-> Null, session |-> "none"] \in Account
      BY <1>1, <1>4 DEF CallOfUser, Account, Sessions
    <3>3. account' \in [Names -> Account \cup {Null}]
      BY <1>3, <3>1, <3>2
    <3> QED
      BY <1>1, <1>3, <1>4, <3>1, <3>3, AnswerTypes, ServedInv
  <2> QED
    BY <2>2, <2>3
<1>5. CASE call.command # "REGISTER"
  <2>1. Authenticated(call.command, n, call.title, call.token, solution)
    BY <1>5 DEF Serve
  <2>2. UNCHANGED published
    BY <2>1 DEF Authenticated
  <2>3. CASE Rejected(call.command, n, call.title, call.token)
    <3>1. answer' = Refused /\ UNCHANGED <<account, diary>>
      BY <2>1, <2>3 DEF Authenticated, tables
    <3> QED
      BY <1>1, <1>3, <2>2, <3>1, AnswerTypes, ServedInv
  <2>4. CASE ~Rejected(call.command, n, call.title, call.token)
    <3>1. /\ n \in Names /\ account[n] \in Account /\ Registered(n)
          /\ call.command \in {"ADD", "DELETE"} => call.title \in Titles
      BY <1>2, <1>3, <2>4 DEF Rejected, Registered, Titled
    <3>2. CASE Granted(call.command, n, call.title)
      <4> DEFINE opened == [account EXCEPT ![n].session = IF @ = "initiating" THEN "running" ELSE @]
      <4>1. opened \in [Names -> Account \cup {Null}]
        BY <1>3, <3>1 DEF Account, Sessions
      <4>2. [account EXCEPT ![n] = Null] \in [Names -> Account \cup {Null}]
        BY <1>3
      <4> HIDE DEF opened
      <4>3. CASE call.command = "REFRESH"
        <5>1. answer' = Listed(TitlesOf(n)) /\ account' = opened /\ UNCHANGED diary
          BY <3>2, <4>3 DEF Granted, opened
        <5>2. TitlesOf(n) \in SUBSET Titles
          BY DEF TitlesOf
        <5> QED
          BY <1>1, <1>3, <2>2, <3>1, <4>1, <4>3, <5>1, <5>2, ListedType, ServedInv
      <4>4. CASE call.command = "ADD"
        <5>1. /\ answer' = IF <<n, call.title>> \in diary THEN Refused ELSE Created
              /\ account' = opened /\ diary' = diary \cup {<<n, call.title>>}
          BY <3>2, <4>4 DEF Granted, opened
        <5>2. diary' \subseteq Names \X Titles
          BY <1>3, <3>1, <4>4, <5>1
        <5> QED
          BY <1>1, <2>2, <3>1, <4>1, <4>4, <5>1, <5>2, AnswerTypes, ServedInv
      <4>5. CASE call.command = "DELETE"
        <5>1. answer' = Done /\ account' = opened /\ diary' \subseteq diary
          BY <3>2, <4>5 DEF Granted, opened
        <5> QED
          BY <1>1, <1>3, <2>2, <3>1, <4>1, <4>5, <5>1, AnswerTypes, ServedInv
      <4>6. CASE call.command = "REMOVE"
        <5>1. answer' = Done /\ account' = [account EXCEPT ![n] = Null] /\ diary' \subseteq diary
          BY <3>2, <4>6 DEF Granted
        <5> QED
          BY <1>1, <1>3, <2>2, <3>1, <4>2, <4>6, <5>1, AnswerTypes, ServedInv
      <4> QED
        BY <1>2, <1>5, <4>3, <4>4, <4>5, <4>6 DEF Commands
    <3>3. CASE ~Granted(call.command, n, call.title)
      <4> DEFINE s == FreshSecret(n, solution)
      <4>1. Challenging(call.command, n, s)
        BY <2>1, <2>4, <3>3 DEF Authenticated
      <4>2. s \in Secrets
        BY <1>1, <3>1, FreshSecretExists
      <4> HIDE DEF s
      <4>3. answer' = Challenged(s) /\ UNCHANGED diary
        BY <4>1 DEF Challenging
      <4>4. /\ answer' \in Answers /\ answer'.status = "401"
            /\ answer'.text = toString(Challenge(s), 10)
        BY <4>2, <4>3, ChallengedType
      <4>5. CASE call.command = "REMOVE"
        <5>1. account' = [account EXCEPT ![n].session = IF @ = "running" THEN "stopped" ELSE @]
          BY <4>1, <4>5 DEF Challenging
        <5>2. account' \in [Names -> Account \cup {Null}]
          BY <1>3, <3>1, <5>1 DEF Account, Sessions
        <5> QED
          BY <1>1, <1>3, <2>2, <4>3, <4>4, <4>5, <5>2, ServedInv
      <4>6. CASE call.command # "REMOVE"
        <5>1. account' = [account EXCEPT ![n].secret = s, ![n].session = "initiating"]
          BY <4>1, <4>6 DEF Challenging
        <5>2. account'[n] = [account[n] EXCEPT !.secret = s, !.session = "initiating"]
          BY <1>3, <3>1, <5>1
        <5>3. account'[n] \in Account /\ account'[n].secret = s /\ account'[n].session = "initiating"
          BY <3>1, <4>2, <5>2 DEF Account, Sessions
        <5>4. account' \in [Names -> Account \cup {Null}]
          BY <1>3, <3>1, <5>1, <5>3
        <5>5. Registered(n)'
          BY <1>1, <3>1, <5>3, NoAccount DEF Registered
        <5> QED
          BY <1>1, <1>3, <2>2, <4>2, <4>3, <4>4, <5>3, <5>4, <5>5, ServedInv
      <4> QED
        BY <4>5, <4>6
    <3> QED
      BY <3>2, <3>3
  <2> QED
    BY <2>3, <2>4
<1> QED
  BY <1>4, <1>5

LEMMA BackgroundInv == ASSUME PageInv, Background PROVE PageInv'
<1>1. /\ PageTypeOK /\ ExchangeTypeOK
      /\ CallOfUser /\ AnswerOfCall /\ ChallengeKept /\ ToldShown
  BY DEF PageInv
<1>2. PICK n \in Names : Rotate(n, solution) \/ Expire(n)
  BY DEF Background
<1>3. UNCHANGED <<cache, solution, titleField, prevTitle, view, login, shown, told, call, KafkaId, diary, answer>>
  BY <1>2 DEF Background, pageVars, formVars, Rotate, Expire
<1>4. Registered(n) /\ account[n].session = "running" /\ account[n] \in Account
  BY <1>1, <1>2 DEF Rotate, Expire, Registered, PageTypeOK
<1>5. /\ account' \in [Names -> Account \cup {Null}] /\ \A m \in Names \ {n} : account'[m] = account[m]
      /\ published' \in [Names -> Text]
  <2>1. CASE Rotate(n, solution)
    <3> DEFINE s == FreshSecret(n, solution)
    <3>1. s \in Secrets
      BY <1>1, <1>4, FreshSecretExists
    <3>2. /\ account' = [account EXCEPT ![n].secret = s]
          /\ published' = [published EXCEPT ![n] = hint[s]] \/ UNCHANGED published
      BY <2>1 DEF Rotate
    <3> HIDE DEF s
    <3>3. hint[s] \in Text
      BY <3>1, Texts, SecretsAssumption DEF hint
    <3>4. [account[n] EXCEPT !.secret = s] \in Account
      BY <1>4, <3>1 DEF Account
    <3> QED
      BY <1>1, <3>2, <3>3, <3>4 DEF PageTypeOK, ExchangeTypeOK
  <2>2. CASE Expire(n)
    <3>1. account' = [account EXCEPT ![n].secret = Null, ![n].session = "none"] /\ UNCHANGED published
      BY <2>2 DEF Expire
    <3>2. [account[n] EXCEPT !.secret = Null, !.session = "none"] \in Account
      BY <1>4 DEF Account, Sessions
    <3>3. account' = [account EXCEPT ![n] = [account[n] EXCEPT !.secret = Null, !.session = "none"]]
      BY <1>1, <3>1 DEF PageTypeOK
    <3> QED
      BY <1>1, <3>1, <3>2, <3>3 DEF PageTypeOK, ExchangeTypeOK
  <2> QED
    BY <1>2, <2>1, <2>2
<1>6. PageTypeOK'
  BY <1>1, <1>3, <1>5 DEF PageTypeOK
<1>7. ExchangeTypeOK'
  BY <1>1, <1>3, <1>5 DEF ExchangeTypeOK, Quiet
<1>8. CallOfUser' /\ AnswerOfCall' /\ ToldShown'
  BY <1>1, <1>3 DEF CallOfUser, AnswerOfCall, ToldShown, Quiet, TitlesOf, SignedIn
<1>9. ChallengeKept'
  <2>1. \A m : Registered(m) /\ account[m].session = "initiating"
                  => m \in Names /\ account'[m] = account[m] /\ Registered(m)'
    BY <1>4, <1>5 DEF Registered
  <2> QED
    BY <1>1, <1>3, <2>1 DEF ChallengeKept, Quiet, Exponent
<1> QED
  BY <1>6, <1>7, <1>8, <1>9 DEF PageInv

-----------------------------------------------------------------------------
(* The first answer is a challenge: the page answers it.                   *)
LEMMA ChallengedInv == ASSUME PageInv, FirstChallenged PROVE PageInv'
<1>1. /\ PageTypeOK /\ ExchangeTypeOK
      /\ CallOfUser /\ AnswerOfCall /\ ChallengeKept /\ ToldShown
  BY DEF PageInv
<1>2. /\ ~Quiet /\ call.retry = FALSE /\ answer.status = "401"
      /\ UNCHANGED <<account, diary, published, cache, titleField, prevTitle, view, login, shown, told, KafkaId>>
      /\ solution' = Answer(bigInt(answer.text, 10), Exponent)
      /\ call' = [call EXCEPT !.token = solution', !.retry = TRUE] /\ answer' = NoAnswer
  BY DEF FirstChallenged, Answered, Send, serverVars, tables, formVars
<1>3. call \in Calls /\ answer.text \in Text
  BY <1>1, <1>2 DEF ExchangeTypeOK, Answers
<1>4. solution' \in Text
  BY <1>1, <1>2, <1>3, TextRead, ExponentType, Texts
<1>5. /\ call' \in Calls /\ call'.token = solution' /\ call'.retry = TRUE
      /\ call'.command = call.command /\ call'.name = call.name
      /\ call'.passwordless = call.passwordless
  BY <1>2, <1>3, <1>4 DEF Calls
<1>6. ~Quiet'
  BY <1>5, InFlight DEF Quiet
<1>7. PageTypeOK'
  BY <1>1, <1>2 DEF PageTypeOK
<1>8. ExchangeTypeOK'
  BY <1>1, <1>2, <1>4, <1>5, AnswerTypes DEF ExchangeTypeOK
<1>9. CallOfUser' /\ AnswerOfCall' /\ ToldShown'
  BY <1>1, <1>2, <1>5, <1>6, AnswerTypes DEF CallOfUser, AnswerOfCall, ToldShown, TitlesOf, SignedIn
<1>10. ChallengeKept'
  <2>1. SUFFICES ASSUME call.command # "REMOVE"
                 PROVE  LET row == account[call.name] IN
                        /\ Registered(call.name) /\ row.session = "initiating" /\ row.secret \in Secrets
                        /\ solution' = Answer(Challenge(row.secret), Exponent)
    BY <1>2, <1>5, AnswerTypes DEF ChallengeKept, Registered, Exponent
  <2> DEFINE row == account[call.name]
  <2>2. /\ Registered(call.name) /\ row.session = "initiating" /\ row.secret \in Secrets
        /\ answer.text = toString(Challenge(row.secret), 10)
    BY <1>1, <1>2, <2>1 DEF ChallengeKept
  <2>3. bigInt(answer.text, 10) = Challenge(row.secret)
    BY <2>2, Texts, SecretsAssumption
  <2> QED
    BY <1>2, <2>2, <2>3
<1> QED
  BY <1>7, <1>8, <1>9, <1>10 DEF PageInv

(* The user's request is done, or goes on with a refresh.                  *)
LEMMA SucceededInv ==
  ASSUME PageInv, ~Quiet, answer.status \in {"200", "201"}, answer.data = TRUE, Succeeded, login' = Null,
         UNCHANGED <<serverVars, cache, solution, formVars>>, KafkaId' \in Names \cup {Null}
  PROVE  PageInv'
<1>1. /\ PageTypeOK /\ ExchangeTypeOK
      /\ CallOfUser /\ AnswerOfCall /\ ChallengeKept /\ ToldShown
  BY DEF PageInv
<1>2. UNCHANGED <<account, diary, published, cache, solution, titleField, prevTitle, view>>
  BY DEF serverVars, tables, formVars
<1>3. /\ call \in Calls /\ call.name = cache.name /\ call.name \in Names
      /\ call.command \in {"REFRESH", "ADD", "REGISTER"}
      /\ call.command = "REFRESH" => answer.titles = TitlesOf(call.name)
  BY <1>1 DEF ExchangeTypeOK, CallOfUser, AnswerOfCall
<1>4. SignedIn /\ SignedIn'
  BY <1>2, <1>3, SecretsAssumption DEF SignedIn
<1>5. shown' = IF call.command = "REFRESH" THEN answer.titles ELSE shown
  BY DEF Succeeded, runEntries
<1>6. answer.titles \subseteq Titles /\ told' \in BOOLEAN
  BY <1>1 DEF ExchangeTypeOK, Answers, Succeeded, PageTypeOK
<1>7. PageTypeOK'
  BY <1>1, <1>2, <1>5, <1>6 DEF PageTypeOK
<1>8. published' \in [Names -> Text] /\ solution' \in Text
  BY <1>1, <1>2 DEF ExchangeTypeOK
<1>9. CASE call.command = "REFRESH"
  <2>1. call' = NoCall /\ answer' = NoAnswer
    BY <1>9 DEF Succeeded, End, Send
  <2>2. TitlesOf(cache.name)' = shown'
    BY <1>2, <1>3, <1>5, <1>9 DEF TitlesOf
  <2> QED
    BY <1>4, <1>7, <1>8, <2>1, <2>2, Ended
<1>10. CASE call.command # "REFRESH"
  <2> DEFINE c == Request("REFRESH", cache, titleField)
  <2>1. call' = c /\ answer' = NoAnswer
    BY <1>3, <1>10 DEF Succeeded, executeCommand, Send
  <2>2. IsRequest(c, "REFRESH", cache)
    BY <1>1, Requested DEF Commands, PageTypeOK
  <2> HIDE DEF c
  <2>3. /\ c \in Calls /\ c.command = "REFRESH" /\ c.name = cache'.name /\ c.retry = FALSE
    BY <1>2, <2>2 DEF IsRequest
  <2> QED
    BY <1>4, <1>7, <1>8, <2>1, <2>3, Sent
<1> QED
  BY <1>9, <1>10

(* The request failed: the page forgets the user.                          *)
LEMMA FailedInv ==
  ASSUME PageInv, Failed, UNCHANGED serverVars, KafkaId' \in Names \cup {Null}
  PROVE  PageInv'
<1>1. PageTypeOK /\ ExchangeTypeOK
  BY DEF PageInv
<1>2. /\ UNCHANGED <<account, diary, published, solution, titleField, prevTitle, view, login, shown>>
      /\ cache' = Nobody /\ told' = FALSE /\ call' = NoCall /\ answer' = NoAnswer
  BY DEF serverVars, tables, formVars, Failed, nullify, End, Send
<1>3. PageTypeOK'
  BY <1>1, <1>2 DEF PageTypeOK, User
<1>4. published' \in [Names -> Text] /\ solution' \in Text
  BY <1>1, <1>2 DEF ExchangeTypeOK
<1> QED
  BY <1>2, <1>3, <1>4, Ended

LEMMA ReceiveInv == ASSUME PageInv, Receive \/ NetworkError PROVE PageInv'
<1>1. /\ PageTypeOK /\ ExchangeTypeOK
      /\ CallOfUser /\ AnswerOfCall /\ ChallengeKept /\ ToldShown
  BY DEF PageInv
<1>2. /\ KafkaId \in Names \cup {Null} /\ cache \in User /\ cache.name \in Names \cup {Null}
  BY <1>1 DEF PageTypeOK, User, Nobody
<1>3. CASE FirstSucceeded
  BY <1>2, <1>3, SucceededInv DEF FirstSucceeded, Answered
<1>4. CASE RetrySucceeded
  <2>1. KafkaId' \in Names \cup {Null}
    BY <1>2, <1>4 DEF RetrySucceeded, spinUpKafkaConsumer
  <2> QED
    BY <1>4, <2>1, SucceededInv DEF RetrySucceeded, Answered
<1>5. CASE FirstRefused
  BY <1>2, <1>5, FailedInv DEF FirstRefused, Answered
<1>6. CASE RetryRefused
  BY <1>2, <1>6, FailedInv DEF RetryRefused, Answered, spinDownKafkaConsumer
<1>7. CASE NetworkError
  BY <1>2, <1>7, FailedInv DEF NetworkError
<1>8. CASE Removed
  <2>1. /\ UNCHANGED <<account, diary, published, solution, titleField, prevTitle, view, login>>
        /\ cache' = Nobody /\ told' = FALSE /\ shown' = {} /\ KafkaId' = Null
        /\ call' = NoCall /\ answer' = NoAnswer
    BY <1>8 DEF Removed, Answered, serverVars, tables, formVars, nullify, End, Send, spinDownKafkaConsumer
  <2>2. PageTypeOK'
    BY <1>1, <2>1 DEF PageTypeOK, User
  <2>3. published' \in [Names -> Text] /\ solution' \in Text
    BY <1>1, <2>1 DEF ExchangeTypeOK
  <2> QED
    BY <2>1, <2>2, <2>3, Ended
<1>9. CASE Deleted
  <2> DEFINE next == IF prevTitle # Null THEN "ADD" ELSE "REFRESH"
             c == Request(next, cache, titleField)
  <2>1. /\ UNCHANGED <<account, diary, published, cache, solution, titleField, view, login, shown, told, KafkaId>>
        /\ prevTitle' = Null /\ call' = c /\ answer' = NoAnswer
    BY <1>9 DEF Deleted, Answered, serverVars, tables, executeCommand, Send
  <2>2. next \in {"ADD", "REFRESH"}
    OBVIOUS
  <2>3. IsRequest(c, next, cache)
    BY <1>1, Requested DEF Commands, PageTypeOK
  <2> HIDE DEF c, next
  <2>4. c \in Calls /\ c.command = next /\ c.name = cache'.name /\ c.retry = FALSE
    BY <2>1, <2>3 DEF IsRequest
  <2>5. PageTypeOK'
    BY <1>1, <2>1 DEF PageTypeOK, Titled
  <2>6. published' \in [Names -> Text] /\ solution' \in Text
    BY <1>1, <2>1 DEF ExchangeTypeOK
  <2>7. told' => SignedIn' /\ login' \in {Null, "REGISTER"}
    BY <1>1, <2>1 DEF ToldShown, SignedIn
  <2> QED
    BY <2>1, <2>2, <2>4, <2>5, <2>6, <2>7, Sent
<1>10. CASE RetryUnheard
  <2>1. /\ UNCHANGED <<account, diary, published, cache, solution, titleField, prevTitle, view, login, shown, told, KafkaId>>
        /\ call' = NoCall /\ answer' = NoAnswer
        /\ ~Quiet /\ answer.status = "200" /\ answer.data = FALSE
    BY <1>10 DEF RetryUnheard, Answered, serverVars, tables, pageVars, formVars, End, Send
  <2>2. call.command \in {"DELETE", "REMOVE"}
    BY <1>1, <2>1 DEF AnswerOfCall, ExchangeTypeOK, Calls, Commands
  <2>3. PageTypeOK'
    BY <1>1, <2>1 DEF PageTypeOK
  <2>4. published' \in [Names -> Text] /\ solution' \in Text
    BY <1>1, <2>1 DEF ExchangeTypeOK
  <2>5. told' => /\ SignedIn' /\ login' \in {Null, "REGISTER"}
                 /\ TitlesOf(cache.name)' \subseteq shown'
    BY <1>1, <2>1, <2>2 DEF ToldShown, SignedIn, TitlesOf
  <2> QED
    BY <2>1, <2>3, <2>4, <2>5, Ended
<1> QED
  BY <1>3, <1>4, <1>5, <1>6, <1>7, <1>8, <1>9, <1>10, ChallengedInv DEF Receive

LEMMA PollInv == ASSUME PageInv, Poll PROVE PageInv'
<1>1. /\ PageTypeOK /\ ExchangeTypeOK
      /\ CallOfUser /\ AnswerOfCall /\ ChallengeKept /\ ToldShown
  BY DEF PageInv
<1>2. /\ UNCHANGED <<account, diary, published, cache, titleField, prevTitle, view, login, shown, told, call, answer, KafkaId>>
      /\ KafkaId # Null /\ solution' = Answer(bigInt(published[KafkaId], 16), Exponent)
  BY DEF Poll, serverVars, tables, formVars, exchange
<1>3. published[KafkaId] \in Text
  BY <1>1, <1>2 DEF PageTypeOK, ExchangeTypeOK
<1>4. solution' \in Text
  BY <1>1, <1>2, <1>3, TextRead, ExponentType, Texts
<1>5. PageTypeOK'
  BY <1>1, <1>2 DEF PageTypeOK
<1>6. ExchangeTypeOK'
  BY <1>1, <1>2, <1>4 DEF ExchangeTypeOK, Quiet
<1>7. CallOfUser' /\ AnswerOfCall'
  BY <1>1, <1>2 DEF CallOfUser, AnswerOfCall, Quiet, TitlesOf
<1>8. ChallengeKept'
  BY <1>1, <1>2 DEF ChallengeKept, Quiet, Registered, Exponent
<1>9. ToldShown'
  BY <1>1, <1>2 DEF ToldShown, Quiet, TitlesOf, SignedIn
<1> QED
  BY <1>5, <1>6, <1>7, <1>8, <1>9 DEF PageInv

-----------------------------------------------------------------------------
LEMMA Stuttered == ASSUME PageInv, UNCHANGED vars PROVE PageInv'
<1>1. /\ PageTypeOK /\ ExchangeTypeOK
      /\ CallOfUser /\ AnswerOfCall /\ ChallengeKept /\ ToldShown
  BY DEF PageInv
<1>2. /\ UNCHANGED <<serverVars, exchange, cache, solution, shown, told, KafkaId>>
      /\ UNCHANGED <<titleField, prevTitle, view, login>>
  BY DEF vars, pageVars, formVars
<1> QED
  BY <1>1, <1>2, Turned DEF PageTypeOK, ToldShown

LEMMA NextInv == PageInv /\ [Next]_vars => PageInv'
BY ClickInv, ServeInv, BackgroundInv, ReceiveInv, PollInv, Stuttered DEF Next

(* PageInv is an inductive invariant of the page, the server and the proxy:*)
(* the types of script.js's globals and of the request and the answer on   *)
(* their way, whose request that is, what its answer can hold, which       *)
(* secret a challenge under way is of, and what the list shows.            *)
THEOREM PageInvariant == Spec => []PageInv
<1> QED
  BY InitInv, NextInv, PTL DEF Spec

(* What the server stores as passwordless reads back as g^x mod N of a     *)
(* password x: dec2hex of script.js loses nothing, for any password.       *)
THEOREM RegisteredCorrect == Spec => []RegisteredFromPassword
<1>1. PageInv => RegisteredFromPassword
  <2> SUFFICES ASSUME PageTypeOK, NEW n \in Names, Registered(n)
               PROVE  \E x \in Passwords : bigInt(account[n].passwordless, 16) = modPow(g, x)
    BY InvParts DEF RegisteredFromPassword
  <2>1. account[n] \in Account
    BY DEF PageTypeOK, Registered
  <2>2. PICK x \in Passwords : account[n].passwordless = Passwordless(x)
    BY <2>1 DEF Account
  <2> QED
    BY <2>2, PasswordlessRead, SecretsAssumption
<1> QED
  BY <1>1, PageInvariant, PTL

(* With the right password in the cache, the answer the page gives to the  *)
(* challenge of a secret is the one the server expects for that secret.    *)
LEMMA RightAnswer ==
  ASSUME PageTypeOK, RightPassword, NEW s \in Secrets
  PROVE  equals(Expected(account[cache.name].passwordless, s), Answer(Challenge(s), Exponent))
<1> DEFINE x == cache.password
<1>1. x \in Passwords /\ x # Null
  <2>1. cache.name \in Names /\ Null \notin Names /\ Null \notin Passwords
    BY SecretsAssumption DEF RightPassword, Registered
  <2>2. cache \in [name : Names, password : Passwords]
    BY <2>1 DEF PageTypeOK, User, Nobody
  <2> QED
    BY <2>1, <2>2
<1>2. Exponent = x /\ x \in Nat /\ s \in Nat
  BY <1>1, SecretsAssumption DEF Exponent
<1>3. bigInt(account[cache.name].passwordless, 16) = modPow(g, x)
  BY DEF RightPassword
<1> HIDE DEF x
<1>4. modPow(modPow(g, s), x) = modPow(modPow(g, x), s)
  BY <1>2, SameNumber
<1> QED
  BY <1>2, <1>3, <1>4 DEF equals, Expected, Answer, Challenge

(* A repeated request of a user with the right password is accepted,       *)
(* removals apart: no rotation, expiry, loss or poll between the challenge *)
(* and the repetition takes its secret away.                               *)
THEOREM RetryCorrect == Spec => []RetryAccepted
<1>1. PageInv => RetryAccepted
  <2> SUFFICES ASSUME PageTypeOK, CallOfUser, ChallengeKept,
                      ~Quiet, call.retry, answer = NoAnswer, call.command # "REMOVE", RightPassword
               PROVE  LET row == account[call.name] IN
                      row.secret # Null /\ equals(Expected(row.passwordless, row.secret), call.token)
    BY InvParts DEF RetryAccepted
  <2>1. call.name = cache.name
    BY DEF CallOfUser
  <2> DEFINE row == account[cache.name]
  <2>2. row.secret \in Secrets /\ call.token = Answer(Challenge(row.secret), Exponent)
    BY <2>1 DEF ChallengeKept
  <2>3. row.secret # Null
    BY <2>2, SecretsAssumption
  <2> QED
    BY <2>1, <2>2, <2>3, RightAnswer
<1> QED
  BY <1>1, PageInvariant, PTL

(* "Request Success" is never the last word while an entry of the user's   *)
(* is missing from the list.                                               *)
THEOREM ShownCorrect == Spec => []DiaryShown
<1>1. PageInv => DiaryShown
  BY InvParts DEF DiaryShown, ToldShown
<1> QED
  BY <1>1, PageInvariant, PTL

-----------------------------------------------------------------------------
(* A poll that brings the current challenge brings the expected token.     *)
LEMMA PollStep ==
  ASSUME PageTypeOK, Poll
  PROVE  LET row == account[KafkaId] IN
         /\ RightPassword /\ KafkaId = cache.name
         /\ row.secret # Null /\ published[KafkaId] = hint[row.secret]
         => equals(Expected(row.passwordless, row.secret), solution')
<1> DEFINE row == account[cache.name]
<1> SUFFICES ASSUME RightPassword, KafkaId = cache.name,
                    row.secret # Null, published[KafkaId] = hint[row.secret]
             PROVE  equals(Expected(row.passwordless, row.secret), solution')
  OBVIOUS
<1>1. row \in Account
  BY DEF RightPassword, Registered, PageTypeOK
<1>2. row.secret \in Secrets
  BY <1>1 DEF Account
<1> DEFINE s == row.secret
           p == row.passwordless
<1>3. published[KafkaId] = toString(Challenge(s), 16)
  BY <1>2 DEF hint
<1>4. bigInt(published[KafkaId], 16) = Challenge(s)
  BY <1>2, <1>3, Texts, SecretsAssumption
<1>5. solution' = Answer(Challenge(s), Exponent)
  BY <1>4 DEF Poll
<1>6. equals(Expected(p, s), Answer(Challenge(s), Exponent))
  BY <1>2, RightAnswer
<1> QED
  BY <1>5, <1>6

(* Only a poll sets the token while no request is sent: the challenge the  *)
(* Kafka agent prints in hexadecimal is read by script.js as that number,  *)
(* so the token of the next request is the one the server expects.         *)
THEOREM PollCorrect == Spec => PollAgrees
<1> DEFINE Agrees == LET row == account[KafkaId] IN
                     /\ solution' # solution /\ UNCHANGED call
                     /\ RightPassword /\ KafkaId = cache.name
                     /\ row.secret # Null /\ published[KafkaId] = hint[row.secret]
                     => equals(Expected(row.passwordless, row.secret), solution')
<1>1. ASSUME PageInv, [Next]_vars PROVE [Agrees]_vars
  <2> SUFFICES ASSUME solution' # solution, UNCHANGED call PROVE Agrees
    OBVIOUS
  <2>1. PageTypeOK /\ ExchangeTypeOK
    BY <1>1, InvParts
  <2>2. ~FirstChallenged
    <3> SUFFICES ASSUME FirstChallenged PROVE FALSE
      OBVIOUS
    <3>1. call \in Calls /\ call.retry = FALSE /\ call' = [call EXCEPT !.token = solution', !.retry = TRUE]
      BY <2>1 DEF FirstChallenged, Answered, Send, ExchangeTypeOK
    <3>2. call'.retry = TRUE
      BY <3>1 DEF Calls
    <3> QED
      BY <3>1, <3>2
  <2>3. Poll
    BY <1>1, <2>2 DEF Next, vars, pageVars, PageOnly,
       RefreshClicked, RemoveClicked, RegisterClicked, CloseDialog, NewEntry, Submit, Cancel,
       Go, EditEntry, deleteEntry, TypeTitle, Serve, Background, Receive, FirstSucceeded,
       RetrySucceeded, FirstRefused, RetryRefused, Removed, Deleted, RetryUnheard, NetworkError, Failed
  <2> QED
    BY <2>1, <2>3, PollStep
<1> QED
  BY <1>1, PageInvariant, PTL DEF Spec, PollAgrees

(* Every request that follows another, as answers arrive, has a lower rank:*)
(* a command given in the page comes to its end.                           *)
THEOREM CommandsCorrect == Spec => CommandsFinish
<1>1. ASSUME PageInv, [Next]_vars, ~Quiet, ~Quiet', call' # call PROVE Rank(call') < Rank(call)
  <2>1. /\ PageTypeOK /\ ExchangeTypeOK /\ call \in Calls
        /\ call.retry \in BOOLEAN /\ call.command \in Commands
    BY <1>1, InvParts DEF ExchangeTypeOK, Calls
  <2>2. CASE FirstChallenged
    <3> DEFINE c == [call EXCEPT !.token = solution', !.retry = TRUE]
    <3>1. call.retry = FALSE /\ call' = c
      BY <2>2 DEF FirstChallenged, Answered, Send
    <3>2. c.retry = TRUE /\ c.command = call.command
      BY <2>1 DEF Calls
    <3> HIDE DEF c
    <3>3. Rank(c) < Rank(call)
      BY <2>1, <3>1, <3>2 DEF Rank, Commands
    <3> QED
      BY <3>1, <3>3
  <2>3. CASE FirstSucceeded \/ RetrySucceeded
    <3> DEFINE c == Request("REFRESH", cache, titleField)
    <3>1. Succeeded
      BY <2>3 DEF FirstSucceeded, RetrySucceeded
    <3>2. call.command \in {"ADD", "REGISTER"} /\ call' = c
      BY <1>1, <3>1 DEF Succeeded, executeCommand, End, Send, Quiet
    <3>3. IsRequest(c, "REFRESH", cache)
      BY <2>1, Requested DEF Commands, PageTypeOK
    <3> HIDE DEF c
    <3>4. c.command = "REFRESH" /\ c.retry = FALSE
      BY <3>3 DEF IsRequest
    <3>5. Rank(call) \in {3, 4} /\ Rank(c) \in {1, 2}
      BY <2>1, <3>2, <3>4 DEF Rank, Commands
    <3>6. Rank(c) < Rank(call)
      BY <3>5
    <3> QED
      BY <3>2, <3>6
  <2>4. CASE Deleted
    <3> DEFINE next == IF prevTitle # Null THEN "ADD" ELSE "REFRESH"
               c == Request(next, cache, titleField)
    <3>1. call.command = "DELETE" /\ call' = c
      BY <2>4 DEF Deleted, executeCommand, Send
    <3>2. next \in {"ADD", "REFRESH"}
      OBVIOUS
    <3>3. IsRequest(c, next, cache)
      BY <2>1, Requested DEF Commands, PageTypeOK
    <3> HIDE DEF next, c
    <3>4. c.command \in {"ADD", "REFRESH"} /\ c.retry = FALSE
      BY <3>2, <3>3 DEF IsRequest
    <3>5. Rank(call) \in {5, 6} /\ Rank(c) \in {1, 2, 3, 4}
      BY <2>1, <3>1, <3>4 DEF Rank, Commands
    <3>6. Rank(c) < Rank(call)
      BY <3>5
    <3> QED
      BY <3>1, <3>6
  <2> QED
    BY <1>1, <2>2, <2>3, <2>4 DEF Next, vars, exchange, pageVars, PageOnly, Free, Quiet,
       RefreshClicked, RemoveClicked, RegisterClicked, CloseDialog, NewEntry, Submit, Cancel,
       Go, EditEntry, deleteEntry, TypeTitle, Serve, Background, Receive,
       FirstRefused, RetryRefused, Removed, RetryUnheard, NetworkError, Failed, End, Send, Poll
<1> QED
  BY <1>1, PageInvariant, PTL DEF Spec, CommandsFinish
=============================================================================
