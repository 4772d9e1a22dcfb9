------------------------------- MODULE Users -------------------------------
(***************************************************************************)
(* Accounts: AuthService's register, bootstrap and login under concurrent  *)
(* requests, and the login screen (frontend/src/App.tsx) that calls them.  *)
(* register and bootstrap look for a name before they insert it; that two  *)
(* requests may both find it free is caught by the unique column alone.    *)
(* Roles and the columns no request changes are left out.                  *)
(***************************************************************************)
EXTENDS Sequences

CONSTANTS
  Names,         \* usernames, the two defaults among them
  Admin, Operator,
  Passwords,     \* what clients type, DefaultPassword among it
  DefaultPassword, \* stands for the passwords of the two default accounts
  Requests,      \* bound: requests under way
  Nobody         \* no account, no request

VARIABLES
  users,         \* users[n]: the password of account n
  request,       \* request[r]: what it asks for and where it is
  screen,        \* the browser: "login", "register" or "app"
  accepted,      \* history: the names and passwords of registrations answered ok
  bootstrapped   \* history: a bootstrap was answered ok

\* What the requests under way may be; a bootstrap has some of Defaults still to do.
Defaults == <<Admin, Operator>>
Bootstraps ==
  [kind : {"bootstrap"}, at : {"find", "insert"}, todo : {Defaults, <<Operator>>}, page : {FALSE}]
Accesses ==
  [kind : {"register", "login"}, at : {"find", "insert"}, name : Names, password : Passwords,
   page : BOOLEAN]

ASSUME UsersAssumption ==
  /\ {Admin, Operator} \subseteq Names /\ DefaultPassword \in Passwords
  /\ Nobody \notin Passwords \cup Bootstraps \cup Accesses

userVars == <<users, request, screen, accepted, bootstrapped>>

Register(n, p, page) == [kind |-> "register", at |-> "find", name |-> n, password |-> p, page |-> page]
Login(n, p) == [kind |-> "login", at |-> "find", name |-> n, password |-> p, page |-> TRUE]
Bootstrap == [kind |-> "bootstrap", at |-> "find", todo |-> Defaults, page |-> FALSE]

UserInit ==
  /\ users = [n \in Names |-> Nobody] /\ request = [r \in Requests |-> Nobody]
  /\ screen = "login"
  /\ accepted = {} /\ bootstrapped = FALSE

PageIdle == \A r \in Requests : request[r] # Nobody => ~request[r].page

\* submit: one request of the page at a time, while its button is disabled.
Submits(r) ==
  /\ request[r] = Nobody /\ PageIdle
  /\ \E n \in Names, p \in Passwords :
       \/ screen = "login" /\ request' = [request EXCEPT ![r] = Login(n, p)]
       \/ screen = "register" /\ request' = [request EXCEPT ![r] = Register(n, p, TRUE)]
  /\ UNCHANGED <<users, screen, accepted, bootstrapped>>

\* The mode buttons are not disabled; an answer finds the screen it finds.
Switches ==
  /\ screen # "app" /\ screen' = (IF screen = "login" THEN "register" ELSE "login")
  /\ UNCHANGED <<users, request, accepted, bootstrapped>>

Others(r) ==
  /\ request[r] = Nobody
  /\ \/ request' = [request EXCEPT ![r] = Bootstrap]
     \/ \E n \in Names, p \in Passwords : request' = [request EXCEPT ![r] = Register(n, p, FALSE)]
  /\ UNCHANGED <<users, screen, accepted, bootstrapped>>

\* The request is answered with an error; the page shows a toast.
Refused(r) == request' = [request EXCEPT ![r] = Nobody]

\* findOne of register, of the next default account, or of login.
RegisterFinds(r) ==
  /\ request[r] # Nobody /\ request[r].kind = "register" /\ request[r].at = "find"
  /\ IF users[request[r].name] # Nobody THEN Refused(r)
     ELSE request' = [request EXCEPT ![r].at = "insert"]
  /\ UNCHANGED <<users, screen, accepted, bootstrapped>>

LoginFinds(r) ==
  /\ request[r] # Nobody /\ request[r].kind = "login"
  /\ Refused(r)
  /\ IF users[request[r].name] = request[r].password
     THEN screen' = "app" ELSE UNCHANGED screen
  /\ UNCHANGED <<users, accepted, bootstrapped>>

\* The loop goes on; after the last account the answer is ok.
NextDefault(r) ==
  IF Len(request[r].todo) = 1 THEN Refused(r) /\ bootstrapped' = TRUE
  ELSE /\ request' = [request EXCEPT ![r].todo = Tail(@), ![r].at = "find"]
       /\ UNCHANGED bootstrapped

BootstrapFinds(r) ==
  /\ request[r] # Nobody /\ request[r].kind = "bootstrap" /\ request[r].at = "find"
  /\ IF users[Head(request[r].todo)] # Nobody THEN NextDefault(r)
     ELSE request' = [request EXCEPT ![r].at = "insert"] /\ UNCHANGED bootstrapped
  /\ UNCHANGED <<users, screen, accepted>>

\* A bug: the save updates the account that is there.
RegisterInserts_Upsert(r) ==
  /\ request[r] # Nobody /\ request[r].kind = "register" /\ request[r].at = "insert"
  /\ users' = [users EXCEPT ![request[r].name] = request[r].password]
  /\ accepted' = accepted \cup {<<request[r].name, request[r].password>>}
  /\ screen' = (IF request[r].page THEN "login" ELSE screen)
  /\ Refused(r)
  /\ UNCHANGED bootstrapped
\* The INSERT; the unique column refuses a name that is taken by now.
RegisterInserts(r) ==
  /\ request[r] # Nobody /\ request[r].kind = "register" /\ request[r].at = "insert"
  /\ IF users[request[r].name] = Nobody
     THEN /\ users' = [users EXCEPT ![request[r].name] = request[r].password]
          /\ accepted' = accepted \cup {<<request[r].name, request[r].password>>}
          /\ screen' = (IF request[r].page THEN "login" ELSE screen)
     ELSE UNCHANGED <<users, accepted, screen>>
  /\ Refused(r)
  /\ UNCHANGED bootstrapped

BootstrapInserts(r) ==
  /\ request[r] # Nobody /\ request[r].kind = "bootstrap" /\ request[r].at = "insert"
  /\ IF users[Head(request[r].todo)] = Nobody
     THEN /\ users' = [users EXCEPT ![Head(request[r].todo)] = DefaultPassword]
          /\ NextDefault(r)
     ELSE Refused(r) /\ UNCHANGED <<users, bootstrapped>>
  /\ UNCHANGED <<screen, accepted>>

\* The account request q is about to insert.
Account(q) ==
  IF q.kind = "bootstrap" THEN <<Head(q.todo), DefaultPassword>> ELSE <<q.name, q.password>>

\* A statement fails, or the backend restarts, before or after it was executed.
Loses(r) ==
  /\ request[r] # Nobody /\ Refused(r)
  /\ \/ UNCHANGED users
     \/ LET a == Account(request[r]) IN
        /\ request[r].at = "insert" /\ users[a[1]] = Nobody
        /\ users' = [users EXCEPT ![a[1]] = a[2]]
  /\ UNCHANGED <<screen, accepted, bootstrapped>>

\* Abmelden: the token is removed and the page loaded again.
LogsOut ==
  /\ screen = "app" /\ screen' = "login"
  /\ UNCHANGED <<users, request, accepted, bootstrapped>>

UserNext ==
  \/ Switches \/ LogsOut
  \/ \E r \in Requests :
       \/ Submits(r) \/ Others(r) \/ Loses(r) \/ LoginFinds(r)
       \/ RegisterFinds(r) \/ RegisterInserts(r) \/ BootstrapFinds(r) \/ BootstrapInserts(r)

UserSpec == UserInit /\ [][UserNext]_userVars

-----------------------------------------------------------------------------
UserTypeOK ==
  /\ users \in [Names -> Passwords \cup {Nobody}]
  /\ request \in [Requests -> Bootstraps \cup Accesses \cup {Nobody}]
  /\ screen \in {"login", "register", "app"}
  /\ accepted \subseteq Names \X Passwords /\ bootstrapped \in BOOLEAN

\* An ok answer stays true: a registration that was accepted decides the password
\* of its name for good, whoever else registers it or bootstraps at the time, and
\* after a bootstrap that was answered ok both default accounts are there.
AnswersStayTrue ==
  /\ \A a \in accepted : users[a[1]] = a[2]
  /\ bootstrapped => \A n \in {Admin, Operator} : users[n] # Nobody
=============================================================================
