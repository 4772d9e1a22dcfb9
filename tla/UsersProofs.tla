---------------------------- MODULE UsersProofs ----------------------------
(***************************************************************************)
(* Proofs about Users for any number of names and of requests under way.   *)
(***************************************************************************)
EXTENDS Users, TLAPS

\* A bootstrap that has come to its second account has seen or made the first.
AdminFirst ==
  \A r \in Requests :
    request[r] \in Bootstraps /\ request[r].todo = <<Operator>> => users[Admin] # Nobody

UserInv == UserTypeOK /\ AdminFirst /\ AnswersStayTrue

----------------------------------------------------------------------------
\* What the requests under way are made of.
LEMMA RequestShapes ==
  /\ \A q \in Bootstraps :
       /\ q.kind = "bootstrap" /\ q.at \in {"find", "insert"} /\ q # Nobody
       /\ q.todo \in {Defaults, <<Operator>>} /\ q.page = FALSE
  /\ \A q \in Accesses :
       /\ q.kind \in {"register", "login"} /\ q.at \in {"find", "insert"} /\ q # Nobody
       /\ q.name \in Names /\ q.password \in Passwords /\ q.page \in BOOLEAN
  /\ Bootstrap \in Bootstraps
  /\ \A n \in Names, p \in Passwords : Login(n, p) \in Accesses
  /\ \A n \in Names, p \in Passwords, b \in BOOLEAN : Register(n, p, b) \in Accesses
  BY UsersAssumption DEF Bootstraps, Accesses, Bootstrap, Login, Register

LEMMA DefaultLists ==
  /\ Len(Defaults) = 2 /\ Head(Defaults) = Admin /\ Tail(Defaults) = <<Operator>>
  /\ Len(<<Operator>>) = 1 /\ Head(<<Operator>>) = Operator /\ Defaults # <<Operator>>
  BY DEF Defaults

\* An account that is there keeps its password, and answers stay true, when no
\* account changes and nothing new is answered ok.
LEMMA NothingAnswered ==
  ASSUME UserInv, \A n \in Names : users[n] # Nobody => users'[n] = users[n],
         accepted' = accepted, bootstrapped' = bootstrapped
  PROVE  AnswersStayTrue'
<1>1. \A a \in accepted : a[1] \in Names /\ users[a[1]] = a[2] /\ users[a[1]] # Nobody
  BY UsersAssumption DEF UserInv, UserTypeOK, AnswersStayTrue
<1>2. \A n \in {Admin, Operator} : n \in Names
  BY UsersAssumption
<1>3. QED
  BY <1>1, <1>2 DEF UserInv, AnswersStayTrue

\* When request r ends or another takes its place, the second half of a bootstrap
\* is still only reached with the first account there.
LEMMA AdminStays ==
  ASSUME UserInv, NEW r \in Requests, NEW q,
         \A n \in Names : users[n] # Nobody => users'[n] = users[n],
         request' = [request EXCEPT ![r] = q],
         q \in Bootstraps /\ q.todo = <<Operator>> => users'[Admin] # Nobody
  PROVE  AdminFirst'
<1>1. request \in [Requests -> Bootstraps \cup Accesses \cup {Nobody}]
  BY DEF UserInv, UserTypeOK
<1>2. \A x \in Requests : request'[x] = IF x = r THEN q ELSE request[x]
  BY <1>1
<1>3. Admin \in Names
  BY UsersAssumption
<1>4. QED
  BY <1>2, <1>3 DEF UserInv, AdminFirst

LEMMA UserInitInv == UserInit => UserInv
<1>1. SUFFICES ASSUME UserInit PROVE UserInv
  OBVIOUS
<1>2. UserTypeOK
  BY <1>1 DEF UserInit, UserTypeOK
<1>3. AdminFirst
  BY <1>1, RequestShapes DEF UserInit, AdminFirst
<1>4. AnswersStayTrue
  BY <1>1 DEF UserInit, AnswersStayTrue
<1>5. QED
  BY <1>2, <1>3, <1>4 DEF UserInv

\* The page and other clients ask.
LEMMA Asking ==
  ASSUME UserInv, NEW r \in Requests, NEW q \in Bootstraps \cup Accesses,
         q \in Bootstraps => q.todo # <<Operator>>,
         request' = [request EXCEPT ![r] = q],
         UNCHANGED <<users, screen, accepted, bootstrapped>>
  PROVE  UserInv'
<1>1. UserTypeOK'
  BY DEF UserInv, UserTypeOK
<1>2. AdminFirst'
  BY AdminStays
<1>3. AnswersStayTrue'
  BY NothingAnswered
<1>4. QED
  BY <1>1, <1>2, <1>3 DEF UserInv

\* Request r ends and no account changes.
LEMMA Ending ==
  ASSUME UserInv, NEW r \in Requests, Refused(r),
         screen' \in {"login", "register", "app"},
         UNCHANGED <<users, accepted, bootstrapped>>
  PROVE  UserInv'
<1>1. UserTypeOK'
  BY DEF UserInv, UserTypeOK, Refused
<1>2. AdminFirst'
  BY AdminStays, RequestShapes DEF Refused
<1>3. AnswersStayTrue'
  BY NothingAnswered
<1>4. QED
  BY <1>1, <1>2, <1>3 DEF UserInv

\* An account is made for request r; what is answered is what is there.
LEMMA Making ==
  ASSUME UserInv, NEW r \in Requests, NEW q \in Bootstraps \cup Accesses \cup {Nobody},
         NEW n \in Names, NEW p \in Passwords,
         users[n] = Nobody, users' = [users EXCEPT ![n] = p],
         request' = [request EXCEPT ![r] = q],
         q \in Bootstraps /\ q.todo = <<Operator>> => users'[Admin] # Nobody,
         accepted' \in {accepted, accepted \cup {<<n, p>>}},
         screen' \in {"login", "register", "app"},
         bootstrapped' \in BOOLEAN,
         bootstrapped' => \A d \in {Admin, Operator} : users'[d] # Nobody
  PROVE  UserInv'
<1>1. users \in [Names -> Passwords \cup {Nobody}] /\ p # Nobody
  BY UsersAssumption DEF UserInv, UserTypeOK
<1>2. UserTypeOK'
  BY <1>1 DEF UserInv, UserTypeOK
<1>3. \A m \in Names : users[m] # Nobody => users'[m] = users[m]
  BY <1>1
<1>4. AdminFirst'
  BY <1>3, AdminStays
<1>5. \A a \in accepted : a[1] \in Names /\ users[a[1]] = a[2] /\ users[a[1]] # Nobody
  BY UsersAssumption DEF UserInv, UserTypeOK, AnswersStayTrue
<1>6. \A a \in accepted' : users'[a[1]] = a[2]
  BY <1>1, <1>3, <1>5
<1>7. AnswersStayTrue'
  BY <1>6 DEF AnswersStayTrue
<1>8. QED
  BY <1>2, <1>4, <1>7 DEF UserInv

\* What a bootstrap does after the account at the head of its list is there.
LEMMA NextDefaultSteps ==
  ASSUME UserInv, NEW r \in Requests, request[r] \in Bootstraps, NextDefault(r),
         users'[Head(request[r].todo)] # Nobody,
         \A n \in Names : users[n] # Nobody => users'[n] = users[n]
  PROVE  \E q \in Bootstraps \cup {Nobody} :
           /\ request' = [request EXCEPT ![r] = q]
           /\ q \in Bootstraps /\ q.todo = <<Operator>> => users'[Admin] # Nobody
           /\ bootstrapped' \in BOOLEAN
           /\ bootstrapped' => \A d \in {Admin, Operator} : users'[d] # Nobody
<1>1. request[r].todo \in {Defaults, <<Operator>>}
  BY RequestShapes
<1>2. bootstrapped \in BOOLEAN /\ Admin \in Names /\ Operator \in Names
  BY UsersAssumption DEF UserInv, UserTypeOK
<1>3. bootstrapped => \A d \in {Admin, Operator} : users'[d] # Nobody
  BY <1>2 DEF UserInv, AnswersStayTrue
<1>4. CASE request[r].todo = <<Operator>>
  <2>1. Refused(r) /\ bootstrapped' = TRUE
    BY <1>4, DefaultLists DEF NextDefault
  <2>2. users'[Operator] # Nobody
    BY <1>4, DefaultLists
  <2>3. users'[Admin] # Nobody
    BY <1>4, <1>2 DEF UserInv, AdminFirst
  <2>4. QED
    BY <2>1, <2>2, <2>3, RequestShapes DEF Refused
<1>5. CASE request[r].todo = Defaults
  <2> DEFINE q == [request[r] EXCEPT !.todo = Tail(@), !.at = "find"]
  <2>1. request' = [request EXCEPT ![r] = q] /\ bootstrapped' = bootstrapped
    <3>1. request \in [Requests -> Bootstraps \cup Accesses \cup {Nobody}]
      BY DEF UserInv, UserTypeOK
    <3>2. \A t : [request EXCEPT ![r].todo = t, ![r].at = "find"]
                 = [request EXCEPT ![r] = [request[r] EXCEPT !.todo = t, !.at = "find"]]
      BY <3>1
    <3>3. Len(request[r].todo) # 1
      BY <1>5, DefaultLists
    <3>4. /\ request' = [request EXCEPT ![r].todo = Tail(request[r].todo), ![r].at = "find"]
          /\ bootstrapped' = bootstrapped
      BY <3>3 DEF NextDefault
    <3>5. QED
      BY <3>2, <3>4
  <2>2. q \in Bootstraps
    <3>1. Tail(request[r].todo) = <<Operator>>
      BY <1>5, DefaultLists
    <3>2. \A b \in Bootstraps : [b EXCEPT !.todo = <<Operator>>, !.at = "find"] \in Bootstraps
      BY DEF Bootstraps
    <3>3. QED
      BY <3>1, <3>2
  <2>3. users'[Admin] # Nobody
    BY <1>5, DefaultLists
  <2>4. q \in Bootstraps \cup {Nobody} /\ bootstrapped' \in BOOLEAN
    BY <2>1, <2>2, <1>2
  <2>5. bootstrapped' => \A d \in {Admin, Operator} : users'[d] # Nobody
    BY <2>1, <1>2, <1>3
  <2> HIDE DEF q
  <2>6. QED
    BY <2>1, <2>3, <2>4, <2>5
<1>6. QED
  BY <1>1, <1>4, <1>5

----------------------------------------------------------------------------
LEMMA RequestStep ==
  ASSUME UserInv, NEW r \in Requests,
         \/ Submits(r) \/ Others(r) \/ Loses(r) \/ LoginFinds(r)
         \/ RegisterFinds(r) \/ RegisterInserts(r) \/ BootstrapFinds(r) \/ BootstrapInserts(r)
  PROVE  UserInv'
<1>1. /\ request[r] \in Bootstraps \cup Accesses \cup {Nobody}
      /\ screen \in {"login", "register", "app"} /\ bootstrapped \in BOOLEAN
      /\ users \in [Names -> Passwords \cup {Nobody}]
  BY DEF UserInv, UserTypeOK
<1>2. Admin \in Names /\ Operator \in Names /\ DefaultPassword \in Passwords
      /\ Nobody \notin Passwords
  BY UsersAssumption
<1>a. bootstrapped => \A d \in {Admin, Operator} : users[d] # Nobody
  BY DEF UserInv, AnswersStayTrue
<1>3. ASSUME Submits(r) PROVE UserInv'
  <2>1. PICK n \in Names, p \in Passwords :
          \/ request' = [request EXCEPT ![r] = Login(n, p)]
          \/ request' = [request EXCEPT ![r] = Register(n, p, TRUE)]
    BY <1>3 DEF Submits
  <2>2. UNCHANGED <<users, screen, accepted, bootstrapped>>
    BY <1>3 DEF Submits
  <2>3. Login(n, p) \in Accesses /\ Register(n, p, TRUE) \in Accesses
    BY RequestShapes
  <2>4. Accesses \cap Bootstraps = {}
    BY RequestShapes
  <2>5. QED
    BY <2>1, <2>2, <2>3, <2>4, Asking
<1>4. ASSUME Others(r) PROVE UserInv'
  <2>1. UNCHANGED <<users, screen, accepted, bootstrapped>>
    BY <1>4 DEF Others
  <2>2. CASE request' = [request EXCEPT ![r] = Bootstrap]
    <3>1. Bootstrap.todo # <<Operator>>
      BY DefaultLists DEF Bootstrap
    <3>2. QED
      BY <2>1, <2>2, <3>1, RequestShapes, Asking
  <2>3. CASE \E n \in Names, p \in Passwords : request' = [request EXCEPT ![r] = Register(n, p, FALSE)]
    <3>1. PICK n \in Names, p \in Passwords : request' = [request EXCEPT ![r] = Register(n, p, FALSE)]
      BY <2>3
    <3>2. Register(n, p, FALSE) \in Accesses /\ Accesses \cap Bootstraps = {}
      BY RequestShapes
    <3>3. QED
      BY <2>1, <3>1, <3>2, Asking
  <2>4. QED
    BY <1>4, <2>2, <2>3 DEF Others
<1>5. ASSUME Loses(r) PROVE UserInv'
  <2>1. Refused(r) /\ UNCHANGED <<screen, accepted, bootstrapped>> /\ request[r] # Nobody
    BY <1>5 DEF Loses
  <2>2. CASE UNCHANGED users
    BY <2>1, <2>2, <1>1, Ending
  <2>3. CASE LET a == Account(request[r]) IN
               users[a[1]] = Nobody /\ users' = [users EXCEPT ![a[1]] = a[2]]
    <3> DEFINE a == Account(request[r])
    <3>1. a[1] \in Names /\ a[2] \in Passwords
      <4>1. CASE request[r] \in Bootstraps
        <5>1. request[r].kind = "bootstrap" /\ Head(request[r].todo) \in Names
          BY <4>1, <1>2, RequestShapes, DefaultLists
        <5>2. QED
          BY <5>1, <1>2 DEF Account
      <4>2. CASE request[r] \in Accesses
        BY <4>2, RequestShapes DEF Account
      <4>3. QED
        BY <4>1, <4>2, <1>1, <2>1
    <3>2. \A n \in Names : users[n] # Nobody => users'[n] = users[n]
      BY <2>3, <1>1
    <3>3. bootstrapped' => \A d \in {Admin, Operator} : users'[d] # Nobody
      BY <3>2, <2>1, <1>2, <1>a
    <3>4. request' = [request EXCEPT ![r] = Nobody] /\ Nobody \notin Bootstraps
      BY <2>1, RequestShapes DEF Refused
    <3>5. users[a[1]] = Nobody /\ users' = [users EXCEPT ![a[1]] = a[2]]
      BY <2>3
    <3>6. screen' \in {"login", "register", "app"} /\ bootstrapped' \in BOOLEAN
      BY <2>1, <1>1
    <3> HIDE DEF a
    <3>7. QED
      BY <2>1, <3>1, <3>3, <3>4, <3>5, <3>6, Making
  <2>4. QED
    BY <1>5, <2>2, <2>3 DEF Loses
<1>6. ASSUME LoginFinds(r) PROVE UserInv'
  BY <1>6, <1>1, Ending DEF LoginFinds
<1>7. ASSUME RegisterFinds(r) PROVE UserInv'
  <2>1. UNCHANGED <<users, screen, accepted, bootstrapped>> /\ request[r] \in Accesses
    BY <1>7, <1>1, RequestShapes DEF RegisterFinds
  <2>2. CASE Refused(r)
    BY <2>1, <2>2, <1>1, Ending
  <2>3. CASE request' = [request EXCEPT ![r].at = "insert"]
    <3>1. [request[r] EXCEPT !.at = "insert"] \in Accesses
      BY <2>1 DEF Accesses
    <3>2. Accesses \cap Bootstraps = {}
      BY RequestShapes
    <3>3. QED
      BY <2>1, <2>3, <3>1, <3>2, Asking
  <2>4. QED
    BY <1>7, <2>2, <2>3 DEF RegisterFinds
<1>8. ASSUME RegisterInserts(r) PROVE UserInv'
  <2>1. Refused(r) /\ UNCHANGED bootstrapped /\ request[r] \in Accesses
    BY <1>8, <1>1, RequestShapes DEF RegisterInserts
  <2> DEFINE n == request[r].name
             p == request[r].password
  <2>2. n \in Names /\ p \in Passwords /\ request[r].page \in BOOLEAN
    BY <2>1, RequestShapes
  <2>3. CASE users[n] = Nobody
    <3>1. /\ users' = [users EXCEPT ![n] = p] /\ accepted' = accepted \cup {<<n, p>>}
          /\ screen' \in {"login", "register", "app"}
      BY <1>8, <2>3, <1>1 DEF RegisterInserts
    <3>2. \A m \in Names : users[m] # Nobody => users'[m] = users[m]
      BY <3>1, <2>3, <1>1
    <3>3. bootstrapped' => \A d \in {Admin, Operator} : users'[d] # Nobody
      BY <3>2, <2>1, <1>2, <1>a
    <3>4. QED
      BY <2>1, <2>2, <2>3, <3>1, <3>3, <1>1, Making, RequestShapes DEF Refused
  <2>4. CASE users[n] # Nobody
    <3>1. UNCHANGED <<users, accepted, screen>>
      BY <1>8, <2>4 DEF RegisterInserts
    <3>2. QED
      BY <2>1, <3>1, <1>1, Ending
  <2>5. QED
    BY <2>3, <2>4
<1>9. ASSUME BootstrapFinds(r) PROVE UserInv'
  <2>1. UNCHANGED <<users, screen, accepted>> /\ request[r] \in Bootstraps
    BY <1>9, <1>1, RequestShapes DEF BootstrapFinds
  <2>2. CASE users[Head(request[r].todo)] # Nobody
    <3>1. NextDefault(r)
      BY <1>9, <2>2 DEF BootstrapFinds
    <3>2. PICK q \in Bootstraps \cup {Nobody} :
           /\ request' = [request EXCEPT ![r] = q]
           /\ q \in Bootstraps /\ q.todo = <<Operator>> => users'[Admin] # Nobody
           /\ bootstrapped' \in BOOLEAN
           /\ bootstrapped' => \A d \in {Admin, Operator} : users'[d] # Nobody
      BY <3>1, <2>1, <2>2, NextDefaultSteps
    <3>3. UserTypeOK'
      BY <3>2, <2>1 DEF UserInv, UserTypeOK
    <3>4. AdminFirst'
      BY <3>2, <2>1, AdminStays
    <3>5. AnswersStayTrue'
      BY <3>2, <2>1 DEF UserInv, AnswersStayTrue
    <3>6. QED
      BY <3>3, <3>4, <3>5 DEF UserInv
  <2>3. CASE users[Head(request[r].todo)] = Nobody
    <3> DEFINE q == [request[r] EXCEPT !.at = "insert"]
    <3>1. request' = [request EXCEPT ![r] = q] /\ UNCHANGED bootstrapped
      BY <1>9, <2>3 DEF BootstrapFinds
    <3>2. q \in Bootstraps /\ q.todo = request[r].todo
      BY <2>1 DEF Bootstraps
    <3>3. UserTypeOK'
      BY <3>1, <3>2, <2>1 DEF UserInv, UserTypeOK
    <3>4. AdminFirst'
      BY <3>1, <3>2, <2>1, AdminStays DEF UserInv, AdminFirst
    <3>5. AnswersStayTrue'
      BY <3>1, <2>1, NothingAnswered
    <3>6. QED
      BY <3>3, <3>4, <3>5 DEF UserInv
  <2>4. QED
    BY <2>2, <2>3
<1>10. ASSUME BootstrapInserts(r) PROVE UserInv'
  <2>1. UNCHANGED <<screen, accepted>> /\ request[r] \in Bootstraps
    BY <1>10, <1>1, RequestShapes DEF BootstrapInserts
  <2> DEFINE n == Head(request[r].todo)
  <2>2. n \in Names
    BY <2>1, <1>2, RequestShapes, DefaultLists
  <2>3. CASE users[n] = Nobody
    <3>1. users' = [users EXCEPT ![n] = DefaultPassword] /\ NextDefault(r)
      BY <1>10, <2>3 DEF BootstrapInserts
    <3>2. \A m \in Names : users[m] # Nobody => users'[m] = users[m]
      BY <3>1, <2>3, <1>1
    <3>3. users'[n] # Nobody
      BY <3>1, <2>2, <1>1, <1>2
    <3>4. PICK q \in Bootstraps \cup {Nobody} :
           /\ request' = [request EXCEPT ![r] = q]
           /\ q \in Bootstraps /\ q.todo = <<Operator>> => users'[Admin] # Nobody
           /\ bootstrapped' \in BOOLEAN
           /\ bootstrapped' => \A d \in {Admin, Operator} : users'[d] # Nobody
      BY <3>1, <3>2, <3>3, <2>1, NextDefaultSteps
    <3>5. QED
      BY <3>1, <3>4, <2>1, <2>2, <2>3, <1>1, <1>2, Making
  <2>4. CASE users[n] # Nobody
    <3>1. Refused(r) /\ UNCHANGED <<users, bootstrapped>>
      BY <1>10, <2>4 DEF BootstrapInserts
    <3>2. QED
      BY <2>1, <3>1, <1>1, Ending
  <2>5. QED
    BY <2>3, <2>4
<1>11. QED
  BY <1>3, <1>4, <1>5, <1>6, <1>7, <1>8, <1>9, <1>10

LEMMA UserStepInv == UserInv /\ [UserNext]_userVars => UserInv'
<1>1. SUFFICES ASSUME UserInv, [UserNext]_userVars PROVE UserInv'
  OBVIOUS
<1>2. CASE Switches \/ LogsOut \/ UNCHANGED userVars
  <2>1. UNCHANGED <<users, request, accepted, bootstrapped>> /\ screen' \in {"login", "register", "app"}
    BY <1>1, <1>2 DEF Switches, LogsOut, userVars, UserInv, UserTypeOK
  <2>2. UserTypeOK' /\ AdminFirst' /\ AnswersStayTrue'
    BY <1>1, <2>1 DEF UserInv, UserTypeOK, AdminFirst, AnswersStayTrue
  <2>3. QED
    BY <2>2 DEF UserInv
<1>3. CASE \E r \in Requests :
       \/ Submits(r) \/ Others(r) \/ Loses(r) \/ LoginFinds(r)
       \/ RegisterFinds(r) \/ RegisterInserts(r) \/ BootstrapFinds(r) \/ BootstrapInserts(r)
  BY <1>1, <1>3, RequestStep
<1>4. QED
  BY <1>1, <1>2, <1>3 DEF UserNext

\* Every variable of the accounts keeps its type, for any number of names and requests.
THEOREM UsersTypeCorrect == UserSpec => []UserTypeOK
<1>1. UserInv => UserTypeOK
  BY DEF UserInv
<1>2. QED
  BY <1>1, UserInitInv, UserStepInv, PTL DEF UserSpec

\* A registration that was answered ok decides the password of its name for good,
\* and a bootstrap answered ok leaves both default accounts: register and bootstrap
\* of AuthService check and insert apart, and the unique column settles their races.
THEOREM OkIsFinal == UserSpec => []AnswersStayTrue
<1>1. UserInv => AnswersStayTrue
  BY DEF UserInv
<1>2. QED
  BY <1>1, UserInitInv, UserStepInv, PTL DEF UserSpec
=============================================================================
