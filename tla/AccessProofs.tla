---------------------------- MODULE AccessProofs ----------------------------
(* Proofs about Access, for every set of clients, users, requests and      *)
(* bookings, every life of a token and every length of a login.            *)
EXTENDS Access, TLAPS

Accepted == RolesDated /\ LoginsFresh /\ TokensFresh
Handled  == RequestsFresh /\ OwnerAuthenticated /\ ConfirmedByEntitled

(* An answer is not a request in a handler.                                *)
LEMMA AnswerNotOpen ==
  ASSUME NEW e
  PROVE  [status |-> e] \notin Open
<1>1. SUFFICES ASSUME [status |-> e] \in Open PROVE FALSE
  OBVIOUS
<1>2. PICK c \in Clients, t \in Routes, u \in Users \cup {None}, q \in Roles \cup {None} :
        [status |-> e] = [client |-> c, route |-> t, user |-> u, role |-> q]
  BY <1>1 DEF Open
<1>3. DOMAIN [status |-> e] = DOMAIN [client |-> c, route |-> t, user |-> u, role |-> q]
  BY <1>2
<1>4. {"status"} = {"client", "route", "user", "role"}
  BY <1>3
<1> QED
  BY <1>4

(* Whatever becomes of a request, it is answered with a status.            *)
LEMMA StatusAnswered ==
  ASSUME NEW e
  PROVE  [status |-> Status(e)] \in Answer
<1>1. Status(e) \in Statuses
  BY DEF Status, Statuses
<1> QED
  BY <1>1 DEF Answer

(* Time takes nothing from a token but the rest of its life.               *)
LEMMA OlderToken ==
  ASSUME NEW t \in Token
  PROVE  /\ Older(t) \in Token
         /\ Older(t).sub = t.sub
         /\ Older(t).role = t.role
         /\ t.left \in 0..TTL
         /\ Older(t).left = IF t.left = 0 THEN 0 ELSE t.left - 1
  BY AccessAssumption DEF Token, Older

(* The invariant holds at the start.                                       *)
LEMMA InitInv == Init => IInv
<1>1. SUFFICES ASSUME Init PROVE IInv
  OBVIOUS
<1> USE <1>1 DEF Init
<1>2. TypeOK
  <2>1. Lag \in Nat /\ 0 \in 0..Lag /\ Lag \in 0..Lag
    BY AccessAssumption DEF Lag
  <2>2. lapsed \in [Users -> [Roles -> 0..Lag]]
    BY <2>1
  <2>3. wallet \in [Clients -> SUBSET Token]
    OBVIOUS
  <2>4. login \in [Clients -> Login \cup {None}] /\ request \in [Requests -> Open \cup Answer \cup {None}]
    OBVIOUS
  <2>5. owner \in [Bookings -> Users \cup {None}] /\ maker \in [Bookings -> Clients \cup {None}]
    OBVIOUS
  <2>6. confirmer \in [Bookings -> Clients \cup {None}] /\ admins \subseteq Users
    BY DEF AdminsOf
  <2> QED
    BY <2>2, <2>3, <2>4, <2>5, <2>6 DEF TypeOK
<1>3. RolesDated
  BY AccessAssumption DEF RolesDated, AdminsOf
<1>4. LoginsFresh /\ TokensFresh
  BY DEF LoginsFresh, TokensFresh
<1>5. RequestsFresh
  BY AccessAssumption DEF RequestsFresh
<1>6. OwnerAuthenticated /\ ConfirmedByEntitled
  BY DEF OwnerAuthenticated, ConfirmedByEntitled
<1> QED
  BY <1>2, <1>3, <1>4, <1>5, <1>6 DEF IInv

-----------------------------------------------------------------------------
(* Time and the table of users.                                            *)
LEMMA TickStep ==
  ASSUME TypeOK, Accepted, Tick
  PROVE  TypeOK' /\ Accepted'
<1> USE AccessAssumption
<1>1. login' \in [Clients -> Login \cup {None}]
  <2>1. \A c \in Clients : login[c] # None =>
          login[c] \in Login /\ login[c].age + 1 \in 0..MaxLogin
    BY DEF TypeOK, Tick, Login
  <2> QED
    BY <2>1 DEF Tick, Login
<1>2. wallet' \in [Clients -> SUBSET Token]
  BY OlderToken DEF TypeOK, Tick
<1>3. lapsed' \in [Users -> [Roles -> 0..Lag]]
  <2>1. Lag \in Nat
    BY DEF Lag
  <2>2. ASSUME NEW u \in Users, NEW r \in Roles
        PROVE  (IF roleOf[u] = r THEN 0 ELSE IF lapsed[u][r] = Lag THEN Lag ELSE lapsed[u][r] + 1)
                 \in 0..Lag
    <3>1. lapsed[u][r] \in 0..Lag
      BY DEF TypeOK
    <3> QED
      BY <2>1, <3>1
  <2> QED
    BY <2>2 DEF Tick
<1>4. TypeOK'
  BY <1>1, <1>2, <1>3 DEF TypeOK, Tick, rows
<1>5. RolesDated'
  BY DEF Accepted, RolesDated, Tick, TypeOK
<1>6. ASSUME NEW u \in Users, NEW r \in Roles
      PROVE  /\ lapsed[u][r] \in 0..Lag /\ lapsed'[u][r] \in 0..Lag
             /\ lapsed'[u][r] <= lapsed[u][r] + 1
  BY <1>3 DEF TypeOK, Tick, Lag
<1>7. LoginsFresh'
  <2>1. SUFFICES ASSUME NEW c \in Clients, login'[c] # None
                 PROVE  /\ <<c, login'[c].sub>> \in Knows
                        /\ lapsed'[login'[c].sub][login'[c].role] <= login'[c].age
                        /\ login'[c].role = "admin" => login'[c].sub \in admins'
    BY DEF LoginsFresh
  <2>2. login[c] # None /\ login'[c] = [login[c] EXCEPT !.age = @ + 1] /\ admins' = admins
    BY <2>1 DEF Tick
  <2>3. login[c] \in Login
    BY <2>2 DEF TypeOK
  <2>4. /\ login'[c].sub = login[c].sub /\ login'[c].role = login[c].role
        /\ login'[c].age = login[c].age + 1
        /\ login[c].sub \in Users /\ login[c].role \in Roles /\ login[c].age \in Nat
    BY <2>2, <2>3 DEF Login
  <2>5. /\ <<c, login[c].sub>> \in Knows
        /\ lapsed[login[c].sub][login[c].role] <= login[c].age
        /\ login[c].role = "admin" => login[c].sub \in admins
    BY <2>2 DEF Accepted, LoginsFresh
  <2>6. lapsed'[login[c].sub][login[c].role] <= login[c].age + 1
    BY <1>6, <2>4, <2>5
  <2> QED
    BY <2>2, <2>4, <2>5, <2>6
<1>8. TokensFresh'
  <2>1. SUFFICES ASSUME NEW c \in Clients, NEW s \in wallet'[c]
                 PROVE  /\ <<c, s.sub>> \in Knows
                        /\ lapsed'[s.sub][s.role] + s.left <= Lag
                        /\ s.role = "admin" => s.sub \in admins'
    BY DEF TokensFresh
  <2>2. PICK t \in wallet[c] : s = Older(t)
    BY DEF Tick
  <2>3. t \in Token
    BY DEF TypeOK
  <2>4. /\ s.sub = t.sub /\ s.role = t.role /\ t.sub \in Users /\ t.role \in Roles
        /\ t.left \in 0..TTL /\ s.left = IF t.left = 0 THEN 0 ELSE t.left - 1
    BY <2>2, <2>3, OlderToken DEF Token
  <2>5. /\ <<c, t.sub>> \in Knows
        /\ lapsed[t.sub][t.role] + t.left <= Lag
        /\ t.role = "admin" => t.sub \in admins
    BY DEF Accepted, TokensFresh
  <2>6. lapsed'[t.sub][t.role] + s.left <= Lag
    BY <1>6, <2>4, <2>5 DEF Lag
  <2> QED
    BY <2>4, <2>5, <2>6 DEF Tick
<1> QED
  BY <1>4, <1>5, <1>7, <1>8 DEF Accepted

(* A change of a user's row starts the time for which its old role may     *)
(* still be believed.                                                      *)
LEMMA ChangeUserStep ==
  ASSUME TypeOK, Accepted, NEW u \in Users, ChangeUser(u)
  PROVE  TypeOK' /\ Accepted'
<1> USE AccessAssumption
<1>1. roleOf' \in [Users -> Roles \cup {None}]
  BY DEF TypeOK, ChangeUser
<1>2. lapsed' \in [Users -> [Roles -> 0..Lag]]
  BY DEF TypeOK, ChangeUser, Lag
<1>3. admins' \subseteq Users /\ admins \subseteq admins'
  BY DEF TypeOK, ChangeUser, AdminsOf
<1>4. TypeOK'
  BY <1>1, <1>2, <1>3 DEF TypeOK, ChangeUser, sessions, rows
<1>5. ASSUME NEW v \in Users, NEW r \in Roles
      PROVE  /\ lapsed[v][r] \in Nat /\ lapsed'[v][r] \in Nat
             /\ lapsed'[v][r] <= lapsed[v][r]
             /\ roleOf'[v] = r => lapsed'[v][r] = 0
  <2>1. lapsed[v][r] \in Nat /\ lapsed'[v][r] \in Nat
    BY <1>2 DEF TypeOK, Lag
  <2>2. CASE v = u
    BY <2>1, <2>2 DEF TypeOK, ChangeUser
  <2>3. CASE v # u
    <3>1. lapsed'[v] = lapsed[v] /\ roleOf'[v] = roleOf[v]
      BY <2>3 DEF TypeOK, ChangeUser
    <3>2. roleOf[v] = r => lapsed[v][r] = 0
      BY DEF Accepted, RolesDated
    <3> QED
      BY <2>1, <3>1, <3>2
  <2> QED
    BY <2>2, <2>3
<1>6. RolesDated'
  <2>1. \A v \in Users : roleOf'[v] = "admin" => v \in admins'
    BY DEF ChangeUser, AdminsOf
  <2> QED
    BY <1>1, <1>5, <2>1 DEF RolesDated
<1>7. login' = login /\ wallet' = wallet
  BY DEF ChangeUser, sessions
<1>8. LoginsFresh'
  <2>1. \A c \in Clients : login[c] # None =>
          login[c].sub \in Users /\ login[c].role \in Roles /\ login[c].age \in Nat
    BY DEF TypeOK, Login
  <2> QED
    BY <1>3, <1>5, <1>7, <2>1 DEF Accepted, LoginsFresh
<1>9. TokensFresh'
  <2>1. \A c \in Clients : \A t \in wallet[c] :
          t.sub \in Users /\ t.role \in Roles /\ t.left \in Nat
    BY DEF TypeOK, Token
  <2>2. ASSUME NEW c \in Clients, NEW t \in wallet[c]
        PROVE  /\ <<c, t.sub>> \in Knows
               /\ lapsed'[t.sub][t.role] + t.left <= Lag
               /\ t.role = "admin" => t.sub \in admins'
    <3>1. /\ <<c, t.sub>> \in Knows
          /\ lapsed[t.sub][t.role] + t.left <= Lag
          /\ t.role = "admin" => t.sub \in admins
      BY DEF Accepted, TokensFresh
    <3>2. lapsed'[t.sub][t.role] + t.left <= Lag
      BY <1>5, <2>1, <3>1 DEF Lag
    <3> QED
      BY <1>3, <3>1, <3>2
  <2> QED
    BY <1>7, <2>2 DEF TokensFresh
<1> QED
  BY <1>4, <1>6, <1>8, <1>9 DEF Accepted

-----------------------------------------------------------------------------
(* Logins.                                                                 *)
LEMMA ReadUserStep ==
  ASSUME TypeOK, Accepted, NEW c \in Clients, NEW u \in Users, ReadUser(c, u)
  PROVE  TypeOK' /\ Accepted'
<1> USE AccessAssumption
<1>1. roleOf[u] \in Roles
  BY DEF TypeOK, ReadUser
<1>2. [sub |-> u, role |-> roleOf[u], age |-> 0] \in Login
  BY <1>1 DEF Login
<1>3. TypeOK'
  BY <1>2 DEF TypeOK, ReadUser, people, rows
<1>4. RolesDated' /\ TokensFresh'
  BY DEF Accepted, RolesDated, TokensFresh, ReadUser, people
<1>5. LoginsFresh'
  <2>1. SUFFICES ASSUME NEW d \in Clients, login'[d] # None
                 PROVE  /\ <<d, login'[d].sub>> \in Knows
                        /\ lapsed'[login'[d].sub][login'[d].role] <= login'[d].age
                        /\ login'[d].role = "admin" => login'[d].sub \in admins'
    BY DEF LoginsFresh
  <2>2. lapsed' = lapsed /\ admins' = admins
    BY DEF ReadUser, people
  <2>3. CASE d = c
    <3>1. login'[d] = [sub |-> u, role |-> roleOf[u], age |-> 0]
      BY <2>3 DEF ReadUser, TypeOK
    <3>2. <<c, u>> \in Knows
      BY DEF ReadUser, PasswordMatches
    <3>3. lapsed[u][roleOf[u]] = 0 /\ (roleOf[u] = "admin" => u \in admins)
      BY DEF Accepted, RolesDated, ReadUser
    <3> QED
      BY <2>2, <2>3, <3>1, <3>2, <3>3
  <2>4. CASE d # c
    BY <2>1, <2>2, <2>4 DEF Accepted, LoginsFresh, ReadUser, TypeOK
  <2> QED
    BY <2>3, <2>4
<1> QED
  BY <1>3, <1>4, <1>5 DEF Accepted

(* A token is signed with the role that was read before it, which is stale *)
(* by no more than the login took.                                         *)
LEMMA IssueTokenStep ==
  ASSUME TypeOK, Accepted, NEW c \in Clients, IssueToken(c)
  PROVE  TypeOK' /\ Accepted'
<1> USE AccessAssumption
<1> DEFINE new == [sub |-> login[c].sub, role |-> login[c].role, left |-> TTL]
<1>1. login[c] \in Login
  BY DEF TypeOK, IssueToken
<1>2. /\ login[c].sub \in Users /\ login[c].role \in Roles /\ login[c].age \in 0..MaxLogin
      /\ new \in Token
  BY <1>1 DEF Login, Token
<1>3. login' = [login EXCEPT ![c] = None] /\ wallet' = [wallet EXCEPT ![c] = @ \cup {new}]
  BY DEF IssueToken
<1>4. /\ <<c, new.sub>> \in Knows
      /\ lapsed[new.sub][new.role] <= login[c].age
      /\ new.role = "admin" => new.sub \in admins
  BY DEF Accepted, LoginsFresh, IssueToken
<1>5. lapsed[new.sub][new.role] + new.left <= Lag
  <2>1. lapsed[new.sub][new.role] \in 0..Lag
    BY <1>2 DEF TypeOK
  <2> QED
    BY <1>2, <1>4, <2>1 DEF Lag
<1> HIDE DEF new
<1>6. TypeOK'
  <2>1. wallet' \in [Clients -> SUBSET Token]
    BY <1>2, <1>3 DEF TypeOK
  <2>2. login' \in [Clients -> Login \cup {None}]
    BY <1>3 DEF TypeOK
  <2> QED
    BY <2>1, <2>2 DEF TypeOK, IssueToken, people, rows
<1>7. lapsed' = lapsed /\ admins' = admins /\ roleOf' = roleOf
  BY DEF IssueToken, people
<1>8. RolesDated'
  BY <1>7 DEF Accepted, RolesDated
<1>9. LoginsFresh'
  BY <1>3, <1>7 DEF Accepted, LoginsFresh, TypeOK
<1>10. TokensFresh'
  <2>1. SUFFICES ASSUME NEW d \in Clients, NEW t \in wallet'[d]
                 PROVE  /\ <<d, t.sub>> \in Knows
                        /\ lapsed[t.sub][t.role] + t.left <= Lag
                        /\ t.role = "admin" => t.sub \in admins
    BY <1>7 DEF TokensFresh
  <2>2. t \in wallet[d] \/ (d = c /\ t = new)
    BY <1>3 DEF TypeOK
  <2>3. CASE t \in wallet[d]
    BY <2>3 DEF Accepted, TokensFresh
  <2>4. CASE d = c /\ t = new
    BY <2>4, <1>4, <1>5
  <2> QED
    BY <2>2, <2>3, <2>4
<1> QED
  BY <1>6, <1>8, <1>9, <1>10 DEF Accepted

-----------------------------------------------------------------------------
(* Requests.  None of their steps touches the users or the sessions.       *)
LEMMA Untouched ==
  ASSUME Accepted, UNCHANGED <<people, sessions>>
  PROVE  Accepted'
  BY DEF Accepted, RolesDated, LoginsFresh, TokensFresh, people, sessions

(* What a step of the users or the sessions leaves of the requests.        *)
LEMMA RequestsKept ==
  ASSUME Handled, admins \subseteq admins', UNCHANGED <<request, rows>>
  PROVE  Handled'
<1>1. request' = request /\ owner' = owner /\ maker' = maker /\ confirmer' = confirmer
  BY DEF rows
<1> QED
  BY <1>1 DEF Handled, RequestsFresh, OwnerAuthenticated, ConfirmedByEntitled

(* An answer, or nothing, in the place of a request.                       *)
LEMMA RequestClosed ==
  ASSUME TypeOK, RequestsFresh, NEW r \in Requests, NEW x, x \in Answer \cup {None},
         request' = [request EXCEPT ![r] = x], admins' = admins
  PROVE  /\ request' \in [Requests -> Open \cup Answer \cup {None}]
         /\ RequestsFresh'
<1>1. x \notin Open
  BY AccessAssumption, AnswerNotOpen DEF Answer
<1>2. request' \in [Requests -> Open \cup Answer \cup {None}]
  BY DEF TypeOK
<1>3. \A p \in Requests : request'[p] \in Open => request'[p] = request[p] /\ request[p] \in Open
  BY <1>1 DEF TypeOK
<1> QED
  BY <1>2, <1>3 DEF RequestsFresh

(* A request that is opened with a role its user has keeps the invariant.  *)
LEMMA RequestOpened ==
  ASSUME TypeOK, RequestsFresh, NEW r \in Requests, NEW q \in Open,
         request' = [request EXCEPT ![r] = q], admins' = admins,
         q.user # None => <<q.client, q.user>> \in Knows,
         q.role = "admin" => q.user \in admins /\ q.user # None,
         RolesOf(q.route) # {} => q.user # None
  PROVE  /\ request' \in [Requests -> Open \cup Answer \cup {None}]
         /\ RequestsFresh'
<1>1. request' \in [Requests -> Open \cup Answer \cup {None}]
  BY DEF TypeOK
<1>2. \A p \in Requests : request'[p] = q \/ request'[p] = request[p]
  BY DEF TypeOK
<1> QED
  BY <1>1, <1>2 DEF RequestsFresh

(* A request that arrives is given the user and the role of its token.     *)
LEMMA ArrivesStep ==
  ASSUME TypeOK, Accepted, Handled, NEW r \in Requests, Arrives(r)
  PROVE  TypeOK' /\ Handled' /\ UNCHANGED <<people, sessions>>
<1> USE AccessAssumption
<1>1. UNCHANGED <<people, sessions, rows>>
  BY DEF Arrives, ArrivesPublic, NotAuthenticated, Authenticated
<1>2. request' \in [Requests -> Open \cup Answer \cup {None}] /\ RequestsFresh'
  <2>0. admins' = admins /\ RequestsFresh
    BY <1>1 DEF people, Handled
  <2>1. ASSUME NEW c \in Clients, NEW route \in Served, ArrivesPublic(r, c, route)
        PROVE  request' \in [Requests -> Open \cup Answer \cup {None}] /\ RequestsFresh'
    <3> DEFINE q == [client |-> c, route |-> route, user |-> None, role |-> None]
    <3>1. q \in Open /\ q.user = None /\ q.role = None /\ q.route = route
      BY DEF Open
    <3>2. request' = [request EXCEPT ![r] = q] /\ RolesOf(route) = {}
      BY <2>1 DEF ArrivesPublic
    <3>3. None # "admin"
      BY DEF Roles
    <3> HIDE DEF q
    <3> QED
      BY <2>0, <3>1, <3>2, <3>3, RequestOpened
  <2>2. ASSUME NEW route \in Served, NotAuthenticated(r, route)
        PROVE  request' \in [Requests -> Open \cup Answer \cup {None}] /\ RequestsFresh'
    <3>1. [status |-> Status("unauthorized")] \in Answer
      BY StatusAnswered
    <3> QED
      BY <2>0, <2>2, <3>1, RequestClosed DEF NotAuthenticated, Replying
  <2>3. ASSUME NEW c \in Clients, NEW route \in Served, NEW t \in wallet[c],
               Authenticated(r, c, route, t)
        PROVE  request' \in [Requests -> Open \cup Answer \cup {None}] /\ RequestsFresh'
    <3> DEFINE q == [client |-> c, route |-> route, user |-> t.sub, role |-> t.role]
    <3>1. t \in Token /\ <<c, t.sub>> \in Knows /\ (t.role = "admin" => t.sub \in admins)
      BY DEF TypeOK, Accepted, TokensFresh
    <3>2. /\ q \in Open /\ q.user = t.sub /\ q.role = t.role /\ q.client = c
          /\ t.sub \in Users
      BY <3>1 DEF Open, Token
    <3>3. CASE t.role \in RolesOf(route)
      <4>1. request' = [request EXCEPT ![r] = q]
        BY <2>3, <3>3 DEF Authenticated
      <4> HIDE DEF q
      <4> QED
        BY <2>0, <3>1, <3>2, <4>1, RequestOpened
    <3>4. CASE t.role \notin RolesOf(route)
      <4>1. [status |-> Status("forbidden")] \in Answer
        BY StatusAnswered
      <4>2. request' = [request EXCEPT ![r] = [status |-> Status("forbidden")]]
        BY <2>3, <3>4 DEF Authenticated
      <4> QED
        BY <2>0, <4>1, <4>2, RequestClosed
    <3> QED
      BY <3>3, <3>4
  <2> QED
    BY <2>1, <2>2, <2>3 DEF Arrives
<1>3. TypeOK'
  BY <1>1, <1>2 DEF TypeOK, people, sessions, rows
<1>4. OwnerAuthenticated' /\ ConfirmedByEntitled'
  BY <1>1 DEF Handled, OwnerAuthenticated, ConfirmedByEntitled, people, rows
<1> QED
  BY <1>1, <1>2, <1>3, <1>4 DEF Handled

(* Steps that only answer.                                                 *)
LEMMA ClosingStep ==
  ASSUME TypeOK, Handled, NEW r \in Requests, NEW x \in Answer \cup {None},
         request' = [request EXCEPT ![r] = x], UNCHANGED <<people, sessions, rows>>
  PROVE  TypeOK' /\ Handled'
<1>1. request' \in [Requests -> Open \cup Answer \cup {None}] /\ RequestsFresh'
  BY RequestClosed DEF Handled, people
<1>2. TypeOK'
  BY <1>1 DEF TypeOK, people, sessions, rows
<1>3. OwnerAuthenticated' /\ ConfirmedByEntitled'
  BY DEF Handled, OwnerAuthenticated, ConfirmedByEntitled, people, rows
<1> QED
  BY <1>1, <1>2, <1>3 DEF Handled

(* A booking is made for the user of the request.                          *)
LEMMA BookStep ==
  ASSUME TypeOK, Handled, NEW r \in Requests, NEW b \in Bookings, Book(r, b)
  PROVE  TypeOK' /\ Handled' /\ UNCHANGED <<people, sessions>>
<1> USE AccessAssumption
<1> DEFINE q == request[r]
<1>1. q \in Open /\ q.route = "book"
  BY DEF Book, InHandler
<1>2. q.user \in Users /\ q.client \in Clients /\ <<q.client, q.user>> \in Knows
  <2>1. RolesOf("book") # {}
    BY DEF RolesOf
  <2>2. q.user # None /\ <<q.client, q.user>> \in Knows
    BY <1>1, <2>1 DEF Handled, RequestsFresh
  <2> QED
    BY <1>1, <2>2 DEF Open
<1>3. /\ owner' = [owner EXCEPT ![b] = q.user] /\ maker' = [maker EXCEPT ![b] = q.client]
      /\ UNCHANGED <<people, sessions, confirmer>> /\ owner[b] = None
      /\ request' = [request EXCEPT ![r] = [status |-> Status("created")]]
  BY DEF Book, OwnersFor, Replying
<1>4. request' \in [Requests -> Open \cup Answer \cup {None}] /\ RequestsFresh'
  <2>1. [status |-> Status("created")] \in Answer
    BY StatusAnswered
  <2> QED
    BY <1>3, <2>1, RequestClosed DEF Handled, people
<1> HIDE DEF q
<1>5. TypeOK'
  <2>1. owner' \in [Bookings -> Users \cup {None}] /\ maker' \in [Bookings -> Clients \cup {None}]
    BY <1>2, <1>3 DEF TypeOK
  <2> QED
    BY <1>3, <1>4, <2>1 DEF TypeOK, people, sessions
<1>6. OwnerAuthenticated'
  BY <1>2, <1>3 DEF TypeOK, Handled, OwnerAuthenticated
<1>7. ConfirmedByEntitled'
  <2>1. SUFFICES ASSUME NEW d \in Bookings, confirmer'[d] # None
                 PROVE  \E u \in admins' \cup {owner'[d]} : <<confirmer'[d], u>> \in Knows
    BY DEF ConfirmedByEntitled
  <2>2. PICK u \in admins \cup {owner[d]} : <<confirmer[d], u>> \in Knows
    BY <1>3, <2>1 DEF Handled, ConfirmedByEntitled
  <2>3. d = b => u \in admins
    BY <1>3, <2>2
  <2> QED
    BY <1>3, <2>2, <2>3 DEF TypeOK, people
<1> QED
  BY <1>3, <1>4, <1>5, <1>6, <1>7 DEF Handled

(* A booking is confirmed for its owner or for an administrator.           *)
LEMMA ConfirmStep ==
  ASSUME TypeOK, Handled, NEW r \in Requests, NEW b \in Bookings, Confirm(r, b)
  PROVE  TypeOK' /\ Handled' /\ UNCHANGED <<people, sessions>>
<1> USE AccessAssumption
<1> DEFINE q == request[r]
<1>1. q \in Open /\ q.route = "confirm" /\ UNCHANGED <<people, sessions, owner, maker>>
  BY DEF Confirm, InHandler
<1>2. CASE MayConfirm(q, b)
  <2>1. /\ confirmer' = [confirmer EXCEPT ![b] = IF @ = None THEN q.client ELSE @]
        /\ request' = [request EXCEPT ![r] = [status |-> Status("ok")]]
    BY <1>2 DEF Confirm, Replying
  <2>2. [status |-> Status("ok")] \in Answer
    BY StatusAnswered
  <2>3. request' \in [Requests -> Open \cup Answer \cup {None}] /\ RequestsFresh'
    BY <1>1, <2>1, <2>2, RequestClosed DEF Handled, people
  <2>4. /\ q.client \in Clients
        /\ \E u \in admins \cup {owner[b]} : <<q.client, u>> \in Knows
    <3>1. RolesOf("confirm") # {}
      BY DEF RolesOf
    <3>2. /\ q.user # None /\ <<q.client, q.user>> \in Knows
          /\ q.role = "admin" => q.user \in admins
      BY <1>1, <3>1 DEF Handled, RequestsFresh
    <3> QED
      BY <1>1, <1>2, <3>2 DEF MayConfirm, Open
  <2> HIDE DEF q
  <2>5. TypeOK'
    BY <1>1, <2>1, <2>3, <2>4 DEF TypeOK, people, sessions
  <2>6. OwnerAuthenticated'
    BY <1>1 DEF Handled, OwnerAuthenticated
  <2>7. ConfirmedByEntitled'
    BY <1>1, <2>1, <2>4 DEF TypeOK, Handled, ConfirmedByEntitled, people
  <2> QED
    BY <1>1, <2>3, <2>5, <2>6, <2>7 DEF Handled
<1>3. CASE ~MayConfirm(q, b)
  <2>1. [status |-> Status("forbidden")] \in Answer
    BY StatusAnswered
  <2>2. /\ request' = [request EXCEPT ![r] = [status |-> Status("forbidden")]]
        /\ UNCHANGED <<people, sessions, rows>>
    BY <1>1, <1>3 DEF Confirm, Replying, rows
  <2> QED
    BY <2>1, <2>2, ClosingStep
<1> QED
  BY <1>2, <1>3

(* A refusal and an answer touch neither users nor sessions.               *)
LEMMA HandleStep ==
  ASSUME TypeOK, Handled, NEW r \in Requests, Handle(r) \/ Reply(r)
  PROVE  TypeOK' /\ Handled' /\ UNCHANGED <<people, sessions>>
<1>1. ASSUME NEW route \in Served, Refuse(r, route)
      PROVE  TypeOK' /\ Handled' /\ UNCHANGED <<people, sessions>>
  <2>1. PICK e \in Refusals(route) : Replying(r, e)
    BY <1>1 DEF Refuse
  <2>2. [status |-> Status(e)] \in Answer
    BY StatusAnswered
  <2> QED
    BY <1>1, <2>1, <2>2, ClosingStep DEF Refuse, Replying
<1>2. ASSUME Serve(r)
      PROVE  TypeOK' /\ Handled' /\ UNCHANGED <<people, sessions>>
  <2>1. PICK e : Replying(r, e)
    BY <1>2 DEF Serve
  <2>2. [status |-> Status(e)] \in Answer
    BY StatusAnswered
  <2> QED
    BY <1>2, <2>1, <2>2, ClosingStep DEF Serve, Replying
<1>3. ASSUME Reply(r)
      PROVE  TypeOK' /\ Handled' /\ UNCHANGED <<people, sessions>>
  BY <1>3, ClosingStep DEF Reply
<1> QED
  BY <1>1, <1>2, <1>3, BookStep, ConfirmStep DEF Handle

-----------------------------------------------------------------------------
LEMMA InvStep ==
  ASSUME IInv, [Next]_vars
  PROVE  IInv'
<1>0. TypeOK /\ Accepted /\ Handled
  BY DEF IInv, Accepted, Handled
<1>1. SUFFICES TypeOK' /\ Accepted' /\ Handled'
  BY DEF IInv, Accepted, Handled
<1>2. CASE Tick
  BY <1>0, <1>2, TickStep, RequestsKept DEF Tick
<1>3. ASSUME NEW u \in Users, ChangeUser(u) PROVE TypeOK' /\ Accepted' /\ Handled'
  BY <1>0, <1>3, ChangeUserStep, RequestsKept DEF ChangeUser
<1>4. ASSUME NEW c \in Clients, NEW u \in Users, ReadUser(c, u)
      PROVE  TypeOK' /\ Accepted' /\ Handled'
  BY <1>0, <1>4, ReadUserStep, RequestsKept DEF ReadUser, people
<1>5. ASSUME NEW c \in Clients, IssueToken(c) PROVE TypeOK' /\ Accepted' /\ Handled'
  BY <1>0, <1>5, IssueTokenStep, RequestsKept DEF IssueToken, people
<1>6. ASSUME NEW r \in Requests, Arrives(r) PROVE TypeOK' /\ Accepted' /\ Handled'
  BY <1>0, <1>6, ArrivesStep, Untouched
<1>7. ASSUME NEW r \in Requests, Handle(r) \/ Reply(r) PROVE TypeOK' /\ Accepted' /\ Handled'
  BY <1>0, <1>7, HandleStep, Untouched
<1>8. CASE UNCHANGED vars
  <2>1. TypeOK'
    BY <1>0, <1>8 DEF TypeOK, vars, people, sessions, rows
  <2> QED
    BY <1>0, <1>8, <2>1, Untouched, RequestsKept DEF vars, people
<1> QED
  BY <1>2, <1>3, <1>4, <1>5, <1>6, <1>7, <1>8 DEF Next

(* The inductive invariant holds in every reachable state.                 *)
THEOREM AccessInvariance == Spec => []IInv
<1>1. Init => IInv
  BY InitInv
<1>2. IInv /\ [Next]_vars => IInv'
  BY InvStep
<1> QED
  BY <1>1, <1>2, PTL DEF Spec

(* Every booking's owner is a user whose password its maker knows.         *)
THEOREM OwnersAuthenticated == Spec => []OwnerAuthenticated
<1>1. IInv => OwnerAuthenticated
  BY DEF IInv
<1> QED
  BY <1>1, AccessInvariance, PTL

(* Every confirmation comes from a client that knows the password of the   *)
(* owner or of somebody who has been an administrator.                     *)
THEOREM ConfirmationsEntitled == Spec => []ConfirmedByEntitled
<1>1. IInv => ConfirmedByEntitled
  BY DEF IInv
<1> QED
  BY <1>1, AccessInvariance, PTL

(* RequireRole lets nobody in with a role lost Lag ago or earlier.         *)
THEOREM AdmissionsFresh == Spec => RoleNotStale
<1>1. ASSUME IInv, [Next]_vars, NEW r \in Requests, Admitted(r)
      PROVE  lapsed[request'[r].user][request'[r].role] < Lag
  <2>0. TypeOK /\ request[r] = None /\ request'[r] \in Open /\ request'[r].user # None
    BY <1>1 DEF IInv, Admitted
  <2>1. None \notin Open
    BY AccessAssumption
  <2>2. ~ UNCHANGED request
    BY <2>0, <2>1
  <2>3. PICK p \in Requests : Arrives(p) \/ Handle(p) \/ Reply(p)
    BY <1>1, <2>2 DEF Next, vars, Tick, ChangeUser, ReadUser, IssueToken
  <2>4. ~Handle(p) /\ ~Reply(p)
    <3>1. \A x : request' = [request EXCEPT ![p] = x] => r = p /\ x = request'[r]
      BY <2>0, <2>1 DEF TypeOK
    <3>2. ASSUME NEW e, Replying(p, e) PROVE FALSE
      BY <2>0, <3>1, <3>2, AnswerNotOpen DEF Replying
    <3>3. ~Reply(p)
      BY <2>0, <2>1, <3>1 DEF Reply
    <3>4. ~Handle(p)
      BY <3>2 DEF Handle, Refuse, Serve, Book, Confirm
    <3> QED
      BY <3>3, <3>4
  <2>5. PICK c \in Clients, route \in Served :
          \/ ArrivesPublic(p, c, route)
          \/ NotAuthenticated(p, route)
          \/ \E t \in wallet[c] : Authenticated(p, c, route, t)
    BY <2>3, <2>4 DEF Arrives
  <2>6. \A x : request' = [request EXCEPT ![p] = x] => x = request'[r]
    BY <2>0, <2>1 DEF TypeOK
  <2>7. ~ArrivesPublic(p, c, route)
    BY <2>0, <2>6 DEF ArrivesPublic
  <2>8. ~NotAuthenticated(p, route)
    BY <2>0, <2>6, AnswerNotOpen DEF NotAuthenticated, Replying
  <2>9. PICK t \in wallet[c] : Authenticated(p, c, route, t)
    BY <2>5, <2>7, <2>8
  <2>10. request'[r].user = t.sub /\ request'[r].role = t.role
    <3>1. CASE t.role \in RolesOf(route)
      <4>1. request' = [request EXCEPT ![p] =
              [client |-> c, route |-> route, user |-> t.sub, role |-> t.role]]
        BY <2>9, <3>1 DEF Authenticated
      <4>2. request'[r] = [client |-> c, route |-> route, user |-> t.sub, role |-> t.role]
        BY <2>6, <4>1
      <4> QED
        BY <4>2
    <3>2. CASE t.role \notin RolesOf(route)
      BY <2>0, <2>6, <2>9, <3>2, AnswerNotOpen DEF Authenticated
    <3> QED
      BY <3>1, <3>2
  <2>11. lapsed[t.sub][t.role] + t.left <= Lag /\ t \in Token /\ t.left > 0
    BY <1>1, <2>0, <2>9 DEF IInv, TokensFresh, TypeOK, Authenticated, Valid
  <2>12. lapsed[t.sub][t.role] \in 0..Lag /\ t.left \in 0..TTL
    BY <2>0, <2>11 DEF TypeOK, Token
  <2> QED
    BY <2>10, <2>11, <2>12, AccessAssumption DEF Lag
<1>2. IInv /\ [Next]_vars =>
        [\A r \in Requests :
           Admitted(r) => lapsed[request'[r].user][request'[r].role] < Lag]_vars
  BY <1>1
<1> QED
  BY <1>2, AccessInvariance, PTL DEF Spec, RoleNotStale
=============================================================================
