------------------------------- MODULE Access -------------------------------
(***************************************************************************)
(* Who may do what over HTTP: logins, the tokens they issue, RequireRole,  *)
(* and what the handlers make of the user and the role in a token.         *)
(*                                                                         *)
(* A token is believed until it expires; the table of users is only asked  *)
(* at a login.  So an operator may change the table at any time (no code   *)
(* of the service does), and a login and a request are taken apart into    *)
(* the steps between which that can happen.  Time is kept as ages and      *)
(* remaining lives, which one Tick moves, so that it needs no bound.       *)
(***************************************************************************)
EXTENDS Naturals, FiniteSets

CONSTANTS
  Clients,    \* people or programs that call the API
  Users,      \* usernames
  Knows,      \* which client knows the password of which user
  Served,     \* the routes that are called
  Requests,   \* the requests under way at a time
  Bookings,   \* identifiers of bookings
  None,       \* nothing, where a value may be missing
  TTL,        \* APP_AUTH_TOKEN_TTL
  MaxLogin    \* bound on the time a login takes between its two steps

Roles  == {"admin", "user"}
Routes == {"events", "event", "event_bookings", "my_bookings", "create", "book", "confirm"}

Lag == MaxLogin + TTL

Statuses == {200, 201, 400, 401, 403, 404, 409, 500}

Login  == [sub : Users, role : Roles, age : 0..MaxLogin]
Token  == [sub : Users, role : Roles, left : 0..TTL]
Open   == [client : Clients, route : Routes, user : Users \cup {None}, role : Roles \cup {None}]
Answer == [status : Statuses]

ASSUME AccessAssumption ==
  /\ Knows \subseteq Clients \X Users
  /\ Served \subseteq Routes
  /\ None \notin Clients \cup Users \cup Roles \cup Login \cup Open \cup Answer
  /\ TTL \in Nat \ {0} /\ MaxLogin \in Nat

VARIABLES
  roleOf,    \* the table of users; None where there is no row
  lapsed,    \* how long ago each user last had each role, up to Lag
  admins,    \* the users that have ever been administrators
  login,     \* the row each client's login has read, until it is answered
  wallet,    \* the tokens each client was given
  request,   \* the requests in a handler, and the answers on their way
  owner,     \* owner_username of the bookings
  maker,     \* the client that made each booking
  confirmer  \* the client that confirmed each booking

people   == <<roleOf, lapsed, admins>>
sessions == <<login, wallet>>
rows     == <<owner, maker, confirmer>>
vars     == <<people, sessions, request, rows>>

TypeOK ==
  /\ roleOf \in [Users -> Roles \cup {None}]
  /\ lapsed \in [Users -> [Roles -> 0..Lag]]
  /\ admins \subseteq Users
  /\ login \in [Clients -> Login \cup {None}]
  /\ wallet \in [Clients -> SUBSET Token]
  /\ request \in [Requests -> Open \cup Answer \cup {None}]
  /\ owner \in [Bookings -> Users \cup {None}]
  /\ maker \in [Bookings -> Clients \cup {None}]
  /\ confirmer \in [Bookings -> Clients \cup {None}]

AdminsOf(table) == {u \in Users : table[u] = "admin"}

Init ==
  /\ roleOf \in [Users -> Roles \cup {None}]
  /\ lapsed = [u \in Users |-> [r \in Roles |-> IF roleOf[u] = r THEN 0 ELSE Lag]]
  /\ admins = AdminsOf(roleOf)
  /\ login = [c \in Clients |-> None]
  /\ wallet = [c \in Clients |-> {}]
  /\ request = [r \in Requests |-> None]
  /\ owner = [b \in Bookings |-> None]
  /\ maker = [b \in Bookings |-> None]
  /\ confirmer = [b \in Bookings |-> None]

-----------------------------------------------------------------------------
(* What is left until the ExpiresAt of a token.                            *)
Bug_TokensKeepForEver(t) == t
Older(t) == [t EXCEPT !.left = IF @ = 0 THEN 0 ELSE @ - 1]

(* Time passes; a login never takes longer than MaxLogin.                  *)
Tick ==
  /\ \A c \in Clients : login[c] # None => login[c].age < MaxLogin
  /\ login' = [c \in Clients |->
       IF login[c] = None THEN None ELSE [login[c] EXCEPT !.age = @ + 1]]
  /\ wallet' = [c \in Clients |-> {Older(t) : t \in wallet[c]}]
  /\ lapsed' = [u \in Users |-> [r \in Roles |->
       IF roleOf[u] = r THEN 0 ELSE IF lapsed[u][r] = Lag THEN Lag ELSE lapsed[u][r] + 1]]
  /\ UNCHANGED <<roleOf, admins, request, rows>>

(* An operator inserts, updates or deletes a row of users.                 *)
ChangeUser(u) ==
  /\ \E r \in (Roles \cup {None}) \ {roleOf[u]} : roleOf' = [roleOf EXCEPT ![u] = r]
  /\ lapsed' = [lapsed EXCEPT ![u] = [r \in Roles |-> IF roleOf'[u] = r THEN 0 ELSE @[r]]]
  /\ admins' = admins \cup AdminsOf(roleOf')
  /\ UNCHANGED <<sessions, request, rows>>

(* Login reads the row; without one, or with a wrong password, it is       *)
(* answered 401 and nothing changes.                                       *)
Bug_AnyPassword(c, u) == TRUE
PasswordMatches(c, u) == <<c, u>> \in Knows

ReadUser(c, u) ==
  /\ login[c] = None
  /\ roleOf[u] # None
  /\ PasswordMatches(c, u)
  /\ login' = [login EXCEPT ![c] = [sub |-> u, role |-> roleOf[u], age |-> 0]]
  /\ UNCHANGED <<people, wallet, request, rows>>

(* After bcrypt's comparison it signs what it has read.                    *)
IssueToken(c) ==
  /\ login[c] # None
  /\ wallet' = [wallet EXCEPT ![c] =
       @ \cup {[sub |-> login[c].sub, role |-> login[c].role, left |-> TTL]}]
  /\ login' = [login EXCEPT ![c] = None]
  /\ UNCHANGED <<people, request, rows>>

-----------------------------------------------------------------------------
(* The roles a route asks for; a route that asks for none is public.       *)
RolesOf(route) ==
  CASE route \in {"create", "event_bookings"}       -> {"admin"}
    [] route \in {"my_bookings", "book", "confirm"} -> {"admin", "user"}
    [] OTHER                                        -> {}

(* handleError and writeJSON.  ErrInvalidState is not among the errors     *)
(* that handleError lists: like a failing statement it is answered 500,    *)
(* and so is a value of the client's that only the store refuses.          *)
Status(result) ==
  CASE result = "ok"                                       -> 200
    [] result = "created"                                  -> 201
    [] result \in {"event_not_found", "booking_not_found"} -> 404
    [] result \in {"no_seats", "expired", "not_pending", "already_booked", "event_started"} -> 409
    [] result \in {"bad_request", "invalid_title", "invalid_date", "invalid_capacity",
                   "invalid_user", "invalid_pagination"}   -> 400
    [] result = "unauthorized"                             -> 401
    [] result = "forbidden"                                -> 403
    [] OTHER                                               -> 500

Replying(r, result) == request' = [request EXCEPT ![r] = [status |-> Status(result)]]

(* A public route comes straight to its handler.                           *)
ArrivesPublic(r, c, route) ==
  /\ request[r] = None
  /\ RolesOf(route) = {}
  /\ request' = [request EXCEPT ![r] =
       [client |-> c, route |-> route, user |-> None, role |-> None]]
  /\ UNCHANGED <<people, sessions, rows>>

(* RequireRole: no token that Parse believes, 401; a role the route does   *)
(* not ask for, 403; otherwise the handler gets the claims of the token.   *)
Bug_NoExpiry(t) == TRUE
Valid(t) == t.left > 0

NotAuthenticated(r, route) ==
  /\ request[r] = None
  /\ RolesOf(route) # {}
  /\ Replying(r, "unauthorized")
  /\ UNCHANGED <<people, sessions, rows>>

Authenticated(r, c, route, t) ==
  /\ request[r] = None
  /\ RolesOf(route) # {}
  /\ Valid(t)
  /\ request' = [request EXCEPT ![r] =
       IF t.role \in RolesOf(route)
       THEN [client |-> c, route |-> route, user |-> t.sub, role |-> t.role]
       ELSE [status |-> Status("forbidden")]]
  /\ UNCHANGED <<people, sessions, rows>>

-----------------------------------------------------------------------------
(* What can come of the statements of a route: one that fails; a value     *)
(* that passes the checks of the service and that the store cannot hold,   *)
(* an offset above 2^63 - 1 or a text with a NUL; a unique index other     *)
(* than that of the active bookings.                                       *)
StoreErrors(route) ==
  UNION {
    {"statement_failed"},
    IF route \in {"events", "create", "book"}  THEN {"value_refused"} ELSE {},
    IF route \in {"create", "book", "confirm"} THEN {"invalid_state"} ELSE {}}

(* What can keep the handler of a route from doing what was asked.         *)
Refusals(route) ==
  StoreErrors(route) \cup
  CASE route = "events"                      -> {"bad_request", "invalid_pagination"}
    [] route \in {"event", "event_bookings"} -> {"bad_request", "event_not_found"}
    [] route = "my_bookings"                 -> {}
    [] route = "create"  -> {"bad_request", "invalid_title", "invalid_date", "invalid_capacity"}
    [] route = "book"    -> {"bad_request", "invalid_user", "event_not_found", "event_started",
                             "no_seats", "already_booked"}
    [] route = "confirm" -> {"bad_request", "event_not_found", "event_started",
                             "booking_not_found", "not_pending", "expired"}

InHandler(r, route) == request[r] \in Open /\ request[r].route = route

Refuse(r, route) ==
  /\ InHandler(r, route)
  /\ \E e \in Refusals(route) : Replying(r, e)
  /\ UNCHANGED <<people, sessions, rows>>

(* Reads, and CreateEvent, whose event no other operation here looks at.   *)
Serve(r) ==
  /\ \E route \in Routes \ {"book", "confirm"} :
       /\ InHandler(r, route)
       /\ Replying(r, IF route = "create" THEN "created" ELSE "ok")
  /\ UNCHANGED <<people, sessions, rows>>

(* Book's owner is the user of the token, whatever the body says.          *)
Bug_OwnerFromBody(q) == Users
OwnersFor(q) == {q.user}

Book(r, b) ==
  /\ InHandler(r, "book")
  /\ owner[b] = None
  /\ \E u \in OwnersFor(request[r]) : owner' = [owner EXCEPT ![b] = u]
  /\ maker' = [maker EXCEPT ![b] = request[r].client]
  /\ Replying(r, "created")
  /\ UNCHANGED <<people, sessions, confirmer>>

(* Confirm asks for the owner or an administrator; a booking that is       *)
(* confirmed already is answered like the first time.                      *)
Bug_AnyOwner(q, b) == TRUE
MayConfirm(q, b) == q.role = "admin" \/ owner[b] = q.user

Confirm(r, b) ==
  /\ InHandler(r, "confirm")
  /\ owner[b] # None
  /\ IF MayConfirm(request[r], b)
     THEN /\ confirmer' = [confirmer EXCEPT ![b] = IF @ = None THEN request[r].client ELSE @]
          /\ Replying(r, "ok")
     ELSE Replying(r, "forbidden") /\ UNCHANGED confirmer
  /\ UNCHANGED <<people, sessions, owner, maker>>

Reply(r) ==
  /\ request[r] \in Answer
  /\ request' = [request EXCEPT ![r] = None]
  /\ UNCHANGED <<people, sessions, rows>>

-----------------------------------------------------------------------------
Arrives(r) ==
  \E c \in Clients, route \in Served :
    \/ ArrivesPublic(r, c, route)
    \/ NotAuthenticated(r, route)
    \/ \E t \in wallet[c] : Authenticated(r, c, route, t)

Handle(r) ==
  \/ \E route \in Served : Refuse(r, route)
  \/ Serve(r)
  \/ \E b \in Bookings : Book(r, b) \/ Confirm(r, b)

Next ==
  \/ Tick
  \/ \E u \in Users : ChangeUser(u)
  \/ \E c \in Clients : IssueToken(c) \/ \E u \in Users : ReadUser(c, u)
  \/ \E r \in Requests : Arrives(r) \/ Handle(r) \/ Reply(r)

Spec == Init /\ [][Next]_vars

(* Time passes, a login that has begun ends, and so does a request.        *)
Fairness ==
  /\ WF_vars(Tick)
  /\ \A c \in Clients : WF_vars(IssueToken(c))
  /\ \A r \in Requests : WF_vars(Handle(r) \/ Reply(r))

LiveSpec == Spec /\ Fairness

-----------------------------------------------------------------------------
(* A booking belongs to a user whose password its maker knows: the owner   *)
(* comes from the login through the token and never from the request.      *)
OwnerAuthenticated ==
  \A b \in Bookings : owner[b] # None => <<maker[b], owner[b]>> \in Knows

(* A booking is confirmed by a client that knows the password of its owner *)
(* or of somebody who has been an administrator, however roles change and  *)
(* however old the token is.                                               *)
ConfirmedByEntitled ==
  \A b \in Bookings : confirmer[b] # None =>
    \E u \in admins \cup {owner[b]} : <<confirmer[b], u>> \in Knows

(* RequireRole believes a role that the table of users has taken away, but *)
(* never for as long as a login may take and a token lives.                *)
Admitted(r) == request[r] = None /\ request'[r] \in Open /\ request'[r].user # None

RoleNotStale ==
  [][\A r \in Requests :
       Admitted(r) => lapsed[request'[r].user][request'[r].role] < Lag]_vars

(* Whoever stops being an administrator for good stops acting as one,      *)
(* although no token is ever revoked.                                      *)
ActsAsAdmin(u) ==
  \E r \in Requests : request[r] \in Open /\ request[r].user = u /\ request[r].role = "admin"

DismissedLockedOut ==
  \A u \in Users : <>[](roleOf[u] # "admin") => <>[]~ActsAsAdmin(u)

-----------------------------------------------------------------------------
(* Why: what a login has read and what a token says was true not long ago, *)
(* and a client only ever has logins, tokens and requests of a user whose  *)
(* password it knows.                                                      *)
RolesDated ==
  \A u \in Users : roleOf[u] # None =>
    lapsed[u][roleOf[u]] = 0 /\ (roleOf[u] = "admin" => u \in admins)

LoginsFresh ==
  \A c \in Clients : login[c] # None =>
    /\ <<c, login[c].sub>> \in Knows
    /\ lapsed[login[c].sub][login[c].role] <= login[c].age
    /\ login[c].role = "admin" => login[c].sub \in admins

TokensFresh ==
  \A c \in Clients : \A t \in wallet[c] :
    /\ <<c, t.sub>> \in Knows
    /\ lapsed[t.sub][t.role] + t.left <= Lag
    /\ t.role = "admin" => t.sub \in admins

RequestsFresh ==
  \A r \in Requests : request[r] \in Open =>
    LET q == request[r]
    IN  /\ q.user # None => <<q.client, q.user>> \in Knows
        /\ q.role = "admin" => q.user \in admins /\ q.user # None
        /\ RolesOf(q.route) # {} => q.user # None

IInv ==
  /\ TypeOK
  /\ RolesDated
  /\ LoginsFresh
  /\ TokensFresh
  /\ RequestsFresh
  /\ OwnerAuthenticated
  /\ ConfirmedByEntitled
=============================================================================
