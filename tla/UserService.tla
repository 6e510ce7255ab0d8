---------------------------- MODULE UserService ----------------------------
(***************************************************************************)
(* The user module behind its routes: pkg/middleware (Recovery, CORS,      *)
(* Auth, RequireRole), the providers of pkg/auth, modules/user             *)
(* (controller, service and the two repositories) and the mapping of       *)
(* errors to statuses (pkg/apperror, pkg/response).  A request is one      *)
(* goroutine; between two queries of it others run.  The repository is     *)
(* GORM's or SQLC's, as configured.  A user is known by its username: rows *)
(* are never removed, so username and id correspond.  Passwords, searches  *)
(* and pages are abstracted.                                               *)
(***************************************************************************)
EXTENDS Naturals, FiniteSets, Sequences

CONSTANTS Requests,
          Settings,                 \* pairs of DB_DRIVER and AUTH_PROVIDER
          Tokens, NoToken,          \* bearer tokens, and a request without one
          Users, NoUser,
          Fields, Values, NoValue,  \* full_name, role, is_active and values
          Default,                  \* value of a field that Create leaves out
          Bodies                    \* update bodies: the fields they name

Roles == {"user", "admin"}

\* What a token says once it is decoded: whether it is genuine and in date, its
\* role claim, and the roles it lists (realm roles, or SAML attributes).
Token == [genuine : BOOLEAN, role : Roles \cup {""}, roles : Seq(Roles)]

\* The drivers and providers that Config.Validate lets pass.  No repository is
\* written for mongo: New takes it for SQLC.
Drivers   == {"sqlc", "gorm", "mongo"}
Providers == {"jwt", "keycloak", "oauth2", "saml"}

Row == [val : [Fields -> Values], deleted : BOOLEAN]

ASSUME UserAssumption ==
    /\ Settings \subseteq Drivers \X Providers
    /\ Tokens \subseteq Token /\ NoToken \notin Tokens
    /\ NoValue \notin Values /\ Default \in Values /\ NoUser \notin Row
    /\ \A b \in Bodies : DOMAIN b \subseteq Fields /\ b \in [DOMAIN b -> Values]

VARIABLES driver, provider,  \* DB_DRIVER and AUTH_PROVIDER
          users,   \* the users table
          pc,      \* request -> where it is
          req,     \* request -> operation, user and body
          seen,    \* request -> the fields that repo.GetByID returned
          status,  \* request -> HTTP status of the answer (0: none yet)
          wrote,   \* history: requests whose UPDATE matched a row
          asked    \* history: values given to a field of a user by a request

requestVars == <<pc, req, seen, status>>
uvars == <<driver, provider, users, requestVars, wrote, asked>>

UserOps == {"list", "get", "create", "update", "delete"}
\* Requests that no token is asked for: CORS preflights, the two probes and
\* unknown paths.
OpenOps == {"preflight", "healthz", "ready", "noRoute"}
Ops     == UserOps \cup OpenOps
NoReq   == [op |-> "none"]

\* Steps of a handler, one query each.
Steps == {"load", "write", "reload", "softDelete", "insert", "list", "count",
          "ping"}

UserTypeOK ==
    /\ <<driver, provider>> \in Settings
    /\ users \in [Users -> Row \cup {NoUser}]
    /\ pc \in [Requests -> Steps \cup {"idle", "answered"}]
    /\ req \in [Requests -> {NoReq} \cup [op : Ops, user : Users,
                                          body : Bodies \cup {<<>>}]]
    /\ seen \in [Requests -> [Fields -> Values \cup {NoValue}]]
    /\ status \in [Requests -> {0, 200, 201, 204, 400, 401, 403, 404, 409,
                                500, 503}]
    /\ wrote \subseteq Requests
    /\ asked \in [Users -> SUBSET (Fields \X Values)]

\* A handler has read no user.
Unread == [f \in Fields |-> NoValue]

\* The fields of a new user.
Given(b) == [f \in Fields |-> IF f \in DOMAIN b THEN b[f] ELSE Default]
Pairs(v) == {<<f, v[f]>> : f \in DOMAIN v}

\* The table holds some users with default values.
UserInit ==
    /\ \E set \in Settings : driver = set[1] /\ provider = set[2]
    /\ \E U \in SUBSET Users :
          /\ users = [u \in Users |->
                IF u \in U THEN [val |-> Given(<<>>), deleted |-> FALSE]
                           ELSE NoUser]
          /\ asked = [u \in Users |-> IF u \in U THEN Pairs(Given(<<>>)) ELSE {}]
    /\ pc = [r \in Requests |-> "idle"]
    /\ req = [r \in Requests |-> NoReq]
    /\ seen = [r \in Requests |-> Unread]
    /\ status = [r \in Requests |-> 0]
    /\ wrote = {}

GoTo(r, step) == pc' = [pc EXCEPT ![r] = step] /\ UNCHANGED <<req, seen, status>>

\* The handler writes its response and returns.
Answer(r, code) ==
    /\ pc' = [pc EXCEPT ![r] = "answered"]
    /\ status' = [status EXCEPT ![r] = code]
    /\ seen' = [seen EXCEPT ![r] = Unread]
    /\ UNCHANGED req

InFlight(r) == pc[r] \in Steps

\* FromError: it knows pgx.ErrNoRows and not gorm.ErrRecordNotFound; a unique
\* violation is PostgreSQL's 23505 with both drivers.
FromError(err) ==
    CASE err = "notFound" -> IF driver = "gorm" THEN 500 ELSE 404
      [] err = "duplicate" -> 409
      [] OTHER -> 500

HandleError(r, err) == Answer(r, FromError(err))

----------------------------------------------------------------------------
(* The way to the handler.  ValidateToken returns the role of the claims,  *)
(* or Invalid; a set, where the answer may depend on the identity provider *)
(* being reached.                                                          *)

Invalid == "invalid"

\* The key is local.
jwtProvider(t) == {IF t.genuine THEN t.role ELSE Invalid}

\* The realm's key is fetched, and the first realm role is the role.
keycloakProvider(t) ==
    {Invalid} \cup {c \in {IF t.roles = <<>> THEN "" ELSE Head(t.roles)} : t.genuine}

\* The issuer's key set is fetched when the key is not known.
oauth2Provider(t) == {Invalid} \cup {c \in {t.role} : t.genuine}

\* The metadata was read at start; the last role attribute counts.
samlProvider(t) ==
    {IF ~t.genuine THEN Invalid
     ELSE IF t.roles = <<>> THEN "" ELSE t.roles[Len(t.roles)]}

ValidateToken(t) ==
    CASE provider = "jwt"      -> jwtProvider(t)
      [] provider = "keycloak" -> keycloakProvider(t)
      [] provider = "oauth2"   -> oauth2Provider(t)
      [] provider = "saml"     -> samlProvider(t)

\* Auth: the role that the next handler finds in the context.
Auth(t) == IF t = NoToken THEN {Invalid} ELSE ValidateToken(t)

\* Routes behind RequireRole("admin").
AdminOnly == {"create", "delete"}

RequireRole(op, role) == op \in AdminOnly => role = "admin"

\* The handler's first query.
FirstStep(op) ==
    CASE op = "create" -> "insert"
      [] op = "list"   -> "list"
      [] op = "ready"  -> "ping"
      [] OTHER         -> "load"

\* The controller parsed the request and calls the service.
Handler(r, op, u, body) ==
    /\ pc' = [pc EXCEPT ![r] = FirstStep(op)]
    /\ req' = [req EXCEPT ![r] =
          [op |-> op, user |-> u,
           body |-> IF op \in {"create", "update"} THEN body ELSE <<>>]]
    /\ UNCHANGED <<seen, status>>

\* A preflight is answered by CORS, before any route.
CORS(r, op) == op = "preflight" /\ Answer(r, 204)

\* Auth, RequireRole and the parsing of path and body, in this order.
UserRoute(r, op, u, body, token) ==
    /\ op \in UserOps
    /\ \E role \in Auth(token) :
          IF role = Invalid THEN Answer(r, 401)
          ELSE IF ~RequireRole(op, role) THEN Answer(r, 403)
          ELSE Answer(r, 400) \/ Handler(r, op, u, body)

\* The rest of setupRouter.
Route(r, op, u, body, token) ==
    /\ pc[r] = "idle"
    /\ \/ CORS(r, op)
       \/ op = "healthz" /\ Answer(r, 200)
       \/ op = "noRoute" /\ Answer(r, 404)
       \/ op = "ready" /\ Handler(r, op, u, body)
       \/ UserRoute(r, op, u, body, token)
    /\ UNCHANGED <<driver, provider, users, wrote, asked>>

----------------------------------------------------------------------------
(* The handlers.                                                           *)

\* Rows that SELECT ... WHERE deleted_at IS NULL finds.
Live(u) == users[u] # NoUser /\ ~users[u].deleted

\* A query fails, or the handler panics: HandleError and Recovery answer 500.
Fails(r) ==
    /\ InFlight(r)
    /\ HandleError(r, "other")
    /\ UNCHANGED <<driver, provider, users, wrote, asked>>

\* repo.GetByID, the first query of GetByID, Update and Delete.
Load(r) ==
    LET u == req[r].user IN
    /\ pc[r] = "load"
    /\ IF ~Live(u) THEN HandleError(r, "notFound")
       ELSE CASE req[r].op = "get" -> Answer(r, 200)
              [] req[r].op = "delete" -> GoTo(r, "softDelete")
              [] OTHER -> /\ pc' = [pc EXCEPT ![r] = "write"]
                          /\ seen' = [seen EXCEPT ![r] = users[u].val]
                          /\ UNCHANGED <<req, status>>
    /\ UNCHANGED <<driver, provider, users, wrote, asked>>

\* Mutant of Merge: a field that is not named is reset.
MergeReset(r) ==
    [f \in Fields |-> IF f \in DOMAIN req[r].body THEN req[r].body[f] ELSE NoValue]

\* UpdateInput: named fields from the body, the others as they were read.
Merge(r) ==
    [f \in Fields |->
        IF f \in DOMAIN req[r].body THEN req[r].body[f] ELSE seen[r][f]]

\* Rows that an UPDATE ... WHERE deleted_at IS NULL finds.
Matches(u) == Live(u)

\* The UPDATE, in the database.
UpdateRow(r) ==
    LET u == req[r].user IN
    IF Matches(u)
    THEN /\ users' = [users EXCEPT ![u].val = Merge(r)]
         /\ wrote' = wrote \cup {r}
         /\ asked' = [asked EXCEPT ![u] = @ \cup Pairs(req[r].body)]
    ELSE UNCHANGED <<users, wrote, asked>>

\* SQLC's statement, for every other driver, returns the row or none; the
\* answer may be lost.
UpdateSQLC(r) ==
    /\ pc[r] = "write" /\ driver # "gorm"
    /\ UpdateRow(r)
    /\ \/ HandleError(r, "other")
       \/ IF Matches(req[r].user) THEN Answer(r, 200) ELSE HandleError(r, "notFound")
    /\ UNCHANGED <<driver, provider>>

\* GORM's does not say whether it found a row.
UpdateGORM(r) ==
    /\ pc[r] = "write" /\ driver = "gorm"
    /\ UpdateRow(r)
    /\ HandleError(r, "other") \/ GoTo(r, "reload")
    /\ UNCHANGED <<driver, provider>>

\* Mutant of Found: the reload reads deleted rows too, as its WHERE clause says.
FoundUnscoped(u) == users[u] # NoUser

\* What the reload finds: GORM adds deleted_at IS NULL for a gorm.DeletedAt.
Found(u) == Live(u)

\* GORM's repository reads the row again.
Reload(r) ==
    /\ pc[r] = "reload"
    /\ IF Found(req[r].user) THEN Answer(r, 200) ELSE HandleError(r, "notFound")
    /\ UNCHANGED <<driver, provider, users, wrote, asked>>

\* SoftDelete: no error when there is no row any more.
SoftDelete(r) ==
    LET u == req[r].user IN
    /\ pc[r] = "softDelete"
    /\ users' = IF Live(u) THEN [users EXCEPT ![u].deleted = TRUE] ELSE users
    /\ Answer(r, 204) \/ HandleError(r, "other")
    /\ UNCHANGED <<driver, provider, wrote, asked>>

\* repo.Create: a username is taken for good, by deleted users too.
Insert(r) ==
    LET u == req[r].user
        val == Given(req[r].body) IN
    /\ pc[r] = "insert"
    /\ IF users[u] # NoUser THEN HandleError(r, "duplicate") /\ UNCHANGED <<users, asked>>
       ELSE /\ users' = [users EXCEPT ![u] = [val |-> val, deleted |-> FALSE]]
            /\ asked' = [asked EXCEPT ![u] = Pairs(val)]
            /\ Answer(r, 201) \/ HandleError(r, "other")
    /\ UNCHANGED <<driver, provider, wrote>>

\* repo.List, and then repo.Count: total and items may disagree.
List(r) ==
    /\ pc[r] = "list"
    /\ GoTo(r, "count")
    /\ UNCHANGED <<driver, provider, users, wrote, asked>>

Count(r) ==
    /\ pc[r] = "count"
    /\ Answer(r, 200)
    /\ UNCHANGED <<driver, provider, users, wrote, asked>>

\* ReadinessCheck pings the stores that are configured.
Ping(r) ==
    /\ pc[r] = "ping"
    /\ Answer(r, 200) \/ Answer(r, 503)
    /\ UNCHANGED <<driver, provider, users, wrote, asked>>

\* Service.List.
ListUsers(r) == List(r) \/ Count(r)

HandlerStep(r) ==
    \/ Load(r) \/ UpdateSQLC(r) \/ UpdateGORM(r) \/ Reload(r) \/ SoftDelete(r)
    \/ Insert(r) \/ ListUsers(r) \/ Ping(r) \/ Fails(r)

Arrives(r) ==
    \E op \in Ops, u \in Users, body \in Bodies, token \in Tokens \cup {NoToken} :
        Route(r, op, u, body, token)

UserNext == \E r \in Requests : Arrives(r) \/ HandlerStep(r)
UserSpec == UserInit /\ [][UserNext]_uvars

----------------------------------------------------------------------------
\* An Update that is answered 200 has been applied, although GORM's UPDATE
\* does not report a row that was deleted meanwhile; a Delete that is answered
\* 204 leaves the user deleted.
ToldTrue ==
    \A r \in Requests :
        /\ status[r] = 200 /\ req[r].op = "update" => r \in wrote
        /\ status[r] = 204 /\ req[r].op = "delete" =>
              users[req[r].user] # NoUser /\ ~Live(req[r].user)

\* However Updates of a user interleave (each writes all fields), a field only
\* ever holds a value that some request gave to it.
OnlyAskedValues ==
    \A u \in Users : users[u] # NoUser => Pairs(users[u].val) \subseteq asked[u]

=============================================================================
