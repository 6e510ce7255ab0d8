----------------------------- MODULE AppProofs -----------------------------
(***************************************************************************)
(* The life of the process, for any requests, users, tokens and            *)
(* configurations: what is under way finds what it uses open, and status 0 *)
(* means that everything accepted was finished.  The argument needs only   *)
(* where the main goroutine is, and of the handlers only that a request    *)
(* that is not in flight takes no step.                                    *)
(*                                                                         *)
(* The user module inside it: the process implements UserSpec, and what    *)
(* its clients are told, and what is written for them, is true to the      *)
(* table.                                                                  *)
(***************************************************************************)
EXTENDS App, TLAPS

\* Phases before the database, and Redis, are opened.
BeforeDB    == {"config", "validate", "migrate", "db"}
BeforeRedis == BeforeDB \cup {"redis"}

\* The exit status is known when, and only when, the process has ended.
ExitInv == (exit = "none") = (phase # "exited")

\* Counters are numbers, and nothing is under way while the process boots.
LoadInv ==
    /\ streams \in Nat /\ msgs \in Nat /\ tasks \in Nat
    /\ buffered \in Nat /\ flushing \in Nat
    /\ phase \in Booting =>
          Idle /\ streams = 0 /\ msgs = 0 /\ buffered = 0 /\ flushing = 0 /\ tasks = 0

\* Stores are open from the phase that opens them to the one that closes them.
StoresInv ==
    phase # "exited" =>
        /\ phase \notin BeforeDB \cup {"sync"} => "db" \in stores
        /\ phase \notin BeforeRedis \cup {"closeDB", "sync"} /\ cfg.redis =>
              "redis" \in stores

\* The producer is closed behind the workers.
ProducerInv == producer = "closed" => phase \in {"closeRedis", "closeDB", "sync", "exited"}

\* The pool is open from the phase that makes it until the workers are stopped.
PoolInv ==
    phase \notin BeforeRedis \cup {"auth", "stopWorkers", "closeServices",
                                   "closeRedis", "closeDB", "sync", "exited"} =>
        pool = "open"

\* Messages come only from an open consumer, and leave its workers, handled or
\* buffered, before it is closed.
ConsumerInv ==
    /\ consumer \in {"none", "closed"} => msgs = 0
    /\ phase \in {"stopWorkers", "closeServices", "closeRedis", "closeDB", "sync"} =>
          consumer \in {"none", "closed"}

\* What each phase of the shutdown leaves behind.  A flush that is still running
\* cannot submit to the closed pool.
DrainedInv ==
    /\ phase \in Stopping \ {"stopGRPC"} => streams = 0
    /\ phase \in Stopping \ {"stopGRPC", "stopHTTP"} => Idle
    /\ phase \in {"closeServices", "closeRedis", "closeDB", "sync"} =>
          tasks = 0 /\ pool = "closed"

LifeInv ==
    /\ ExitInv /\ LoadInv /\ StoresInv /\ ProducerInv /\ PoolInv /\ ConsumerInv
    /\ DrainedInv /\ CleanExit

USE DEF BeforeDB, BeforeRedis, Booting, Stopping, Running, GoOn, Ends, lifeVars, openVars,
        batchVars, loadVars

LEMMA LifeInit == Init => LifeInv
BY DEF Init, UserInit, LifeInv, ExitInv, LoadInv, StoresInv, ProducerInv, PoolInv,
       ConsumerInv, DrainedInv, CleanExit, Idle, InFlight, Steps

\* Steps of the main goroutine and of the clients leave requests alone.
LEMMA IdleKept == ASSUME UNCHANGED uvars PROVE Idle' = Idle
BY DEF uvars, requestVars, Idle, InFlight

\* Only a request in flight takes a step of its handler.
LEMMA HandlerInFlight ==
    ASSUME NEW r \in Requests, HandlerStep(r) PROVE ~Idle
<1>1. pc[r] \in Steps
  BY DEF HandlerStep, Load, UpdateSQLC, UpdateGORM, Reload, SoftDelete, Insert,
         ListUsers, List, Count, Ping, Fails, InFlight, Steps
<1> QED BY <1>1 DEF Idle, InFlight

USE DEF LifeInv, ExitInv, LoadInv, StoresInv, ProducerInv, PoolInv, ConsumerInv,
        DrainedInv, CleanExit

LEMMA BootKeeps == LifeInv /\ Boot => LifeInv'
<1> SUFFICES ASSUME LifeInv, Boot PROVE LifeInv'
  OBVIOUS
<1>1. CASE mustLoadConfig
  BY <1>1, IdleKept DEF mustLoadConfig, LoadConfig, Validate
<1>2. CASE RunMigrations
  BY <1>2, IdleKept DEF RunMigrations
<1>3. CASE NewGormDB
  BY <1>3, IdleKept DEF NewGormDB
<1>4. CASE NewPool
  BY <1>4, IdleKept DEF NewPool
<1>5. CASE NewRedis
  BY <1>5, IdleKept DEF NewRedis
<1>6. CASE NewProvider
  BY <1>6, IdleKept DEF NewProvider, NewJWTProvider, NewKeycloakProvider,
       NewOAuth2Provider, NewSAMLProvider, NewWorkerPool, ProviderFails
<1>7. CASE NewEncryptor
  BY <1>7, IdleKept DEF NewEncryptor
<1>8. CASE InitOptional
  BY <1>8, IdleKept DEF InitOptional
<1>9. CASE InitKafka
  BY <1>9, IdleKept DEF InitKafka
<1>10. CASE NewGRPC
  BY <1>10, IdleKept DEF NewGRPC
<1>11. CASE Run
  BY <1>11, IdleKept DEF Run
<1> QED
  BY <1>1, <1>2, <1>3, <1>4, <1>5, <1>6, <1>7, <1>8, <1>9, <1>10, <1>11 DEF Boot

LEMMA WorkKeeps == LifeInv /\ Work => LifeInv'
<1> SUFFICES ASSUME LifeInv, Work PROVE LifeInv'
  OBVIOUS
<1>1. CASE \E r \in Requests : Accept(r)
  BY <1>1 DEF Accept, HTTPOpen, avars
<1>2. CASE \E r \in Requests : Handle(r)
  <2>1. ~Idle /\ phase # "exited" /\ UNCHANGED avars
    BY <1>2, HandlerInFlight DEF Handle
  <2> QED BY <2>1 DEF avars
<1>3. CASE OpenStream
  BY <1>3, IdleKept DEF OpenStream
<1>4. CASE CloseStream
  BY <1>4, IdleKept DEF CloseStream
<1>5. CASE Message
  BY <1>5, IdleKept DEF Message
<1>6. CASE MessageDone
  BY <1>6, IdleKept DEF MessageDone, HandlerDone, Add
<1>7. CASE Submit
  <2>1. ~Idle \/ msgs > 0 \/ flushing > 0
    BY <1>7 DEF Submit, Idle
  <2> QED BY <1>7, <2>1, IdleKept DEF Submit
<1>8. CASE TaskDone
  BY <1>8, IdleKept DEF TaskDone
<1>9. CASE timerFlush
  BY <1>9, IdleKept DEF timerFlush, flushLocked
<1>10. CASE FlushDone
  <2>1. flushing' \in Nat /\ flushing > 0
    BY <1>10 DEF FlushDone
  <2> QED BY <1>10, <2>1, IdleKept DEF FlushDone
<1>11. CASE RelayEnds
  BY <1>11, IdleKept DEF RelayEnds
<1> QED
  BY <1>1, <1>2, <1>3, <1>4, <1>5, <1>6, <1>7, <1>8, <1>9, <1>10, <1>11 DEF Work

LEMMA ShutdownKeeps == LifeInv /\ Shutdown => LifeInv'
<1> SUFFICES ASSUME LifeInv, Shutdown PROVE LifeInv'
  OBVIOUS
<1>1. CASE SignalReceived
  BY <1>1, IdleKept DEF SignalReceived
<1>2. CASE GracefulStop
  BY <1>2, IdleKept DEF GracefulStop
<1>3. CASE ShutdownHTTP
  BY <1>3, IdleKept DEF ShutdownHTTP
<1>4. CASE CloseConsumer
  BY <1>4, IdleKept DEF CloseConsumer, flushLocked
<1>5. CASE ConsumerDrained
  BY <1>5, IdleKept DEF ConsumerDrained
<1>6. CASE StopWorkers
  BY <1>6, IdleKept DEF StopWorkers
<1>7. CASE WorkersDrained
  BY <1>7, IdleKept DEF WorkersDrained
<1>8. CASE ShutdownServices
  BY <1>8, IdleKept DEF ShutdownServices
<1>9. CASE CloseRedis
  BY <1>9, IdleKept DEF CloseRedis
<1>10. CASE CloseDB
  BY <1>10, IdleKept DEF CloseDB
<1>11. CASE Exit
  BY <1>11, IdleKept DEF Exit
<1> QED
  BY <1>1, <1>2, <1>3, <1>4, <1>5, <1>6, <1>7, <1>8, <1>9, <1>10, <1>11 DEF Shutdown

LEMMA LifeStep == LifeInv /\ [Next]_vars => LifeInv'
<1> SUFFICES ASSUME LifeInv, [Next]_vars PROVE LifeInv'
  OBVIOUS
<1>1. CASE Signal
  BY <1>1, IdleKept DEF Signal
<1>2. CASE ServeFails
  BY <1>2, IdleKept DEF ServeFails
<1>3. CASE UNCHANGED vars
  BY <1>3, IdleKept DEF vars, avars
<1>4. CASE DispatchPanics
  BY <1>4, IdleKept DEF DispatchPanics
<1> QED
  BY <1>1, <1>2, <1>3, <1>4, BootKeeps, WorkKeeps, ShutdownKeeps DEF Next

LEMMA LifeInvariant == Spec => []LifeInv
<1> HIDE DEF LifeInv
<1> QED BY LifeInit, LifeStep, PTL DEF Spec

(***************************************************************************)
(* For any number of requests, tasks, messages, batches and streams, and   *)
(* whatever is configured or fails on the way: Shutdown closes the pool,   *)
(* the producer and the stores after the last request, message and task    *)
(* that uses them (app.go, Run and Shutdown).  Flushes of batches and the  *)
(* relay, which it does not wait for, are not among these users.           *)
(***************************************************************************)
THEOREM ShutdownInOrder == Spec => []NoUseAfterClose
<1>1. LifeInv => NoUseAfterClose
  BY DEF NoUseAfterClose
<1> HIDE DEF LifeInv
<1> QED BY <1>1, LifeInvariant, PTL

\* A process that ends with status 0 has finished all it accepted: runServe
\* reaches its end only through every step of Run and Shutdown (app.go).
THEOREM EndsClean == Spec => []CleanExit
<1>1. LifeInv => CleanExit
  OBVIOUS
<1> HIDE DEF LifeInv, CleanExit
<1> QED BY <1>1, LifeInvariant, PTL

----------------------------------------------------------------------------
(* The requests.  A process serves them one query at a time; what it does  *)
(* besides leaves them and the table alone.                                *)

\* The operations that have this step.
OpsAt(step) ==
    CASE step = "load" -> {"get", "update", "delete"}
      [] step \in {"write", "reload"} -> {"update"}
      [] step = "softDelete" -> {"delete"}
      [] step = "insert" -> {"create"}
      [] step \in {"list", "count"} -> {"list"}
      [] OTHER -> {"ready"}

\* Where a request is says what it is and that it has no answer yet.
ReqInv(r) ==
    /\ pc[r] # "answered" => status[r] = 0
    /\ pc[r] = "idle" => req[r] = NoReq
    /\ pc[r] \in Steps => req[r].user \in Users /\ req[r].op \in OpsAt(pc[r])

\* A request that has found its user goes on finding the row, since rows are
\* never removed, and what it read are values the user was given.
LoadedInv(r) ==
    LET u == req[r].user IN
    /\ pc[r] \in {"write", "reload", "softDelete"} => users[u] # NoUser
    /\ pc[r] = "write" => /\ seen[r] \in [Fields -> Values]
                          /\ Pairs(seen[r]) \subseteq asked[u]
    /\ pc[r] = "reload" => r \in wrote \/ users[u].deleted

\* ToldTrue, for one request.
ToldInv(r) ==
    LET u == req[r].user IN
    /\ status[r] = 200 /\ req[r].op = "update" => r \in wrote
    /\ status[r] = 204 /\ req[r].op = "delete" =>
          u \in Users /\ users[u] # NoUser /\ users[u].deleted

UserInv ==
    /\ UserTypeOK /\ OnlyAskedValues
    /\ \A r \in Requests : ReqInv(r) /\ LoadedInv(r) /\ ToldInv(r)

HIDE DEF LifeInv, ExitInv, LoadInv, StoresInv, ProducerInv, PoolInv, ConsumerInv,
         DrainedInv, CleanExit

\* What a step may do to the table: add rows and values, mark rows deleted.
TableGrows ==
    /\ users' \in [Users -> Row \cup {NoUser}]
    /\ asked' \in [Users -> SUBSET (Fields \X Values)]
    /\ wrote \subseteq wrote' /\ wrote' \subseteq Requests
    /\ UNCHANGED <<driver, provider>>
    /\ \A u \in Users : users[u] # NoUser =>
          /\ users'[u] # NoUser /\ asked[u] \subseteq asked'[u]
          /\ users[u].deleted => users'[u].deleted
    /\ OnlyAskedValues'

LEMMA SameTable ==
    ASSUME UserInv, UNCHANGED <<driver, provider, users, wrote, asked>>
    PROVE  TableGrows
BY DEF UserInv, UserTypeOK, TableGrows, OnlyAskedValues

\* A request that does not move keeps its part of the invariant.
LEMMA OthersKept ==
    ASSUME UserInv, TableGrows, NEW s \in Requests,
           pc'[s] = pc[s], req'[s] = req[s], seen'[s] = seen[s], status'[s] = status[s]
    PROVE  ReqInv(s)' /\ LoadedInv(s)' /\ ToldInv(s)'
<1>1. ReqInv(s)' /\ ReqInv(s)
  BY DEF UserInv, ReqInv
<1>2. LoadedInv(s)'
  <2>1. pc[s] \in {"write", "reload", "softDelete"} => req[s].user \in Users
    BY <1>1 DEF ReqInv, Steps
  <2> QED BY <2>1 DEF UserInv, LoadedInv, TableGrows
<1>3. ToldInv(s)'
  BY DEF UserInv, ToldInv, TableGrows
<1> QED BY <1>1, <1>2, <1>3

Codes == {200, 201, 204, 400, 401, 403, 404, 409, 500, 503}

\* A request is answered truthfully.
LEMMA AnswerKeeps ==
    ASSUME UserInv, TableGrows, NEW r \in Requests, NEW code \in Codes,
           Answer(r, code),
           code = 200 /\ req[r].op = "update" => r \in wrote',
           code = 204 /\ req[r].op = "delete" =>
               LET u == req[r].user IN
               u \in Users /\ users'[u] # NoUser /\ users'[u].deleted
    PROVE  UserInv'
<1>1. UserTypeOK'
  BY DEF UserInv, UserTypeOK, TableGrows, Answer, Codes, Unread
<1>2. ASSUME NEW s \in Requests, s # r
      PROVE  ReqInv(s)' /\ LoadedInv(s)' /\ ToldInv(s)'
  BY <1>2, OthersKept DEF UserInv, UserTypeOK, Answer
<1>3. ReqInv(r)' /\ LoadedInv(r)' /\ ToldInv(r)'
  BY DEF UserInv, UserTypeOK, Answer, ReqInv, LoadedInv, ToldInv, Steps
<1> QED BY <1>1, <1>2, <1>3 DEF UserInv, TableGrows

LEMMA ErrorKeeps ==
    ASSUME UserInv, TableGrows, NEW r \in Requests, NEW err, HandleError(r, err)
    PROVE  UserInv'
<1>1. FromError(err) \in Codes \ {200, 204}
  BY DEF FromError, Codes
<1>2. Answer(r, FromError(err))
  BY DEF HandleError
<1> QED BY <1>1, <1>2, AnswerKeeps

\* A handler goes on to its next query.
LEMMA NextQueryKeeps ==
    ASSUME UserInv, TableGrows, NEW r \in Requests, NEW step \in Steps,
           pc[r] \in Steps, req[r].op \in OpsAt(step),
           pc' = [pc EXCEPT ![r] = step], UNCHANGED <<req, status>>,
           seen' \in [Requests -> [Fields -> Values \cup {NoValue}]],
           \A s \in Requests \ {r} : seen'[s] = seen[s],
           LoadedInv(r)'
    PROVE  UserInv'
<1>1. UserTypeOK'
  BY DEF UserInv, UserTypeOK, TableGrows
<1>2. ASSUME NEW s \in Requests, s # r
      PROVE  ReqInv(s)' /\ LoadedInv(s)' /\ ToldInv(s)'
  BY <1>2, OthersKept DEF UserInv, UserTypeOK
<1>3. ReqInv(r)' /\ ToldInv(r)'
  <2>1. status[r] = 0 /\ status'[r] = 0 /\ pc'[r] = step /\ req'[r] = req[r]
    BY DEF UserInv, UserTypeOK, ReqInv, Steps
  <2>2. req[r].user \in Users
    BY DEF UserInv, ReqInv
  <2> QED BY <2>1, <2>2 DEF ReqInv, ToldInv, Steps
<1> QED BY <1>1, <1>2, <1>3 DEF UserInv, TableGrows

LEMMA RouteKeeps ==
    ASSUME UserInv, NEW r \in Requests, Arrives(r)
    PROVE  UserInv'
<1>1. PICK op \in Ops, u \in Users, body \in Bodies, token \in Tokens \cup {NoToken} :
         Route(r, op, u, body, token)
  BY DEF Arrives
<1>2. TableGrows /\ pc[r] = "idle" /\ req[r] = NoReq /\ req[r].op = "none"
  BY <1>1, SameTable DEF Route, UserInv, ReqInv, NoReq
<1>3. ASSUME NEW code \in Codes, Answer(r, code) PROVE UserInv'
  BY <1>2, <1>3, AnswerKeeps
<1>4. ASSUME Handler(r, op, u, body), op = "ready" \/ op \in UserOps PROVE UserInv'
  <2>1. FirstStep(op) \in Steps /\ op \in OpsAt(FirstStep(op))
        /\ FirstStep(op) \notin {"write", "reload", "softDelete"}
    BY <1>4 DEF FirstStep, Steps, OpsAt, UserOps
  <2> DEFINE q == [op |-> op, user |-> u,
                   body |-> IF op \in {"create", "update"} THEN body ELSE <<>>]
  <2>2. q \in [op : Ops, user : Users, body : Bodies \cup {<<>>}]
    OBVIOUS
  <2>3. /\ pc' = [pc EXCEPT ![r] = FirstStep(op)] /\ req' = [req EXCEPT ![r] = q]
        /\ UNCHANGED <<seen, status>>
    BY <1>4 DEF Handler
  <2>4. q.op = op /\ q.user = u
    OBVIOUS
  <2> HIDE DEF q
  <2>5. UserTypeOK'
    BY <1>2, <2>1, <2>2, <2>3 DEF UserInv, UserTypeOK, TableGrows
  <2>6. ASSUME NEW s \in Requests, s # r
        PROVE  ReqInv(s)' /\ LoadedInv(s)' /\ ToldInv(s)'
    BY <1>2, <2>3, <2>6, OthersKept DEF UserInv, UserTypeOK
  <2>7. /\ pc'[r] = FirstStep(op) /\ req'[r] = q /\ status'[r] = 0
    BY <1>2, <2>3 DEF UserInv, UserTypeOK, ReqInv
  <2>8. ReqInv(r)' /\ LoadedInv(r)' /\ ToldInv(r)'
    BY <2>1, <2>4, <2>7 DEF ReqInv, LoadedInv, ToldInv, Steps
  <2> QED BY <1>2, <2>5, <2>6, <2>8 DEF UserInv, TableGrows
<1> QED BY <1>1, <1>3, <1>4 DEF Route, CORS, UserRoute, Codes

\* An UPDATE writes what the body names and what the request has read.
LEMMA UpdateGrows ==
    ASSUME UserInv, NEW r \in Requests, pc[r] = "write", UpdateRow(r),
           UNCHANGED <<driver, provider>>
    PROVE  TableGrows /\ (Live(req[r].user) => r \in wrote')
<1> DEFINE u == req[r].user
           b == req[r].body
<1>1. /\ u \in Users /\ users[u] # NoUser
      /\ seen[r] \in [Fields -> Values] /\ Pairs(seen[r]) \subseteq asked[u]
  BY DEF UserInv, ReqInv, LoadedInv, Steps
<1>2. DOMAIN b \subseteq Fields /\ b \in [DOMAIN b -> Values]
  <2>1. b \in Bodies \cup {<<>>}
    BY DEF UserInv, UserTypeOK, ReqInv, OpsAt, NoReq, Steps
  <2>2. DOMAIN <<>> = {} /\ <<>> \in [{} -> Values]
    OBVIOUS
  <2> QED BY <2>1, <2>2, UserAssumption
<1>3. CASE ~Live(u)
  <2>1. UNCHANGED <<driver, provider, users, wrote, asked>>
    BY <1>3 DEF UpdateRow, Matches
  <2> QED BY <1>3, <2>1, SameTable
<1>4. CASE Live(u)
  <2> DEFINE v == Merge(r)
  <2>1. /\ users' = [users EXCEPT ![u].val = v] /\ wrote' = wrote \cup {r}
        /\ asked' = [asked EXCEPT ![u] = @ \cup Pairs(b)]
    BY <1>4 DEF UpdateRow, Matches
  <2>2. v \in [Fields -> Values] /\ Pairs(v) \subseteq asked[u] \cup Pairs(b)
    <3>1. v = [f \in Fields |-> IF f \in DOMAIN b THEN b[f] ELSE seen[r][f]]
      BY DEF Merge
    <3> HIDE DEF v, b
    <3>2. v \in [Fields -> Values]
      BY <1>1, <1>2, <3>1
    <3>3. ASSUME NEW f \in Fields PROVE <<f, v[f]>> \in asked[u] \cup Pairs(b)
      <4>1. CASE f \in DOMAIN b
        BY <1>2, <3>1, <4>1 DEF Pairs
      <4>2. CASE f \notin DOMAIN b
        BY <1>1, <3>1, <4>2 DEF Pairs
      <4> QED BY <4>1, <4>2
    <3> QED BY <3>2, <3>3 DEF Pairs
  <2>3. Pairs(b) \subseteq Fields \X Values
    BY <1>2 DEF Pairs
  <2> HIDE DEF u, b, v
  <2>4. /\ users[u] \in Row
        /\ users'[u] = [users[u] EXCEPT !.val = v]
        /\ \A w \in Users \ {u} : users'[w] = users[w] /\ asked'[w] = asked[w]
        /\ asked'[u] = asked[u] \cup Pairs(b)
    BY <1>1, <2>1 DEF UserInv, UserTypeOK
  <2>5. users'[u] \in Row /\ users'[u].val = v /\ users'[u].deleted = users[u].deleted
    BY <2>2, <2>4 DEF Row
  <2>6. users' \in [Users -> Row \cup {NoUser}]
    BY <1>1, <2>1, <2>2, <2>4, <2>5 DEF UserInv, UserTypeOK
  <2>7. asked' \in [Users -> SUBSET (Fields \X Values)] /\ wrote' \subseteq Requests
    BY <1>1, <2>1, <2>3 DEF UserInv, UserTypeOK
  <2>8. OnlyAskedValues'
    BY <1>1, <2>2, <2>4, <2>5 DEF UserInv, OnlyAskedValues
  <2>9. users'[u] # NoUser
    BY <2>5, UserAssumption
  <2> QED BY <2>1, <2>4, <2>5, <2>6, <2>7, <2>8, <2>9 DEF TableGrows
<1> QED BY <1>3, <1>4

LEMMA DeleteGrows ==
    ASSUME UserInv, NEW r \in Requests, pc[r] = "softDelete", SoftDelete(r)
    PROVE  LET u == req[r].user IN
           TableGrows /\ u \in Users /\ users'[u] # NoUser /\ users'[u].deleted
<1> DEFINE u == req[r].user
<1>1. u \in Users /\ users[u] # NoUser /\ users[u] \in Row
  BY DEF UserInv, UserTypeOK, ReqInv, LoadedInv, Steps
<1>2. users' = IF Live(u) THEN [users EXCEPT ![u].deleted = TRUE] ELSE users
  BY DEF SoftDelete
<1>3. UNCHANGED <<driver, provider, wrote, asked>>
  BY DEF SoftDelete
<1>4. CASE ~Live(u)
  <2>1. users' = users
    BY <1>2, <1>4
  <2> HIDE DEF u
  <2>2. TableGrows
    BY <1>3, <2>1, SameTable
  <2>3. users'[u] # NoUser /\ users'[u].deleted
    BY <1>1, <1>4, <2>1 DEF Live
  <2> QED BY <1>1, <2>2, <2>3 DEF u
<1>5. CASE Live(u)
  <2> HIDE DEF u
  <2>1. /\ users'[u] = [users[u] EXCEPT !.deleted = TRUE]
        /\ \A w \in Users \ {u} : users'[w] = users[w]
        /\ DOMAIN users' = Users
    BY <1>1, <1>2, <1>5 DEF UserInv, UserTypeOK
  <2>2. users'[u] \in Row /\ users'[u].val = users[u].val /\ users'[u].deleted
    BY <1>1, <2>1 DEF Row
  <2>3. users'[u] # NoUser
    BY <2>2, UserAssumption
  <2>4. users' \in [Users -> Row \cup {NoUser}]
    BY <1>1, <1>2, <1>5, <2>1, <2>2 DEF UserInv, UserTypeOK
  <2>5. OnlyAskedValues'
    BY <1>1, <1>3, <2>1, <2>2 DEF UserInv, OnlyAskedValues
  <2>6. TableGrows
    <3>1. \A w \in Users : users[w] # NoUser =>
             /\ users'[w] # NoUser /\ asked[w] \subseteq asked'[w]
             /\ users[w].deleted => users'[w].deleted
      BY <1>1, <1>3, <2>1, <2>2, <2>3
    <3> QED BY <1>1, <1>3, <2>4, <2>5, <3>1 DEF UserInv, UserTypeOK, TableGrows
  <2> QED BY <1>1, <2>2, <2>3, <2>6 DEF u
<1> QED BY <1>4, <1>5

\* A new user has the values of the body and defaults.
LEMMA GivenValues ==
    ASSUME NEW b \in Bodies \cup {<<>>}
    PROVE  Given(b) \in [Fields -> Values] /\ Pairs(Given(b)) \subseteq Fields \X Values
<1>1. DOMAIN b \subseteq Fields /\ b \in [DOMAIN b -> Values]
  <2>1. DOMAIN <<>> = {} /\ <<>> \in [{} -> Values]
    OBVIOUS
  <2> QED BY <2>1, UserAssumption
<1>2. Given(b) \in [Fields -> Values]
  BY <1>1, UserAssumption DEF Given
<1> QED BY <1>2 DEF Pairs

LEMMA InsertGrows ==
    ASSUME UserInv, NEW r \in Requests, pc[r] = "insert", Insert(r)
    PROVE  TableGrows
<1> DEFINE u == req[r].user
           val == Given(req[r].body)
<1>1. u \in Users
  BY DEF UserInv, ReqInv, Steps
<1>2. req[r].body \in Bodies \cup {<<>>}
  BY DEF UserInv, UserTypeOK, ReqInv, OpsAt, NoReq, Steps
<1>3. CASE users[u] # NoUser
  <2>1. UNCHANGED <<driver, provider, users, wrote, asked>>
    BY <1>3 DEF Insert
  <2> QED BY <2>1, SameTable
<1>4. CASE users[u] = NoUser
  <2>1. /\ users' = [users EXCEPT ![u] = [val |-> val, deleted |-> FALSE]]
        /\ asked' = [asked EXCEPT ![u] = Pairs(val)]
        /\ UNCHANGED <<driver, provider, wrote>>
    BY <1>4 DEF Insert
  <2>2. val \in [Fields -> Values] /\ Pairs(val) \subseteq Fields \X Values
    BY <1>2, GivenValues
  <2> HIDE DEF u, val
  <2>3. /\ users' \in [Users -> Row \cup {NoUser}]
        /\ asked' \in [Users -> SUBSET (Fields \X Values)]
    BY <1>1, <2>1, <2>2 DEF UserInv, UserTypeOK, Row
  <2>4. /\ users'[u].val = val /\ asked'[u] = Pairs(val)
        /\ \A w \in Users \ {u} : users'[w] = users[w] /\ asked'[w] = asked[w]
    BY <1>1, <2>1 DEF UserInv, UserTypeOK
  <2>5. OnlyAskedValues'
    BY <1>1, <2>4 DEF UserInv, OnlyAskedValues
  <2> QED BY <1>1, <1>4, <2>1, <2>3, <2>4, <2>5 DEF UserInv, UserTypeOK, TableGrows
<1> QED BY <1>3, <1>4

\* The queries of the handlers, one by one.
LEMMA HandlerKeeps ==
    ASSUME UserInv, NEW r \in Requests, HandlerStep(r)
    PROVE  UserInv'
<1> DEFINE u == req[r].user
<1> USE DEF Codes
<1>1. CASE Load(r)
  <2>1. pc[r] = "load" /\ TableGrows
    BY <1>1, SameTable DEF Load
  <2>2. req[r].op \in {"get", "update", "delete"} /\ u \in Users /\ pc[r] \in Steps
    BY <2>1 DEF UserInv, ReqInv, OpsAt, Steps
  <2>3. CASE ~Live(u)
    BY <1>1, <2>1, <2>3, ErrorKeeps DEF Load
  <2>4. CASE Live(u) /\ req[r].op = "get"
    <3>1. Answer(r, 200)
      BY <1>1, <2>4 DEF Load
    <3> QED BY <2>1, <2>4, <3>1, AnswerKeeps
  <2>5. CASE Live(u) /\ req[r].op = "delete"
    <3>1. GoTo(r, "softDelete") /\ UNCHANGED users
      BY <1>1, <2>5 DEF Load
    <3>2. LoadedInv(r)'
      BY <2>5, <3>1 DEF UserInv, UserTypeOK, GoTo, LoadedInv, Live
    <3>3. req[r].op \in OpsAt("softDelete") /\ "softDelete" \in Steps
      BY <2>5 DEF OpsAt, Steps
    <3>4. /\ pc' = [pc EXCEPT ![r] = "softDelete"] /\ UNCHANGED <<req, status>>
          /\ seen' \in [Requests -> [Fields -> Values \cup {NoValue}]]
          /\ \A s \in Requests \ {r} : seen'[s] = seen[s]
      BY <3>1 DEF GoTo, UserInv, UserTypeOK
    <3> QED BY <2>1, <2>2, <3>2, <3>3, <3>4, NextQueryKeeps
  <2>6. CASE Live(u) /\ req[r].op = "update"
    <3>1. /\ pc' = [pc EXCEPT ![r] = "write"] /\ UNCHANGED <<req, status, users, asked>>
          /\ seen' = [seen EXCEPT ![r] = users[u].val]
      BY <1>1, <2>6 DEF Load
    <3>2. users[u] # NoUser /\ users[u].val \in [Fields -> Values]
      BY <2>2, <2>6 DEF UserInv, UserTypeOK, Live, Row
    <3>3. Pairs(users[u].val) \subseteq asked[u]
      BY <2>2, <3>2 DEF UserInv, OnlyAskedValues
    <3>4. /\ pc'[r] = "write" /\ seen'[r] = users[u].val
          /\ \A s \in Requests \ {r} : seen'[s] = seen[s]
      BY <3>1 DEF UserInv, UserTypeOK
    <3>5. seen' \in [Requests -> [Fields -> Values \cup {NoValue}]]
      BY <3>1, <3>2 DEF UserInv, UserTypeOK
    <3>6. LoadedInv(r)'
      BY <3>1, <3>2, <3>3, <3>4 DEF LoadedInv
    <3>7. req[r].op \in OpsAt("write") /\ "write" \in Steps
      BY <2>6 DEF OpsAt, Steps
    <3> QED BY <2>1, <2>2, <3>1, <3>4, <3>5, <3>6, <3>7, NextQueryKeeps
  <2> QED BY <2>2, <2>3, <2>4, <2>5, <2>6
<1>2. CASE UpdateSQLC(r)
  <2>1. pc[r] = "write" /\ UpdateRow(r) /\ UNCHANGED <<driver, provider>>
    BY <1>2 DEF UpdateSQLC
  <2>2. TableGrows /\ (Live(u) => r \in wrote')
    BY <2>1, UpdateGrows
  <2>3. req[r].op = "update"
    BY <2>1 DEF UserInv, ReqInv, OpsAt, Steps
  <2>4. CASE Live(u) /\ Answer(r, 200)
    BY <2>2, <2>4, AnswerKeeps
  <2> QED BY <1>2, <2>2, <2>4, ErrorKeeps DEF UpdateSQLC, Matches
<1>3. CASE UpdateGORM(r)
  <2>1. pc[r] = "write" /\ UpdateRow(r) /\ UNCHANGED <<driver, provider>>
    BY <1>3 DEF UpdateGORM
  <2>2. TableGrows /\ (Live(u) => r \in wrote')
    BY <2>1, UpdateGrows
  <2>3. /\ req[r].op = "update" /\ u \in Users /\ users[u] # NoUser /\ pc[r] \in Steps
    BY <2>1 DEF UserInv, ReqInv, LoadedInv, OpsAt, Steps
  <2>4. CASE GoTo(r, "reload")
    <3>1. pc'[r] = "reload" /\ UNCHANGED <<req, seen, status>>
      BY <2>4 DEF GoTo, UserInv, UserTypeOK
    <3>2. users'[u] # NoUser /\ (r \in wrote' \/ users'[u].deleted)
      BY <2>2, <2>3 DEF TableGrows, Live
    <3>3. LoadedInv(r)'
      BY <3>1, <3>2 DEF LoadedInv
    <3>4. req[r].op \in OpsAt("reload") /\ "reload" \in Steps
      BY <2>3 DEF OpsAt, Steps
    <3>5. /\ seen' \in [Requests -> [Fields -> Values \cup {NoValue}]]
          /\ \A s \in Requests \ {r} : seen'[s] = seen[s]
          /\ pc' = [pc EXCEPT ![r] = "reload"]
      BY <2>4 DEF GoTo, UserInv, UserTypeOK
    <3> QED BY <2>2, <2>3, <3>1, <3>3, <3>4, <3>5, NextQueryKeeps
  <2> QED BY <1>3, <2>2, <2>4, ErrorKeeps DEF UpdateGORM
<1>4. CASE Reload(r)
  <2>1. pc[r] = "reload" /\ TableGrows
    BY <1>4, SameTable DEF Reload
  <2>2. req[r].op = "update" /\ (r \in wrote \/ users[u].deleted)
    BY <2>1 DEF UserInv, ReqInv, LoadedInv, OpsAt, Steps
  <2>3. CASE Live(u) /\ Answer(r, 200)
    <3>1. r \in wrote'
      BY <2>1, <2>2, <2>3 DEF Live, TableGrows
    <3> QED BY <2>1, <2>2, <2>3, <3>1, AnswerKeeps
  <2> QED BY <1>4, <2>1, <2>3, ErrorKeeps DEF Reload, Found
<1>5. CASE SoftDelete(r)
  <2>1. pc[r] = "softDelete" /\ (Answer(r, 204) \/ HandleError(r, "other"))
    BY <1>5 DEF SoftDelete
  <2>2. TableGrows /\ u \in Users /\ users'[u] # NoUser /\ users'[u].deleted
    BY <1>5, <2>1, DeleteGrows
  <2>3. CASE Answer(r, 204)
    BY <2>2, <2>3, AnswerKeeps
  <2> QED BY <2>1, <2>2, <2>3, ErrorKeeps
<1>6. CASE Insert(r)
  <2>1. pc[r] = "insert" /\ TableGrows
    BY <1>6, InsertGrows DEF Insert
  <2>2. CASE Answer(r, 201)
    BY <2>1, <2>2, AnswerKeeps
  <2> QED BY <1>6, <2>1, <2>2, ErrorKeeps DEF Insert
<1>7. CASE List(r)
  <2>1. pc[r] = "list" /\ TableGrows /\ GoTo(r, "count")
    BY <1>7, SameTable DEF List
  <2>2. req[r].op = "list" /\ pc[r] \in Steps
    BY <2>1 DEF UserInv, ReqInv, OpsAt, Steps
  <2>3. LoadedInv(r)'
    BY <2>1 DEF UserInv, UserTypeOK, GoTo, LoadedInv
  <2>4. req[r].op \in OpsAt("count") /\ "count" \in Steps
    BY <2>2 DEF OpsAt, Steps
  <2>5. /\ pc' = [pc EXCEPT ![r] = "count"] /\ UNCHANGED <<req, status>>
        /\ seen' \in [Requests -> [Fields -> Values \cup {NoValue}]]
        /\ \A s \in Requests \ {r} : seen'[s] = seen[s]
    BY <2>1 DEF GoTo, UserInv, UserTypeOK
  <2> QED BY <2>1, <2>2, <2>3, <2>4, <2>5, NextQueryKeeps
<1>8. CASE Count(r) \/ Ping(r)
  <2>1. TableGrows /\ pc[r] \in {"count", "ping"} /\ (Answer(r, 200) \/ Answer(r, 503))
    BY <1>8, SameTable DEF Count, Ping
  <2>2. req[r].op \in {"list", "ready"}
    BY <2>1 DEF UserInv, ReqInv, OpsAt, Steps
  <2>3. CASE Answer(r, 200)
    BY <2>1, <2>2, <2>3, AnswerKeeps
  <2>4. CASE Answer(r, 503)
    BY <2>1, <2>2, <2>4, AnswerKeeps
  <2> QED BY <2>1, <2>3, <2>4
<1>9. CASE Fails(r)
  BY <1>9, SameTable, ErrorKeeps DEF Fails
<1> QED
  BY <1>1, <1>2, <1>3, <1>4, <1>5, <1>6, <1>7, <1>8, <1>9 DEF HandlerStep, ListUsers

LEMMA UserInvInit == UserInit => UserInv
<1> SUFFICES ASSUME UserInit PROVE UserInv
  OBVIOUS
<1>1. Given(<<>>) \in [Fields -> Values] /\ Pairs(Given(<<>>)) \subseteq Fields \X Values
  BY GivenValues
<1> DEFINE g == Given(<<>>)
<1> HIDE DEF g
<1>2. PICK U \in SUBSET Users :
        /\ users = [u \in Users |-> IF u \in U THEN [val |-> g, deleted |-> FALSE]
                                               ELSE NoUser]
        /\ asked = [u \in Users |-> IF u \in U THEN Pairs(g) ELSE {}]
  BY DEF UserInit, g
<1>3. /\ users \in [Users -> Row \cup {NoUser}]
      /\ asked \in [Users -> SUBSET (Fields \X Values)]
  BY <1>1, <1>2 DEF Row, g
<1>4. OnlyAskedValues
  BY <1>2 DEF OnlyAskedValues
<1>5. /\ pc = [r \in Requests |-> "idle"] /\ req = [r \in Requests |-> NoReq]
      /\ seen = [r \in Requests |-> Unread] /\ status = [r \in Requests |-> 0]
      /\ wrote = {}
  BY DEF UserInit
<1>6. <<driver, provider>> \in Settings
  BY UserAssumption DEF UserInit
<1>7. UserTypeOK
  BY <1>3, <1>5, <1>6 DEF UserTypeOK, Unread
<1>8. \A r \in Requests : ReqInv(r) /\ LoadedInv(r) /\ ToldInv(r)
  BY <1>5 DEF ReqInv, LoadedInv, ToldInv, Steps
<1> QED BY <1>4, <1>7, <1>8 DEF UserInv

LEMMA UserStep == UserInv /\ [UserNext]_uvars => UserInv'
<1> SUFFICES ASSUME UserInv, [UserNext]_uvars PROVE UserInv'
  OBVIOUS
<1>1. CASE UserNext
  BY <1>1, RouteKeeps, HandlerKeeps DEF UserNext
<1>2. CASE UNCHANGED uvars
  BY <1>2 DEF uvars, requestVars, UserInv, UserTypeOK, OnlyAskedValues, ReqInv,
              LoadedInv, ToldInv
<1> QED BY <1>1, <1>2

\* The process answers requests as the routes and handlers do, and nothing
\* else that it does touches them.
LEMMA ProcessServes == [Next]_vars => [UserNext]_uvars
<1> SUFFICES ASSUME [Next]_vars PROVE [UserNext]_uvars
  OBVIOUS
<1>1. CASE Boot
  BY <1>1 DEF Boot, mustLoadConfig, LoadConfig, Validate, RunMigrations, NewGormDB,
       NewPool, NewRedis, NewProvider, NewJWTProvider, NewKeycloakProvider,
       NewOAuth2Provider, NewSAMLProvider, NewEncryptor, InitOptional, InitKafka,
       NewGRPC, Run
<1>2. CASE Work
  BY <1>2 DEF Work, Accept, Handle, UserNext, OpenStream, CloseStream, Message,
       MessageDone, timerFlush, FlushDone, RelayEnds, Submit, TaskDone
<1>3. CASE Shutdown
  BY <1>3 DEF Shutdown, SignalReceived, GracefulStop, ShutdownHTTP, CloseConsumer,
       ConsumerDrained, StopWorkers, WorkersDrained, ShutdownServices, CloseRedis,
       CloseDB, Exit
<1>4. CASE Signal \/ ServeFails \/ DispatchPanics \/ UNCHANGED vars
  BY <1>4 DEF Signal, ServeFails, DispatchPanics, vars
<1> QED BY <1>1, <1>2, <1>3, <1>4 DEF Next

(***************************************************************************)
(* The process of App, whatever its life, serves requests as UserService   *)
(* says: booting, the signal, the streams, messages, the relay, tasks and  *)
(* every step of Shutdown (app.go) leave the users table and the requests  *)
(* as they are.                                                            *)
(***************************************************************************)
THEOREM ServesUsers == Spec => UserSpec
<1>1. Init => UserInit
  BY DEF Init
<1> QED BY <1>1, ProcessServes, PTL DEF Spec, UserSpec

LEMMA UserInvariant == UserSpec => []UserInv
BY UserInvInit, UserStep, PTL DEF UserSpec

(***************************************************************************)
(* For any number of requests, users and bodies, and both repositories:    *)
(* an Update answered 200 was applied, although GORM's does not look at    *)
(* the rows its UPDATE matched, and a Delete answered 204 left the user    *)
(* deleted (modules/user, service.go and repository_gorm.go).              *)
(***************************************************************************)
THEOREM AnswersTrue == Spec => []ToldTrue
<1>1. UserInv => ToldTrue
  BY DEF UserInv, ToldInv, ToldTrue, Live
<1> QED BY <1>1, ServesUsers, UserInvariant, PTL

(***************************************************************************)
(* However Updates interleave (service.go, Update reads all fields and     *)
(* writes all of them), a field of a user holds a value that a request     *)
(* gave to that field of that user, or its default.                        *)
(***************************************************************************)
THEOREM FieldsAsAsked == Spec => []OnlyAskedValues
<1>1. UserInv => OnlyAskedValues
  BY DEF UserInv
<1> QED BY <1>1, ServesUsers, UserInvariant, PTL

=============================================================================
