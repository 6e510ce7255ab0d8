-------------------------------- MODULE App --------------------------------
(***************************************************************************)
(* One process of the application: cmd/serve.go, pkg/app and the gRPC      *)
(* server of pkg/grpcserver, around the handlers of UserService.  It       *)
(* boots step by step, serves HTTP and gRPC, consumes messages and runs    *)
(* background tasks until a signal or an error, and shuts down in the      *)
(* order of Run and Shutdown.  What goes on inside the relay, the consumer *)
(* and the worker pool is modelled in Relay, Consumer and WorkerPool; here *)
(* a message, a batch, a round of the relay and a task are something under *)
(* way that needs the stores, and Shutdown does not wait for all of them.  *)
(***************************************************************************)
EXTENDS UserService

CONSTANTS Configs,     \* [redis, grpc, kafka : BOOLEAN, subs]: subs says what is
                       \* subscribed to Services.KafkaConsumer
          MaxTasks, MaxMsgs, MaxStreams   \* bounds: under way at a time

ASSUME AppAssumption ==
    /\ Configs \subseteq [redis : BOOLEAN, grpc : BOOLEAN, kafka : BOOLEAN,
                          subs : {"none", "plain", "batch"}]
    /\ MaxTasks \in Nat /\ MaxMsgs \in Nat /\ MaxStreams \in Nat

VARIABLES cfg,        \* the configuration
          phase,      \* where the main goroutine is
          exit,       \* exit status of the process, "none" while it runs
          signalled,  \* the context of signal.NotifyContext is done
          stores,     \* data stores that are open
          producer,   \* Services.KafkaProducer
          consumer,   \* Services.KafkaConsumer
          pool,       \* App.Workers
          relay,      \* the goroutine of the outbox relay
          streams,    \* gRPC streams that clients hold open
          msgs,       \* messages dispatched to a worker and not yet handled
          buffered,   \* messages in the buffer of a Batcher
          flushing,   \* messages of batches whose flush is running
          tasks       \* tasks queued or running in the pool

lifeVars == <<phase, exit, signalled>>
batchVars == <<buffered, flushing>>
loadVars == <<streams, msgs, batchVars, tasks, relay>>
openVars == <<stores, producer, consumer, pool>>
avars == <<cfg, lifeVars, openVars, loadVars>>
vars  == <<uvars, avars>>

Booting  == {"config", "validate", "migrate", "db", "redis", "auth",
             "services", "optional", "kafka", "grpc", "run"}
Stopping == {"stopGRPC", "stopHTTP", "closeConsumer", "stopWorkers",
             "closeServices", "closeRedis", "closeDB", "sync"}

TypeOK ==
    /\ UserTypeOK
    /\ cfg \in Configs
    /\ phase \in Booting \cup {"serving", "exited"} \cup Stopping
    /\ exit \in {"none", "ok", "fatal", "panic"}
    /\ (exit = "none") = (phase # "exited")
    /\ signalled \in BOOLEAN
    /\ stores \subseteq {"db", "redis"}
    /\ producer \in {"none", "open", "closed"}
    /\ consumer \in {"none", "open", "closing", "closed"}
    /\ pool \in {"none", "open", "closing", "closed"}
    /\ relay \in {"none", "running", "ended"}
    /\ streams \in 0..MaxStreams /\ tasks \in 0..MaxTasks
    /\ {msgs, buffered, flushing} \subseteq Nat /\ msgs + buffered + flushing <= MaxMsgs

Init ==
    /\ UserInit
    /\ cfg \in Configs
    /\ phase = "config" /\ exit = "none" /\ signalled = FALSE
    /\ stores = {} /\ producer = "none" /\ consumer = "none" /\ pool = "none"
    /\ streams = 0 /\ msgs = 0 /\ buffered = 0 /\ flushing = 0 /\ tasks = 0
    /\ relay = "none"

Running == exit = "none"

GoOn(next) == phase' = next /\ UNCHANGED <<exit, signalled>>

\* The process ends where it is; no deferred call runs.
Ends(how) == phase' = "exited" /\ exit' = how /\ UNCHANGED signalled

\* SIGINT or SIGTERM, at any time.
Signal ==
    /\ Running /\ ~signalled
    /\ signalled' = TRUE
    /\ UNCHANGED <<uvars, cfg, phase, exit, openVars, loadVars>>

----------------------------------------------------------------------------
(* runServe up to Run.  An error of New is fatal.                          *)

\* A configuration file that cannot be read is fatal; a missing one is not.
LoadConfig ==
    /\ phase = "config"
    /\ GoOn("validate") \/ Ends("fatal")
    /\ UNCHANGED <<uvars, cfg, openVars, loadVars>>

\* What is configured now is valid; any setting that is not is fatal.
Validate ==
    /\ phase = "validate"
    /\ GoOn("migrate") \/ Ends("fatal")
    /\ UNCHANGED <<uvars, cfg, openVars, loadVars>>

mustLoadConfig == LoadConfig \/ Validate

\* A failing migration is only logged.
RunMigrations ==
    /\ phase = "migrate"
    /\ GoOn("db")
    /\ UNCHANGED <<uvars, cfg, openVars, loadVars>>

\* gorm.Open does not look at the context ...
NewGormDB ==
    /\ phase = "db" /\ driver = "gorm"
    /\ \/ GoOn("redis") /\ stores' = stores \cup {"db"}
       \/ Ends("fatal") /\ UNCHANGED stores
    /\ UNCHANGED <<uvars, cfg, producer, consumer, pool, loadVars>>

\* ... and the pool of SQLC is pinged under it.
NewPool ==
    /\ phase = "db" /\ driver # "gorm"
    /\ \/ ~signalled /\ GoOn("redis") /\ stores' = stores \cup {"db"}
       \/ Ends("fatal") /\ UNCHANGED stores
    /\ UNCHANGED <<uvars, cfg, producer, consumer, pool, loadVars>>

NewRedis ==
    /\ phase = "redis"
    /\ \/ cfg.redis /\ ~signalled /\ GoOn("auth") /\ stores' = stores \cup {"redis"}
       \/ cfg.redis /\ Ends("fatal") /\ UNCHANGED stores
       \/ ~cfg.redis /\ GoOn("auth") /\ UNCHANGED stores
    /\ UNCHANGED <<uvars, cfg, producer, consumer, pool, loadVars>>

\* The provider is made, and next the worker pool.
NewWorkerPool == GoOn("services") /\ pool' = "open"

ProviderFails == Ends("fatal") /\ UNCHANGED pool

\* Keys from the configuration or from files.
NewJWTProvider ==
    /\ phase = "auth" /\ provider = "jwt"
    /\ NewWorkerPool \/ ProviderFails
    /\ UNCHANGED <<uvars, cfg, stores, producer, consumer, loadVars>>

\* Nothing is asked of Keycloak yet.
NewKeycloakProvider ==
    /\ phase = "auth" /\ provider = "keycloak"
    /\ NewWorkerPool
    /\ UNCHANGED <<uvars, cfg, stores, producer, consumer, loadVars>>

\* OIDC discovery, under the context.
NewOAuth2Provider ==
    /\ phase = "auth" /\ provider = "oauth2"
    /\ (~signalled /\ NewWorkerPool) \/ ProviderFails
    /\ UNCHANGED <<uvars, cfg, stores, producer, consumer, loadVars>>

\* What reading the key pair, and fetching or reading the metadata, may return:
\* files and network, without the context.
loadSPKeyPair      == {"ok", "error"}
resolveIDPMetadata == {"ok", "error"}

NewSAMLProvider ==
    /\ phase = "auth" /\ provider = "saml"
    /\ NewWorkerPool \/ ("error" \in loadSPKeyPair \cup resolveIDPMetadata /\ ProviderFails)
    /\ UNCHANGED <<uvars, cfg, stores, producer, consumer, loadVars>>

NewProvider ==
    NewJWTProvider \/ NewKeycloakProvider \/ NewOAuth2Provider \/ NewSAMLProvider

\* A key that is not 32 bytes in hex is fatal.
NewEncryptor ==
    /\ phase = "services"
    /\ GoOn("optional") \/ Ends("fatal")
    /\ UNCHANGED <<uvars, cfg, openVars, loadVars>>

\* What the initialisers of the optional services return: the first three only
\* keep their settings, the others make a client of a library.
initStripe        == {"ok"}
initSendGrid      == {"ok"}
initIceWarp       == {"ok"}
initFirebase      == {"ok", "error"}
initElasticsearch == {"ok", "error"}

optionalServiceInits ==
    {initStripe, initSendGrid, initIceWarp, initFirebase, initElasticsearch}

\* One after the other, and the first error is fatal.
InitOptional ==
    /\ phase = "optional"
    /\ \/ GoOn("kafka")
       \/ (\E initFn \in optionalServiceInits : "error" \in initFn) /\ Ends("fatal")
    /\ UNCHANGED <<uvars, cfg, openVars, loadVars>>

\* Kafka clients that cannot be made are only logged.
InitKafka ==
    /\ phase = "kafka"
    /\ GoOn("grpc")
    /\ producer' \in {"none"} \cup {x \in {"open"} : cfg.kafka}
    /\ consumer' \in {"none"} \cup {x \in {"open"} : cfg.kafka}
    /\ UNCHANGED <<uvars, cfg, stores, pool, loadVars>>

\* grpcserver.New listens.
NewGRPC ==
    /\ phase = "grpc"
    /\ GoOn("run") \/ (cfg.grpc /\ Ends("fatal"))
    /\ UNCHANGED <<uvars, cfg, openVars, loadVars>>

\* Run starts the relay, if it has a producer and GORM, the consumer and the
\* servers.
Run ==
    /\ phase = "run"
    /\ GoOn("serving")
    /\ relay' = IF producer = "open" /\ driver = "gorm" THEN "running" ELSE "none"
    /\ UNCHANGED <<uvars, cfg, openVars, streams, msgs, batchVars, tasks>>

----------------------------------------------------------------------------
(* What the process does meanwhile.                                        *)

HTTPOpen == phase \in {"serving", "stopGRPC"}

Accept(r) ==
    /\ HTTPOpen
    /\ Arrives(r)
    /\ UNCHANGED avars

Handle(r) ==
    /\ Running
    /\ HandlerStep(r)
    /\ UNCHANGED avars

\* Methods that AuthInterceptor and StreamAuthInterceptor let pass.
healthSkip == {"Check", "Watch"}

\* A stream: the health service's Watch, or reflection.
OpenStream ==
    /\ cfg.grpc /\ phase = "serving"
    /\ streams < MaxStreams
    /\ \E method \in {"Watch", "ServerReflectionInfo"},
          token \in Tokens \cup {NoToken} :
          method \in healthSkip \/ Auth(token) # {Invalid}
    /\ streams' = streams + 1
    /\ UNCHANGED <<uvars, cfg, lifeVars, openVars, msgs, batchVars, tasks, relay>>

\* The client ends its stream.
CloseStream ==
    /\ Running /\ streams > 0
    /\ streams' = streams - 1
    /\ UNCHANGED <<uvars, cfg, lifeVars, openVars, msgs, batchVars, tasks, relay>>

\* ConsumeClaim dispatches a message of a subscription.
Message ==
    /\ phase \in {"serving"} \cup Stopping
    /\ cfg.subs # "none" /\ consumer = "open"
    /\ msgs + buffered + flushing < MaxMsgs
    /\ msgs' = msgs + 1
    /\ UNCHANGED <<uvars, cfg, lifeVars, openVars, streams, batchVars, tasks, relay>>

\* The handler of a plain subscription returns.
HandlerDone ==
    /\ cfg.subs = "plain"
    /\ UNCHANGED batchVars

\* The handler of a batch subscription is Batcher.Add: the message is buffered,
\* or flushed with the rest when the batch is full, or dropped once Shutdown has
\* stopped the batcher.
Add ==
    /\ cfg.subs = "batch"
    /\ \/ consumer = "open" /\ buffered' = buffered + 1 /\ UNCHANGED flushing
       \/ consumer = "open" /\ buffered' = 0 /\ flushing' = flushing + buffered + 1
       \/ consumer # "open" /\ UNCHANGED batchVars

MessageDone ==
    /\ Running /\ msgs > 0
    /\ msgs' = msgs - 1
    /\ HandlerDone \/ Add
    /\ UNCHANGED <<uvars, cfg, lifeVars, openVars, streams, tasks, relay>>

\* A goroutine of its own for the batch, which nobody waits for.
flushLocked == flushing' = flushing + buffered /\ buffered' = 0

timerFlush ==
    /\ Running /\ consumer = "open" /\ buffered > 0
    /\ flushLocked
    /\ UNCHANGED <<uvars, cfg, lifeVars, openVars, streams, msgs, tasks, relay>>

\* A batch of n messages is handled, and its goroutine ends.
FlushDone ==
    /\ Running
    /\ \E n \in 1..flushing : flushing' = flushing - n
    /\ UNCHANGED <<uvars, cfg, lifeVars, openVars, streams, msgs, buffered, tasks, relay>>

\* The relay looks at the context between its rounds, and nobody waits for it:
\* until it ends it may poll the database and publish.
RelayEnds ==
    /\ Running /\ relay = "running" /\ signalled
    /\ relay' = "ended"
    /\ UNCHANGED <<uvars, cfg, lifeVars, openVars, streams, msgs, batchVars, tasks>>

\* A handler, of a request, of a message or of a batch, submits a task.
Submit ==
    /\ Running
    /\ msgs > 0 \/ flushing > 0 \/ \E r \in Requests : InFlight(r)
    /\ pool = "open" /\ tasks < MaxTasks
    /\ tasks' = tasks + 1
    /\ UNCHANGED <<uvars, cfg, lifeVars, openVars, streams, msgs, batchVars, relay>>

TaskDone ==
    /\ Running /\ tasks > 0
    /\ tasks' = tasks - 1
    /\ UNCHANGED <<uvars, cfg, lifeVars, openVars, streams, msgs, batchVars, relay>>

----------------------------------------------------------------------------
(* Run returns, and Shutdown is called.                                    *)

\* A server's error: log.Fatal, and the deferred Shutdown is skipped.
ServeFails ==
    /\ phase = "serving"
    /\ Ends("fatal")
    /\ UNCHANGED <<uvars, cfg, openVars, loadVars>>

SignalReceived ==
    /\ phase = "serving" /\ signalled
    /\ GoOn("stopGRPC")
    /\ UNCHANGED <<uvars, cfg, openVars, loadVars>>

\* GracefulStop waits for every stream, without a limit; HTTP is still open.
GracefulStop ==
    /\ phase = "stopGRPC"
    /\ streams = 0
    /\ GoOn("stopHTTP")
    /\ UNCHANGED <<uvars, cfg, openVars, loadVars>>

Idle == \A r \in Requests : ~InFlight(r)

\* Mutant of ShutdownHTTP: the error of Run is only logged.
ShutdownHTTPLogged ==
    /\ phase = "stopHTTP"
    /\ GoOn("closeConsumer")
    /\ UNCHANGED <<uvars, cfg, openVars, loadVars>>

\* Mutant of ShutdownHTTP: without the limit of 15 s.
ShutdownHTTPWaits ==
    /\ phase = "stopHTTP"
    /\ Idle /\ GoOn("closeConsumer")
    /\ UNCHANGED <<uvars, cfg, openVars, loadVars>>

\* server.Shutdown waits for the handlers; after 15 s its error is fatal.
ShutdownHTTP ==
    /\ phase = "stopHTTP"
    /\ IF Idle THEN GoOn("closeConsumer") ELSE Ends("fatal")
    /\ UNCHANGED <<uvars, cfg, openVars, loadVars>>

\* KafkaConsumer.Close: no more messages, and the batcher is flushed ...
CloseConsumer ==
    /\ phase = "closeConsumer"
    /\ \/ consumer = "open" /\ consumer' = "closing" /\ flushLocked /\ UNCHANGED phase
       \/ consumer = "none" /\ phase' = "stopWorkers" /\ UNCHANGED <<consumer, batchVars>>
    /\ UNCHANGED <<uvars, cfg, exit, signalled, stores, producer, pool>>
    /\ UNCHANGED <<streams, msgs, tasks, relay>>

\* ... ConsumeClaim, which nobody has stopped, may dispatch one more message to a
\* closed channel ...
DispatchPanics ==
    /\ consumer = "closing" /\ cfg.subs # "none" /\ Running
    /\ Ends("panic")
    /\ UNCHANGED <<uvars, cfg, openVars, loadVars>>

\* ... and the workers of the dispatchers are waited for, the flushes are not.
ConsumerDrained ==
    /\ phase = "closeConsumer" /\ consumer = "closing"
    /\ msgs = 0
    /\ consumer' = "closed" /\ GoOn("stopWorkers")
    /\ UNCHANGED <<uvars, cfg, stores, producer, pool, loadVars>>

StopWorkers ==
    /\ phase = "stopWorkers" /\ pool = "open"
    /\ pool' = "closing"
    /\ UNCHANGED <<uvars, cfg, lifeVars, stores, producer, consumer, loadVars>>

\* Mutant of WorkersDrained: Shutdown does not wait.
WorkersNotDrained ==
    /\ phase = "stopWorkers" /\ pool = "closing"
    /\ pool' = "closed" /\ GoOn("closeServices")
    /\ UNCHANGED <<uvars, cfg, stores, producer, consumer, loadVars>>

WorkersDrained ==
    /\ phase = "stopWorkers" /\ pool = "closing"
    /\ tasks = 0
    /\ pool' = "closed" /\ GoOn("closeServices")
    /\ UNCHANGED <<uvars, cfg, stores, producer, consumer, loadVars>>

\* Services.shutdown closes the producer and the consumer, this a second time:
\* the dispatchers of its subscriptions close closed channels.
ShutdownServices ==
    /\ phase = "closeServices"
    /\ producer' = IF producer = "open" THEN "closed" ELSE producer
    /\ IF consumer = "closed" /\ cfg.subs # "none" THEN Ends("panic")
                                                   ELSE GoOn("closeRedis")
    /\ UNCHANGED <<uvars, cfg, stores, consumer, pool, loadVars>>

CloseRedis ==
    /\ phase = "closeRedis"
    /\ stores' = stores \ {"redis"} /\ GoOn("closeDB")
    /\ UNCHANGED <<uvars, cfg, producer, consumer, pool, loadVars>>

CloseDB ==
    /\ phase = "closeDB"
    /\ stores' = stores \ {"db"} /\ GoOn("sync")
    /\ UNCHANGED <<uvars, cfg, producer, consumer, pool, loadVars>>

\* The log is flushed, and main returns.
Exit ==
    /\ phase = "sync"
    /\ Ends("ok")
    /\ UNCHANGED <<uvars, cfg, openVars, loadVars>>

----------------------------------------------------------------------------
Boot ==
    \/ mustLoadConfig \/ RunMigrations \/ NewGormDB \/ NewPool \/ NewRedis
    \/ NewProvider \/ NewEncryptor \/ InitOptional \/ InitKafka \/ NewGRPC \/ Run

Work ==
    \/ \E r \in Requests : Accept(r) \/ Handle(r)
    \/ OpenStream \/ CloseStream
    \/ Message \/ MessageDone \/ timerFlush \/ FlushDone
    \/ RelayEnds \/ Submit \/ TaskDone

Shutdown ==
    \/ SignalReceived \/ GracefulStop \/ ShutdownHTTP \/ CloseConsumer
    \/ ConsumerDrained \/ StopWorkers \/ WorkersDrained \/ ShutdownServices
    \/ CloseRedis \/ CloseDB \/ Exit

Next == Signal \/ Boot \/ Work \/ ServeFails \/ DispatchPanics \/ Shutdown

Spec == Init /\ [][Next]_vars

\* The main goroutine goes on, and message handlers and tasks return.  Nothing
\* is assumed of the handlers of requests, of flushes and rounds of the relay, or
\* of clients that hold a stream.
Fairness ==
    /\ WF_vars(Boot) /\ WF_vars(Shutdown)
    /\ WF_vars(MessageDone) /\ WF_vars(TaskDone)

FairSpec == Spec /\ Fairness

----------------------------------------------------------------------------
\* A handler of a request or a message, or a task, that is under way finds the
\* data stores open and the producer not closed, and a handler finds the worker
\* pool open, since it may submit a task: Run and Shutdown open them before
\* anything is accepted and close them, one after the other, when the last of
\* these users is gone, although flushes and the relay, which Shutdown does not
\* wait for, go on beside it and submit tasks of their own.  Of those two nothing
\* is said: they may find everything closed.
NoUseAfterClose ==
    Running =>
        /\ ~Idle \/ msgs > 0 \/ tasks > 0 =>
              /\ "db" \in stores /\ (cfg.redis => "redis" \in stores)
              /\ producer # "closed"
        /\ ~Idle \/ msgs > 0 => pool = "open"

\* A process that ends with status 0 has answered every request it accepted,
\* has handled its messages and has run its tasks.
CleanExit == exit = "ok" => Idle /\ msgs = 0 /\ tasks = 0 /\ streams = 0

\* After a signal the process ends, even when a handler hangs, unless a client
\* keeps a gRPC stream open for ever.
SignalEnds == <>[](streams = 0) => (signalled ~> exit # "none")

=============================================================================
