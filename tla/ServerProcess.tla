---------------------------- MODULE ServerProcess ----------------------------
(***************************************************************************)
(* The life of a server process: main of cmd/server, with the goroutines   *)
(* it starts.  It connects the stores, starts the HTTP server, binds the   *)
(* gRPC port, starts the MatchWorker and the gRPC server, waits for a      *)
(* signal and takes all of it down again.  Several processes on one        *)
(* machine compete for its two ports, as when a server is replaced, and    *)
(* bring the same database up to date.                                     *)
(*                                                                         *)
(* The modules about tickets, rooms and scores start from what this one    *)
(* shows: a request runs in a process whose stores are connected, and a    *)
(* stop lets requests end but not the worker.                              *)
(* Left out: the metrics server, which is like the HTTP server but that    *)
(* nothing depends on it; what calls do; the tables other than             *)
(* match_results, which is the one that has changed since its creation.    *)
(***************************************************************************)
CONSTANTS
  Processes,  \* processes started on this machine
  NoProcess,
  Calls,      \* calls in flight at a time, of each server of a process
  Config      \* what CORERANK_MYSQL_DSN and CORERANK_MYSQL_REQUIRED ask for

ASSUME ProcessAssumption == NoProcess \notin Processes

\* Without a DSN the other variable has no effect.
Configs == {"redis only", "mysql optional", "mysql required"}
ASSUME ConfigAssumption == Config \in [Processes -> Configs]

VARIABLES
  stage,     \* where main is
  late,      \* processes whose startup context has expired
  redis, mysql, \* the clients of the stores
  schema,    \* what match_results has of what this version needs
  http,      \* the HTTP server
  grpc,      \* the gRPC server
  port,      \* the process that holds the HTTP and the gRPC port
  requests,  \* HTTP requests in flight
  rpcs,      \* RPCs in flight
  worker,    \* the goroutine of the MatchWorker
  overdue,   \* processes whose shutdown context has expired
  exit       \* how the process has ended; its other variables stay

stores == <<redis, mysql, schema>>
servers == <<http, grpc, port>>
calls == <<requests, rpcs>>
timers == <<late, overdue>>
vars == <<stage, stores, servers, calls, worker, timers, exit>>

\* The table itself, and what InitSchema makes sure of one by one.
Parts == {"table", "server_id", "server_addr", "index"}

\* What comes after a part has been ensured.
After == [server_id |-> "server_addr", server_addr |-> "index",
          index |-> "http"]

\* Where main is while it adds a missing part.
Adding == [server_id |-> "add server_id", server_addr |-> "add server_addr",
           index |-> "add index"]

InSchema == {"schema", "server_id", "server_addr", "index",
             "add server_id", "add server_addr", "add index"}

\* Where main is before it starts a server.
Connecting == {"redis", "ping", "wait"} \cup InSchema

Startup == Connecting \cup {"http", "listen", "worker", "serve", "notify"}
Takedown == {"close http", "drain http", "close grpc", "drain grpc",
             "cancel worker", "close mysql", "close redis"}

ProcessTypeOK ==
  /\ stage \in [Processes -> Startup \cup {"running"} \cup Takedown \cup {"end"}]
  /\ late \subseteq Processes
  /\ redis \in [Processes -> {"none", "open", "closed"}]
  /\ mysql \in [Processes -> {"none", "open", "closed"}]
  /\ schema \subseteq Parts
  /\ http \in [Processes -> {"none", "launched", "up", "failed", "closed"}]
  /\ grpc \in [Processes ->
                {"none", "bound", "launched", "up", "failed", "broken", "closed"}]
  /\ port \in [{"http", "grpc"} -> Processes \cup {NoProcess}]
  /\ requests \in [Processes -> SUBSET Calls]
  /\ rpcs \in [Processes -> SUBSET Calls]
  /\ worker \in [Processes -> {"none", "on", "cancelled", "off"}]
  /\ overdue \subseteq Processes
  /\ exit \in [Processes -> {"none", "0", "1", "killed"}]

\* A new database, or one of a version before the columns.
Init ==
  /\ stage = [p \in Processes |-> "redis"]
  /\ late = {}
  /\ redis = [p \in Processes |-> "none"]
  /\ mysql = [p \in Processes |-> "none"]
  /\ schema \in {{}, {"table"}}
  /\ http = [p \in Processes |-> "none"]
  /\ grpc = [p \in Processes |-> "none"]
  /\ port = [x \in {"http", "grpc"} |-> NoProcess]
  /\ requests = [p \in Processes |-> {}]
  /\ rpcs = [p \in Processes |-> {}]
  /\ worker = [p \in Processes |-> "none"]
  /\ overdue = {}
  /\ exit = [p \in Processes |-> "none"]

-----------------------------------------------------------------------------
Alive(p) == exit[p] = "none"
Goto(p, s) == stage' = [stage EXCEPT ![p] = s]

\* Main goes from one stage to the next.
Step(p, from, to) == Alive(p) /\ stage[p] = from /\ Goto(p, to)

\* The operating system takes back the ports of a process that has ended.
Freed(p) == [x \in DOMAIN port |-> IF port[x] = p THEN NoProcess ELSE port[x]]

End(p, code) ==
  /\ Goto(p, "end")
  /\ exit' = [exit EXCEPT ![p] = code]
  /\ port' = Freed(p)

\* os.Exit(1): no deferred call runs.
ExitOne(p) ==
  /\ End(p, "1")
  /\ UNCHANGED <<stores, http, grpc, calls, worker, timers>>

-----------------------------------------------------------------------------
(* Slips.                                                                  *)

\* The port is shared with a process that holds it (SO_REUSEPORT).
SlipReusePort(p) ==
  /\ Step(p, "listen", "worker")
  /\ port' = [port EXCEPT !["grpc"] = p]
  /\ grpc' = [grpc EXCEPT ![p] = "bound"]
  /\ UNCHANGED <<stores, http, calls, worker, timers, exit>>

\* A failing MySQL is always degraded to Redis only.
SlipNeverRequired(p) == Config[p] = "none"

\* An index that could not be added is not missed.
SlipSkipIndex(p, x) ==
  /\ Alive(p) /\ p \notin late /\ stage[p] = x
  /\ IF x \in schema \/ x = "index"
       THEN /\ Goto(p, After[x])
            /\ mysql' = IF x = "index" THEN [mysql EXCEPT ![p] = "open"] ELSE mysql
       ELSE Goto(p, Adding[x]) /\ UNCHANGED mysql
  /\ UNCHANGED <<redis, schema, servers, calls, worker, timers, exit>>

\* Pings go on after the startup context has expired.
SlipPingsForEver(p) == p \in Processes

\* Stop where GracefulStop was meant.
SlipNoDrain(p) == p \in Processes

\* Shutdown without a timeout.
SlipNoTimeout(p) == requests[p] = {}

-----------------------------------------------------------------------------
(* The stores.                                                             *)

PingRedis(p) ==
  /\ Step(p, "redis", IF Config[p] = "redis only" THEN "http" ELSE "ping")
  /\ redis' = [redis EXCEPT ![p] = "open"]
  /\ UNCHANGED <<mysql, schema, servers, calls, worker, timers, exit>>

PingRedisFails(p) ==
  /\ Alive(p) /\ stage[p] = "redis"
  /\ ExitOne(p)

\* pingMySQLWithRetry.  Its own deadline of 15 s is behind that of the startup
\* context, which is 10 s for both stores.
PingMySQL(p) ==
  /\ p \notin late
  /\ Step(p, "ping", "schema")
  /\ UNCHANGED <<stores, servers, calls, worker, timers, exit>>

PingMySQLFails(p) ==
  /\ Step(p, "ping", "wait")
  /\ UNCHANGED <<stores, servers, calls, worker, timers, exit>>

MayRetry(p) == p \notin late

\* The timer of 500 ms; an expired context is noticed before it.
RetryMySQL(p) ==
  /\ MayRetry(p)
  /\ Step(p, "wait", "ping")
  /\ UNCHANGED <<stores, servers, calls, worker, timers, exit>>

\* CREATE TABLE IF NOT EXISTS: an old table stays as it is.
CreateTables(p) ==
  /\ p \notin late
  /\ Step(p, "schema", "server_id")
  /\ schema' = IF "table" \in schema THEN schema ELSE Parts
  /\ UNCHANGED <<redis, mysql, servers, calls, worker, timers, exit>>

\* Part x is there: NewMySQLRepository goes on, and returns after the last one.
Ensured(p, x) ==
  /\ Goto(p, After[x])
  /\ mysql' = IF After[x] = "http" THEN [mysql EXCEPT ![p] = "open"] ELSE mysql

\* ensureColumn and ensureIndex look the part up ...
FindPart(p, x) ==
  /\ Alive(p) /\ p \notin late /\ stage[p] = x
  /\ IF x \in schema
       THEN Ensured(p, x)
       ELSE Goto(p, Adding[x]) /\ UNCHANGED mysql
  /\ UNCHANGED <<redis, schema, servers, calls, worker, timers, exit>>

\* ... and add it, which fails when another process has added it meanwhile.
AddPart(p, x) ==
  /\ Alive(p) /\ p \notin late /\ stage[p] = Adding[x]
  /\ x \notin schema
  /\ schema' = schema \cup {x}
  /\ Ensured(p, x)
  /\ UNCHANGED <<redis, servers, calls, worker, timers, exit>>

\* The context expires while the server alters the table all the same.
AddPartLate(p, x) ==
  /\ Alive(p) /\ stage[p] = Adding[x]
  /\ schema' = schema \cup {x}
  /\ late' = late \cup {p}
  /\ UNCHANGED <<stage, redis, mysql, servers, calls, worker, overdue, exit>>

MySQLRequired(p) == Config[p] = "mysql required"

\* NewMySQLRepository returns an error: a statement failed, or the last ping
\* before the startup context expired.  Without MySQL the server starts all
\* the same, unless it is required.
NewMySQLRepositoryFails(p) ==
  /\ Alive(p)
  /\ stage[p] \in InSchema \/ (stage[p] = "wait" /\ ~MayRetry(p))
  /\ IF MySQLRequired(p)
       THEN ExitOne(p)
       ELSE /\ Goto(p, "http")
            /\ UNCHANGED <<stores, servers, calls, worker, timers, exit>>

-----------------------------------------------------------------------------
(* The servers and the worker.                                             *)

LaunchHTTP(p) ==
  /\ Step(p, "http", "listen")
  /\ http' = [http EXCEPT ![p] = "launched"]
  /\ UNCHANGED <<stores, grpc, port, calls, worker, timers, exit>>

\* ListenAndServe, in a goroutine of its own; that it fails is only logged.
ListenAndServe(p) ==
  /\ Alive(p) /\ http[p] = "launched"
  /\ \/ /\ port["http"] = NoProcess
        /\ port' = [port EXCEPT !["http"] = p]
        /\ http' = [http EXCEPT ![p] = "up"]
     \/ http' = [http EXCEPT ![p] = "failed"] /\ UNCHANGED port
  /\ UNCHANGED <<stage, stores, grpc, calls, worker, timers, exit>>

ListenGRPC(p) ==
  /\ port["grpc"] = NoProcess
  /\ Step(p, "listen", "worker")
  /\ port' = [port EXCEPT !["grpc"] = p]
  /\ grpc' = [grpc EXCEPT ![p] = "bound"]
  /\ UNCHANGED <<stores, http, calls, worker, timers, exit>>

\* The process ends, with whatever HTTP requests it has accepted by now.
ListenGRPCFails(p) ==
  /\ Alive(p) /\ stage[p] = "listen"
  /\ ExitOne(p)

StartWorker(p) ==
  /\ Step(p, "worker", "serve")
  /\ worker' = [worker EXCEPT ![p] = "on"]
  /\ UNCHANGED <<stores, servers, calls, timers, exit>>

LaunchGRPC(p) ==
  /\ Step(p, "serve", "notify")
  /\ grpc' = [grpc EXCEPT ![p] = "launched"]
  /\ UNCHANGED <<stores, http, port, calls, worker, timers, exit>>

\* Serve, in a goroutine of its own.  It may fail at once or when it has been
\* up: the listener is closed, the open connections go on, and main waits on.
ServeGRPC(p) ==
  /\ Alive(p)
  /\ \/ /\ grpc[p] = "launched"
        /\ grpc' = [grpc EXCEPT ![p] = "up"] /\ UNCHANGED port
     \/ /\ \/ grpc[p] = "launched" /\ grpc' = [grpc EXCEPT ![p] = "failed"]
           \/ grpc[p] = "up" /\ grpc' = [grpc EXCEPT ![p] = "broken"]
        /\ port' = [port EXCEPT !["grpc"] = NoProcess]
  /\ UNCHANGED <<stage, stores, http, calls, worker, timers, exit>>

NotifySignals(p) ==
  /\ Step(p, "notify", "running")
  /\ UNCHANGED <<stores, servers, calls, worker, timers, exit>>

-----------------------------------------------------------------------------
(* The way down.                                                           *)

\* SIGINT or SIGTERM.  Before signal.Notify it kills the process (see Kill),
\* and a second one stays in the channel.
Signal(p) ==
  /\ Step(p, "running", "close http")
  /\ UNCHANGED <<stores, servers, calls, worker, timers, exit>>

\* httpServer.Shutdown: no new request, and wait for the others ...
CloseHTTP(p) ==
  /\ Step(p, "close http", "drain http")
  /\ http' = [http EXCEPT ![p] = "closed"]
  /\ port' = [port EXCEPT !["http"] = IF @ = p THEN NoProcess ELSE @]
  /\ UNCHANGED <<stores, grpc, calls, worker, timers, exit>>

HTTPDone(p) == requests[p] = {} \/ p \in overdue

\* ... until the shutdown context expires.
DrainHTTP(p) ==
  /\ HTTPDone(p)
  /\ Step(p, "drain http", "close grpc")
  /\ UNCHANGED <<stores, servers, calls, worker, timers, exit>>

\* GracefulStop: the same, without a timeout.
CloseGRPC(p) ==
  /\ Step(p, "close grpc", "drain grpc")
  /\ grpc' = [grpc EXCEPT ![p] = "closed"]
  /\ port' = [port EXCEPT !["grpc"] = IF @ = p THEN NoProcess ELSE @]
  /\ UNCHANGED <<stores, http, calls, worker, timers, exit>>

RPCsDone(p) == rpcs[p] = {}

DrainGRPC(p) ==
  /\ RPCsDone(p)
  /\ Step(p, "drain grpc", "cancel worker")
  /\ UNCHANGED <<stores, servers, calls, worker, timers, exit>>

\* runCancel; nobody waits for the goroutine.
CancelWorker(p) ==
  /\ Step(p, "cancel worker", "close mysql")
  /\ worker' = [worker EXCEPT ![p] = IF @ = "on" THEN "cancelled" ELSE @]
  /\ UNCHANGED <<stores, servers, calls, timers, exit>>

\* The deferred calls, last one first.
CloseMySQL(p) ==
  /\ Step(p, "close mysql", "close redis")
  /\ mysql' = [mysql EXCEPT ![p] = IF @ = "open" THEN "closed" ELSE @]
  /\ UNCHANGED <<redis, schema, servers, calls, worker, timers, exit>>

CloseRedis(p) ==
  /\ Alive(p) /\ stage[p] = "close redis"
  /\ redis' = [redis EXCEPT ![p] = "closed"]
  /\ End(p, "0")
  /\ UNCHANGED <<mysql, schema, http, grpc, calls, worker, timers>>

\* The worker's goroutine sees that its context is cancelled.
WorkerReturns(p) ==
  /\ Alive(p) /\ worker[p] = "cancelled"
  /\ worker' = [worker EXCEPT ![p] = "off"]
  /\ UNCHANGED <<stage, stores, servers, calls, timers, exit>>

-----------------------------------------------------------------------------
(* Clients, clocks and the operating system.                               *)

AcceptRequest(p, c) ==
  /\ Alive(p) /\ http[p] = "up"
  /\ requests' = [requests EXCEPT ![p] = @ \cup {c}]
  /\ UNCHANGED <<stage, stores, servers, rpcs, worker, timers, exit>>

EndRequest(p, c) ==
  /\ Alive(p) /\ c \in requests[p]
  /\ requests' = [requests EXCEPT ![p] = @ \ {c}]
  /\ UNCHANGED <<stage, stores, servers, rpcs, worker, timers, exit>>

AcceptRPC(p, c) ==
  /\ Alive(p) /\ grpc[p] \in {"up", "broken"}
  /\ rpcs' = [rpcs EXCEPT ![p] = @ \cup {c}]
  /\ UNCHANGED <<stage, stores, servers, requests, worker, timers, exit>>

EndRPC(p, c) ==
  /\ Alive(p) /\ c \in rpcs[p]
  /\ rpcs' = [rpcs EXCEPT ![p] = @ \ {c}]
  /\ UNCHANGED <<stage, stores, servers, requests, worker, timers, exit>>

\* startupTimeout and shutdownTimeout, counted from main's first line and
\* from the signal.
Expire(p) ==
  /\ Alive(p)
  /\ \/ stage[p] \in Connecting
        /\ late' = late \cup {p} /\ UNCHANGED overdue
     \/ stage[p] \in {"close http", "drain http"}
        /\ overdue' = overdue \cup {p} /\ UNCHANGED late
  /\ UNCHANGED <<stage, stores, servers, calls, worker, exit>>

\* A panic, SIGKILL, or a signal that is not yet caught.
Kill(p) ==
  /\ Alive(p)
  /\ End(p, "killed")
  /\ UNCHANGED <<stores, http, grpc, calls, worker, timers>>

-----------------------------------------------------------------------------
Main(p) ==
  \/ PingRedis(p) \/ PingRedisFails(p)
  \/ PingMySQL(p) \/ PingMySQLFails(p) \/ RetryMySQL(p)
  \/ CreateTables(p)
  \/ \E x \in DOMAIN After : FindPart(p, x) \/ AddPart(p, x)
  \/ NewMySQLRepositoryFails(p)
  \/ LaunchHTTP(p) \/ ListenGRPC(p) \/ ListenGRPCFails(p)
  \/ StartWorker(p) \/ LaunchGRPC(p) \/ NotifySignals(p)
  \/ CloseHTTP(p) \/ DrainHTTP(p) \/ CloseGRPC(p) \/ DrainGRPC(p)
  \/ CancelWorker(p) \/ CloseMySQL(p) \/ CloseRedis(p)

Next ==
  \E p \in Processes :
    \/ Main(p)
    \/ ListenAndServe(p) \/ ServeGRPC(p) \/ WorkerReturns(p)
    \/ \E c \in Calls :
         \/ AcceptRequest(p, c) \/ EndRequest(p, c)
         \/ AcceptRPC(p, c) \/ EndRPC(p, c)
    \/ \E x \in DOMAIN After : AddPartLate(p, x)
    \/ Expire(p) \/ Signal(p) \/ Kill(p)

Spec == Init /\ [][Next]_vars

\* Main goes on and time passes.  No call has to end.
FairSpec ==
  Spec /\ \A p \in Processes : WF_vars(Main(p)) /\ WF_vars(Expire(p))

-----------------------------------------------------------------------------
ShuttingDown(p) == stage[p] \in Takedown

\* The stores that the configuration asks for are connected.
Connected(p) ==
  redis[p] = "open" /\ (Config[p] = "mysql required" => mysql[p] = "open")

\* Every call that runs in a process finds the stores its configuration asks
\* for: a server takes calls only after they are connected, and they are closed
\* only after every call has ended, but for HTTP requests that the timeout of
\* the shutdown has given up.
CallsFindStores ==
  \A p \in Processes :
    Alive(p) /\ (rpcs[p] # {} \/ (requests[p] # {} /\ p \notin overdue))
      => Connected(p)

\* The database has everything this version writes to before a process uses it,
\* whichever processes brought it up to date, together or one after the other,
\* and wherever they stopped.
SchemaBeforeUse == \A p \in Processes : mysql[p] = "open" => schema = Parts

\* What an exit code says.  After 0 every RPC was answered, every request too
\* unless the timeout gave it up, the worker was told to stop and the stores are
\* closed.  After 1 no RPC was taken and no worker ran, and if a store was
\* missing no HTTP request was taken either: what is left is a gRPC port that
\* could not be bound, while HTTP requests, and matches they made, may have
\* been served.
ExitCodeTells ==
  \A p \in Processes :
    /\ exit[p] = "0" =>
         /\ rpcs[p] = {} /\ (requests[p] = {} \/ p \in overdue)
         /\ worker[p] \in {"cancelled", "off"}
         /\ redis[p] = "closed" /\ mysql[p] # "open"
    /\ exit[p] = "1" =>
         /\ rpcs[p] = {} /\ grpc[p] = "none" /\ worker[p] = "none"
         /\ http[p] = "none" \/ Connected(p)

\* Of the workers that run at the same time on one machine, all but one are in
\* processes that are shutting down, or whose gRPC server has failed: a process
\* that is started beside a running one, for the same gRPC port, starts no
\* worker (its HTTP server may take requests until it exits).
OneWorkerServes ==
  \A p, q \in Processes :
    /\ Alive(p) /\ Alive(q) /\ p # q
    /\ worker[p] = "on" /\ worker[q] = "on"
    => \/ ShuttingDown(p) \/ grpc[p] \in {"failed", "broken"}
       \/ ShuttingDown(q) \/ grpc[q] \in {"failed", "broken"}

-----------------------------------------------------------------------------
(* The inductive invariant: what the stage of main says about the rest.    *)

PastRedis == (Startup \ {"redis"}) \cup {"running"} \cup Takedown
Mirrored == PastRedis \ (Connecting \cup {"close redis"})
HTTPClosed == Takedown \ {"close http"}
HTTPDrained == HTTPClosed \ {"drain http"}
GRPCDrained == {"cancel worker", "close mysql", "close redis"}
BeforeWorker == Connecting \cup {"http", "listen", "worker"}

StageTells(p) ==
  /\ Alive(p) <=> stage[p] # "end"
  /\ stage[p] \in PastRedis => redis[p] = "open"
  /\ stage[p] \in Mirrored /\ Config[p] = "mysql required" => mysql[p] = "open"
  /\ stage[p] \in Connecting \cup {"http"} => http[p] = "none"
  /\ stage[p] \in HTTPClosed => http[p] = "closed"
  /\ http[p] = "none" => requests[p] = {}
  /\ stage[p] \in HTTPDrained => requests[p] = {} \/ p \in overdue
  /\ stage[p] \in BeforeWorker \ {"worker"} => grpc[p] = "none"
  /\ stage[p] \in {"worker", "serve"} => grpc[p] = "bound"
  /\ stage[p] \in {"notify", "running", "close http", "drain http", "close grpc"}
       => grpc[p] \in {"launched", "up", "failed", "broken"}
  /\ stage[p] \in GRPCDrained \cup {"drain grpc"} => grpc[p] = "closed"
  /\ grpc[p] \in {"none", "bound", "launched"} => rpcs[p] = {}
  /\ stage[p] \in GRPCDrained => rpcs[p] = {}
  /\ stage[p] \in BeforeWorker => worker[p] = "none"
  /\ stage[p] \in {"close mysql", "close redis"} => worker[p] \in {"cancelled", "off"}
  /\ stage[p] \in {"serve", "notify", "running"} \cup Takedown
       => worker[p] # "none"
  /\ stage[p] \notin {"close mysql", "close redis", "end"}
       => worker[p] \in {"none", "on"}
  /\ stage[p] = "close redis" => mysql[p] # "open"

\* What a process that is past a part of the schema has seen of it.
SchemaTells(p) ==
  /\ stage[p] \in InSchema \ {"schema"} => "table" \in schema
  /\ stage[p] \in {"server_addr", "add server_addr", "index", "add index"}
       => "server_id" \in schema
  /\ stage[p] \in {"index", "add index"} => "server_addr" \in schema
  /\ mysql[p] = "open" => schema = Parts

\* Of a process that has not ended, the gRPC server holds its port from bind
\* to close; no other process holds it then.
PortHeld(p) ==
  Alive(p) /\ grpc[p] \in {"bound", "launched", "up"} <=> port["grpc"] = p

ProcessInv ==
  /\ ProcessTypeOK
  /\ ExitCodeTells
  /\ \A p \in Processes : StageTells(p) /\ SchemaTells(p) /\ PortHeld(p)

-----------------------------------------------------------------------------
(* Liveness, under FairSpec.                                               *)

\* A start comes to an end, in a running server or an exit, also when MySQL
\* never answers.
StartEnds ==
  \A p \in Processes : stage[p] \in Startup ~> stage[p] \notin Startup

\* A process that was told to stop ends, however long its HTTP requests take,
\* unless an RPC stays open for ever (a client of the reflection service may
\* hold its stream open): GracefulStop has no timeout.
SignalEndsProcess ==
  \A p \in Processes :
    <>[](rpcs[p] # {}) \/ (ShuttingDown(p) ~> exit[p] # "none")
=============================================================================
