------------------------ MODULE ServerProcess_proofs ------------------------
(* Proofs about ServerProcess.  A step is one process's own, but for the    *)
(* ports; so each lemma shows three things of it: the types, that nothing   *)
(* changes for the others (Others), and what holds of the process itself.   *)
EXTENDS ServerProcess, TLAPS

\* Nothing of process q has changed.
Same(q) ==
  /\ stage'[q] = stage[q] /\ exit'[q] = exit[q]
  /\ redis'[q] = redis[q] /\ mysql'[q] = mysql[q]
  /\ http'[q] = http[q] /\ grpc'[q] = grpc[q]
  /\ requests'[q] = requests[q] /\ rpcs'[q] = rpcs[q]
  /\ worker'[q] = worker[q]
  /\ q \in overdue <=> q \in overdue'
  /\ port'["grpc"] = q <=> port["grpc"] = q
  /\ schema \subseteq schema'

Others(p) == \A q \in Processes \ {p} : Same(q)

\* What ExitCodeTells says of one process.
ExitTells(p) ==
  /\ exit[p] = "0" =>
       /\ rpcs[p] = {} /\ (requests[p] = {} \/ p \in overdue)
       /\ worker[p] \in {"cancelled", "off"}
       /\ redis[p] = "closed" /\ mysql[p] # "open"
  /\ exit[p] = "1" =>
       /\ rpcs[p] = {} /\ grpc[p] = "none" /\ worker[p] = "none"
       /\ http[p] = "none" \/ Connected(p)

Tells(p) == StageTells(p) /\ SchemaTells(p) /\ PortHeld(p) /\ ExitTells(p)

LEMMA InvByProcess ==
  ProcessInv <=> ProcessTypeOK /\ \A p \in Processes : Tells(p)
BY DEF ProcessInv, ExitCodeTells, Tells, ExitTells

\* A process of which nothing changes is as before.
LEMMA SameTells ==
  ASSUME NEW q \in Processes, ProcessTypeOK, ProcessTypeOK', Tells(q), Same(q)
  PROVE  Tells(q)'
<1>1. StageTells(q)'
  BY ZenonT(60) DEF Tells, Same, StageTells, Alive
<1>2. PortHeld(q)'
  BY DEF Tells, Same, PortHeld, Alive
<1>3. ExitTells(q)'
  BY DEF Tells, Same, ExitTells, Connected
<1>4. SchemaTells(q)'
  <2>1. /\ stage'[q] = stage[q] /\ mysql'[q] = mysql[q]
        /\ schema \subseteq schema' /\ schema' \subseteq Parts
    BY DEF Same, ProcessTypeOK
  <2>2. SchemaTells(q) BY DEF Tells
  <2> HIDE DEF SchemaTells
  <2>3. schema = Parts => schema' = Parts BY <2>1
  <2> QED BY ONLY <2>1, <2>2, <2>3 DEF SchemaTells
<1> QED BY <1>1, <1>2, <1>3, <1>4 DEF Tells

\* The rule by which every lemma below ends.
LEMMA StepRule ==
  ASSUME ProcessInv, NEW p \in Processes,
         ProcessTypeOK', Others(p), Tells(p)'
  PROVE  ProcessInv'
<1>1. \A q \in Processes : Tells(q)'
  <2> SUFFICES ASSUME NEW q \in Processes PROVE Tells(q)' OBVIOUS
  <2>1. CASE q = p BY <2>1
  <2>2. CASE q # p BY <2>2, InvByProcess, SameTells DEF Others
  <2> QED BY <2>1, <2>2
<1> QED BY <1>1 DEF ProcessInv, ExitCodeTells, Tells, ExitTells

-----------------------------------------------------------------------------
(* The steps.                                                              *)

LEMMA PingRedisStep ==
  ASSUME ProcessInv, NEW p \in Processes, PingRedis(p)
  PROVE  ProcessInv'
<1>1. ProcessTypeOK /\ Tells(p) BY InvByProcess
<1> USE <1>1, ProcessAssumption DEF ProcessTypeOK, PingRedis, Step, Goto, Alive, stores, servers, calls, timers
<1>2. ProcessTypeOK' BY DEF Startup, Takedown, Connecting, InSchema
<1>3. Others(p) BY DEF Others, Same
<1>4. StageTells(p)' BY DEF Tells, StageTells, PastRedis, Mirrored,
       HTTPClosed, HTTPDrained, GRPCDrained, BeforeWorker, Startup, Takedown,
       Connecting, InSchema, Parts
<1>5. PortHeld(p)' BY DEF Tells, StageTells, PortHeld, GRPCDrained, BeforeWorker
<1>6. ExitTells(p)' BY DEF Tells, StageTells, ExitTells, Connected, GRPCDrained,
       HTTPDrained, HTTPClosed, BeforeWorker, Connecting, InSchema, Takedown
<1>7. SchemaTells(p)' BY DEF Tells, SchemaTells, InSchema, Parts
<1> QED BY <1>2, <1>3, <1>4, <1>5, <1>6, <1>7, StepRule DEF Tells

LEMMA PingRedisFailsStep ==
  ASSUME ProcessInv, NEW p \in Processes, PingRedisFails(p)
  PROVE  ProcessInv'
<1>1. ProcessTypeOK /\ Tells(p) BY InvByProcess
<1> USE <1>1, ProcessAssumption DEF ProcessTypeOK, PingRedisFails, ExitOne, End, Freed, Goto, Alive, stores, servers, calls, timers
<1>2. ProcessTypeOK' BY DEF Startup, Takedown, Connecting, InSchema
<1>3. Others(p) BY DEF Others, Same
<1>4. StageTells(p)' BY DEF Tells, StageTells, PastRedis, Mirrored,
       HTTPClosed, HTTPDrained, GRPCDrained, BeforeWorker, Startup, Takedown,
       Connecting, InSchema, Parts
<1>5. PortHeld(p)' BY DEF Tells, StageTells, PortHeld, GRPCDrained, BeforeWorker
<1>6. ExitTells(p)' BY DEF Tells, StageTells, ExitTells, Connected, GRPCDrained,
       HTTPDrained, HTTPClosed, BeforeWorker, Connecting, InSchema, Takedown
<1>7. SchemaTells(p)' BY DEF Tells, SchemaTells, InSchema, Parts
<1> QED BY <1>2, <1>3, <1>4, <1>5, <1>6, <1>7, StepRule DEF Tells

LEMMA PingMySQLStep ==
  ASSUME ProcessInv, NEW p \in Processes, PingMySQL(p)
  PROVE  ProcessInv'
<1>1. ProcessTypeOK /\ Tells(p) BY InvByProcess
<1> USE <1>1, ProcessAssumption DEF ProcessTypeOK, PingMySQL, Step, Goto, Alive, stores, servers, calls, timers
<1>2. ProcessTypeOK' BY DEF Startup, Takedown, Connecting, InSchema
<1>3. Others(p) BY DEF Others, Same
<1>4. StageTells(p)' BY DEF Tells, StageTells, PastRedis, Mirrored,
       HTTPClosed, HTTPDrained, GRPCDrained, BeforeWorker, Startup, Takedown,
       Connecting, InSchema, Parts
<1>5. PortHeld(p)' BY DEF Tells, StageTells, PortHeld, GRPCDrained, BeforeWorker
<1>6. ExitTells(p)' BY DEF Tells, StageTells, ExitTells, Connected, GRPCDrained,
       HTTPDrained, HTTPClosed, BeforeWorker, Connecting, InSchema, Takedown
<1>7. SchemaTells(p)' BY DEF Tells, SchemaTells, InSchema, Parts
<1> QED BY <1>2, <1>3, <1>4, <1>5, <1>6, <1>7, StepRule DEF Tells

LEMMA PingMySQLFailsStep ==
  ASSUME ProcessInv, NEW p \in Processes, PingMySQLFails(p)
  PROVE  ProcessInv'
<1>1. ProcessTypeOK /\ Tells(p) BY InvByProcess
<1> USE <1>1, ProcessAssumption DEF ProcessTypeOK, PingMySQLFails, Step, Goto, Alive, stores, servers, calls, timers
<1>2. ProcessTypeOK' BY DEF Startup, Takedown, Connecting, InSchema
<1>3. Others(p) BY DEF Others, Same
<1>4. StageTells(p)' BY DEF Tells, StageTells, PastRedis, Mirrored,
       HTTPClosed, HTTPDrained, GRPCDrained, BeforeWorker, Startup, Takedown,
       Connecting, InSchema, Parts
<1>5. PortHeld(p)' BY DEF Tells, StageTells, PortHeld, GRPCDrained, BeforeWorker
<1>6. ExitTells(p)' BY DEF Tells, StageTells, ExitTells, Connected, GRPCDrained,
       HTTPDrained, HTTPClosed, BeforeWorker, Connecting, InSchema, Takedown
<1>7. SchemaTells(p)' BY DEF Tells, SchemaTells, InSchema, Parts
<1> QED BY <1>2, <1>3, <1>4, <1>5, <1>6, <1>7, StepRule DEF Tells

LEMMA RetryMySQLStep ==
  ASSUME ProcessInv, NEW p \in Processes, RetryMySQL(p)
  PROVE  ProcessInv'
<1>1. ProcessTypeOK /\ Tells(p) BY InvByProcess
<1> USE <1>1, ProcessAssumption DEF ProcessTypeOK, RetryMySQL, MayRetry, Step, Goto, Alive, stores, servers, calls, timers
<1>2. ProcessTypeOK' BY DEF Startup, Takedown, Connecting, InSchema
<1>3. Others(p) BY DEF Others, Same
<1>4. StageTells(p)' BY DEF Tells, StageTells, PastRedis, Mirrored,
       HTTPClosed, HTTPDrained, GRPCDrained, BeforeWorker, Startup, Takedown,
       Connecting, InSchema, Parts
<1>5. PortHeld(p)' BY DEF Tells, StageTells, PortHeld, GRPCDrained, BeforeWorker
<1>6. ExitTells(p)' BY DEF Tells, StageTells, ExitTells, Connected, GRPCDrained,
       HTTPDrained, HTTPClosed, BeforeWorker, Connecting, InSchema, Takedown
<1>7. SchemaTells(p)' BY DEF Tells, SchemaTells, InSchema, Parts
<1> QED BY <1>2, <1>3, <1>4, <1>5, <1>6, <1>7, StepRule DEF Tells

\* While main connects MySQL nothing but the clients and the schema changes.
LEMMA ConnectingRule ==
  ASSUME ProcessInv, NEW p \in Processes, Alive(p),
         stage[p] \in InSchema \cup {"wait"},
         NEW s \in InSchema \cup {"http"}, Goto(p, s),
         schema \subseteq schema', schema' \subseteq Parts,
         mysql' = mysql \/ mysql' = [mysql EXCEPT ![p] = "open"],
         s = "http" /\ Config[p] = "mysql required" => mysql'[p] = "open",
         late' \subseteq Processes, SchemaTells(p)',
         UNCHANGED <<redis, servers, calls, worker, overdue, exit>>
  PROVE  ProcessInv'
<1>1. ProcessTypeOK /\ Tells(p) BY InvByProcess
<1> USE <1>1, ProcessAssumption DEF ProcessTypeOK, Goto, Alive, servers, calls
<1>2. ProcessTypeOK'
  <2>1. stage' \in [Processes -> Startup \cup {"running"} \cup Takedown \cup {"end"}]
    BY DEF Startup, Connecting
  <2>2. mysql' \in [Processes -> {"none", "open", "closed"}] OBVIOUS
  <2> QED BY <2>1, <2>2
<1>3. Others(p)
  <2>1. ASSUME NEW q \in Processes \ {p}
        PROVE  stage'[q] = stage[q] /\ mysql'[q] = mysql[q]
    OBVIOUS
  <2> QED BY <2>1 DEF Others, Same
<1>4. StageTells(p)'
  <2>1. stage'[p] = s OBVIOUS
  <2>2. /\ redis[p] = "open" /\ http[p] = "none" /\ grpc[p] = "none"
        /\ worker[p] = "none" /\ requests[p] = {} /\ rpcs[p] = {}
    BY DEF Tells, StageTells, PastRedis, Startup, Connecting, BeforeWorker, InSchema
  <2> QED BY <2>1, <2>2 DEF StageTells, PastRedis, Mirrored, HTTPClosed,
         HTTPDrained, GRPCDrained, BeforeWorker, Startup, Takedown, Connecting,
         InSchema
<1>5. PortHeld(p)' BY DEF Tells, PortHeld
<1>6. ExitTells(p)' BY DEF Tells, ExitTells
<1> QED BY <1>2, <1>3, <1>4, <1>5, <1>6, StepRule DEF Tells

\* After and Adding, applied.
LEMMA Following ==
  /\ After["server_id"] = "server_addr" /\ After["server_addr"] = "index"
  /\ After["index"] = "http"
  /\ Adding["server_id"] = "add server_id"
  /\ Adding["server_addr"] = "add server_addr" /\ Adding["index"] = "add index"
BY DEF After, Adding

LEMMA FollowingStages ==
  ASSUME NEW x \in {"server_id", "server_addr", "index"}
  PROVE  /\ After[x] \in InSchema \cup {"http"}
         /\ Adding[x] \in InSchema /\ Adding[x] # "http"
<1>1. CASE x = "server_id" BY <1>1, Following DEF InSchema
<1>2. CASE x = "server_addr" BY <1>2, Following DEF InSchema
<1>3. CASE x = "index" BY <1>3, Following DEF InSchema
<1> QED BY <1>1, <1>2, <1>3

\* Part x has been found or added, and main goes on.
LEMMA EnsuredRule ==
  ASSUME ProcessInv, NEW p \in Processes, Alive(p),
         NEW x \in {"server_id", "server_addr", "index"}, Ensured(p, x),
         stage[p] = x \/ stage[p] = Adding[x], schema' = schema \cup {x},
         late' \subseteq Processes,
         UNCHANGED <<redis, servers, calls, worker, overdue, exit>>
  PROVE  ProcessInv'
<1>1. ProcessTypeOK /\ SchemaTells(p) BY InvByProcess DEF Tells
<1>2. stage[p] \in InSchema /\ Goto(p, After[x])
  BY FollowingStages DEF InSchema, Ensured
<1>3. stage'[p] = After[x] BY <1>1, <1>2 DEF ProcessTypeOK, Goto
<1>4. After[x] \in InSchema \cup {"http"} BY FollowingStages
<1>5. schema \subseteq schema' /\ schema' \subseteq Parts
  BY <1>1 DEF ProcessTypeOK, Parts
<1>6. mysql' = mysql \/ mysql' = [mysql EXCEPT ![p] = "open"] BY DEF Ensured
<1>7. After[x] = "http" => mysql'[p] = "open"
  BY <1>1 DEF Ensured, ProcessTypeOK
<1>8. SchemaTells(p)'
  <2>0. /\ After[x] # "http" => mysql' = mysql
        /\ x \in schema' /\ (schema = Parts => schema' = Parts)
    BY <1>5 DEF Ensured
  <2>1. CASE x = "server_id"
    <3>1. "table" \in schema'
      BY <1>1, <1>5, <2>1, Following DEF SchemaTells, InSchema
    <3> QED BY <1>1, <1>3, <2>0, <2>1, <3>1, Following DEF SchemaTells
  <2>2. CASE x = "server_addr"
    <3>1. "table" \in schema' /\ "server_id" \in schema'
      BY <1>1, <1>5, <2>2, Following DEF SchemaTells, InSchema
    <3> QED BY <1>1, <1>3, <2>0, <2>2, <3>1, Following DEF SchemaTells
  <2>3. CASE x = "index"
    BY <1>1, <1>3, <1>5, <1>6, <2>3, Following DEF SchemaTells, InSchema, Parts
  <2> QED BY <2>1, <2>2, <2>3
<1> QED BY <1>2, <1>4, <1>5, <1>6, <1>7, <1>8, ConnectingRule

LEMMA CreateTablesStep ==
  ASSUME ProcessInv, NEW p \in Processes, CreateTables(p)
  PROVE  ProcessInv'
<1>1. ProcessTypeOK /\ Tells(p) BY InvByProcess
<1> USE <1>1 DEF CreateTables, Step, Goto, ProcessTypeOK, servers, calls, timers
<1>2. schema \subseteq schema' /\ schema' \subseteq Parts /\ "table" \in schema'
  BY DEF Parts
<1>3. stage'[p] = "server_id" /\ mysql'[p] = mysql[p] OBVIOUS
<1>4. schema = Parts => schema' = Parts BY <1>2
<1>5. SchemaTells(p) BY DEF Tells
<1>6. SchemaTells(p)' BY <1>2, <1>3, <1>4, <1>5 DEF SchemaTells
<1> QED BY <1>2, <1>6, ConnectingRule DEF InSchema

LEMMA FindPartStep ==
  ASSUME ProcessInv, NEW p \in Processes, NEW x \in DOMAIN After, FindPart(p, x)
  PROVE  ProcessInv'
<1>1. ProcessTypeOK /\ Tells(p) BY InvByProcess
<1> USE <1>1 DEF ProcessTypeOK, Goto, servers, calls, timers
<1>2. x \in {"server_id", "server_addr", "index"} BY DEF After
<1>3. /\ Alive(p) /\ late' \subseteq Processes
      /\ UNCHANGED <<redis, servers, calls, worker, overdue, exit>>
  BY DEF FindPart, Ensured
<1>4. stage[p] = x /\ schema' = schema BY DEF FindPart
<1>5. SchemaTells(p) BY DEF Tells
<1>6. CASE x \notin schema
  <2>1. mysql' = mysql /\ Goto(p, Adding[x]) BY <1>6 DEF FindPart
  <2>2. Adding[x] \in InSchema /\ Adding[x] # "http" BY <1>2, FollowingStages
  <2>3. stage'[p] = Adding[x] BY <2>1
  <2>4. SchemaTells(p)'
    <3>1. CASE x = "server_id"
      BY <1>4, <1>5, <2>1, <2>3, <3>1, Following DEF SchemaTells, InSchema
    <3>2. CASE x = "server_addr"
      BY <1>4, <1>5, <2>1, <2>3, <3>2, Following DEF SchemaTells, InSchema
    <3>3. CASE x = "index"
      BY <1>4, <1>5, <2>1, <2>3, <3>3, Following DEF SchemaTells, InSchema
    <3> QED BY <1>2, <3>1, <3>2, <3>3
  <2>5. stage[p] \in InSchema BY <1>2, <1>4 DEF InSchema
  <2> QED BY <1>3, <1>4, <2>1, <2>2, <2>4, <2>5, ConnectingRule
<1>7. CASE x \in schema
  <2>1. Ensured(p, x) BY <1>7 DEF FindPart
  <2> QED BY <1>2, <1>3, <1>4, <1>5, <1>7, <2>1, EnsuredRule
<1> QED BY <1>6, <1>7

LEMMA AddPartStep ==
  ASSUME ProcessInv, NEW p \in Processes, NEW x \in DOMAIN After, AddPart(p, x)
  PROVE  ProcessInv'
<1>1. ProcessTypeOK /\ Tells(p) BY InvByProcess
<1> USE <1>1 DEF ProcessTypeOK, Goto, servers, calls, timers
<1>2. x \in {"server_id", "server_addr", "index"} BY DEF After
<1>3. /\ Alive(p) /\ late' \subseteq Processes
      /\ UNCHANGED <<redis, servers, calls, worker, overdue, exit>>
  BY DEF AddPart, Ensured
<1>4. stage[p] = Adding[x] /\ schema' = schema \cup {x} BY DEF AddPart
<1>5. Ensured(p, x) BY DEF AddPart
<1> QED BY <1>2, <1>3, <1>4, <1>5, EnsuredRule

LEMMA AddPartLateStep ==
  ASSUME ProcessInv, NEW p \in Processes, NEW x \in DOMAIN After, AddPartLate(p, x)
  PROVE  ProcessInv'
<1>1. ProcessTypeOK /\ Tells(p) BY InvByProcess
<1> USE <1>1 DEF ProcessTypeOK, Goto, servers, calls, timers
<1>2. x \in {"server_id", "server_addr", "index"} BY DEF After
<1>3. /\ Alive(p) /\ late' \subseteq Processes
      /\ UNCHANGED <<redis, servers, calls, worker, overdue, exit>>
  BY DEF AddPartLate, Ensured
<1>4. /\ stage[p] = Adding[x] /\ stage' = stage /\ mysql' = mysql
      /\ schema' = schema \cup {x}
  BY DEF AddPartLate
<1>5. SchemaTells(p) BY DEF Tells
<1>6. SchemaTells(p)'
  <2>1. schema = Parts => schema' = Parts BY <1>2, <1>4 DEF Parts
  <2> QED BY <1>4, <1>5, <2>1 DEF SchemaTells
<1>7. Goto(p, stage[p]) BY <1>4
<1>8. Adding[x] \in InSchema /\ Adding[x] # "http" BY <1>2, FollowingStages
<1> QED BY <1>2, <1>3, <1>4, <1>6, <1>7, <1>8, ConnectingRule DEF Parts

LEMMA NewMySQLRepositoryFailsStep ==
  ASSUME ProcessInv, NEW p \in Processes, NewMySQLRepositoryFails(p)
  PROVE  ProcessInv'
<1>1. ProcessTypeOK /\ Tells(p) BY InvByProcess
<1> USE <1>1, ProcessAssumption DEF ProcessTypeOK, Goto, Alive, stores, servers,
        calls, timers
<1>2. CASE ExitOne(p)
  <2> USE <1>2 DEF ExitOne, End, Freed
  <2>1. ProcessTypeOK' BY DEF Startup, Takedown, Connecting, InSchema
  <2>2. Others(p) BY DEF Others, Same
  <2>3. Tells(p)'
    <3>1. Alive(p) /\ (stage[p] \in InSchema \/ stage[p] = "wait")
      BY DEF NewMySQLRepositoryFails
    <3>2. StageTells(p)' BY <3>1 DEF Tells, StageTells, PastRedis, Mirrored,
           HTTPClosed, HTTPDrained, GRPCDrained, BeforeWorker, Startup, Takedown,
       Connecting, InSchema, Parts
    <3>3. PortHeld(p)' BY <3>1 DEF Tells, StageTells, PortHeld, BeforeWorker
    <3>4. ExitTells(p)'
      <4>1. /\ rpcs[p] = {} /\ grpc[p] = "none" /\ worker[p] = "none"
            /\ http[p] = "none"
        BY <3>1 DEF Tells, StageTells, BeforeWorker, Connecting, InSchema
      <4> QED BY <4>1 DEF ExitTells
    <3>5. SchemaTells(p)' BY <3>1 DEF Tells, SchemaTells, InSchema, Parts
    <3> QED BY <3>2, <3>3, <3>4, <3>5 DEF Tells
  <2> QED BY <2>1, <2>2, <2>3, StepRule
<1>3. CASE /\ ~MySQLRequired(p) /\ Goto(p, "http")
           /\ UNCHANGED <<stores, servers, calls, worker, timers, exit>>
  <2>1. Alive(p) /\ stage[p] \in InSchema \cup {"wait"}
    BY DEF NewMySQLRepositoryFails
  <2>2. Config[p] # "mysql required" BY <1>3 DEF MySQLRequired
  <2>3. mysql' = mysql /\ schema' = schema /\ late' = late /\ stage'[p] = "http"
    BY <1>3
  <2>4. SchemaTells(p)' BY <2>3 DEF Tells, SchemaTells, InSchema
  <2> QED BY <1>3, <2>1, <2>2, <2>3, <2>4, ConnectingRule
<1> QED BY <1>2, <1>3 DEF NewMySQLRepositoryFails

LEMMA LaunchHTTPStep ==
  ASSUME ProcessInv, NEW p \in Processes, LaunchHTTP(p)
  PROVE  ProcessInv'
<1>1. ProcessTypeOK /\ Tells(p) BY InvByProcess
<1> USE <1>1, ProcessAssumption DEF ProcessTypeOK, LaunchHTTP, Step, Goto, Alive, stores, servers, calls, timers
<1>2. ProcessTypeOK' BY DEF Startup, Takedown, Connecting, InSchema
<1>3. Others(p) BY DEF Others, Same
<1>4. StageTells(p)' BY DEF Tells, StageTells, PastRedis, Mirrored,
       HTTPClosed, HTTPDrained, GRPCDrained, BeforeWorker, Startup, Takedown,
       Connecting, InSchema, Parts
<1>5. PortHeld(p)' BY DEF Tells, StageTells, PortHeld, GRPCDrained, BeforeWorker
<1>6. ExitTells(p)' BY DEF Tells, StageTells, ExitTells, Connected, GRPCDrained,
       HTTPDrained, HTTPClosed, BeforeWorker, Connecting, InSchema, Takedown
<1>7. SchemaTells(p)' BY DEF Tells, SchemaTells, InSchema, Parts
<1> QED BY <1>2, <1>3, <1>4, <1>5, <1>6, <1>7, StepRule DEF Tells

LEMMA ListenAndServeStep ==
  ASSUME ProcessInv, NEW p \in Processes, ListenAndServe(p)
  PROVE  ProcessInv'
<1>1. ProcessTypeOK /\ Tells(p) BY InvByProcess
<1> USE <1>1, ProcessAssumption DEF ProcessTypeOK, ListenAndServe, Goto, Alive, stores, servers, calls, timers
<1>2. ProcessTypeOK'
  <2>1. CASE UNCHANGED port BY <2>1 DEF Startup, Takedown
  <2>2. CASE port' = [port EXCEPT !["http"] = p]
    BY <2>2 DEF Startup, Takedown
  <2> QED BY <2>1, <2>2
<1>3. Others(p) BY DEF Others, Same
<1>4. StageTells(p)' BY DEF Tells, StageTells, PastRedis, Mirrored,
       HTTPClosed, HTTPDrained, GRPCDrained, BeforeWorker, Startup, Takedown,
       Connecting, InSchema, Parts
<1>5. PortHeld(p)' BY DEF Tells, StageTells, PortHeld, GRPCDrained, BeforeWorker
<1>6. ExitTells(p)' BY DEF Tells, StageTells, ExitTells, Connected, GRPCDrained,
       HTTPDrained, HTTPClosed, BeforeWorker, Connecting, InSchema, Takedown
<1>7. SchemaTells(p)' BY DEF Tells, SchemaTells, InSchema, Parts
<1> QED BY <1>2, <1>3, <1>4, <1>5, <1>6, <1>7, StepRule DEF Tells

LEMMA ListenGRPCStep ==
  ASSUME ProcessInv, NEW p \in Processes, ListenGRPC(p)
  PROVE  ProcessInv'
<1>1. ProcessTypeOK /\ Tells(p) BY InvByProcess
<1> USE <1>1, ProcessAssumption DEF ProcessTypeOK, ListenGRPC, Step, Goto, Alive, stores, servers, calls, timers
<1>2. ProcessTypeOK' BY DEF Startup, Takedown, Connecting, InSchema
<1>3. Others(p) BY DEF Others, Same
<1>4. StageTells(p)' BY DEF Tells, StageTells, PastRedis, Mirrored,
       HTTPClosed, HTTPDrained, GRPCDrained, BeforeWorker, Startup, Takedown,
       Connecting, InSchema, Parts
<1>5. PortHeld(p)' BY DEF Tells, StageTells, PortHeld, GRPCDrained, BeforeWorker
<1>6. ExitTells(p)' BY DEF Tells, StageTells, ExitTells, Connected, GRPCDrained,
       HTTPDrained, HTTPClosed, BeforeWorker, Connecting, InSchema, Takedown
<1>7. SchemaTells(p)' BY DEF Tells, SchemaTells, InSchema, Parts
<1> QED BY <1>2, <1>3, <1>4, <1>5, <1>6, <1>7, StepRule DEF Tells

LEMMA ListenGRPCFailsStep ==
  ASSUME ProcessInv, NEW p \in Processes, ListenGRPCFails(p)
  PROVE  ProcessInv'
<1>1. ProcessTypeOK /\ Tells(p) BY InvByProcess
<1> USE <1>1, ProcessAssumption DEF ProcessTypeOK, ListenGRPCFails, ExitOne, End, Freed, Goto, Alive, stores, servers, calls, timers
<1>2. ProcessTypeOK' BY DEF Startup, Takedown, Connecting, InSchema
<1>3. Others(p) BY DEF Others, Same
<1>4. StageTells(p)' BY DEF Tells, StageTells, PastRedis, Mirrored,
       HTTPClosed, HTTPDrained, GRPCDrained, BeforeWorker, Startup, Takedown,
       Connecting, InSchema, Parts
<1>5. PortHeld(p)' BY DEF Tells, StageTells, PortHeld, GRPCDrained, BeforeWorker
<1>6. ExitTells(p)' BY DEF Tells, StageTells, ExitTells, Connected, GRPCDrained,
       HTTPDrained, HTTPClosed, BeforeWorker, Connecting, InSchema, Takedown,
       PastRedis, Mirrored, Startup
<1>7. SchemaTells(p)' BY DEF Tells, SchemaTells, InSchema, Parts
<1> QED BY <1>2, <1>3, <1>4, <1>5, <1>6, <1>7, StepRule DEF Tells

LEMMA StartWorkerStep ==
  ASSUME ProcessInv, NEW p \in Processes, StartWorker(p)
  PROVE  ProcessInv'
<1>1. ProcessTypeOK /\ Tells(p) BY InvByProcess
<1> USE <1>1, ProcessAssumption DEF ProcessTypeOK, StartWorker, Step, Goto, Alive, stores, servers, calls, timers
<1>2. ProcessTypeOK' BY DEF Startup, Takedown, Connecting, InSchema
<1>3. Others(p) BY DEF Others, Same
<1>4. StageTells(p)' BY DEF Tells, StageTells, PastRedis, Mirrored,
       HTTPClosed, HTTPDrained, GRPCDrained, BeforeWorker, Startup, Takedown,
       Connecting, InSchema, Parts
<1>5. PortHeld(p)' BY DEF Tells, StageTells, PortHeld, GRPCDrained, BeforeWorker
<1>6. ExitTells(p)' BY DEF Tells, StageTells, ExitTells, Connected, GRPCDrained,
       HTTPDrained, HTTPClosed, BeforeWorker, Connecting, InSchema, Takedown
<1>7. SchemaTells(p)' BY DEF Tells, SchemaTells, InSchema, Parts
<1> QED BY <1>2, <1>3, <1>4, <1>5, <1>6, <1>7, StepRule DEF Tells

LEMMA LaunchGRPCStep ==
  ASSUME ProcessInv, NEW p \in Processes, LaunchGRPC(p)
  PROVE  ProcessInv'
<1>1. ProcessTypeOK /\ Tells(p) BY InvByProcess
<1> USE <1>1, ProcessAssumption DEF ProcessTypeOK, LaunchGRPC, Step, Goto, Alive, stores, servers, calls, timers
<1>2. ProcessTypeOK' BY DEF Startup, Takedown, Connecting, InSchema
<1>3. Others(p) BY DEF Others, Same
<1>4. StageTells(p)' BY DEF Tells, StageTells, PastRedis, Mirrored,
       HTTPClosed, HTTPDrained, GRPCDrained, BeforeWorker, Startup, Takedown,
       Connecting, InSchema, Parts
<1>5. PortHeld(p)' BY DEF Tells, StageTells, PortHeld, GRPCDrained, BeforeWorker
<1>6. ExitTells(p)' BY DEF Tells, StageTells, ExitTells, Connected, GRPCDrained,
       HTTPDrained, HTTPClosed, BeforeWorker, Connecting, InSchema, Takedown
<1>7. SchemaTells(p)' BY DEF Tells, SchemaTells, InSchema, Parts
<1> QED BY <1>2, <1>3, <1>4, <1>5, <1>6, <1>7, StepRule DEF Tells

LEMMA ServeGRPCStep ==
  ASSUME ProcessInv, NEW p \in Processes, ServeGRPC(p)
  PROVE  ProcessInv'
<1>1. ProcessTypeOK /\ Tells(p) BY InvByProcess
<1> USE <1>1, ProcessAssumption DEF ProcessTypeOK, ServeGRPC, Goto, Alive, stores, servers, calls, timers
<1>2. ProcessTypeOK'
  <2>1. CASE UNCHANGED port BY <2>1 DEF Startup, Takedown
  <2>2. CASE port' = [port EXCEPT !["grpc"] = NoProcess]
    BY <2>2 DEF Startup, Takedown
  <2> QED BY <2>1, <2>2
<1>3. Others(p)
  <2>1. port["grpc"] = p BY DEF Tells, PortHeld
  <2>2. CASE UNCHANGED port BY <2>2 DEF Others, Same
  <2>3. CASE port' = [port EXCEPT !["grpc"] = NoProcess]
    BY <2>1, <2>3 DEF Others, Same
  <2> QED BY <2>2, <2>3
<1>4. StageTells(p)' BY DEF Tells, StageTells, PastRedis, Mirrored,
       HTTPClosed, HTTPDrained, GRPCDrained, BeforeWorker, Startup, Takedown,
       Connecting, InSchema, Parts
<1>5. PortHeld(p)'
  <2>1. port["grpc"] = p BY DEF Tells, PortHeld
  <2>2. CASE grpc' = [grpc EXCEPT ![p] = "up"] /\ UNCHANGED port
    BY <2>1, <2>2 DEF PortHeld
  <2>3. CASE /\ \/ grpc' = [grpc EXCEPT ![p] = "failed"]
                \/ grpc' = [grpc EXCEPT ![p] = "broken"]
             /\ port' = [port EXCEPT !["grpc"] = NoProcess]
    BY <2>3 DEF PortHeld
  <2> QED BY <2>2, <2>3
<1>6. ExitTells(p)' BY DEF Tells, StageTells, ExitTells, Connected, GRPCDrained,
       HTTPDrained, HTTPClosed, BeforeWorker, Connecting, InSchema, Takedown
<1>7. SchemaTells(p)' BY DEF Tells, SchemaTells, InSchema, Parts
<1> QED BY <1>2, <1>3, <1>4, <1>5, <1>6, <1>7, StepRule DEF Tells

LEMMA NotifySignalsStep ==
  ASSUME ProcessInv, NEW p \in Processes, NotifySignals(p)
  PROVE  ProcessInv'
<1>1. ProcessTypeOK /\ Tells(p) BY InvByProcess
<1> USE <1>1, ProcessAssumption DEF ProcessTypeOK, NotifySignals, Step, Goto, Alive, stores, servers, calls, timers
<1>2. ProcessTypeOK' BY DEF Startup, Takedown, Connecting, InSchema
<1>3. Others(p) BY DEF Others, Same
<1>4. StageTells(p)' BY DEF Tells, StageTells, PastRedis, Mirrored,
       HTTPClosed, HTTPDrained, GRPCDrained, BeforeWorker, Startup, Takedown,
       Connecting, InSchema, Parts
<1>5. PortHeld(p)' BY DEF Tells, StageTells, PortHeld, GRPCDrained, BeforeWorker
<1>6. ExitTells(p)' BY DEF Tells, StageTells, ExitTells, Connected, GRPCDrained,
       HTTPDrained, HTTPClosed, BeforeWorker, Connecting, InSchema, Takedown
<1>7. SchemaTells(p)' BY DEF Tells, SchemaTells, InSchema, Parts
<1> QED BY <1>2, <1>3, <1>4, <1>5, <1>6, <1>7, StepRule DEF Tells

LEMMA SignalStep ==
  ASSUME ProcessInv, NEW p \in Processes, Signal(p)
  PROVE  ProcessInv'
<1>1. ProcessTypeOK /\ Tells(p) BY InvByProcess
<1> USE <1>1, ProcessAssumption DEF ProcessTypeOK, Signal, Step, Goto, Alive, stores, servers, calls, timers
<1>2. ProcessTypeOK' BY DEF Startup, Takedown, Connecting, InSchema
<1>3. Others(p) BY DEF Others, Same
<1>4. StageTells(p)' BY DEF Tells, StageTells, PastRedis, Mirrored,
       HTTPClosed, HTTPDrained, GRPCDrained, BeforeWorker, Startup, Takedown,
       Connecting, InSchema, Parts
<1>5. PortHeld(p)' BY DEF Tells, StageTells, PortHeld, GRPCDrained, BeforeWorker
<1>6. ExitTells(p)' BY DEF Tells, StageTells, ExitTells, Connected, GRPCDrained,
       HTTPDrained, HTTPClosed, BeforeWorker, Connecting, InSchema, Takedown
<1>7. SchemaTells(p)' BY DEF Tells, SchemaTells, InSchema, Parts
<1> QED BY <1>2, <1>3, <1>4, <1>5, <1>6, <1>7, StepRule DEF Tells

LEMMA CloseHTTPStep ==
  ASSUME ProcessInv, NEW p \in Processes, CloseHTTP(p)
  PROVE  ProcessInv'
<1>1. ProcessTypeOK /\ Tells(p) BY InvByProcess
<1> USE <1>1, ProcessAssumption DEF ProcessTypeOK, CloseHTTP, Step, Goto, Alive, stores, servers, calls, timers
<1>2. ProcessTypeOK' BY DEF Startup, Takedown, Connecting, InSchema
<1>3. Others(p) BY DEF Others, Same
<1>4. StageTells(p)' BY DEF Tells, StageTells, PastRedis, Mirrored,
       HTTPClosed, HTTPDrained, GRPCDrained, BeforeWorker, Startup, Takedown,
       Connecting, InSchema, Parts
<1>5. PortHeld(p)' BY DEF Tells, StageTells, PortHeld, GRPCDrained, BeforeWorker
<1>6. ExitTells(p)' BY DEF Tells, StageTells, ExitTells, Connected, GRPCDrained,
       HTTPDrained, HTTPClosed, BeforeWorker, Connecting, InSchema, Takedown
<1>7. SchemaTells(p)' BY DEF Tells, SchemaTells, InSchema, Parts
<1> QED BY <1>2, <1>3, <1>4, <1>5, <1>6, <1>7, StepRule DEF Tells

LEMMA DrainHTTPStep ==
  ASSUME ProcessInv, NEW p \in Processes, DrainHTTP(p)
  PROVE  ProcessInv'
<1>1. ProcessTypeOK /\ Tells(p) BY InvByProcess
<1> USE <1>1, ProcessAssumption DEF ProcessTypeOK, DrainHTTP, HTTPDone, Step, Goto, Alive, stores, servers, calls, timers
<1>2. ProcessTypeOK' BY DEF Startup, Takedown, Connecting, InSchema
<1>3. Others(p) BY DEF Others, Same
<1>4. StageTells(p)' BY DEF Tells, StageTells, PastRedis, Mirrored,
       HTTPClosed, HTTPDrained, GRPCDrained, BeforeWorker, Startup, Takedown,
       Connecting, InSchema, Parts
<1>5. PortHeld(p)' BY DEF Tells, StageTells, PortHeld, GRPCDrained, BeforeWorker
<1>6. ExitTells(p)' BY DEF Tells, StageTells, ExitTells, Connected, GRPCDrained,
       HTTPDrained, HTTPClosed, BeforeWorker, Connecting, InSchema, Takedown
<1>7. SchemaTells(p)' BY DEF Tells, SchemaTells, InSchema, Parts
<1> QED BY <1>2, <1>3, <1>4, <1>5, <1>6, <1>7, StepRule DEF Tells

LEMMA CloseGRPCStep ==
  ASSUME ProcessInv, NEW p \in Processes, CloseGRPC(p)
  PROVE  ProcessInv'
<1>1. ProcessTypeOK /\ Tells(p) BY InvByProcess
<1> USE <1>1, ProcessAssumption DEF ProcessTypeOK, CloseGRPC, Step, Goto, Alive, stores, servers, calls, timers
<1>2. ProcessTypeOK' BY DEF Startup, Takedown, Connecting, InSchema
<1>3. Others(p)
  <2> SUFFICES ASSUME NEW q \in Processes, q # p PROVE Same(q) BY DEF Others
  <2>1. port'["grpc"] = IF port["grpc"] = p THEN NoProcess ELSE port["grpc"]
    OBVIOUS
  <2>2. port'["grpc"] = q <=> port["grpc"] = q BY <2>1
  <2> QED BY <2>2 DEF Same
<1>4. StageTells(p)' BY DEF Tells, StageTells, PastRedis, Mirrored,
       HTTPClosed, HTTPDrained, GRPCDrained, BeforeWorker, Startup, Takedown,
       Connecting, InSchema, Parts
<1>5. PortHeld(p)' BY DEF Tells, StageTells, PortHeld, GRPCDrained, BeforeWorker
<1>6. ExitTells(p)' BY DEF Tells, StageTells, ExitTells, Connected, GRPCDrained,
       HTTPDrained, HTTPClosed, BeforeWorker, Connecting, InSchema, Takedown
<1>7. SchemaTells(p)' BY DEF Tells, SchemaTells, InSchema, Parts
<1> QED BY <1>2, <1>3, <1>4, <1>5, <1>6, <1>7, StepRule DEF Tells

LEMMA DrainGRPCStep ==
  ASSUME ProcessInv, NEW p \in Processes, DrainGRPC(p)
  PROVE  ProcessInv'
<1>1. ProcessTypeOK /\ Tells(p) BY InvByProcess
<1> USE <1>1, ProcessAssumption DEF ProcessTypeOK, DrainGRPC, RPCsDone, Step, Goto, Alive, stores, servers, calls, timers
<1>2. ProcessTypeOK' BY DEF Startup, Takedown, Connecting, InSchema
<1>3. Others(p) BY DEF Others, Same
<1>4. StageTells(p)' BY DEF Tells, StageTells, PastRedis, Mirrored,
       HTTPClosed, HTTPDrained, GRPCDrained, BeforeWorker, Startup, Takedown,
       Connecting, InSchema, Parts
<1>5. PortHeld(p)' BY DEF Tells, StageTells, PortHeld, GRPCDrained, BeforeWorker
<1>6. ExitTells(p)' BY DEF Tells, StageTells, ExitTells, Connected, GRPCDrained,
       HTTPDrained, HTTPClosed, BeforeWorker, Connecting, InSchema, Takedown
<1>7. SchemaTells(p)' BY DEF Tells, SchemaTells, InSchema, Parts
<1> QED BY <1>2, <1>3, <1>4, <1>5, <1>6, <1>7, StepRule DEF Tells

LEMMA CancelWorkerStep ==
  ASSUME ProcessInv, NEW p \in Processes, CancelWorker(p)
  PROVE  ProcessInv'
<1>1. ProcessTypeOK /\ Tells(p) BY InvByProcess
<1> USE <1>1, ProcessAssumption DEF ProcessTypeOK, CancelWorker, Step, Goto, Alive, stores, servers, calls, timers
<1>2. ProcessTypeOK' BY DEF Startup, Takedown, Connecting, InSchema
<1>3. Others(p) BY DEF Others, Same
<1>4. StageTells(p)' BY DEF Tells, StageTells, PastRedis, Mirrored,
       HTTPClosed, HTTPDrained, GRPCDrained, BeforeWorker, Startup, Takedown,
       Connecting, InSchema, Parts
<1>5. PortHeld(p)' BY DEF Tells, StageTells, PortHeld, GRPCDrained, BeforeWorker
<1>6. ExitTells(p)' BY DEF Tells, StageTells, ExitTells, Connected, GRPCDrained,
       HTTPDrained, HTTPClosed, BeforeWorker, Connecting, InSchema, Takedown
<1>7. SchemaTells(p)' BY DEF Tells, SchemaTells, InSchema, Parts
<1> QED BY <1>2, <1>3, <1>4, <1>5, <1>6, <1>7, StepRule DEF Tells

LEMMA CloseMySQLStep ==
  ASSUME ProcessInv, NEW p \in Processes, CloseMySQL(p)
  PROVE  ProcessInv'
<1>1. ProcessTypeOK /\ Tells(p) BY InvByProcess
<1> USE <1>1, ProcessAssumption DEF ProcessTypeOK, CloseMySQL, Step, Goto, Alive, stores, servers, calls, timers
<1>2. ProcessTypeOK' BY DEF Startup, Takedown, Connecting, InSchema
<1>3. Others(p) BY DEF Others, Same
<1>4. StageTells(p)' BY DEF Tells, StageTells, PastRedis, Mirrored,
       HTTPClosed, HTTPDrained, GRPCDrained, BeforeWorker, Startup, Takedown,
       Connecting, InSchema, Parts
<1>5. PortHeld(p)' BY DEF Tells, StageTells, PortHeld, GRPCDrained, BeforeWorker
<1>6. ExitTells(p)' BY DEF Tells, StageTells, ExitTells, Connected, GRPCDrained,
       HTTPDrained, HTTPClosed, BeforeWorker, Connecting, InSchema, Takedown
<1>7. SchemaTells(p)' BY DEF Tells, SchemaTells, InSchema, Parts
<1> QED BY <1>2, <1>3, <1>4, <1>5, <1>6, <1>7, StepRule DEF Tells

LEMMA CloseRedisStep ==
  ASSUME ProcessInv, NEW p \in Processes, CloseRedis(p)
  PROVE  ProcessInv'
<1>1. ProcessTypeOK /\ Tells(p) BY InvByProcess
<1> USE <1>1, ProcessAssumption DEF ProcessTypeOK, CloseRedis, End, Freed, Goto, Alive, stores, servers, calls, timers
<1>2. ProcessTypeOK' BY DEF Startup, Takedown, Connecting, InSchema
<1>3. Others(p)
  <2> SUFFICES ASSUME NEW q \in Processes, q # p PROVE Same(q) BY DEF Others
  <2>1. port'["grpc"] = IF port["grpc"] = p THEN NoProcess ELSE port["grpc"]
    OBVIOUS
  <2>2. port'["grpc"] = q <=> port["grpc"] = q BY <2>1
  <2> QED BY <2>2 DEF Same
<1>4. StageTells(p)' BY DEF Tells, StageTells, PastRedis, Mirrored,
       HTTPClosed, HTTPDrained, GRPCDrained, BeforeWorker, Startup, Takedown,
       Connecting, InSchema, Parts
<1>5. PortHeld(p)' BY DEF Tells, StageTells, PortHeld, GRPCDrained, BeforeWorker
<1>6. ExitTells(p)' BY DEF Tells, StageTells, ExitTells, Connected, GRPCDrained,
       HTTPDrained, HTTPClosed, BeforeWorker, Connecting, InSchema, Takedown
<1>7. SchemaTells(p)' BY DEF Tells, SchemaTells, InSchema, Parts
<1> QED BY <1>2, <1>3, <1>4, <1>5, <1>6, <1>7, StepRule DEF Tells

LEMMA WorkerReturnsStep ==
  ASSUME ProcessInv, NEW p \in Processes, WorkerReturns(p)
  PROVE  ProcessInv'
<1>1. ProcessTypeOK /\ Tells(p) BY InvByProcess
<1> USE <1>1, ProcessAssumption DEF ProcessTypeOK, WorkerReturns, Goto, Alive, stores, servers, calls, timers
<1>2. ProcessTypeOK' BY DEF Startup, Takedown, Connecting, InSchema
<1>3. Others(p) BY DEF Others, Same
<1>4. StageTells(p)' BY DEF Tells, StageTells, PastRedis, Mirrored,
       HTTPClosed, HTTPDrained, GRPCDrained, BeforeWorker, Startup, Takedown,
       Connecting, InSchema, Parts
<1>5. PortHeld(p)' BY DEF Tells, StageTells, PortHeld, GRPCDrained, BeforeWorker
<1>6. ExitTells(p)' BY DEF Tells, StageTells, ExitTells, Connected, GRPCDrained,
       HTTPDrained, HTTPClosed, BeforeWorker, Connecting, InSchema, Takedown
<1>7. SchemaTells(p)' BY DEF Tells, SchemaTells, InSchema, Parts
<1> QED BY <1>2, <1>3, <1>4, <1>5, <1>6, <1>7, StepRule DEF Tells

LEMMA ExpireStep ==
  ASSUME ProcessInv, NEW p \in Processes, Expire(p)
  PROVE  ProcessInv'
<1>1. ProcessTypeOK /\ Tells(p) BY InvByProcess
<1> USE <1>1, ProcessAssumption DEF ProcessTypeOK, Expire, Goto, Alive, stores, servers, calls, timers
<1>2. ProcessTypeOK' BY DEF Startup, Takedown, Connecting, InSchema
<1>3. Others(p) BY DEF Others, Same
<1>4. StageTells(p)' BY DEF Tells, StageTells, PastRedis, Mirrored,
       HTTPClosed, HTTPDrained, GRPCDrained, BeforeWorker, Startup, Takedown,
       Connecting, InSchema, Parts
<1>5. PortHeld(p)' BY DEF Tells, StageTells, PortHeld, GRPCDrained, BeforeWorker
<1>6. ExitTells(p)' BY DEF Tells, StageTells, ExitTells, Connected, GRPCDrained,
       HTTPDrained, HTTPClosed, BeforeWorker, Connecting, InSchema, Takedown
<1>7. SchemaTells(p)' BY DEF Tells, SchemaTells, InSchema, Parts
<1> QED BY <1>2, <1>3, <1>4, <1>5, <1>6, <1>7, StepRule DEF Tells

LEMMA KillStep ==
  ASSUME ProcessInv, NEW p \in Processes, Kill(p)
  PROVE  ProcessInv'
<1>1. ProcessTypeOK /\ Tells(p) BY InvByProcess
<1> USE <1>1, ProcessAssumption DEF ProcessTypeOK, Kill, End, Freed, Goto, Alive, stores, servers, calls, timers
<1>2. ProcessTypeOK' BY DEF Startup, Takedown, Connecting, InSchema
<1>3. Others(p) BY DEF Others, Same
<1>4. StageTells(p)' BY DEF Tells, StageTells, PastRedis, Mirrored,
       HTTPClosed, HTTPDrained, GRPCDrained, BeforeWorker, Startup, Takedown,
       Connecting, InSchema, Parts
<1>5. PortHeld(p)' BY DEF Tells, StageTells, PortHeld, GRPCDrained, BeforeWorker
<1>6. ExitTells(p)' BY DEF Tells, StageTells, ExitTells, Connected, GRPCDrained,
       HTTPDrained, HTTPClosed, BeforeWorker, Connecting, InSchema, Takedown
<1>7. SchemaTells(p)' BY DEF Tells, SchemaTells, InSchema, Parts
<1> QED BY <1>2, <1>3, <1>4, <1>5, <1>6, <1>7, StepRule DEF Tells

LEMMA AcceptRequestStep ==
  ASSUME ProcessInv, NEW p \in Processes, NEW c \in Calls, AcceptRequest(p, c)
  PROVE  ProcessInv'
<1>1. ProcessTypeOK /\ Tells(p) BY InvByProcess
<1> USE <1>1, ProcessAssumption DEF ProcessTypeOK, AcceptRequest, Goto, Alive, stores, servers, calls, timers
<1>2. ProcessTypeOK' BY DEF Startup, Takedown, Connecting, InSchema
<1>3. Others(p) BY DEF Others, Same
<1>4. StageTells(p)' BY DEF Tells, StageTells, PastRedis, Mirrored,
       HTTPClosed, HTTPDrained, GRPCDrained, BeforeWorker, Startup, Takedown,
       Connecting, InSchema, Parts
<1>5. PortHeld(p)' BY DEF Tells, StageTells, PortHeld, GRPCDrained, BeforeWorker
<1>6. ExitTells(p)' BY DEF Tells, StageTells, ExitTells, Connected, GRPCDrained,
       HTTPDrained, HTTPClosed, BeforeWorker, Connecting, InSchema, Takedown
<1>7. SchemaTells(p)' BY DEF Tells, SchemaTells, InSchema, Parts
<1> QED BY <1>2, <1>3, <1>4, <1>5, <1>6, <1>7, StepRule DEF Tells

LEMMA EndRequestStep ==
  ASSUME ProcessInv, NEW p \in Processes, NEW c \in Calls, EndRequest(p, c)
  PROVE  ProcessInv'
<1>1. ProcessTypeOK /\ Tells(p) BY InvByProcess
<1> USE <1>1, ProcessAssumption DEF ProcessTypeOK, EndRequest, Goto, Alive, stores, servers, calls, timers
<1>2. ProcessTypeOK' BY DEF Startup, Takedown, Connecting, InSchema
<1>3. Others(p) BY DEF Others, Same
<1>4. StageTells(p)' BY DEF Tells, StageTells, PastRedis, Mirrored,
       HTTPClosed, HTTPDrained, GRPCDrained, BeforeWorker, Startup, Takedown,
       Connecting, InSchema, Parts
<1>5. PortHeld(p)' BY DEF Tells, StageTells, PortHeld, GRPCDrained, BeforeWorker
<1>6. ExitTells(p)' BY DEF Tells, StageTells, ExitTells, Connected, GRPCDrained,
       HTTPDrained, HTTPClosed, BeforeWorker, Connecting, InSchema, Takedown
<1>7. SchemaTells(p)' BY DEF Tells, SchemaTells, InSchema, Parts
<1> QED BY <1>2, <1>3, <1>4, <1>5, <1>6, <1>7, StepRule DEF Tells

LEMMA AcceptRPCStep ==
  ASSUME ProcessInv, NEW p \in Processes, NEW c \in Calls, AcceptRPC(p, c)
  PROVE  ProcessInv'
<1>1. ProcessTypeOK /\ Tells(p) BY InvByProcess
<1> USE <1>1, ProcessAssumption DEF ProcessTypeOK, AcceptRPC, Goto, Alive, stores, servers, calls, timers
<1>2. ProcessTypeOK' BY DEF Startup, Takedown, Connecting, InSchema
<1>3. Others(p) BY DEF Others, Same
<1>4. StageTells(p)' BY DEF Tells, StageTells, PastRedis, Mirrored,
       HTTPClosed, HTTPDrained, GRPCDrained, BeforeWorker, Startup, Takedown,
       Connecting, InSchema, Parts
<1>5. PortHeld(p)' BY DEF Tells, StageTells, PortHeld, GRPCDrained, BeforeWorker
<1>6. ExitTells(p)' BY DEF Tells, StageTells, ExitTells, Connected, GRPCDrained,
       HTTPDrained, HTTPClosed, BeforeWorker, Connecting, InSchema, Takedown
<1>7. SchemaTells(p)' BY DEF Tells, SchemaTells, InSchema, Parts
<1> QED BY <1>2, <1>3, <1>4, <1>5, <1>6, <1>7, StepRule DEF Tells

LEMMA EndRPCStep ==
  ASSUME ProcessInv, NEW p \in Processes, NEW c \in Calls, EndRPC(p, c)
  PROVE  ProcessInv'
<1>1. ProcessTypeOK /\ Tells(p) BY InvByProcess
<1> USE <1>1, ProcessAssumption DEF ProcessTypeOK, EndRPC, Goto, Alive, stores, servers, calls, timers
<1>2. ProcessTypeOK' BY DEF Startup, Takedown, Connecting, InSchema
<1>3. Others(p) BY DEF Others, Same
<1>4. StageTells(p)' BY DEF Tells, StageTells, PastRedis, Mirrored,
       HTTPClosed, HTTPDrained, GRPCDrained, BeforeWorker, Startup, Takedown,
       Connecting, InSchema, Parts
<1>5. PortHeld(p)' BY DEF Tells, StageTells, PortHeld, GRPCDrained, BeforeWorker
<1>6. ExitTells(p)' BY DEF Tells, StageTells, ExitTells, Connected, GRPCDrained,
       HTTPDrained, HTTPClosed, BeforeWorker, Connecting, InSchema, Takedown
<1>7. SchemaTells(p)' BY DEF Tells, SchemaTells, InSchema, Parts
<1> QED BY <1>2, <1>3, <1>4, <1>5, <1>6, <1>7, StepRule DEF Tells

-----------------------------------------------------------------------------
(* The theorems.                                                           *)

LEMMA Initially == Init => ProcessInv
<1> SUFFICES ASSUME Init PROVE ProcessInv OBVIOUS
<1> USE DEF Init
<1>1. ProcessTypeOK BY DEF ProcessTypeOK, Startup, Connecting, Parts
<1>2. ExitCodeTells BY DEF ExitCodeTells
<1>3. ASSUME NEW p \in Processes PROVE StageTells(p) /\ SchemaTells(p) /\ PortHeld(p)
  <2>1. StageTells(p) BY DEF StageTells, Alive, PastRedis, Mirrored, HTTPClosed,
         HTTPDrained, GRPCDrained, BeforeWorker, Takedown
  <2>2. PortHeld(p) BY ProcessAssumption DEF PortHeld
  <2>3. SchemaTells(p) BY DEF SchemaTells, InSchema
  <2> QED BY <2>1, <2>2, <2>3
<1> QED BY <1>1, <1>2, <1>3 DEF ProcessInv

LEMMA Unchanged == ProcessInv /\ UNCHANGED vars => ProcessInv'
<1> SUFFICES ASSUME ProcessInv, UNCHANGED vars PROVE ProcessInv' OBVIOUS
<1> USE DEF vars, stores, servers, calls, timers
<1>1. ProcessTypeOK' BY DEF ProcessInv, ProcessTypeOK
<1>2. ASSUME NEW p \in Processes PROVE Tells(p)'
  BY <1>1, InvByProcess, SameTells DEF Same
<1> QED BY <1>1, <1>2 DEF ProcessInv, ExitCodeTells, Tells, ExitTells

\* What the stage of main says of the stores, the servers, the calls, the port
\* and the worker holds in every reachable state.
THEOREM ProcessInvariant == Spec => []ProcessInv
<1>1. ASSUME ProcessInv, NEW p \in Processes, Main(p) PROVE ProcessInv'
  BY <1>1, PingRedisStep, PingRedisFailsStep, PingMySQLStep,
       PingMySQLFailsStep, RetryMySQLStep, CreateTablesStep,
       FindPartStep, AddPartStep,
       NewMySQLRepositoryFailsStep, LaunchHTTPStep, ListenGRPCStep,
       ListenGRPCFailsStep, StartWorkerStep, LaunchGRPCStep,
       NotifySignalsStep, CloseHTTPStep, DrainHTTPStep, CloseGRPCStep,
       DrainGRPCStep, CancelWorkerStep, CloseMySQLStep,
       CloseRedisStep DEF Main
<1>2. ASSUME ProcessInv, NEW p \in Processes, NEW c \in Calls,
             AcceptRequest(p, c) \/ EndRequest(p, c)
               \/ AcceptRPC(p, c) \/ EndRPC(p, c)
      PROVE  ProcessInv'
  BY <1>2, AcceptRequestStep, EndRequestStep, AcceptRPCStep, EndRPCStep
<1>3. ASSUME ProcessInv, Next PROVE ProcessInv'
  <2> PICK p \in Processes :
         \/ Main(p)
         \/ ListenAndServe(p) \/ ServeGRPC(p) \/ WorkerReturns(p)
         \/ \E c \in Calls :
              \/ AcceptRequest(p, c) \/ EndRequest(p, c)
              \/ AcceptRPC(p, c) \/ EndRPC(p, c)
         \/ \E x \in DOMAIN After : AddPartLate(p, x)
         \/ Expire(p) \/ Signal(p) \/ Kill(p)
    BY <1>3 DEF Next
  <2> QED BY <1>1, <1>2, <1>3, ListenAndServeStep, ServeGRPCStep,
         WorkerReturnsStep, AddPartLateStep, ExpireStep, SignalStep, KillStep
<1>4. ProcessInv /\ [Next]_vars => ProcessInv' BY <1>3, Unchanged
<1> QED BY Initially, <1>4, PTL DEF Spec

\* Every state of every set of processes is well typed.
THEOREM ProcessTypeCorrect == Spec => []ProcessTypeOK
<1>1. ProcessInv => ProcessTypeOK BY DEF ProcessInv
<1> QED BY ProcessInvariant, <1>1, PTL

\* The exit code 0 tells that calls were answered, 1 that the gRPC server and
\* the worker never ran, and no HTTP request without the stores.
THEOREM ExitCodesAreReliable == Spec => []ExitCodeTells
<1>1. ProcessInv => ExitCodeTells BY DEF ProcessInv
<1> QED BY ProcessInvariant, <1>1, PTL

\* A call in a running process finds the stores that are configured.
THEOREM CallsHaveStores == Spec => []CallsFindStores
<1>1. ASSUME ProcessInv PROVE CallsFindStores
  <2> SUFFICES ASSUME NEW p \in Processes, Alive(p),
                      rpcs[p] # {} \/ (requests[p] # {} /\ p \notin overdue)
               PROVE  Connected(p)
    BY DEF CallsFindStores
  <2>1. ProcessTypeOK /\ StageTells(p) BY <1>1 DEF ProcessInv
  <2>2. stage[p] \in Mirrored
    BY <2>1 DEF ProcessTypeOK, StageTells, Alive, Mirrored, PastRedis, Startup,
         Takedown, HTTPDrained, HTTPClosed, GRPCDrained, BeforeWorker
  <2> QED BY <2>1, <2>2 DEF StageTells, Mirrored, Connected
<1> QED BY ProcessInvariant, <1>1, PTL

\* The schema is complete before a process uses it.
THEOREM SchemaIsComplete == Spec => []SchemaBeforeUse
<1>1. ProcessInv => SchemaBeforeUse
  BY DEF ProcessInv, SchemaTells, SchemaBeforeUse
<1> QED BY ProcessInvariant, <1>1, PTL

\* Two workers that run at once are not both in processes that serve.
THEOREM WorkersDoNotCompete == Spec => []OneWorkerServes
<1>1. ASSUME ProcessInv PROVE OneWorkerServes
  <2> SUFFICES ASSUME NEW p \in Processes, NEW q \in Processes,
                      Alive(p), Alive(q), p # q,
                      worker[p] = "on", worker[q] = "on",
                      ~ShuttingDown(p), grpc[p] \notin {"failed", "broken"},
                      ~ShuttingDown(q), grpc[q] \notin {"failed", "broken"}
               PROVE  FALSE
    BY DEF OneWorkerServes
  <2>1. ASSUME NEW r \in Processes, Alive(r), worker[r] = "on",
               ~ShuttingDown(r), grpc[r] \notin {"failed", "broken"}
        PROVE  port["grpc"] = r
    <3>1. ProcessTypeOK /\ StageTells(r) /\ PortHeld(r)
      BY <1>1 DEF ProcessInv
    <3>2. grpc[r] \in {"bound", "launched", "up"}
      BY <2>1, <3>1 DEF ProcessTypeOK, StageTells, Alive, ShuttingDown, Startup,
           Takedown, BeforeWorker, GRPCDrained
    <3> QED BY <2>1, <3>1, <3>2 DEF PortHeld
  <2> QED BY <2>1
<1> QED BY ProcessInvariant, <1>1, PTL
=============================================================================
