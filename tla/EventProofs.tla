---------------------------- MODULE EventProofs -----------------------------
(***************************************************************************)
(* What holds of event services for any set of names and any number of     *)
(* commands, crashes and restarts.  TypeOK is inductive; with it are: what *)
(* the two queues of messages hold (Recorded), how the list in the file    *)
(* lags behind the table while it is written (FileLags, KeptListed), and,  *)
(* with Recorded, where a start underway is (Followed).                    *)
(***************************************************************************)
EXTENDS Event, TLAPS

Starts == [type : {"START"}, name : Names]
Answers == [type : {"NONE", "EXTRA"}, name : Names, ok : BOOLEAN] \cup Responses

\* Only starts are posted and no answer has type LABEL, so nothing is recorded.
Recorded ==
    /\ running_events = {} /\ failed_events = {} /\ restart = {} /\ writers = {}
    /\ stopping = {}
    /\ posted \in Seq(Starts)
    /\ pipe \in Seq(Answers)

\* The file lists what the table holds, except for the name the worker has
\* just added or deleted, what is yet to be written and what was torn.
FileLags ==
    /\ ~up => wpc = "wait"
    /\ wpc \notin {"writing", "failed"} => todo = {}
    /\ up /\ wpc = "wait" /\ ~stale => Listed = DOMAIN events
    /\ up /\ wpc \in {"wait", "insert"} => DOMAIN events \ torn \subseteq Listed
    /\ wpc = "insert" => req.type = "ADD"
    /\ wpc = "write" => DOMAIN events \ (torn \cup {req.name}) \subseteq Listed
    /\ wpc = "writing" => ini # NoFile /\ DOMAIN events = ini \cup todo
    /\ wpc = "failed" => stale /\ DOMAIN events \ todo \subseteq Listed
    /\ wpc # "wait" /\ req.type = "DEL" => req.name \notin kept
    /\ wpc \in {"write", "writing", "failed"} /\ req.type = "ADD" => req.name \in DOMAIN events
    /\ wpc # "wait" /\ req.type = "ADD" /\ req.name \in kept => req.name \in torn

\* What has been answered is in the table or, while the daemon is down, in the
\* file.
KeptListed == kept \subseteq (IF up THEN DOMAIN events ELSE Listed) \cup torn

\* A failure in the pipe that is about to be read
Failing == Failures(pipe)
Waiting == {posted[i].name : i \in DOMAIN posted}

\* A start whose outcome is neither settled nor held by the monitor is posted,
\* or its failure is in the pipe.
Followed ==
    /\ running => upc = "run"
    /\ ~up => upc = "run" /\ ~running /\ starting_events = {}
    /\ running => \A n \in starting_events : n \in Waiting \cup Failing \cup settled \/ held = n

-----------------------------------------------------------------------------
(* Sequences of messages *)

\* What an appended message adds to the members of a sequence.
LEMMA AppendMembers ==
    ASSUME NEW S, NEW s \in Seq(S), NEW e \in S
    PROVE  /\ Append(s, e) \in Seq(S)
           /\ \A i \in DOMAIN s : i \in DOMAIN Append(s, e) /\ Append(s, e)[i] = s[i]
           /\ Len(s) + 1 \in DOMAIN Append(s, e) /\ Append(s, e)[Len(s) + 1] = e
OBVIOUS

\* The head of a sequence and its tail have all its members.
LEMMA HeadAndTail ==
    ASSUME NEW S, NEW s \in Seq(S), s # << >>
    PROVE  /\ Head(s) \in S /\ Tail(s) \in Seq(S)
           /\ \A i \in DOMAIN s : \/ s[i] = Head(s)
                                  \/ \E j \in DOMAIN Tail(s) : Tail(s)[j] = s[i]
<1>1. Head(s) \in S /\ Tail(s) \in Seq(S) /\ Head(s) = s[1]
  OBVIOUS
<1>2. ASSUME NEW i \in DOMAIN s, i # 1 PROVE i - 1 \in DOMAIN Tail(s) /\ Tail(s)[i - 1] = s[i]
  BY <1>2
<1> QED BY <1>1, <1>2

\* Starting an event posts its START and forgets how the last one ended.
LEMMA StartKeeps ==
    ASSUME NEW n \in Names, NEW condition \in BOOLEAN, StartIf(condition, n), posted \in Seq(Starts)
    PROVE  /\ posted' \in Seq(Starts)
           /\ starting_events' \subseteq starting_events \cup {n}
           /\ settled' \subseteq settled
           /\ Waiting \subseteq Waiting'
           /\ \A k \in starting_events' :
                 \/ k \in Waiting'
                 \/ k \in starting_events /\ (k \in settled => k \in settled')
<1>1. CASE condition
  <2> DEFINE m == [type |-> "START", name |-> n]
  <2>1. /\ posted' = Append(posted, m) /\ m \in Starts
        /\ starting_events' = starting_events \cup {n} /\ settled' = settled \ {n}
    BY <1>1 DEF StartIf, StartEvent, Starts
  <2>2. /\ posted' \in Seq(Starts)
        /\ \A i \in DOMAIN posted : i \in DOMAIN posted' /\ posted'[i] = posted[i]
        /\ Len(posted) + 1 \in DOMAIN posted' /\ posted'[Len(posted) + 1] = m
    BY <2>1, AppendMembers
  <2>3. Waiting \subseteq Waiting' /\ n \in Waiting'
    BY <2>2 DEF Waiting
  <2> QED BY <2>1, <2>2, <2>3
<1>2. CASE ~condition
  BY <1>2 DEF StartIf, Waiting
<1> QED BY <1>1, <1>2

\* A message written to the pipe leaves the failures in it, unless the pipe is
\* closed.
LEMMA WriteKeeps ==
    ASSUME NEW m \in Answers, Write(m), pipe \in Seq(Answers)
    PROVE  /\ pipe' \in Seq(Answers)
           /\ Failing \subseteq Failing'
           /\ upc = "run" /\ m.type # "RESPONSE" /\ ~m.ok => m.name \in Failing'
<1>1. CASE upc \in {"run", "join"}
  <2>1. /\ pipe' = Append(pipe, m) /\ pipe' \in Seq(Answers)
        /\ \A i \in DOMAIN pipe : i \in DOMAIN pipe' /\ pipe'[i] = pipe[i]
        /\ Len(pipe) + 1 \in DOMAIN pipe' /\ pipe'[Len(pipe) + 1] = m
    BY <1>1, AppendMembers DEF Write
  <2>2. Failing \subseteq Failing'
    BY <2>1 DEF Failing, Failures
  <2> QED BY <2>1, <2>2 DEF Failing, Failures
<1>2. CASE upc \notin {"run", "join"}
  BY <1>2 DEF Write, Failing
<1> QED BY <1>1, <1>2

-----------------------------------------------------------------------------
(* The shape of the state *)

\* The initial state has the right shape.
LEMMA TypeInit == Init => TypeOK
<1> SUFFICES ASSUME Init PROVE TypeOK
  OBVIOUS
<1>1. IsMap(events, Names, Service) /\ IsMap(cmds, Names, Service \cup {None})
  BY DEF Init, IsMap
<1>2. posted \in Seq(Posted) /\ pipe \in Seq(Results \cup Responses) /\ made \in Service
  BY DEF Init, NoService, Service
<1>3. \A n \in DOMAIN cmds : cmds[n] = None => n \in DOMAIN events
  BY DEF Init
<1>4. /\ req = NoRequest /\ wpc = "wait" /\ ini = NoFile /\ requests \in Nat
      /\ mpc = "off" /\ held = None /\ upc = "run" /\ ~running /\ cmds = << >>
      /\ up = FALSE /\ dangling = FALSE /\ running = FALSE /\ stale = FALSE /\ inUse = {}
  BY DEF Init
<1>5. /\ running_events = {} /\ starting_events = {} /\ failed_events = {} /\ writers = {}
      /\ todo = {} /\ restart = {} /\ stopping = {} /\ kept = {} /\ torn = {} /\ settled = {}
  BY DEF Init
<1> QED BY <1>1, <1>2, <1>3, <1>4, <1>5 DEF TypeOK

\* Asking the triggers of an event leaves a Service.
LEMMA AskedService == \A s \in Service, set \in BOOLEAN : Asked(s, set) \in Service
BY DEF Asked, Service, Ready, Triggers

\* Adding a key of the right type to a map, or taking one out, keeps its type.
LEMMA MapKept ==
    ASSUME NEW K, NEW V, NEW f, IsMap(f, K, V), NEW k \in K, NEW v \in V
    PROVE  /\ IsMap(With(f, k, v), K, V) /\ DOMAIN With(f, k, v) = DOMAIN f \cup {k}
           /\ IsMap(Without(f, k), K, V) /\ DOMAIN Without(f, k) = DOMAIN f \ {k}
BY DEF IsMap, With, Without

\* The end of the daemon leaves the right shape.
LEMMA TypeEnds == TypeOK /\ Ends => TypeOK'
<1> SUFFICES ASSUME TypeOK, Ends PROVE TypeOK'
  OBVIOUS
<1>1. IsMap(events', Names, Service) /\ IsMap(cmds', Names, Service \cup {None})
  BY DEF Ends, IsMap
<1>2. posted' \in Seq(Posted) /\ pipe' \in Seq(Results \cup Responses) /\ made' \in Service
  BY DEF Ends, NoService, Service
<1>3. \A n \in DOMAIN cmds' : cmds'[n] = None => n \in DOMAIN events'
  BY DEF Ends
<1>4. torn' \subseteq Names /\ (ini' \subseteq Names \/ ini' = NoFile)
  BY DEF Ends, TypeOK
<1> QED BY <1>1, <1>2, <1>3, <1>4 DEF Ends, TypeOK

\* Starting an event keeps the types of what it changes.
LEMMA TypeStart ==
    ASSUME TypeOK, NEW n \in Names, NEW condition \in BOOLEAN, StartIf(condition, n)
    PROVE  starting_events' \subseteq Names /\ posted' \in Seq(Posted) /\ settled' \subseteq Names
<1>1. [type |-> "START", name |-> n] \in Posted
  BY DEF Posted
<1>2. posted' = posted \/ posted' = Append(posted, [type |-> "START", name |-> n])
  BY DEF StartIf, StartEvent
<1>3. posted' \in Seq(Posted)
  BY <1>1, <1>2 DEF TypeOK
<1> QED BY <1>3 DEF StartIf, StartEvent, TypeOK

\* No step of the worker spoils the shape.
LEMMA TypeWorker == TypeOK /\ (Command \/ Work) => TypeOK'
<1> SUFFICES ASSUME TypeOK, Command \/ Work PROVE TypeOK'
  OBVIOUS
<1>1. CASE Refuse
  BY <1>1 DEF Refuse, vars, tables, worker, monitor, shutdown, ghosts, TypeOK
<1>2. ASSUME NEW n \in Names, NEW triggers \in SUBSET Triggers, NEW set \in BOOLEAN,
             Add(n, triggers, set)
      PROVE  TypeOK'
  <2> DEFINE s == [triggers |-> triggers, fired |-> {}, restart |-> n \in Restarting]
  <2>1. s \in Service /\ made' \in Service
    <3>1. s \in Service
      BY DEF Service
    <3> QED BY <1>2, <3>1, AskedService DEF Add
  <2>2. starting_events' \subseteq Names /\ posted' \in Seq(Posted) /\ settled' \subseteq Names
    <3>1. StartIf(Triggered(s, set), n) /\ Triggered(s, set) \in BOOLEAN
      BY <1>2 DEF Add, Triggered
    <3> QED BY <3>1, TypeStart
  <2>3. req' \in Requests /\ wpc' = "insert" /\ requests' \in Nat
    BY <1>2 DEF Add, Accept, Requests, TypeOK
  <2> QED BY <1>2, <2>1, <2>2, <2>3 DEF Add, TypeOK, monitor, shutdown
<1>3. ASSUME NEW n \in Names, NEW stop \in BOOLEAN, Del(n, stop) PROVE TypeOK'
  <2>1. IsMap(events', Names, Service) /\ DOMAIN events' = DOMAIN events \ {n}
    <3>1. events' = Without(events, n) /\ IsMap(events, Names, Service)
      BY <1>3 DEF Del, TypeOK
    <3> QED BY <3>1 DEF IsMap, Without
  <2>2. /\ IsMap(cmds', Names, Service \cup {None})
        /\ \A k \in DOMAIN cmds' : cmds'[k] = None => k \in DOMAIN events'
    <3>1. /\ n \in DOMAIN events /\ events[n] \in Service
          /\ cmds' = CopiesWithout(n) /\ IsMap(cmds, Names, Service \cup {None})
          /\ \A k \in DOMAIN cmds : cmds[k] = None => k \in DOMAIN events
      BY <1>3 DEF Del, TypeOK, IsMap
    <3>2. CASE n \in DOMAIN cmds
      <4>1. Object(n) \in Service
        BY <3>1, <3>2 DEF Object, IsMap
      <4>2. cmds' = [cmds EXCEPT ![n] = Object(n)]
        BY <3>1, <3>2 DEF CopiesWithout
      <4> QED BY <2>1, <3>1, <4>1, <4>2, NoObjectAssumption DEF IsMap
    <3>3. CASE n \notin DOMAIN cmds
      BY <2>1, <3>1, <3>3 DEF CopiesWithout
    <3> QED BY <3>2, <3>3
  <2>3. /\ posted' \in Seq(Posted) /\ writers' \subseteq Names
        /\ req' \in Requests /\ wpc' = "write" /\ requests' \in Nat
    <3>1. posted' = posted \/ posted' = Append(posted, [type |-> "STOP", name |-> n])
      BY <1>3 DEF Del
    <3>2. [type |-> "STOP", name |-> n] \in Posted /\ posted \in Seq(Posted)
      BY DEF Posted, TypeOK
    <3>3. posted' \in Seq(Posted)
      BY <3>1, <3>2
    <3>4. writers' \subseteq Names
      BY <1>3 DEF Del, TypeOK
    <3> QED BY <1>3, <3>3, <3>4 DEF Del, Accept, Requests, TypeOK
  <2>4. up /\ kept' \subseteq Names /\ dangling' \in BOOLEAN
    BY <1>3 DEF Del, Accept, TypeOK
  <2> QED BY <1>3, <2>1, <2>2, <2>3, <2>4 DEF Del, TypeOK, shutdown
<1>4. ASSUME NEW n \in Names, Info(n) PROVE TypeOK'
  <2>1. posted' \in Seq(Posted)
    <3>1. posted' = posted \/ posted' = Append(posted, [type |-> "INFO", name |-> n])
      BY <1>4 DEF Info
    <3>2. [type |-> "INFO", name |-> n] \in Posted /\ posted \in Seq(Posted)
      BY DEF Posted, TypeOK
    <3> QED BY <3>1, <3>2
  <2> QED BY <1>4, <2>1 DEF Info, worker, monitor, shutdown, ghosts, TypeOK
<1>5. CASE AddInsert
  <2>1. IsMap(events', Names, Service) /\ DOMAIN events \subseteq DOMAIN events'
    <3>1. req.name \in Names /\ events' = With(events, req.name, made)
      BY <1>5 DEF AddInsert, TypeOK, Requests
    <3>2. IsMap(events, Names, Service) /\ made \in Service
      BY DEF TypeOK
    <3>3. IsMap(With(events, req.name, made), Names, Service)
      BY <3>1, <3>2, MapKept
    <3> QED BY <3>1, <3>3 DEF With
  <2>2. made' \in Service /\ wpc' = "write" /\ req' \in Requests
    BY <1>5 DEF AddInsert, TypeOK, NoService, Service
  <2> QED BY <1>5, <2>1, <2>2 DEF AddInsert, monitor, shutdown, ghosts, TypeOK
<1>6. CASE Open
  BY <1>6 DEF Open, tables, monitor, shutdown, ghosts, TypeOK, IsMap
<1>7. CASE SendResult
  <2>1. kept' \subseteq Names /\ torn' \subseteq Names
    BY <1>7 DEF SendResult, TypeOK, Requests
  <2> QED BY <1>7, <2>1 DEF SendResult, tables, monitor, shutdown, TypeOK
<1>8. ASSUME NEW n \in Names, WriteEvent(n) PROVE TypeOK'
  <2>1. ini' \subseteq Names
    BY <1>8 DEF WriteEvent, TypeOK
  <2> QED BY <1>8, <2>1 DEF WriteEvent, tables, monitor, shutdown, ghosts, TypeOK
<1>9. CASE OpenFails
  <2>1. todo' \subseteq Names
    BY <1>9 DEF OpenFails, TypeOK, IsMap
  <2> QED BY <1>9, <2>1 DEF OpenFails, tables, monitor, shutdown, TypeOK
<1>10. CASE WriteFails
  BY <1>10 DEF WriteFails, tables, monitor, shutdown, TypeOK
<1> QED BY <1>1, <1>2, <1>3, <1>4, <1>5, <1>6, <1>7, <1>8, <1>9, <1>10 DEF Command, Work

\* No step of the monitor spoils the shape.
LEMMA TypeMonitor == TypeOK /\ Monitor => TypeOK'
<1> SUFFICES ASSUME TypeOK, Monitor PROVE TypeOK'
  OBVIOUS
<1>1. CASE Copy
  <2>1. /\ IsMap(cmds', Names, Service \cup {None})
        /\ \A n \in DOMAIN cmds' : cmds'[n] = None => n \in DOMAIN events'
    BY <1>1 DEF Copy, TypeOK, IsMap
  <2>2. restart' \subseteq Names /\ failed_events' \subseteq Names /\ mpc' = "trigger"
    BY <1>1 DEF Copy, TypeOK
  <2> QED BY <1>1, <2>1, <2>2 DEF Copy, worker, shutdown, ghosts, TypeOK
<1>2. CASE Exit
  BY <1>2 DEF Exit, tables, worker, shutdown, ghosts, TypeOK
<1>3. CASE TriggersDone
  BY <1>3 DEF TriggersDone, tables, worker, shutdown, ghosts, TypeOK
<1>4. CASE SelectTimedOut
  BY <1>4 DEF SelectTimedOut, tables, worker, shutdown, ghosts, TypeOK
<1>5. CASE Read
  <2> DEFINE m == Head(pipe)
  <2>1. m \in Results \cup Responses /\ m.name \in Names
    <3>1. m \in Results \cup Responses
      BY <1>5 DEF Read, TypeOK
    <3> QED BY <3>1 DEF Results, Responses
  <2>2. /\ running_events' \subseteq Names /\ starting_events' \subseteq Names
        /\ failed_events' \subseteq Names /\ writers' \subseteq Names
        /\ mpc' \in {"copy", "found"}
        /\ held' \in IF mpc' = "found" THEN Names ELSE {None}
    <3>1. CASE m.type = "RESPONSE"
      <4>1. HandleResponse(m.name)
        BY <1>5, <3>1 DEF Read
      <4>2. mpc = "select" /\ held = None
        BY <1>5 DEF Read, TypeOK
      <4> QED BY <2>1, <4>1, <4>2 DEF HandleResponse, TypeOK
    <3>2. CASE m.type # "RESPONSE"
      <4>1. HandleResult(m)
        BY <1>5, <3>2 DEF Read
      <4> QED BY <2>1, <4>1 DEF HandleResult, TypeOK
    <3> QED BY <3>1, <3>2
  <2>3. settled' \subseteq Names
    <3>1. Failures(Tail(pipe)) \subseteq Names
      <4>1. Tail(pipe) \in Seq(Results \cup Responses)
        BY <1>5 DEF Read, TypeOK
      <4> QED BY <4>1 DEF Failures, Results, Responses
    <3>2. Failures(<<m>>) \subseteq Names
      BY <2>1 DEF Failures
    <3> QED BY <1>5, <3>1, <3>2 DEF Read, TypeOK
  <2>4. pipe' \in Seq(Results \cup Responses)
    BY <1>5 DEF Read
  <2>5. UNCHANGED <<up, events, posted, wpc, req, made, todo, cmds, restart, dangling,
                    running, upc, stopping, ini, inUse, requests, kept, torn, stale>>
    BY <1>5 DEF Read, worker, shutdown
  <2>6. up
    BY <1>5 DEF Read, TypeOK
  <2> QED BY <2>2, <2>3, <2>4, <2>5, <2>6 DEF TypeOK
<1>6. CASE Retry
  <2>1. held \in Names /\ mpc' = "copy" /\ held' = None
    BY <1>6 DEF Retry, TypeOK
  <2>2. starting_events' \subseteq Names /\ posted' \in Seq(Posted) /\ settled' \subseteq Names
    BY <1>6, <2>1, TypeStart DEF Retry, StartIf
  <2> QED BY <1>6, <2>1, <2>2 DEF Retry, worker, shutdown, TypeOK
<1>7. CASE RetryErased
  BY <1>7, TypeEnds DEF RetryErased
<1>8. ASSUME NEW n \in Names, NEW set \in BOOLEAN, Trigger(n, set) PROVE TypeOK'
  <2> DEFINE s == Object(n)
  <2>1. s \in Service /\ Asked(s, set) \in Service
    <3>1. /\ n \in DOMAIN cmds /\ cmds[n] \in Service \cup {None}
          /\ cmds[n] = None => events[n] \in Service
      BY <1>8 DEF Trigger, TypeOK, IsMap
    <3> QED BY <3>1, AskedService DEF Object
  <2>2. IsMap(events', Names, Service) /\ DOMAIN events' = DOMAIN events
    <3>1. CASE cmds[n] = None
      BY <1>8, <2>1, <3>1 DEF Trigger, TypeOK, IsMap
    <3>2. CASE cmds[n] # None
      BY <1>8, <3>2 DEF Trigger, TypeOK
    <3> QED BY <3>1, <3>2
  <2>3. /\ IsMap(cmds', Names, Service \cup {None})
        /\ \A k \in DOMAIN cmds' : cmds'[k] = None => k \in DOMAIN events'
    <3>1. cmds' = Without(cmds, n)
      BY <1>8 DEF Trigger
    <3> QED BY <2>2, <3>1 DEF TypeOK, IsMap, Without
  <2>4. starting_events' \subseteq Names /\ posted' \in Seq(Posted) /\ settled' \subseteq Names
    <3>1. StartIf(Triggered(s, set) \/ n \in restart, n)
      BY <1>8 DEF Trigger
    <3>2. (Triggered(s, set) \/ n \in restart) \in BOOLEAN
      BY DEF Triggered
    <3> QED BY <3>1, <3>2, TypeStart
  <2>5. UNCHANGED <<up, running_events, failed_events, writers, pipe, wpc, req, made, todo,
                    mpc, restart, held, dangling, running, upc, stopping, ini, inUse,
                    requests, kept, torn, stale>>
    BY <1>8 DEF Trigger, worker, shutdown
  <2>6. up
    BY <1>8 DEF Trigger, TypeOK
  <2> QED BY <2>2, <2>3, <2>4, <2>5, <2>6 DEF TypeOK
<1> QED BY <1>1, <1>2, <1>3, <1>4, <1>5, <1>6, <1>7, <1>8 DEF Monitor

\* No step of the main thread, of the service executor or of a service spoils the shape.
LEMMA TypeOthers ==
    ASSUME TypeOK,
           \/ OnInit \/ Crash \/ Uninit \/ UninitJoin \/ UninitStop
           \/ Serve
           \/ \E n \in Names : ServiceEnds(n)
    PROVE  TypeOK'
<1>1. CASE OnInit
  <2>1. FromFile \in Service
    BY DEF FromFile, Service, Triggers
  <2>2. Listed \subseteq Names
    <3>1. ini \subseteq Names \/ ini = NoFile
      BY DEF TypeOK
    <3>2. CASE ini = NoFile
      BY <3>2, PackagedAssumption DEF Listed
    <3>3. CASE ini # NoFile
      BY <3>1, <3>3 DEF Listed
    <3> QED BY <3>2, <3>3
  <2>3. IsMap(events', Names, Service)
    BY <1>1, <2>1, <2>2 DEF OnInit, IsMap
  <2>4. cmds = << >>
    BY <1>1 DEF OnInit, TypeOK
  <2>5. UNCHANGED <<running_events, starting_events, failed_events, writers, posted, pipe,
                    wpc, req, made, todo, cmds, restart, held, dangling, upc, stopping, ini,
                    inUse, requests, kept, torn, stale, settled>>
        /\ up' = TRUE /\ running' = TRUE /\ mpc' = "copy" /\ held = None
    BY <1>1 DEF OnInit, worker, ghosts, TypeOK
  <2> QED BY <2>3, <2>4, <2>5 DEF TypeOK
<1>2. CASE Crash
  BY <1>2, TypeEnds DEF Crash
<1>3. CASE Uninit
  BY <1>3 DEF Uninit, tables, worker, monitor, ghosts, TypeOK
<1>4. CASE UninitJoin
  <2>1. pipe' \in Seq(Results \cup Responses)
    BY <1>4 DEF UninitJoin
  <2> QED BY <1>4, <2>1 DEF UninitJoin, tables, worker, monitor, ghosts, TypeOK
<1>5. CASE UninitStop
  <2>1. posted' \in Seq(Posted) /\ stopping' \subseteq Names /\ upc' \in {"stop", "done"}
    <3>1. CASE stopping = {}
      BY <1>5, <3>1 DEF UninitStop, TypeOK
    <3>2. CASE stopping # {}
      <4>1. PICK n \in stopping : posted' = Append(posted, [type |-> "STOP", name |-> n])
                                  /\ stopping' = stopping \ {n} /\ upc' = upc
        BY <1>5, <3>2 DEF UninitStop
      <4>2. [type |-> "STOP", name |-> n] \in Posted
        BY DEF Posted, TypeOK
      <4> QED BY <1>5, <4>1, <4>2 DEF UninitStop, TypeOK
    <3> QED BY <3>1, <3>2
  <2> QED BY <1>5, <2>1 DEF UninitStop, tables, worker, monitor, ghosts, TypeOK
<1>6. CASE Serve
  <2> DEFINE n == Head(posted).name
  <2>1. n \in Names /\ posted' \in Seq(Posted)
    <3>1. Head(posted) \in Posted
      BY <1>6 DEF Serve, TypeOK
    <3> QED BY <1>6, <3>1 DEF Serve, TypeOK, Posted
  <2>2. \A m \in Results : Write(m) => pipe' \in Seq(Results \cup Responses)
    BY DEF Write, TypeOK
  <2>3. pipe' \in Seq(Results \cup Responses)
    <3>1. CASE Head(posted).type = "START"
      <4>1. PICK ok \in BOOLEAN : Write([type |-> StartResultType, name |-> n, ok |-> ok])
        BY <1>6, <3>1 DEF Serve
      <4>2. [type |-> StartResultType, name |-> n, ok |-> ok] \in Results
        BY <2>1 DEF Results, StartResultType
      <4> QED BY <2>2, <4>1, <4>2
    <3>2. CASE Head(posted).type # "START"
      <4> DEFINE m == [type |-> "EXTRA", name |-> n, ok |-> n \in inUse]
      <4>1. Write(m) \/ pipe' = pipe
        BY <1>6, <3>2 DEF Serve
      <4>2. m \in Results
        BY <2>1 DEF Results
      <4>3. CASE Write(m)
        BY <2>2, <4>2, <4>3
      <4>4. CASE pipe' = pipe
        BY <4>4 DEF TypeOK
      <4> QED BY <4>1, <4>3, <4>4
    <3> QED BY <3>1, <3>2
  <2>4. inUse' \subseteq Names /\ settled' \subseteq Names
    <3>1. /\ inUse' = inUse \/ inUse' = inUse \cup {n}
          /\ settled' = settled \/ settled' = settled \cup {n}
      BY <1>6 DEF Serve
    <3> QED BY <2>1, <3>1 DEF TypeOK
  <2> QED BY <1>6, <2>1, <2>3, <2>4 DEF Serve, tables, worker, monitor, shutdown, TypeOK
<1>7. ASSUME NEW n \in Names, ServiceEnds(n) PROVE TypeOK'
  <2>1. inUse' \subseteq Names
    BY <1>7 DEF ServiceEnds, TypeOK
  <2>2. pipe' \in Seq(Results \cup Responses)
    <3> DEFINE m == [type |-> "RESPONSE", name |-> n, ok |-> TRUE]
    <3>1. m \in Responses
      BY DEF Responses
    <3>2. pipe' = pipe \/ pipe' = Append(pipe, m)
      BY <1>7 DEF ServiceEnds, Write
    <3>3. pipe \in Seq(Results \cup Responses)
      BY DEF TypeOK
    <3> HIDE DEF m
    <3> QED BY <3>1, <3>2, <3>3
  <2> QED BY <1>7, <2>1, <2>2 DEF ServiceEnds, tables, worker, monitor, shutdown, ghosts, TypeOK
<1> QED BY <1>1, <1>2, <1>3, <1>4, <1>5, <1>6, <1>7

\* Every step keeps the shape.
LEMMA TypeStep == TypeOK /\ [Next]_vars => TypeOK'
<1>1. CASE UNCHANGED vars
  BY <1>1 DEF vars, tables, worker, monitor, shutdown, ghosts, TypeOK
<1> QED BY <1>1, TypeWorker, TypeMonitor, TypeOthers DEF Next

\* Every reachable state has the shape TypeOK.
THEOREM TypeCorrect == Spec => []TypeOK
BY TypeInit, TypeStep, PTL DEF Spec

-----------------------------------------------------------------------------
(* No service is recorded as running *)

\* The initial state has nothing recorded.
LEMMA RecordedInit == Init => Recorded
<1> SUFFICES ASSUME Init PROVE Recorded
  OBVIOUS
<1>1. posted = << >> /\ pipe = << >> /\ stopping = {} /\ restart = {}
      /\ running_events = {} /\ failed_events = {} /\ writers = {}
  BY DEF Init
<1> QED BY <1>1 DEF Recorded

\* Reading a message records nothing, since none is a LABEL.
LEMMA RecordedRead == TypeOK /\ Recorded /\ Read => Recorded'
<1> SUFFICES ASSUME TypeOK, Recorded, Read PROVE Recorded'
  OBVIOUS
<1> DEFINE m == Head(pipe)
<1>1. m \in Answers
  BY HeadAndTail DEF Read, Recorded
<1>2. CASE m.type = "RESPONSE"
  <2>1. HandleResponse(m.name)
    BY <1>2 DEF Read
  <2>2. running_events' = {} /\ failed_events' = {} /\ writers' = {}
    BY <2>1 DEF HandleResponse, Recorded
  <2> QED BY <2>2 DEF Read, Recorded, shutdown
<1>3. CASE m.type # "RESPONSE"
  <2>1. HandleResult(m) /\ m.type # "LABEL"
    BY <1>1, <1>3 DEF Read, Answers, Responses
  <2>2. running_events' = {} /\ failed_events' = {} /\ writers' = {}
    BY <2>1 DEF HandleResult, Recorded
  <2> QED BY <2>2 DEF Read, Recorded, shutdown
<1> QED BY <1>2, <1>3

\* The service executor takes a START and answers it with NONE.
LEMMA RecordedServe ==
    ASSUME TypeOK, Recorded, Serve
    PROVE  /\ Recorded'
           /\ Head(posted) \in Starts
           /\ \E ok \in IF Head(posted).name \in inUse THEN {FALSE} ELSE BOOLEAN :
                 /\ [type |-> "NONE", name |-> Head(posted).name, ok |-> ok] \in Answers
                 /\ Write([type |-> "NONE", name |-> Head(posted).name, ok |-> ok])
                 /\ settled' = IF ok THEN settled \cup {Head(posted).name} ELSE settled
<1> DEFINE n == Head(posted).name
           A(ok) == [type |-> "NONE", name |-> n, ok |-> ok]
<1>1. Head(posted) \in Starts /\ posted' = Tail(posted) /\ posted' \in Seq(Starts)
  BY HeadAndTail DEF Serve, Recorded
<1>2. PICK ok \in IF n \in inUse THEN {FALSE} ELSE BOOLEAN :
         /\ Write(A(ok))
         /\ settled' = IF ok THEN settled \cup {n} ELSE settled
  BY <1>1 DEF Serve, Starts, StartResultType
<1>3. ok \in BOOLEAN
  OBVIOUS
<1>4. A(ok) \in Answers
  BY <1>1, <1>3 DEF Answers, Starts
<1>5. pipe' \in Seq(Answers)
  BY <1>2, <1>4, WriteKeeps DEF Recorded
<1>6. Recorded'
  BY <1>1, <1>5 DEF Serve, Recorded, tables, monitor, shutdown
<1> QED BY <1>1, <1>2, <1>4, <1>6

\* No step records a service as running.
LEMMA RecordedStep == TypeOK /\ Recorded /\ [Next]_vars => Recorded'
<1> SUFFICES ASSUME TypeOK, Recorded, [Next]_vars PROVE Recorded'
  OBVIOUS
<1> DEFINE same == UNCHANGED <<running_events, failed_events, restart, writers, stopping,
                               posted, pipe>>
<1>1. same => Recorded'
  BY DEF Recorded
<1>2. ASSUME NEW n \in Names, NEW condition \in BOOLEAN, StartIf(condition, n),
             UNCHANGED <<running_events, failed_events, restart, writers, stopping, pipe>>
      PROVE  Recorded'
  BY <1>2, StartKeeps DEF Recorded
<1>3. CASE UNCHANGED vars \/ Refuse \/ AddInsert \/ Open \/ OpenFails \/ WriteFails
           \/ SendResult \/ Exit
           \/ SelectTimedOut \/ Uninit \/ OnInit
  BY <1>1, <1>3 DEF vars, Refuse, AddInsert, Open, OpenFails, WriteFails,
     SendResult, Exit, SelectTimedOut, Uninit,
     OnInit, tables, worker, monitor, shutdown
<1>4. ASSUME NEW n \in Names, NEW triggers \in SUBSET Triggers, NEW set \in BOOLEAN,
             Add(n, triggers, set)
      PROVE  Recorded'
  <2> DEFINE s == [triggers |-> triggers, fired |-> {}, restart |-> n \in Restarting]
  <2>1. StartIf(Triggered(s, set), n) /\ Triggered(s, set) \in BOOLEAN
    BY <1>4 DEF Add, Triggered
  <2> QED BY <1>2, <1>4, <2>1 DEF Add, monitor, shutdown
<1>5. ASSUME NEW n \in Names, NEW stop \in BOOLEAN, Del(n, stop) PROVE Recorded'
  BY <1>1, <1>5 DEF Del, Recorded, shutdown
<1>6. ASSUME NEW n \in Names, Info(n) \/ WriteEvent(n) PROVE Recorded'
  BY <1>1, <1>6 DEF Info, WriteEvent, Recorded, tables, monitor, shutdown
<1>7. CASE Copy \/ TriggersDone
  <2>1. restart' = {} /\ failed_events' = {}
    BY <1>7 DEF Copy, TriggersDone, Recorded, tables
  <2> QED BY <1>7, <2>1 DEF Copy, TriggersDone, Recorded, tables, shutdown
<1>8. CASE Read
  BY <1>8, RecordedRead
<1>9. CASE Retry
  <2>1. held \in Names /\ StartIf(TRUE, held)
    BY <1>9 DEF Retry, StartIf, TypeOK
  <2> QED BY <1>2, <1>9, <2>1 DEF Retry, shutdown
<1>10. CASE Ends
  <2>1. posted' = << >> /\ pipe' = << >> /\ stopping' = {} /\ restart' = {}
        /\ running_events' = {} /\ failed_events' = {} /\ writers' = {}
    BY <1>10 DEF Ends
  <2> QED BY <2>1 DEF Recorded
<1>11. ASSUME NEW n \in Names, NEW set \in BOOLEAN, Trigger(n, set) PROVE Recorded'
  <2>1. StartIf(Triggered(Object(n), set) \/ n \in restart, n)
    BY <1>11 DEF Trigger
  <2>2. (Triggered(Object(n), set) \/ n \in restart) \in BOOLEAN
    BY DEF Triggered
  <2> QED BY <1>2, <1>11, <2>1, <2>2 DEF Trigger, shutdown
<1>12. CASE UninitJoin
  <2>1. stopping' = {} /\ pipe' = << >>
    BY <1>12 DEF UninitJoin, Recorded
  <2> QED BY <1>12, <2>1 DEF UninitJoin, Recorded, tables, monitor
<1>13. CASE UninitStop
  BY <1>1, <1>13 DEF UninitStop, Recorded, tables, monitor
<1>14. CASE Serve
  BY <1>14, RecordedServe
<1>15. ASSUME NEW n \in Names, ServiceEnds(n) PROVE Recorded'
  <2> DEFINE m == [type |-> "RESPONSE", name |-> n, ok |-> TRUE]
  <2>1. m \in Answers
    BY DEF Answers, Responses
  <2>2. Write(m) => pipe' \in Seq(Answers)
    BY <2>1, WriteKeeps DEF Recorded
  <2> QED BY <1>15, <2>2 DEF ServiceEnds, Recorded, tables, monitor, shutdown
<1> QED BY <1>3, <1>4, <1>5, <1>6, <1>7, <1>8, <1>9, <1>10, <1>11, <1>12, <1>13, <1>14, <1>15
        DEF Next, Command, Work, Monitor, Crash, RetryErased

\* The answers of the service executor never make an event a running one:
\* nothing is stopped, restarted or told through running_events, ever.
THEOREM NothingIsRecorded == Spec => []NeverRecorded
<1>1. ASSUME Recorded PROVE NeverRecorded
  <2>1. \A i \in DOMAIN posted : posted[i] \in Starts
    BY <1>1 DEF Recorded
  <2>2. \A m \in Starts : m.type = "START"
    BY DEF Starts
  <2> QED BY <1>1, <2>1, <2>2 DEF Recorded, NeverRecorded
<1> QED BY <1>1, TypeInit, TypeStep, RecordedInit, RecordedStep, PTL DEF Spec

-----------------------------------------------------------------------------
(* The table and its file *)

\* Where nothing of the table and its file changes but the triggers that have
\* fired, they agree as before.
LEMMA FileKept ==
    ASSUME TypeOK, FileLags, KeptListed, DOMAIN events' = DOMAIN events,
           UNCHANGED <<up, todo, ini, wpc, req, kept, torn, stale>>
    PROVE  FileLags' /\ KeptListed'
BY DEF FileLags, KeptListed, Listed

\* The end of the daemon loses nothing but what the worker had yet to write.
LEMMA FileEnds ==
    ASSUME TypeOK, FileLags, KeptListed, up, Ends
    PROVE  FileLags' /\ KeptListed'
<1>1. /\ ~up' /\ wpc' = "wait" /\ todo' = {} /\ torn' = torn \cup todo
      /\ UNCHANGED <<ini, kept>>
  BY DEF Ends
<1>2. FileLags'
  BY <1>1 DEF FileLags
<1>3. Listed' = Listed
  BY <1>1 DEF Listed
<1>4. kept \subseteq Listed \cup torn \cup todo
  <2>1. CASE wpc \in {"wait", "insert"}
    BY <2>1 DEF FileLags, KeptListed
  <2>2. CASE wpc = "write"
    <3>1. req \in Requests
      BY <2>2 DEF TypeOK
    <3>2. CASE req.type = "ADD"
      BY <2>2, <3>2 DEF FileLags, KeptListed
    <3>3. CASE req.type = "DEL"
      BY <2>2, <3>3 DEF FileLags, KeptListed
    <3> QED BY <3>1, <3>2, <3>3 DEF Requests
  <2>3. CASE wpc = "writing"
    BY <2>3 DEF FileLags, KeptListed, Listed
  <2>4. CASE wpc = "failed"
    BY <2>4 DEF FileLags, KeptListed
  <2> QED BY <2>1, <2>2, <2>3, <2>4 DEF TypeOK
<1> QED BY <1>1, <1>2, <1>3, <1>4 DEF KeptListed

\* No step loses an event that is kept.
LEMMA FileStep ==
    TypeOK /\ FileLags /\ KeptListed /\ [Next]_vars => FileLags' /\ KeptListed'
<1> SUFFICES ASSUME TypeOK, FileLags, KeptListed, [Next]_vars PROVE FileLags' /\ KeptListed'
  OBVIOUS
<1>1. CASE UNCHANGED vars \/ Refuse \/ Copy \/ Exit \/ TriggersDone \/ SelectTimedOut \/ Read
           \/ Retry \/ Uninit \/ UninitJoin \/ UninitStop \/ Serve
  BY <1>1, FileKept DEF vars, Refuse, Copy, Exit, TriggersDone, SelectTimedOut, Read, Retry,
     Uninit, UninitJoin, UninitStop, Serve, tables, worker, ghosts
<1>2. ASSUME NEW n \in Names, Info(n) \/ ServiceEnds(n)
      PROVE  FileLags' /\ KeptListed'
  BY <1>2, FileKept DEF Info, ServiceEnds, tables, worker, ghosts
<1>3. ASSUME NEW n \in Names, NEW set \in BOOLEAN, Trigger(n, set) PROVE FileLags' /\ KeptListed'
  <2>1. DOMAIN events' = DOMAIN events
    BY <1>3 DEF Trigger
  <2> QED BY <1>3, <2>1, FileKept DEF Trigger, worker
<1>4. CASE OnInit
  <2>1. DOMAIN events' = Listed /\ Listed' = Listed /\ wpc = "wait" /\ up' /\ ~up
        /\ UNCHANGED <<wpc, req, todo, kept, torn, stale, ini>>
    BY <1>4 DEF OnInit, FileLags, worker, ghosts, Listed
  <2> QED BY <2>1 DEF FileLags, KeptListed
<1>5. CASE Crash \/ RetryErased
  <2>1. up
    BY <1>5 DEF Crash, RetryErased, TypeOK
  <2> QED BY <1>5, <2>1, FileEnds DEF Crash, RetryErased
<1>6. ASSUME NEW n \in Names, NEW triggers \in SUBSET Triggers, NEW set \in BOOLEAN,
             Add(n, triggers, set)
      PROVE  FileLags' /\ KeptListed'
  <2>1. /\ up /\ wpc = "wait" /\ n \notin DOMAIN events /\ wpc' = "insert"
        /\ req' = [type |-> "ADD", name |-> n] /\ Listed' = Listed
        /\ UNCHANGED <<up, events, todo, ini, kept, torn>>
    BY <1>6 DEF Add, Accept, Listed
  <2> QED BY <2>1 DEF FileLags, KeptListed
<1>7. CASE AddInsert
  <2>1. /\ wpc = "insert" /\ wpc' = "write" /\ DOMAIN events' = DOMAIN events \cup {req.name}
        /\ Listed' = Listed /\ UNCHANGED <<up, req, todo, ini, kept, torn>>
    BY <1>7 DEF AddInsert, With, Listed, ghosts
  <2> QED BY <2>1 DEF FileLags, KeptListed
<1>8. ASSUME NEW n \in Names, NEW stop \in BOOLEAN, Del(n, stop)
      PROVE  FileLags' /\ KeptListed'
  <2>1. /\ up /\ wpc = "wait" /\ wpc' = "write" /\ DOMAIN events' = DOMAIN events \ {n}
        /\ req' = [type |-> "DEL", name |-> n] /\ kept' = kept \ {n}
        /\ Listed' = Listed /\ UNCHANGED <<up, todo, ini, torn>>
    BY <1>8 DEF Del, Accept, Without, Listed
  <2> QED BY <2>1 DEF FileLags, KeptListed
<1>9. CASE Open
  <2>1. /\ wpc = "write" /\ wpc' = "writing" /\ ini' = {} /\ todo' = DOMAIN events
        /\ UNCHANGED <<up, events, req, kept, torn>>
    BY <1>9 DEF Open, tables
  <2>2. up /\ ini' # NoFile
    BY <2>1 DEF FileLags, NoFile
  <2> QED BY <2>1, <2>2 DEF FileLags, KeptListed
<1>10. ASSUME NEW n \in Names, WriteEvent(n) PROVE FileLags' /\ KeptListed'
  <2>1. /\ wpc = "writing" /\ n \in todo /\ ini' = ini \cup {n} /\ todo' = todo \ {n}
        /\ UNCHANGED <<up, events, wpc, req, kept, torn>>
    BY <1>10 DEF WriteEvent, tables, ghosts
  <2>2. up /\ ini' # NoFile
    BY <2>1, NoneAssumption DEF FileLags, NoFile
  <2> QED BY <2>1, <2>2 DEF FileLags, KeptListed
<1>11. CASE OpenFails
  <2>1. /\ wpc = "write" /\ wpc' = "failed" /\ stale' /\ todo' = DOMAIN events \ Listed
        /\ Listed' = Listed /\ UNCHANGED <<up, events, req, kept, torn>>
    BY <1>11 DEF OpenFails, tables, Listed
  <2> QED BY <2>1 DEF FileLags, KeptListed
<1>12. CASE WriteFails
  <2>1. /\ wpc = "writing" /\ wpc' = "failed" /\ stale' /\ Listed' = Listed
        /\ UNCHANGED <<up, events, req, todo, ini, kept, torn>>
    BY <1>12 DEF WriteFails, tables, Listed
  <2>2. Listed = ini
    BY <2>1 DEF FileLags, Listed
  <2> QED BY <2>1, <2>2 DEF FileLags, KeptListed
<1>13. CASE SendResult
  <2>1. /\ wpc' = "wait" /\ todo' = {} /\ Listed' = Listed /\ UNCHANGED <<up, events, stale>>
        /\ kept' = IF req.type = "ADD" THEN kept \cup {req.name} ELSE kept
        /\ torn' = (torn \ DOMAIN events) \cup IF wpc = "failed" THEN todo ELSE {}
    BY <1>13 DEF SendResult, tables, Listed
  <2>2. \/ wpc = "failed" /\ stale /\ DOMAIN events \ todo \subseteq Listed
        \/ wpc = "writing" /\ Listed = DOMAIN events
    <3>1. wpc = "failed" \/ (wpc = "writing" /\ todo = {})
      BY <1>13 DEF SendResult, AllWritten
    <3> QED BY <3>1 DEF FileLags, Listed
  <2>3. req \in Requests /\ up
    BY <2>2 DEF TypeOK, FileLags
  <2>4. kept' \subseteq DOMAIN events \cup torn
    BY <2>1, <2>2, <2>3 DEF FileLags, KeptListed, Requests
  <2>5. FileLags'
    BY <2>1, <2>2, <2>3 DEF FileLags
  <2>6. KeptListed'
    BY <2>1, <2>3, <2>4 DEF KeptListed
  <2> QED BY <2>5, <2>6
<1> QED BY <1>1, <1>2, <1>3, <1>4, <1>5, <1>6, <1>7, <1>8, <1>9, <1>10, <1>11, <1>12, <1>13
        DEF Next, Command, Work, Monitor

\* An ADD that was answered OK outlives every crash and restart until its DEL,
\* unless the file could not be opened or written, or a crash came in the middle
\* of its writing.
THEOREM KeptThroughCrashes == Spec => []KeptUnlessTorn
<1>1. Init => FileLags /\ KeptListed
  BY DEF Init, FileLags, KeptListed
<1>2. KeptListed => KeptUnlessTorn
  BY DEF KeptListed, KeptUnlessTorn
<1> QED BY <1>1, <1>2, TypeInit, TypeStep, FileStep, PTL DEF Spec

\* Between commands the file lists the events of the table and no others, if its
\* last writing has succeeded: a deleted event does not come back, however the
\* daemon ends, and what a crash has torn out of the file is gone from the table
\* as well.
AnsweredIsFiled == up /\ wpc = "wait" /\ ~stale => Listed = DOMAIN events

\* The file follows the table: an event the worker has deleted is not listed,
\* unless the writing of the file has failed.
THEOREM FileFollows == Spec => []AnsweredIsFiled
<1>1. Init => FileLags /\ KeptListed
  BY DEF Init, FileLags, KeptListed
<1>2. FileLags => AnsweredIsFiled
  BY DEF FileLags, AnsweredIsFiled
<1> QED BY <1>1, <1>2, TypeInit, TypeStep, FileStep, PTL DEF Spec

-----------------------------------------------------------------------------
(* What becomes of a start *)

\* Where starts are followed, the start of an event leaves them so, and so does
\* what leaves the messages and the settled names alone.
LEMMA FollowedKept ==
    ASSUME Followed, up, UNCHANGED <<up, running, upc>>, held' = held,
           Waiting \subseteq Waiting', Failing \subseteq Failing',
           \A k \in starting_events' :
              \/ k \in Waiting'
              \/ k \in starting_events /\ (k \in settled => k \in settled')
    PROVE  Followed'
BY DEF Followed

\* No step loses sight of a start.
LEMMA FollowedStep == TypeOK /\ Recorded /\ Followed /\ [Next]_vars => Followed'
<1> SUFFICES ASSUME TypeOK, Recorded, Followed, [Next]_vars PROVE Followed'
  OBVIOUS
<1>1. ASSUME UNCHANGED <<up, running, upc, held, posted, pipe, starting_events, settled>>
      PROVE  Followed'
  BY <1>1 DEF Followed, Waiting, Failing
<1>2. ASSUME NEW n \in Names, NEW condition \in BOOLEAN, StartIf(condition, n),
             up, UNCHANGED <<up, running, upc, held, pipe>>
      PROVE  Followed'
  <2>1. Failing' = Failing
    BY <1>2 DEF Failing
  <2>2. /\ Waiting \subseteq Waiting'
        /\ \A k \in starting_events' :
              \/ k \in Waiting'
              \/ k \in starting_events /\ (k \in settled => k \in settled')
    BY <1>2, StartKeeps DEF Recorded
  <2> QED BY <1>2, <2>1, <2>2, FollowedKept
<1>3. CASE UNCHANGED vars \/ Refuse \/ AddInsert \/ Open \/ OpenFails \/ WriteFails
           \/ SendResult \/ Copy \/ Exit
           \/ TriggersDone \/ SelectTimedOut
  BY <1>1, <1>3 DEF vars, Refuse, AddInsert, Open, OpenFails, WriteFails,
     SendResult, Copy, Exit, TriggersDone,
     SelectTimedOut, tables, monitor, shutdown, ghosts
<1>4. ASSUME NEW n \in Names, NEW triggers \in SUBSET Triggers, NEW set \in BOOLEAN,
             Add(n, triggers, set)
      PROVE  Followed'
  <2> DEFINE s == [triggers |-> triggers, fired |-> {}, restart |-> n \in Restarting]
  <2>1. StartIf(Triggered(s, set), n) /\ Triggered(s, set) \in BOOLEAN
    BY <1>4 DEF Add, Triggered
  <2> QED BY <1>2, <1>4, <2>1 DEF Add, Accept, monitor, shutdown
<1>5. ASSUME NEW n \in Names, NEW stop \in BOOLEAN, Del(n, stop) PROVE Followed'
  BY <1>1, <1>5 DEF Del, Recorded, shutdown
<1>6. ASSUME NEW n \in Names, Info(n) \/ WriteEvent(n) PROVE Followed'
  BY <1>1, <1>6 DEF Info, WriteEvent, Recorded, tables, monitor, shutdown,
     ghosts
<1>7. CASE OnInit
  <2>1. /\ starting_events' = starting_events /\ upc' = upc /\ upc = "run" /\ up'
        /\ starting_events = {}
    BY <1>7 DEF OnInit, Followed
  <2> QED BY <2>1 DEF Followed
<1>8. CASE Ends
  BY <1>8 DEF Ends, Followed
<1>9. CASE Uninit \/ UninitJoin \/ UninitStop
  <2>1. ~running' /\ up' /\ up
    BY <1>9 DEF Uninit, UninitJoin, UninitStop, Followed, tables
  <2> QED BY <2>1 DEF Followed
<1>10. CASE Read
  <2> DEFINE m == Head(pipe)
  <2>1. /\ m \in Answers /\ pipe # << >> /\ mpc = "select" /\ held = None
        /\ UNCHANGED <<up, running, upc, posted>>
        /\ settled' = settled \cup Failures(Tail(pipe)) \cup (Failures(<<m>>) \ DOMAIN events)
    BY <1>10, HeadAndTail DEF Read, Recorded, TypeOK, shutdown
  <2>2. starting_events' \subseteq starting_events
    BY <1>10 DEF Read, HandleResponse, HandleResult
  <2>3. Failing \subseteq Failures(Tail(pipe)) \cup Failures(<<m>>)
    <3>1. /\ \A i \in DOMAIN pipe : \/ pipe[i] = m
                                    \/ \E j \in DOMAIN Tail(pipe) : Tail(pipe)[j] = pipe[i]
      BY <2>1, HeadAndTail DEF Recorded
    <3>2. 1 \in DOMAIN <<m>> /\ <<m>>[1] = m
      OBVIOUS
    <3> QED BY <3>1, <3>2 DEF Failing, Failures
  <2>4. \A n \in starting_events : n \in Failures(<<m>>) /\ n \in DOMAIN events => held' = n
    <3> SUFFICES ASSUME NEW n \in starting_events, n \in Failures(<<m>>), n \in DOMAIN events
                 PROVE  held' = n
      OBVIOUS
    <3>1. n = m.name /\ m.type # "RESPONSE" /\ ~m.ok
      BY DEF Failures
    <3>2. HandleResult(m)
      BY <1>10, <3>1 DEF Read
    <3> QED BY <3>1, <3>2 DEF HandleResult, TriedAgain
  <2>5. running' => \A n \in starting_events' : n \in Waiting' \cup Failing' \cup settled' \/ held' = n
    <3> SUFFICES ASSUME running', NEW n \in starting_events'
                 PROVE  n \in Waiting' \cup settled' \/ held' = n
      OBVIOUS
    <3>1. n \in starting_events /\ running /\ n \in Names /\ n # held
      BY <2>1, <2>2, NoneAssumption DEF TypeOK
    <3>2. n \in Waiting \cup Failing \cup settled
      BY <3>1 DEF Followed
    <3>3. Waiting' = Waiting
      BY <2>1 DEF Waiting
    <3> QED BY <2>1, <2>3, <2>4, <3>1, <3>2, <3>3
  <2>6. up
    BY <2>1 DEF TypeOK
  <2> QED BY <2>1, <2>5, <2>6 DEF Followed
<1>11. CASE Retry
  <2>1. held \in Names /\ StartIf(TRUE, held) /\ UNCHANGED <<up, running, upc, pipe>>
        /\ starting_events' = starting_events \cup {held} /\ settled' = settled \ {held}
    BY <1>11 DEF Retry, StartIf, StartEvent, TypeOK, shutdown
  <2>2. Waiting \subseteq Waiting' /\ Failing' = Failing
    BY <2>1, StartKeeps DEF Recorded, Failing
  <2>3. held \in Waiting'
    <3> DEFINE m == [type |-> "START", name |-> held]
    <3>1. posted' = Append(posted, m) /\ m \in Starts
      BY <2>1 DEF StartIf, StartEvent, Starts
    <3>2. Len(posted) + 1 \in DOMAIN posted' /\ posted'[Len(posted) + 1] = m
      BY <3>1, AppendMembers DEF Recorded
    <3>3. posted'[Len(posted) + 1].name = held
      BY <3>2
    <3> QED BY <3>2, <3>3 DEF Waiting
  <2>4. up
    BY <1>11 DEF Retry, TypeOK
  <2> QED BY <2>1, <2>2, <2>3, <2>4 DEF Followed
<1>12. ASSUME NEW n \in Names, NEW set \in BOOLEAN, Trigger(n, set) PROVE Followed'
  <2>1. StartIf(Triggered(Object(n), set) \/ n \in restart, n)
    BY <1>12 DEF Trigger
  <2>2. (Triggered(Object(n), set) \/ n \in restart) \in BOOLEAN
    BY DEF Triggered
  <2>3. up
    BY <1>12 DEF Trigger, TypeOK
  <2> QED BY <1>2, <1>12, <2>1, <2>2, <2>3 DEF Trigger, shutdown
<1>13. CASE Serve
  <2> DEFINE n == Head(posted).name
             A(ok) == [type |-> "NONE", name |-> n, ok |-> ok]
  <2>1. PICK ok \in IF n \in inUse THEN {FALSE} ELSE BOOLEAN :
           A(ok) \in Answers /\ Write(A(ok))
           /\ settled' = IF ok THEN settled \cup {n} ELSE settled
    BY <1>13, RecordedServe
  <2>2. /\ UNCHANGED <<up, running, upc, held, starting_events>>
        /\ posted' = Tail(posted) /\ posted # << >>
    BY <1>13 DEF Serve, tables, monitor, shutdown
  <2>3. /\ Failing \subseteq Failing'
        /\ upc = "run" /\ A(ok).type # "RESPONSE" /\ ~A(ok).ok => n \in Failing'
    <3>1. A(ok).name = n
      OBVIOUS
    <3> QED BY <2>1, <3>1, WriteKeeps DEF Recorded
  <2>4. running => n \in Failing' \cup settled'
    BY <2>1, <2>3 DEF Followed
  <2>5. Waiting \subseteq Waiting' \cup {n}
    <3>1. \A i \in DOMAIN posted : \/ posted[i] = Head(posted)
                                   \/ \E j \in DOMAIN Tail(posted) : Tail(posted)[j] = posted[i]
      BY <2>2, HeadAndTail DEF Recorded
    <3> QED BY <2>2, <3>1 DEF Waiting
  <2>6. settled \subseteq settled'
    BY <2>1
  <2> QED BY <2>2, <2>3, <2>4, <2>5, <2>6 DEF Followed
<1>14. ASSUME NEW n \in Names, ServiceEnds(n) PROVE Followed'
  <2> DEFINE m == [type |-> "RESPONSE", name |-> n, ok |-> TRUE]
  <2>1. m \in Answers
    BY DEF Answers, Responses
  <2>2. pipe' = pipe \/ Write(m)
    BY <1>14 DEF ServiceEnds
  <2>3. Failing \subseteq Failing'
    BY <2>1, <2>2, WriteKeeps DEF Recorded, Failing
  <2> QED BY <1>14, <2>3 DEF ServiceEnds, Followed, Waiting, tables, monitor, shutdown, ghosts
<1> QED BY <1>3, <1>4, <1>5, <1>6, <1>7, <1>8, <1>9, <1>10, <1>11, <1>12, <1>13, <1>14
        DEF Next, Command, Work, Monitor, Crash, RetryErased

\* While the monitor runs, a failing start is tried again unless its failure
\* is dropped: read behind another message, or come before the event is in the
\* table.
THEOREM FailuresFollowed == Spec => []RetriedOrDropped
<1>1. Init => Followed
  BY DEF Init, Followed
<1>2. ASSUME TypeOK, Recorded, Followed PROVE RetriedOrDropped
  <2> SUFFICES ASSUME running, NEW n \in starting_events
               PROVE  Underway(n) \/ n \in settled
    BY DEF RetriedOrDropped
  <2>1. CASE n \in Waiting
    BY <2>1 DEF Waiting, Underway
  <2>2. CASE n \in Failing
    BY <2>2 DEF Failing, Failures, Underway
  <2>3. CASE held = n
    BY <2>3 DEF Underway
  <2> QED BY <1>2, <2>1, <2>2, <2>3 DEF Followed
<1> QED BY <1>1, <1>2, TypeInit, TypeStep, RecordedInit, RecordedStep, FollowedStep, PTL
        DEF Spec
=============================================================================
