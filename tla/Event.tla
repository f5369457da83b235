------------------------------- MODULE Event --------------------------------
(***************************************************************************)
(* Event services of saced (src/saced/SaceEvent.cpp, the triggers of       *)
(* src/libsace/SaceParams.cpp).  The executor's worker adds and deletes    *)
(* events and keeps their list in a file; the monitor thread starts the    *)
(* services of events whose triggers fire and reads, from a pipe, what     *)
(* the service executor answers; the main thread ends the monitor.  The    *)
(* daemon may crash at any moment and is started again by init.            *)
(*                                                                         *)
(* The service executor is the module ServiceExcutor; here it takes one    *)
(* message after the other, knows which names are in use and tells ends.   *)
(* Labels are left out: they are compared with those of running_events.    *)
(***************************************************************************)
EXTENDS Naturals, Sequences

CONSTANTS
    Names,        \* names of events and of the services they start
    Packaged,     \* events of DEFAULT_INI_FILE
    Restarting,   \* names added with SACE_EVENT_FLAG_RESTART
    None,         \* no name, no service
    MaxRequests   \* bound of the model on the ADD and DEL commands

ASSUME PackagedAssumption == Packaged \subseteq Names
ASSUME NoneAssumption == None \notin Names
ASSUME MaxRequestsAssumption == MaxRequests \in Nat

VARIABLES
    up,                \* whether the daemon runs
    events,            \* map<string, shared_ptr<Service>>
    running_events,    \* the names map<string, uint64_t> holds
    starting_events,
    failed_events,
    writers,           \* the names map<string, vector<sp<SaceWriter>>> holds
    posted,            \* messages on their way to the service executor
    pipe,              \* what has been written to event_writer and not read
    wpc, req, made,    \* the worker: position, command, its new Service
    todo,              \* events the worker has yet to write to the file
    mpc, cmds, restart,\* the monitor: position, copies of events, failed_events
    held, dangling,    \* its iterator into events, and whether that was erased
    running,           \* the flag the monitor looks at
    upc, stopping,     \* the main thread in onUninit, events it has yet to stop
    ini,               \* the events DATA_INI_FILE lists, or NoFile
    inUse,             \* names of running services events have started
    requests,          \* commands so far
    kept,              \* events whose ADD was answered OK, not deleted since
    torn,              \* events whose lines are not in the file, as the daemon
                       \* crashed while it wrote them, or could not write
    stale,             \* whether the last writing of the file has failed
    settled            \* names whose last start has succeeded, or whose failure
                       \* was dropped: read together with another message, or
                       \* come while the event was not in the table

tables == <<events, running_events, starting_events, failed_events, writers>>
worker == <<wpc, req, made, todo>>
monitor == <<mpc, cmds, restart, held, dangling>>
shutdown == <<running, upc, stopping>>
ghosts == <<kept, torn, stale, settled>>
vars == <<up, tables, posted, pipe, worker, monitor, shutdown, ini, inUse, requests,
          ghosts>>

-----------------------------------------------------------------------------
(* Data *)

Triggers == {"property", "boot"}
Service == [triggers : SUBSET Triggers, fired : SUBSET Triggers, restart : BOOLEAN]
ASSUME NoObjectAssumption == None \notin Service
NoService == [triggers |-> {}, fired |-> {}, restart |-> FALSE]
Requests == [type : {"ADD", "DEL"}, name : Names]
\* DATA_INI_FILE does not exist
NoFile == {None}

NoRequest == [type |-> "NONE", name |-> None]
Posted == [type : {"START", "STOP", "INFO"}, name : Names]
Results == [type : {"NONE", "LABEL", "EXTRA"}, name : Names, ok : BOOLEAN]
Responses == [type : {"RESPONSE"}, name : Names, ok : BOOLEAN]

With(f, k, v) == [x \in DOMAIN f \cup {k} |-> IF x = k THEN v ELSE f[x]]
Without(f, k) == [x \in DOMAIN f \ {k} |-> f[x]]

\* A copy the monitor holds is the object in the table (None) until that is
\* deleted, and then the object itself.
Object(n) == IF cmds[n] = None THEN events[n] ELSE cmds[n]

\* read_ini_file.  The colon and the equals sign stay with what they separate,
\* so that a property trigger of the file never fires, and SaceEventParams has
\* boot set unless a client clears it: whatever its triggers were, an event
\* comes back with boot as the one that works.
FromFile == [triggers |-> {"boot"}, fired |-> {}, restart |-> FALSE]
Listed == IF ini = NoFile THEN Packaged ELSE ini

-----------------------------------------------------------------------------
Init ==
    /\ up = FALSE
    /\ events = << >>
    /\ running_events = {} /\ starting_events = {} /\ failed_events = {}
    /\ writers = {} /\ posted = << >> /\ pipe = << >>
    /\ wpc = "wait" /\ req = NoRequest /\ made = NoService /\ todo = {}
    /\ mpc = "off" /\ cmds = << >> /\ restart = {} /\ held = None /\ dangling = FALSE
    /\ running = FALSE /\ upc = "run" /\ stopping = {}
    /\ ini = NoFile
    /\ inUse = {}
    /\ requests = 0
    /\ kept = {} /\ torn = {} /\ stale = FALSE /\ settled = {}

\* onInit: the events of the file, and the monitor thread
OnInit ==
    /\ ~up
    /\ up' = TRUE
    /\ events' = [n \in Listed |-> FromFile]
    /\ running' = TRUE
    /\ mpc' = "copy"
    /\ UNCHANGED <<running_events, starting_events, failed_events, writers, posted,
                   pipe, worker, cmds, restart, held, dangling, upc, stopping, ini, inUse,
                   requests, ghosts>>

\* The file stays, and the processes of the services get SIGHUP.
Ends ==
    /\ up' = FALSE
    /\ events' = << >>
    /\ running_events' = {} /\ starting_events' = {} /\ failed_events' = {}
    /\ writers' = {} /\ posted' = << >> /\ pipe' = << >>
    /\ wpc' = "wait" /\ req' = NoRequest /\ made' = NoService /\ todo' = {}
    /\ mpc' = "off" /\ cmds' = << >> /\ restart' = {} /\ held' = None
    /\ dangling' = FALSE
    /\ running' = FALSE /\ upc' = "run" /\ stopping' = {}
    /\ inUse' = {}
    /\ torn' = torn \cup todo /\ stale' = FALSE
    /\ settled' = {}
    /\ UNCHANGED <<ini, requests, kept>>

Crash == up /\ Ends

-----------------------------------------------------------------------------
(* Triggers *)

\* PropertyTrigger never forgets the value it has fired for, nor BootTrigger
\* that it has; the properties are asked first, and none after one that fires.
\* set: whether the property has the value now
Ready(s, set) == {t \in s.triggers \ s.fired : t = "boot" \/ set}
Triggered(s, set) == Ready(s, set) # {}
Asked(s, set) ==
    [s EXCEPT !.fired =
        @ \cup (IF "property" \in Ready(s, set) THEN {"property"} ELSE Ready(s, set))]

\* start_event
StartEvent(n) ==
    /\ starting_events' = starting_events \cup {n}
    /\ posted' = Append(posted, [type |-> "START", name |-> n])
    /\ settled' = settled \ {n}
StartIf(condition, n) ==
    IF condition THEN StartEvent(n) ELSE UNCHANGED <<starting_events, posted, settled>>

-----------------------------------------------------------------------------
(* The worker: excuteNormal *)

Accept ==
    /\ up /\ wpc = "wait"
    /\ requests < MaxRequests
    /\ requests' = requests + 1

\* ADD of a name that is there, or without triggers; DEL of one that is not:
\* answered EXISTS or FAIL, and nothing changes
Refuse == up /\ wpc = "wait" /\ UNCHANGED vars

\* The triggers are asked, and the service is started, before the event is in
\* the table.
Add(n, triggers, set) ==
    LET s == [triggers |-> triggers, fired |-> {}, restart |-> n \in Restarting]
    IN
    /\ Accept
    /\ n \notin DOMAIN events
    /\ triggers # {}
    /\ made' = Asked(s, set)
    /\ StartIf(Triggered(s, set), n)
    /\ req' = [type |-> "ADD", name |-> n]
    /\ wpc' = "insert"
    /\ UNCHANGED <<up, events, running_events, failed_events, writers, pipe, todo,
                   monitor, shutdown, ini, inUse, kept, torn, stale>>

AddInsert ==
    /\ wpc = "insert"
    /\ events' = With(events, req.name, made)
    /\ made' = NoService
    /\ wpc' = "write"
    /\ UNCHANGED <<up, running_events, starting_events, failed_events, writers, posted,
                   pipe, req, todo, monitor, shutdown, ini, inUse, requests, ghosts>>

CopiesWithoutNone(n) == cmds
CopiesWithout(n) == IF n \in DOMAIN cmds THEN [cmds EXCEPT ![n] = Object(n)] ELSE cmds

\* stop asks to stop the service as well, which needs its label.
Del(n, stop) ==
    /\ Accept
    /\ n \in DOMAIN events
    /\ events' = Without(events, n)
    /\ cmds' = CopiesWithout(n)
    /\ dangling' = (dangling \/ held = n)
    /\ IF stop /\ n \in running_events
       THEN /\ posted' = Append(posted, [type |-> "STOP", name |-> n])
            /\ writers' = writers \cup {n}
       ELSE UNCHANGED <<posted, writers>>
    /\ req' = [type |-> "DEL", name |-> n]
    /\ wpc' = "write"
    /\ kept' = kept \ {n}
    /\ UNCHANGED <<up, running_events, starting_events, failed_events, pipe, made, todo,
                   mpc, restart, held, shutdown, ini, inUse, torn, stale, settled>>

\* answered FAIL, or handed on to the service executor
Info(n) ==
    /\ up /\ wpc = "wait"
    /\ IF n \in running_events
       THEN /\ posted' = Append(posted, [type |-> "INFO", name |-> n])
            /\ writers' = writers \cup {n}
       ELSE UNCHANGED <<posted, writers>>
    /\ UNCHANGED <<up, events, running_events, starting_events, failed_events, pipe,
                   worker, monitor, shutdown, ini, inUse, requests, ghosts>>

\* write_ini_file: opening the file empties it.
Open ==
    /\ wpc = "write"
    /\ ini' = {}
    /\ todo' = DOMAIN events
    /\ wpc' = "writing"
    /\ stale' = FALSE
    /\ UNCHANGED <<up, tables, posted, pipe, req, made, monitor, shutdown, inUse,
                   requests, kept, torn, settled>>

\* It cannot be opened, and stays what it was, or missing.
OpenFails ==
    /\ wpc = "write"
    /\ todo' = DOMAIN events \ Listed
    /\ wpc' = "failed"
    /\ stale' = TRUE
    /\ UNCHANGED <<up, tables, posted, pipe, req, made, monitor, shutdown, ini, inUse,
                   requests, kept, torn, settled>>

WriteEvent(n) ==
    /\ wpc = "writing"
    /\ n \in todo
    /\ ini' = ini \cup {n}
    /\ todo' = todo \ {n}
    /\ UNCHANGED <<up, tables, posted, pipe, wpc, req, made, monitor, shutdown, inUse,
                   requests, ghosts>>

\* A stream that has failed takes nothing more, and seekp does not mend it.
WriteFails ==
    /\ wpc = "writing"
    /\ todo # {}
    /\ wpc' = "failed"
    /\ stale' = TRUE
    /\ UNCHANGED <<up, tables, posted, pipe, req, made, todo, monitor, shutdown, ini, inUse,
                   requests, kept, torn, settled>>

\* sendResult, with OK whatever write_ini_file has returned
AllWrittenSome == todo # DOMAIN events \/ todo = {}
AllWritten == todo = {}
SendResult ==
    /\ wpc = "failed" \/ (wpc = "writing" /\ AllWritten)
    /\ kept' = IF req.type = "ADD" THEN kept \cup {req.name} ELSE kept
    /\ torn' = (torn \ DOMAIN events) \cup IF wpc = "failed" THEN todo ELSE {}
    /\ wpc' = "wait" /\ req' = NoRequest /\ todo' = {}
    /\ UNCHANGED <<up, tables, posted, pipe, made, monitor, shutdown, ini, inUse,
                   requests, stale, settled>>

-----------------------------------------------------------------------------
(* The monitor thread: event_monitor_thread.  Each section under event_mutex *)
(* is one step; the lookups outside it are steps of their own.               *)

\* The loop's condition, and the copies it makes.
Copy ==
    /\ mpc = "copy" /\ running
    /\ cmds' = [n \in DOMAIN events |-> None]
    /\ restart' = failed_events \cap DOMAIN events
    /\ failed_events' = {}
    /\ mpc' = "trigger"
    /\ UNCHANGED <<up, events, running_events, starting_events, writers, posted, pipe,
                   worker, held, dangling, shutdown, ini, inUse, requests, ghosts>>

Exit ==
    /\ mpc = "copy" /\ ~running
    /\ mpc' = "off"
    /\ UNCHANGED <<up, tables, posted, pipe, worker, cmds, restart, held, dangling,
                   shutdown, ini, inUse, requests, ghosts>>

\* Events are started when a trigger fires, the failed ones among them in any
\* case; a deleted one is started as well.
Trigger(n, set) ==
    LET s == Object(n) IN
    /\ mpc = "trigger"
    /\ n \in DOMAIN cmds
    /\ cmds' = Without(cmds, n)
    /\ events' = IF cmds[n] = None THEN [events EXCEPT ![n] = Asked(s, set)] ELSE events
    /\ StartIf(Triggered(s, set) \/ n \in restart, n)
    /\ UNCHANGED <<up, running_events, failed_events, writers, pipe, worker, mpc,
                   restart, held, dangling, shutdown, ini, inUse, requests, kept, torn, stale>>

TriggersDone ==
    /\ mpc = "trigger"
    /\ cmds = << >>
    /\ mpc' = "select" /\ restart' = {}
    /\ UNCHANGED <<up, tables, posted, pipe, worker, cmds, held, dangling, shutdown, ini,
                   inUse, requests, ghosts>>

SelectTimedOut ==
    /\ mpc = "select"
    /\ pipe = << >>
    /\ mpc' = "copy"
    /\ UNCHANGED <<up, tables, posted, pipe, worker, cmds, restart, held, dangling,
                   shutdown, ini, inUse, requests, ghosts>>

\* handle_result(SaceStatusResponse): the end of an event's service, with its
\* status left open; writers are told.
HandleResponse(n) ==
    \E again \in {FALSE} \cup {(n \in running_events \cap DOMAIN events /\ events[n].restart)} :
        /\ mpc' = "copy"
        /\ failed_events' = IF again THEN failed_events \cup {n} ELSE failed_events
        /\ running_events' = IF again THEN running_events ELSE running_events \ {n}
        /\ writers' = IF again THEN writers ELSE writers \ {n}
        /\ UNCHANGED <<starting_events, held>>

\* handle_result(SaceResult): only a LABEL makes the event a running one; a
\* failed start is looked up in the table, to be tried again.
TriedAgainAlways(n) == n \in starting_events
TriedAgainOnce(n) == n \in starting_events /\ n \in DOMAIN events /\ n \notin inUse
TriedAgain(n) == n \in starting_events /\ n \in DOMAIN events

HandleResult(m) ==
    LET n == m.name
        recorded == n \in starting_events /\ m.ok /\ m.type = "LABEL"
        again == ~m.ok /\ TriedAgain(n)
    IN
    /\ running_events' = IF recorded THEN running_events \cup {n} ELSE running_events
    /\ starting_events' = IF recorded THEN starting_events \ {n} ELSE starting_events
    /\ held' = IF again THEN n ELSE None
    /\ mpc' = IF again THEN "found" ELSE "copy"
    /\ UNCHANGED <<failed_events, writers>>

Failures(messages) ==
    {messages[i].name : i \in {j \in DOMAIN messages :
                                  messages[j].type # "RESPONSE" /\ ~messages[j].ok}}

\* One read takes what is in the pipe, and one message of it is parsed.
Read ==
    LET m == Head(pipe) IN
    /\ mpc = "select"
    /\ pipe # << >>
    /\ pipe' = << >>
    /\ IF m.type = "RESPONSE" THEN HandleResponse(m.name) ELSE HandleResult(m)
    /\ settled' = settled \cup Failures(Tail(pipe))
                          \cup (Failures(<<m>>) \ DOMAIN events)
    /\ UNCHANGED <<up, events, posted, worker, cmds, restart, dangling, shutdown, ini,
                   inUse, requests, kept, torn, stale>>

\* start_event through the iterator; one that has been erased meanwhile ends
\* the daemon, or still has its Service.
Retry ==
    /\ mpc = "found"
    /\ StartEvent(held)
    /\ held' = None /\ dangling' = FALSE
    /\ mpc' = "copy"
    /\ UNCHANGED <<up, events, running_events, failed_events, writers, pipe, worker,
                   cmds, restart, shutdown, ini, inUse, requests, kept, torn, stale>>

RetryErased == mpc = "found" /\ dangling /\ Ends

-----------------------------------------------------------------------------
(* The main thread: onUninit *)

Uninit ==
    /\ up /\ upc = "run"
    /\ running' = FALSE
    /\ upc' = "join"
    /\ UNCHANGED <<up, tables, posted, pipe, worker, monitor, stopping, ini, inUse,
                   requests, ghosts>>

UninitJoin ==
    /\ upc = "join"
    /\ mpc = "off"
    /\ pipe' = << >>
    /\ upc' = "stop" /\ stopping' = running_events
    /\ UNCHANGED <<up, tables, posted, worker, monitor, running, ini, inUse, requests,
                   ghosts>>

UninitStop ==
    /\ upc = "stop"
    /\ IF stopping = {}
       THEN upc' = "done" /\ UNCHANGED <<stopping, posted>>
       ELSE \E n \in stopping :
               /\ posted' = Append(posted, [type |-> "STOP", name |-> n])
               /\ stopping' = stopping \ {n}
               /\ UNCHANGED upc
    /\ UNCHANGED <<up, tables, pipe, worker, monitor, running, ini, inUse, requests,
                   ghosts>>

-----------------------------------------------------------------------------
(* The service executor and the services *)

\* SaceEventWriter, whose pipe onUninit closes
Write(m) == pipe' = IF upc \in {"run", "join"} THEN Append(pipe, m) ELSE pipe

StartResultTypeLabel == "LABEL"
StartResultType == "NONE"

\* A START fails if a service of the name runs, an event's or a client's, and if
\* the process cannot be made.
Serve ==
    LET n == Head(posted).name IN
    /\ posted # << >>
    /\ posted' = Tail(posted)
    /\ IF Head(posted).type = "START" THEN
          \E ok \in IF n \in inUse THEN {FALSE} ELSE BOOLEAN :
             /\ Write([type |-> StartResultType, name |-> n, ok |-> ok])
             /\ inUse' = IF ok THEN inUse \cup {n} ELSE inUse
             /\ settled' = IF ok THEN settled \cup {n} ELSE settled
       ELSE /\ IF Head(posted).type = "INFO"
               THEN Write([type |-> "EXTRA", name |-> n, ok |-> n \in inUse])
               ELSE UNCHANGED pipe
            /\ UNCHANGED <<inUse, settled>>
    /\ UNCHANGED <<up, tables, worker, monitor, shutdown, ini, requests, kept,
                   torn, stale>>

\* The sweep tells the monitor of a service that has ended.
ServiceEnds(n) ==
    /\ n \in inUse
    /\ inUse' = inUse \ {n}
    /\ Write([type |-> "RESPONSE", name |-> n, ok |-> TRUE])
    /\ UNCHANGED <<up, tables, posted, worker, monitor, shutdown, ini,
                   requests, ghosts>>

-----------------------------------------------------------------------------
Command ==
    \/ Refuse
    \/ \E n \in Names :
          \/ \E triggers \in SUBSET Triggers, set \in BOOLEAN : Add(n, triggers, set)
          \/ \E stop \in BOOLEAN : Del(n, stop)
          \/ Info(n)
Work ==
    \/ AddInsert \/ Open \/ OpenFails \/ WriteFails \/ SendResult
    \/ \E n \in Names : WriteEvent(n)
Monitor ==
    \/ Copy \/ Exit \/ TriggersDone \/ SelectTimedOut \/ Read \/ Retry \/ RetryErased
    \/ \E n \in Names, set \in BOOLEAN : Trigger(n, set)

Next ==
    \/ OnInit \/ Crash
    \/ Command \/ Work \/ Monitor
    \/ Uninit \/ UninitJoin \/ UninitStop
    \/ Serve
    \/ \E n \in Names : ServiceEnds(n)

Spec == Init /\ [][Next]_vars

\* The monitor's loop goes on, with select waiting 300 ms at most, and the
\* service executor takes its messages.  Commands, the ends of services, the
\* property, crashes and the shutdown are left to chance.
Fairness == WF_vars(Monitor) /\ WF_vars(Serve)

FairSpec == Spec /\ Fairness

-----------------------------------------------------------------------------
(* Properties *)

IsMap(f, K, V) == DOMAIN f \subseteq K /\ f \in [DOMAIN f -> V]

\* The shape of the state.
TypeOK ==
    /\ up \in BOOLEAN
    /\ IsMap(events, Names, Service)
    /\ running_events \subseteq Names /\ starting_events \subseteq Names
    /\ failed_events \subseteq Names /\ writers \subseteq Names
    /\ posted \in Seq(Posted)
    /\ pipe \in Seq(Results \cup Responses)
    /\ wpc \in {"wait", "insert", "write", "writing", "failed"}
    /\ req \in IF wpc = "wait" THEN {NoRequest} ELSE Requests
    /\ made \in Service
    /\ todo \subseteq Names
    /\ mpc \in {"off", "copy", "trigger", "select", "found"}
    /\ IsMap(cmds, Names, Service \cup {None})
    /\ \A n \in DOMAIN cmds : cmds[n] = None => n \in DOMAIN events
    /\ up \/ (mpc = "off" /\ ~running /\ cmds = << >>)
    /\ restart \subseteq Names
    /\ held \in IF mpc = "found" THEN Names ELSE {None}
    /\ dangling \in BOOLEAN /\ running \in BOOLEAN
    /\ upc \in {"run", "join", "stop", "done"}
    /\ stopping \subseteq Names
    /\ ini \subseteq Names \/ (ini = NoFile /\ wpc # "writing")
    /\ inUse \subseteq Names
    /\ requests \in Nat
    /\ kept \subseteq Names /\ torn \subseteq Names /\ settled \subseteq Names
    /\ stale \in BOOLEAN

\* No service an event has started is ever recorded as running, whatever the
\* order of starts, answers and ends: the answer to a START has type NONE and
\* the monitor waits for a LABEL.  So DEL with stop stops nothing, INFO finds
\* nothing, SACE_EVENT_FLAG_RESTART restarts nothing and the shutdown leaves
\* the services to the service executor.
NeverRecorded ==
    /\ running_events = {} /\ failed_events = {} /\ restart = {} /\ writers = {}
    /\ stopping = {}
    /\ \A i \in DOMAIN posted : posted[i].type = "START"

\* An event whose ADD was answered OK is there until its DEL, however often the
\* daemon crashes and starts again, except those whose lines a writing of the file
\* has left out and none has put back: it failed, or the daemon crashed in the
\* middle of it.
KeptUnlessTorn == up => kept \subseteq DOMAIN events \cup torn

\* A start that fails is tried again, unless the failure was read together with
\* another message or came while the event was not in the table, before ADD
\* has put it there included.
Underway(n) ==
    \/ \E i \in DOMAIN posted : posted[i].name = n
    \/ \E i \in DOMAIN pipe : pipe[i].name = n /\ pipe[i].type # "RESPONSE"
    \/ held = n
RetriedOrDropped ==
    running => \A n \in starting_events : Underway(n) \/ n \in settled

\* The service of an event that is deleted for good is some day no longer
\* started, although starts, answers and copies of the event may be underway.
DeletedIsLeftAlone ==
    \A n \in Names :
        <>[](n \notin DOMAIN events)
            => <>[](\A i \in DOMAIN posted : posted[i].name # n)
=============================================================================
