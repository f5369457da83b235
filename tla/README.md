# A verification of saced, the Service-And-Command Excutor

`saced` is a privileged Android daemon that runs shell commands and services for
other processes; `libsace` is the client library. The TLA+ modules of this
directory are translated from the C++ of both. Paths below are relative to the
repository (`src/saced/...`, `src/libsace/...`).

## 1. The system

```
 application threads                     saced
 ------------------                      -----
 SaceManager, SaceObj                    SaceSocketReader thread    SaceBinderReader threads
   | excuteCommand()  (<= 3 s)             | post()                    | post(), waitResult()
 SaceSocketSender  === unix socket ===>  Looper of SaceCommandDispatcher  (dispatcher thread)
   receive thread  <=== results,           | excute(msg) on every executor
   |                    responses          +--> SaceServiceExcutor  queue + worker  fork/waitpid
   +-> SaceManager::onResponse             +--> SaceNormalExcutor   queue + worker  sace_popen
                                           +--> SaceEvent           queue + worker + monitor thread
                                                  | post() of START/STOP to SaceServiceExcutor
                                                  +<- results and responses through a pipe
 main thread: waits for a signal, then stops readers, executors, dispatcher
```

| component | state it keeps | operations | hard behaviour | what makes it correct |
|---|---|---|---|---|
| `SaceExcutor` (SaceExcutor.cpp 246-400) | `mCmdQueue`, semaphore, mutex, `mExit` | `excute` (dispatcher), `excute_command_thread` (worker), `uninit` (main) | three threads; push and post in two steps; `mExit` read unlocked; objects destroyed at shutdown | every accepted message handled once, in order; no lost wake-up; shutdown returns, and destroys only what nobody uses |
| `SaceServiceExcutor` (403-713) | vector of entries, map by label, map by name, the child processes | START, STOP, PAUSE, RESTART, INFO, the sweep | services end between any two steps; iterators saved and used after erase; a state that is behind the process; pointers into freed cells | the tables agree; signals reach the right process; each end told once and truthfully; an ended service is reaped; one process per name |
| `SaceNormalExcutor`, `sace_popen` (102-243, 715-886) | list of commands, map by label, labels by client, list of pipes | START, CLOSE, DESTROY (client gone) | several connections of one client; labels that stay behind; bounded waiting for a process to end | a client's commands end with it, and only its own |
| `SaceEvent` (SaceEvent.cpp) | events, starting, running and failed events, result pipe, the ini file | ADD, DELETE, INFO; triggers; results of START/STOP; crash and restart | two threads over the same maps; START retried for ever; a file emptied before it is written | an added event outlives restarts; a failed start is tried again; a deleted event is left alone |
| `SaceSocketReader/Writer` (SaceReader.cpp 70-330) | table of 32 connections | accept, read, close | a descriptor closed while an answer is on its way; table full; two messages in a read | an answer goes to the connection that asked |
| `SaceBinderReader/Writer` (332-446) | listeners and death recipients by client | sendCommand, register, unregister, death | binder threads race death; wait without timeout | a call returns; a listener outlives its use |
| `SaceCommandDispatcher`, monitor, main | the looper, the executors, exit flag | post, dispatch, start, stop | shutdown order; two signals counted in one event | shutdown ends; nothing is used after it is destroyed |
| `SaceSocketSender` (libsace/SaceSender.cpp) | connection, `mResult` by sequence number | `excuteCommand`, receive thread, init, uninit | several threads share a condition variable; late, lost and coalesced messages; numbers used again | a call returns, with the result of its own command |
| `SaceManager`, `SaceObj` | objects by label, error state of an object | run, check, query, close, stop, ...; `onResponse` | callbacks under a mutex; an end that overtakes its registration | an object learns of its end exactly once |
| messages, parcels, parameters, ini file, Java | none, or text | encoding | - | what is written is read back |

The hazards, each at its line, are in `PROJECT.json`.

## 2. The modules

| module | models | how |
|---|---|---|
| `ServiceExcutor` | SaceExcutor.cpp 462-711 | one action per outcome of a message (`StartForked`, `StartSmashes`, `Stop`, `Pause`, `Restart`, `Info`, and the refusals), `Timeout`, and the sweep `monitor_service_status` entry by entry (`Scan*`, then `Gc*`) |
| `MCServiceExcutor` | - | the symmetry, for the runs about names, stopping and liveness |
| `ServiceExcutorProofs` | - | theorems about `ServiceExcutor` |
| `ServiceHistory` | - | `ServiceExcutor` with two history variables that only observe: whether a sweep has ever collected more than one service (`crowded`) and whether a RESTART has ever been carried out (`restarted`) |
| `MCServiceHistory` | - | the symmetry, for `service_tables` |
| `ServiceHistoryProofs` | - | theorems about `ServiceHistory` |
| `ExcutorQueue` | SaceExcutor.cpp 244-339, 341-383 | dispatcher, worker and main thread, one action per atomic step (lock, push, post, pop, ...) |
| `FifoHandler` | - | the abstract promise of an executor: what it accepts it handles at most once, in order, and nothing after it has closed |
| `ExcutorQueueProofs` | - | theorems about `ExcutorQueue`, with the refinement of `FifoHandler` |
| `NormalExcutor` | SaceExcutor.cpp 99-239, 754-886 | START; CLOSE and DESTROY as loops over `sace_pclose`, which is itself a loop of `Sleep` steps |
| `NormalExcutorProofs` | - | theorems about `NormalExcutor` |
| `SocketSender` | SaceSender.cpp 125-313 | application threads, receive thread, and the daemon as an environment that answers late, in part or not at all |
| `ObjectReplies` | - | the abstract promise of a sender: a call is answered once, by a result with its own sequence number, and the results of one executor under one number are handed out in the order of their commands |
| `SocketSenderProofs` | - | theorems about `SocketSender`, with the refinement of `ObjectReplies` |
| `Event` | SaceEvent.cpp (all but the formatting of the file), the triggers of SaceParams.cpp | the worker (`Add`, `AddInsert`, `Del`, `Open`, `OpenFails`, `WriteEvent`, `WriteFails`, `SendResult`), the monitor thread (`Copy`, `Trigger`, `Read`, `Retry`, ...), the main thread's `onUninit`, `Crash` and `OnInit`, and an environment that answers START as `ServiceExcutor` does |
| `EventProofs` | - | theorems about `Event` |
| `SocketReader` | SaceReader.cpp 70-330, SaceWriter.cpp 24-62, and what startNormalCmd and destroyNormalCmd do with descriptors | the reader's loop (`SelectFails`, `SelectData`, `Sweep`, `Accept`, `Read`), the executor's answers and pipes, and one table of what each descriptor number names; an answer that raises SIGPIPE ends the daemon |
| `MCSocketReader` | - | which client makes which connection |
| `SocketReaderProofs` | - | theorems about `SocketReader` |
| `Manager` | SaceManager.cpp 60-330, SaceObj.cpp (services and commands) | calls of application threads in their steps (ask, make, register; write, send, set the error, unregister), the receive thread's `onResponse` with the callback under `mMutex`, and the daemon as its other modules show it to a client |
| `ManagerProofs` | - | theorems about `Manager` |

Variables have the names of the members they stand for. Three abstractions recur.

* A heap cell is its address. `ServiceInfo` cells are deleted, so `heap` is a
  map from live addresses and a table may hold an address that is not live; an
  access through such an address has the outcomes the build can produce: the
  stale contents (a final state, which the sweep passes over) or the end of the
  daemon (`alive = FALSE`). `CommandInfo` cells are dropped without being
  deleted, so their addresses never come back.
* A label, `SEQUENCE_TO_LABEL(sequence, address)`, is the pair (services) or
  just the cell (commands, whose cells are unique for ever). It has 32 bits of
  the address; two live cells 4 GB apart are not considered. `Manager`, which
  sees no cells, names a label by the call that has started what it stands for,
  and `SocketSender` a number by the first command that carried it.
* A process is a record of what the kernel and the executor know of it. Pids
  are not used twice: that a signal could reach a stranger is what
  `StateMatchesProcess` excludes without them, since no signal is ever sent to
  a process that has been reaped.

Who stands in for whom. `Event` has of the service executor that it takes one
message after the other, refuses a name in use and tells ends; that is what
`ServiceExcutor` does between two sweeps; that a client's service may have the
name already is one of the reasons for which a START fails there. `SocketReader` is composed with the
part of the command executor that shares its descriptors; how a command is
closed is in `NormalExcutor`. `Manager` has of the sender what `SocketSender`
promises while the connection lasts: a result that is late is filed and may be
taken for the next one of the same number. That goes for a START as well: one
that timed out may have made its service, a later INFO hands out a label whose
lower half is the number of that START, and the first method of the new object
finds the late result (`FiledLate`). As in `Event`, no event service is ever
found by EVENT_INFO, nor restarted. `ExcutorQueue` is the delivery all
executor modules rely on: messages arrive one at a time and in order.

What each module does not say of its component:

* `ServiceExcutor`: `onUninit` and the destructor (they run on the main thread
  beside the worker); what the child does between fork and exec; the text of
  INFO. A command longer than the 128 bytes START copies it into (505) writes
  over the worker's stack: the daemon dies there, dies when `excuteNormal`
  returns, or is lucky; what else a client's bytes on the stack could do is
  left out. `MaxRunning` bounds the vector, which `Restart` would otherwise
  grow for ever (it pushes a second entry for a service that is in the vector).
* `ExcutorQueue`: `init` is the initial state, `onUninit` and the handlers are
  those of the executors. Destroying a mutex that is held fails and is ignored;
  locking a destroyed one either ends the process or is not noticed. A
  destroyed semaphore still counts.
* `NormalExcutor`: `onUninit` and the destructor; `waitpid` does not fail for a
  child; messages arrive one at a time, as `ExcutorQueue` delivers them. The
  vectors of labels are sets, since labels are unique and nothing depends on
  their order. Times are counted in sleeps of 100 ms and capped by `MaxWait`,
  above which nothing compares them.
* `SocketSender`: `init`, `uninit` and a failing write; a write that blocks
  because the daemon reads nothing (249), so that `CallReturns` is about calls
  whose command could be written; a `recvmsg` of 1024 bytes that ends inside a
  message, whose rest is then taken for a header (169-197). The sequence number
  is a 16 bit counter below the thread's id that every header steps, three of
  them for a method of a service, so that it comes round after 2^16 steps;
  labels of services other clients started have numbers of their own choice,
  which may coincide with one of this client's. `NextSequence` therefore lets
  any number come again, for a command of any executor.
* `Event`: a section under `event_mutex` is one step, and so is an access to a
  map outside it, although the code does not make it one; what is modelled of
  that race is the iterator of `handle_result` (341-347) that the worker may
  erase (`RetryErased` ends the daemon, `Retry` uses what is still there). The
  order of the maps, labels, the status of a response and the value a property
  has when it is asked for are left open. The file may fail to open, which
  leaves what it had, or to be written from some event on, which leaves those
  before it; the command is answered OK all the same (503). A line of which
  only a part could be written is not modelled. Of the file the module has
  which events it lists and what their triggers are when they come back: the
  colon stays with the name and the equals sign with the value, so that a
  property trigger of the file never fires, and `boot` is set whatever was
  written. Lines longer than the buffer of 128 bytes (819) are a reason for
  `Crash`, which may come at any event; users, groups, capabilities and limits
  are not modelled. The services of a daemon that ends get SIGHUP.
  `MaxRequests` bounds the commands of clients.
* `SocketReader`: the messages are START and DESTROY, and the executor handles
  one in one step. `Accept` is one step with the `select` that returned for it.
  Answering a connection that its client has ended, or that `stopRead` has shut
  down, raises SIGPIPE (SaceWriter.cpp 59 sends without MSG_NOSIGNAL, and
  sace_main.cpp 47-52 does not ignore it), which ends the daemon; what becomes
  of its clients and commands then is not followed. The other modules are about
  a daemon that lives, or crashes for whatever reason (`Event`). A pipe needs
  two free numbers and keeps one, the first or, for commands with
  `SACE_CMD_FLAG_OUT` (`Inputs`), the second; the other is closed in the step
  that opens it. Making the pipe or the process may fail at any time. The
  number of the listening socket is not used for anything else while it is
  closed. The index tested against `MAX_CLIENT_NUM` (198) is an uninitialised
  variable that hides the loop's: whether the new connection is rejected is
  left open, with a slot taken or none.
* `Manager`: the connection lasts; a command and its result are one step of the
  daemon, since responses come behind results and nothing else orders them;
  every object has a callback and is held for ever, so that no destructor runs;
  a signal counts as an exit. Reading and writing a command's descriptor, the
  two threads that may both close it, and the sequence number that two threads
  may count up at once (SaceTypes.h:66) are not modelled, nor is a counter that
  comes round: the calls of an instance have numbers of their own, which is
  what `SocketSender` does without. Events go through the same calls as `Event`
  has them.

## 3. The runs

| run | question | instance | result |
|---|---|---|---|
| `service_tables` | do the three tables stay consistent, do signals and reports concern the right process, is a STOP ever taken back, which services keep their entries until they are reaped, what ends the daemon | 3 names, 3 cells, 3 processes, vector of 3; symmetry | holds |
| `service_liveness` | is an ended service reaped, does a STOP of a running service end it | 2 names, 1 of a service that ignores SIGTERM, 2 cells, 2 processes, no symmetry | holds |
| `service_names` | does one name mean one process | as `service_tables`, 4 processes | refuted |
| `service_stop` | does every accepted STOP end the service | 1 service | refuted |
| `executor_queue` | no lost wake-up, safe and terminating shutdown, FIFO | 4 messages, 3 for this executor, timed wait | holds |
| `normal_executor` | nothing left behind, a client's end reaches all and only its commands, whom does SIGKILL reach, closing ends | 2 clients, 3 commands, 2 descriptors, kill time 1, total time 2 | holds |
| `close_wait` | does closing wait for the total time at most | the times of the source (10 and 20 sleeps) | refuted |
| `socket_sender` | which result does a call return, in what order, and does it return | 2 threads, 2 executors, 3 commands with any numbers, responses that come when the stream is empty | holds |
| `sender_stale_result` | is the result of a call its own | 1 thread, 3 commands | refuted |
| `event_services` | does an event survive crashes, is a failed start tried again, is a deleted event left alone, is a start ever recorded | 2 events, 1 of them packaged, 1 to be restarted; 2 commands; any number of crashes and of failures to open or write the file | holds |
| `socket_reader` | does an answer, a close or the end of a connection concern the right one | 3 connections (2 of a trusted client, 1 of another), 2 slots, 3 descriptors, 2 commands, one of which reads from its pipe | holds |
| `client_objects` | which ends is the application told of, what does a successful stop mean, what ends or blocks the application | 1 thread and the receive thread's callback, 3 calls, 1 name, 1 label of another client | holds |

Why the bounds are enough for what is asked. The interesting case of the
service tables is a sweep that collects two entries and hits a third: three
services. Cells, names and descriptors are used again within the bounds (a
cell is freed and returned by the next `new`, three commands share two
descriptors), as is the case that an entry is in the vector twice. Three
messages make the queue hold more than one while another is in hand; the
fourth belongs to another executor. Three commands on a sender are an object's
creation, a call that times out and the call that follows, or two calls of one
number around one of another executor. A response that the results behind it
join in one read is enough to lose them, and so is a result behind another. Two commands on the
event executor are an ADD and the DEL of the same event, or of another one
while the first is started; crashes and ends of services are not bounded. Of
three connections over two slots one waits, one is rejected or one gets a
number another had, and with three descriptors a command's pipe competes with
them. Three calls make an object, its twin (or a second object) and a method,
or an object and two methods that run at once, one of them in the callback; a
run with four calls and no other client gave the same answers. Most safety
properties are proved without any bound (section 4). Deadlock is not checked:
a daemon whose processes and clients are all at rest, or that has died or been
shut down, has no step left, which is no fault; neither has a library whose
calls are all made.

Every property of a passing run has a mutant in `PROJECT.json`: a definition
next to the one it replaces, with a slip that breaks the property.

### Fairness

* `ServiceExcutor`: the worker (its wait times out every second), and the end
  of a process that is not stopped, has been sent SIGTERM and does not ignore
  it. What a service does with the signal is its own affair: the names in `Deaf`
  are those of services that ignore it, of which nothing is asked and for which
  `StopOfRunningEnds` promises nothing, since nothing in the code escalates
  (555-558).
* `ExcutorQueue`: threads that can go on do; a thread that waits for the mutex,
  held only for a few instructions, gets it. Nothing forces a signal to
  interrupt a wait, a message to come or a shutdown to begin.
* `NormalExcutor`: the worker goes on with a message it has begun; a process
  that was sent SIGKILL ends. Nothing forces clients to send or commands to end.
* `SocketSender`: a thread that can go on does; a call whose wait ends again
  and again meets its deadline, since that is computed once, before the loop.
  Nothing is asked of the daemon, the receive thread or the socket.
* `Event`: the monitor's loop goes on (its `select` waits 300 ms at most) and
  the service executor takes its messages. Commands, ends of services, the
  property, crashes and the shutdown are left to chance.
* `SocketReader`: the reader's thread and the executor's worker go on while the
  daemon lives. Nothing is asked of the clients, nor that `stopRead` is called.
* `Manager`: the receive thread reads, the application's callback returns once
  the calls it makes have, and a call goes on. The latter is strong fairness:
  `mMutex` is held by the receive thread again and again, and a thread that
  waits for it gets it some time. Nothing is asked of the daemon: a call that
  gets no answer times out.

### What the runs found

1. `OneProcessPerName` (SaceExcutor.cpp 702-708). The sweep erases from the
   vector through iterators saved during the scan. After the first erase the
   later iterators point one entry further, so that collecting two services
   deletes the entry of a third that runs on. Its name is then free and START
   runs a second process. `TablesAgree` and `EndToldTruthfully` hold all the
   same: the wrong entry leaves all three tables at once. This is the only way:
   `KeptUntilReaped` and `OneProcessUnlessCrowded` hold until a sweep has
   collected two services, whatever RESTART has left twice in the vector.
   `DiesOnlyWild` says where wild accesses come from: a sweep of two, a RESTART,
   or a START whose command is longer than the buffer it is copied into (505).
2. `StopEnds` (555). A STOP of a paused service leaves SIGTERM pending, and the
   state `FINISHING_USER`, from which neither RESTART nor another STOP leads.
   What that state is for holds: no command takes a STOP back (`StopIsFinal`).
3. `WaitBounded` (223-231). `sace_pclose` tests the kill time before the total
   time, which is longer; the branch that gives up is never
   reached. SIGKILL, which does come after the kill time, reaches the right process
   (`KillsWhatItCloses`, a part of `EndsItsOwn`).
4. `ResultIsOwn` (SaceSender.cpp 310). A result that arrives after its call has
   timed out stays filed under a number the object's next command uses again:
   that command gets the earlier answer. `OwnUntilTimeout` says that, where one
   thread uses a number, nothing but a timed-out call with it does this (the
   START of the service included), and `RepliesInOrder` that, even so, calls
   with one number never get an older result of an executor than a call before
   them.

Properties that hold, but with exceptions a reader should know of:

5. `NeverRecorded` (SaceEvent.cpp 352). The monitor records a running event
   from an answer of type LABEL, and the service executor answers START with
   the type NONE: DEL never stops the service, INFO never finds one and
   `SACE_EVENT_FLAG_RESTART` restarts nothing.
6. `KeptUnlessTorn` (503, 791, 851). Opening the file empties it; a crash before
   the last event is written loses those that were not, and so does a write that
   fails; a file that cannot be opened keeps what it had. The command is answered
   OK in any case. Once a command is answered and the file could be written, it
   lists the table again, whatever went wrong before (`AnsweredIsFiled`, proved
   only).
7. `RetriedOrDropped` (297-347, 464). A failed start is tried again unless its
   answer was read behind another message or came before ADD had put the event
   into the table.
8. `DescriptorsOwn`, `EndReachesCommands` (SaceReader.cpp 176-202). The
   uninitialised index puts the number of a closed connection into the table,
   or leaks a connection; and while a connection waits and no descriptor is
   free nothing is read, not even the end that would free one. A client that
   ends before its command is answered may end the daemon (SaceWriter.cpp 59),
   and with it, by SIGHUP, every service and command.
9. `NotTold` (SaceManager.cpp 204-234, 287-297). An object registered after
   the response has come, or a second object of the same label, which
   `map::insert` drops, is never told.
10. `DiesOnlyOf` (SaceManager.cpp 213, SaceObj.cpp). `checkService` without a
    command makes a string of a null pointer when there is no service, and a
    method of an object whose creation timed out uses a sender it has not got.
11. `StopStops` (SaceObj.cpp 142-149, SaceSender.cpp 310). `mCmd` and `mRlt` are
    members of the object: a stop may send another thread's pause and succeed.
    And a stop may take for its own the late result of an earlier call for the
    service that timed out, its START included, while its own command is lost
    behind another in one read.
12. `CallsReturn` (SaceManager.cpp 304). A callback that stops or closes an
    object waits for the mutex its own thread holds.

## 4. The proofs

All theorems hold for every value of the constants that satisfies the named
assumptions (`MaxRunningAssumption`, `MineAssumption`, `NoneAssumption`, ...),
and are checked by TLAPS. `PROJECT.json` lists them.

* `ServiceExcutorProofs`: `TypeCorrect`, `TablesAlwaysAgree`, `SignalsItsOwn`,
  `EndsToldTruthfully`, `StopsForGood`. `TablesAgree` is inductive together with the fact
  that a cell's label holds its own address (`LabelHoldsAddress`): erasing by
  the name and the label of a live cell takes out what belongs to it, and a new
  cell's label is nobody else's. `StateMatchesProcess` and
  `EndToldTruthfully` need to know that a process has at most one cell and that
  the cell's state says whether the executor asked it to stop; those
  are the conjuncts of `Ownership`. `StopIsFinal` is an action property: every
  command asks for the state of the entry first, START takes an address that is
  not live, and what the sweep sets it has just reaped (`FinishingStays`).
* `ServiceHistoryProofs`: `Observes` (every behaviour with the history is one of
  `ServiceExcutor`, so that all that is proved there may be used),
  `HistoryTyped`, `EntriesKept`, `OneProcess`, `DeathExplained`. While no sweep
  has saved two iterators, the one it has saved points at an entry marked as
  ended, so that erasing through it takes out the right one (`Marks`); while
  nothing was restarted, the vector holds live cells, each once (`NoTwice`).
* `ExcutorQueueProofs`: `TypeCorrect`, `NoWakeupLost`, `WorkerOutlived`,
  `Refinement`. The token count is inductive once it is known that a token the
  worker has taken is held no longer than to the pop (`TokenHeld`); that the
  worker has ended before its mutex is destroyed follows from the main thread's
  order of steps (`ShutdownOrder`). Every step then maps to `Accept`, `Handle`
  or `Close` of `FifoHandler`, or stutters.
* `NormalExcutorProofs`: `TypeCorrect`, `NothingIsLeftBehind`, `AlwaysListed`,
  `EndsRight`, `NoneLeftAfterDestroy`. The list of a client may hold labels
  of commands closed through others, so that `ListedUnderStarter` alone does
  not say what DESTROY does; the invariant adds that a list holds only labels
  of its client's commands and that during DESTROY every known command of the
  client is in `todo` or being closed. `NothingLeftBehind` uses that the kill
  time is the shorter one: with the times swapped `sace_pclose` could give up
  and leave a process behind.
* `SocketSenderProofs`: `TypeCorrect`, `ReturnedOnce`, `OwnBeforeTimeout`,
  `Refinement`. A result is filed under the number of its
  command (`FiledUnderItsOwn`); `ResultOnce` is inductive with it. A thread has
  one call at a time, its latest (`CallingOne`): until one has timed out, that
  is the only command with its number whose result can be missing. For the
  refinement, of two commands of one executor with one number, the one whose
  result is ahead on the way from the daemon through the stream and the map to
  its call is the older (`InOrder`), so that a call takes a result above all of
  that executor which were handed out under its number.
* `EventProofs`: `TypeCorrect`, `NothingIsRecorded`, `KeptThroughCrashes`,
  `FileFollows`, `FailuresFollowed`. That nothing is recorded is inductive once no message of
  the pipe is a LABEL. That an event is kept needs how far the file is behind
  the table: between commands it lists the table unless the last writing failed
  (`stale`), while it is written it lists what is not in `todo`, and what it
  lacks otherwise is of the command in hand or was left out by a writing that
  failed or was cut short (`FileLags`, `KeptListed`).
* `SocketReaderProofs`: `TypeCorrect`, `AnswersKept`, `DescriptorsKept`,
  `OrphansFollowed`. The three properties hold of each other's tables and are
  proved together: the invariant has who accepted what (`Accepted`), that a
  writer's number names its connection until that is gone (`Writers`), and
  that the slots hold each connection once (`Table`).
* `ManagerProofs`: `TypeCorrect`, `DeathCorrect`, `EndedCorrect`,
  `StopCorrect`, `ToldCorrect`. `Typed` adds to the shape that a call's number
  is nobody else's (`Fresh`); `Placement`, that a method which unregisters is of
  an object the application has released, that an object with a sender is of
  something the client watches, and that one without has the error its call
  failed with. From there `Stopping` follows a stop from the command it has
  written to the result it reads (`Alone`, `StopSent`), and `Telling` follows
  an object into the maps (`Kept`) and what has ended to the object (`Heard`).

Only model-checked: liveness (`EndedIsReaped`, `StopOfRunningEnds`,
`QueuedIsHandled`, `UninitReturns`, `HandledInTheEnd`, `CallReturns`,
`DeletedIsLeftAlone`, `EndReachesCommands`, `CallsReturn`), which needs fairness
and ENABLED. Every other property of a passing run, whether an invariant, an
action property or a refinement, is what a theorem states.

Only proved, since what a run checks implies them or says them in other words:
`OneProcessUnlessCrowded` (from `KeptUntilReaped` and `TablesAgree`),
`ResultOnce`, as far as calls see it (from `RepliesInOrder`), `ListedUnderStarter` (what DESTROY needs for
`DestroyLeavesNone`) and `AnsweredIsFiled`.

## 5. Not modelled

* The shutdown of the daemon as a whole (SaceCommandDispatcher.cpp,
  sace_main.cpp): the executors are stopped in reverse order while dispatcher
  and readers run, `onUninit` of the service and command executors and their
  destructors run on the main thread beside the workers, and two signals may
  add up in one counter. `ExcutorQueue` has the part of it that one executor
  sees, `Event` its own `onUninit`, `SocketReader` its `stopRead`.
* The life of a sender's connection (SaceSender.cpp 70-124, 235-260): two threads
  that both find `initlized` false, a receive thread that outlives its socket,
  a write that fails or blocks, a read that ends inside a message.
* The binder transport (reader, writer, sender): its threads, death
  notifications and the wait without a time-out belong to a library that is
  not in the repository.
* The time-outs of clients behind a long close: `NormalExcutor` says how long a
  close may take, `SocketSender` that a call gives up; no module joins them.
* The encoding of messages, parcels and parameters field by field, the text of
  users, groups, capabilities and limits in the file, and what a child does
  with them: sequential code that moves fields, about which no property here
  speaks.
* The Java wrappers, the JNI glue, the AIDL interfaces and the manual test
  program, which keep no state of their own.
