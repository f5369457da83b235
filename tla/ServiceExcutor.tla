--------------------------- MODULE ServiceExcutor ---------------------------
(***************************************************************************)
(* The service executor of saced (src/saced/SaceExcutor.cpp, class         *)
(* SaceServiceExcutor): the worker thread that starts, stops, pauses,      *)
(* restarts and reports named services, and that sweeps its table for      *)
(* services that have ended after every message and after every second     *)
(* without one.                                                            *)
(*                                                                         *)
(* The environment is the kernel and the services themselves: a service    *)
(* may end at any moment, between any two steps of a sweep.  A ServiceInfo *)
(* is a heap cell: mRunningService, mSeqService and mNameService hold its  *)
(* address, so that an entry can outlive the cell it points to.            *)
(***************************************************************************)
EXTENDS Naturals, Sequences, SequencesExt

CONSTANTS
    Names,      \* service names
    Addrs,      \* addresses `new ServiceInfo()` may return
    Pids,       \* process ids fork() may return; none is used twice
    Clients,    \* ids of SaceWriters (SaceWriter::mId)
    Sequences,  \* sequence numbers clients put in a START command
    Flags,      \* SaceServiceFlags
    Deaf,       \* names of services that ignore SIGTERM
    MaxRunning  \* bound of the model on the length of mRunningService

ASSUME MaxRunningAssumption == MaxRunning \in Nat

VARIABLES
    heap,             \* live ServiceInfo cells: address -> contents
    mRunningService,  \* vector<ServiceInfo*>
    mSeqService,      \* map<uint64_t label, ServiceInfo*>
    mNameService,     \* map<string name, ServiceInfo*>
    proc,             \* the service processes forked so far
    pc,               \* where the worker is: waiting, scanning or collecting
    it,               \* position of the scan of mRunningService
    gcIterator,       \* positions the scan found to have ended
    result,           \* the SaceResult just sent, NoResult once the sweep moves
    smashed,          \* the command of this START did not fit into cmd
    alive             \* FALSE once the daemon has died of a wild access

tables == <<mRunningService, mSeqService, mNameService>>
sweep  == <<pc, it, gcIterator>>
vars   == <<heap, tables, proc, sweep, result, smashed, alive>>

-----------------------------------------------------------------------------
(* Data *)

Labels == Sequences \X Addrs          \* SEQUENCE_TO_LABEL(sequence, address)

FinalStates == {"DIED", "DIED_SIGNAL", "FINISHED", "FINISHED_USER"}
States == {"RUNNING", "PAUSED", "FINISHING_USER"} \cup FinalStates

\* The states whose process the sweep still asks waitpid about.
WatchedUnlessFinishing == {"RUNNING", "PAUSED"}
Watched == {"RUNNING", "PAUSED", "FINISHING_USER"}

ServiceInfo == [name : Names, pid : Pids, state : States, label : Labels,
                flags : Flags, writer : SUBSET Clients]

Causes == {"none", "ok", "error", "TERM", "KILL"}
Statuses == {"EXIT", "USER", "SIGNAL"}
Response == [status : Statuses, to : SUBSET Clients]

\* A process: its state in the kernel, the service it was forked for, whether
\* the executor has sent it SIGTERM, what it ended of, and the responses the
\* executor has sent about its end.
Process == [life : {"run", "stopped", "zombie", "reaped"}, name : Names,
            sigterm : BOOLEAN, cause : Causes, told : Seq(Response)]

NoResult == [to |-> {}, status |-> "NONE"]
Result == [to : {{c} : c \in Clients}, status : {"OK", "FAIL", "EXISTS"}]

\* std::map::insert keeps the value of a key that is already there.
Insert(f, k, v) ==
    [x \in DOMAIN f \cup {k} |-> IF x \in DOMAIN f THEN f[x] ELSE v]
Erase(f, k) == [x \in DOMAIN f \ {k} |-> f[x]]

Known(l) == l \in DOMAIN mSeqService
Service(l) == heap[mSeqService[l]]

-----------------------------------------------------------------------------
Init ==
    /\ heap = << >>
    /\ mRunningService = << >>
    /\ mSeqService = << >>
    /\ mNameService = << >>
    /\ proc = << >>
    /\ pc = "wait" /\ it = 1 /\ gcIterator = << >>
    /\ result = NoResult
    /\ smashed = FALSE
    /\ alive = TRUE

-----------------------------------------------------------------------------
(* excuteNormal: one message, then monitor_service_status() *)

Waiting == alive /\ pc = "wait"

StartSweep == pc' = "scan" /\ it' = 1 /\ gcIterator' = << >>

\* end: writer->sendResult(result); monitor_service_status();
AnswerUnset(c, status) ==
    /\ result' = [to |-> {c}, status |-> "NONE"]
    /\ StartSweep
    /\ UNCHANGED alive
Answer(c, status) ==
    /\ result' = [to |-> {c}, status |-> status]
    /\ StartSweep
    /\ UNCHANGED alive

\* mNameService.find(name) != end(): "exists"
ExistsUnlessPaused(n) ==
    n \in DOMAIN mNameService /\ heap[mNameService[n]].state # "PAUSED"
Exists(n) == n \in DOMAIN mNameService

StartExists(c, n) ==
    /\ Waiting
    /\ Exists(n)
    /\ Answer(c, "EXISTS")
    /\ UNCHANGED <<heap, tables, proc, smashed>>

\* memcpy(cmd, command.c_str(), command.size()): a command longer than
\* CMD_BUFFER_LEN writes over the worker's stack, and the daemon dies of it here,
\* when excuteNormal returns (ReturnSmashed), or not at all.
Copied(overlong) == smashed' = overlong

StartSmashes(c, n) ==
    /\ Waiting
    /\ ~Exists(n)
    /\ Copied(TRUE)
    /\ alive' = FALSE
    /\ UNCHANGED <<heap, tables, proc, sweep, result>>

StartForkFails(c, n) ==
    /\ Waiting
    /\ ~Exists(n)
    /\ \E overlong \in BOOLEAN : Copied(overlong)
    /\ Answer(c, "FAIL")
    /\ UNCHANGED <<heap, tables, proc>>

StartForked(c, n, s, f, a, p) ==
    /\ Waiting
    /\ ~Exists(n)
    /\ a \notin DOMAIN heap
    /\ p \notin DOMAIN proc
    /\ Len(mRunningService) < MaxRunning
    /\ \E overlong \in BOOLEAN : Copied(overlong)
    /\ heap' = Insert(heap, a, [name |-> n, pid |-> p, state |-> "RUNNING",
                                label |-> <<s, a>>, flags |-> f, writer |-> {c}])
    /\ proc' = Insert(proc, p, [life |-> "run", name |-> n, sigterm |-> FALSE,
                                cause |-> "none", told |-> << >>])
    /\ mRunningService' = Append(mRunningService, a)
    /\ mSeqService' = Insert(mSeqService, <<s, a>>, a)
    /\ mNameService' = Insert(mNameService, n, a)
    /\ Answer(c, "OK")

\* A command that names a label nobody holds, or a service in a state the
\* command does not apply to, changes nothing.
Refuse(c, status) == Answer(c, status) /\ UNCHANGED <<heap, tables, proc, smashed>>

Stoppable(state) == state \in {"RUNNING", "PAUSED"}

StopRefused(c, l) ==
    /\ Waiting
    /\ IF Known(l) THEN /\ ~Stoppable(Service(l).state)
                        /\ Refuse(c, "OK")
                   ELSE Refuse(c, "FAIL")

\* kill(pid, SIGTERM): a stopped process keeps the signal pending.
Stop(c, l) ==
    /\ Waiting
    /\ Known(l) /\ Stoppable(Service(l).state)
    /\ proc' = [proc EXCEPT ![Service(l).pid].sigterm = TRUE]
    /\ heap' = [heap EXCEPT ![mSeqService[l]].state = "FINISHING_USER"]
    /\ Answer(c, "OK")
    /\ UNCHANGED <<tables, smashed>>

PausableWhileFinishing(state) == state \in {"RUNNING", "FINISHING_USER"}
Pausable(state) == state = "RUNNING"

PauseRefused(c, l) ==
    /\ Waiting
    /\ Known(l) => ~Pausable(Service(l).state)
    /\ Refuse(c, "FAIL")

\* SIGSTOP and SIGCONT do nothing to a process that has ended.
SignalledNever(p, from, to) == UNCHANGED proc
Signalled(p, from, to) ==
    proc' = [proc EXCEPT ![p].life = IF @ = from THEN to ELSE @]

Pause(c, l) ==
    /\ Waiting
    /\ Known(l) /\ Pausable(Service(l).state)
    /\ Signalled(Service(l).pid, "run", "stopped")
    /\ heap' = [heap EXCEPT ![mSeqService[l]].state = "PAUSED"]
    /\ Answer(c, "OK")
    /\ UNCHANGED <<tables, smashed>>

RestartRefused(c, l) ==
    /\ Waiting
    /\ Known(l) => Service(l).state # "PAUSED"
    /\ Refuse(c, "FAIL")

\* PAUSE left the entry in mRunningService; RESTART pushes it once more.
Restart(c, l) ==
    /\ Waiting
    /\ Len(mRunningService) < MaxRunning
    /\ Known(l) /\ Service(l).state = "PAUSED"
    /\ Signalled(Service(l).pid, "stopped", "run")
    /\ heap' = [heap EXCEPT ![mSeqService[l]].state = "RUNNING"]
    /\ mRunningService' = Append(mRunningService, mSeqService[l])
    /\ Answer(c, "OK")
    /\ UNCHANGED <<mSeqService, mNameService, smashed>>

\* handleServiceInfo: only SERVICE_GET_BY_NAME is handled, and subscribes the
\* client.
InfoByLabel(c) ==
    /\ Waiting
    /\ Refuse(c, "FAIL")

InfoRefused(c, n, f) ==
    /\ Waiting
    /\ n \in DOMAIN mNameService => heap[mNameService[n]].flags # f
    /\ Refuse(c, "FAIL")

Info(c, n, f) ==
    /\ Waiting
    /\ n \in DOMAIN mNameService
    /\ heap[mNameService[n]].flags = f
    /\ heap' = [heap EXCEPT ![mNameService[n]].writer = @ \cup {c}]
    /\ Answer(c, "OK")
    /\ UNCHANGED <<tables, proc, smashed>>

\* excuteTimeout: a second without a message
Timeout ==
    /\ Waiting
    /\ StartSweep
    /\ UNCHANGED <<heap, tables, proc, result, smashed, alive>>

-----------------------------------------------------------------------------
(* monitor_service_status: the scan, one entry a step *)

Scanning == alive /\ pc = "scan" /\ it <= Len(mRunningService)
Entry == mRunningService[it]
Dangling == Entry \notin DOMAIN heap

Advance == it' = it + 1 /\ result' = NoResult /\ UNCHANGED <<pc, smashed, alive>>

EndStateFinishing(state, cause) ==
    IF state = "FINISHING_USER" THEN state ELSE "FINISHED"
EndState(state, cause) ==
    CASE cause = "ok" -> "FINISHED"
      [] cause = "error" -> "DIED"
      [] cause = "TERM" /\ state = "FINISHING_USER" -> "FINISHED_USER"
      [] OTHER -> "DIED_SIGNAL"

EndStatusByCause(state, cause) ==
    CASE cause \in {"ok", "error"} -> "EXIT" [] cause = "TERM" -> "USER"
      [] OTHER -> "SIGNAL"
EndStatus(state, cause) ==
    CASE cause \in {"ok", "error"} -> "EXIT"
      [] cause = "TERM" /\ state = "FINISHING_USER" -> "USER"
      [] OTHER -> "SIGNAL"

\* A final state is passed over.  The state read through a pointer to a freed
\* cell is the one the cell had when it was freed, a final one, as long as
\* nothing else has been written there.
ScanSkip ==
    /\ Scanning
    /\ ~Dangling => heap[Entry].state \notin Watched
    /\ Advance
    /\ UNCHANGED <<heap, tables, proc, gcIterator>>

\* ... and when something has, what follows from it is a wild access.
ScanWild ==
    /\ Scanning
    /\ Dangling
    /\ alive' = FALSE
    /\ UNCHANGED <<heap, tables, proc, sweep, result, smashed>>

\* waitpid(pid, WNOHANG) finds the process running or stopped, or (ECHILD) not
\* a child any more.
ScanNotEnded ==
    /\ Scanning
    /\ ~Dangling /\ heap[Entry].state \in Watched
    /\ proc[heap[Entry].pid].life # "zombie"
    /\ gcIterator' = IF proc[heap[Entry].pid].life = "reaped"
                     THEN Append(gcIterator, it) ELSE gcIterator
    /\ Advance
    /\ UNCHANGED <<heap, tables, proc>>

\* waitpid reaps the process; every writer of the service is told.
ScanReap ==
    /\ Scanning
    /\ ~Dangling /\ heap[Entry].state \in Watched
    /\ LET info  == heap[Entry]
           cause == proc[info.pid].cause
       IN  /\ proc[info.pid].life = "zombie"
           /\ heap' = [heap EXCEPT ![Entry].state = EndState(info.state, cause)]
           /\ proc' = [proc EXCEPT ![info.pid].life = "reaped",
                 ![info.pid].told = Append(@,
                     [status |-> EndStatus(info.state, cause), to |-> info.writer])]
    /\ gcIterator' = Append(gcIterator, it)
    /\ Advance
    /\ UNCHANGED tables

ScanEnd ==
    /\ alive /\ pc = "scan" /\ it > Len(mRunningService)
    /\ pc' = "gc" /\ it' = 1 /\ result' = NoResult
    /\ UNCHANGED <<heap, tables, proc, gcIterator, smashed, alive>>

-----------------------------------------------------------------------------
(* monitor_service_status: the collection, one saved iterator a step.      *)
(* mRunningService.erase moves the entries behind the erased one down, so  *)
(* a saved iterator then points one entry further than the scan meant.     *)

Collecting == alive /\ pc = "gc" /\ gcIterator # << >>
PositionNext == Head(gcIterator) + 1
Position == Head(gcIterator)

Collectable ==
    Position <= Len(mRunningService) /\ mRunningService[Position] \in DOMAIN heap

GcErase ==
    /\ Collecting
    /\ Collectable
    /\ LET a == mRunningService[Position]
       IN  /\ mSeqService' = Erase(mSeqService, heap[a].label)
           /\ mNameService' = Erase(mNameService, heap[a].name)
           /\ heap' = Erase(heap, a)
    /\ mRunningService' = RemoveAt(mRunningService, Position)
    /\ gcIterator' = Tail(gcIterator)
    /\ UNCHANGED <<proc, pc, it, result, smashed, alive>>

\* erase(iterator beyond end()) moves (size_t)-1 elements; deleting the cell of
\* a dangling entry frees it twice.  Both end the daemon.
GcWild ==
    /\ Collecting
    /\ ~Collectable
    /\ alive' = FALSE
    /\ UNCHANGED <<heap, tables, proc, sweep, result, smashed>>

GcEnd ==
    /\ alive /\ pc = "gc" /\ gcIterator = << >>
    /\ pc' = "wait"
    /\ smashed' = FALSE
    /\ UNCHANGED <<heap, tables, proc, it, gcIterator, result, alive>>

\* excuteNormal returns into a stack that START has written over.
ReturnSmashed ==
    /\ alive /\ pc = "gc" /\ gcIterator = << >>
    /\ smashed
    /\ alive' = FALSE
    /\ UNCHANGED <<heap, tables, proc, sweep, result, smashed>>

-----------------------------------------------------------------------------
(* The processes: external *)

End(p, cause) ==
    /\ proc' = [proc EXCEPT ![p].life = "zombie", ![p].cause = cause]
    /\ UNCHANGED <<heap, tables, sweep, result, smashed, alive>>

\* A running service returns, fails, or dies of a signal of the executor or of
\* another sender; a stopped one can only be killed.
Exit(p, cause) ==
    /\ p \in DOMAIN proc
    /\ \/ proc[p].life = "run"
       \/ proc[p].life = "stopped" /\ cause = "KILL"
    /\ End(p, cause)

\* The kernel delivers the executor's SIGTERM to a running process, which dies
\* of it unless it ignores the signal.
TermDelivered(p) ==
    /\ p \in DOMAIN proc
    /\ proc[p].name \notin Deaf
    /\ proc[p].life = "run" /\ proc[p].sigterm
    /\ End(p, "TERM")

-----------------------------------------------------------------------------
Handle ==
    \E c \in Clients :
        \/ InfoByLabel(c)
        \/ \E n \in Names :
              \/ StartExists(c, n)
              \/ StartForkFails(c, n) \/ StartSmashes(c, n)
              \/ \E s \in Sequences, f \in Flags, a \in Addrs, p \in Pids :
                    StartForked(c, n, s, f, a, p)
              \/ \E f \in Flags : Info(c, n, f) \/ InfoRefused(c, n, f)
        \/ \E l \in Labels :
              \/ Stop(c, l) \/ StopRefused(c, l)
              \/ Pause(c, l) \/ PauseRefused(c, l)
              \/ Restart(c, l) \/ RestartRefused(c, l)

Monitor ==
    \/ ScanSkip \/ ScanWild \/ ScanNotEnded \/ ScanReap \/ ScanEnd
    \/ GcErase \/ GcWild \/ GcEnd \/ ReturnSmashed

Worker == Handle \/ Timeout \/ Monitor

Processes ==
    \E p \in Pids :
        \/ \E cause \in Causes \ {"none"} : Exit(p, cause)
        \/ TermDelivered(p)

Next == Worker \/ Processes

Spec == Init /\ [][Next]_vars

\* The worker thread never stops: with no message its wait times out.  The
\* kernel delivers a signal to a process that is not stopped; nothing is asked
\* of a service that ignores it.
Fairness ==
    /\ WF_vars(Worker)
    /\ \A p \in Pids : WF_vars(TermDelivered(p))

FairSpec == Spec /\ Fairness
-----------------------------------------------------------------------------
(* Properties *)

IsMap(f, K, V) == DOMAIN f \subseteq K /\ f \in [DOMAIN f -> V]

\* The shape of the state.
TypeOK ==
    /\ IsMap(heap, Addrs, ServiceInfo)
    /\ mRunningService \in Seq(Addrs)
    /\ IsMap(mSeqService, Labels, Addrs)
    /\ IsMap(mNameService, Names, Addrs)
    /\ IsMap(proc, Pids, Process)
    /\ pc \in {"wait", "scan", "gc"}
    /\ it \in Nat \ {0}
    /\ gcIterator \in Seq(Nat \ {0})
    /\ result \in Result \cup {NoResult}
    /\ smashed \in BOOLEAN /\ alive \in BOOLEAN

\* The three tables never disagree, whichever entries a sweep erases: a live
\* cell is found under its own name and its own label and is in the vector,
\* and the two maps hold nothing else.
TablesAgree ==
    /\ \A a \in DOMAIN heap :
          /\ heap[a].name \in DOMAIN mNameService
          /\ mNameService[heap[a].name] = a
          /\ heap[a].label \in DOMAIN mSeqService
          /\ mSeqService[heap[a].label] = a
          /\ \E i \in 1..Len(mRunningService) : mRunningService[i] = a
    /\ \A n \in DOMAIN mNameService :
          mNameService[n] \in DOMAIN heap /\ heap[mNameService[n]].name = n
    /\ \A l \in DOMAIN mSeqService :
          mSeqService[l] \in DOMAIN heap /\ heap[mSeqService[l]].label = l

\* STOP, PAUSE and RESTART, which go by the state of the entry, never signal a
\* process that has been reaped, whose pid the kernel may have given away; and
\* the state the executor keeps is the one the process is in, up to an end the
\* next sweep will find.
StateMatchesProcess ==
    \A a \in DOMAIN heap :
        LET p == heap[a].pid IN
        /\ heap[a].state = "RUNNING" => proc[p].life \in {"run", "zombie"}
        /\ heap[a].state = "PAUSED" => proc[p].life \in {"stopped", "zombie"}
        /\ heap[a].state = "FINISHING_USER" =>
              proc[p].life # "reaped" /\ proc[p].sigterm

\* The end of a service is told exactly once, when it is reaped, and it is told
\* as "ended by the user" exactly when the executor was asked to stop that very
\* process and it died of a SIGTERM.
EndToldTruthfully ==
    \A p \in DOMAIN proc :
        /\ Len(proc[p].told) = IF proc[p].life = "reaped" THEN 1 ELSE 0
        /\ proc[p].life = "reaped" =>
              /\ (proc[p].told[1].status = "USER") <=>
                    (proc[p].sigterm /\ proc[p].cause = "TERM")
              /\ (proc[p].told[1].status = "EXIT") <=>
                    (proc[p].cause \in {"ok", "error"})

\* What a STOP has begun no command takes back: the entry stays as it is, through
\* PAUSE, RESTART, START of the same name and INFO, until the sweep has reaped
\* that very process, or the entry is lost.
StopIsFinal ==
    [][\A a \in DOMAIN heap :
          heap[a].state = "FINISHING_USER" =>
              \/ a \notin DOMAIN heap'
              \/ heap'[a].pid = heap[a].pid /\ heap'[a].state = "FINISHING_USER"
              \/ /\ heap'[a].pid = heap[a].pid /\ heap'[a].state \in FinalStates
                 /\ proc'[heap[a].pid].life = "reaped"]_vars

Tracked(p) == \E a \in DOMAIN heap : heap[a].pid = p
Reaped(p) == p \in DOMAIN proc /\ proc[p].life = "reaped"

\* A service that has ended while the executor keeps an entry for it is reaped
\* and told of (or the entry is lost, or the daemon is).
EndedIsReaped ==
    \A p \in Pids :
        (p \in DOMAIN proc /\ proc[p].life = "zombie")
            ~> (Reaped(p) \/ ~Tracked(p) \/ ~alive)

\* A STOP accepted for a running service ends it, unless the service ignores
\* SIGTERM, the only signal the executor ever sends it: no later command, nor
\* the end or start of another service, can take the STOP back.
StopOfRunningEnds ==
    \A p \in Pids :
        (p \in DOMAIN proc /\ proc[p].sigterm /\ proc[p].life = "run"
            /\ proc[p].name \notin Deaf)
            ~> (Reaped(p) \/ ~Tracked(p) \/ ~alive)

\* What the states FINISHING_USER and FINISHED_USER promise of a STOP: a
\* service being stopped comes to its end.  A STOP of a paused service refutes
\* it: SIGTERM stays pending, and RESTART wants the state PAUSED.
StopEnds ==
    \A p \in Pids :
        (p \in DOMAIN proc /\ proc[p].sigterm)
            ~> (Reaped(p) \/ ~Tracked(p) \/ ~alive)

\* What the "exists" check of START is for: one process per name.  Refuted
\* when a sweep that collects two entries erases a third one by mistake.
OneProcessPerName ==
    \A p, q \in DOMAIN proc :
        /\ proc[p].life \in {"run", "stopped"}
        /\ proc[q].life \in {"run", "stopped"}
        /\ proc[p].name = proc[q].name
        => p = q
=============================================================================
