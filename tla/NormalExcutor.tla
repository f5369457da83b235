--------------------------- MODULE NormalExcutor ---------------------------
(***************************************************************************)
(* The command executor of saced (src/saced/SaceExcutor.cpp, class         *)
(* SaceNormalExcutor, with sace_popen and sace_pclose): its worker thread  *)
(* starts a client's commands with a pipe to each, closes one on request   *)
(* and, when a connection of the client has ended, all of them.  Closing a *)
(* command waits for its process, ten times a second, and kills it after a *)
(* second.  The environment is the processes, which may end at any moment. *)
(*                                                                         *)
(* A command is known by its label.  close and destroy drop a CommandInfo  *)
(* without deleting it, so its address, which is half of the label, is not *)
(* used again; its descriptor is.                                          *)
(***************************************************************************)
EXTENDS Naturals

CONSTANTS
    Clients,     \* SaceClientIdentifiers: a uid and a pid
    Commands,    \* labels, each of a CommandInfo and of the process it runs
    Fds,         \* descriptors pipe2() may return
    None,        \* no command
    KillTime,    \* CLOSE_WAIT_KILL_TIME, in sleeps of 100 ms
    TotalTime,   \* CLOSE_WAIT_TOTAL_TIME, in sleeps of 100 ms
    MaxWait      \* bound of the model on the sleeps it counts

ASSUME NoneAssumption == None \notin Commands
ASSUME TimesAssumption ==
    /\ KillTime \in Nat /\ TotalTime \in Nat /\ MaxWait \in Nat
    /\ KillTime < TotalTime /\ TotalTime < MaxWait

VARIABLES
    info,         \* CommandInfo cells, those of closed commands included
    mRunningCmd,  \* vector<CommandInfo*>
    mSeqCmd,      \* the labels that map<uint64_t label, CommandInfo*> holds
    mClientCmd,   \* map<SaceClientIdentifier, vector<uint64_t label>>
    pidlist,      \* list of struct pid: descriptor -> process
    fds,          \* open descriptors of pipes to commands
    proc,         \* the processes started so far
    pc,           \* where the worker is: waiting, in sace_pclose, in DESTROY
    msg,          \* the CLOSE or DESTROY being handled
    todo,         \* labels DESTROY has yet to look at
    closing,      \* the command being closed, or None
    pid,          \* the process sace_pclose waits for, or None
    waited,       \* sleeps of sace_pclose
    result        \* the last SaceResult sent

tables == <<info, mRunningCmd, mSeqCmd, mClientCmd>>
pipes == <<pidlist, fds>>
pclose == <<closing, pid, waited>>
vars == <<tables, pipes, proc, pc, msg, todo, pclose, result>>

-----------------------------------------------------------------------------
(* Data *)

CommandInfo == [fd : Fds, writer : Clients]
Process == [life : {"run", "zombie", "reaped"}, killed : BOOLEAN]

Message == [type : {"CLOSE", "DESTROY"}, client : Clients]
NoMessage == [type |-> "NONE"]

Result == [to : Clients, type : {"START", "CLOSE", "FD"}, status : {"OK", "FAIL"}]
NoResult == [type |-> "NONE"]

With(f, k, v) == [x \in DOMAIN f \cup {k} |-> IF x = k THEN v ELSE f[x]]
Without(f, k) == [x \in DOMAIN f \ {k} |-> f[x]]

Listed(c) == IF c \in DOMAIN mClientCmd THEN mClientCmd[c] ELSE {}

Init ==
    /\ info = << >> /\ mRunningCmd = {} /\ mSeqCmd = {} /\ mClientCmd = << >>
    /\ pidlist = << >> /\ fds = {}
    /\ proc = << >>
    /\ pc = "wait" /\ msg = NoMessage /\ todo = {}
    /\ closing = None /\ pid = None /\ waited = 0
    /\ result = NoResult

Waiting == pc = "wait"
Answer(c, type, status) == result' = [to |-> c, type |-> type, status |-> status]

-----------------------------------------------------------------------------
(* startNormalCmd, sace_popen *)

StartFails(c) ==
    /\ Waiting
    /\ Answer(c, "START", "FAIL")
    /\ UNCHANGED <<tables, pipes, proc, pc, msg, todo, pclose>>

Start(c, k, f) ==
    /\ Waiting
    /\ k \notin DOMAIN info
    /\ f \notin fds
    /\ info' = With(info, k, [fd |-> f, writer |-> c])
    /\ proc' = With(proc, k, [life |-> "run", killed |-> FALSE])
    /\ pidlist' = With(pidlist, f, k)
    /\ fds' = fds \cup {f}
    /\ mRunningCmd' = mRunningCmd \cup {k}
    /\ mSeqCmd' = mSeqCmd \cup {k}
    /\ mClientCmd' = With(mClientCmd, c, Listed(c) \cup {k})
    /\ Answer(c, "FD", "OK")
    /\ UNCHANGED <<pc, msg, todo, pclose>>

-----------------------------------------------------------------------------
(* sace_pclose *)

\* The record of the descriptor is unlinked; without one there is no wait.
BeginClose(l) ==
    LET fd == info[l].fd IN
    /\ closing' = l
    /\ pid' = IF fd \in DOMAIN pidlist THEN pidlist[fd] ELSE None
    /\ pidlist' = Without(pidlist, fd)
    /\ waited' = 0
    /\ pc' = "pclose"

AfterSleepNoKill(w) == "again"
AfterSleep(w) ==
    IF w >= KillTime THEN "kill" ELSE IF w >= TotalTime THEN "give up" ELSE "again"

\* waitpid(WNOHANG) returns 0.
Sleep ==
    /\ pc = "pclose"
    /\ pid # None /\ proc[pid].life = "run"
    /\ waited' = IF waited < MaxWait THEN waited + 1 ELSE waited
    /\ proc' = [proc EXCEPT ![pid].killed = @ \/ AfterSleep(waited') = "kill"]
    /\ pid' = IF AfterSleep(waited') = "give up" THEN None ELSE pid
    /\ UNCHANGED <<tables, pipes, pc, msg, todo, closing, result>>

EndedOrKilled == pid # None => proc[pid].life = "zombie" \/ proc[pid].killed
Ended == pid # None => proc[pid].life = "zombie"

\* waitpid has reaped the process (or there was no record, and the descriptor
\* is not closed): close(fd), and out of the tables.
Unrecorded == pid = None /\ waited = 0

EndClose ==
    /\ pc = "pclose"
    /\ Ended
    /\ proc' = IF pid = None THEN proc
               ELSE [proc EXCEPT ![pid].life = IF @ = "zombie" THEN "reaped" ELSE @]
    /\ fds' = IF Unrecorded THEN fds ELSE fds \ {info[closing].fd}
    /\ mRunningCmd' = mRunningCmd \ {closing}
    /\ mSeqCmd' = mSeqCmd \ {closing}
    /\ closing' = None /\ pid' = None /\ waited' = 0
    /\ UNCHANGED <<info, pidlist>>

-----------------------------------------------------------------------------
(* closeNormalCmd *)

CloseUnknown(c, l) ==
    /\ Waiting
    /\ l \notin mSeqCmd
    /\ Answer(c, "CLOSE", "FAIL")
    /\ UNCHANGED <<tables, pipes, proc, pc, msg, todo, pclose>>

Close(c, l) ==
    /\ Waiting
    /\ l \in mSeqCmd
    /\ BeginClose(l)
    /\ msg' = [type |-> "CLOSE", client |-> c]
    /\ UNCHANGED <<tables, fds, proc, todo, result>>

\* The label leaves the list of the client that asked, which need not be the
\* one that has it; an empty list leaves the map.
Unlist(c, l) ==
    IF c \notin DOMAIN mClientCmd THEN mClientCmd
    ELSE IF mClientCmd[c] \subseteq {l} THEN Without(mClientCmd, c)
    ELSE [mClientCmd EXCEPT ![c] = @ \ {l}]

Closed ==
    /\ EndClose
    /\ msg.type = "CLOSE"
    /\ mClientCmd' = Unlist(msg.client, closing)
    /\ Answer(msg.client, "CLOSE", "OK")
    /\ pc' = "wait" /\ msg' = NoMessage
    /\ UNCHANGED todo

-----------------------------------------------------------------------------
(* destroyNormalCmd *)

DestroyNone(c) ==
    /\ Waiting
    /\ c \notin DOMAIN mClientCmd
    /\ UNCHANGED vars

LabelsOfAll(c) == mSeqCmd
LabelsOf(c) == mClientCmd[c]

Destroy(c) ==
    /\ Waiting
    /\ c \in DOMAIN mClientCmd
    /\ todo' = LabelsOf(c)
    /\ pc' = "destroy"
    /\ msg' = [type |-> "DESTROY", client |-> c]
    /\ UNCHANGED <<tables, pipes, proc, pclose, result>>

\* A label closed through another client is passed over.
LeftAfterUnknownBreak(l) == {}
LeftAfterUnknown(l) == todo \ {l}
DestroyUnknown(l) ==
    /\ pc = "destroy"
    /\ l \in todo \ mSeqCmd
    /\ todo' = LeftAfterUnknown(l)
    /\ UNCHANGED <<tables, pipes, proc, pc, msg, pclose, result>>

ToCloseUnchecked == todo
ToClose == todo \cap mSeqCmd

DestroyNext(l) ==
    /\ pc = "destroy"
    /\ l \in ToClose
    /\ todo' = todo \ {l}
    /\ BeginClose(l)
    /\ UNCHANGED <<tables, fds, proc, msg, result>>

DestroyClosed ==
    /\ EndClose
    /\ msg.type = "DESTROY"
    /\ pc' = "destroy"
    /\ UNCHANGED <<mClientCmd, msg, todo, result>>

DestroyEnd ==
    /\ pc = "destroy"
    /\ todo = {}
    /\ mClientCmd' = Without(mClientCmd, msg.client)
    /\ pc' = "wait" /\ msg' = NoMessage
    /\ UNCHANGED <<info, mRunningCmd, mSeqCmd, pipes, proc, todo, pclose, result>>

-----------------------------------------------------------------------------
(* The processes: external *)

End(k) ==
    /\ k \in DOMAIN proc
    /\ proc[k].life = "run"
    /\ proc' = [proc EXCEPT ![k].life = "zombie"]
    /\ UNCHANGED <<tables, pipes, pc, msg, todo, pclose, result>>

\* The kernel ends a process that has been sent SIGKILL.
KillDelivered(k) == k \in DOMAIN proc /\ proc[k].killed /\ End(k)

-----------------------------------------------------------------------------
Handle(c) ==
    \/ StartFails(c)
    \/ \E k \in Commands, f \in Fds : Start(c, k, f)
    \/ \E l \in Commands : CloseUnknown(c, l) \/ Close(c, l)
    \/ Destroy(c) \/ DestroyNone(c)

Continue ==
    \/ Sleep \/ Closed \/ DestroyClosed \/ DestroyEnd
    \/ \E l \in todo : DestroyUnknown(l) \/ DestroyNext(l)

Next ==
    \/ \E c \in Clients : Handle(c)
    \/ Continue
    \/ \E k \in Commands : End(k)

Spec == Init /\ [][Next]_vars

\* The worker goes on with a message it has begun, and a killed process ends.
\* Nothing makes a client send a message or a command end by itself.
Fairness ==
    /\ WF_vars(Continue)
    /\ \A k \in Commands : WF_vars(KillDelivered(k))

FairSpec == Spec /\ Fairness

-----------------------------------------------------------------------------
(* Properties *)

IsMap(f, K, V) == DOMAIN f \subseteq K /\ f \in [DOMAIN f -> V]

\* The shape of the state.
TypeOK ==
    /\ IsMap(info, Commands, CommandInfo)
    /\ mSeqCmd \subseteq DOMAIN info
    /\ IsMap(mClientCmd, Clients, SUBSET DOMAIN info)
    /\ IsMap(pidlist, Fds, DOMAIN proc)
    /\ fds \subseteq Fds
    /\ IsMap(proc, Commands, Process)
    /\ DOMAIN proc = DOMAIN info
    /\ pc \in {"wait", "pclose", "destroy"}
    /\ msg \in IF pc = "wait" THEN {NoMessage} ELSE Message
    /\ todo \subseteq DOMAIN info
    /\ closing \in IF pc = "pclose" THEN mSeqCmd ELSE {None}
    /\ pid \in DOMAIN proc \cup {None}
    /\ waited \in Nat
    /\ result \in Result \cup {NoResult}

\* No process and no pipe is left behind: a process is reaped or known by its
\* label, the pipes are those of the known commands, one each, and sace_pclose
\* finds by its descriptor the very process it is to wait for, although
\* descriptors are used again.
NothingLeftBehind ==
    /\ \A k \in DOMAIN proc : k \in mSeqCmd \/ proc[k].life = "reaped"
    /\ fds = {info[k].fd : k \in mSeqCmd}
    /\ \A j, k \in mSeqCmd : info[j].fd = info[k].fd => j = k
    /\ mRunningCmd = mSeqCmd
    /\ \A k \in mSeqCmd :
          /\ k # closing => info[k].fd \in DOMAIN pidlist /\ pidlist[info[k].fd] = k
          /\ k = closing => pid = k

\* A known command is in the list of the client that started it, however it and
\* others are closed, and through whom; so the end of the client reaches it.
ListedUnderStarter == \A k \in mSeqCmd : k \in Listed(info[k].writer)

\* When DESTROY is done no command of the client is left, although its list may
\* hold labels that are unknown by then.
DestroyLeavesNone ==
    [][pc = "destroy" /\ pc' = "wait" =>
          \A k \in mSeqCmd' : info[k].writer # msg.client]_vars

\* DESTROY closes no command of another client.
DestroysItsOwn ==
    msg.type = "DESTROY" /\ closing # None => info[closing].writer = msg.client

\* SIGKILL reaches the process of the command being closed and no other, although
\* sace_pclose knows it by a descriptor that is used again, and it does as soon
\* as the kill time has passed: what keeps closing any longer has been killed.
KillsWhatItCloses ==
    \A k \in DOMAIN proc :
        proc[k].life # "reaped" =>
            (proc[k].killed <=> k = closing /\ waited > 0 /\ waited >= KillTime)

\* So whoever goes away, or waits in vain for a command to end, takes nobody
\* else's command along.
EndsItsOwn == DestroysItsOwn /\ KillsWhatItCloses

\* A CLOSE or DESTROY comes to its end, whatever the commands do.
HandledInTheEnd == (pc # "wait") ~> (pc = "wait")

\* What CLOSE_WAIT_TOTAL_TIME says: closing waits for that time at most.
\* Refuted: from the kill time on, which is less, only the kill is done, and a
\* process the kernel does not end blocks the executor.
WaitBounded == waited <= TotalTime
=============================================================================
