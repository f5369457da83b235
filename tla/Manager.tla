------------------------------- MODULE Manager -------------------------------
(***************************************************************************)
(* The objects a client has of the services and commands of saced          *)
(* (src/libsace/SaceManager.cpp and SaceObj.cpp): application threads      *)
(* create them and call their methods; the sender's receive thread marks   *)
(* the object of a service or command that has ended and calls the         *)
(* application back, which may call the library in turn.                   *)
(*                                                                         *)
(* The sender is SocketSender's while the connection lasts, and of the     *)
(* daemon there is what ServiceExcutor, NormalExcutor and Event show a     *)
(* client.  A command and its result are one step: a response about what a *)
(* result names comes behind the result, and nothing else orders them.     *)
(***************************************************************************)
EXTENDS Naturals, Sequences

CONSTANTS
    Threads,      \* application threads
    Receiver,     \* the receive thread
    Names,        \* names of services
    CallNum,      \* bound of the model on the calls the application makes
    OtherLabels,  \* labels of services SaceEvent or other clients start
    CallbackOps,  \* what the application's callback may call
    None

ASSUME CallNumAssumption == CallNum \in Nat
ASSUME LabelsAssumption == OtherLabels \cap 1..CallNum = {}

Everyone == Threads \cup {Receiver}
Calls == 1..CallNum
Objects == Calls    \* an object is named by the call that made it
Labels == Calls \cup OtherLabels    \* and so is what a call has started

VARIABLES
    objs,        \* object -> its members
    registered,  \* mServices and mCommands: label -> object
    pc, call,    \* thread -> position and the call it makes
    callback,    \* the object the application is being told of, under mMutex
    made,        \* how many calls have been made
    mResult,     \* label -> a result that came when no call waited for it
    stream,      \* responses on their way to the receive thread
    inst,        \* label -> service or command that was started under it
    told,        \* objects the application has been told of
    released,    \* objects the application has stopped or closed
    late,        \* objects registered after the response that they have ended
    disturbed,   \* labels of which a call, the START included, timed out, or
                 \* which two methods were called for at once
    dead         \* the method and error code the application died of

library == <<objs, registered, callback>>
threads == <<pc, call, made>>
daemon == <<stream, inst>>
history == <<told, released, late, disturbed>>
vars == <<library, threads, mResult, daemon, history, dead>>

-----------------------------------------------------------------------------
(* Data *)

ErrorCode == {"OK", "TIMEOUT", "EXIT", "EXIT_USER", "NOT_EXISTS", "UNKNOWN"}
Ended == {"EXIT", "EXIT_USER"}
Status == {"OK", "FAIL", "EXISTS", "TIMEOUT"}

MethodsOf == [service |-> {"STOP", "PAUSE", "RESTART", "STATE"}, command |-> {"CLOSE"}]
Methods == MethodsOf.service \cup MethodsOf.command
Creations == {"INFO", "EVENT_INFO", "START", "RUN"}
Ops == Methods \cup Creations
ASSUME NoneAssumption == None \notin Ops /\ None \notin Labels

\* SaceServiceObj and SaceCommandObj
Object == [kind : {"service", "command"}, label : Labels \cup {None}, sender : BOOLEAN,
           mError : ErrorCode, mCmd : Methods \cup {None}, mRlt : Status]

Result == [status : Status, label : Labels \cup {None}]
Call == [op : Ops \cup {None}, name : Names \cup {None}, cmd : BOOLEAN,
         obj : Objects \cup {None}]
NoCall == [op |-> None, name |-> None, cmd |-> FALSE, obj |-> None]

Response == [label : Labels, status : {"EXIT", "USER"}]
Instance == [name : Names \cup {None}, kind : {"service", "event", "command"},
             state : {"running", "paused", "finishing", "ended"}, watched : BOOLEAN]

With(f, k, v) == [x \in DOMAIN f \cup {k} |-> IF x = k THEN v ELSE f[x]]
Insert(f, k, v) == IF k \in DOMAIN f THEN f ELSE With(f, k, v)
Without(f, k) == [x \in DOMAIN f \ {k} |-> f[x]]

result_to_error(status) ==
    CASE status = "OK" -> "OK"
      [] status = "TIMEOUT" -> "TIMEOUT"
      [] status = "FAIL" -> "EXIT_USER"
      [] OTHER -> "UNKNOWN"

\* A signal counts as an exit.
response_to_error(status) == IF status = "USER" THEN "EXIT_USER" ELSE "EXIT"

Init ==
    /\ objs = << >> /\ registered = << >>
    /\ pc = [t \in Everyone |-> "idle"]
    /\ call = [t \in Everyone |-> NoCall]
    /\ callback = None
    /\ made = 0
    /\ mResult = << >>
    /\ stream = << >> /\ inst = << >>
    /\ told = {} /\ released = {} /\ late = {} /\ disturbed = {}
    /\ dead = None

-----------------------------------------------------------------------------
(* The daemon: external *)

Runs(l) == l \in DOMAIN inst /\ inst[l].state # "ended"
Running(n, kinds) == {l \in DOMAIN inst : Runs(l) /\ inst[l].name = n /\ inst[l].kind \in kinds}
Started(n, kind, watched) ==
    [name |-> n, kind |-> kind, state |-> "running", watched |-> watched]

\* A client that asks for a service watches it from then on.  SaceEvent records
\* none as running, and finds none.
ServesInfo(op, n, r) ==
    LET found == IF op = "INFO" THEN Running(n, {"service"}) ELSE {} IN
    \/ /\ r.status = "OK" /\ r.label \in found
       /\ inst' = [inst EXCEPT ![r.label].watched = TRUE]
    \/ /\ r = [status |-> "FAIL", label |-> None] /\ found = {}
       /\ UNCHANGED inst

ServesStart(op, n, o, r) ==
    LET found == IF op = "START" THEN Running(n, {"service", "event"}) ELSE {} IN
    \/ /\ r = [status |-> "OK", label |-> o] /\ found = {}
       /\ inst' = With(inst, o, Started(n, IF op = "START" THEN "service" ELSE "command", TRUE))
    \/ /\ r.label = None /\ r.status = IF found = {} THEN "FAIL" ELSE "EXISTS"
       /\ UNCHANGED inst

\* The state a method leaves a service or command in, which may be the same
After(op, state) ==
    CASE op = "STOP" -> "finishing"
      [] op = "PAUSE" /\ state = "running" -> "paused"
      [] op = "RESTART" /\ state = "paused" -> "running"
      [] op = "CLOSE" -> "ended"
      [] OTHER -> state

ServesMethod(op, l, r) ==
    /\ r.label = None
    /\ \/ /\ r.status = "OK" /\ Runs(l)
          /\ op = "STOP" \/ After(op, inst[l].state) # inst[l].state
          /\ inst' = [inst EXCEPT ![l].state = After(op, @)]
       \/ /\ r.status = "FAIL"
          /\ Runs(l) => op # "STOP" /\ After(op, inst[l].state) = inst[l].state
          /\ UNCHANGED inst

OthersStart(n, l, kind) ==
    /\ l \notin DOMAIN inst
    /\ Running(n, {"service", "event"}) = {}
    /\ inst' = With(inst, l, Started(n, kind, FALSE))
    /\ UNCHANGED <<library, threads, mResult, stream, history, dead>>

\* A service or command ends by itself; the client is told, if it watches.
Ends(l) ==
    /\ Runs(l)
    /\ inst' = [inst EXCEPT ![l].state = "ended"]
    /\ \/ /\ inst[l].watched
          /\ \E status \in {"EXIT"} \cup IF inst[l].state = "finishing" THEN {"USER"} ELSE {} :
                stream' = Append(stream, [label |-> l, status |-> status])
       \/ ~inst[l].watched /\ UNCHANGED stream
    /\ UNCHANGED <<library, threads, mResult, history, dead>>

-----------------------------------------------------------------------------
(* Calls *)

Alive == dead = None
Free(t, op) ==
    /\ Alive
    /\ pc[t] = "idle"
    /\ t = Receiver => callback # None /\ op \in CallbackOps
Goto(t, where) == pc' = [pc EXCEPT ![t] = where]
Idle(t) == Goto(t, "idle") /\ call' = [call EXCEPT ![t] = NoCall]

\* onResponse holds mMutex until the application's callback has returned.
Unlocked == callback = None

Begins(t, c, where) ==
    /\ made < CallNum
    /\ made' = made + 1
    /\ call' = [call EXCEPT ![t] = c]
    /\ Goto(t, where)

CheckService(t, n, cmd) ==
    /\ Free(t, "CHECK")
    /\ Begins(t, [op |-> "INFO", name |-> n, cmd |-> cmd, obj |-> made + 1], "asking")
    /\ UNCHANGED <<library, mResult, daemon, history, dead>>

RunCommand(t) ==
    /\ Free(t, "RUN")
    /\ Begins(t, [op |-> "RUN", name |-> None, cmd |-> TRUE, obj |-> made + 1], "asking")
    /\ UNCHANGED <<library, mResult, daemon, history, dead>>

\* The methods return at once or throw when the object is in one of these
\* states.  getState knows fewer of them.
RefusedUnlessUser(op) ==
    IF op = "STATE" THEN {"EXIT"} ELSE {"EXIT", "UNKNOWN", "NOT_EXISTS"}
RefusedUnlessUnknown(op) == IF op = "CLOSE" THEN Ended \cup {"UNKNOWN"} ELSE Ended
Refused(op) ==
    CASE op = "STATE" -> Ended
      [] op = "CLOSE" -> Ended \cup {"UNKNOWN"}
      [] OTHER -> Ended \cup {"UNKNOWN", "NOT_EXISTS"}

Usable(o, op) ==
    /\ o \in DOMAIN objs
    /\ op \in MethodsOf[objs[o].kind]
    /\ objs[o].mError \notin Refused(op)

\* A method of a service writes its command into the object first, where
\* another thread may overwrite it.
PreparedAsPause(o, op) == objs' = [objs EXCEPT ![o].mCmd = IF op = "STOP" THEN "PAUSE" ELSE op]
Prepared(o, op) == objs' = [objs EXCEPT ![o].mCmd = op]

UnderWay(o) == {t \in Everyone : call[t].obj = o /\ call[t].op \in Methods}

\* close() closes the descriptor first, which is -1 from then on.
Method(t, o, op) ==
    /\ Free(t, op)
    /\ Usable(o, op) /\ objs[o].sender
    /\ op = "CLOSE" => o \notin released
    /\ Prepared(o, op)
    /\ Begins(t, [NoCall EXCEPT !.op = op, !.obj = o], "prepared")
    /\ released' = IF op \in {"STOP", "CLOSE"} THEN released \cup {o} ELSE released
    /\ disturbed' = IF \E p \in DOMAIN objs : objs[p].label = objs[o].label /\ UnderWay(p) # {}
                    THEN disturbed \cup {objs[o].label} ELSE disturbed
    /\ UNCHANGED <<registered, callback, mResult, daemon, told, late, dead>>

\* Without a sender there is nothing to send with.  A command's object first
\* closes its descriptor, which was never set: one below 0 saves it.
MethodDies(t, o, op) ==
    /\ Free(t, op)
    /\ Usable(o, op) /\ ~objs[o].sender
    /\ dead' = [op |-> op, error |-> objs[o].mError]
    /\ UNCHANGED <<library, threads, mResult, daemon, history>>

-----------------------------------------------------------------------------
(* What a call that asks the daemon does when excuteCommand returns r *)

NewObject(t, label, has, error) ==
    objs' = With(objs, call[t].obj,
        [kind |-> IF call[t].op = "RUN" THEN "command" ELSE "service", label |-> label,
         sender |-> has, mError |-> error, mCmd |-> None, mRlt |-> "FAIL"])

\* An object is made first, and registered in a step of its own.
CreatesUnchecked(t, r) ==
    /\ NewObject(t, r.label, TRUE, "OK")
    /\ Goto(t, "insert")
    /\ UNCHANGED <<call, dead>>
Creates(t, r) ==
    /\ r.status = "OK"
    /\ NewObject(t, r.label, TRUE, "OK")
    /\ Goto(t, "insert")
    /\ UNCHANGED <<call, dead>>

\* checkService asks for a service, then for an event service, then starts one.
AsksOn(t, r) ==
    /\ r.status # "OK"
    /\ \/ call[t].op = "INFO" /\ call' = [call EXCEPT ![t].op = "EVENT_INFO"]
       \/ /\ call[t].op = "EVENT_INFO" /\ call[t].cmd
          /\ call' = [call EXCEPT ![t].op = "START"]
    /\ UNCHANGED <<pc, objs, dead>>

\* Without a command to start it makes a string of a null pointer.
CheckDies(t, r) ==
    /\ call[t].op = "EVENT_INFO" /\ r.status # "OK"
    /\ ~call[t].cmd
    /\ dead' = [op |-> "START", error |-> "NOT_EXISTS"]
    /\ UNCHANGED <<objs, pc, call>>

Fails(t, r) ==
    /\ call[t].op \in {"START", "RUN"} /\ r.status # "OK"
    /\ NewObject(t, None, FALSE, result_to_error(r.status))
    /\ Idle(t)
    /\ UNCHANGED dead

Returns(t, r) == Creates(t, r) \/ AsksOn(t, r) \/ CheckDies(t, r) \/ Fails(t, r)

Serves(t, r) ==
    \/ call[t].op \in {"INFO", "EVENT_INFO"} /\ ServesInfo(call[t].op, call[t].name, r)
    \/ call[t].op \in {"START", "RUN"} /\ ServesStart(call[t].op, call[t].name, call[t].obj, r)

\* The result of a START that is served although its call has timed out is filed
\* under the number that is half of the label, or lost.
FiledLate(t, r) ==
    IF call[t].op = "START"
    THEN /\ mResult' \in {mResult, Insert(mResult, call[t].obj, r.status)}
         /\ disturbed' = disturbed \cup {call[t].obj}
    ELSE UNCHANGED <<mResult, disturbed>>

\* The receive thread has nothing for a call while it calls back.
Asks(t) ==
    /\ Alive /\ pc[t] = "asking"
    /\ \/ /\ \E r \in Result : Unlocked /\ Serves(t, r) /\ Returns(t, r)
          /\ UNCHANGED <<mResult, disturbed>>
       \/ /\ Returns(t, [status |-> "TIMEOUT", label |-> None])
          /\ \/ UNCHANGED <<inst, mResult, disturbed>>
             \/ \E r \in Result : Serves(t, r) /\ FiledLate(t, r)
    /\ UNCHANGED <<registered, callback, made, stream, told, released, late>>

\* What has ended, and no response about it is on its way.
Over(l) ==
    /\ ~Runs(l)
    /\ \A i \in DOMAIN stream : stream[i].label # l

\* map::insert keeps the object that is there.
Register(t) ==
    LET o == call[t].obj
        l == objs[o].label
    IN
    /\ Alive /\ pc[t] = "insert" /\ Unlocked
    /\ registered' = Insert(registered, l, o)
    /\ late' = IF Over(l) THEN late \cup {o} ELSE late
    /\ Idle(t)
    /\ UNCHANGED <<objs, callback, made, mResult, daemon, told, released, disturbed, dead>>

-----------------------------------------------------------------------------
(* What a method does.  Its commands have the sequence number that is half   *)
(* of the object's label, all the same one.                                  *)

\* What is sent is what the object has; a result that was late for an earlier
\* command may be taken for this one's.
Sends(t) ==
    LET o == call[t].obj
        l == objs[o].label
        Gets(status) == objs' = [objs EXCEPT ![o].mRlt = status]
        ServesCommand(r) == ServesMethod(objs[o].mCmd, l, r)
    IN
    /\ Alive /\ pc[t] = "prepared"
    /\ Goto(t, "returned")
    /\ \/ /\ Unlocked /\ l \notin DOMAIN mResult
          /\ \E r \in Result : ServesCommand(r) /\ Gets(r.status)
          /\ UNCHANGED <<mResult, disturbed>>
       \/ /\ Gets("TIMEOUT")
          /\ disturbed' = disturbed \cup {l}
          /\ \/ UNCHANGED <<inst, mResult>>
             \/ \E r \in Result : /\ ServesCommand(r)
                                  /\ mResult' \in {mResult, Insert(mResult, l, r.status)}
       \/ /\ l \in DOMAIN mResult
          /\ Gets(mResult[l])
          /\ \/ mResult' = Without(mResult, l) /\ UNCHANGED inst
             \/ \E r \in Result : /\ ServesCommand(r)
                                  /\ mResult' \in {Without(mResult, l), With(mResult, l, r.status)}
          /\ UNCHANGED disturbed
    /\ UNCHANGED <<registered, callback, call, made, stream, told, released, late, dead>>

\* The methods that take the object out of the maps, through mCmdCallback
ReleasesAlways(op) == op # "STATE"
Releases(op) == op \in {"STOP", "CLOSE"}

\* setError: whatever has happened to the object while the call was under way
SetError(t) ==
    LET o == call[t].obj IN
    /\ Alive /\ pc[t] = "returned"
    /\ objs' = [objs EXCEPT ![o].mError = result_to_error(objs[o].mRlt)]
    /\ IF Releases(call[t].op) THEN Goto(t, "erase") /\ UNCHANGED call ELSE Idle(t)
    /\ UNCHANGED <<registered, callback, made, mResult, daemon, history, dead>>

Unregister(t) ==
    /\ Alive /\ pc[t] = "erase" /\ Unlocked
    /\ registered' = Without(registered, objs[call[t].obj].label)
    /\ Idle(t)
    /\ UNCHANGED <<objs, callback, made, mResult, daemon, history, dead>>

-----------------------------------------------------------------------------
(* onResponse *)

Receives ==
    /\ Alive /\ callback = None
    /\ stream # << >>
    /\ stream' = Tail(stream)

ReceiveUnheard ==
    /\ Receives
    /\ Head(stream).label \notin DOMAIN registered
    /\ UNCHANGED <<library, threads, mResult, inst, history, dead>>

ReceiveResponse ==
    LET l == Head(stream).label
        o == registered[l]
    IN
    /\ Receives
    /\ l \in DOMAIN registered
    /\ objs' = [objs EXCEPT ![o].mError = response_to_error(Head(stream).status)]
    /\ registered' = Without(registered, l)
    /\ callback' = o
    /\ told' = told \cup {o}
    /\ UNCHANGED <<threads, mResult, inst, released, late, disturbed, dead>>

CallbackReturns ==
    /\ Alive /\ callback # None
    /\ pc[Receiver] = "idle"
    /\ callback' = None
    /\ UNCHANGED <<objs, registered, threads, mResult, daemon, history, dead>>

-----------------------------------------------------------------------------
Begin(t) ==
    \/ \E n \in Names, cmd \in BOOLEAN : CheckService(t, n, cmd)
    \/ RunCommand(t)
    \/ \E o \in DOMAIN objs, op \in Methods : Method(t, o, op) \/ MethodDies(t, o, op)
Continue(t) == Asks(t) \/ Register(t) \/ Sends(t) \/ SetError(t) \/ Unregister(t)
Receive == ReceiveUnheard \/ ReceiveResponse
Daemon ==
    \/ \E l \in DOMAIN inst : Ends(l)
    \/ \E n \in Names, l \in OtherLabels, kind \in {"service", "event"} : OthersStart(n, l, kind)

Next ==
    \/ \E t \in Everyone : Begin(t) \/ Continue(t)
    \/ Receive \/ CallbackReturns
    \/ Daemon

Spec == Init /\ [][Next]_vars

\* A call goes on, the mutex is handed to who has waited for it, the receive
\* thread reads, and the application's callback makes an end.
Fairness ==
    /\ \A t \in Everyone : SF_vars(Continue(t))
    /\ WF_vars(Receive) /\ WF_vars(CallbackReturns)

FairSpec == Spec /\ Fairness

-----------------------------------------------------------------------------
(* Properties *)

Position == {"idle", "asking", "prepared", "returned", "insert", "erase"}
IsMap(f, K, V) == DOMAIN f \subseteq K /\ f \in [DOMAIN f -> V]

\* The shape of the state: an object has a label if it has a sender, what is
\* registered has the label it is registered under, and a thread's call has
\* what its position needs.
TypeOK ==
    /\ IsMap(objs, Objects, Object)
    /\ \A o \in DOMAIN objs : objs[o].sender => objs[o].label # None
    /\ IsMap(registered, Labels, DOMAIN objs)
    /\ \A l \in DOMAIN registered : objs[registered[l]].label = l
    /\ pc \in [Everyone -> Position]
    /\ call \in [Everyone -> Call]
    /\ \A t \in Everyone :
          /\ pc[t] = "idle" <=> call[t] = NoCall
          /\ pc[t] = "asking" => call[t].op \in Creations /\ call[t].obj \in Objects \ DOMAIN objs
          /\ pc[t] \in {"insert", "prepared", "returned", "erase"} =>
                call[t].obj \in DOMAIN objs /\ objs[call[t].obj].sender
    /\ callback \in DOMAIN objs \cup {None}
    /\ made \in 0..CallNum
    /\ IsMap(mResult, Labels, Status)
    /\ stream \in Seq(Response)
    /\ IsMap(inst, Labels, Instance)
    /\ told \subseteq DOMAIN objs /\ released \subseteq DOMAIN objs
    /\ late \subseteq DOMAIN objs
    /\ disturbed \subseteq Labels
    /\ dead \in [op : Ops, error : ErrorCode] \cup {None}

\* The library is the death of the application only when checkService finds no
\* service and has no command, by a method of an object whose call timed out,
\* or by getState of one whose call was refused.
DiesOnlyOf ==
    dead \in {None, [op |-> "START", error |-> "NOT_EXISTS"],
              [op |-> "STATE", error |-> "UNKNOWN"]}
        \cup [op : Methods, error : {"TIMEOUT"}]

\* The application is told of every object whose service or command has ended
\* unless it stopped or closed it itself, the object is not the only one of its
\* label, or it was, or is yet to be, registered after the response had come.
Twins(o) == {p \in DOMAIN objs \ {o} : objs[p].label = objs[o].label}
Inserting(o) == \E t \in Everyone : pc[t] = "insert" /\ call[t].obj = o
NotTold ==
    \A o \in DOMAIN objs :
        objs[o].sender /\ Over(objs[o].label) =>
            \/ o \in told \cup released \cup late
            \/ Twins(o) # {} \/ Inserting(o)

\* When stop() succeeds the service has been sent its signal, unless another
\* method was under way for the same service, or an earlier call for it timed
\* out: a method, or the START, whose service a later checkService finds.
StopStops ==
    \A t \in Everyone :
        LET o == call[t].obj IN
        pc[t] = "erase" /\ call[t].op = "STOP" /\ objs[o].mRlt = "OK" =>
            \/ ~Runs(objs[o].label) \/ inst[objs[o].label].state = "finishing"
            \/ objs[o].label \in disturbed

\* Once the application has been told that an object has ended and no method of
\* it is under way, the object says so for good.
SaysEnded(o) == o \in told /\ objs[o].mError \in Ended /\ UnderWay(o) = {}
EndedStays == [][\A o \in DOMAIN objs : SaysEnded(o) => SaysEnded(o)']_vars

\* Every call returns, unless the callback has stopped or closed an object,
\* which waits for the mutex its own thread holds.
CallsReturn ==
    \A t \in Everyone :
        pc[t] # "idle" ~>
            \/ pc[t] = "idle"
            \/ pc[Receiver] = "erase" /\ call[Receiver].op \in {"STOP", "CLOSE"}
            \/ dead # None
=============================================================================
