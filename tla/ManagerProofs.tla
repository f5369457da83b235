---------------------------- MODULE ManagerProofs ----------------------------
(***************************************************************************)
(* What holds of the client library's objects for any number of threads,   *)
(* services, labels and calls.                                             *)
(***************************************************************************)
EXTENDS Manager, TLAPS

-----------------------------------------------------------------------------
(* Maps *)

\* What an added or replaced entry does to a map.
LEMMA WithMap ==
    ASSUME NEW K, NEW V, NEW f, IsMap(f, K, V), NEW k \in K, NEW v \in V
    PROVE  /\ IsMap(With(f, k, v), K, V)
           /\ DOMAIN With(f, k, v) = DOMAIN f \cup {k}
           /\ With(f, k, v)[k] = v
           /\ \A x \in DOMAIN f \ {k} : With(f, k, v)[x] = f[x]
BY DEF IsMap, With

\* std::map::insert adds an entry or does nothing.
LEMMA InsertMap ==
    ASSUME NEW K, NEW V, NEW f, IsMap(f, K, V), NEW k \in K, NEW v \in V
    PROVE  /\ IsMap(Insert(f, k, v), K, V)
           /\ DOMAIN Insert(f, k, v) = DOMAIN f \cup {k}
           /\ \A x \in DOMAIN f : Insert(f, k, v)[x] = f[x]
           /\ k \notin DOMAIN f => Insert(f, k, v)[k] = v
<1>1. CASE k \in DOMAIN f
  BY <1>1 DEF Insert
<1>2. CASE k \notin DOMAIN f
  <2>1. Insert(f, k, v) = With(f, k, v)
    BY <1>2 DEF Insert
  <2> QED BY <1>2, <2>1, WithMap
<1> QED BY <1>1, <1>2

\* std::map::erase takes one entry out.
LEMMA WithoutMap ==
    ASSUME NEW K, NEW V, NEW f, IsMap(f, K, V), NEW k
    PROVE  /\ IsMap(Without(f, k), K, V)
           /\ DOMAIN Without(f, k) = DOMAIN f \ {k}
           /\ \A x \in DOMAIN f \ {k} : Without(f, k)[x] = f[x]
BY DEF IsMap, Without

-----------------------------------------------------------------------------
(* The daemon's answers *)

\* What has stopped running does not run again, what has been sent its signal
\* keeps it, and who watches goes on watching.
Halted(l) == ~Runs(l) \/ inst[l].state = "finishing"
InstKept ==
    /\ \A l \in DOMAIN inst :
          /\ l \in DOMAIN inst'
          /\ Halted(l) => Halted(l)'
          /\ inst[l].watched => inst'[l].watched

\* The states a service or command goes through.
LEMMA AfterType ==
    ASSUME NEW op \in Methods \cup {None},
           NEW s \in {"running", "paused", "finishing", "ended"}
    PROVE  /\ After(op, s) \in {"running", "paused", "finishing", "ended"}
           /\ s = "finishing" => After(op, s) \in {"finishing", "ended"}
BY DEF After

\* A method changes the state of what runs under its label, at most.
LEMMA ServesMethodKeeps ==
    ASSUME IsMap(inst, Labels, Instance), NEW op \in Methods \cup {None},
           NEW l, NEW r, ServesMethod(op, l, r)
    PROVE  /\ IsMap(inst', Labels, Instance)
           /\ DOMAIN inst' = DOMAIN inst
           /\ InstKept
           /\ op = "STOP" /\ r.status = "OK" => Halted(l)'
<1>1. CASE UNCHANGED inst /\ r.status = "FAIL"
  BY <1>1 DEF InstKept, Halted, Runs
<1>2. CASE r.status = "OK" /\ Runs(l) /\ inst' = [inst EXCEPT ![l].state = After(op, @)]
  <2>1. inst[l] \in Instance /\ inst[l].state # "ended" /\ l \in DOMAIN inst
    BY <1>2 DEF Runs, IsMap
  <2>2. After(op, inst[l].state) \in {"running", "paused", "finishing", "ended"}
        /\ (inst[l].state = "finishing" => After(op, inst[l].state) \in {"finishing", "ended"})
    BY <2>1, AfterType DEF Instance
  <2>3. IsMap(inst', Labels, Instance) /\ DOMAIN inst' = DOMAIN inst
    BY <1>2, <2>1, <2>2 DEF IsMap, Instance
  <2>4. InstKept
    BY <1>2, <2>1, <2>2 DEF InstKept, Halted, Runs, IsMap, Instance
  <2>5. op = "STOP" => Halted(l)'
    BY <1>2, <2>1 DEF Halted, Runs, After, IsMap, Instance
  <2> QED BY <2>3, <2>4, <2>5
<1> QED BY <1>1, <1>2 DEF ServesMethod

\* A client that asks watches what it is told of.
LEMMA ServesInfoKeeps ==
    ASSUME IsMap(inst, Labels, Instance), NEW op, NEW n, NEW r, ServesInfo(op, n, r)
    PROVE  /\ IsMap(inst', Labels, Instance)
           /\ DOMAIN inst' = DOMAIN inst
           /\ InstKept
           /\ r.status = "OK" => r.label \in DOMAIN inst /\ inst'[r.label].watched
<1>1. CASE UNCHANGED inst /\ r.status = "FAIL"
  BY <1>1 DEF InstKept, Halted, Runs
<1>2. CASE /\ r.status = "OK" /\ r.label \in DOMAIN inst
           /\ inst' = [inst EXCEPT ![r.label].watched = TRUE]
  <2>1. inst[r.label] \in Instance
    BY <1>2 DEF IsMap
  <2>2. IsMap(inst', Labels, Instance) /\ DOMAIN inst' = DOMAIN inst
    BY <1>2, <2>1 DEF IsMap, Instance
  <2>3. inst'[r.label].watched
    BY <1>2, <2>1 DEF Instance
  <2>4. \A l \in DOMAIN inst : inst'[l].state = inst[l].state
                             /\ (inst[l].watched => inst'[l].watched)
    BY <1>2, <2>1 DEF IsMap, Instance
  <2> QED BY <1>2, <2>2, <2>3, <2>4 DEF InstKept, Halted, Runs
<1> QED BY <1>1, <1>2 DEF ServesInfo, Running

\* What is started runs under a label of its own.
LEMMA ServesStartKeeps ==
    ASSUME IsMap(inst, Labels, Instance), NEW op, NEW n \in Names \cup {None},
           NEW o \in Objects, NEW r, ServesStart(op, n, o, r), o \notin DOMAIN inst
    PROVE  /\ IsMap(inst', Labels, Instance)
           /\ DOMAIN inst \subseteq DOMAIN inst' /\ DOMAIN inst' \subseteq DOMAIN inst \cup {o}
           /\ InstKept
           /\ r.status = "OK" => r.label = o /\ o \in DOMAIN inst' /\ inst'[o].watched
<1> DEFINE new == Started(n, IF op = "START" THEN "service" ELSE "command", TRUE)
<1>1. new \in Instance /\ new.watched /\ o \in Labels
  BY DEF Started, Instance, Labels, Objects
<1>2. CASE r.status # "OK" /\ UNCHANGED inst
  BY <1>2 DEF InstKept, Halted, Runs
<1>3. CASE r = [status |-> "OK", label |-> o] /\ inst' = With(inst, o, new)
  <2> HIDE DEF new
  <2>1. /\ IsMap(inst', Labels, Instance) /\ DOMAIN inst' = DOMAIN inst \cup {o}
        /\ inst'[o] = new /\ \A x \in DOMAIN inst : inst'[x] = inst[x]
    BY <1>1, <1>3, WithMap
  <2> QED BY <1>1, <1>3, <2>1 DEF InstKept, Halted, Runs
<1>4. \/ r.status # "OK" /\ UNCHANGED inst
      \/ r = [status |-> "OK", label |-> o] /\ inst' = With(inst, o, new)
  BY DEF ServesStart
<1> QED BY <1>2, <1>3, <1>4

-----------------------------------------------------------------------------
(* The shape of the state *)

\* A call that has been made has a number no object and no label has yet.
Fresh ==
    /\ DOMAIN objs \subseteq 1..made
    /\ DOMAIN inst \cap Calls \subseteq 1..made
    /\ \A t \in Everyone : call[t].obj \in 1..made \cup {None}
    /\ \A t \in Everyone : pc[t] = "asking" => call[t].obj \notin DOMAIN inst
    /\ \A t, u \in Everyone :
          pc[t] = "asking" /\ pc[u] = "asking" /\ call[t].obj = call[u].obj => t = u

Typed == TypeOK /\ Fresh

\* A new call of a thread fits the shape.
LEMMA TypeBegins ==
    ASSUME Typed, NEW t \in Everyone, pc[t] = "idle", NEW c \in Call, NEW where \in Position,
           Begins(t, c, where), c # NoCall,
           \/ where = "asking" /\ c.op \in Creations /\ c.obj = made + 1
           \/ where = "prepared" /\ c.obj \in DOMAIN objs /\ objs[c.obj].sender,
           DOMAIN objs' = DOMAIN objs, \A o \in DOMAIN objs : objs'[o].sender = objs[o].sender,
           UNCHANGED inst
    PROVE  /\ pc' \in [Everyone -> Position]
           /\ call' \in [Everyone -> Call]
           /\ \A u \in Everyone :
                 /\ pc'[u] = "idle" <=> call'[u] = NoCall
                 /\ pc'[u] = "asking" => call'[u].op \in Creations /\ call'[u].obj \in Objects \ DOMAIN objs'
                 /\ pc'[u] \in {"insert", "prepared", "returned", "erase"} =>
                       call'[u].obj \in DOMAIN objs' /\ objs'[call'[u].obj].sender
           /\ made' \in 0..CallNum
           /\ Fresh'
<1>1. /\ made' = made + 1 /\ made \in 0..CallNum /\ made' \in 0..CallNum
      /\ call' = [call EXCEPT ![t] = c] /\ pc' = [pc EXCEPT ![t] = where]
      /\ pc \in [Everyone -> Position] /\ call \in [Everyone -> Call]
      /\ c.obj \in 1..made' /\ where # "idle"
  BY CallNumAssumption DEF Typed, TypeOK, Begins, Goto, Fresh
<1>2. pc' \in [Everyone -> Position] /\ call' \in [Everyone -> Call]
  BY <1>1
<1>3. \A u \in Everyone \ {t} : call'[u] = call[u] /\ pc'[u] = pc[u]
  BY <1>1
<1>4. call'[t] = c /\ pc'[t] = where
  BY <1>1
<1>5. made + 1 \notin DOMAIN objs /\ made + 1 \notin DOMAIN inst /\ made + 1 \in Objects
  BY <1>1, CallNumAssumption DEF Typed, Fresh, Objects, Calls
<1>6. ASSUME NEW u \in Everyone
      PROVE  /\ pc'[u] = "idle" <=> call'[u] = NoCall
             /\ pc'[u] = "asking" => call'[u].op \in Creations /\ call'[u].obj \in Objects \ DOMAIN objs'
             /\ pc'[u] \in {"insert", "prepared", "returned", "erase"} =>
                   call'[u].obj \in DOMAIN objs' /\ objs'[call'[u].obj].sender
  <2>1. CASE u = t
    BY <1>1, <1>4, <1>5, <2>1 DEF Position
  <2>2. CASE u # t
    BY <1>3, <2>2 DEF Typed, TypeOK
  <2> QED BY <2>1, <2>2
<1>7. Fresh'
  <2>1. DOMAIN objs' \subseteq 1..made' /\ DOMAIN inst' \cap Calls \subseteq 1..made'
    BY <1>1 DEF Typed, Fresh
  <2>2. \A u \in Everyone : call'[u].obj \in 1..made' \cup {None}
    BY <1>1, <1>3, <1>4 DEF Typed, Fresh
  <2>3. \A u \in Everyone : pc'[u] = "asking" => call'[u].obj \notin DOMAIN inst'
    BY <1>3, <1>4, <1>5 DEF Typed, Fresh
  <2>4. \A u \in Everyone \ {t} : call[u].obj # made + 1
    BY <1>1, NoneAssumption, CallNumAssumption DEF Typed, Fresh, Labels, Calls, Objects
  <2>5. \A u, v \in Everyone :
          pc'[u] = "asking" /\ pc'[v] = "asking" /\ call'[u].obj = call'[v].obj => u = v
    BY <1>3, <1>4, <2>4 DEF Typed, Fresh
  <2> QED BY <2>1, <2>2, <2>3, <2>5 DEF Fresh
<1> QED BY <1>1, <1>2, <1>6, <1>7

LEMMA TypeCreations ==
    ASSUME Typed, NEW t \in Everyone,
           RunCommand(t) \/ \E n \in Names, cmd \in BOOLEAN : CheckService(t, n, cmd)
    PROVE  Typed'
<1>1. PICK c \in Call : /\ c.op \in Creations /\ c.obj = made + 1 /\ c # NoCall
                        /\ Begins(t, c, "asking")
  <2>1. made \in 0..CallNum /\ (made < CallNum => made + 1 \in Objects)
    BY CallNumAssumption DEF Typed, TypeOK, Objects, Calls
  <2> QED BY <2>1, NoneAssumption
          DEF RunCommand, CheckService, Begins, Call, Creations, Ops, NoCall
<1>2. UNCHANGED <<library, mResult, daemon, history, dead>> /\ pc[t] = "idle"
  BY DEF RunCommand, CheckService, Free
<1>3. /\ pc' \in [Everyone -> Position]
      /\ call' \in [Everyone -> Call]
      /\ \A u \in Everyone :
            /\ pc'[u] = "idle" <=> call'[u] = NoCall
            /\ pc'[u] = "asking" => call'[u].op \in Creations /\ call'[u].obj \in Objects \ DOMAIN objs'
            /\ pc'[u] \in {"insert", "prepared", "returned", "erase"} =>
                  call'[u].obj \in DOMAIN objs' /\ objs'[call'[u].obj].sender
      /\ made' \in 0..CallNum
      /\ Fresh'
  BY <1>1, <1>2, TypeBegins DEF library, daemon, Position
<1> QED BY <1>2, <1>3 DEF Typed, TypeOK, library, daemon, history

\* Objects keep what they stand for.
ObjsKept ==
    /\ IsMap(objs', Objects, Object)
    /\ DOMAIN objs \subseteq DOMAIN objs'
    /\ \A p \in DOMAIN objs : /\ objs'[p].label = objs[p].label
                              /\ objs'[p].sender = objs[p].sender
                              /\ objs'[p].kind = objs[p].kind
OthersKept(o) ==
    /\ DOMAIN objs' = DOMAIN objs
    /\ \A p \in DOMAIN objs \ {o} : objs'[p] = objs[p]

\* A method writes its command.
LEMMA CmdWritten ==
    ASSUME TypeOK, NEW o \in DOMAIN objs, NEW op \in Methods,
           objs' = [objs EXCEPT ![o].mCmd = op]
    PROVE  ObjsKept /\ OthersKept(o) /\ objs'[o] = [objs[o] EXCEPT !.mCmd = op]
<1>1. objs[o] \in Object /\ objs \in [DOMAIN objs -> Object]
  BY DEF TypeOK, IsMap
<1>2. [objs[o] EXCEPT !.mCmd = op] \in Object
  BY <1>1 DEF Object
<1> QED BY <1>1, <1>2 DEF TypeOK, IsMap, Object, ObjsKept, OthersKept

\* A method writes its result.
LEMMA RltWritten ==
    ASSUME TypeOK, NEW o \in DOMAIN objs, NEW status \in Status,
           objs' = [objs EXCEPT ![o].mRlt = status]
    PROVE  ObjsKept /\ OthersKept(o) /\ objs'[o] = [objs[o] EXCEPT !.mRlt = status]
<1>1. objs[o] \in Object /\ objs \in [DOMAIN objs -> Object]
  BY DEF TypeOK, IsMap
<1>2. [objs[o] EXCEPT !.mRlt = status] \in Object
  BY <1>1 DEF Object
<1> QED BY <1>1, <1>2 DEF TypeOK, IsMap, Object, ObjsKept, OthersKept

\* setError
LEMMA ErrorWritten ==
    ASSUME TypeOK, NEW o \in DOMAIN objs, NEW e \in ErrorCode,
           objs' = [objs EXCEPT ![o].mError = e]
    PROVE  ObjsKept /\ OthersKept(o) /\ objs'[o] = [objs[o] EXCEPT !.mError = e]
<1>1. objs[o] \in Object /\ objs \in [DOMAIN objs -> Object]
  BY DEF TypeOK, IsMap
<1>2. [objs[o] EXCEPT !.mError = e] \in Object
  BY <1>1 DEF Object
<1> QED BY <1>1, <1>2 DEF TypeOK, IsMap, Object, ObjsKept, OthersKept


LEMMA TypeMethod ==
    ASSUME Typed, NEW t \in Everyone, NEW o, NEW op \in Methods, Method(t, o, op)
    PROVE  Typed' /\ ObjsKept
<1>1. o \in DOMAIN objs /\ o \in Objects /\ objs[o].sender /\ pc[t] = "idle"
  BY DEF Method, Usable, Free, Typed, TypeOK, IsMap
<1>2. ObjsKept /\ DOMAIN objs' = DOMAIN objs
  BY <1>1, CmdWritten DEF Method, Prepared, OthersKept, Typed
<1> DEFINE c == [NoCall EXCEPT !.op = op, !.obj = o]
<1>3. c \in Call /\ c # NoCall /\ c.obj = o
  BY <1>1, NoneAssumption DEF NoCall, Call, Ops
<1>4. Begins(t, c, "prepared")
  BY DEF Method
<1> HIDE DEF c
<1>5. /\ pc' \in [Everyone -> Position]
      /\ call' \in [Everyone -> Call]
      /\ \A u \in Everyone :
            /\ pc'[u] = "idle" <=> call'[u] = NoCall
            /\ pc'[u] = "asking" => call'[u].op \in Creations /\ call'[u].obj \in Objects \ DOMAIN objs'
            /\ pc'[u] \in {"insert", "prepared", "returned", "erase"} =>
                  call'[u].obj \in DOMAIN objs' /\ objs'[call'[u].obj].sender
      /\ made' \in 0..CallNum
      /\ Fresh'
  <2>1. UNCHANGED inst /\ "prepared" \in Position
    BY DEF Method, daemon, Position
  <2> QED BY <1>1, <1>2, <1>3, <1>4, <2>1, TypeBegins DEF ObjsKept
<1>6. objs[o].label \in Labels
  BY <1>1 DEF Typed, TypeOK, IsMap, Object
<1>7. released' \subseteq DOMAIN objs' /\ disturbed' \subseteq Labels
  BY <1>1, <1>2, <1>6 DEF Method, Typed, TypeOK
<1>8. UNCHANGED <<registered, callback, mResult, daemon, told, late, dead>>
  BY DEF Method
<1> QED BY <1>2, <1>5, <1>7, <1>8 DEF Typed, TypeOK, ObjsKept, daemon, IsMap

\* Positions and calls when one thread goes on with its call or ends it.
LEMMA TypeGoes ==
    ASSUME Typed, NEW t \in Everyone, pc[t] # "idle", made' = made,
           \/ Idle(t)
           \/ /\ UNCHANGED call
              /\ \E where \in {"insert", "prepared", "returned", "erase"} : Goto(t, where)
              /\ call[t].obj \in DOMAIN objs' /\ objs'[call[t].obj].sender,
           ObjsKept, DOMAIN objs' \subseteq DOMAIN objs \cup {call[t].obj},
           DOMAIN objs' # DOMAIN objs => pc[t] = "asking",
           DOMAIN inst \subseteq DOMAIN inst',
           DOMAIN inst' \cap Calls \subseteq DOMAIN inst \cup {call[t].obj},
           DOMAIN inst' # DOMAIN inst => pc[t] = "asking"
    PROVE  /\ pc' \in [Everyone -> Position]
           /\ call' \in [Everyone -> Call]
           /\ \A u \in Everyone :
                 /\ pc'[u] = "idle" <=> call'[u] = NoCall
                 /\ pc'[u] = "asking" => call'[u].op \in Creations /\ call'[u].obj \in Objects \ DOMAIN objs'
                 /\ pc'[u] \in {"insert", "prepared", "returned", "erase"} =>
                       call'[u].obj \in DOMAIN objs' /\ objs'[call'[u].obj].sender
           /\ Fresh'
<1>1. pc \in [Everyone -> Position] /\ call \in [Everyone -> Call] /\ NoCall \in Call
  BY DEF Typed, TypeOK, NoCall, Call
<1>2. /\ pc' \in [Everyone -> Position] /\ call' \in [Everyone -> Call]
      /\ \A u \in Everyone \ {t} : pc'[u] = pc[u] /\ call'[u] = call[u]
      /\ \/ pc'[t] = "idle" /\ call'[t] = NoCall
         \/ /\ pc'[t] \in {"insert", "prepared", "returned", "erase"} /\ call'[t] = call[t]
            /\ call[t].obj \in DOMAIN objs' /\ objs'[call[t].obj].sender
  <2>1. CASE Idle(t)
    BY <1>1, <2>1 DEF Idle, Goto, Position
  <2>2. CASE /\ UNCHANGED call
             /\ \E where \in {"insert", "prepared", "returned", "erase"} : Goto(t, where)
             /\ call[t].obj \in DOMAIN objs' /\ objs'[call[t].obj].sender
    BY <1>1, <2>2 DEF Goto, Position
  <2> QED BY <2>1, <2>2
<1>3. \A u \in Everyone \ {t} : pc[u] = "asking" =>
         call[u].obj \notin DOMAIN objs' /\ call[u].obj \in Objects /\ call[u].obj \notin DOMAIN inst'
  <2> SUFFICES ASSUME NEW u \in Everyone \ {t}, pc[u] = "asking"
               PROVE  /\ call[u].obj \notin DOMAIN objs' /\ call[u].obj \in Objects
                      /\ call[u].obj \notin DOMAIN inst'
    OBVIOUS
  <2>1. call[u].obj \in Objects \ DOMAIN objs /\ call[u].obj \notin DOMAIN inst /\ call[u].obj \in Calls
    BY DEF Typed, TypeOK, Fresh, Objects
  <2>2. pc[t] = "asking" => call[u].obj # call[t].obj
    BY DEF Typed, Fresh
  <2> QED BY <2>1, <2>2
<1>4. ASSUME NEW u \in Everyone
      PROVE  /\ pc'[u] = "idle" <=> call'[u] = NoCall
             /\ pc'[u] = "asking" => call'[u].op \in Creations /\ call'[u].obj \in Objects \ DOMAIN objs'
             /\ pc'[u] \in {"insert", "prepared", "returned", "erase"} =>
                   call'[u].obj \in DOMAIN objs' /\ objs'[call'[u].obj].sender
  <2>1. CASE u = t
    <3>1. call[t] # NoCall
      BY DEF Typed, TypeOK
    <3> QED BY <1>2, <2>1, <3>1
  <2>2. CASE u # t
    <3>1. pc'[u] = pc[u] /\ call'[u] = call[u]
      BY <1>2, <2>2
    <3>2. pc[u] \in {"insert", "prepared", "returned", "erase"} =>
             call[u].obj \in DOMAIN objs' /\ objs'[call[u].obj].sender
      BY DEF Typed, TypeOK, ObjsKept
    <3> QED BY <1>3, <2>2, <3>1, <3>2 DEF Typed, TypeOK
  <2> QED BY <2>1, <2>2
<1>5. Fresh'
  <2>1. call[t].obj \in 1..made \/ pc[t] # "asking"
    BY NoneAssumption DEF Typed, TypeOK, Fresh, Labels, Objects
  <2>2. DOMAIN objs' \subseteq 1..made' /\ DOMAIN inst' \cap Calls \subseteq 1..made'
    BY <2>1 DEF Typed, Fresh
  <2>3. \A u \in Everyone : call'[u].obj \in 1..made' \cup {None}
    BY <1>2 DEF Typed, Fresh, NoCall
  <2>4. \A u \in Everyone : pc'[u] = "asking" => call'[u].obj \notin DOMAIN inst'
    BY <1>2, <1>3
  <2>5. \A u, v \in Everyone :
          pc'[u] = "asking" /\ pc'[v] = "asking" /\ call'[u].obj = call'[v].obj => u = v
    BY <1>2 DEF Typed, Fresh
  <2> QED BY <2>2, <2>3, <2>4, <2>5 DEF Fresh
<1> QED BY <1>2, <1>4, <1>5

\* What the daemon's answer to a call that creates does.
LEMMA ServesKeeps ==
    ASSUME Typed, NEW t \in Everyone, pc[t] = "asking", NEW r, Serves(t, r)
    PROVE  /\ IsMap(inst', Labels, Instance) /\ InstKept
           /\ DOMAIN inst \subseteq DOMAIN inst'
           /\ DOMAIN inst' \subseteq DOMAIN inst \cup {call[t].obj}
           /\ DOMAIN inst' # DOMAIN inst => call[t].op \in {"START", "RUN"}
           /\ r.status = "OK" => r.label \in DOMAIN inst' /\ inst'[r.label].watched
<1>1. /\ call[t] \in Call /\ call[t].obj \in Objects /\ call[t].obj \notin DOMAIN inst
      /\ call[t].name \in Names \cup {None} /\ IsMap(inst, Labels, Instance)
  BY DEF Typed, TypeOK, Fresh, Call
<1>2. CASE ServesInfo(call[t].op, call[t].name, r)
  BY <1>1, <1>2, ServesInfoKeeps
<1>3. CASE /\ call[t].op \in {"START", "RUN"}
           /\ ServesStart(call[t].op, call[t].name, call[t].obj, r)
  BY <1>1, <1>3, ServesStartKeeps
<1> QED BY <1>2, <1>3 DEF Serves

\* With what a call ends that asks the daemon: an object, another question, or
\* the death of the application.
LEMMA ReturnsKeeps ==
    ASSUME Typed, NEW t \in Everyone, pc[t] = "asking", NEW r \in Result, Returns(t, r),
           r.status = "OK" => r.label \in Labels
    PROVE  /\ ObjsKept
           /\ DOMAIN objs' \subseteq DOMAIN objs \cup {call[t].obj}
           /\ \A p \in DOMAIN objs : objs'[p] = objs[p]
           /\ call[t].obj \in DOMAIN objs' =>
                 \/ /\ objs'[call[t].obj].sender /\ objs'[call[t].obj].label = r.label
                    /\ r.status = "OK" /\ Goto(t, "insert") /\ UNCHANGED call
                 \/ /\ ~objs'[call[t].obj].sender
                    /\ objs'[call[t].obj].mError \in {"TIMEOUT", "EXIT_USER", "UNKNOWN"}
                    /\ Idle(t)
           /\ call[t].obj \notin DOMAIN objs' =>
                 /\ UNCHANGED <<objs, pc>> /\ call[t].op \notin {"START", "RUN"}
                 /\ \/ UNCHANGED <<call>>
                    \/ \E op \in {"EVENT_INFO", "START"} : call' = [call EXCEPT ![t].op = op]
           /\ dead' = dead \/ dead' = [op |-> "START", error |-> "NOT_EXISTS"]
<1> DEFINE o == call[t].obj
<1>1. o \in Objects /\ o \notin DOMAIN objs /\ IsMap(objs, Objects, Object)
  BY DEF Typed, TypeOK
<1>2. ASSUME NEW label \in Labels \cup {None}, NEW has \in BOOLEAN, NEW error \in ErrorCode,
             NewObject(t, label, has, error)
      PROVE  /\ ObjsKept /\ DOMAIN objs' = DOMAIN objs \cup {o}
             /\ \A p \in DOMAIN objs : objs'[p] = objs[p]
             /\ objs'[o].sender = has /\ objs'[o].label = label /\ objs'[o].mError = error
  <2> DEFINE x == [kind |-> IF call[t].op = "RUN" THEN "command" ELSE "service", label |-> label,
                   sender |-> has, mError |-> error, mCmd |-> None, mRlt |-> "FAIL"]
  <2>1. x \in Object /\ x.sender = has /\ x.label = label /\ x.mError = error
    BY <1>2 DEF Object, Status
  <2>2. objs' = With(objs, o, x)
    BY <1>2 DEF NewObject
  <2> HIDE DEF x
  <2>3. /\ IsMap(objs', Objects, Object) /\ DOMAIN objs' = DOMAIN objs \cup {o}
        /\ objs'[o] = x /\ \A p \in DOMAIN objs : objs'[p] = objs[p]
    BY <1>1, <2>1, <2>2, WithMap
  <2> QED BY <2>1, <2>3 DEF ObjsKept
<1>3. CASE Creates(t, r)
  <2>1. r.label \in Labels /\ r.status = "OK" /\ NewObject(t, r.label, TRUE, "OK")
        /\ Goto(t, "insert") /\ UNCHANGED <<call, dead>>
    BY <1>3 DEF Creates
  <2>2. "OK" \in ErrorCode
    BY DEF ErrorCode
  <2> QED BY <1>2, <2>1, <2>2
<1>4. CASE Fails(t, r)
  <2>1. r.status \in Status /\ r.status # "OK" /\ NewObject(t, None, FALSE, result_to_error(r.status))
        /\ Idle(t) /\ UNCHANGED dead
    BY <1>4 DEF Fails, Result
  <2>2. result_to_error(r.status) \in {"TIMEOUT", "EXIT_USER", "UNKNOWN"}
    BY <2>1 DEF result_to_error, Status
  <2>3. {"TIMEOUT", "EXIT_USER", "UNKNOWN"} \subseteq ErrorCode
    BY DEF ErrorCode
  <2> HIDE DEF o
  <2> QED BY <1>2, <2>1, <2>2, <2>3 DEF o
<1>5. CASE AsksOn(t, r) \/ CheckDies(t, r)
  <2>1. UNCHANGED <<objs, pc>> /\ call[t].op \notin {"START", "RUN"}
    BY <1>5 DEF AsksOn, CheckDies
  <2>2. /\ \/ UNCHANGED call
           \/ \E op \in {"EVENT_INFO", "START"} : call' = [call EXCEPT ![t].op = op]
        /\ dead' = dead \/ dead' = [op |-> "START", error |-> "NOT_EXISTS"]
    BY <1>5 DEF AsksOn, CheckDies
  <2> QED BY <1>1, <2>1, <2>2 DEF ObjsKept
<1> QED BY <1>3, <1>4, <1>5 DEF Returns

\* What a step of a call that asks does, whether the daemon's answer arrives.
AskKept(t, r) ==
    /\ IsMap(inst', Labels, Instance) /\ InstKept
    /\ DOMAIN inst \subseteq DOMAIN inst' /\ DOMAIN inst' \subseteq DOMAIN inst \cup {call[t].obj}
    /\ DOMAIN inst' # DOMAIN inst => call[t].op \in {"START", "RUN"}
    /\ r.status = "OK" => r.label \in DOMAIN inst' /\ inst'[r.label].watched
LEMMA AsksKeeps ==
    ASSUME Typed, NEW t \in Everyone, Asks(t)
    PROVE  \E r \in Result : Returns(t, r) /\ AskKept(t, r) /\ (r.status = "OK" => r.label \in Labels)
<1>1. pc[t] = "asking"
  BY DEF Asks
<1>2. CASE \E r \in Result : Unlocked /\ Serves(t, r) /\ Returns(t, r)
  <2>1. PICK r \in Result : Serves(t, r) /\ Returns(t, r)
    BY <1>2
  <2>2. AskKept(t, r)
    BY <1>1, <2>1, ServesKeeps DEF AskKept
  <2> QED BY <2>1, <2>2 DEF AskKept, IsMap
<1>3. CASE /\ Returns(t, [status |-> "TIMEOUT", label |-> None])
           /\ UNCHANGED inst \/ \E r \in Result : Serves(t, r)
  <2> DEFINE r == [status |-> "TIMEOUT", label |-> None]
  <2>1. r \in Result /\ r.status # "OK"
    BY DEF Result, Status
  <2>2. CASE UNCHANGED inst
    <3>1. AskKept(t, r)
      BY <2>1, <2>2 DEF AskKept, InstKept, Halted, Runs, Typed, TypeOK
    <3> QED BY <1>3, <2>1, <3>1
  <2>3. CASE \E q \in Result : Serves(t, q)
    <3>1. AskKept(t, r)
      BY <1>1, <2>1, <2>3, ServesKeeps DEF AskKept
    <3> QED BY <1>3, <2>1, <3>1
  <2> QED BY <1>3, <2>2, <2>3
<1> QED BY <1>2, <1>3 DEF Asks

\* A result is filed only of a START that timed out, and its label is disturbed.
AsksFiled ==
    /\ IsMap(mResult', Labels, Status) /\ DOMAIN mResult' \subseteq DOMAIN mResult \cup disturbed'
    /\ disturbed \subseteq disturbed' /\ disturbed' \subseteq Labels
LEMMA AsksFiles ==
    ASSUME Typed, NEW t \in Everyone, Asks(t)
    PROVE  AsksFiled
<1>1. /\ IsMap(mResult, Labels, Status) /\ disturbed \subseteq Labels
      /\ call[t].obj \in Labels
  BY DEF Asks, Typed, TypeOK, Objects, Labels
<1>2. CASE UNCHANGED <<mResult, disturbed>>
  BY <1>1, <1>2 DEF AsksFiled
<1>3. ASSUME NEW r \in Result, FiledLate(t, r) PROVE AsksFiled
  <2>1. r.status \in Status
    BY DEF Result
  <2>2. CASE call[t].op = "START"
    <3>1. /\ mResult' \in {mResult, Insert(mResult, call[t].obj, r.status)}
          /\ disturbed' = disturbed \cup {call[t].obj}
      BY <1>3, <2>2 DEF FiledLate
    <3>2. IsMap(mResult', Labels, Status) /\ DOMAIN mResult' \subseteq DOMAIN mResult \cup {call[t].obj}
      <4> DEFINE f == Insert(mResult, call[t].obj, r.status)
      <4>1. IsMap(f, Labels, Status) /\ DOMAIN f = DOMAIN mResult \cup {call[t].obj}
        <5>1. ASSUME NEW k \in Labels, NEW v \in Status
              PROVE  /\ IsMap(Insert(mResult, k, v), Labels, Status)
                     /\ DOMAIN Insert(mResult, k, v) = DOMAIN mResult \cup {k}
          BY <1>1, InsertMap
        <5> QED BY <1>1, <2>1, <5>1
      <4>2. mResult' = mResult \/ mResult' = f
        BY <3>1
      <4> HIDE DEF f
      <4> QED BY <1>1, <4>1, <4>2
    <3> QED BY <1>1, <3>1, <3>2 DEF AsksFiled
  <2>3. CASE call[t].op # "START"
    BY <1>2, <1>3, <2>3 DEF FiledLate
  <2> QED BY <2>2, <2>3
<1> QED BY <1>2, <1>3 DEF Asks

LEMMA TypeAsks ==
    ASSUME Typed, NEW t \in Everyone, Asks(t)
    PROVE  Typed'
<1>1. PICK r \in Result : Returns(t, r) /\ AskKept(t, r) /\ (r.status = "OK" => r.label \in Labels)
  BY AsksKeeps
<1>2. /\ pc[t] = "asking" /\ UNCHANGED <<registered, callback, made, stream, told, released, late>>
      /\ IsMap(mResult', Labels, Status) /\ disturbed' \subseteq Labels
  BY AsksFiles DEF Asks, AsksFiled
<1>3. /\ ObjsKept
      /\ DOMAIN objs' \subseteq DOMAIN objs \cup {call[t].obj}
      /\ call[t].obj \in DOMAIN objs' =>
            \/ objs'[call[t].obj].sender /\ objs'[call[t].obj].label = r.label
               /\ r.status = "OK" /\ Goto(t, "insert") /\ UNCHANGED call
            \/ ~objs'[call[t].obj].sender /\ Idle(t)
      /\ call[t].obj \notin DOMAIN objs' =>
            /\ UNCHANGED <<objs, pc>> /\ call[t].op \notin {"START", "RUN"}
            /\ UNCHANGED call \/ \E op \in {"EVENT_INFO", "START"} : call' = [call EXCEPT ![t].op = op]
      /\ dead' = dead \/ dead' = [op |-> "START", error |-> "NOT_EXISTS"]
  BY <1>1, <1>2, ReturnsKeeps
<1>4. DOMAIN inst \subseteq DOMAIN inst' /\ DOMAIN inst' \subseteq DOMAIN inst \cup {call[t].obj}
  BY <1>1 DEF AskKept
<1>5. /\ pc' \in [Everyone -> Position]
      /\ call' \in [Everyone -> Call]
      /\ \A u \in Everyone :
            /\ pc'[u] = "idle" <=> call'[u] = NoCall
            /\ pc'[u] = "asking" => call'[u].op \in Creations /\ call'[u].obj \in Objects \ DOMAIN objs'
            /\ pc'[u] \in {"insert", "prepared", "returned", "erase"} =>
                  call'[u].obj \in DOMAIN objs' /\ objs'[call'[u].obj].sender
      /\ Fresh'
  <2>1. CASE call[t].obj \in DOMAIN objs'
    <3>1. \/ Idle(t)
          \/ /\ UNCHANGED call
             /\ \E where \in {"insert", "prepared", "returned", "erase"} : Goto(t, where)
             /\ call[t].obj \in DOMAIN objs' /\ objs'[call[t].obj].sender
      BY <1>3, <2>1
    <3> QED BY <1>2, <1>3, <1>4, <3>1, TypeGoes
  <2>2. CASE call[t].obj \notin DOMAIN objs'
    <3>1. UNCHANGED <<objs, pc>> /\ DOMAIN inst' = DOMAIN inst
      BY <1>1, <1>3, <2>2 DEF AskKept
    <3>2. /\ call' \in [Everyone -> Call] /\ call'[t].op \in Creations /\ call'[t].obj = call[t].obj
          /\ \A u \in Everyone \ {t} : call'[u] = call[u]
      <4>1. call \in [Everyone -> Call] /\ call[t].op \in Creations
        BY <1>2 DEF Typed, TypeOK
      <4>2. CASE UNCHANGED call
        BY <4>1, <4>2
      <4>3. ASSUME NEW op \in {"EVENT_INFO", "START"}, call' = [call EXCEPT ![t].op = op]
            PROVE  /\ call' \in [Everyone -> Call] /\ call'[t].op \in Creations
                   /\ call'[t].obj = call[t].obj
                   /\ \A u \in Everyone \ {t} : call'[u] = call[u]
        BY <4>1, <4>3 DEF Call, Creations, Ops
      <4> QED BY <1>3, <2>2, <4>2, <4>3
    <3>3. call'[t] # NoCall /\ pc[t] # "idle"
      BY <1>2, <3>2, NoneAssumption DEF NoCall, Ops
    <3>4. \A u \in Everyone : call'[u].obj = call[u].obj
      BY <3>2
    <3>5. Fresh'
      BY <1>2, <3>1, <3>4 DEF Typed, Fresh
    <3>6. ASSUME NEW u \in Everyone
          PROVE  /\ pc'[u] = "idle" <=> call'[u] = NoCall
                 /\ pc'[u] = "asking" => call'[u].op \in Creations /\ call'[u].obj \in Objects \ DOMAIN objs'
                 /\ pc'[u] \in {"insert", "prepared", "returned", "erase"} =>
                       call'[u].obj \in DOMAIN objs' /\ objs'[call'[u].obj].sender
      BY <1>2, <3>1, <3>2, <3>3 DEF Typed, TypeOK
    <3> QED BY <3>1, <3>2, <3>5, <3>6 DEF Typed, TypeOK
  <2> QED BY <2>1, <2>2
<1>6. dead' \in [op : Ops, error : ErrorCode] \cup {None}
  BY <1>3 DEF Typed, TypeOK, Ops, Creations, ErrorCode
<1>7. /\ IsMap(objs', Objects, Object)
      /\ \A o \in DOMAIN objs' : objs'[o].sender => objs'[o].label # None
  BY <1>1, <1>3, NoneAssumption DEF ObjsKept, Typed, TypeOK
<1>8. IsMap(inst', Labels, Instance)
  BY <1>1 DEF AskKept
<1>9. IsMap(registered', Labels, DOMAIN objs') /\ \A l \in DOMAIN registered' : objs'[registered'[l]].label = l
  BY <1>2, <1>3 DEF ObjsKept, Typed, TypeOK, IsMap
<1> QED BY <1>2, <1>3, <1>5, <1>6, <1>7, <1>8, <1>9 DEF Typed, TypeOK, ObjsKept

LEMMA TypeRegister ==
    ASSUME Typed, NEW t \in Everyone, Register(t)
    PROVE  /\ Typed'
           /\ DOMAIN registered' = DOMAIN registered \cup {objs[call[t].obj].label}
           /\ \A l \in DOMAIN registered : registered'[l] = registered[l]
           /\ objs[call[t].obj].label \notin DOMAIN registered =>
                 registered'[objs[call[t].obj].label] = call[t].obj
<1> DEFINE o == call[t].obj
           l == objs[o].label
<1>1. o \in DOMAIN objs /\ l \in Labels
  BY DEF Register, Typed, TypeOK, IsMap, Object
<1>2. /\ pc[t] = "insert" /\ registered' = Insert(registered, l, o) /\ Idle(t)
      /\ late' = late \/ late' = late \cup {o}
      /\ UNCHANGED <<objs, callback, made, mResult, daemon, told, released, disturbed, dead>>
  BY DEF Register
<1>3. IsMap(registered, Labels, DOMAIN objs) /\ ObjsKept
  BY <1>2 DEF Typed, TypeOK, ObjsKept
<1> HIDE DEF o, l
<1>4. /\ IsMap(registered', Labels, DOMAIN objs)
      /\ DOMAIN registered' = DOMAIN registered \cup {l}
      /\ \A x \in DOMAIN registered : registered'[x] = registered[x]
      /\ l \notin DOMAIN registered => registered'[l] = o
  <2>1. IsMap(registered, Labels, DOMAIN objs)
    BY <1>3
  <2>2. ASSUME NEW k \in Labels, NEW v \in DOMAIN objs
        PROVE  /\ IsMap(Insert(registered, k, v), Labels, DOMAIN objs)
               /\ DOMAIN Insert(registered, k, v) = DOMAIN registered \cup {k}
               /\ \A x \in DOMAIN registered : Insert(registered, k, v)[x] = registered[x]
               /\ k \notin DOMAIN registered => Insert(registered, k, v)[k] = v
    BY <2>1, InsertMap
  <2>3. registered' = Insert(registered, l, o) /\ l \in Labels /\ o \in DOMAIN objs
    BY <1>1, <1>2
  <2> QED BY <2>2, <2>3
<1>5. \A x \in DOMAIN registered' : objs[registered'[x]].label = x
  BY <1>4 DEF Typed, TypeOK, l
<1>6. /\ pc' \in [Everyone -> Position]
      /\ call' \in [Everyone -> Call]
      /\ \A u \in Everyone :
            /\ pc'[u] = "idle" <=> call'[u] = NoCall
            /\ pc'[u] = "asking" => call'[u].op \in Creations /\ call'[u].obj \in Objects \ DOMAIN objs'
            /\ pc'[u] \in {"insert", "prepared", "returned", "erase"} =>
                  call'[u].obj \in DOMAIN objs' /\ objs'[call'[u].obj].sender
      /\ Fresh'
  BY <1>2, <1>3, TypeGoes DEF daemon
<1>7. late' \subseteq DOMAIN objs
  BY <1>1, <1>2 DEF Typed, TypeOK
<1>8. Typed'
  BY <1>2, <1>4, <1>5, <1>6, <1>7 DEF Typed, TypeOK, daemon
<1> QED BY <1>4, <1>8 DEF o, l

\* A method sends its object's command and takes a result, its own unless one
\* was late or its own is.
LEMMA SendsKeeps ==
    ASSUME Typed, NEW t \in Everyone, Sends(t)
    PROVE  LET o == call[t].obj
               l == objs[o].label
           IN
           /\ o \in DOMAIN objs /\ l \in Labels /\ pc[t] = "prepared"
           /\ \E status \in Status : /\ objs' = [objs EXCEPT ![o].mRlt = status]
                                     /\ \A k \in {l} \ (disturbed' \cup DOMAIN mResult) :
                                           objs[o].mCmd = "STOP" /\ status = "OK" => Halted(k)'
           /\ IsMap(inst', Labels, Instance) /\ DOMAIN inst' = DOMAIN inst /\ InstKept
           /\ IsMap(mResult', Labels, Status) /\ DOMAIN mResult' \subseteq DOMAIN mResult \cup disturbed'
           /\ disturbed \subseteq disturbed' /\ disturbed' \subseteq disturbed \cup {l}
<1> DEFINE o == call[t].obj
           l == objs[o].label
           Gets(status) == objs' = [objs EXCEPT ![o].mRlt = status]
           ServesCommand(r) == ServesMethod(objs[o].mCmd, l, r)
<1>1. /\ o \in DOMAIN objs /\ l \in Labels /\ pc[t] = "prepared"
      /\ objs[o].mCmd \in Methods \cup {None}
      /\ IsMap(inst, Labels, Instance) /\ IsMap(mResult, Labels, Status)
      /\ \A x \in DOMAIN mResult : mResult[x] \in Status
  BY DEF Sends, Typed, TypeOK, IsMap, Object
<1>2. \A r : ServesCommand(r) =>
         /\ IsMap(inst', Labels, Instance) /\ DOMAIN inst' = DOMAIN inst /\ InstKept
         /\ \A k \in {l} : objs[o].mCmd = "STOP" /\ r.status = "OK" => Halted(k)'
  <2>1. ASSUME NEW op \in Methods \cup {None}, NEW k, NEW r, ServesMethod(op, k, r)
        PROVE  /\ IsMap(inst', Labels, Instance) /\ DOMAIN inst' = DOMAIN inst /\ InstKept
               /\ op = "STOP" /\ r.status = "OK" => Halted(k)'
    BY <1>1, <2>1, ServesMethodKeeps
  <2> HIDE DEF l, o
  <2> QED BY <1>1, <2>1
<1>3. UNCHANGED inst => IsMap(inst', Labels, Instance) /\ DOMAIN inst' = DOMAIN inst /\ InstKept
  BY <1>1 DEF InstKept, Halted, Runs
<1>4. \A r \in Result : r.status \in Status
  BY DEF Result
<1>5. /\ IsMap(Without(mResult, l), Labels, Status)
      /\ DOMAIN Without(mResult, l) \subseteq DOMAIN mResult
  <2>1. IsMap(mResult, Labels, Status)
    BY <1>1
  <2>2. ASSUME NEW k
        PROVE  /\ IsMap(Without(mResult, k), Labels, Status)
               /\ DOMAIN Without(mResult, k) = DOMAIN mResult \ {k}
    BY <2>1, WithoutMap
  <2> HIDE DEF l
  <2> QED BY <2>2
<1>6. \A status \in Status :
         /\ IsMap(With(mResult, l, status), Labels, Status)
         /\ DOMAIN With(mResult, l, status) = DOMAIN mResult \cup {l}
         /\ IsMap(Insert(mResult, l, status), Labels, Status)
         /\ DOMAIN Insert(mResult, l, status) = DOMAIN mResult \cup {l}
  <2> SUFFICES ASSUME NEW status \in Status
               PROVE  /\ IsMap(With(mResult, l, status), Labels, Status)
                      /\ DOMAIN With(mResult, l, status) = DOMAIN mResult \cup {l}
                      /\ IsMap(Insert(mResult, l, status), Labels, Status)
                      /\ DOMAIN Insert(mResult, l, status) = DOMAIN mResult \cup {l}
    OBVIOUS
  <2>0. IsMap(mResult, Labels, Status)
    BY <1>1
  <2>1. ASSUME NEW k \in Labels
        PROVE  /\ IsMap(With(mResult, k, status), Labels, Status)
               /\ DOMAIN With(mResult, k, status) = DOMAIN mResult \cup {k}
    BY <2>0 DEF IsMap, With
  <2>2. ASSUME NEW k \in Labels
        PROVE  /\ IsMap(Insert(mResult, k, status), Labels, Status)
               /\ DOMAIN Insert(mResult, k, status) = DOMAIN mResult \cup {k}
    BY <2>0 DEF IsMap, With, Insert
  <2> QED BY <1>1, <2>1, <2>2
<1>7. \/ /\ \E r \in Result : ServesCommand(r) /\ Gets(r.status)
         /\ UNCHANGED <<mResult, disturbed>>
      \/ /\ Gets("TIMEOUT")
         /\ disturbed' = disturbed \cup {l}
         /\ \/ UNCHANGED <<inst, mResult>>
            \/ \E r \in Result : /\ ServesCommand(r)
                                 /\ mResult' \in {mResult, Insert(mResult, l, r.status)}
      \/ /\ l \in DOMAIN mResult
         /\ Gets(mResult[l])
         /\ \/ mResult' = Without(mResult, l) /\ UNCHANGED inst
            \/ \E r \in Result : /\ ServesCommand(r)
                                 /\ mResult' \in {Without(mResult, l), With(mResult, l, r.status)}
         /\ UNCHANGED disturbed
  BY DEF Sends
<1>8. CASE /\ \E r \in Result : ServesCommand(r) /\ Gets(r.status)
           /\ UNCHANGED <<mResult, disturbed>>
  <2> HIDE DEF l, o, ServesCommand
  <2> QED BY <1>1, <1>2, <1>4, <1>8 DEF l, o
<1>9. CASE /\ Gets("TIMEOUT")
           /\ disturbed' = disturbed \cup {l}
           /\ \/ UNCHANGED <<inst, mResult>>
              \/ \E r \in Result : /\ ServesCommand(r)
                                   /\ mResult' \in {mResult, Insert(mResult, l, r.status)}
  <2>1. "TIMEOUT" \in Status
    BY DEF Status
  <2> HIDE DEF l, o, ServesCommand
  <2> QED BY <1>1, <1>2, <1>3, <1>4, <1>6, <1>9, <2>1 DEF l, o
<1>10. CASE /\ l \in DOMAIN mResult
            /\ Gets(mResult[l])
            /\ \/ mResult' = Without(mResult, l) /\ UNCHANGED inst
               \/ \E r \in Result : /\ ServesCommand(r)
                                    /\ mResult' \in {Without(mResult, l), With(mResult, l, r.status)}
            /\ UNCHANGED disturbed
  <2> HIDE DEF l, o, ServesCommand
  <2>1. /\ IsMap(inst', Labels, Instance) /\ DOMAIN inst' = DOMAIN inst /\ InstKept
        /\ IsMap(mResult', Labels, Status) /\ DOMAIN mResult' \subseteq DOMAIN mResult
    BY <1>1, <1>2, <1>3, <1>4, <1>5, <1>6, <1>10
  <2> QED BY <1>1, <1>10, <2>1 DEF l, o
<1> QED BY <1>7, <1>8, <1>9, <1>10

LEMMA TypeSends ==
    ASSUME Typed, NEW t \in Everyone, Sends(t)
    PROVE  Typed' /\ ObjsKept
<1> DEFINE o == call[t].obj
           l == objs[o].label
<1>1. /\ o \in DOMAIN objs /\ l \in Labels /\ pc[t] = "prepared"
      /\ IsMap(inst', Labels, Instance) /\ DOMAIN inst' = DOMAIN inst
      /\ IsMap(mResult', Labels, Status)
      /\ disturbed' \subseteq disturbed \cup {l}
  BY SendsKeeps
<1>2. PICK status \in Status : objs' = [objs EXCEPT ![o].mRlt = status]
  BY SendsKeeps
<1>3. ObjsKept /\ DOMAIN objs' = DOMAIN objs
  BY <1>1, <1>2, RltWritten DEF Typed, OthersKept
<1>4. /\ Goto(t, "returned")
      /\ UNCHANGED <<registered, callback, call, made, stream, told, released, late, dead>>
  BY DEF Sends
<1>5. objs[o].sender /\ objs'[o].sender
  BY <1>1, <1>3 DEF Typed, TypeOK, ObjsKept
<1>6. /\ pc' \in [Everyone -> Position]
      /\ call' \in [Everyone -> Call]
      /\ \A u \in Everyone :
            /\ pc'[u] = "idle" <=> call'[u] = NoCall
            /\ pc'[u] = "asking" => call'[u].op \in Creations /\ call'[u].obj \in Objects \ DOMAIN objs'
            /\ pc'[u] \in {"insert", "prepared", "returned", "erase"} =>
                  call'[u].obj \in DOMAIN objs' /\ objs'[call'[u].obj].sender
      /\ Fresh'
  BY <1>1, <1>3, <1>4, <1>5, TypeGoes
<1>7. disturbed' \subseteq Labels
  BY <1>1 DEF Typed, TypeOK
<1>8. IsMap(registered', Labels, DOMAIN objs') /\ \A x \in DOMAIN registered' : objs'[registered'[x]].label = x
  BY <1>3, <1>4 DEF ObjsKept, Typed, TypeOK, IsMap
<1>9. \A x \in DOMAIN objs' : objs'[x].sender => objs'[x].label # None
  BY <1>3 DEF ObjsKept, Typed, TypeOK
<1> QED BY <1>1, <1>3, <1>4, <1>6, <1>7, <1>8, <1>9 DEF Typed, TypeOK, ObjsKept

\* The codes setError writes
LEMMA ErrorType ==
    /\ \A s \in Status : result_to_error(s) \in {"OK", "TIMEOUT", "EXIT_USER", "UNKNOWN"}
    /\ \A s : response_to_error(s) \in Ended
    /\ Ended \subseteq ErrorCode
BY DEF Status, ErrorCode, Ended, result_to_error, response_to_error

LEMMA TypeSetError ==
    ASSUME Typed, NEW t \in Everyone, SetError(t)
    PROVE  /\ Typed' /\ ObjsKept
           /\ OthersKept(call[t].obj)
           /\ objs'[call[t].obj] = [objs[call[t].obj] EXCEPT !.mError = result_to_error(objs[call[t].obj].mRlt)]
<1> DEFINE o == call[t].obj
<1>1. /\ o \in DOMAIN objs /\ objs[o].sender /\ objs[o].mRlt \in Status /\ pc[t] = "returned"
  BY DEF SetError, Typed, TypeOK, IsMap, Object
<1>2. /\ objs' = [objs EXCEPT ![o].mError = result_to_error(objs[o].mRlt)]
      /\ UNCHANGED <<registered, callback, made, mResult, daemon, history, dead>>
      /\ \/ Idle(t)
         \/ UNCHANGED call /\ Goto(t, "erase")
  BY DEF SetError
<1>3. result_to_error(objs[o].mRlt) \in ErrorCode
  BY <1>1, ErrorType DEF Ended, ErrorCode
<1>4. ObjsKept /\ OthersKept(o)
      /\ objs'[o] = [objs[o] EXCEPT !.mError = result_to_error(objs[o].mRlt)]
  BY <1>1, <1>2, <1>3, ErrorWritten DEF Typed
<1>5. /\ pc' \in [Everyone -> Position]
      /\ call' \in [Everyone -> Call]
      /\ \A u \in Everyone :
            /\ pc'[u] = "idle" <=> call'[u] = NoCall
            /\ pc'[u] = "asking" => call'[u].op \in Creations /\ call'[u].obj \in Objects \ DOMAIN objs'
            /\ pc'[u] \in {"insert", "prepared", "returned", "erase"} =>
                  call'[u].obj \in DOMAIN objs' /\ objs'[call'[u].obj].sender
      /\ Fresh'
  <2>1. objs'[o].sender /\ o \in DOMAIN objs' /\ DOMAIN objs' = DOMAIN objs
    BY <1>1, <1>4 DEF ObjsKept, OthersKept
  <2> QED BY <1>1, <1>2, <1>4, <2>1, TypeGoes DEF daemon
<1>6. IsMap(registered', Labels, DOMAIN objs') /\ \A x \in DOMAIN registered' : objs'[registered'[x]].label = x
  BY <1>2, <1>4 DEF ObjsKept, OthersKept, Typed, TypeOK, IsMap
<1>7. \A x \in DOMAIN objs' : objs'[x].sender => objs'[x].label # None
  BY <1>4 DEF ObjsKept, OthersKept, Typed, TypeOK
<1> QED BY <1>2, <1>4, <1>5, <1>6, <1>7 DEF Typed, TypeOK, ObjsKept, OthersKept, daemon, history

LEMMA TypeUnregister ==
    ASSUME Typed, NEW t \in Everyone, Unregister(t)
    PROVE  /\ Typed'
           /\ DOMAIN registered' = DOMAIN registered \ {objs[call[t].obj].label}
           /\ \A l \in DOMAIN registered' : registered'[l] = registered[l]
<1> DEFINE l == objs[call[t].obj].label
<1>1. pc[t] = "erase" /\ registered' = Without(registered, l) /\ Idle(t)
      /\ UNCHANGED <<objs, callback, made, mResult, daemon, history, dead>>
  BY DEF Unregister
<1>2. IsMap(registered, Labels, DOMAIN objs) /\ ObjsKept
  BY <1>1 DEF Typed, TypeOK, ObjsKept
<1>3. /\ IsMap(registered', Labels, DOMAIN objs) /\ DOMAIN registered' = DOMAIN registered \ {l}
      /\ \A x \in DOMAIN registered' : registered'[x] = registered[x]
  <2>1. ASSUME NEW k, registered' = Without(registered, k)
        PROVE  /\ IsMap(registered', Labels, DOMAIN objs) /\ DOMAIN registered' = DOMAIN registered \ {k}
               /\ \A x \in DOMAIN registered' : registered'[x] = registered[x]
    BY <1>2, <2>1 DEF IsMap, Without
  <2> HIDE DEF l
  <2> QED BY <1>1, <2>1
<1>4. \A x \in DOMAIN registered' : objs[registered'[x]].label = x
  BY <1>3 DEF Typed, TypeOK
<1>5. /\ pc' \in [Everyone -> Position]
      /\ call' \in [Everyone -> Call]
      /\ \A u \in Everyone :
            /\ pc'[u] = "idle" <=> call'[u] = NoCall
            /\ pc'[u] = "asking" => call'[u].op \in Creations /\ call'[u].obj \in Objects \ DOMAIN objs'
            /\ pc'[u] \in {"insert", "prepared", "returned", "erase"} =>
                  call'[u].obj \in DOMAIN objs' /\ objs'[call'[u].obj].sender
      /\ Fresh'
  BY <1>1, <1>2, TypeGoes DEF daemon
<1> QED BY <1>1, <1>3, <1>4, <1>5 DEF Typed, TypeOK, daemon, history

\* Steps of the receive thread and the daemon leave the threads' calls alone.
LEMMA TypeApart ==
    ASSUME Typed, UNCHANGED threads, ObjsKept, DOMAIN objs' = DOMAIN objs,
           DOMAIN inst' \subseteq DOMAIN inst \cup OtherLabels
    PROVE  /\ \A u \in Everyone :
                 /\ pc'[u] = "idle" <=> call'[u] = NoCall
                 /\ pc'[u] = "asking" => call'[u].op \in Creations /\ call'[u].obj \in Objects \ DOMAIN objs'
                 /\ pc'[u] \in {"insert", "prepared", "returned", "erase"} =>
                       call'[u].obj \in DOMAIN objs' /\ objs'[call'[u].obj].sender
           /\ Fresh'
<1>1. pc' = pc /\ call' = call /\ made' = made
  BY DEF threads
<1>2. ASSUME NEW u \in Everyone
      PROVE  /\ pc'[u] = "idle" <=> call'[u] = NoCall
             /\ pc'[u] = "asking" => call'[u].op \in Creations /\ call'[u].obj \in Objects \ DOMAIN objs'
             /\ pc'[u] \in {"insert", "prepared", "returned", "erase"} =>
                   call'[u].obj \in DOMAIN objs' /\ objs'[call'[u].obj].sender
  BY <1>1 DEF Typed, TypeOK, ObjsKept
<1>3. Fresh'
  <2>1. Calls \cap OtherLabels = {}
    BY LabelsAssumption DEF Calls
  <2>2. DOMAIN inst' \cap Calls \subseteq 1..made'
    BY <1>1, <2>1 DEF Typed, Fresh
  <2>3. \A u \in Everyone : pc'[u] = "asking" => call'[u].obj \notin DOMAIN inst'
    BY <1>1, <2>1 DEF Typed, TypeOK, Fresh, Objects
  <2> QED BY <1>1, <2>2, <2>3 DEF Typed, Fresh
<1> QED BY <1>2, <1>3

LEMMA TypeReceives ==
    ASSUME Typed, Receive
    PROVE  /\ Typed' /\ ObjsKept
           /\ stream # << >> /\ stream' = Tail(stream) /\ stream' \in Seq(Response)
<1>1. stream \in Seq(Response) /\ stream # << >> /\ stream' = Tail(stream)
  BY DEF Receive, ReceiveUnheard, ReceiveResponse, Receives, Typed, TypeOK
<1>2. stream' \in Seq(Response) /\ Head(stream) \in Response
  BY <1>1
<1>3. CASE ReceiveUnheard
  <2>1. UNCHANGED <<library, threads, mResult, inst, history, dead>>
    BY <1>3 DEF ReceiveUnheard
  <2>2. ObjsKept /\ UNCHANGED threads
    BY <2>1 DEF ObjsKept, Typed, TypeOK, library
  <2>3. Fresh'
    BY <2>1, <2>2, TypeApart DEF library
  <2> QED BY <1>1, <1>2, <2>1, <2>2, <2>3 DEF Typed, TypeOK, library, threads, history
<1>4. CASE ReceiveResponse
  <2> DEFINE l == Head(stream).label
             o == registered[l]
             e == response_to_error(Head(stream).status)
  <2>1. /\ l \in DOMAIN registered
        /\ objs' = [objs EXCEPT ![o].mError = e]
        /\ registered' = Without(registered, l)
        /\ callback' = o
        /\ told' = told \cup {o}
        /\ UNCHANGED <<threads, mResult, inst, released, late, disturbed, dead>>
    BY <1>4 DEF ReceiveResponse
  <2>2. o \in DOMAIN objs /\ e \in ErrorCode
    BY <2>1, ErrorType DEF Typed, TypeOK, IsMap
  <2>3. IsMap(registered', Labels, DOMAIN objs) /\ \A x \in DOMAIN registered' : registered'[x] = registered[x] /\ x \in DOMAIN registered
    <3>1. ASSUME NEW k, registered' = Without(registered, k)
          PROVE  /\ IsMap(registered', Labels, DOMAIN objs)
                 /\ \A x \in DOMAIN registered' : registered'[x] = registered[x] /\ x \in DOMAIN registered
      BY <3>1 DEF IsMap, Without, Typed, TypeOK
    <3> HIDE DEF l
    <3> QED BY <2>1, <3>1
  <2> HIDE DEF o, l, e
  <2>4. ObjsKept /\ OthersKept(o)
    BY <2>1, <2>2, ErrorWritten DEF Typed
  <2>5. /\ \A u \in Everyone :
             /\ pc'[u] = "idle" <=> call'[u] = NoCall
             /\ pc'[u] = "asking" => call'[u].op \in Creations /\ call'[u].obj \in Objects \ DOMAIN objs'
             /\ pc'[u] \in {"insert", "prepared", "returned", "erase"} =>
                   call'[u].obj \in DOMAIN objs' /\ objs'[call'[u].obj].sender
        /\ Fresh'
    BY <2>1, <2>4, TypeApart DEF OthersKept
  <2>6. \A x \in DOMAIN registered' : objs'[registered'[x]].label = x
    BY <2>3, <2>4 DEF ObjsKept, Typed, TypeOK, IsMap
  <2>7. \A x \in DOMAIN objs' : objs'[x].sender => objs'[x].label # None
    BY <2>4 DEF ObjsKept, OthersKept, Typed, TypeOK
  <2>8. /\ told' \subseteq DOMAIN objs' /\ callback' \in DOMAIN objs' /\ DOMAIN objs' = DOMAIN objs
    BY <2>1, <2>2, <2>4 DEF ObjsKept, OthersKept, Typed, TypeOK
  <2>9. Typed'
    BY <1>2, <2>1, <2>3, <2>4, <2>5, <2>6, <2>7, <2>8 DEF Typed, TypeOK, ObjsKept, threads
  <2> QED BY <1>1, <1>2, <2>4, <2>9
<1> QED BY <1>1, <1>2, <1>3, <1>4 DEF Receive

LEMMA TypeDaemon ==
    ASSUME Typed, Daemon
    PROVE  Typed' /\ InstKept
<1>1. UNCHANGED <<library, threads, mResult, history, dead>>
  BY DEF Daemon, Ends, OthersStart
<1>2. IsMap(inst, Labels, Instance) /\ stream \in Seq(Response) /\ ObjsKept
  BY <1>1 DEF Typed, TypeOK, ObjsKept, library
<1>3. /\ IsMap(inst', Labels, Instance) /\ InstKept /\ stream' \in Seq(Response)
      /\ DOMAIN inst \subseteq DOMAIN inst'
      /\ DOMAIN inst' \subseteq DOMAIN inst \cup OtherLabels
  <2>1. ASSUME NEW l \in DOMAIN inst, Ends(l)
        PROVE  /\ IsMap(inst', Labels, Instance) /\ InstKept /\ stream' \in Seq(Response)
               /\ DOMAIN inst' = DOMAIN inst
    <3>1. inst[l] \in Instance /\ l \in Labels /\ inst' = [inst EXCEPT ![l].state = "ended"]
      BY <1>2, <2>1 DEF Ends, IsMap
    <3>2. IsMap(inst', Labels, Instance) /\ DOMAIN inst' = DOMAIN inst
      BY <1>2, <3>1 DEF IsMap, Instance
    <3>3. InstKept
      BY <1>2, <3>1 DEF InstKept, Halted, Runs, IsMap, Instance
    <3>4. \A status \in {"EXIT", "USER"} : [label |-> l, status |-> status] \in Response
      BY <3>1 DEF Response
    <3>5. \/ UNCHANGED stream
          \/ \E status \in {"EXIT", "USER"} : stream' = Append(stream, [label |-> l, status |-> status])
      BY <2>1 DEF Ends
    <3>6. stream' \in Seq(Response)
      BY <1>2, <3>4, <3>5
    <3> QED BY <2>1, <3>2, <3>3, <3>6 DEF Ends
  <2>3. ASSUME NEW n \in Names, NEW l \in OtherLabels, NEW kind \in {"service", "event"},
               OthersStart(n, l, kind)
        PROVE  /\ IsMap(inst', Labels, Instance) /\ InstKept /\ stream' = stream
               /\ DOMAIN inst' = DOMAIN inst \cup {l}
    <3> DEFINE new == Started(n, kind, FALSE)
    <3>1. new \in Instance /\ l \in Labels /\ l \notin DOMAIN inst /\ inst' = With(inst, l, new)
          /\ stream' = stream
      BY <2>3 DEF OthersStart, Started, Instance, Labels
    <3> HIDE DEF new
    <3>2. /\ IsMap(inst', Labels, Instance) /\ DOMAIN inst' = DOMAIN inst \cup {l}
          /\ \A x \in DOMAIN inst : inst'[x] = inst[x]
      BY <1>2, <3>1 DEF IsMap, With
    <3>3. InstKept
      BY <3>2 DEF InstKept, Halted, Runs
    <3> QED BY <3>1, <3>2, <3>3
  <2>5. CASE \E l \in DOMAIN inst : Ends(l)
    <3>1. PICK l \in DOMAIN inst : Ends(l)
      BY <2>5
    <3>2. /\ IsMap(inst', Labels, Instance) /\ InstKept /\ stream' \in Seq(Response)
          /\ DOMAIN inst' = DOMAIN inst
      BY <2>1, <3>1
    <3> QED BY <3>2
  <2>7. CASE \E n \in Names, l \in OtherLabels, kind \in {"service", "event"} : OthersStart(n, l, kind)
    <3>1. PICK n \in Names, l \in OtherLabels, kind \in {"service", "event"} :
             OthersStart(n, l, kind)
      BY <2>7
    <3>2. /\ IsMap(inst', Labels, Instance) /\ InstKept /\ stream' = stream
          /\ DOMAIN inst' = DOMAIN inst \cup {l}
      BY <2>3, <3>1
    <3> QED BY <1>2, <3>1, <3>2
  <2> QED BY <2>5, <2>7 DEF Daemon
<1>4. Fresh'
  BY <1>1, <1>2, <1>3, TypeApart DEF library
<1> QED BY <1>1, <1>3, <1>4 DEF Typed, TypeOK, library, threads, history

LEMMA TypeInit == Init => Typed
<1> SUFFICES ASSUME Init PROVE Typed
  OBVIOUS
<1>1. NoCall \in Call /\ NoCall.obj = None
  BY DEF NoCall, Call
<1>2. DOMAIN << >> = {} /\ \A S : << >> \in [{} -> S]
  OBVIOUS
<1>3. << >> \in Seq(Response)
  OBVIOUS
<1>4. \A K, V : IsMap(<< >>, K, V)
  BY <1>2 DEF IsMap
<1>5. TypeOK
  BY <1>1, <1>2, <1>3, <1>4, CallNumAssumption DEF Init, TypeOK, Position
<1>6. Fresh
  BY <1>1, <1>2 DEF Init, Fresh
<1> QED BY <1>5, <1>6 DEF Typed

LEMMA TypeDies ==
    ASSUME Typed, NEW t \in Everyone, NEW o, NEW op \in Methods, MethodDies(t, o, op)
    PROVE  Typed'
<1>1. /\ dead' = [op |-> op, error |-> objs[o].mError] /\ objs[o].mError \in ErrorCode
      /\ UNCHANGED <<library, threads, mResult, daemon, history>>
  BY DEF MethodDies, Usable, Typed, TypeOK, IsMap, Object
<1>2. dead' \in [op : Ops, error : ErrorCode]
  BY <1>1 DEF Ops
<1> QED BY <1>1, <1>2 DEF Typed, TypeOK, Fresh, library, threads, daemon, history

LEMMA TypeStep == Typed /\ [Next]_vars => Typed'
<1> SUFFICES ASSUME Typed, [Next]_vars PROVE Typed'
  OBVIOUS
<1>1. ASSUME NEW t \in Everyone, Begin(t) PROVE Typed'
  BY <1>1, TypeCreations, TypeMethod, TypeDies DEF Begin
<1>2. ASSUME NEW t \in Everyone, Continue(t) PROVE Typed'
  BY <1>2, TypeAsks, TypeRegister, TypeSends, TypeSetError, TypeUnregister DEF Continue
<1>3. CASE Receive
  BY <1>3, TypeReceives
<1>4. CASE CallbackReturns
  BY <1>4 DEF CallbackReturns, Typed, TypeOK, Fresh, threads, daemon, history
<1>5. CASE Daemon
  BY <1>5, TypeDaemon
<1>6. CASE UNCHANGED vars
  BY <1>6 DEF vars, Typed, TypeOK, Fresh, library, threads, daemon, history
<1> QED BY <1>1, <1>2, <1>3, <1>4, <1>5, <1>6 DEF Next

\* Whatever the application's threads call, an object has a label if it has a
\* sender, the maps lead to objects of the label they are asked for, and a call
\* has the object its next step reads.
THEOREM TypeCorrect == Spec => []TypeOK
<1>1. Spec => []Typed
  BY TypeInit, TypeStep, PTL DEF Spec
<1>2. Typed => TypeOK
  BY DEF Typed
<1> QED BY <1>1, <1>2, PTL

-----------------------------------------------------------------------------
(* The death of the application *)

\* A position and its call: a method that takes its object out of the maps is
\* of an object the application has stopped or closed.
Placed(t) ==
    /\ pc[t] \in {"prepared", "returned", "erase"} => call[t].op \in Methods
    /\ pc[t] \in {"asking", "insert"} => call[t].op \in Creations
    /\ pc[t] = "erase" => call[t].op \in {"STOP", "CLOSE"}
    /\ call[t].op \in {"STOP", "CLOSE"} => call[t].obj \in released

\* An object with a sender is one of a service or command that the client
\* watches, and one without has the error its call failed with.
Standing(o) ==
    IF objs[o].sender THEN objs[o].label \in DOMAIN inst /\ inst[objs[o].label].watched
                      ELSE objs[o].mError \in {"TIMEOUT", "EXIT_USER", "UNKNOWN"}

Placement ==
    /\ Typed
    /\ \A t \in Everyone : Placed(t)
    /\ \A o \in DOMAIN objs : Standing(o)
    /\ \A l \in DOMAIN registered : objs[registered[l]].sender

\* What stays as it is when no thread goes on.
LEMMA PlacementApart ==
    ASSUME Placement, UNCHANGED <<pc, call, released>>
    PROVE  \A t \in Everyone : Placed(t)'
BY DEF Placement, Placed

\* What stays as it is when one thread goes on.
LEMMA PlacementGoes ==
    ASSUME Placement, NEW t \in Everyone, released \subseteq released', Placed(t)',
           \A u \in Everyone \ {t} : pc'[u] = pc[u] /\ call'[u] = call[u]
    PROVE  \A u \in Everyone : Placed(u)'
BY DEF Placement, Placed

\* Objects keep their standing while the daemon keeps who watches.
LEMMA StandingKept ==
    ASSUME Placement, ObjsKept, InstKept, NEW o \in DOMAIN objs,
           objs[o].sender \/ objs'[o].mError = objs[o].mError
    PROVE  Standing(o)'
BY DEF Placement, Standing, ObjsKept, InstKept

LEMMA PlacementBegins ==
    ASSUME Placement, NEW t \in Everyone, Begin(t)
    PROVE  Placement'
<1>1. Typed'
  BY TypeStep DEF Placement, Next
<1>2. pc \in [Everyone -> Position] /\ call \in [Everyone -> Call] /\ Typed /\ IsMap(objs, Objects, Object)
  BY DEF Placement, Typed, TypeOK
<1>3. CASE RunCommand(t) \/ \E n \in Names, cmd \in BOOLEAN : CheckService(t, n, cmd)
  <2>1. PICK c : c.op \in {"INFO", "RUN"} /\ Begins(t, c, "asking")
    <3>1. CASE RunCommand(t)
      BY <3>1 DEF RunCommand
    <3>2. ASSUME NEW n \in Names, NEW cmd \in BOOLEAN, CheckService(t, n, cmd)
          PROVE  \E c : c.op \in {"INFO", "RUN"} /\ Begins(t, c, "asking")
      <4>1. Begins(t, [op |-> "INFO", name |-> n, cmd |-> cmd, obj |-> made + 1], "asking")
        BY <3>2 DEF CheckService
      <4> QED BY <4>1
    <3> QED BY <1>3, <3>1, <3>2
  <2>2. UNCHANGED <<library, mResult, daemon, history, dead>>
    BY <1>3 DEF RunCommand, CheckService
  <2>3. Placed(t)' /\ \A u \in Everyone \ {t} : pc'[u] = pc[u] /\ call'[u] = call[u]
    BY <1>2, <2>1 DEF Begins, Goto, Placed, Creations
  <2>4. \A u \in Everyone : Placed(u)'
    BY <2>2, <2>3, PlacementGoes DEF history
  <2> QED BY <1>1, <2>2, <2>4 DEF Placement, Standing, library, daemon
<1>4. ASSUME NEW o \in DOMAIN objs, NEW op \in Methods, Method(t, o, op) PROVE Placement'
  <2>1. ObjsKept /\ OthersKept(o) /\ objs'[o].mError = objs[o].mError
    <3>1. objs' = [objs EXCEPT ![o].mCmd = op]
      BY <1>4 DEF Method, Prepared
    <3>2. objs'[o] = [objs[o] EXCEPT !.mCmd = op] /\ ObjsKept /\ OthersKept(o)
      BY <1>2, <3>1, CmdWritten DEF Typed
    <3>3. objs[o] \in Object
      BY <1>2 DEF IsMap
    <3> QED BY <3>2, <3>3 DEF Object
  <2>2. UNCHANGED <<registered, daemon>>
    BY <1>4 DEF Method
  <2>3. Begins(t, [NoCall EXCEPT !.op = op, !.obj = o], "prepared")
    BY <1>4 DEF Method
  <2>4. released \subseteq released' /\ (op \in {"STOP", "CLOSE"} => o \in released')
    BY <1>4 DEF Method
  <2>5. Placed(t)' /\ \A u \in Everyone \ {t} : pc'[u] = pc[u] /\ call'[u] = call[u]
    BY <1>2, <2>3, <2>4 DEF Begins, Goto, Placed, NoCall
  <2>6. \A u \in Everyone : Placed(u)'
    BY <2>4, <2>5, PlacementGoes
  <2>7. InstKept
    BY <2>2 DEF InstKept, Halted, Runs, daemon
  <2>8. \A p \in DOMAIN objs' : Standing(p)'
    BY <2>1, <2>7, StandingKept DEF OthersKept
  <2>9. \A l \in DOMAIN registered' : objs'[registered'[l]].sender
    BY <2>1, <2>2 DEF Placement, Typed, TypeOK, IsMap, ObjsKept
  <2> QED BY <1>1, <2>6, <2>8, <2>9 DEF Placement
<1>5. ASSUME NEW o \in DOMAIN objs, NEW op \in Methods, MethodDies(t, o, op) PROVE Placement'
  <2>1. UNCHANGED <<library, threads, daemon, history>>
    BY <1>5 DEF MethodDies
  <2> QED BY <1>1, <2>1 DEF Placement, Placed, Standing, library, threads, daemon, history
<1> QED BY <1>3, <1>4, <1>5 DEF Begin

LEMMA PlacementAsks ==
    ASSUME Placement, NEW t \in Everyone, Asks(t)
    PROVE  Placement'
<1>1. Typed' /\ Typed
  BY TypeAsks DEF Placement
<1>2. PICK r \in Result : Returns(t, r) /\ AskKept(t, r) /\ (r.status = "OK" => r.label \in Labels)
  BY <1>1, AsksKeeps
<1>3. /\ pc[t] = "asking" /\ UNCHANGED <<registered, told, released, late>>
      /\ pc \in [Everyone -> Position] /\ call \in [Everyone -> Call] /\ call[t].op \in Creations
  BY <1>1 DEF Asks, Typed, TypeOK
<1>4. /\ ObjsKept
      /\ DOMAIN objs' \subseteq DOMAIN objs \cup {call[t].obj}
      /\ \A p \in DOMAIN objs : objs'[p] = objs[p]
      /\ call[t].obj \in DOMAIN objs' =>
            \/ /\ objs'[call[t].obj].sender /\ objs'[call[t].obj].label = r.label
               /\ r.status = "OK" /\ Goto(t, "insert") /\ UNCHANGED call
            \/ /\ ~objs'[call[t].obj].sender
               /\ objs'[call[t].obj].mError \in {"TIMEOUT", "EXIT_USER", "UNKNOWN"}
               /\ Idle(t)
      /\ call[t].obj \notin DOMAIN objs' =>
            /\ UNCHANGED <<objs, pc>> /\ call[t].op \notin {"START", "RUN"}
            /\ \/ UNCHANGED <<call>>
               \/ \E op \in {"EVENT_INFO", "START"} : call' = [call EXCEPT ![t].op = op]
  BY <1>1, <1>2, <1>3, ReturnsKeeps
<1>5. Placed(t)' /\ \A u \in Everyone \ {t} : pc'[u] = pc[u] /\ call'[u] = call[u]
  <2>1. CASE Goto(t, "insert") /\ UNCHANGED call
    BY <1>3, <2>1 DEF Goto, Placed, Creations
  <2>2. CASE Idle(t)
    BY <1>3, <2>2, NoneAssumption DEF Idle, Goto, Placed, NoCall, Ops, Methods, MethodsOf
  <2>3. CASE UNCHANGED <<pc, call>>
    BY <1>3, <2>3 DEF Placed, Creations
  <2>4. ASSUME NEW op \in {"EVENT_INFO", "START"}, UNCHANGED pc, call' = [call EXCEPT ![t].op = op]
        PROVE  Placed(t)' /\ \A u \in Everyone \ {t} : pc'[u] = pc[u] /\ call'[u] = call[u]
    <3>1. call'[t].op = op
      BY <1>3, <2>4 DEF Call
    <3> QED BY <1>3, <2>4, <3>1 DEF Placed, Creations
  <2> QED BY <1>4, <2>1, <2>2, <2>3, <2>4
<1>6. \A u \in Everyone : Placed(u)'
  BY <1>3, <1>5, PlacementGoes DEF history
<1>7. \A o \in DOMAIN objs' : Standing(o)'
  <2>1. \A o \in DOMAIN objs : Standing(o)'
    BY <1>2, <1>4, StandingKept DEF AskKept
  <2>2. ASSUME NEW o \in DOMAIN objs', o = call[t].obj PROVE Standing(o)'
    BY <1>2, <1>4, <2>2 DEF Standing, AskKept
  <2> QED BY <1>4, <2>1, <2>2
<1>8. \A l \in DOMAIN registered' : objs'[registered'[l]].sender
  BY <1>1, <1>3, <1>4 DEF Placement, Typed, TypeOK, IsMap, ObjsKept
<1> QED BY <1>1, <1>6, <1>7, <1>8 DEF Placement

\* A thread that ends its call, or goes on with it, is where its call may be.
LEMMA PlacedMoves ==
    ASSUME Placement, NEW t \in Everyone,
           \/ Idle(t)
           \/ UNCHANGED call /\ Goto(t, "returned") /\ pc[t] = "prepared"
           \/ /\ UNCHANGED call /\ Goto(t, "erase") /\ pc[t] = "returned"
              /\ call[t].op \in {"STOP", "CLOSE"},
           UNCHANGED released
    PROVE  \A u \in Everyone : Placed(u)'
<1>1. pc \in [Everyone -> Position] /\ call \in [Everyone -> Call]
  BY DEF Placement, Typed, TypeOK
<1>2. \A u \in Everyone \ {t} : pc'[u] = pc[u] /\ call'[u] = call[u]
  BY <1>1 DEF Idle, Goto
<1>3. CASE Idle(t)
  <2>1. Placed(t)'
    BY <1>1, <1>3, NoneAssumption DEF Idle, Goto, Placed, NoCall, Ops, Methods, MethodsOf
  <2> QED BY <1>2, <2>1, PlacementGoes
<1>4. CASE UNCHANGED call /\ Goto(t, "returned") /\ pc[t] = "prepared"
  <2>1. Placed(t)'
    BY <1>1, <1>4 DEF Goto, Placed, Placement
  <2> QED BY <1>2, <2>1, PlacementGoes
<1>5. CASE /\ UNCHANGED call /\ Goto(t, "erase") /\ pc[t] = "returned"
           /\ call[t].op \in {"STOP", "CLOSE"}
  <2>1. Placed(t)'
    BY <1>1, <1>5 DEF Goto, Placed, Placement
  <2> QED BY <1>2, <2>1, PlacementGoes
<1> QED BY <1>3, <1>4, <1>5

LEMMA PlacementContinues ==
    ASSUME Placement, NEW t \in Everyone, Continue(t)
    PROVE  Placement'
<1>1. Typed /\ Typed'
  BY TypeStep DEF Placement, Next
<1>2. UNCHANGED daemon => InstKept
  BY DEF daemon, InstKept, Halted, Runs
<1>3. CASE Asks(t)
  BY <1>3, PlacementAsks
<1>4. CASE Register(t)
  <2>1. Idle(t) /\ UNCHANGED <<objs, daemon, released>> /\ pc[t] = "insert"
    BY <1>4 DEF Register
  <2>2. \A u \in Everyone : Placed(u)'
    BY <2>1, PlacedMoves
  <2>3. /\ DOMAIN registered' = DOMAIN registered \cup {objs[call[t].obj].label}
        /\ \A l \in DOMAIN registered : registered'[l] = registered[l]
        /\ objs[call[t].obj].label \notin DOMAIN registered =>
              registered'[objs[call[t].obj].label] = call[t].obj
    BY <1>1, <1>4, TypeRegister
  <2>4. objs[call[t].obj].sender
    BY <1>1, <2>1 DEF Typed, TypeOK
  <2>5. \A l \in DOMAIN registered' : objs[registered'[l]].sender
    BY <2>3, <2>4 DEF Placement
  <2> QED BY <1>1, <2>1, <2>2, <2>5 DEF Placement, Standing, daemon
<1>5. CASE Sends(t)
  <2>1. Goto(t, "returned") /\ UNCHANGED <<registered, call, released>> /\ pc[t] = "prepared"
    BY <1>5 DEF Sends
  <2>2. \A u \in Everyone : Placed(u)'
    BY <2>1, PlacedMoves
  <2>3. PICK status \in Status : objs' = [objs EXCEPT ![call[t].obj].mRlt = status]
    BY <1>1, <1>5, SendsKeeps
  <2>4. call[t].obj \in DOMAIN objs /\ InstKept
    BY <1>1, <1>5, SendsKeeps
  <2>5. ObjsKept /\ OthersKept(call[t].obj)
        /\ objs'[call[t].obj] = [objs[call[t].obj] EXCEPT !.mRlt = status]
    BY <1>1, <2>3, <2>4, RltWritten DEF Typed
  <2>6. \A p \in DOMAIN objs' : Standing(p)'
    <3>1. objs[call[t].obj].sender
      BY <1>1, <2>1 DEF Typed, TypeOK
    <3> QED BY <2>4, <2>5, <3>1, StandingKept DEF OthersKept
  <2>7. \A l \in DOMAIN registered' : objs'[registered'[l]].sender
    BY <1>1, <2>1, <2>5 DEF Placement, Typed, TypeOK, IsMap, ObjsKept
  <2> QED BY <1>1, <2>2, <2>6, <2>7 DEF Placement
<1>6. CASE SetError(t)
  <2>1. /\ UNCHANGED <<registered, daemon, history>> /\ pc[t] = "returned"
        /\ \/ Idle(t)
           \/ Releases(call[t].op) /\ UNCHANGED call /\ Goto(t, "erase")
    BY <1>6 DEF SetError
  <2>2. \A u \in Everyone : Placed(u)'
    BY <2>1, PlacedMoves DEF Releases, history
  <2>3. ObjsKept /\ OthersKept(call[t].obj)
    BY <1>1, <1>6, TypeSetError
  <2>4. objs[call[t].obj].sender
    BY <1>1, <2>1 DEF Typed, TypeOK
  <2>5. \A p \in DOMAIN objs' : Standing(p)'
    BY <1>2, <2>1, <2>3, <2>4, StandingKept DEF OthersKept
  <2>6. \A l \in DOMAIN registered' : objs'[registered'[l]].sender
    BY <1>1, <2>1, <2>3 DEF Placement, Typed, TypeOK, IsMap, ObjsKept
  <2> QED BY <1>1, <2>2, <2>5, <2>6 DEF Placement
<1>7. CASE Unregister(t)
  <2>1. Idle(t) /\ UNCHANGED <<objs, daemon, history>>
    BY <1>7 DEF Unregister
  <2>2. \A u \in Everyone : Placed(u)'
    BY <2>1, PlacedMoves DEF history
  <2>3. /\ DOMAIN registered' = DOMAIN registered \ {objs[call[t].obj].label}
        /\ \A l \in DOMAIN registered' : registered'[l] = registered[l]
    BY <1>1, <1>7, TypeUnregister
  <2> QED BY <1>1, <2>1, <2>2, <2>3 DEF Placement, Standing, daemon
<1> QED BY <1>3, <1>4, <1>5, <1>6, <1>7 DEF Continue

\* What a response does to the object it is about.
LEMMA ResponseWritten ==
    ASSUME Typed, ReceiveResponse
    PROVE  LET l == Head(stream).label
               o == registered[l]
           IN
           /\ l \in DOMAIN registered /\ o \in DOMAIN objs
           /\ ObjsKept /\ OthersKept(o) /\ objs'[o].mError \in Ended
           /\ objs'[o].mRlt = objs[o].mRlt /\ objs'[o].mCmd = objs[o].mCmd
           /\ DOMAIN registered' = DOMAIN registered \ {l}
           /\ \A x \in DOMAIN registered' : registered'[x] = registered[x]
<1> DEFINE l == Head(stream).label
           o == registered[l]
           e == response_to_error(Head(stream).status)
<1>1. /\ l \in DOMAIN registered
      /\ objs' = [objs EXCEPT ![o].mError = e] /\ registered' = Without(registered, l)
  BY DEF ReceiveResponse
<1>2. o \in DOMAIN objs /\ e \in ErrorCode /\ e \in Ended /\ objs[o] \in Object
  BY <1>1, ErrorType DEF Typed, TypeOK, IsMap
<1> HIDE DEF l, o, e
<1>3. ObjsKept /\ OthersKept(o) /\ objs'[o] = [objs[o] EXCEPT !.mError = e]
  BY <1>1, <1>2, ErrorWritten DEF Typed
<1>4. objs'[o].mError \in Ended /\ objs'[o].mRlt = objs[o].mRlt /\ objs'[o].mCmd = objs[o].mCmd
  BY <1>2, <1>3 DEF Object
<1>5. /\ DOMAIN registered' = DOMAIN registered \ {l}
      /\ \A x \in DOMAIN registered' : registered'[x] = registered[x]
  BY <1>1 DEF Without
<1> QED BY <1>1, <1>2, <1>3, <1>4, <1>5 DEF l, o

LEMMA PlacementStep == Placement /\ [Next]_vars => Placement'
<1> SUFFICES ASSUME Placement, [Next]_vars PROVE Placement'
  OBVIOUS
<1>1. Typed /\ Typed'
  BY TypeStep DEF Placement
<1>2. ASSUME NEW t \in Everyone, Begin(t) PROVE Placement'
  BY <1>2, PlacementBegins
<1>3. ASSUME NEW t \in Everyone, Continue(t) PROVE Placement'
  BY <1>3, PlacementContinues
<1>4. CASE Receive
  <2>1. CASE ReceiveUnheard
    BY <1>1, <2>1 DEF ReceiveUnheard, Placement, Placed, Standing, library, threads, history
  <2>2. CASE ReceiveResponse
    <3>1. UNCHANGED <<threads, inst, released>>
      BY <2>2 DEF ReceiveResponse
    <3>2. \A u \in Everyone : Placed(u)'
      BY <3>1, PlacementApart DEF threads
    <3>3. InstKept
      BY <3>1 DEF InstKept, Halted, Runs
    <3> DEFINE l == Head(stream).label
               o == registered[l]
    <3>4. /\ l \in DOMAIN registered /\ o \in DOMAIN objs /\ ObjsKept /\ OthersKept(o)
          /\ DOMAIN registered' = DOMAIN registered \ {l}
          /\ \A x \in DOMAIN registered' : registered'[x] = registered[x]
      BY <1>1, <2>2, ResponseWritten
    <3>5. objs[o].sender
      BY <3>4 DEF Placement
    <3> HIDE DEF l, o
    <3>6. \A p \in DOMAIN objs' : Standing(p)'
      BY <3>3, <3>4, <3>5, StandingKept DEF OthersKept
    <3>7. \A x \in DOMAIN registered' : objs'[registered'[x]].sender
      <4>1. \A x \in DOMAIN registered : registered[x] \in DOMAIN objs /\ objs[registered[x]].sender
        BY <1>1 DEF Placement, Typed, TypeOK, IsMap
      <4> QED BY <3>4, <4>1 DEF ObjsKept
    <3> QED BY <1>1, <3>2, <3>6, <3>7 DEF Placement
  <2> QED BY <1>4, <2>1, <2>2 DEF Receive
<1>5. CASE CallbackReturns
  BY <1>1, <1>5 DEF CallbackReturns, Placement, Placed, Standing, threads, history, daemon
<1>6. CASE Daemon
  <2>1. UNCHANGED <<library, threads, history>>
    BY <1>6 DEF Daemon, Ends, OthersStart
  <2>2. InstKept
    BY <1>1, <1>6, TypeDaemon
  <2> QED BY <1>1, <2>1, <2>2 DEF Placement, Placed, Standing, InstKept, library, threads, history
<1>7. CASE UNCHANGED vars
  BY <1>1, <1>7 DEF vars, Placement, Placed, Standing, library, threads, history, daemon
<1> QED BY <1>2, <1>3, <1>4, <1>5, <1>6, <1>7 DEF Next

LEMMA PlacementInit == Init => Placement
<1> SUFFICES ASSUME Init PROVE Placement
  OBVIOUS
<1>1. Typed
  BY TypeInit
<1>2. \A t \in Everyone : Placed(t)
  BY NoneAssumption DEF Init, Placed, NoCall, Ops, Methods, MethodsOf
<1> QED BY <1>1, <1>2 DEF Init, Placement

LEMMA PlacementCorrect == Spec => []Placement
BY PlacementInit, PlacementStep, PTL DEF Spec

\* An application dies of the library only when checkService finds no service and
\* has no command to start one, of a method of an object whose call timed out, or
\* of getState of an object whose call was refused.
THEOREM DeathCorrect == Spec => []DiesOnlyOf
<1>1. Init => DiesOnlyOf
  BY DEF Init, DiesOnlyOf
<1>2. ASSUME Placement, DiesOnlyOf, [Next]_vars PROVE DiesOnlyOf'
  <2>1. ASSUME NEW t \in Everyone, NEW o \in DOMAIN objs, NEW op \in Methods, MethodDies(t, o, op)
        PROVE  DiesOnlyOf'
    <3>1. objs[o].mError \in {"TIMEOUT", "EXIT_USER", "UNKNOWN"} \ Refused(op)
          /\ dead' = [op |-> op, error |-> objs[o].mError]
      BY <1>2, <2>1 DEF Placement, Standing, MethodDies, Usable
    <3>2. "EXIT_USER" \in Refused(op) /\ (op # "STATE" => "UNKNOWN" \in Refused(op))
      BY DEF Refused, Ended
    <3> QED BY <2>1, <3>1, <3>2 DEF DiesOnlyOf
  <2>2. ASSUME NEW t \in Everyone, Asks(t)
        PROVE  DiesOnlyOf'
    <3>1. PICK r \in Result : Returns(t, r) /\ (r.status = "OK" => r.label \in Labels)
      BY <1>2, <2>2, AsksKeeps DEF Placement
    <3>2. pc[t] = "asking"
      BY <2>2 DEF Asks
    <3>3. dead' = dead \/ dead' = [op |-> "START", error |-> "NOT_EXISTS"]
      BY <1>2, <3>1, <3>2, ReturnsKeeps DEF Placement
    <3> QED BY <1>2, <3>3 DEF DiesOnlyOf
  <2>3. CASE UNCHANGED dead
    BY <1>2, <2>3 DEF DiesOnlyOf
  <2>4. ASSUME NEW t \in Everyone, Begin(t)
        PROVE  DiesOnlyOf'
    BY <2>1, <2>3, <2>4 DEF Begin, CheckService, RunCommand, Method
  <2>5. ASSUME NEW t \in Everyone, Continue(t)
        PROVE  DiesOnlyOf'
    BY <2>2, <2>3, <2>5 DEF Continue, Register, Sends, SetError, Unregister
  <2>6. CASE Receive \/ CallbackReturns \/ Daemon \/ UNCHANGED vars
    <3>1. UNCHANGED dead
      BY <2>6 DEF Receive, ReceiveUnheard, ReceiveResponse, CallbackReturns, Daemon, Ends,
                  OthersStart, vars
    <3> QED BY <2>3, <3>1
  <2> QED BY <1>2, <2>4, <2>5, <2>6 DEF Next
<1> QED BY <1>1, <1>2, PlacementCorrect, PTL DEF Spec

-----------------------------------------------------------------------------
(* What the application has been told stays *)

\* Only methods and responses write an object's error, and no method begins with
\* an object that has ended.
LEMMA SaysEndedKept ==
    ASSUME Placement, [Next]_vars, NEW o \in DOMAIN objs, SaysEnded(o)
    PROVE  SaysEnded(o)'
<1>1. /\ Typed /\ o \in told /\ objs[o].mError \in Ended
      /\ \A t \in Everyone : call[t].obj = o => call[t].op \notin Methods
      /\ pc \in [Everyone -> Position] /\ call \in [Everyone -> Call]
  BY DEF Placement, SaysEnded, UnderWay, Typed, TypeOK
<1>2. ASSUME o \in told', objs'[o].mError \in Ended,
             \A t \in Everyone : call'[t].obj = o => call'[t].op \notin Methods
      PROVE  SaysEnded(o)'
  BY <1>2 DEF SaysEnded, UnderWay
<1>3. ASSUME NEW t \in Everyone, Begin(t) PROVE SaysEnded(o)'
  <2>1. ASSUME NEW c, Begins(t, c, "asking"), c.op \notin Methods, UNCHANGED <<objs, told>>
        PROVE  SaysEnded(o)'
    BY <1>1, <1>2, <2>1 DEF Begins
  <2>2. CASE RunCommand(t) \/ \E n \in Names, cmd \in BOOLEAN : CheckService(t, n, cmd)
    <3>1. PICK c : c.op \in {"INFO", "RUN"} /\ Begins(t, c, "asking")
      <4>1. CASE RunCommand(t)
        BY <4>1 DEF RunCommand
      <4>2. ASSUME NEW n \in Names, NEW cmd \in BOOLEAN, CheckService(t, n, cmd)
            PROVE  \E c : c.op \in {"INFO", "RUN"} /\ Begins(t, c, "asking")
        <5>1. Begins(t, [op |-> "INFO", name |-> n, cmd |-> cmd, obj |-> made + 1], "asking")
          BY <4>2 DEF CheckService
        <5> QED BY <5>1
      <4> QED BY <2>2, <4>1, <4>2
    <3>2. UNCHANGED <<objs, told>>
      BY <2>2 DEF RunCommand, CheckService, library, history
    <3> QED BY <2>1, <3>1, <3>2 DEF Methods, MethodsOf
  <2>3. ASSUME NEW p \in DOMAIN objs, NEW op \in Methods, Method(t, p, op)
        PROVE  SaysEnded(o)'
    <3>1. p # o
      BY <1>1, <2>3 DEF Method, Usable, Refused, Ended
    <3>2. objs' = [objs EXCEPT ![p].mCmd = op] /\ UNCHANGED told
          /\ Begins(t, [NoCall EXCEPT !.op = op, !.obj = p], "prepared")
      BY <2>3 DEF Method, Prepared
    <3>3. objs'[o] = objs[o]
      BY <1>1, <3>1, <3>2, CmdWritten DEF OthersKept, Typed
    <3>4. \A u \in Everyone : call'[u].obj = o => call'[u].op \notin Methods
      BY <1>1, <3>1, <3>2 DEF Begins, NoCall
    <3> QED BY <1>1, <1>2, <3>2, <3>3, <3>4
  <2>4. ASSUME NEW p \in DOMAIN objs, NEW op \in Methods, MethodDies(t, p, op)
        PROVE  SaysEnded(o)'
    BY <1>1, <1>2, <2>4 DEF MethodDies, library, threads, history
  <2> QED BY <1>3, <2>2, <2>3, <2>4 DEF Begin
<1>4. ASSUME NEW t \in Everyone, Continue(t) PROVE SaysEnded(o)'
  <2>1. CASE Asks(t)
    <3>1. PICK r \in Result : Returns(t, r) /\ (r.status = "OK" => r.label \in Labels)
      BY <1>1, <2>1, AsksKeeps
    <3>2. pc[t] = "asking" /\ UNCHANGED told /\ call[t].obj \notin DOMAIN objs
      BY <1>1, <2>1 DEF Asks, Typed, TypeOK
    <3>3. objs'[o] = objs[o]
      BY <1>1, <3>1, <3>2, ReturnsKeeps
    <3>4. call'[t].obj # o /\ \A u \in Everyone \ {t} : call'[u] = call[u]
      <4>1. None # o
        BY <1>1, NoneAssumption DEF Typed, TypeOK, IsMap, Labels, Objects
      <4>2. CASE UNCHANGED call
        BY <3>2, <4>2
      <4>3. CASE Idle(t)
        BY <1>1, <4>1, <4>3 DEF Idle, NoCall
      <4>4. CASE \E op \in {"EVENT_INFO", "START"} : call' = [call EXCEPT ![t].op = op]
        BY <1>1, <3>2, <4>4 DEF Call
      <4> QED BY <1>1, <3>1, <3>2, <4>2, <4>3, <4>4, ReturnsKeeps
    <3> QED BY <1>1, <1>2, <3>2, <3>3, <3>4
  <2>2. \A c : c = NoCall => c.op \notin Methods
    BY NoneAssumption DEF NoCall, Ops
  <2>3. UNCHANGED call \/ Idle(t) => \A u \in Everyone : call'[u].obj = o => call'[u].op \notin Methods
    BY <1>1, <2>2 DEF Idle
  <2>4. CASE Register(t)
    BY <1>1, <1>2, <2>3, <2>4 DEF Register
  <2>5. CASE Sends(t)
    <3>1. pc[t] = "prepared" /\ UNCHANGED <<call, told>>
      BY <2>5 DEF Sends
    <3>2. call[t].obj # o
      BY <1>1, <3>1 DEF Placement, Placed
    <3>3. objs'[o] = objs[o]
      <4>1. PICK status \in Status : objs' = [objs EXCEPT ![call[t].obj].mRlt = status]
        BY <1>1, <2>5, SendsKeeps
      <4>2. call[t].obj \in DOMAIN objs
        BY <1>1, <2>5, SendsKeeps
      <4> QED BY <1>1, <3>2, <4>1, <4>2, RltWritten DEF OthersKept, Typed
    <3> QED BY <1>1, <1>2, <2>3, <3>1, <3>3
  <2>6. CASE SetError(t)
    <3>1. pc[t] = "returned" /\ UNCHANGED told
      BY <2>6 DEF SetError, history
    <3>2. call[t].obj # o
      BY <1>1, <3>1 DEF Placement, Placed
    <3>3. objs'[o] = objs[o]
      BY <1>1, <2>6, <3>2, TypeSetError DEF OthersKept
    <3>4. UNCHANGED call \/ Idle(t)
      BY <2>6 DEF SetError
    <3> QED BY <1>1, <1>2, <2>3, <3>1, <3>3, <3>4
  <2>7. CASE Unregister(t)
    BY <1>1, <1>2, <2>3, <2>7 DEF Unregister, history
  <2> QED BY <1>4, <2>1, <2>4, <2>5, <2>6, <2>7 DEF Continue
<1>5. CASE Receive
  <2>1. CASE ReceiveUnheard
    BY <1>1, <1>2, <2>1 DEF ReceiveUnheard, library, threads, history
  <2>2. CASE ReceiveResponse
    <3>1. told \subseteq told' /\ UNCHANGED threads
      BY <2>2 DEF ReceiveResponse
    <3>2. objs'[o].mError \in Ended
      BY <1>1, <2>2, ResponseWritten DEF OthersKept
    <3> QED BY <1>1, <1>2, <3>1, <3>2 DEF threads
  <2> QED BY <1>5, <2>1, <2>2 DEF Receive
<1>6. CASE CallbackReturns \/ Daemon \/ UNCHANGED vars
  <2>1. UNCHANGED <<objs, call, told>>
    BY <1>6 DEF CallbackReturns, Daemon, Ends, OthersStart, vars, library, threads, history
  <2> QED BY <1>1, <1>2, <2>1
<1> QED BY <1>3, <1>4, <1>5, <1>6 DEF Next

\* Once the application has been told that an object has ended, and no method of
\* it is under way, the object says so for good: no method and no later response
\* brings it back.
THEOREM EndedCorrect == Spec => EndedStays
<1>1. Placement /\ [Next]_vars => [\A o \in DOMAIN objs : SaysEnded(o) => SaysEnded(o)']_vars
  BY SaysEndedKept
<1> QED BY <1>1, PlacementCorrect, PTL DEF Spec, EndedStays

-----------------------------------------------------------------------------
(* What stop() has done when it succeeds *)

InMethod(t) == pc[t] \in {"prepared", "returned", "erase"}
LabelOf(t) == objs[call[t].obj].label

\* Two methods of one label, of one object or of twins, disturb it.
Alone ==
    \A t, u \in Everyone :
        t # u /\ InMethod(t) /\ InMethod(u) /\ LabelOf(t) = LabelOf(u) => LabelOf(t) \in disturbed

\* A stop that nothing disturbs sends what it has written, and takes its own result.
StopSent(t) ==
    call[t].op = "STOP" /\ LabelOf(t) \notin disturbed =>
        /\ pc[t] = "prepared" => objs[call[t].obj].mCmd = "STOP"
        /\ pc[t] \in {"returned", "erase"} /\ objs[call[t].obj].mRlt = "OK" => Halted(LabelOf(t))

Stopping ==
    /\ Placement
    /\ Alone
    /\ DOMAIN mResult \subseteq disturbed
    /\ \A t \in Everyone : StopSent(t)

\* What is known of the object of a method under way.
LEMMA MethodObject ==
    ASSUME Placement, NEW t \in Everyone, InMethod(t)
    PROVE  /\ call[t].obj \in DOMAIN objs /\ objs[call[t].obj].sender
           /\ LabelOf(t) \in DOMAIN inst /\ LabelOf(t) \in Labels
           /\ call[t].op \in Methods /\ t \in UnderWay(call[t].obj)
BY DEF Placement, Placed, Standing, InMethod, LabelOf, UnderWay, Typed, TypeOK, IsMap

\* A method stays where it is, or has set its error.
Onward(t) == pc'[t] = pc[t] \/ (pc[t] = "returned" /\ pc'[t] = "erase")

\* A thread whose method goes on untouched.
LEMMA StopSentKept ==
    ASSUME Placement, NEW t \in Everyone, StopSent(t), InMethod(t),
           Onward(t), call'[t] = call[t],
           objs'[call[t].obj].label = objs[call[t].obj].label,
           LabelOf(t) \notin disturbed =>
              /\ objs'[call[t].obj].mCmd = objs[call[t].obj].mCmd
              /\ objs'[call[t].obj].mRlt = objs[call[t].obj].mRlt,
           disturbed \subseteq disturbed', InstKept
    PROVE  StopSent(t)'
<1>1. LabelOf(t)' = LabelOf(t) /\ LabelOf(t) \in DOMAIN inst
  BY MethodObject DEF LabelOf
<1>2. ASSUME NEW l \in DOMAIN inst, Halted(l) PROVE Halted(l)'
  BY <1>2 DEF InstKept
<1>3. ASSUME NEW l \in DOMAIN inst, l = LabelOf(t), Halted(l) PROVE Halted(LabelOf(t))'
  <2>1. Halted(l)'
    BY <1>2, <1>3
  <2> QED BY <1>1, <1>3, <2>1 DEF Halted, Runs
<1> QED BY <1>1, <1>3 DEF StopSent, Onward

\* A step after which every method under way was under way before, and is where
\* it was with its object as it was.
LEMMA StoppingApart ==
    ASSUME Stopping, Placement', disturbed \subseteq disturbed', InstKept, ObjsKept,
           DOMAIN mResult' \subseteq DOMAIN mResult \cup disturbed',
           \A t \in Everyone :
              InMethod(t)' =>
                 /\ InMethod(t) /\ Onward(t) /\ call'[t] = call[t]
                 /\ LabelOf(t) \notin disturbed =>
                       /\ objs'[call[t].obj].mCmd = objs[call[t].obj].mCmd
                       /\ objs'[call[t].obj].mRlt = objs[call[t].obj].mRlt
    PROVE  Stopping'
<1>1. \A t \in Everyone : InMethod(t)' => LabelOf(t)' = LabelOf(t)
  BY MethodObject DEF Stopping, LabelOf, ObjsKept
<1>2. Alone'
  BY <1>1 DEF Stopping, Alone
<1>3. ASSUME NEW t \in Everyone PROVE StopSent(t)'
  <2>1. CASE InMethod(t)'
    <3>1. objs'[call[t].obj].label = objs[call[t].obj].label
      BY <2>1, MethodObject DEF Stopping, ObjsKept
    <3> QED BY <2>1, <3>1, StopSentKept DEF Stopping
  <2>2. CASE ~InMethod(t)'
    BY <2>2 DEF StopSent, InMethod
  <2> QED BY <2>1, <2>2
<1>4. DOMAIN mResult' \subseteq disturbed'
  BY DEF Stopping
<1> QED BY <1>2, <1>3, <1>4 DEF Stopping

LEMMA StoppingMethod ==
    ASSUME Stopping, Placement', NEW t \in Everyone, NEW o \in DOMAIN objs, NEW op \in Methods,
           Method(t, o, op)
    PROVE  Stopping'
<1>1. /\ Placement /\ Typed /\ pc \in [Everyone -> Position] /\ call \in [Everyone -> Call]
      /\ IsMap(objs, Objects, Object)
  BY DEF Stopping, Placement, Typed, TypeOK
<1>2. /\ objs' = [objs EXCEPT ![o].mCmd = op]
      /\ Begins(t, [NoCall EXCEPT !.op = op, !.obj = o], "prepared")
      /\ UNCHANGED <<mResult, daemon>> /\ pc[t] = "idle"
      /\ disturbed' = IF \E p \in DOMAIN objs : objs[p].label = objs[o].label /\ UnderWay(p) # {}
                      THEN disturbed \cup {objs[o].label} ELSE disturbed
  BY DEF Method, Prepared, Free
<1>3. /\ ObjsKept /\ OthersKept(o) /\ objs'[o] = [objs[o] EXCEPT !.mCmd = op]
      /\ objs[o] \in Object
  BY <1>1, <1>2, CmdWritten DEF Typed, IsMap
<1>4. /\ pc'[t] = "prepared" /\ call'[t].op = op /\ call'[t].obj = o
      /\ \A u \in Everyone \ {t} : pc'[u] = pc[u] /\ call'[u] = call[u]
  BY <1>1, <1>2 DEF Begins, Goto, NoCall
<1>5. /\ LabelOf(t)' = objs[o].label
      /\ \A u \in Everyone \ {t} : InMethod(u)' => InMethod(u) /\ LabelOf(u)' = LabelOf(u)
  BY <1>1, <1>3, <1>4, MethodObject DEF LabelOf, InMethod, ObjsKept
<1>6. disturbed \subseteq disturbed' /\ InstKept /\ mResult' = mResult
  BY <1>2 DEF InstKept, Halted, Runs, daemon
<1>7. ASSUME NEW u \in Everyone \ {t}, InMethod(u), LabelOf(u) = objs[o].label
      PROVE  objs[o].label \in disturbed'
  <2>1. call[u].obj \in DOMAIN objs /\ UnderWay(call[u].obj) # {}
    BY <1>1, <1>7, MethodObject
  <2> QED BY <1>2, <1>7, <2>1 DEF LabelOf
<1>8. Alone'
  <2>1. SUFFICES ASSUME NEW u \in Everyone, NEW v \in Everyone, u # v,
                        InMethod(u)', InMethod(v)', LabelOf(u)' = LabelOf(v)'
                 PROVE  LabelOf(u)' \in disturbed'
    BY DEF Alone
  <2>2. CASE u = t
    BY <1>5, <1>7, <2>1, <2>2
  <2>3. CASE v = t
    BY <1>5, <1>7, <2>1, <2>3
  <2>4. CASE u # t /\ v # t
    BY <1>5, <1>6, <2>1, <2>4 DEF Stopping, Alone
  <2> QED BY <2>2, <2>3, <2>4
<1>9. ASSUME NEW u \in Everyone PROVE StopSent(u)'
  <2>1. CASE u = t
    BY <1>3, <1>4, <2>1 DEF StopSent, Object
  <2>2. CASE u # t /\ ~InMethod(u)
    BY <1>4, <2>2 DEF StopSent, InMethod
  <2>3. CASE u # t /\ InMethod(u) /\ LabelOf(u) = objs[o].label
    <3>1. LabelOf(u)' \in disturbed'
      BY <1>4, <1>5, <1>7, <2>3 DEF InMethod
    <3> QED BY <3>1 DEF StopSent
  <2>4. CASE u # t /\ InMethod(u) /\ LabelOf(u) # objs[o].label
    <3>1. call[u].obj # o /\ call[u].obj \in DOMAIN objs
      BY <1>1, <2>4, MethodObject DEF LabelOf
    <3>2. objs'[call[u].obj] = objs[call[u].obj]
      BY <1>3, <3>1 DEF OthersKept
    <3> QED BY <1>1, <1>4, <1>6, <2>4, <3>2, StopSentKept DEF Stopping, Onward
  <2> QED BY <2>1, <2>2, <2>3, <2>4
<1> QED BY <1>6, <1>8, <1>9 DEF Stopping

LEMMA StoppingSends ==
    ASSUME Stopping, Placement', NEW t \in Everyone, Sends(t)
    PROVE  Stopping'
<1> DEFINE o == call[t].obj
           l == objs[o].label
<1>1. /\ Placement /\ Typed /\ pc \in [Everyone -> Position] /\ call \in [Everyone -> Call]
      /\ IsMap(objs, Objects, Object)
  BY DEF Stopping, Placement, Typed, TypeOK
<1>2. /\ o \in DOMAIN objs /\ l \in Labels /\ pc[t] = "prepared" /\ InMethod(t)
      /\ InstKept /\ DOMAIN mResult' \subseteq DOMAIN mResult \cup disturbed'
      /\ disturbed \subseteq disturbed'
  BY <1>1, SendsKeeps DEF InMethod
<1>3. PICK status \in Status : /\ objs' = [objs EXCEPT ![o].mRlt = status]
                               /\ \A k \in {l} \ (disturbed' \cup DOMAIN mResult) :
                                     objs[o].mCmd = "STOP" /\ status = "OK" => Halted(k)'
  BY <1>1, SendsKeeps
<1>4. ObjsKept /\ OthersKept(o) /\ objs'[o] = [objs[o] EXCEPT !.mRlt = status] /\ objs[o] \in Object
  BY <1>1, <1>2, <1>3, RltWritten DEF Typed, IsMap
<1>5. /\ pc'[t] = "returned" /\ \A u \in Everyone \ {t} : pc'[u] = pc[u]
      /\ call' = call
  BY <1>1 DEF Sends, Goto
<1>6. \A u \in Everyone : InMethod(u)' => InMethod(u) /\ LabelOf(u)' = LabelOf(u)
  <2>1. \A u \in Everyone : InMethod(u)' => InMethod(u)
    BY <1>2, <1>5 DEF InMethod
  <2> QED BY <1>1, <1>4, <1>5, <2>1, MethodObject DEF LabelOf, ObjsKept
<1>7. Alone'
  BY <1>2, <1>6 DEF Stopping, Alone
<1>8. DOMAIN mResult' \subseteq disturbed' /\ DOMAIN mResult \subseteq disturbed'
  BY <1>2 DEF Stopping
<1>9. ASSUME NEW u \in Everyone PROVE StopSent(u)'
  <2>1. CASE u = t
    <3>1. SUFFICES ASSUME call[t].op = "STOP", LabelOf(t)' \notin disturbed', objs'[o].mRlt = "OK"
                   PROVE  Halted(LabelOf(t))'
      BY <1>5, <2>1 DEF StopSent
    <3>2. LabelOf(t)' = l /\ l = LabelOf(t)
      BY <1>2, <1>4, <1>5 DEF LabelOf, ObjsKept
    <3>3. objs[o].mCmd = "STOP"
      BY <1>2, <3>1, <3>2 DEF Stopping, StopSent
    <3>4. status = "OK"
      BY <1>4, <3>1 DEF Object
    <3>5. ASSUME NEW k, k = l PROVE Halted(k)'
      BY <1>3, <1>8, <3>1, <3>2, <3>3, <3>4, <3>5
    <3>6. ASSUME NEW k, k = l, Halted(k)' PROVE Halted(LabelOf(t))'
      BY <3>2, <3>6 DEF Halted, Runs
    <3> QED BY <3>5, <3>6
  <2>2. CASE u # t /\ ~InMethod(u)
    BY <1>5, <2>2 DEF StopSent, InMethod
  <2>3. CASE u # t /\ InMethod(u)
    <3>1. LabelOf(u) \notin disturbed => call[u].obj # o
      BY <1>2, <2>3 DEF Stopping, Alone, LabelOf
    <3>2. call[u].obj \in DOMAIN objs
      BY <1>1, <2>3, MethodObject
    <3>3. LabelOf(u) \notin disturbed => objs'[call[u].obj] = objs[call[u].obj]
      BY <1>4, <3>1, <3>2 DEF OthersKept
    <3>4. objs'[call[u].obj].label = objs[call[u].obj].label
      BY <1>4, <3>2 DEF ObjsKept
    <3> QED BY <1>1, <1>2, <1>5, <2>3, <3>3, <3>4, StopSentKept DEF Stopping, Onward
  <2> QED BY <2>1, <2>2, <2>3
<1> QED BY <1>7, <1>8, <1>9 DEF Stopping

LEMMA StoppingStep == Stopping /\ [Next]_vars => Stopping'
<1> SUFFICES ASSUME Stopping, [Next]_vars PROVE Stopping'
  OBVIOUS
<1>1. /\ Placement /\ Placement' /\ Typed /\ pc \in [Everyone -> Position]
      /\ call \in [Everyone -> Call] /\ IsMap(objs, Objects, Object)
  BY PlacementStep DEF Stopping, Placement, Typed, TypeOK
<1>2. UNCHANGED objs => ObjsKept
  BY <1>1 DEF ObjsKept
<1>3. UNCHANGED inst => InstKept
  BY DEF InstKept, Halted, Runs
<1>4. ASSUME NEW t \in Everyone, ~InMethod(t)', \A u \in Everyone \ {t} : pc'[u] = pc[u] /\ call'[u] = call[u],
             ObjsKept, InstKept, disturbed \subseteq disturbed',
             DOMAIN mResult' \subseteq DOMAIN mResult \cup disturbed',
             \A p \in DOMAIN objs : objs'[p].mCmd = objs[p].mCmd /\ objs'[p].mRlt = objs[p].mRlt
      PROVE  Stopping'
  <2>1. ASSUME NEW u \in Everyone, InMethod(u)'
        PROVE  /\ InMethod(u) /\ Onward(u) /\ call'[u] = call[u]
               /\ objs'[call[u].obj].mCmd = objs[call[u].obj].mCmd
               /\ objs'[call[u].obj].mRlt = objs[call[u].obj].mRlt
    <3>1. InMethod(u) /\ pc'[u] = pc[u] /\ call'[u] = call[u]
      BY <1>4, <2>1 DEF InMethod
    <3>2. call[u].obj \in DOMAIN objs
      BY <1>1, <3>1, MethodObject
    <3> QED BY <1>4, <3>1, <3>2 DEF Onward
  <2> QED BY <1>1, <1>4, <2>1, StoppingApart
<1>5. ASSUME UNCHANGED <<pc, call, mResult, disturbed>>, ObjsKept, InstKept,
             \A p \in DOMAIN objs : objs'[p].mCmd = objs[p].mCmd /\ objs'[p].mRlt = objs[p].mRlt
      PROVE  Stopping'
  <2>1. ASSUME NEW u \in Everyone, InMethod(u)'
        PROVE  /\ InMethod(u) /\ Onward(u) /\ call'[u] = call[u]
               /\ objs'[call[u].obj].mCmd = objs[call[u].obj].mCmd
               /\ objs'[call[u].obj].mRlt = objs[call[u].obj].mRlt
    <3>1. InMethod(u) /\ pc'[u] = pc[u] /\ call'[u] = call[u]
      BY <1>5, <2>1 DEF InMethod
    <3>2. call[u].obj \in DOMAIN objs
      BY <1>1, <3>1, MethodObject
    <3> QED BY <1>5, <3>1, <3>2 DEF Onward
  <2> QED BY <1>1, <1>5, <2>1, StoppingApart
<1>6. ASSUME NEW t \in Everyone, Begin(t) PROVE Stopping'
  <2>1. CASE RunCommand(t) \/ \E n \in Names, cmd \in BOOLEAN : CheckService(t, n, cmd)
    <3>1. pc'[t] = "asking" /\ \A u \in Everyone \ {t} : pc'[u] = pc[u] /\ call'[u] = call[u]
      BY <1>1, <2>1 DEF RunCommand, CheckService, Begins, Goto
    <3>2. UNCHANGED <<objs, mResult, inst, disturbed>>
      BY <2>1 DEF RunCommand, CheckService, library, daemon, history
    <3> QED BY <1>2, <1>3, <1>4, <3>1, <3>2 DEF InMethod
  <2>2. CASE \E o \in DOMAIN objs, op \in Methods : Method(t, o, op)
    BY <1>1, <2>2, StoppingMethod
  <2>3. CASE \E o \in DOMAIN objs, op \in Methods : MethodDies(t, o, op)
    <3>1. UNCHANGED <<objs, pc, call, mResult, inst, disturbed>>
      BY <2>3 DEF MethodDies, library, threads, daemon, history
    <3> QED BY <1>2, <1>3, <1>5, <3>1
  <2> QED BY <1>6, <2>1, <2>2, <2>3 DEF Begin
<1>7. ASSUME NEW t \in Everyone, Continue(t) PROVE Stopping'
  <2>1. CASE Asks(t)
    <3>1. PICK r \in Result : Returns(t, r) /\ AskKept(t, r) /\ (r.status = "OK" => r.label \in Labels)
      BY <1>1, <2>1, AsksKeeps
    <3>2. pc[t] = "asking" /\ AsksFiled
      BY <1>1, <2>1, AsksFiles DEF Asks, Placement
    <3>3. ObjsKept /\ \A p \in DOMAIN objs : objs'[p] = objs[p]
      BY <1>1, <3>1, <3>2, ReturnsKeeps
    <3>4. \/ Goto(t, "insert") /\ UNCHANGED call
          \/ Idle(t)
          \/ /\ UNCHANGED pc
             /\ \/ UNCHANGED call
                \/ \E op \in {"EVENT_INFO", "START"} : call' = [call EXCEPT ![t].op = op]
      BY <1>1, <3>1, <3>2, ReturnsKeeps
    <3>5. ~InMethod(t)' /\ \A u \in Everyone \ {t} : pc'[u] = pc[u] /\ call'[u] = call[u]
      <4>1. CASE Goto(t, "insert") /\ UNCHANGED call
        BY <1>1, <4>1 DEF Goto, InMethod
      <4>2. CASE Idle(t)
        BY <1>1, <4>2 DEF Idle, Goto, InMethod
      <4>3. CASE /\ UNCHANGED pc
                 /\ \/ UNCHANGED call
                    \/ \E op \in {"EVENT_INFO", "START"} : call' = [call EXCEPT ![t].op = op]
        <5>1. ~InMethod(t)' /\ UNCHANGED pc
          BY <3>2, <4>3 DEF InMethod
        <5>2. ASSUME NEW op, call' = [call EXCEPT ![t].op = op]
              PROVE  \A u \in Everyone \ {t} : call'[u] = call[u]
          BY <1>1, <5>2
        <5> QED BY <4>3, <5>1, <5>2
      <4> QED BY <3>4, <4>1, <4>2, <4>3
    <3> QED BY <1>4, <3>1, <3>2, <3>3, <3>5 DEF AskKept, AsksFiled
  <2>2. CASE Register(t) \/ Unregister(t)
    <3>1. Idle(t) /\ UNCHANGED <<objs, mResult, inst, disturbed>>
      BY <2>2 DEF Register, Unregister, daemon, history
    <3>2. ~InMethod(t)' /\ \A u \in Everyone \ {t} : pc'[u] = pc[u] /\ call'[u] = call[u]
      BY <1>1, <3>1 DEF Idle, Goto, InMethod
    <3> QED BY <1>2, <1>3, <1>4, <3>1, <3>2
  <2>3. CASE Sends(t)
    BY <1>1, <2>3, StoppingSends
  <2>4. CASE SetError(t)
    <3>1. UNCHANGED <<mResult, inst, disturbed>> /\ pc[t] = "returned"
      BY <2>4 DEF SetError, daemon, history
    <3>2. /\ ObjsKept /\ OthersKept(call[t].obj)
          /\ objs'[call[t].obj] = [objs[call[t].obj] EXCEPT !.mError = result_to_error(objs[call[t].obj].mRlt)]
      BY <1>1, <2>4, TypeSetError
    <3>3. \A p \in DOMAIN objs : objs'[p].mCmd = objs[p].mCmd /\ objs'[p].mRlt = objs[p].mRlt
      <4>1. \A p \in DOMAIN objs : objs[p] \in Object
        BY <1>1 DEF IsMap
      <4> QED BY <3>2, <4>1 DEF OthersKept, Object
    <3>4. \/ Idle(t)
          \/ UNCHANGED call /\ Goto(t, "erase")
      BY <2>4 DEF SetError
    <3>5. CASE Idle(t)
      <4>1. ~InMethod(t)' /\ \A u \in Everyone \ {t} : pc'[u] = pc[u] /\ call'[u] = call[u]
        BY <1>1, <3>5 DEF Idle, Goto, InMethod
      <4> QED BY <1>3, <1>4, <3>1, <3>2, <3>3, <4>1
    <3>6. CASE UNCHANGED call /\ Goto(t, "erase")
      <4>1. \A u \in Everyone : InMethod(u)' => InMethod(u) /\ Onward(u) /\ call'[u] = call[u]
        BY <1>1, <3>1, <3>6 DEF Goto, InMethod, Onward
      <4>2. \A u \in Everyone : InMethod(u) => call[u].obj \in DOMAIN objs
        BY <1>1, MethodObject
      <4> QED BY <1>1, <1>3, <3>1, <3>2, <3>3, <4>1, <4>2, StoppingApart
    <3> QED BY <3>4, <3>5, <3>6
  <2> QED BY <1>7, <2>1, <2>2, <2>3, <2>4 DEF Continue
<1>8. CASE Receive
  <2>1. CASE ReceiveUnheard
    <3>1. UNCHANGED <<objs, pc, call, mResult, inst, disturbed>>
      BY <2>1 DEF ReceiveUnheard, library, threads, history
    <3> QED BY <1>2, <1>3, <1>5, <3>1
  <2>2. CASE ReceiveResponse
    <3>1. UNCHANGED <<pc, call, mResult, inst, disturbed>>
      BY <2>2 DEF ReceiveResponse, threads
    <3>2. ObjsKept /\ \A p \in DOMAIN objs : objs'[p].mCmd = objs[p].mCmd /\ objs'[p].mRlt = objs[p].mRlt
      BY <1>1, <2>2, ResponseWritten DEF OthersKept
    <3> QED BY <1>3, <1>5, <3>1, <3>2
  <2> QED BY <1>8, <2>1, <2>2 DEF Receive
<1>9. CASE CallbackReturns \/ UNCHANGED vars
  <2>1. UNCHANGED <<objs, pc, call, mResult, inst, disturbed>>
    BY <1>9 DEF CallbackReturns, vars, library, threads, daemon, history
  <2> QED BY <1>2, <1>3, <1>5, <2>1
<1>10. CASE Daemon
  <2>1. UNCHANGED <<objs, pc, call, mResult, disturbed>>
    BY <1>10 DEF Daemon, Ends, OthersStart, library, threads, history
  <2>2. InstKept
    BY <1>1, <1>10, TypeDaemon
  <2> QED BY <1>2, <1>5, <2>1, <2>2
<1> QED BY <1>6, <1>7, <1>8, <1>9, <1>10 DEF Next

\* When stop() succeeds the service has been sent its signal or runs no more, unless
\* another method of its label was under way, or one of them or its START had
\* timed out.
THEOREM StopCorrect == Spec => []StopStops
<1>1. Init => Stopping
  <2> SUFFICES ASSUME Init PROVE Stopping
    OBVIOUS
  <2>1. \A t \in Everyone : ~InMethod(t) /\ call[t].op # "STOP"
    BY NoneAssumption DEF Init, InMethod, NoCall, Ops, Methods, MethodsOf
  <2> QED BY <2>1, PlacementInit DEF Init, Stopping, Alone, StopSent
<1>2. Stopping => StopStops
  BY DEF Stopping, StopSent, StopStops, LabelOf, Halted
<1> QED BY <1>1, <1>2, StoppingStep, PTL DEF Spec

-----------------------------------------------------------------------------
(* What the application is told *)

\* Nothing the daemon serves ends what runs, but a close.
LEMMA ServesRuns ==
    ASSUME Typed, NEW t \in Everyone, pc[t] = "asking", NEW r, Serves(t, r), NEW x, Runs(x)
    PROVE  Runs(x)'
<1>1. /\ call[t].obj \notin DOMAIN inst /\ x \in DOMAIN inst /\ inst[x] \in Instance
      /\ inst \in [DOMAIN inst -> Instance]
  BY DEF Typed, TypeOK, Fresh, IsMap, Runs
<1>2. CASE UNCHANGED inst
  BY <1>2 DEF Runs
<1>3. ASSUME NEW l \in DOMAIN inst, inst' = [inst EXCEPT ![l].watched = TRUE]
      PROVE  Runs(x)'
  BY <1>1, <1>3 DEF Runs, Instance
<1>4. ASSUME NEW k, k \notin DOMAIN inst, NEW v, inst' = With(inst, k, v)
      PROVE  Runs(x)'
  BY <1>1, <1>4 DEF Runs, With
<1>5. \/ UNCHANGED inst
      \/ \E l \in DOMAIN inst : inst' = [inst EXCEPT ![l].watched = TRUE]
      \/ \E v : inst' = With(inst, call[t].obj, v)
  BY DEF Serves, ServesInfo, ServesStart, Running
<1> QED BY <1>1, <1>2, <1>3, <1>4, <1>5

LEMMA ServesMethodRuns ==
    ASSUME Typed, NEW op, NEW l, NEW r, ServesMethod(op, l, r), NEW x, Runs(x)
    PROVE  Runs(x)' \/ (x = l /\ op = "CLOSE")
<1>1. x \in DOMAIN inst /\ inst \in [DOMAIN inst -> Instance]
  BY DEF Typed, TypeOK, IsMap, Runs
<1>2. CASE UNCHANGED inst
  BY <1>2 DEF Runs
<1>3. CASE Runs(l) /\ inst' = [inst EXCEPT ![l].state = After(op, @)]
  <2>1. l \in DOMAIN inst /\ inst[l] \in Instance /\ inst[l].state # "ended"
    BY <1>1, <1>3 DEF Runs
  <2>2. op # "CLOSE" => After(op, inst[l].state) # "ended"
    BY <2>1 DEF After
  <2> QED BY <1>1, <1>3, <2>1, <2>2 DEF Runs, Instance
<1> QED BY <1>2, <1>3 DEF ServesMethod

\* The application has let an object go, or the maps have another of its label.
Settled(o) == o \in told \cup released \/ Twins(o) # {}

\* An object is settled, or on its way into the maps, or in them.
Kept(o) ==
    \/ Settled(o) \/ Inserting(o)
    \/ objs[o].label \in DOMAIN registered /\ registered[objs[o].label] = o

\* What has ended of an object in the maps is on its way to it.
Heard(l) == Over(l) => \/ Settled(registered[l]) \/ registered[l] \in late

Telling ==
    /\ Placement
    /\ \A o \in DOMAIN objs : objs[o].mCmd = "CLOSE" => o \in released
    /\ \A o \in DOMAIN objs : objs[o].sender => Kept(o)
    /\ \A l \in DOMAIN registered : Heard(l)

\* What was told, released or seen late stays so.
Recorded ==
    /\ told \subseteq told' /\ released \subseteq released'
    /\ late \subseteq late'

LEMMA SettledStays ==
    ASSUME Recorded, ObjsKept, NEW o \in DOMAIN objs, Settled(o)
    PROVE  Settled(o)'
<1>1. CASE o \in told \cup released
  BY <1>1 DEF Settled, Recorded
<1>2. CASE Twins(o) # {}
  <2>1. PICK p \in DOMAIN objs \ {o} : objs[p].label = objs[o].label
    BY <1>2 DEF Twins
  <2>2. p \in DOMAIN objs' \ {o} /\ objs'[p].label = objs'[o].label
    BY <2>1 DEF ObjsKept
  <2>3. p \in Twins(o)'
    BY <2>2 DEF Twins
  <2> QED BY <2>3 DEF Settled
<1> QED BY <1>1, <1>2 DEF Settled

\* A step that leaves the maps and who is on the way into them alone.
LEMMA TellingApart ==
    ASSUME Telling, Placement', ObjsKept, Recorded, registered' = registered,
           \A p \in DOMAIN objs' :
              objs'[p].mCmd = "CLOSE" => p \in released' \/ (p \in DOMAIN objs /\ objs[p].mCmd = "CLOSE"),
           \A p \in DOMAIN objs' \ DOMAIN objs : objs'[p].sender => Inserting(p)',
           \A p \in DOMAIN objs : Inserting(p) => Inserting(p)',
           \A l \in DOMAIN registered :
              Over(l)' => Over(l) \/ Settled(registered[l])
    PROVE  Telling'
<1>1. \A l \in DOMAIN registered : registered[l] \in DOMAIN objs
  BY DEF Telling, Placement, Typed, TypeOK, IsMap
<1>2. ASSUME NEW o \in DOMAIN objs', objs'[o].sender PROVE Kept(o)'
  <2>1. CASE o \notin DOMAIN objs
    BY <1>2, <2>1 DEF Kept
  <2>2. CASE o \in DOMAIN objs
    <3>1. Kept(o) /\ objs'[o].label = objs[o].label
      BY <1>2, <2>2 DEF Telling, ObjsKept
    <3>2. Settled(o) => Settled(o)'
      BY <2>2, SettledStays
    <3> QED BY <2>2, <3>1, <3>2 DEF Kept
  <2> QED BY <2>1, <2>2
<1>3. ASSUME NEW l \in DOMAIN registered PROVE Heard(l)'
  <2>1. registered'[l] = registered[l] /\ registered[l] \in DOMAIN objs /\ Heard(l)
    BY <1>1 DEF Telling
  <2>2. Settled(registered[l]) => Settled(registered[l])'
    <3>1. ASSUME NEW o \in DOMAIN objs, o = registered[l], Settled(o) PROVE Settled(registered[l])'
      <4>1. Settled(o)'
        BY <3>1, SettledStays
      <4> QED BY <2>1, <3>1, <4>1 DEF Settled, Twins
    <3> QED BY <2>1, <3>1
  <2> QED BY <2>1, <2>2 DEF Heard, Recorded
<1>4. \A o \in DOMAIN objs' : objs'[o].mCmd = "CLOSE" => o \in released'
  BY DEF Telling, Recorded
<1> QED BY <1>2, <1>3, <1>4 DEF Telling

\* What is on its way into the maps when a thread other than an inserting one goes on
LEMMA InsertingStays ==
    ASSUME NEW t \in Everyone, pc[t] # "insert", NEW o, Inserting(o),
           \A u \in Everyone \ {t} : pc'[u] = pc[u] /\ call'[u] = call[u]
    PROVE  Inserting(o)'
<1>1. PICK u \in Everyone : pc[u] = "insert" /\ call[u].obj = o
  BY DEF Inserting
<1>2. pc'[u] = "insert" /\ call'[u].obj = o
  BY <1>1
<1> QED BY <1>2 DEF Inserting

LEMMA TellingBegins ==
    ASSUME Telling, Placement', NEW t \in Everyone, Begin(t)
    PROVE  Telling'
<1>1. /\ Placement /\ Typed /\ pc \in [Everyone -> Position] /\ call \in [Everyone -> Call]
      /\ IsMap(objs, Objects, Object)
  BY DEF Telling, Placement, Typed, TypeOK
<1>2. CASE RunCommand(t) \/ \E n \in Names, cmd \in BOOLEAN : CheckService(t, n, cmd)
  <2>1. /\ pc[t] = "idle" /\ \A u \in Everyone \ {t} : pc'[u] = pc[u] /\ call'[u] = call[u]
        /\ UNCHANGED <<library, daemon, history>>
    BY <1>1, <1>2 DEF RunCommand, CheckService, Free, Begins, Goto
  <2>2. \A p : Inserting(p) => Inserting(p)'
    BY <2>1, InsertingStays
  <2>3. ObjsKept /\ Recorded /\ \A l : Over(l)' => Over(l)
    BY <1>1, <2>1 DEF ObjsKept, Recorded, Over, Runs, library, daemon, history
  <2> QED BY <2>1, <2>2, <2>3, TellingApart DEF library
<1>3. ASSUME NEW o \in DOMAIN objs, NEW op \in Methods, Method(t, o, op) PROVE Telling'
  <2>1. /\ objs' = [objs EXCEPT ![o].mCmd = op] /\ pc[t] = "idle"
        /\ UNCHANGED <<registered, daemon, told, late>>
        /\ released' = IF op \in {"STOP", "CLOSE"} THEN released \cup {o} ELSE released
        /\ \A u \in Everyone \ {t} : pc'[u] = pc[u] /\ call'[u] = call[u]
    BY <1>1, <1>3 DEF Method, Prepared, Free, Begins, Goto
  <2>2. ObjsKept /\ OthersKept(o) /\ objs'[o] = [objs[o] EXCEPT !.mCmd = op] /\ objs[o] \in Object
    BY <1>1, <2>1, CmdWritten DEF Typed, IsMap
  <2>3. \A p \in DOMAIN objs' :
           objs'[p].mCmd = "CLOSE" => p \in released' \/ (p \in DOMAIN objs /\ objs[p].mCmd = "CLOSE")
    <3>1. objs'[o].mCmd = "CLOSE" => o \in released'
      BY <2>1, <2>2 DEF Object
    <3> QED BY <2>2, <3>1 DEF OthersKept
  <2>4. \A p : Inserting(p) => Inserting(p)'
    BY <2>1, InsertingStays
  <2>5. Recorded /\ \A l : Over(l)' => Over(l)
    BY <2>1 DEF Recorded, Over, Runs, daemon
  <2> QED BY <2>1, <2>2, <2>3, <2>4, <2>5, TellingApart DEF OthersKept
<1>4. ASSUME NEW o \in DOMAIN objs, NEW op \in Methods, MethodDies(t, o, op) PROVE Telling'
  <2>1. UNCHANGED <<library, threads, daemon, history>>
    BY <1>4 DEF MethodDies
  <2>2. ObjsKept /\ Recorded /\ (\A l : Over(l)' => Over(l)) /\ \A p : Inserting(p) => Inserting(p)'
    BY <1>1, <2>1 DEF ObjsKept, Recorded, Over, Runs, Inserting, library, threads, daemon, history
  <2> QED BY <2>1, <2>2, TellingApart DEF library
<1> QED BY <1>2, <1>3, <1>4 DEF Begin

LEMMA TellingAsks ==
    ASSUME Telling, Placement', NEW t \in Everyone, Asks(t)
    PROVE  Telling'
<1>1. /\ Placement /\ Typed /\ pc \in [Everyone -> Position] /\ call \in [Everyone -> Call]
      /\ pc[t] = "asking" /\ UNCHANGED <<registered, stream, told, released, late>>
  BY DEF Telling, Placement, Typed, TypeOK, Asks
<1>2. PICK r \in Result : Returns(t, r) /\ AskKept(t, r) /\ (r.status = "OK" => r.label \in Labels)
  BY <1>1, AsksKeeps
<1>3. /\ ObjsKept
      /\ DOMAIN objs' \subseteq DOMAIN objs \cup {call[t].obj}
      /\ \A p \in DOMAIN objs : objs'[p] = objs[p]
      /\ call[t].obj \in DOMAIN objs' =>
            \/ objs'[call[t].obj].sender /\ Goto(t, "insert") /\ UNCHANGED call
            \/ ~objs'[call[t].obj].sender /\ Idle(t)
      /\ call[t].obj \notin DOMAIN objs' =>
            /\ UNCHANGED pc
            /\ \/ UNCHANGED call
               \/ \E op \in {"EVENT_INFO", "START"} : call' = [call EXCEPT ![t].op = op]
  BY <1>1, <1>2, ReturnsKeeps
<1>4. \A u \in Everyone \ {t} : pc'[u] = pc[u] /\ call'[u] = call[u]
  <2>1. ASSUME NEW op, call' = [call EXCEPT ![t].op = op]
        PROVE  \A u \in Everyone \ {t} : call'[u] = call[u]
    BY <1>1, <2>1
  <2> QED BY <1>1, <1>3, <2>1 DEF Goto, Idle
<1>5. \A p : Inserting(p) => Inserting(p)'
  BY <1>1, <1>4, InsertingStays
<1>6. ASSUME NEW p \in DOMAIN objs' \ DOMAIN objs, objs'[p].sender PROVE Inserting(p)'
  <2>1. p = call[t].obj /\ Goto(t, "insert") /\ UNCHANGED call
    BY <1>3, <1>6
  <2> QED BY <1>1, <2>1 DEF Goto, Inserting
<1>7. ASSUME NEW p \in DOMAIN objs', objs'[p].mCmd = "CLOSE" PROVE p \in DOMAIN objs /\ objs[p].mCmd = "CLOSE"
  <2>1. CASE p \in DOMAIN objs
    BY <1>3, <1>7, <2>1
  <2>2. CASE p \notin DOMAIN objs
    <3>1. p = call[t].obj /\ objs' # objs
      BY <1>3, <2>2
    <3>2. PICK label, has, error : NewObject(t, label, has, error)
      BY <1>2, <3>1 DEF Returns, Creates, AsksOn, CheckDies, Fails
    <3>3. objs'[p].mCmd = None
      BY <3>1, <3>2 DEF NewObject, With
    <3>4. "CLOSE" # None
      BY NoneAssumption DEF Ops, Methods, MethodsOf
    <3> QED BY <1>7, <3>3, <3>4
  <2> QED BY <2>1, <2>2
<1>8. ASSUME NEW l, Runs(l) PROVE Runs(l)'
  <2>1. CASE UNCHANGED inst
    BY <1>8, <2>1 DEF Runs
  <2>2. CASE \E q \in Result : Serves(t, q)
    BY <1>1, <1>8, <2>2, ServesRuns
  <2> QED BY <2>1, <2>2 DEF Asks
<1>9. Recorded /\ \A l : Over(l)' => Over(l)
  BY <1>1, <1>8 DEF Recorded, Over
<1> QED BY <1>1, <1>3, <1>5, <1>6, <1>7, <1>9, TellingApart

LEMMA TellingSends ==
    ASSUME Telling, Placement', NEW t \in Everyone, Sends(t)
    PROVE  Telling'
<1> DEFINE o == call[t].obj
           l == objs[o].label
<1>1. /\ Placement /\ Typed /\ pc \in [Everyone -> Position] /\ IsMap(objs, Objects, Object)
      /\ pc[t] = "prepared"
      /\ UNCHANGED <<registered, call, stream, told, released, late>>
      /\ Goto(t, "returned")
  BY DEF Telling, Placement, Typed, TypeOK, Sends
<1>2. o \in DOMAIN objs
  BY <1>1, SendsKeeps
<1>3. PICK status \in Status : objs' = [objs EXCEPT ![o].mRlt = status]
  BY <1>1, SendsKeeps
<1>4. ObjsKept /\ OthersKept(o) /\ objs'[o] = [objs[o] EXCEPT !.mRlt = status] /\ objs[o] \in Object
  BY <1>1, <1>2, <1>3, RltWritten DEF Typed, IsMap
<1>5. \A p \in DOMAIN objs' : objs'[p].mCmd = objs[p].mCmd
  BY <1>4 DEF OthersKept, Object
<1>6. \A p : Inserting(p) => Inserting(p)'
  BY <1>1, InsertingStays DEF Goto
<1>7. ASSUME NEW x, Runs(x) PROVE Runs(x)' \/ (x = l /\ objs[o].mCmd = "CLOSE")
  <2>1. CASE UNCHANGED inst
    BY <1>7, <2>1 DEF Runs
  <2>2. CASE \E r \in Result : ServesMethod(objs[o].mCmd, l, r)
    BY <1>1, <1>7, <2>2, ServesMethodRuns
  <2> QED BY <2>1, <2>2 DEF Sends
<1>8. ASSUME NEW x \in DOMAIN registered, Over(x)' PROVE Over(x) \/ Settled(registered[x])
  <2>1. CASE x = l /\ objs[o].mCmd = "CLOSE"
    <3>1. registered[x] \in DOMAIN objs /\ objs[registered[x]].label = l
      BY <1>1, <2>1 DEF Typed, TypeOK, IsMap
    <3>2. CASE registered[x] = o
      BY <1>2, <2>1, <3>2 DEF Telling, Settled
    <3>3. CASE registered[x] # o
      BY <1>2, <3>1, <3>3 DEF Settled, Twins
    <3> QED BY <3>2, <3>3
  <2>2. CASE ~(x = l /\ objs[o].mCmd = "CLOSE")
    BY <1>1, <1>7, <1>8, <2>2 DEF Over
  <2> QED BY <2>1, <2>2
<1>9. Recorded
  BY <1>1 DEF Recorded
<1> QED BY <1>1, <1>4, <1>5, <1>6, <1>8, <1>9, TellingApart DEF OthersKept

LEMMA TellingRegisters ==
    ASSUME Telling, Placement', NEW t \in Everyone, Register(t)
    PROVE  Telling'
<1> DEFINE o == call[t].obj
           l == objs[o].label
<1>1. /\ Placement /\ Typed /\ pc \in [Everyone -> Position] /\ call \in [Everyone -> Call]
      /\ pc[t] = "insert" /\ Idle(t) /\ UNCHANGED <<objs, daemon, told, released>>
      /\ late \subseteq late' /\ (Over(l) => o \in late')
  BY DEF Telling, Placement, Typed, TypeOK, Register
<1>2. /\ DOMAIN registered' = DOMAIN registered \cup {l}
      /\ \A x \in DOMAIN registered : registered'[x] = registered[x]
      /\ l \notin DOMAIN registered => registered'[l] = o
  BY <1>1, TypeRegister
<1>3. /\ o \in DOMAIN objs
      /\ \A x \in DOMAIN registered : registered[x] \in DOMAIN objs /\ objs[registered[x]].label = x
  BY <1>1 DEF Typed, TypeOK, IsMap
<1>4. \A u \in Everyone \ {t} : pc'[u] = pc[u] /\ call'[u] = call[u]
  BY <1>1 DEF Idle, Goto
<1>5. /\ \A p : Settled(p)' <=> Settled(p)
      /\ \A x : Over(x)' <=> Over(x)
  BY <1>1 DEF Settled, Twins, Over, Runs, daemon
<1>6. ASSUME NEW p \in DOMAIN objs', objs'[p].sender PROVE Kept(p)'
  <2>1. Kept(p)
    BY <1>1, <1>6 DEF Telling
  <2>2. CASE Settled(p)
    BY <1>5, <2>2 DEF Kept
  <2>3. CASE objs[p].label \in DOMAIN registered /\ registered[objs[p].label] = p
    BY <1>1, <1>2, <2>3 DEF Kept
  <2>4. CASE Inserting(p) /\ p # o
    <3>1. PICK u \in Everyone : pc[u] = "insert" /\ call[u].obj = p
      BY <2>4 DEF Inserting
    <3>2. u # t
      BY <2>4, <3>1
    <3>3. Inserting(p)'
      BY <1>4, <3>1, <3>2 DEF Inserting
    <3> QED BY <3>3 DEF Kept
  <2>5. CASE p = o
    <3>1. CASE l \in DOMAIN registered /\ registered[l] # o
      <4>1. registered[l] \in Twins(o)
        BY <1>3, <3>1 DEF Twins
      <4> QED BY <1>5, <2>5, <4>1 DEF Kept, Settled
    <3>2. CASE ~(l \in DOMAIN registered /\ registered[l] # o)
      <4>1. l \in DOMAIN registered' /\ registered'[l] = o
        BY <1>2, <3>2
      <4> QED BY <1>1, <2>5, <4>1 DEF Kept
    <3> QED BY <3>1, <3>2
  <2> QED BY <2>1, <2>2, <2>3, <2>4, <2>5 DEF Kept
<1>7. ASSUME NEW x \in DOMAIN registered' PROVE Heard(x)'
  <2>1. CASE x \in DOMAIN registered
    <3>1. Heard(x) /\ registered'[x] = registered[x]
      BY <1>2, <2>1 DEF Telling
    <3> QED BY <1>1, <1>5, <3>1 DEF Heard, Settled, Twins, daemon
  <2>2. CASE x \notin DOMAIN registered
    <3>1. x = l /\ registered'[x] = o
      BY <1>2, <2>2
    <3> QED BY <1>1, <1>5, <3>1 DEF Heard
  <2> QED BY <2>1, <2>2
<1>8. \A p \in DOMAIN objs' : objs'[p].mCmd = "CLOSE" => p \in released'
  BY <1>1 DEF Telling
<1> QED BY <1>6, <1>7, <1>8 DEF Telling

LEMMA TellingUnregisters ==
    ASSUME Telling, Placement', NEW t \in Everyone, Unregister(t)
    PROVE  Telling'
<1> DEFINE o == call[t].obj
           l == objs[o].label
<1>1. /\ Placement /\ Typed /\ pc \in [Everyone -> Position] /\ call \in [Everyone -> Call]
      /\ pc[t] = "erase" /\ Idle(t) /\ UNCHANGED <<objs, daemon, history>>
  BY DEF Telling, Placement, Typed, TypeOK, Unregister
<1>2. /\ DOMAIN registered' = DOMAIN registered \ {l}
      /\ \A x \in DOMAIN registered' : registered'[x] = registered[x]
  BY <1>1, TypeUnregister
<1>3. o \in DOMAIN objs /\ o \in released
  BY <1>1 DEF Typed, TypeOK, Placement, Placed
<1>4. \A p : Inserting(p) => Inserting(p)'
  BY <1>1, InsertingStays DEF Idle, Goto
<1>5. /\ \A p : Settled(p)' <=> Settled(p)
      /\ \A x : Over(x)' <=> Over(x)
  BY <1>1 DEF Settled, Twins, Over, Runs, daemon, history
<1>6. ASSUME NEW p \in DOMAIN objs', objs'[p].sender PROVE Kept(p)'
  <2>1. Kept(p)
    BY <1>1, <1>6 DEF Telling
  <2>2. CASE p = o
    BY <1>3, <1>5, <2>2 DEF Kept, Settled
  <2>3. CASE p # o /\ objs[p].label = l
    <3>1. o \in Twins(p)
      BY <1>3, <2>3 DEF Twins
    <3> QED BY <1>5, <3>1 DEF Kept, Settled
  <2>4. CASE objs[p].label # l
    BY <1>1, <1>2, <1>4, <1>5, <2>1, <2>4 DEF Kept
  <2> QED BY <2>2, <2>3, <2>4
<1>7. ASSUME NEW x \in DOMAIN registered' PROVE Heard(x)'
  <2>1. Heard(x) /\ registered'[x] = registered[x]
    BY <1>2 DEF Telling
  <2> QED BY <1>1, <1>5, <2>1 DEF Heard, Settled, Twins, daemon, history
<1>8. \A p \in DOMAIN objs' : objs'[p].mCmd = "CLOSE" => p \in released'
  BY <1>1 DEF Telling, history
<1> QED BY <1>6, <1>7, <1>8 DEF Telling

\* Reading a response leaves the ones about other labels on their way.
LEMMA OverTail ==
    ASSUME Typed, stream # << >>, stream' = Tail(stream), UNCHANGED inst,
           NEW x, x # Head(stream).label, Over(x)'
    PROVE  Over(x)
<1>1. stream \in Seq(Response)
  BY DEF Typed, TypeOK
<1>2. SUFFICES ASSUME NEW i \in DOMAIN stream, stream[i].label = x PROVE FALSE
  BY DEF Over, Runs
<1>3. i # 1 /\ i \in 1..Len(stream)
  BY <1>1, <1>2
<1>4. i - 1 \in DOMAIN Tail(stream) /\ Tail(stream)[i - 1] = stream[i]
  BY <1>1, <1>3
<1> QED BY <1>2, <1>4 DEF Over

LEMMA TellingReceives ==
    ASSUME Telling, Placement', Receive
    PROVE  Telling'
<1>1. Placement /\ Typed /\ stream # << >> /\ stream' = Tail(stream)
  BY DEF Telling, Placement, Receive, ReceiveUnheard, ReceiveResponse, Receives
<1>2. CASE ReceiveUnheard
  <2>1. Head(stream).label \notin DOMAIN registered
        /\ UNCHANGED <<library, threads, mResult, inst, history, dead>>
    BY <1>2 DEF ReceiveUnheard
  <2>2. \A x \in DOMAIN registered : Over(x)' => Over(x)
    BY <1>1, <2>1, OverTail
  <2>3. ObjsKept /\ Recorded /\ (\A p : Inserting(p) => Inserting(p)') /\ UNCHANGED <<objs, registered>>
    BY <1>1, <2>1 DEF ObjsKept, Recorded, Inserting, library, threads, history, Typed, TypeOK
  <2> QED BY <2>2, <2>3, TellingApart
<1>3. CASE ReceiveResponse
  <2> DEFINE l == Head(stream).label
             o == registered[l]
  <2>1. /\ l \in DOMAIN registered /\ o \in DOMAIN objs /\ ObjsKept /\ OthersKept(o)
        /\ objs'[o].mCmd = objs[o].mCmd
        /\ DOMAIN registered' = DOMAIN registered \ {l}
        /\ \A x \in DOMAIN registered' : registered'[x] = registered[x]
    BY <1>1, <1>3, ResponseWritten
  <2>2. o \in told' /\ told \subseteq told' /\ UNCHANGED <<threads, inst, released, late>>
    BY <1>3 DEF ReceiveResponse
  <2> HIDE DEF l, o
  <2>3. Recorded /\ \A p : Inserting(p) => Inserting(p)'
    BY <2>2 DEF Recorded, Inserting, threads
  <2>4. ASSUME NEW p \in DOMAIN objs', objs'[p].sender PROVE Kept(p)'
    <3>1. p \in DOMAIN objs /\ objs[p].sender /\ objs'[p].label = objs[p].label /\ Kept(p)
      BY <2>1, <2>4 DEF OthersKept, ObjsKept, Telling
    <3>2. CASE Settled(p)
      BY <2>1, <2>3, <3>1, <3>2, SettledStays DEF Kept
    <3>3. CASE Inserting(p)
      BY <2>3, <3>3 DEF Kept
    <3>4. CASE objs[p].label \in DOMAIN registered /\ registered[objs[p].label] = p
      <4>1. CASE objs[p].label = l
        BY <2>2, <3>4, <4>1 DEF Kept, Settled, o
      <4>2. CASE objs[p].label # l
        BY <2>1, <3>1, <3>4, <4>2 DEF Kept
      <4> QED BY <4>1, <4>2
    <3> QED BY <3>1, <3>2, <3>3, <3>4 DEF Kept
  <2>5. ASSUME NEW x \in DOMAIN registered' PROVE Heard(x)'
    <3>1. x \in DOMAIN registered /\ x # l /\ registered'[x] = registered[x] /\ Heard(x)
      BY <2>1 DEF Telling
    <3>2. Over(x)' => Over(x)
      BY <1>1, <2>2, <3>1, OverTail DEF l
    <3>3. Settled(registered[x]) => Settled(registered[x])'
      <4>1. registered[x] \in DOMAIN objs
        BY <1>1, <3>1 DEF Typed, TypeOK, IsMap
      <4>2. ASSUME NEW p \in DOMAIN objs, p = registered[x], Settled(p) PROVE Settled(registered[x])'
        <5>1. Settled(p)'
          BY <2>1, <2>3, <4>2, SettledStays
        <5> QED BY <3>1, <4>2, <5>1 DEF Settled, Twins
      <4> QED BY <4>1, <4>2
    <3> QED BY <2>3, <3>1, <3>2, <3>3 DEF Heard, Recorded
  <2>6. \A p \in DOMAIN objs' : objs'[p].mCmd = "CLOSE" => p \in released'
    BY <2>1, <2>2 DEF Telling, OthersKept
  <2> QED BY <2>4, <2>5, <2>6 DEF Telling
<1> QED BY <1>2, <1>3 DEF Receive

LEMMA TellingDaemon ==
    ASSUME Telling, Placement', Daemon
    PROVE  Telling'
<1>1. /\ Placement /\ Typed /\ IsMap(inst, Labels, Instance) /\ stream \in Seq(Response)
      /\ UNCHANGED <<library, threads, history>>
  BY DEF Telling, Placement, Typed, TypeOK, Daemon, Ends, OthersStart
<1>2. /\ ObjsKept /\ Recorded
      /\ (\A p : Inserting(p) => Inserting(p)') /\ UNCHANGED <<objs, registered>>
  BY <1>1 DEF ObjsKept, Recorded, Inserting, library, threads, history, Typed, TypeOK
<1>3. \A x \in DOMAIN registered : x \in DOMAIN inst /\ inst[x].watched
  BY <1>1 DEF Placement, Standing, Typed, TypeOK, IsMap
<1>4. ASSUME NEW l \in DOMAIN inst, Ends(l)
      PROVE  \A x \in DOMAIN registered : Over(x)' => Over(x)
  <2>1. inst' = [inst EXCEPT ![l].state = "ended"]
    BY <1>4 DEF Ends
  <2>2. /\ \A i \in DOMAIN stream : i \in DOMAIN stream' /\ stream'[i] = stream[i]
        /\ inst[l].watched => \E i \in DOMAIN stream' : stream'[i].label = l
    <3>1. CASE UNCHANGED stream /\ ~inst[l].watched
      BY <3>1
    <3>2. CASE \E status \in {"EXIT", "USER"} : stream' = Append(stream, [label |-> l, status |-> status])
      <4>1. PICK status \in {"EXIT", "USER"} : stream' = Append(stream, [label |-> l, status |-> status])
        BY <3>2
      <4>2. Len(stream) + 1 \in DOMAIN stream' /\ stream'[Len(stream) + 1].label = l
        BY <1>1, <4>1
      <4>3. \A i \in DOMAIN stream : i \in DOMAIN stream' /\ stream'[i] = stream[i]
        BY <1>1, <4>1
      <4> QED BY <4>2, <4>3
    <3> QED BY <1>4, <3>1, <3>2 DEF Ends
  <2>3. ASSUME NEW x \in DOMAIN registered, Over(x)' PROVE Over(x)
    <3>1. x # l
      BY <1>3, <2>2, <2>3 DEF Over
    <3>2. Runs(x) => Runs(x)'
      BY <1>1, <2>1, <3>1 DEF Runs, IsMap
    <3> QED BY <2>2, <2>3, <3>2 DEF Over
  <2> QED BY <2>1, <2>3
<1>6. ASSUME NEW n \in Names, NEW l \in OtherLabels, NEW kind \in {"service", "event"},
             OthersStart(n, l, kind)
      PROVE  \A x \in DOMAIN registered : Over(x)' => Over(x)
  <2>1. inst' = With(inst, l, Started(n, kind, FALSE)) /\ l \notin DOMAIN inst /\ UNCHANGED stream
    BY <1>6 DEF OthersStart
  <2>2. ASSUME NEW x, Runs(x) PROVE Runs(x)'
    BY <1>1, <2>1, <2>2 DEF Runs, IsMap, With
  <2> QED BY <2>1, <2>2 DEF Over
<1>7. \A x \in DOMAIN registered : Over(x)' => Over(x)
  BY <1>4, <1>6 DEF Daemon
<1> QED BY <1>2, <1>7, TellingApart

LEMMA TellingStep == Telling /\ [Next]_vars => Telling'
<1> SUFFICES ASSUME Telling, [Next]_vars PROVE Telling'
  OBVIOUS
<1>1. /\ Placement /\ Placement' /\ Typed /\ pc \in [Everyone -> Position]
      /\ call \in [Everyone -> Call] /\ IsMap(objs, Objects, Object)
  BY PlacementStep DEF Telling, Placement, Typed, TypeOK
<1>2. ASSUME NEW t \in Everyone, Begin(t) PROVE Telling'
  BY <1>1, <1>2, TellingBegins
<1>3. ASSUME NEW t \in Everyone, SetError(t) PROVE Telling'
  <2>1. pc[t] = "returned" /\ UNCHANGED <<registered, daemon, history>>
        /\ \A u \in Everyone \ {t} : pc'[u] = pc[u] /\ call'[u] = call[u]
    BY <1>1, <1>3 DEF SetError, Idle, Goto
  <2>2. /\ ObjsKept /\ OthersKept(call[t].obj)
        /\ objs'[call[t].obj] = [objs[call[t].obj] EXCEPT !.mError = result_to_error(objs[call[t].obj].mRlt)]
    BY <1>1, <1>3, TypeSetError
  <2>3. \A p \in DOMAIN objs : objs'[p].mCmd = objs[p].mCmd
    <3>1. \A p \in DOMAIN objs : objs[p] \in Object
      BY <1>1 DEF IsMap
    <3> QED BY <2>2, <3>1 DEF OthersKept, Object
  <2>4. \A p : Inserting(p) => Inserting(p)'
    BY <2>1, InsertingStays
  <2>5. Recorded /\ \A x : Over(x)' => Over(x)
    BY <2>1 DEF Recorded, Over, Runs, daemon, history
  <2> QED BY <1>1, <2>1, <2>2, <2>3, <2>4, <2>5, TellingApart DEF OthersKept
<1>4. ASSUME NEW t \in Everyone, Continue(t) PROVE Telling'
  BY <1>1, <1>3, <1>4, TellingAsks, TellingRegisters, TellingSends, TellingUnregisters DEF Continue
<1>5. CASE Receive
  BY <1>1, <1>5, TellingReceives
<1>6. CASE Daemon
  BY <1>1, <1>6, TellingDaemon
<1>7. CASE CallbackReturns \/ UNCHANGED vars
  <2>1. UNCHANGED <<objs, registered, threads, daemon, history>>
    BY <1>7 DEF CallbackReturns, vars, library
  <2>2. /\ ObjsKept /\ Recorded /\ (\A x : Over(x)' => Over(x))
        /\ \A p : Inserting(p) => Inserting(p)'
    BY <1>1, <2>1 DEF ObjsKept, Recorded, Over, Runs, Inserting, threads, daemon, history
  <2> QED BY <1>1, <2>1, <2>2, TellingApart
<1> QED BY <1>2, <1>4, <1>5, <1>6, <1>7 DEF Next

\* When what an object stands for has ended and no response about it is on its way,
\* the application has been told, or has stopped or closed the object itself, or the
\* object is one of several of its label, or came late into the maps or is on its
\* way there.
THEOREM ToldCorrect == Spec => []NotTold
<1>1. Init => Telling
  BY PlacementInit DEF Init, Telling
<1>2. Telling => NotTold
  <2> SUFFICES ASSUME Telling, NEW o \in DOMAIN objs, objs[o].sender, Over(objs[o].label)
               PROVE  \/ o \in told \cup released \cup late
                      \/ Twins(o) # {} \/ Inserting(o)
    BY DEF NotTold
  <2>1. Kept(o)
    BY DEF Telling
  <2>2. CASE Settled(o) \/ Inserting(o)
    BY <2>2 DEF Settled
  <2>3. CASE objs[o].label \in DOMAIN registered /\ registered[objs[o].label] = o
    <3>1. Heard(objs[o].label)
      BY <2>3 DEF Telling
    <3> QED BY <2>3, <3>1 DEF Heard, Settled
  <2> QED BY <2>1, <2>2, <2>3 DEF Kept
<1> QED BY <1>1, <1>2, TellingStep, PTL DEF Spec
=============================================================================
