------------------------ MODULE NormalExcutorProofs ------------------------
(***************************************************************************)
(* What holds of the command executor for any number of clients, commands  *)
(* and descriptors.  The inductive invariant IInv says, besides the        *)
(* properties, that a list holds labels of its client's commands only      *)
(* (ListsOwn) and that what DESTROY has yet to close is in todo or being   *)
(* closed (DestroyPlan).                                                   *)
(***************************************************************************)
EXTENDS NormalExcutor, TLAPS

\* A client's list holds labels of its own commands only.
ListsOwn == \A c \in DOMAIN mClientCmd : \A k \in mClientCmd[c] : info[k].writer = c

\* DESTROY has its client's commands, all of them and no others, before it.
DestroyPlan ==
    /\ pc = "destroy" => msg.type = "DESTROY"
    /\ msg.type = "DESTROY" =>
          /\ \A k \in todo : info[k].writer = msg.client
          /\ \A k \in mSeqCmd : info[k].writer = msg.client => k \in todo \cup {closing}
          /\ closing # None => info[closing].writer = msg.client

IInv ==
    /\ TypeOK
    /\ NothingLeftBehind
    /\ ListedUnderStarter
    /\ ListsOwn
    /\ DestroyPlan

\* Since the kill time is the shorter one, sace_pclose never gives up.
LEMMA NeverGivesUp == \A w \in Nat : AfterSleep(w) # "give up"
BY TimesAssumption DEF AfterSleep

-----------------------------------------------------------------------------
(* The shape of the state *)

\* The initial state has the right shape.
LEMMA TypeInit == Init => TypeOK
BY DEF Init, TypeOK, IsMap

\* Adding a key of the right type to a map, or taking one out, keeps its type.
LEMMA MapKept ==
    ASSUME NEW K, NEW V, NEW f, IsMap(f, K, V), NEW k \in K, NEW v \in V
    PROVE  IsMap(With(f, k, v), K, V) /\ IsMap(Without(f, k), K, V)
BY DEF IsMap, With, Without

\* Beginning to close a known command keeps the shape, if the message does.
LEMMA TypeBegin ==
    ASSUME TypeOK, NEW l \in mSeqCmd, BeginClose(l), msg' \in Message,
           todo' \subseteq DOMAIN info, UNCHANGED <<tables, fds, proc, result>>
    PROVE  TypeOK'
<1> DEFINE fd == info[l].fd
<1>1. l \in DOMAIN info /\ fd \in Fds
  BY DEF TypeOK, IsMap, CommandInfo
<1>2. IsMap(Without(pidlist, fd), Fds, DOMAIN proc)
  BY DEF TypeOK, IsMap, Without
<1>3. pid' \in DOMAIN proc \cup {None}
  BY DEF BeginClose, TypeOK, IsMap
<1>4. /\ UNCHANGED <<info, mRunningCmd, mSeqCmd, mClientCmd, fds, proc, result>>
      /\ pc' = "pclose" /\ closing' = l /\ waited' = 0
      /\ pidlist' = Without(pidlist, fd)
  BY DEF BeginClose, tables
<1> QED BY <1>1, <1>2, <1>3, <1>4 DEF TypeOK, IsMap

\* No step of the executor or of a process spoils the shape.
LEMMA TypeStep == TypeOK /\ [Next]_vars => TypeOK'
<1> SUFFICES ASSUME TypeOK, [Next]_vars PROVE TypeOK'
  OBVIOUS
<1> USE NoneAssumption
<1>1. ASSUME NEW c \in Clients, StartFails(c) PROVE TypeOK'
  BY <1>1 DEF StartFails, Answer, Waiting, tables, pipes, pclose, TypeOK, IsMap, Result
<1>2. ASSUME NEW c \in Clients, NEW k \in Commands, NEW f \in Fds, Start(c, k, f)
      PROVE  TypeOK'
  <2>1. IsMap(info', Commands, CommandInfo) /\ DOMAIN info' = DOMAIN info \cup {k}
    <3>1. [fd |-> f, writer |-> c] \in CommandInfo
      BY DEF CommandInfo
    <3>2. info' = With(info, k, [fd |-> f, writer |-> c])
      BY <1>2 DEF Start
    <3>3. DOMAIN info' = DOMAIN info \cup {k}
      BY <3>2 DEF With
    <3> QED BY <3>1, <3>2, <3>3, MapKept DEF TypeOK
  <2>2. IsMap(proc', Commands, Process) /\ DOMAIN proc' = DOMAIN info'
    <3>1. [life |-> "run", killed |-> FALSE] \in Process
      BY DEF Process
    <3>2. proc' = With(proc, k, [life |-> "run", killed |-> FALSE])
      BY <1>2 DEF Start
    <3>3. DOMAIN proc' = DOMAIN proc \cup {k}
      BY <3>2 DEF With
    <3> QED BY <2>1, <3>1, <3>2, <3>3, MapKept DEF TypeOK
  <2>3. IsMap(mClientCmd', Clients, SUBSET DOMAIN info')
    BY <1>2, <2>1 DEF Start, TypeOK, IsMap, With, Listed
  <2>4. IsMap(pidlist', Fds, DOMAIN proc')
    BY <1>2, <2>1, <2>2 DEF Start, TypeOK, IsMap, With
  <2>5. mSeqCmd' \subseteq DOMAIN info' /\ fds' \subseteq Fds /\ result' \in Result
    BY <1>2, <2>1 DEF Start, TypeOK, Answer, Result
  <2>6. UNCHANGED <<pc, msg, todo, closing, pid, waited>> /\ pc = "wait"
    BY <1>2 DEF Start, Waiting, pclose
  <2> QED BY <2>1, <2>2, <2>3, <2>4, <2>5, <2>6 DEF TypeOK
<1>3. ASSUME NEW c \in Clients, NEW l \in Commands, CloseUnknown(c, l) PROVE TypeOK'
  BY <1>3 DEF CloseUnknown, Answer, Waiting, tables, pipes, pclose, TypeOK, IsMap, Result
<1>4. ASSUME NEW c \in Clients, NEW l \in Commands, Close(c, l) PROVE TypeOK'
  <2>1. l \in mSeqCmd /\ BeginClose(l) /\ UNCHANGED <<tables, fds, proc, todo, result>>
    BY <1>4 DEF Close
  <2>2. msg' \in Message /\ todo' \subseteq DOMAIN info
    BY <1>4, <2>1 DEF Close, Message, TypeOK
  <2> QED BY <2>1, <2>2, TypeBegin
<1>5. ASSUME NEW c \in Clients, Destroy(c) PROVE TypeOK'
  BY <1>5 DEF Destroy, LabelsOf, Waiting, tables, pipes, pclose, TypeOK, IsMap, Message
<1>6. CASE UNCHANGED vars
  BY <1>6 DEF vars, tables, pipes, pclose, TypeOK, IsMap
<1>7. CASE Sleep
  <2>1. proc' = [proc EXCEPT ![pid].killed = proc[pid].killed \/ AfterSleep(waited') = "kill"]
    BY <1>7 DEF Sleep
  <2>2. pid \in DOMAIN proc /\ proc[pid] \in Process
    BY <1>7 DEF Sleep, TypeOK, IsMap
  <2>3. IsMap(proc', Commands, Process) /\ DOMAIN proc' = DOMAIN proc
    BY <2>1, <2>2 DEF TypeOK, IsMap, Process
  <2>4. waited' \in Nat /\ pid' \in DOMAIN proc \cup {None}
    <3>1. waited' = waited \/ waited' = waited + 1
      BY <1>7 DEF Sleep
    <3>2. pid' = pid \/ pid' = None
      BY <1>7 DEF Sleep
    <3> QED BY <3>1, <3>2 DEF TypeOK
  <2>5. UNCHANGED <<info, mRunningCmd, mSeqCmd, mClientCmd, pidlist, fds, pc, msg, todo,
                    closing, result>>
    BY <1>7 DEF Sleep, tables, pipes
  <2> QED BY <2>3, <2>4, <2>5 DEF TypeOK, IsMap
<1>8. ASSUME EndClose PROVE /\ IsMap(proc', Commands, Process)
                            /\ DOMAIN proc' = DOMAIN proc
                            /\ mSeqCmd' \subseteq DOMAIN info /\ fds' \subseteq Fds
                            /\ closing' = None /\ pid' = None /\ waited' = 0
                            /\ UNCHANGED <<info, pidlist>>
  <2>1. IsMap(proc', Commands, Process) /\ DOMAIN proc' = DOMAIN proc
    <3>1. CASE pid = None
      BY <3>1, <1>8 DEF EndClose, TypeOK
    <3>2. CASE pid # None
      <4>1. pid \in DOMAIN proc /\ proc[pid] \in Process
        BY <3>2 DEF TypeOK, IsMap
      <4>2. \E x \in {"run", "zombie", "reaped"} : proc' = [proc EXCEPT ![pid].life = x]
        BY <1>8, <3>2, <4>1 DEF EndClose, Process
      <4> QED BY <4>1, <4>2 DEF TypeOK, IsMap, Process
    <3> QED BY <3>1, <3>2
  <2> QED BY <1>8, <2>1 DEF EndClose, TypeOK
<1>9. CASE Closed
  <2>1. EndClose /\ msg \in Message /\ pc' = "wait" /\ msg' = NoMessage
    BY <1>9 DEF Closed, EndClose, TypeOK
  <2>2. IsMap(mClientCmd', Clients, SUBSET DOMAIN info)
    <3>1. mClientCmd' = Unlist(msg.client, closing)
      BY <1>9 DEF Closed
    <3> QED BY <3>1 DEF Unlist, Without, TypeOK, IsMap
  <2>3. result' \in Result /\ UNCHANGED todo
    BY <1>9, <2>1 DEF Closed, Answer, Result, Message
  <2> QED BY <1>8, <2>1, <2>2, <2>3 DEF TypeOK, IsMap
<1>10. CASE DestroyClosed
  <2>1. EndClose /\ msg \in Message /\ pc' = "destroy" /\ UNCHANGED <<mClientCmd, msg, todo, result>>
    BY <1>10 DEF DestroyClosed, EndClose, TypeOK
  <2> QED BY <1>8, <2>1 DEF TypeOK, IsMap
<1>11. CASE DestroyEnd
  BY <1>11 DEF DestroyEnd, Without, pipes, pclose, TypeOK, IsMap
<1>12. ASSUME NEW l \in todo, DestroyUnknown(l) PROVE TypeOK'
  BY <1>12 DEF DestroyUnknown, LeftAfterUnknown, tables, pipes, pclose, TypeOK, IsMap
<1>13. ASSUME NEW l \in todo, DestroyNext(l) PROVE TypeOK'
  <2>1. l \in mSeqCmd /\ BeginClose(l) /\ UNCHANGED <<tables, fds, proc, result>>
    BY <1>13 DEF DestroyNext, ToClose
  <2>2. msg' \in Message /\ todo' \subseteq DOMAIN info
    BY <1>13 DEF DestroyNext, TypeOK
  <2> QED BY <2>1, <2>2, TypeBegin
<1>14. ASSUME NEW k \in Commands, End(k) PROVE TypeOK'
  BY <1>14 DEF End, tables, pipes, pclose, TypeOK, IsMap, Process
<1> QED BY <1>1, <1>2, <1>3, <1>4, <1>5, <1>6, <1>7, <1>9, <1>10, <1>11, <1>12, <1>13, <1>14
        DEF Next, Handle, Continue, DestroyNone

\* Every reachable state has the shape TypeOK.
THEOREM TypeCorrect == Spec => []TypeOK
BY TypeInit, TypeStep, PTL DEF Spec

-----------------------------------------------------------------------------
(* The invariant *)

\* The invariant holds at the start.
LEMMA IInvInit == Init => IInv
<1> SUFFICES ASSUME Init PROVE IInv
  OBVIOUS
<1>1. TypeOK
  BY TypeInit
<1>2. mSeqCmd = {} /\ mRunningCmd = {} /\ fds = {} /\ DOMAIN proc = {} /\ DOMAIN mClientCmd = {}
  BY DEF Init
<1>3. pc = "wait" /\ msg.type = "NONE"
  BY DEF Init, NoMessage
<1> QED BY <1>1, <1>2, <1>3
        DEF IInv, NothingLeftBehind, ListedUnderStarter, ListsOwn, DestroyPlan

\* Beginning to close a known command takes its record out of pidlist, and
\* waits for the process of that record.
LEMMA HeldBegin ==
    ASSUME TypeOK, NothingLeftBehind, pc # "pclose", NEW l \in mSeqCmd, BeginClose(l),
           UNCHANGED <<tables, fds, proc>>
    PROVE  NothingLeftBehind'
<1>1. UNCHANGED <<info, mRunningCmd, mSeqCmd, fds, proc>>
  BY DEF tables
<1>2. closing = None /\ None \notin mSeqCmd
  BY NoneAssumption DEF TypeOK, IsMap
<1>3. closing' = l /\ pidlist' = Without(pidlist, info[l].fd) /\ pid' = l
  BY <1>2 DEF BeginClose, NothingLeftBehind
<1>4. ASSUME NEW k \in mSeqCmd, k # l
      PROVE  info[k].fd \in DOMAIN pidlist' /\ pidlist'[info[k].fd] = k
  BY <1>2, <1>3, <1>4 DEF NothingLeftBehind, Without
<1> QED BY <1>1, <1>3, <1>4 DEF NothingLeftBehind

\* The end of a close takes the command out everywhere, its process reaped.
LEMMA HeldEnd ==
    ASSUME TypeOK, NothingLeftBehind, pc = "pclose", EndClose
    PROVE  NothingLeftBehind'
<1>1. closing \in mSeqCmd /\ closing # None /\ pid = closing /\ closing \in DOMAIN proc
  BY NoneAssumption DEF TypeOK, NothingLeftBehind, IsMap
<1>2. proc[closing].life = "zombie"
  BY <1>1 DEF EndClose, Ended
<1>3. proc' = [proc EXCEPT ![closing].life = "reaped"]
  BY <1>1, <1>2 DEF EndClose
<1>4. /\ mSeqCmd' = mSeqCmd \ {closing} /\ mRunningCmd' = mRunningCmd \ {closing}
      /\ fds' = fds \ {info[closing].fd} /\ closing' = None
      /\ UNCHANGED <<info, pidlist>>
  BY <1>1 DEF EndClose, Unrecorded
<1>5. \A k \in DOMAIN proc' : k \in mSeqCmd' \/ proc'[k].life = "reaped"
  BY <1>1, <1>3, <1>4 DEF NothingLeftBehind, TypeOK, IsMap, Process
<1>6. fds' = {info'[k].fd : k \in mSeqCmd'}
  BY <1>1, <1>4 DEF NothingLeftBehind
<1>7. None \notin mSeqCmd
  BY NoneAssumption DEF TypeOK, IsMap
<1> QED BY <1>4, <1>5, <1>6, <1>7 DEF NothingLeftBehind

\* No step leaves a process or a pipe behind.
LEMMA HeldStep == TypeOK /\ NothingLeftBehind /\ [Next]_vars => NothingLeftBehind'
<1> SUFFICES ASSUME TypeOK, NothingLeftBehind, [Next]_vars PROVE NothingLeftBehind'
  OBVIOUS
<1>0. None \notin mSeqCmd /\ None \notin Commands
  BY NoneAssumption DEF TypeOK, IsMap
<1>1. ASSUME UNCHANGED <<info, mRunningCmd, mSeqCmd, pidlist, fds, closing, pid, proc>>
      PROVE  NothingLeftBehind'
  BY <1>1 DEF NothingLeftBehind
<1>2. ASSUME NEW c \in Clients, NEW k \in Commands, NEW f \in Fds, Start(c, k, f)
      PROVE  NothingLeftBehind'
  <2>1. closing = None /\ closing' = None /\ k \notin DOMAIN info /\ f \notin fds
    BY <1>2 DEF Start, Waiting, TypeOK, pclose
  <2>2. /\ mSeqCmd' = mSeqCmd \cup {k} /\ mRunningCmd' = mRunningCmd \cup {k}
        /\ fds' = fds \cup {f}
        /\ info'[k].fd = f /\ \A j \in mSeqCmd : info'[j] = info[j]
        /\ pidlist' = With(pidlist, f, k)
        /\ proc' = With(proc, k, [life |-> "run", killed |-> FALSE])
    BY <1>2, <2>1 DEF Start, With, TypeOK
  <2>3. \A j \in mSeqCmd : info[j].fd # f /\ j # k
    BY <2>1 DEF NothingLeftBehind, TypeOK
  <2>4. \A j \in DOMAIN proc' : j \in mSeqCmd' \/ proc'[j].life = "reaped"
    BY <2>2 DEF With, NothingLeftBehind
  <2>5. fds' = {info'[j].fd : j \in mSeqCmd'}
    BY <2>2 DEF NothingLeftBehind
  <2>6. \A i, j \in mSeqCmd' : info'[i].fd = info'[j].fd => i = j
    BY <2>2, <2>3 DEF NothingLeftBehind
  <2>7. \A j \in mSeqCmd' : info'[j].fd \in DOMAIN pidlist' /\ pidlist'[info'[j].fd] = j
    BY <1>0, <2>1, <2>2, <2>3 DEF NothingLeftBehind, With
  <2> QED BY <1>0, <2>1, <2>2, <2>4, <2>5, <2>6, <2>7 DEF NothingLeftBehind
<1>3. ASSUME NEW c \in Clients, NEW l \in Commands, Close(c, l) PROVE NothingLeftBehind'
  BY <1>3, HeldBegin DEF Close, Waiting
<1>4. ASSUME NEW l \in todo, DestroyNext(l) PROVE NothingLeftBehind'
  BY <1>4, HeldBegin DEF DestroyNext, ToClose
<1>5. CASE Closed \/ DestroyClosed
  BY <1>5, HeldEnd DEF Closed, DestroyClosed, EndClose
<1>6. CASE Sleep
  <2>1. UNCHANGED <<info, mRunningCmd, mSeqCmd, pidlist, fds, closing>>
    BY <1>6 DEF Sleep, tables, pipes
  <2>2. waited' \in Nat
    BY TypeStep DEF TypeOK
  <2>3. pid' = pid
    BY <1>6, <2>2, NeverGivesUp DEF Sleep
  <2>4. pid \in DOMAIN proc /\ DOMAIN proc' = DOMAIN proc
        /\ \A k \in DOMAIN proc : proc'[k].life = proc[k].life
    BY <1>6 DEF Sleep, TypeOK, IsMap, Process
  <2> QED BY <2>1, <2>3, <2>4 DEF NothingLeftBehind
<1>7. ASSUME NEW k \in Commands, End(k) PROVE NothingLeftBehind'
  <2>1. UNCHANGED <<info, mRunningCmd, mSeqCmd, pidlist, fds, closing, pid>>
    BY <1>7 DEF End, tables, pipes, pclose
  <2>2. DOMAIN proc' = DOMAIN proc
        /\ \A j \in DOMAIN proc : proc[j].life = "reaped" => proc'[j].life = "reaped"
    BY <1>7 DEF End, TypeOK, IsMap, Process
  <2> QED BY <2>1, <2>2 DEF NothingLeftBehind
<1>8. ASSUME NEW c \in Clients, NEW l \in Commands,
             StartFails(c) \/ CloseUnknown(c, l) \/ Destroy(c) \/ DestroyNone(c)
      PROVE  NothingLeftBehind'
  BY <1>1, <1>8 DEF StartFails, CloseUnknown, Destroy, DestroyNone, vars, tables, pipes, pclose
<1>9. ASSUME NEW c \in Clients, StartFails(c) \/ Destroy(c) \/ DestroyNone(c)
      PROVE  NothingLeftBehind'
  BY <1>1, <1>9 DEF StartFails, Destroy, DestroyNone, vars, tables, pipes, pclose
<1>10. ASSUME DestroyEnd \/ (\E l \in todo : DestroyUnknown(l)) \/ UNCHANGED vars
       PROVE  NothingLeftBehind'
  BY <1>1, <1>10 DEF DestroyEnd, DestroyUnknown, vars, tables, pipes, pclose
<1> QED BY <1>2, <1>3, <1>4, <1>5, <1>6, <1>7, <1>8, <1>9, <1>10 DEF Next, Handle, Continue

\* Only sace_pclose sends SIGKILL, to the process it waits for and from the kill
\* time on; a process that it stops waiting for has been reaped.
LEMMA KillStep ==
    TypeOK /\ NothingLeftBehind /\ KillsWhatItCloses /\ [Next]_vars => KillsWhatItCloses'
<1> SUFFICES ASSUME TypeOK, NothingLeftBehind, KillsWhatItCloses, [Next]_vars
             PROVE  KillsWhatItCloses'
  OBVIOUS
<1>0. /\ None \notin Commands /\ \A k \in DOMAIN proc : proc[k] \in Process /\ k \in Commands
      /\ waited \in Nat /\ KillTime \in Nat /\ MaxWait \in Nat /\ KillTime < MaxWait
  BY NoneAssumption, TimesAssumption DEF TypeOK, IsMap
<1>1. ASSUME UNCHANGED <<proc, closing, waited>> PROVE KillsWhatItCloses'
  BY <1>1 DEF KillsWhatItCloses
<1>2. ASSUME NEW c \in Clients, NEW k \in Commands, NEW f \in Fds, Start(c, k, f)
      PROVE  KillsWhatItCloses'
  <2>1. /\ closing = None /\ UNCHANGED <<closing, waited>>
        /\ proc' = With(proc, k, [life |-> "run", killed |-> FALSE])
    BY <1>2 DEF Start, Waiting, TypeOK, pclose
  <2>2. DOMAIN proc' = DOMAIN proc \cup {k} /\ ~proc'[k].killed
        /\ \A j \in DOMAIN proc \ {k} : proc'[j] = proc[j]
    BY <2>1 DEF With
  <2> QED BY <1>0, <2>1, <2>2 DEF KillsWhatItCloses
<1>3. ASSUME NEW l, BeginClose(l), UNCHANGED proc, pc # "pclose" PROVE KillsWhatItCloses'
  <2>1. closing = None /\ waited' = 0
    BY <1>3 DEF TypeOK, BeginClose
  <2> QED BY <1>0, <1>3, <2>1 DEF KillsWhatItCloses
<1>4. CASE Sleep
  <2>1. /\ pc = "pclose" /\ pid \in DOMAIN proc /\ proc[pid].life = "run" /\ closing' = closing
        /\ waited' = IF waited < MaxWait THEN waited + 1 ELSE waited
        /\ proc' = [proc EXCEPT ![pid].killed = @ \/ AfterSleep(waited') = "kill"]
    BY <1>4 DEF Sleep, TypeOK
  <2>2. pid = closing
    BY <2>1 DEF TypeOK, NothingLeftBehind
  <2>3. waited' \in Nat /\ waited' > 0 /\ waited' >= waited
    BY <1>0, <2>1
  <2>4. (AfterSleep(waited') = "kill") <=> waited' >= KillTime
    BY <1>0, <2>3 DEF AfterSleep
  <2>5. /\ DOMAIN proc' = DOMAIN proc /\ \A j \in DOMAIN proc \ {pid} : proc'[j] = proc[j]
        /\ proc'[pid].killed = (proc[pid].killed \/ AfterSleep(waited') = "kill")
    BY <1>0, <2>1 DEF Process
  <2>6. proc[pid].killed <=> waited > 0 /\ waited >= KillTime
    BY <2>1, <2>2 DEF KillsWhatItCloses
  <2>7. proc'[pid].killed <=> waited' >= KillTime
    <3>1. waited >= KillTime => waited' >= KillTime
      BY <1>0, <2>3
    <3>2. proc[pid].killed \in BOOLEAN
      BY <1>0, <2>1 DEF Process
    <3> QED BY <2>4, <2>5, <2>6, <3>1, <3>2
  <2>8. ASSUME NEW j \in DOMAIN proc \ {pid}, proc'[j].life # "reaped" PROVE ~proc'[j].killed
    BY <2>2, <2>5, <2>8 DEF KillsWhatItCloses
  <2> QED BY <2>1, <2>2, <2>3, <2>5, <2>7, <2>8 DEF KillsWhatItCloses
<1>5. CASE Closed \/ DestroyClosed
  <2>1. /\ pc = "pclose" /\ Ended /\ closing' = None
        /\ proc' = IF pid = None THEN proc
                   ELSE [proc EXCEPT ![pid].life = IF @ = "zombie" THEN "reaped" ELSE @]
    BY <1>5 DEF Closed, DestroyClosed, EndClose
  <2>2. pid = closing /\ closing \in DOMAIN proc
    BY <2>1 DEF TypeOK, NothingLeftBehind
  <2>3. /\ DOMAIN proc' = DOMAIN proc /\ \A j \in DOMAIN proc \ {pid} : proc'[j] = proc[j]
        /\ proc'[pid].life = "reaped"
    BY <1>0, <2>1, <2>2 DEF Ended, Process
  <2>4. ASSUME NEW j \in DOMAIN proc \ {pid}, proc'[j].life # "reaped" PROVE ~proc'[j].killed
    BY <2>2, <2>3, <2>4 DEF KillsWhatItCloses
  <2> QED BY <1>0, <2>1, <2>3, <2>4 DEF KillsWhatItCloses
<1>6. ASSUME NEW k \in Commands, End(k) PROVE KillsWhatItCloses'
  <2>1. /\ UNCHANGED <<closing, waited>> /\ k \in DOMAIN proc /\ proc[k].life = "run"
        /\ proc' = [proc EXCEPT ![k].life = "zombie"]
    BY <1>6 DEF End, pclose
  <2>2. /\ DOMAIN proc' = DOMAIN proc /\ \A j \in DOMAIN proc \ {k} : proc'[j] = proc[j]
        /\ proc'[k].killed = proc[k].killed
    BY <1>0, <2>1 DEF Process
  <2> QED BY <2>1, <2>2 DEF KillsWhatItCloses
<1>7. ASSUME NEW c \in Clients, \/ StartFails(c) \/ Destroy(c) \/ DestroyNone(c)
                                \/ \E l \in Commands : CloseUnknown(c, l)
      PROVE  KillsWhatItCloses'
  BY <1>1, <1>7 DEF StartFails, CloseUnknown, Destroy, DestroyNone, vars, pclose
<1>8. ASSUME DestroyEnd \/ (\E l \in todo : DestroyUnknown(l)) \/ UNCHANGED vars
      PROVE  KillsWhatItCloses'
  BY <1>1, <1>8 DEF DestroyEnd, DestroyUnknown, vars, pclose
<1>9. ASSUME NEW c \in Clients, NEW l \in Commands, Close(c, l) PROVE KillsWhatItCloses'
  BY <1>3, <1>9 DEF Close, Waiting
<1>10. ASSUME NEW l \in todo, DestroyNext(l) PROVE KillsWhatItCloses'
  BY <1>3, <1>10 DEF DestroyNext
<1> QED BY <1>2, <1>4, <1>5, <1>6, <1>7, <1>8, <1>9, <1>10 DEF Next, Handle, Continue

\* Beginning to close a command leaves lists and owners alone; DESTROY moves the
\* command from todo to closing.
LEMMA ListsBegin ==
    ASSUME IInv, pc # "pclose", NEW l \in mSeqCmd, BeginClose(l), UNCHANGED tables,
           \/ msg'.type = "CLOSE"
           \/ msg' = msg /\ l \in todo /\ todo' = todo \ {l}
    PROVE  ListedUnderStarter' /\ ListsOwn' /\ DestroyPlan'
<1>1. UNCHANGED <<info, mRunningCmd, mSeqCmd, mClientCmd>> /\ pc' = "pclose" /\ closing' = l
  BY DEF tables, BeginClose
<1>2. ListedUnderStarter' /\ ListsOwn'
  BY <1>1 DEF IInv, ListedUnderStarter, ListsOwn, Listed
<1>3. closing = None /\ None \notin mSeqCmd
  BY NoneAssumption DEF IInv, TypeOK, IsMap
<1>4. CASE msg'.type = "CLOSE"
  BY <1>1, <1>2, <1>4 DEF DestroyPlan
<1>5. CASE msg' = msg /\ l \in todo /\ todo' = todo \ {l}
  BY <1>1, <1>2, <1>3, <1>5 DEF DestroyPlan, IInv
<1> QED BY <1>4, <1>5

\* No step loses a command from its client's list or files it elsewhere, and
\* DESTROY keeps its plan.
LEMMA ListsStep ==
    IInv /\ [Next]_vars => ListedUnderStarter' /\ ListsOwn' /\ DestroyPlan'
<1> SUFFICES ASSUME IInv, [Next]_vars
             PROVE  ListedUnderStarter' /\ ListsOwn' /\ DestroyPlan'
  OBVIOUS
<1>0. TypeOK /\ None \notin mSeqCmd /\ None \notin Commands
  BY NoneAssumption DEF IInv, TypeOK, IsMap
<1>1. ASSUME UNCHANGED <<info, mSeqCmd, mClientCmd, pc, msg, todo, closing>>
      PROVE  ListedUnderStarter' /\ ListsOwn' /\ DestroyPlan'
  BY <1>1 DEF IInv, ListedUnderStarter, ListsOwn, DestroyPlan, Listed
<1>2. ASSUME NEW c \in Clients, NEW k \in Commands, NEW f \in Fds, Start(c, k, f)
      PROVE  ListedUnderStarter' /\ ListsOwn' /\ DestroyPlan'
  <2>1. pc = "wait" /\ msg.type = "NONE" /\ k \notin DOMAIN info
        /\ UNCHANGED <<pc, msg>>
    BY <1>0, <1>2 DEF Start, Waiting, TypeOK, NoMessage
  <2>2. /\ mSeqCmd' = mSeqCmd \cup {k} /\ info'[k].writer = c
        /\ \A j \in DOMAIN info : info'[j] = info[j]
        /\ mSeqCmd \subseteq DOMAIN info
        /\ mClientCmd' = With(mClientCmd, c, Listed(c) \cup {k})
    BY <1>0, <1>2, <2>1 DEF Start, With, TypeOK
  <2>3. /\ DOMAIN mClientCmd' = DOMAIN mClientCmd \cup {c}
        /\ mClientCmd'[c] = Listed(c) \cup {k}
        /\ \A d \in DOMAIN mClientCmd \ {c} : mClientCmd'[d] = mClientCmd[d]
    BY <2>2 DEF With
  <2>4. \A d \in DOMAIN mClientCmd : mClientCmd[d] \subseteq DOMAIN info
    BY <1>0 DEF TypeOK, IsMap
  <2>5. ListedUnderStarter'
    BY <2>2, <2>3 DEF IInv, ListedUnderStarter, Listed
  <2>6. ListsOwn'
    <3> SUFFICES ASSUME NEW d \in DOMAIN mClientCmd', NEW j \in mClientCmd'[d]
                 PROVE  info'[j].writer = d
      BY DEF ListsOwn
    <3>1. CASE d = c /\ j = k
      BY <2>2, <3>1
    <3>2. CASE ~(d = c /\ j = k)
      <4>1. d \in DOMAIN mClientCmd /\ j \in mClientCmd[d]
        BY <2>3, <3>2 DEF Listed
      <4>2. info[j].writer = d /\ j \in DOMAIN info
        BY <2>4, <4>1 DEF IInv, ListsOwn
      <4> QED BY <2>2, <4>2
    <3> QED BY <3>1, <3>2
  <2> QED BY <2>1, <2>5, <2>6 DEF DestroyPlan
<1>3. ASSUME NEW c \in Clients, NEW l \in Commands, Close(c, l)
      PROVE  ListedUnderStarter' /\ ListsOwn' /\ DestroyPlan'
  BY <1>3, ListsBegin DEF Close, Waiting
<1>4. ASSUME NEW l \in todo, DestroyNext(l)
      PROVE  ListedUnderStarter' /\ ListsOwn' /\ DestroyPlan'
  BY <1>4, ListsBegin DEF DestroyNext, ToClose
<1>5. ASSUME NEW c \in Clients, Destroy(c)
      PROVE  ListedUnderStarter' /\ ListsOwn' /\ DestroyPlan'
  <2>1. /\ UNCHANGED <<info, mSeqCmd, mClientCmd, closing>> /\ closing = None
        /\ c \in DOMAIN mClientCmd /\ todo' = mClientCmd[c]
        /\ pc' = "destroy" /\ msg' = [type |-> "DESTROY", client |-> c]
    BY <1>0, <1>5 DEF Destroy, LabelsOf, Waiting, TypeOK, tables, pclose
  <2>2. DestroyPlan'
    BY <2>1 DEF IInv, DestroyPlan, ListedUnderStarter, ListsOwn, Listed
  <2> QED BY <2>1, <2>2 DEF IInv, ListedUnderStarter, ListsOwn, Listed
<1>6. CASE Closed
  <2>1. /\ UNCHANGED info /\ mSeqCmd' = mSeqCmd \ {closing}
        /\ mClientCmd' = Unlist(msg.client, closing)
        /\ pc' = "wait" /\ msg'.type = "NONE"
    BY <1>6 DEF Closed, EndClose, NoMessage
  <2>2. /\ DOMAIN mClientCmd' \subseteq DOMAIN mClientCmd
        /\ \A d \in DOMAIN mClientCmd' : mClientCmd'[d] \subseteq mClientCmd[d]
        /\ \A d \in DOMAIN mClientCmd : \A k \in mClientCmd[d] \ {closing} :
              d \in DOMAIN mClientCmd' /\ k \in mClientCmd'[d]
    BY <2>1, <1>0 DEF Unlist, Without, TypeOK, IsMap
  <2>3. ListedUnderStarter'
    BY <2>1, <2>2 DEF IInv, ListedUnderStarter, Listed
  <2>4. ListsOwn'
    BY <2>1, <2>2 DEF IInv, ListsOwn
  <2> QED BY <2>1, <2>3, <2>4 DEF DestroyPlan
<1>7. CASE DestroyClosed
  <2>1. /\ UNCHANGED <<info, mClientCmd, msg, todo>> /\ mSeqCmd' = mSeqCmd \ {closing}
        /\ closing' = None /\ pc' = "destroy" /\ msg.type = "DESTROY"
    BY <1>7 DEF DestroyClosed, EndClose
  <2> QED BY <2>1 DEF IInv, ListedUnderStarter, ListsOwn, DestroyPlan, Listed
<1>8. CASE DestroyEnd
  <2>1. /\ UNCHANGED <<info, mSeqCmd>> /\ pc = "destroy" /\ closing = None /\ todo = {}
        /\ mClientCmd' = Without(mClientCmd, msg.client)
        /\ pc' = "wait" /\ msg'.type = "NONE"
    BY <1>0, <1>8 DEF DestroyEnd, TypeOK, NoMessage
  <2>2. \A k \in mSeqCmd : info[k].writer # msg.client
    BY <1>0, <2>1 DEF IInv, DestroyPlan
  <2>3. ListedUnderStarter' /\ ListsOwn'
    BY <2>1, <2>2 DEF IInv, ListedUnderStarter, ListsOwn, Listed, Without
  <2> QED BY <2>1, <2>3 DEF DestroyPlan
<1>9. ASSUME NEW l \in todo, DestroyUnknown(l)
      PROVE  ListedUnderStarter' /\ ListsOwn' /\ DestroyPlan'
  <2>1. /\ UNCHANGED <<info, mSeqCmd, mClientCmd, pc, msg, closing>>
        /\ l \notin mSeqCmd /\ todo' = todo \ {l}
    BY <1>9 DEF DestroyUnknown, LeftAfterUnknown, tables, pclose
  <2> QED BY <2>1 DEF IInv, ListedUnderStarter, ListsOwn, DestroyPlan, Listed
<1>10. ASSUME Sleep \/ UNCHANGED vars \/ (\E k \in Commands : End(k))
              \/ \E c \in Clients : \/ StartFails(c) \/ DestroyNone(c)
                                    \/ \E l \in Commands : CloseUnknown(c, l)
       PROVE  ListedUnderStarter' /\ ListsOwn' /\ DestroyPlan'
  BY <1>1, <1>10 DEF Sleep, End, StartFails, CloseUnknown, DestroyNone, vars, tables, pipes, pclose
<1> QED BY <1>2, <1>3, <1>4, <1>5, <1>6, <1>7, <1>8, <1>9, <1>10 DEF Next, Handle, Continue

\* The invariant is inductive.
LEMMA Inductive == Spec => []IInv
<1>1. IInv /\ [Next]_vars => IInv'
  BY TypeStep, HeldStep, ListsStep DEF IInv
<1> QED BY IInvInit, <1>1, PTL DEF Spec

-----------------------------------------------------------------------------
(* The properties *)

\* Every process of a command is reaped or known, and every pipe is that of one
\* known command.
THEOREM NothingIsLeftBehind == Spec => []NothingLeftBehind
<1>1. IInv => NothingLeftBehind
  BY DEF IInv
<1> QED BY Inductive, <1>1, PTL

\* SIGKILL is sent to the process of the command being closed, from the kill time
\* on, and to no other.
THEOREM KillsRight == Spec => []KillsWhatItCloses
<1>1. Init => KillsWhatItCloses
  BY DEF Init, KillsWhatItCloses
<1>2. IInv => TypeOK /\ NothingLeftBehind
  BY DEF IInv
<1> QED BY <1>1, <1>2, KillStep, Inductive, PTL DEF Spec

\* Every known command is in the list of the client that started it.
THEOREM AlwaysListed == Spec => []ListedUnderStarter
<1>1. IInv => ListedUnderStarter
  BY DEF IInv
<1> QED BY Inductive, <1>1, PTL

\* DESTROY closes its own client's commands only.
THEOREM AlwaysItsOwn == Spec => []DestroysItsOwn
<1>1. IInv => DestroysItsOwn
  BY DEF IInv, DestroyPlan, DestroysItsOwn
<1> QED BY Inductive, <1>1, PTL

\* Neither DESTROY nor SIGKILL reaches a command that is not meant.
THEOREM EndsRight == Spec => []EndsItsOwn
BY AlwaysItsOwn, KillsRight, PTL DEF EndsItsOwn

\* When DESTROY is done, none of the client's commands is left.
THEOREM NoneLeftAfterDestroy == Spec => DestroyLeavesNone
<1>1. IInv /\ [Next]_vars =>
        [pc = "destroy" /\ pc' = "wait" =>
            \A k \in mSeqCmd' : info[k].writer # msg.client]_vars
  <2> SUFFICES ASSUME IInv, Next, pc = "destroy", pc' = "wait"
               PROVE  \A k \in mSeqCmd' : info[k].writer # msg.client
    BY DEF vars
  <2>1. DestroyEnd
    BY DEF Next, Handle, Continue, StartFails, Start, CloseUnknown, Close, Destroy,
           DestroyNone, Waiting, Sleep, Closed, DestroyClosed, EndClose, DestroyUnknown,
           DestroyNext, BeginClose, End
  <2>2. mSeqCmd' = mSeqCmd /\ todo = {} /\ closing = None
    BY <2>1 DEF DestroyEnd, IInv, TypeOK
  <2>3. None \notin mSeqCmd
    BY NoneAssumption DEF IInv, TypeOK, IsMap
  <2> QED BY <2>2, <2>3 DEF IInv, DestroyPlan
<1> QED BY Inductive, <1>1, PTL DEF Spec, DestroyLeavesNone
=============================================================================
