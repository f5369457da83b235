------------------------ MODULE ServiceExcutorProofs ------------------------
(***************************************************************************)
(* What holds of the service executor for any number of services, clients  *)
(* and processes.  Three invariants build on each other: the shape of the  *)
(* state; that the tables agree, for which a label must hold the address   *)
(* of its cell (TablesInv); and that each entry owns one process, which    *)
(* has a SIGTERM pending only while the entry is being finished            *)
(* (Ownership), for what is signalled and what is told (IInv).  None of    *)
(* them needs the saved iterators of the sweep to be right.                *)
(***************************************************************************)
EXTENDS ServiceExcutor, SequenceTheorems, TLAPS

\* std::map::insert yields a map over the old keys and the new one.
LEMMA InsertMap ==
    ASSUME NEW K, NEW V, NEW f, IsMap(f, K, V), NEW k \in K, NEW v \in V
    PROVE  /\ IsMap(Insert(f, k, v), K, V)
           /\ DOMAIN Insert(f, k, v) = DOMAIN f \cup {k}
BY DEF IsMap, Insert

\* std::map::erase yields a map over the old keys without the erased one.
LEMMA EraseMap ==
    ASSUME NEW K, NEW V, NEW f, IsMap(f, K, V), NEW k
    PROVE  IsMap(Erase(f, k), K, V) /\ DOMAIN Erase(f, k) = DOMAIN f \ {k}
BY DEF IsMap, Erase

\* vector::erase shortens the vector by one and moves down the elements behind
\* the erased one.
LEMMA RemoveAtSeq ==
    ASSUME NEW S, NEW s \in Seq(S), NEW i \in 1..Len(s)
    PROVE  /\ RemoveAt(s, i) \in Seq(S)
           /\ Len(RemoveAt(s, i)) = Len(s) - 1
           /\ \A j \in 1..Len(s) - 1 :
                 RemoveAt(s, i)[j] = IF j < i THEN s[j] ELSE s[j + 1]
<1> DEFINE left == SubSeq(s, 1, i - 1)
           right == SubSeq(s, i + 1, Len(s))
<1>1. left \in Seq(S) /\ Len(left) = i - 1 /\ \A j \in 1..i - 1 : left[j] = s[j]
  OBVIOUS
<1>2. /\ right \in Seq(S) /\ Len(right) = Len(s) - i
      /\ \A j \in 1..Len(s) - i : right[j] = s[i + j]
  OBVIOUS
<1>3. /\ left \o right \in Seq(S) /\ Len(left \o right) = Len(s) - 1
      /\ \A j \in 1..Len(s) - 1 :
            (left \o right)[j] = IF j < i THEN s[j] ELSE s[j + 1]
  <2> HIDE DEF left, right
  <2>1. /\ left \o right \in Seq(S)
        /\ Len(left \o right) = Len(left) + Len(right)
        /\ \A j \in 1..Len(left) + Len(right) :
              (left \o right)[j] = IF j <= Len(left) THEN left[j]
                                  ELSE right[j - Len(left)]
    BY <1>1, <1>2, ConcatProperties
  <2> QED BY <2>1, <1>1, <1>2
<1> QED BY <1>3 DEF RemoveAt

\* Assigning the state of a cell leaves a heap of ServiceInfo cells.
LEMMA SetState ==
    ASSUME IsMap(heap, Addrs, ServiceInfo), NEW a, NEW state \in States
    PROVE  IsMap([heap EXCEPT ![a].state = state], Addrs, ServiceInfo)
BY DEF IsMap, ServiceInfo

\* Subscribing a client (add_writer) leaves a heap of ServiceInfo cells.
LEMMA AddWriter ==
    ASSUME IsMap(heap, Addrs, ServiceInfo), NEW a, NEW c \in Clients
    PROVE  IsMap([heap EXCEPT ![a].writer = @ \cup {c}], Addrs, ServiceInfo)
BY DEF IsMap, ServiceInfo

\* Stopping or continuing a process leaves a table of processes.
LEMMA SetLife ==
    ASSUME IsMap(proc, Pids, Process), NEW p, NEW from,
           NEW to \in {"run", "stopped", "zombie", "reaped"}
    PROVE  IsMap([proc EXCEPT ![p].life = IF @ = from THEN to ELSE @], Pids, Process)
BY DEF IsMap, Process

\* Sending SIGTERM leaves a table of processes.
LEMMA SetTerm ==
    ASSUME IsMap(proc, Pids, Process), NEW p
    PROVE  IsMap([proc EXCEPT ![p].sigterm = TRUE], Pids, Process)
BY DEF IsMap, Process

\* A process that ends leaves a table of processes.
LEMMA SetEnd ==
    ASSUME IsMap(proc, Pids, Process), NEW p, NEW cause \in Causes
    PROVE  IsMap([proc EXCEPT ![p].life = "zombie", ![p].cause = cause], Pids, Process)
<1> DEFINE new == [proc EXCEPT ![p].life = "zombie", ![p].cause = cause]
<1>1. DOMAIN new = DOMAIN proc
  OBVIOUS
<1>2. ASSUME NEW q \in DOMAIN proc PROVE new[q] \in Process
  <2>1. proc[q] \in Process
    BY DEF IsMap
  <2>2. new[q] = IF q = p THEN [proc[q] EXCEPT !.life = "zombie", !.cause = cause] ELSE proc[q]
    BY DEF IsMap
  <2> QED BY <2>1, <2>2 DEF Process
<1> QED BY <1>1, <1>2 DEF IsMap

\* Reaping a process and telling of it leaves a table of processes.
LEMMA SetReaped ==
    ASSUME IsMap(proc, Pids, Process), NEW p, NEW r \in Response
    PROVE  IsMap([proc EXCEPT ![p].life = "reaped", ![p].told = Append(@, r)],
                 Pids, Process)
<1> DEFINE new == [proc EXCEPT ![p].life = "reaped", ![p].told = Append(@, r)]
<1>1. DOMAIN new = DOMAIN proc
  OBVIOUS
<1>2. ASSUME NEW q \in DOMAIN proc PROVE new[q] \in Process
  <2>1. proc[q] \in Process /\ proc[q].told \in Seq(Response)
    BY DEF IsMap, Process
  <2>2. Append(proc[q].told, r) \in Seq(Response)
    BY <2>1
  <2>3. new[q] = IF q = p THEN [proc[q] EXCEPT !.life = "reaped",
                                               !.told = Append(proc[q].told, r)]
                 ELSE proc[q]
    BY DEF IsMap
  <2> QED BY <2>1, <2>2, <2>3 DEF Process
<1> QED BY <1>1, <1>2 DEF IsMap

\* The initial state has the right shape.
LEMMA TypeInit == Init => TypeOK
<1> SUFFICES ASSUME Init PROVE TypeOK
  OBVIOUS
<1>1. IsMap(<< >>, Addrs, ServiceInfo) /\ IsMap(<< >>, Labels, Addrs)
      /\ IsMap(<< >>, Names, Addrs) /\ IsMap(<< >>, Pids, Process)
  BY DEF IsMap
<1>2. gcIterator \in Seq(Nat \ {0}) /\ mRunningService \in Seq(Addrs)
  BY DEF Init
<1>3. /\ pc \in {"wait", "scan", "gc"} /\ it \in Nat \ {0}
      /\ result \in Result \cup {NoResult}
  BY DEF Init
<1>4. smashed \in BOOLEAN /\ alive \in BOOLEAN
  BY Zenon DEF Init
<1>5. heap = << >> /\ mSeqService = << >> /\ mNameService = << >> /\ proc = << >>
  BY DEF Init
<1> QED BY <1>1, <1>2, <1>3, <1>4, <1>5 DEF TypeOK

\* No message, timeout, step of the sweep or end of a process spoils it.
LEMMA TypeStep == TypeOK /\ [Next]_vars => TypeOK'
<1> SUFFICES ASSUME TypeOK, [Next]_vars PROVE TypeOK'
  OBVIOUS
<1> USE DEF TypeOK, Result, NoResult
<1>1. ASSUME NEW c \in Clients, NEW n \in Names, StartExists(c, n)
       PROVE  TypeOK'
  BY <1>1 DEF StartExists, Answer, StartSweep, tables, sweep
<1>2. ASSUME NEW c \in Clients, NEW n \in Names, StartForkFails(c, n)
       PROVE  TypeOK'
  BY <1>2 DEF StartForkFails, Copied, Answer, StartSweep, tables, sweep
<1>3. ASSUME NEW c \in Clients, NEW n \in Names, NEW s \in Sequences,
           NEW f \in Flags, NEW a \in Addrs, NEW p \in Pids, StartForked(c, n, s, f, a, p)
       PROVE  TypeOK'
  <2> DEFINE info == [name |-> n, pid |-> p, state |-> "RUNNING", label |-> <<s, a>>,
                      flags |-> f, writer |-> {c}]
             process == [life |-> "run", name |-> n, sigterm |-> FALSE,
                         cause |-> "none", told |-> << >>]
  <2>1. info \in ServiceInfo /\ process \in Process /\ <<s, a>> \in Labels
    BY DEF ServiceInfo, Process, States, Labels, Causes
  <2>2. /\ heap' = Insert(heap, a, info)
        /\ proc' = Insert(proc, p, process)
        /\ mSeqService' = Insert(mSeqService, <<s, a>>, a)
        /\ mNameService' = Insert(mNameService, n, a)
    BY <1>3 DEF StartForked
  <2>3. IsMap(heap', Addrs, ServiceInfo) /\ IsMap(proc', Pids, Process)
    <3> HIDE DEF info, process
    <3> QED BY <2>1, <2>2, InsertMap
  <2>4. IsMap(mSeqService', Labels, Addrs) /\ IsMap(mNameService', Names, Addrs)
    BY <2>1, <2>2, InsertMap
  <2>5. mRunningService' \in Seq(Addrs)
    BY <1>3 DEF StartForked
  <2> QED BY <1>3, <2>3, <2>4, <2>5 DEF StartForked, Copied, Answer, StartSweep
<1>4. ASSUME NEW c \in Clients, NEW n \in Names, NEW f \in Flags, Info(c, n, f)
       PROVE  TypeOK'
  <2>1. heap' = [heap EXCEPT ![mNameService[n]].writer = @ \cup {c}]
    BY <1>4 DEF Info
  <2>2. IsMap(heap', Addrs, ServiceInfo)
    BY <2>1, AddWriter
  <2> QED BY <1>4, <2>2 DEF Info, Answer, StartSweep, tables
<1>5. ASSUME NEW c \in Clients, NEW n \in Names, NEW f \in Flags, InfoRefused(c, n, f)
       PROVE  TypeOK'
  BY <1>5 DEF InfoRefused, Refuse, Answer, StartSweep, tables, sweep
<1>6. ASSUME NEW c \in Clients, NEW l \in Labels, Stop(c, l)
       PROVE  TypeOK'
  <2>1. IsMap(proc', Pids, Process)
    BY <1>6, SetTerm DEF Stop
  <2>2. IsMap(heap', Addrs, ServiceInfo)
    BY <1>6, SetState DEF Stop, States
  <2> QED BY <1>6, <2>1, <2>2 DEF Stop, Answer, StartSweep, tables
<1>7. ASSUME NEW c \in Clients, NEW l \in Labels, StopRefused(c, l)
       PROVE  TypeOK'
  <2>1. PICK status \in {"OK", "FAIL"} : Refuse(c, status)
    BY <1>7 DEF StopRefused
  <2> QED BY <2>1 DEF Refuse, Answer, StartSweep, tables
<1>8. ASSUME NEW c \in Clients, NEW l \in Labels, Pause(c, l)
       PROVE  TypeOK'
  <2>1. IsMap(proc', Pids, Process)
    BY <1>8, SetLife DEF Pause, Signalled
  <2>2. IsMap(heap', Addrs, ServiceInfo)
    BY <1>8, SetState DEF Pause, States
  <2> QED BY <1>8, <2>1, <2>2 DEF Pause, Answer, StartSweep, tables
<1>9. ASSUME NEW c \in Clients, NEW l \in Labels, PauseRefused(c, l)
       PROVE  TypeOK'
  BY <1>9 DEF PauseRefused, Refuse, Answer, StartSweep, tables, sweep
<1>10. ASSUME NEW c \in Clients, NEW l \in Labels, Restart(c, l)
       PROVE  TypeOK'
  <2>1. IsMap(proc', Pids, Process)
    BY <1>10, SetLife DEF Restart, Signalled
  <2>2. IsMap(heap', Addrs, ServiceInfo)
    BY <1>10, SetState DEF Restart, States
  <2>3. mSeqService[l] \in Addrs
    BY <1>10 DEF Restart, Known, IsMap
  <2> QED BY <1>10, <2>1, <2>2, <2>3 DEF Restart, Answer, StartSweep
<1>11. ASSUME NEW c \in Clients, NEW l \in Labels, RestartRefused(c, l)
       PROVE  TypeOK'
  BY <1>11 DEF RestartRefused, Refuse, Answer, StartSweep, tables, sweep
<1>12. ASSUME Timeout
       PROVE  TypeOK'
  BY <1>12 DEF Timeout, StartSweep, tables, sweep
<1>13. ASSUME ScanSkip
       PROVE  TypeOK'
  BY <1>13 DEF ScanSkip, Advance, tables, sweep
<1>14. ASSUME ScanWild
       PROVE  TypeOK'
  BY <1>14 DEF ScanWild, tables, sweep
<1>15. ASSUME ScanNotEnded
       PROVE  TypeOK'
  <2>1. gcIterator' \in Seq(Nat \ {0})
    BY <1>15 DEF ScanNotEnded
  <2>2. it' \in Nat \ {0} /\ result' = NoResult /\ UNCHANGED <<pc, smashed, alive>>
    BY <1>15 DEF ScanNotEnded, Advance
  <2>3. UNCHANGED <<heap, tables, proc>>
    BY <1>15 DEF ScanNotEnded
  <2> QED BY <2>1, <2>2, <2>3 DEF tables
<1>16. ASSUME ScanReap
       PROVE  TypeOK'
  <2> DEFINE info == heap[Entry]
             cause == proc[info.pid].cause
             response == [status |-> EndStatus(info.state, cause), to |-> info.writer]
  <2>1. info \in ServiceInfo
    BY <1>16 DEF ScanReap, Dangling, IsMap
  <2>2. response \in Response /\ EndState(info.state, cause) \in States
    BY <2>1 DEF EndStatus, EndState, ServiceInfo, Response, Statuses, States, FinalStates
  <2>3. IsMap(proc', Pids, Process)
    <3>1. proc' = [proc EXCEPT ![info.pid].life = "reaped",
                               ![info.pid].told = Append(@, response)]
      BY <1>16 DEF ScanReap
    <3> HIDE DEF response
    <3> QED BY <3>1, <2>2, SetReaped
  <2>4. IsMap(heap', Addrs, ServiceInfo)
    <3>1. heap' = [heap EXCEPT ![Entry].state = EndState(info.state, cause)]
      BY <1>16 DEF ScanReap
    <3> QED BY <3>1, <2>2, SetState
  <2>5. gcIterator' \in Seq(Nat \ {0})
    <3>1. gcIterator \in Seq(Nat \ {0}) /\ it \in Nat \ {0} /\ gcIterator' = Append(gcIterator, it)
      BY <1>16 DEF ScanReap
    <3> HIDE DEF info, cause, response
    <3> QED BY <3>1
  <2> QED BY <1>16, <2>3, <2>4, <2>5 DEF ScanReap, Advance, tables
<1>17. ASSUME ScanEnd
       PROVE  TypeOK'
  BY <1>17 DEF ScanEnd, tables, sweep
<1>18. ASSUME GcErase
       PROVE  TypeOK'
  <2> DEFINE a == mRunningService[Position]
  <2>1. Position \in 1..Len(mRunningService) /\ gcIterator' \in Seq(Nat \ {0})
    BY <1>18 DEF GcErase, Collecting, Collectable, Position
  <2>2. mRunningService' \in Seq(Addrs)
    BY <1>18, <2>1, RemoveAtSeq DEF GcErase
  <2>3. /\ heap' = Erase(heap, a)
        /\ mSeqService' = Erase(mSeqService, heap[a].label)
        /\ mNameService' = Erase(mNameService, heap[a].name)
    BY <1>18 DEF GcErase
  <2>4. /\ IsMap(heap', Addrs, ServiceInfo)
        /\ IsMap(mSeqService', Labels, Addrs)
        /\ IsMap(mNameService', Names, Addrs)
    BY <2>3, EraseMap
  <2> QED BY <1>18, <2>1, <2>2, <2>4 DEF GcErase
<1>19. ASSUME GcWild
       PROVE  TypeOK'
  BY <1>19 DEF GcWild, tables, sweep
<1>20. ASSUME GcEnd
       PROVE  TypeOK'
  BY <1>20 DEF GcEnd, tables, sweep
<1>21. ASSUME NEW p \in Pids, NEW cause \in Causes \ {"none"}, Exit(p, cause)
       PROVE  TypeOK'
  <2>1. IsMap(proc', Pids, Process)
    BY <1>21, SetEnd DEF Exit, End
  <2> QED BY <1>21, <2>1 DEF Exit, End, tables, sweep
<1>22. ASSUME NEW p \in Pids, TermDelivered(p)
       PROVE  TypeOK'
  <2>1. IsMap(proc', Pids, Process)
    BY <1>22, SetEnd DEF TermDelivered, End, Causes
  <2> QED BY <1>22, <2>1 DEF TermDelivered, End, tables, sweep
<1>23. ASSUME NEW c \in Clients, InfoByLabel(c)
       PROVE  TypeOK'
  BY <1>23 DEF InfoByLabel, Refuse, Answer, StartSweep, tables, sweep
<1>24. ASSUME UNCHANGED vars
       PROVE  TypeOK'
  BY <1>24 DEF vars, tables, sweep
<1>25. ASSUME NEW c \in Clients, NEW n \in Names, StartSmashes(c, n)
       PROVE  TypeOK'
  BY <1>25 DEF StartSmashes, Copied, tables, sweep
<1>26. ASSUME ReturnSmashed
       PROVE  TypeOK'
  BY <1>26 DEF ReturnSmashed, tables, sweep
<1> QED
  BY <1>1, <1>2, <1>3, <1>4, <1>5, <1>6, <1>7, <1>8, <1>9, <1>10, <1>11, <1>12,
     <1>13, <1>14, <1>15, <1>16, <1>17, <1>18, <1>19, <1>20, <1>21, <1>22, <1>23, <1>24,
     <1>25, <1>26
  DEF Next, Worker, Handle, Monitor, Processes

\* Every reachable state of the service executor has the shape TypeOK.
THEOREM TypeCorrect == Spec => []TypeOK
BY TypeInit, TypeStep, PTL DEF Spec

-----------------------------------------------------------------------------
LabelHoldsAddress == \A a \in DOMAIN heap : heap[a].label[2] = a

TablesInv == TypeOK /\ TablesAgree /\ LabelHoldsAddress

\* The empty tables agree.
LEMMA TablesInit == Init => TablesAgree /\ LabelHoldsAddress
BY DEF Init, TablesAgree, LabelHoldsAddress

\* The steps that do not touch what the tables are indexed by.
KeepsKeys ==
    /\ DOMAIN heap' = DOMAIN heap
    /\ \A a \in DOMAIN heap : heap'[a].name = heap[a].name /\ heap'[a].label = heap[a].label
    /\ \A i \in 1..Len(mRunningService) :
          i \in 1..Len(mRunningService') /\ mRunningService'[i] = mRunningService[i]
    /\ UNCHANGED <<mSeqService, mNameService>>

\* A step that keeps the keys keeps the tables in agreement.
LEMMA KeepsTables ==
    ASSUME TablesInv, KeepsKeys
    PROVE  TablesAgree' /\ LabelHoldsAddress'
<1>1. LabelHoldsAddress'
  BY DEF TablesInv, KeepsKeys, LabelHoldsAddress
<1>2. ASSUME NEW a \in DOMAIN heap'
      PROVE  /\ heap'[a].name \in DOMAIN mNameService'
             /\ mNameService'[heap'[a].name] = a
             /\ heap'[a].label \in DOMAIN mSeqService'
             /\ mSeqService'[heap'[a].label] = a
  BY DEF TablesInv, KeepsKeys, TablesAgree
<1>3. ASSUME NEW a \in DOMAIN heap'
      PROVE  \E i \in 1..Len(mRunningService') : mRunningService'[i] = a
  <2>1. PICK i \in 1..Len(mRunningService) : mRunningService[i] = a
    BY DEF TablesInv, KeepsKeys, TablesAgree
  <2> QED BY <2>1 DEF KeepsKeys
<1>4. ASSUME NEW n \in DOMAIN mNameService'
      PROVE  mNameService'[n] \in DOMAIN heap' /\ heap'[mNameService'[n]].name = n
  BY DEF TablesInv, KeepsKeys, TablesAgree
<1>5. ASSUME NEW l \in DOMAIN mSeqService'
      PROVE  mSeqService'[l] \in DOMAIN heap' /\ heap'[mSeqService'[l]].label = l
  BY DEF TablesInv, KeepsKeys, TablesAgree
<1> QED BY <1>1, <1>2, <1>3, <1>4, <1>5 DEF TablesAgree

\* A step that leaves the heap and the tables alone keeps the keys.
LEMMA SameKeepsKeys ==
    ASSUME UNCHANGED <<heap, tables>>
    PROVE  KeepsKeys
BY DEF KeepsKeys, tables

\* Assigning the state of a service keeps the keys.
LEMMA SetStateKeepsKeys ==
    ASSUME TypeOK, NEW a, NEW state, heap' = [heap EXCEPT ![a].state = state],
           UNCHANGED tables
    PROVE  KeepsKeys
BY DEF TypeOK, IsMap, ServiceInfo, KeepsKeys, tables

\* The tables agree after every step, also after the erasure of an entry the
\* scan did not mean.
LEMMA TablesStep == TablesInv /\ [Next]_vars => TablesAgree' /\ LabelHoldsAddress'
<1> SUFFICES ASSUME TablesInv, [Next]_vars PROVE TablesAgree' /\ LabelHoldsAddress'
  OBVIOUS
<1>1. ASSUME NEW c \in Clients, NEW n \in Names, StartExists(c, n)
       PROVE  TablesAgree' /\ LabelHoldsAddress'
  BY <1>1, SameKeepsKeys, KeepsTables DEF StartExists
<1>2. ASSUME NEW c \in Clients, NEW n \in Names, StartForkFails(c, n)
       PROVE  TablesAgree' /\ LabelHoldsAddress'
  BY <1>2, SameKeepsKeys, KeepsTables DEF StartForkFails
<1>3. ASSUME NEW c \in Clients, NEW n \in Names, NEW s \in Sequences,
           NEW f \in Flags, NEW a \in Addrs, NEW p \in Pids, StartForked(c, n, s, f, a, p)
       PROVE  TablesAgree' /\ LabelHoldsAddress'
  <2> DEFINE info == [name |-> n, pid |-> p, state |-> "RUNNING", label |-> <<s, a>>,
                      flags |-> f, writer |-> {c}]
  <2>1. /\ n \notin DOMAIN mNameService /\ a \notin DOMAIN heap
        /\ heap' = Insert(heap, a, info)
        /\ mRunningService' = Append(mRunningService, a)
        /\ mSeqService' = Insert(mSeqService, <<s, a>>, a)
        /\ mNameService' = Insert(mNameService, n, a)
    BY <1>3 DEF StartForked, Exists
  <2>2. <<s, a>> \notin DOMAIN mSeqService
    <3> SUFFICES ASSUME <<s, a>> \in DOMAIN mSeqService PROVE FALSE
      OBVIOUS
    <3> DEFINE b == mSeqService[<<s, a>>]
    <3>1. b \in DOMAIN heap /\ heap[b].label = <<s, a>>
      BY DEF TablesInv, TablesAgree
    <3>2. heap[b].label[2] = b
      BY <3>1 DEF TablesInv, LabelHoldsAddress
    <3>3. heap[b].label[2] = a
      BY <3>1
    <3> QED BY <3>1, <3>2, <3>3, <2>1
  <2>3. /\ DOMAIN heap' = DOMAIN heap \cup {a}
        /\ heap'[a].name = n /\ heap'[a].label = <<s, a>>
        /\ \A b \in DOMAIN heap : heap'[b] = heap[b]
    BY <2>1 DEF Insert
  <2>4. /\ DOMAIN mNameService' = DOMAIN mNameService \cup {n}
        /\ mNameService'[n] = a
        /\ \A m \in DOMAIN mNameService : mNameService'[m] = mNameService[m]
    BY <2>1 DEF Insert
  <2>5. /\ DOMAIN mSeqService' = DOMAIN mSeqService \cup {<<s, a>>}
        /\ mSeqService'[<<s, a>>] = a
        /\ \A l \in DOMAIN mSeqService : mSeqService'[l] = mSeqService[l]
    BY <2>1, <2>2 DEF Insert
  <2>6. \A b \in DOMAIN heap' :
           \E i \in 1..Len(mRunningService') : mRunningService'[i] = b
    <3>1. /\ Len(mRunningService) \in Nat
          /\ Len(mRunningService') = Len(mRunningService) + 1
          /\ mRunningService'[Len(mRunningService) + 1] = a
          /\ \A i \in 1..Len(mRunningService) : mRunningService'[i] = mRunningService[i]
      BY <2>1 DEF TablesInv, TypeOK
    <3>2. \A b \in DOMAIN heap :
             \E i \in 1..Len(mRunningService) : mRunningService[i] = b
      BY DEF TablesInv, TablesAgree
    <3> QED BY <3>1, <3>2, <2>3
  <2>7. LabelHoldsAddress'
    BY <2>3 DEF TablesInv, LabelHoldsAddress
  <2>8. TablesAgree'
    <3>1. \A b \in DOMAIN heap' :
             /\ heap'[b].name \in DOMAIN mNameService'
             /\ mNameService'[heap'[b].name] = b
             /\ heap'[b].label \in DOMAIN mSeqService'
             /\ mSeqService'[heap'[b].label] = b
      <4> SUFFICES ASSUME NEW b \in DOMAIN heap'
                   PROVE  /\ heap'[b].name \in DOMAIN mNameService'
                          /\ mNameService'[heap'[b].name] = b
                          /\ heap'[b].label \in DOMAIN mSeqService'
                          /\ mSeqService'[heap'[b].label] = b
        OBVIOUS
      <4>1. CASE b = a
        BY <4>1, <2>3, <2>4, <2>5
      <4>2. CASE b \in DOMAIN heap
        <5>1. /\ heap[b].name \in DOMAIN mNameService
              /\ mNameService[heap[b].name] = b
              /\ heap[b].label \in DOMAIN mSeqService
              /\ mSeqService[heap[b].label] = b
          BY <4>2 DEF TablesInv, TablesAgree
        <5> QED BY <5>1, <4>2, <2>3, <2>4, <2>5
      <4> QED BY <4>1, <4>2, <2>3
    <3>2. \A m \in DOMAIN mNameService' :
             mNameService'[m] \in DOMAIN heap' /\ heap'[mNameService'[m]].name = m
      BY <2>3, <2>4 DEF TablesInv, TablesAgree
    <3>3. \A l \in DOMAIN mSeqService' :
             mSeqService'[l] \in DOMAIN heap' /\ heap'[mSeqService'[l]].label = l
      <4> SUFFICES ASSUME NEW l \in DOMAIN mSeqService'
                   PROVE  mSeqService'[l] \in DOMAIN heap' /\ heap'[mSeqService'[l]].label = l
        OBVIOUS
      <4>1. CASE l = <<s, a>>
        BY <4>1, <2>3, <2>5
      <4>2. CASE l \in DOMAIN mSeqService
        <5>1. mSeqService[l] \in DOMAIN heap /\ heap[mSeqService[l]].label = l
          BY <4>2 DEF TablesInv, TablesAgree
        <5> QED BY <5>1, <4>2, <2>3, <2>5
      <4> QED BY <4>1, <4>2, <2>5
    <3> QED BY <3>1, <3>2, <3>3, <2>6 DEF TablesAgree
  <2> QED BY <2>7, <2>8
<1>4. ASSUME NEW c \in Clients, NEW n \in Names, NEW f \in Flags, Info(c, n, f)
       PROVE  TablesAgree' /\ LabelHoldsAddress'
  <2>1. KeepsKeys
    BY <1>4 DEF Info, TablesInv, TypeOK, IsMap, ServiceInfo, KeepsKeys, tables
  <2> QED BY <2>1, KeepsTables
<1>5. ASSUME NEW c \in Clients, NEW n \in Names, NEW f \in Flags, InfoRefused(c, n, f)
       PROVE  TablesAgree' /\ LabelHoldsAddress'
  BY <1>5, SameKeepsKeys, KeepsTables DEF InfoRefused, Refuse
<1>6. ASSUME NEW c \in Clients, NEW l \in Labels, Stop(c, l)
       PROVE  TablesAgree' /\ LabelHoldsAddress'
  <2>1. KeepsKeys
    BY <1>6, SetStateKeepsKeys DEF Stop, TablesInv
  <2> QED BY <2>1, KeepsTables
<1>7. ASSUME NEW c \in Clients, NEW l \in Labels, StopRefused(c, l)
       PROVE  TablesAgree' /\ LabelHoldsAddress'
  BY <1>7, SameKeepsKeys, KeepsTables DEF StopRefused, Refuse
<1>8. ASSUME NEW c \in Clients, NEW l \in Labels, Pause(c, l)
       PROVE  TablesAgree' /\ LabelHoldsAddress'
  <2>1. KeepsKeys
    BY <1>8, SetStateKeepsKeys DEF Pause, TablesInv
  <2> QED BY <2>1, KeepsTables
<1>9. ASSUME NEW c \in Clients, NEW l \in Labels, PauseRefused(c, l)
       PROVE  TablesAgree' /\ LabelHoldsAddress'
  BY <1>9, SameKeepsKeys, KeepsTables DEF PauseRefused, Refuse
<1>10. ASSUME NEW c \in Clients, NEW l \in Labels, Restart(c, l)
       PROVE  TablesAgree' /\ LabelHoldsAddress'
  <2>1. mSeqService[l] \in Addrs
    BY <1>10 DEF Restart, Known, TablesInv, TypeOK, IsMap
  <2>2. KeepsKeys
    BY <1>10, <2>1 DEF Restart, TablesInv, TypeOK, IsMap, ServiceInfo, KeepsKeys
  <2> QED BY <2>2, KeepsTables
<1>11. ASSUME NEW c \in Clients, NEW l \in Labels, RestartRefused(c, l)
       PROVE  TablesAgree' /\ LabelHoldsAddress'
  BY <1>11, SameKeepsKeys, KeepsTables DEF RestartRefused, Refuse
<1>12. ASSUME Timeout
       PROVE  TablesAgree' /\ LabelHoldsAddress'
  BY <1>12, SameKeepsKeys, KeepsTables DEF Timeout
<1>13. ASSUME ScanSkip
       PROVE  TablesAgree' /\ LabelHoldsAddress'
  BY <1>13, SameKeepsKeys, KeepsTables DEF ScanSkip
<1>14. ASSUME ScanWild
       PROVE  TablesAgree' /\ LabelHoldsAddress'
  BY <1>14, SameKeepsKeys, KeepsTables DEF ScanWild
<1>15. ASSUME ScanNotEnded
       PROVE  TablesAgree' /\ LabelHoldsAddress'
  BY <1>15, SameKeepsKeys, KeepsTables DEF ScanNotEnded
<1>16. ASSUME ScanReap
       PROVE  TablesAgree' /\ LabelHoldsAddress'
  <2>1. KeepsKeys
    BY <1>16, SetStateKeepsKeys DEF ScanReap, TablesInv
  <2> QED BY <2>1, KeepsTables
<1>17. ASSUME ScanEnd
       PROVE  TablesAgree' /\ LabelHoldsAddress'
  BY <1>17, SameKeepsKeys, KeepsTables DEF ScanEnd
<1>18. ASSUME GcErase
       PROVE  TablesAgree' /\ LabelHoldsAddress'
  <2> DEFINE a == mRunningService[Position]
  <2>1. /\ Position \in 1..Len(mRunningService) /\ a \in DOMAIN heap
        /\ heap' = Erase(heap, a)
        /\ mSeqService' = Erase(mSeqService, heap[a].label)
        /\ mNameService' = Erase(mNameService, heap[a].name)
        /\ mRunningService' = RemoveAt(mRunningService, Position)
    BY <1>18 DEF GcErase, Collecting, Collectable, Position, TablesInv, TypeOK
  <2>2. /\ DOMAIN heap' = DOMAIN heap \ {a}
        /\ \A b \in DOMAIN heap' : heap'[b] = heap[b]
    BY <2>1 DEF Erase
  <2>3. /\ DOMAIN mSeqService' = DOMAIN mSeqService \ {heap[a].label}
        /\ \A l \in DOMAIN mSeqService' : mSeqService'[l] = mSeqService[l]
    BY <2>1 DEF Erase
  <2>4. /\ DOMAIN mNameService' = DOMAIN mNameService \ {heap[a].name}
        /\ \A n \in DOMAIN mNameService' : mNameService'[n] = mNameService[n]
    BY <2>1 DEF Erase
  <2>5. \A b \in DOMAIN heap' :
           \E i \in 1..Len(mRunningService') : mRunningService'[i] = b
    <3> SUFFICES ASSUME NEW b \in DOMAIN heap'
                 PROVE  \E i \in 1..Len(mRunningService') : mRunningService'[i] = b
      OBVIOUS
    <3>1. PICK i \in 1..Len(mRunningService) : mRunningService[i] = b
      BY <2>2 DEF TablesInv, TablesAgree
    <3>2. i # Position
      BY <3>1, <2>2
    <3>3. /\ Len(mRunningService) \in Nat
          /\ Len(mRunningService') = Len(mRunningService) - 1
          /\ \A j \in 1..Len(mRunningService) - 1 :
                mRunningService'[j] = IF j < Position THEN mRunningService[j]
                                      ELSE mRunningService[j + 1]
      <4>1. mRunningService \in Seq(Addrs)
        BY DEF TablesInv, TypeOK
      <4> HIDE DEF a
      <4>2. Len(mRunningService) \in Nat
        BY <4>1
      <4>3. /\ Len(RemoveAt(mRunningService, Position)) = Len(mRunningService) - 1
            /\ \A j \in 1..Len(mRunningService) - 1 :
                  RemoveAt(mRunningService, Position)[j] =
                     IF j < Position THEN mRunningService[j] ELSE mRunningService[j + 1]
        BY <4>1, <2>1, RemoveAtSeq
      <4> QED BY <4>2, <4>3, <2>1
    <3>4. CASE i < Position
      BY <3>1, <3>3, <3>4, <2>1
    <3>5. CASE i > Position
      <4>1. /\ i - 1 \in 1..Len(mRunningService') /\ ~(i - 1 < Position)
            /\ (i - 1) + 1 = i
        BY <3>3, <3>5, <2>1
      <4>2. mRunningService'[i - 1] = b
        BY <4>1, <3>1, <3>3
      <4> QED BY <4>1, <4>2
    <3> QED BY <3>2, <3>4, <3>5, <2>1
  <2>6. LabelHoldsAddress'
    BY <2>2 DEF TablesInv, LabelHoldsAddress
  <2>7. TablesAgree'
    <3>1. ASSUME NEW b \in DOMAIN heap'
          PROVE  /\ heap'[b].name \in DOMAIN mNameService'
                 /\ mNameService'[heap'[b].name] = b
                 /\ heap'[b].label \in DOMAIN mSeqService'
                 /\ mSeqService'[heap'[b].label] = b
      <4> HIDE DEF a
      <4>1. b # a /\ b \in DOMAIN heap /\ heap'[b] = heap[b]
        BY <2>2
      <4>2. /\ heap[b].name \in DOMAIN mNameService /\ mNameService[heap[b].name] = b
            /\ heap[b].label \in DOMAIN mSeqService /\ mSeqService[heap[b].label] = b
        BY <4>1 DEF TablesInv, TablesAgree
      <4>3. mNameService[heap[a].name] = a /\ mSeqService[heap[a].label] = a
        BY <2>1 DEF TablesInv, TablesAgree
      <4> QED BY <4>1, <4>2, <4>3, <2>3, <2>4
    <3>2. ASSUME NEW n \in DOMAIN mNameService'
          PROVE  mNameService'[n] \in DOMAIN heap' /\ heap'[mNameService'[n]].name = n
      <4> HIDE DEF a
      <4>1. /\ n # heap[a].name /\ n \in DOMAIN mNameService
            /\ mNameService'[n] = mNameService[n]
        BY <2>4
      <4>2. mNameService[n] \in DOMAIN heap /\ heap[mNameService[n]].name = n
        BY <4>1 DEF TablesInv, TablesAgree
      <4> QED BY <4>1, <4>2, <2>2
    <3>3. ASSUME NEW l \in DOMAIN mSeqService'
          PROVE  mSeqService'[l] \in DOMAIN heap' /\ heap'[mSeqService'[l]].label = l
      <4> HIDE DEF a
      <4>1. /\ l # heap[a].label /\ l \in DOMAIN mSeqService
            /\ mSeqService'[l] = mSeqService[l]
        BY <2>3
      <4>2. mSeqService[l] \in DOMAIN heap /\ heap[mSeqService[l]].label = l
        BY <4>1 DEF TablesInv, TablesAgree
      <4> QED BY <4>1, <4>2, <2>2
    <3> QED BY <3>1, <3>2, <3>3, <2>5 DEF TablesAgree
  <2> QED BY <2>6, <2>7
<1>19. ASSUME GcWild
       PROVE  TablesAgree' /\ LabelHoldsAddress'
  BY <1>19, SameKeepsKeys, KeepsTables DEF GcWild
<1>20. ASSUME GcEnd
       PROVE  TablesAgree' /\ LabelHoldsAddress'
  BY <1>20, SameKeepsKeys, KeepsTables DEF GcEnd
<1>21. ASSUME NEW p \in Pids, NEW cause \in Causes \ {"none"}, Exit(p, cause)
       PROVE  TablesAgree' /\ LabelHoldsAddress'
  BY <1>21, SameKeepsKeys, KeepsTables DEF Exit, End
<1>22. ASSUME NEW p \in Pids, TermDelivered(p)
       PROVE  TablesAgree' /\ LabelHoldsAddress'
  BY <1>22, SameKeepsKeys, KeepsTables DEF TermDelivered, End
<1>23. ASSUME NEW c \in Clients, InfoByLabel(c)
       PROVE  TablesAgree' /\ LabelHoldsAddress'
  BY <1>23, SameKeepsKeys, KeepsTables DEF InfoByLabel, Refuse
<1>24. ASSUME UNCHANGED vars
       PROVE  TablesAgree' /\ LabelHoldsAddress'
  BY <1>24, SameKeepsKeys, KeepsTables DEF vars
<1>25. ASSUME NEW c \in Clients, NEW n \in Names, StartSmashes(c, n)
       PROVE  TablesAgree' /\ LabelHoldsAddress'
  BY <1>25, SameKeepsKeys, KeepsTables DEF StartSmashes
<1>26. ASSUME ReturnSmashed
       PROVE  TablesAgree' /\ LabelHoldsAddress'
  BY <1>26, SameKeepsKeys, KeepsTables DEF ReturnSmashed
<1> QED
  BY <1>1, <1>2, <1>3, <1>4, <1>5, <1>6, <1>7, <1>8, <1>9, <1>10, <1>11, <1>12,
     <1>13, <1>14, <1>15, <1>16, <1>17, <1>18, <1>19, <1>20, <1>21, <1>22, <1>23, <1>24,
     <1>25, <1>26
  DEF Next, Worker, Handle, Monitor, Processes

\* mRunningService, mSeqService and mNameService always agree, however many
\* services end in one sweep and whichever entries it erases.
THEOREM TablesAlwaysAgree == Spec => []TablesAgree
<1>1. Init => TablesInv
  BY TypeInit, TablesInit DEF TablesInv
<1>2. TablesInv /\ [Next]_vars => TablesInv'
  BY TypeStep, TablesStep DEF TablesInv
<1>3. TablesInv => TablesAgree
  BY DEF TablesInv
<1> QED BY <1>1, <1>2, <1>3, PTL DEF Spec

-----------------------------------------------------------------------------
\* Each cell owns a process of its own, and the executor has sent SIGTERM to it
\* only if the state says so.
Ownership ==
    /\ \A a \in DOMAIN heap : heap[a].pid \in DOMAIN proc
    /\ \A a, b \in DOMAIN heap : heap[a].pid = heap[b].pid => a = b
    /\ \A a \in DOMAIN heap :
          heap[a].state \in {"RUNNING", "PAUSED"} => ~proc[heap[a].pid].sigterm

ProcessInv == Ownership /\ StateMatchesProcess /\ EndToldTruthfully
IInv == TablesInv /\ ProcessInv

\* With no services there is nothing to own, signal or tell.
LEMMA ProcessInit == Init => ProcessInv
BY DEF Init, ProcessInv, Ownership, StateMatchesProcess, EndToldTruthfully

\* A step that touches neither cells nor processes keeps ProcessInv.
LEMMA ProcessSame ==
    ASSUME ProcessInv, UNCHANGED <<heap, proc>>
    PROVE  ProcessInv'
BY DEF ProcessInv, Ownership, StateMatchesProcess, EndToldTruthfully

\* The cell at a live address is a ServiceInfo.
LEMMA CellTypes ==
    ASSUME TypeOK, NEW a \in DOMAIN heap
    PROVE  /\ heap[a] \in ServiceInfo
           /\ a \in Addrs
BY DEF TypeOK, IsMap

\* The process of a known pid is a Process.
LEMMA ProcTypes ==
    ASSUME TypeOK, NEW p \in DOMAIN proc
    PROVE  /\ proc[p] \in Process
           /\ p \in Pids
BY DEF TypeOK, IsMap

\* Every step keeps each entry the owner of its process, its state true to the
\* process, and what was told true to the end.
LEMMA ProcessStep == IInv /\ [Next]_vars => ProcessInv'
<1> SUFFICES ASSUME IInv, [Next]_vars PROVE ProcessInv'
  OBVIOUS
<1>1. ASSUME NEW c \in Clients, NEW n \in Names, StartExists(c, n)
       PROVE  ProcessInv'
  BY <1>1, ProcessSame DEF IInv, StartExists
<1>2. ASSUME NEW c \in Clients, NEW n \in Names, StartForkFails(c, n)
       PROVE  ProcessInv'
  BY <1>2, ProcessSame DEF IInv, StartForkFails
<1>3. ASSUME NEW c \in Clients, NEW n \in Names, NEW s \in Sequences,
           NEW f \in Flags, NEW a \in Addrs, NEW p \in Pids, StartForked(c, n, s, f, a, p)
       PROVE  ProcessInv'
  <2> DEFINE info == [name |-> n, pid |-> p, state |-> "RUNNING", label |-> <<s, a>>,
                      flags |-> f, writer |-> {c}]
             process == [life |-> "run", name |-> n, sigterm |-> FALSE,
                         cause |-> "none", told |-> << >>]
  <2>. a \notin DOMAIN heap /\ p \notin DOMAIN proc
    BY <1>3 DEF StartForked
  <2>1. heap' = Insert(heap, a, info) /\ proc' = Insert(proc, p, process)
    BY <1>3 DEF StartForked
  <2>2. /\ DOMAIN heap' = DOMAIN heap \cup {a}
        /\ heap'[a].pid = p /\ heap'[a].state = "RUNNING"
        /\ \A b \in DOMAIN heap : heap'[b] = heap[b]
    BY <2>1 DEF Insert
  <2>3. /\ DOMAIN proc' = DOMAIN proc \cup {p}
        /\ proc'[p].life = "run" /\ proc'[p].sigterm = FALSE /\ proc'[p].told = << >>
        /\ \A q \in DOMAIN proc : proc'[q] = proc[q]
    BY <2>1 DEF Insert
  <2>4. Ownership'
    BY <2>2, <2>3 DEF IInv, ProcessInv, Ownership
  <2>5. StateMatchesProcess'
    BY <2>2, <2>3 DEF IInv, ProcessInv, Ownership, StateMatchesProcess
  <2>6. EndToldTruthfully'
    BY <2>2, <2>3 DEF IInv, ProcessInv, EndToldTruthfully
  <2> QED BY <2>4, <2>5, <2>6 DEF ProcessInv
<1>4. ASSUME NEW c \in Clients, NEW n \in Names, NEW f \in Flags, Info(c, n, f)
       PROVE  ProcessInv'
  <2>1. /\ DOMAIN heap' = DOMAIN heap
        /\ \A b \in DOMAIN heap : heap'[b].pid = heap[b].pid /\ heap'[b].state = heap[b].state
    BY <1>4, CellTypes DEF Info, IInv, TablesInv, TypeOK, IsMap, ServiceInfo
  <2>2. proc' = proc
    BY <1>4 DEF Info
  <2> QED BY <2>1, <2>2 DEF IInv, ProcessInv, Ownership, StateMatchesProcess,
                            EndToldTruthfully
<1>5. ASSUME NEW c \in Clients, NEW n \in Names, NEW f \in Flags, InfoRefused(c, n, f)
       PROVE  ProcessInv'
  BY <1>5, ProcessSame DEF IInv, InfoRefused, Refuse
<1>6. ASSUME NEW c \in Clients, NEW l \in Labels, Stop(c, l)
       PROVE  ProcessInv'
  <2> DEFINE a == mSeqService[l]
             p == heap[a].pid
  <2>1. /\ a \in DOMAIN heap /\ heap[a].state \in {"RUNNING", "PAUSED"}
        /\ p \in DOMAIN proc /\ proc[p].life # "reaped"
    BY <1>6 DEF Stop, Known, Service, Stoppable, IInv, TablesInv, TablesAgree,
                 ProcessInv, Ownership, StateMatchesProcess
  <2>2. /\ DOMAIN heap' = DOMAIN heap
        /\ \A b \in DOMAIN heap : heap'[b].pid = heap[b].pid
        /\ \A b \in DOMAIN heap :
              heap'[b].state = IF b = a THEN "FINISHING_USER" ELSE heap[b].state
    BY <1>6, CellTypes DEF Stop, IInv, TablesInv, TypeOK, IsMap, ServiceInfo
  <2>3. /\ DOMAIN proc' = DOMAIN proc
        /\ \A q \in DOMAIN proc : q # p => proc'[q] = proc[q]
        /\ proc'[p].life = proc[p].life /\ proc'[p].told = proc[p].told
        /\ proc'[p].sigterm = TRUE
    BY <1>6, <2>1, ProcTypes DEF Stop, Service, Signalled, IInv, TablesInv, TypeOK, IsMap, Process
  <2> HIDE DEF a, p
  <2>4. Ownership'
    BY <2>1, <2>2, <2>3 DEF p, IInv, ProcessInv, Ownership
  <2>5. StateMatchesProcess'
    BY <2>1, <2>2, <2>3 DEF p, IInv, ProcessInv, Ownership, StateMatchesProcess
  <2>6. EndToldTruthfully'
    BY <2>1, <2>3 DEF IInv, ProcessInv, EndToldTruthfully
  <2> QED BY <2>4, <2>5, <2>6 DEF ProcessInv
<1>7. ASSUME NEW c \in Clients, NEW l \in Labels, StopRefused(c, l)
       PROVE  ProcessInv'
  BY <1>7, ProcessSame DEF IInv, StopRefused, Refuse
<1>8. ASSUME NEW c \in Clients, NEW l \in Labels, Pause(c, l)
       PROVE  ProcessInv'
  <2> DEFINE a == mSeqService[l]
             p == heap[a].pid
  <2>1. /\ a \in DOMAIN heap /\ heap[a].state \in {"RUNNING"}
        /\ p \in DOMAIN proc /\ proc[p].life # "reaped"
    BY <1>8 DEF Pause, Known, Service, Pausable, IInv, TablesInv, TablesAgree,
                 ProcessInv, Ownership, StateMatchesProcess
  <2>2. /\ DOMAIN heap' = DOMAIN heap
        /\ \A b \in DOMAIN heap : heap'[b].pid = heap[b].pid
        /\ \A b \in DOMAIN heap :
              heap'[b].state = IF b = a THEN "PAUSED" ELSE heap[b].state
    BY <1>8, CellTypes DEF Pause, IInv, TablesInv, TypeOK, IsMap, ServiceInfo
  <2>3. /\ DOMAIN proc' = DOMAIN proc
        /\ \A q \in DOMAIN proc : q # p => proc'[q] = proc[q]
        /\ proc'[p].life = IF proc[p].life = "run" THEN "stopped" ELSE proc[p].life
        /\ proc'[p].told = proc[p].told /\ proc'[p].sigterm = proc[p].sigterm
    BY <1>8, <2>1, ProcTypes DEF Pause, Service, Signalled, IInv, TablesInv, TypeOK, IsMap, Process
  <2> HIDE DEF a, p
  <2>4. Ownership'
    BY <2>1, <2>2, <2>3 DEF p, IInv, ProcessInv, Ownership
  <2>5. StateMatchesProcess'
    BY <2>1, <2>2, <2>3 DEF p, IInv, ProcessInv, Ownership, StateMatchesProcess
  <2>6. EndToldTruthfully'
    BY <2>1, <2>3 DEF IInv, ProcessInv, EndToldTruthfully
  <2> QED BY <2>4, <2>5, <2>6 DEF ProcessInv
<1>9. ASSUME NEW c \in Clients, NEW l \in Labels, PauseRefused(c, l)
       PROVE  ProcessInv'
  BY <1>9, ProcessSame DEF IInv, PauseRefused, Refuse
<1>10. ASSUME NEW c \in Clients, NEW l \in Labels, Restart(c, l)
       PROVE  ProcessInv'
  <2> DEFINE a == mSeqService[l]
             p == heap[a].pid
  <2>1. /\ a \in DOMAIN heap /\ heap[a].state \in {"PAUSED"}
        /\ p \in DOMAIN proc /\ proc[p].life # "reaped"
    BY <1>10 DEF Restart, Known, Service, IInv, TablesInv, TablesAgree,
                 ProcessInv, Ownership, StateMatchesProcess
  <2>2. /\ DOMAIN heap' = DOMAIN heap
        /\ \A b \in DOMAIN heap : heap'[b].pid = heap[b].pid
        /\ \A b \in DOMAIN heap :
              heap'[b].state = IF b = a THEN "RUNNING" ELSE heap[b].state
    BY <1>10, CellTypes DEF Restart, IInv, TablesInv, TypeOK, IsMap, ServiceInfo
  <2>3. /\ DOMAIN proc' = DOMAIN proc
        /\ \A q \in DOMAIN proc : q # p => proc'[q] = proc[q]
        /\ proc'[p].life = IF proc[p].life = "stopped" THEN "run" ELSE proc[p].life
        /\ proc'[p].told = proc[p].told /\ proc'[p].sigterm = proc[p].sigterm
    BY <1>10, <2>1, ProcTypes DEF Restart, Service, Signalled, IInv, TablesInv, TypeOK, IsMap, Process
  <2> HIDE DEF a, p
  <2>4. Ownership'
    BY <2>1, <2>2, <2>3 DEF p, IInv, ProcessInv, Ownership
  <2>5. StateMatchesProcess'
    BY <2>1, <2>2, <2>3 DEF p, IInv, ProcessInv, Ownership, StateMatchesProcess
  <2>6. EndToldTruthfully'
    BY <2>1, <2>3 DEF IInv, ProcessInv, EndToldTruthfully
  <2> QED BY <2>4, <2>5, <2>6 DEF ProcessInv
<1>11. ASSUME NEW c \in Clients, NEW l \in Labels, RestartRefused(c, l)
       PROVE  ProcessInv'
  BY <1>11, ProcessSame DEF IInv, RestartRefused, Refuse
<1>12. ASSUME Timeout
       PROVE  ProcessInv'
  BY <1>12, ProcessSame DEF IInv, Timeout
<1>13. ASSUME ScanSkip
       PROVE  ProcessInv'
  BY <1>13, ProcessSame DEF IInv, ScanSkip
<1>14. ASSUME ScanWild
       PROVE  ProcessInv'
  BY <1>14, ProcessSame DEF IInv, ScanWild
<1>15. ASSUME ScanNotEnded
       PROVE  ProcessInv'
  BY <1>15, ProcessSame DEF IInv, ScanNotEnded
<1>16. ASSUME ScanReap
       PROVE  ProcessInv'
  <2> DEFINE a == Entry
             p == heap[a].pid
             cause == proc[p].cause
             response == [status |-> EndStatus(heap[a].state, cause), to |-> heap[a].writer]
  <2>1. /\ a \in DOMAIN heap /\ heap[a].state \in Watched
        /\ p \in DOMAIN proc /\ proc[p].life = "zombie"
    BY <1>16 DEF ScanReap, Dangling, IInv, ProcessInv, Ownership
  <2>2. /\ DOMAIN heap' = DOMAIN heap
        /\ \A b \in DOMAIN heap : heap'[b].pid = heap[b].pid
        /\ \A b \in DOMAIN heap :
              heap'[b].state = IF b = a THEN EndState(heap[a].state, cause)
                               ELSE heap[b].state
    BY <1>16, CellTypes DEF ScanReap, IInv, TablesInv, TypeOK, IsMap, ServiceInfo
  <2>3. /\ DOMAIN proc' = DOMAIN proc
        /\ \A q \in DOMAIN proc : q # p => proc'[q] = proc[q]
        /\ proc'[p].life = "reaped" /\ proc'[p].told = Append(proc[p].told, response)
        /\ proc'[p].cause = cause /\ proc'[p].sigterm = proc[p].sigterm
    <3>1. proc' = [proc EXCEPT ![p].life = "reaped", ![p].told = Append(@, response)]
      BY <1>16 DEF ScanReap
    <3>2. proc[p] \in Process /\ proc = [q \in DOMAIN proc |-> proc[q]]
      BY <2>1, ProcTypes DEF IInv, TablesInv, TypeOK, IsMap
    <3> HIDE DEF response, p, cause
    <3> QED BY <2>1, <3>1, <3>2 DEF cause, Process
  <2>4. EndState(heap[a].state, cause) \in FinalStates
    BY DEF EndState, FinalStates
  <2>5. proc[p].told \in Seq(Response) /\ Len(proc[p].told) = 0
    BY <2>1, ProcTypes DEF IInv, TablesInv, Process, ProcessInv, EndToldTruthfully
  <2>6. (heap[a].state = "FINISHING_USER") <=> proc[p].sigterm
    <3>1. heap[a].state = "FINISHING_USER" => proc[p].sigterm
      BY <2>1 DEF IInv, ProcessInv, StateMatchesProcess
    <3>2. heap[a].state # "FINISHING_USER" => ~proc[p].sigterm
      BY <2>1 DEF IInv, ProcessInv, Ownership, Watched
    <3> QED BY <3>1, <3>2
  <2>7. /\ (response.status = "USER") <=> (proc[p].sigterm /\ cause = "TERM")
        /\ (response.status = "EXIT") <=> (cause \in {"ok", "error"})
    <3>1. response.status = EndStatus(heap[a].state, cause)
      OBVIOUS
    <3>2. CASE cause \in {"ok", "error"}
      <4>1. response.status = "EXIT" /\ cause # "TERM"
        BY <3>1, <3>2 DEF EndStatus
      <4> QED BY <4>1, <3>2
    <3>3. CASE cause = "TERM" /\ heap[a].state = "FINISHING_USER"
      <4>1. response.status = "USER"
        BY <3>1, <3>3 DEF EndStatus
      <4> QED BY <4>1, <3>3, <2>6
    <3>4. CASE cause \notin {"ok", "error"} /\ ~(cause = "TERM" /\ heap[a].state = "FINISHING_USER")
      <4>1. response.status = "SIGNAL"
        BY <3>1, <3>4 DEF EndStatus
      <4> QED BY <4>1, <3>4, <2>6
    <3> QED BY <3>2, <3>3, <3>4
  <2>8. Len(proc'[p].told) = 1 /\ proc'[p].told[1] = response
    <3> HIDE DEF response
    <3>1. response \in Response
      BY <2>1, CellTypes DEF response, EndStatus, ServiceInfo, Response, Statuses, IInv, TablesInv
    <3> QED BY <2>3, <2>5, <3>1
  <2> HIDE DEF a, p, cause, response
  <2>9. Ownership'
    BY <2>1, <2>2, <2>3, <2>4 DEF p, FinalStates, IInv, ProcessInv, Ownership
  <2>10. StateMatchesProcess'
    BY <2>1, <2>2, <2>3, <2>4 DEF p, FinalStates, IInv, ProcessInv, Ownership, StateMatchesProcess
  <2>11. EndToldTruthfully'
    BY <2>1, <2>3, <2>7, <2>8 DEF IInv, ProcessInv, EndToldTruthfully
  <2> QED BY <2>9, <2>10, <2>11 DEF ProcessInv
<1>17. ASSUME ScanEnd
       PROVE  ProcessInv'
  BY <1>17, ProcessSame DEF IInv, ScanEnd
<1>18. ASSUME GcErase
       PROVE  ProcessInv'
  <2>1. /\ proc' = proc /\ DOMAIN heap' \subseteq DOMAIN heap
        /\ \A b \in DOMAIN heap' : heap'[b] = heap[b]
    BY <1>18 DEF GcErase, Erase
  <2> QED BY <2>1 DEF IInv, ProcessInv, Ownership, StateMatchesProcess, EndToldTruthfully
<1>19. ASSUME GcWild
       PROVE  ProcessInv'
  BY <1>19, ProcessSame DEF IInv, GcWild
<1>20. ASSUME GcEnd
       PROVE  ProcessInv'
  BY <1>20, ProcessSame DEF IInv, GcEnd
<1>21. ASSUME NEW p \in Pids, NEW cause \in Causes \ {"none"}, Exit(p, cause)
       PROVE  ProcessInv'
  <2>1. /\ heap' = heap /\ p \in DOMAIN proc /\ proc[p].life \in {"run", "stopped"}
        /\ proc' = [proc EXCEPT ![p].life = "zombie", ![p].cause = cause]
    BY <1>21 DEF Exit, End
  <2>2. /\ DOMAIN proc' = DOMAIN proc
        /\ \A q \in DOMAIN proc : q # p => proc'[q] = proc[q]
        /\ proc'[p].life = "zombie" /\ proc'[p].told = proc[p].told
        /\ proc'[p].sigterm = proc[p].sigterm
    BY <2>1, ProcTypes DEF IInv, TablesInv, TypeOK, IsMap, Process
  <2>3. Ownership'
    BY <2>1, <2>2 DEF IInv, ProcessInv, Ownership
  <2>4. StateMatchesProcess'
    BY <2>1, <2>2 DEF IInv, ProcessInv, Ownership, StateMatchesProcess
  <2>5. EndToldTruthfully'
    BY <2>1, <2>2 DEF IInv, ProcessInv, EndToldTruthfully
  <2> QED BY <2>3, <2>4, <2>5 DEF ProcessInv
<1>22. ASSUME NEW p \in Pids, TermDelivered(p)
       PROVE  ProcessInv'
  <2>1. /\ heap' = heap /\ p \in DOMAIN proc /\ proc[p].life \in {"run", "stopped"}
        /\ proc' = [proc EXCEPT ![p].life = "zombie", ![p].cause = "TERM"]
    BY <1>22 DEF TermDelivered, End
  <2>2. /\ DOMAIN proc' = DOMAIN proc
        /\ \A q \in DOMAIN proc : q # p => proc'[q] = proc[q]
        /\ proc'[p].life = "zombie" /\ proc'[p].told = proc[p].told
        /\ proc'[p].sigterm = proc[p].sigterm
    BY <2>1, ProcTypes DEF IInv, TablesInv, TypeOK, IsMap, Process
  <2>3. Ownership'
    BY <2>1, <2>2 DEF IInv, ProcessInv, Ownership
  <2>4. StateMatchesProcess'
    BY <2>1, <2>2 DEF IInv, ProcessInv, Ownership, StateMatchesProcess
  <2>5. EndToldTruthfully'
    BY <2>1, <2>2 DEF IInv, ProcessInv, EndToldTruthfully
  <2> QED BY <2>3, <2>4, <2>5 DEF ProcessInv
<1>23. ASSUME NEW c \in Clients, InfoByLabel(c)
       PROVE  ProcessInv'
  BY <1>23, ProcessSame DEF IInv, InfoByLabel, Refuse
<1>24. ASSUME UNCHANGED vars
       PROVE  ProcessInv'
  BY <1>24, ProcessSame DEF IInv, vars
<1>25. ASSUME NEW c \in Clients, NEW n \in Names, StartSmashes(c, n)
       PROVE  ProcessInv'
  BY <1>25, ProcessSame DEF IInv, StartSmashes
<1>26. ASSUME ReturnSmashed
       PROVE  ProcessInv'
  BY <1>26, ProcessSame DEF IInv, ReturnSmashed
<1> QED
  BY <1>1, <1>2, <1>3, <1>4, <1>5, <1>6, <1>7, <1>8, <1>9, <1>10, <1>11, <1>12,
     <1>13, <1>14, <1>15, <1>16, <1>17, <1>18, <1>19, <1>20, <1>21, <1>22, <1>23, <1>24,
     <1>25, <1>26
  DEF Next, Worker, Handle, Monitor, Processes

\* The inductive invariant holds of every reachable state.
LEMMA Inductive == Spec => []IInv
<1>1. Init => IInv
  BY TypeInit, TablesInit, ProcessInit DEF IInv, TablesInv
<1>2. IInv /\ [Next]_vars => IInv'
  BY TypeStep, TablesStep, ProcessStep DEF IInv, TablesInv
<1> QED BY <1>1, <1>2, PTL DEF Spec

\* STOP, PAUSE and RESTART never signal a process that has been reaped, and the
\* state kept for a service is the one its process is in.
THEOREM SignalsItsOwn == Spec => []StateMatchesProcess
<1>1. IInv => StateMatchesProcess
  BY DEF IInv, ProcessInv
<1> QED BY <1>1, Inductive, PTL

\* The end of a service is told once, when it is reaped, as the user's doing
\* exactly when the executor had been asked to stop it and it died of SIGTERM.
THEOREM EndsToldTruthfully == Spec => []EndToldTruthfully
<1>1. IInv => EndToldTruthfully
  BY DEF IInv, ProcessInv
<1> QED BY <1>1, Inductive, PTL

\* Only the sweep, which reaps its process, and the collection end what a STOP
\* has begun.
LEMMA FinishingStays ==
    ASSUME IInv, [Next]_vars, NEW a \in DOMAIN heap, heap[a].state = "FINISHING_USER",
           a \in DOMAIN heap'
    PROVE  /\ heap'[a].pid = heap[a].pid
           /\ \/ heap'[a].state = "FINISHING_USER"
              \/ heap'[a].state \in FinalStates /\ proc'[heap[a].pid].life = "reaped"
<1> DEFINE Stays == heap'[a].pid = heap[a].pid /\ heap'[a].state = "FINISHING_USER"
           Changing == \E c \in Clients :
               \/ \E n \in Names, s \in Sequences, f \in Flags, b \in Addrs, p \in Pids :
                     StartForked(c, n, s, f, b, p)
               \/ \E n \in Names, f \in Flags : Info(c, n, f)
               \/ \E l \in Labels : Stop(c, l) \/ Pause(c, l) \/ Restart(c, l)
<1>1. /\ heap[a] \in ServiceInfo /\ heap[a].pid \in DOMAIN proc
      /\ \A b \in DOMAIN heap : heap[b] \in ServiceInfo
      /\ \A l \in DOMAIN mSeqService : mSeqService[l] \in DOMAIN heap
  BY CellTypes DEF IInv, TablesInv, TablesAgree, ProcessInv, Ownership
<1>2. CASE heap' = heap
  BY <1>2
<1>3. ASSUME NEW c \in Clients, NEW n \in Names, NEW s \in Sequences, NEW f \in Flags,
             NEW b \in Addrs, NEW p \in Pids, StartForked(c, n, s, f, b, p)
      PROVE  Stays
  BY <1>3 DEF StartForked, Insert
<1>4. ASSUME NEW b, NEW state, heap' = [heap EXCEPT ![b].state = state],
             b = a => state = "FINISHING_USER"
      PROVE  Stays
  BY <1>1, <1>4 DEF ServiceInfo
<1>5. ASSUME NEW c \in Clients, NEW l \in Labels, Stop(c, l) PROVE Stays
  BY <1>4, <1>5 DEF Stop
<1>6. ASSUME NEW c \in Clients, NEW l \in Labels, Pause(c, l) PROVE Stays
  BY <1>4, <1>6 DEF Pause, Pausable, Service
<1>7. ASSUME NEW c \in Clients, NEW l \in Labels, Restart(c, l) PROVE Stays
  BY <1>4, <1>7 DEF Restart, Service
<1>8. ASSUME NEW c \in Clients, NEW n \in Names, NEW f \in Flags, Info(c, n, f) PROVE Stays
  <2>1. heap' = [heap EXCEPT ![mNameService[n]].writer = @ \cup {c}]
    BY <1>8 DEF Info
  <2> QED BY <1>1, <2>1 DEF ServiceInfo
<1>9. CASE GcErase
  BY <1>9 DEF GcErase, Erase
<1>10. CASE ScanReap
  <2> DEFINE e == Entry
             p == heap[e].pid
             end == EndState(heap[e].state, proc[p].cause)
  <2>1. /\ heap' = [heap EXCEPT ![e].state = end]
        /\ proc' = [proc EXCEPT ![p].life = "reaped", ![p].told = Append(@,
               [status |-> EndStatus(heap[e].state, proc[p].cause), to |-> heap[e].writer])]
    BY <1>10 DEF ScanReap
  <2>2. end \in FinalStates
    BY DEF EndState, FinalStates
  <2> HIDE DEF e, end
  <2>3. CASE a = e
    <3>1. heap'[a].state = end /\ heap'[a].pid = heap[a].pid
      BY <1>1, <2>1, <2>3 DEF ServiceInfo
    <3>2. proc'[p].life = "reaped"
      <4>1. proc[p] \in Process /\ p \in DOMAIN proc
        BY <1>1, <2>3, ProcTypes DEF IInv, TablesInv
      <4> QED BY <2>1, <4>1 DEF Process
    <3> QED BY <2>2, <2>3, <3>1, <3>2
  <2>4. CASE a # e
    BY <2>1, <2>4
  <2> QED BY <2>3, <2>4
<1>11. heap' = heap \/ ScanReap \/ GcErase \/ Changing
  <2>1. Handle => heap' = heap \/ Changing
    BY DEF Handle, InfoByLabel, StartExists, StartForkFails, StartSmashes, InfoRefused, StopRefused,
           PauseRefused, RestartRefused, Refuse
  <2>2. Timeout \/ Monitor => heap' = heap \/ ScanReap \/ GcErase
    BY DEF Timeout, Monitor, ScanSkip, ScanWild, ScanNotEnded, ScanEnd, GcWild, GcEnd,
           ReturnSmashed
  <2>3. Processes \/ UNCHANGED vars => heap' = heap
    BY DEF Processes, Exit, TermDelivered, End, vars
  <2> QED BY <2>1, <2>2, <2>3 DEF Next, Worker
<1> QED BY <1>2, <1>3, <1>5, <1>6, <1>7, <1>8, <1>9, <1>10, <1>11

\* What a STOP has begun no later command takes back.
THEOREM StopsForGood == Spec => StopIsFinal
<1>1. IInv /\ [Next]_vars =>
        [\A a \in DOMAIN heap :
            heap[a].state = "FINISHING_USER" =>
              \/ a \notin DOMAIN heap'
              \/ heap'[a].pid = heap[a].pid /\ heap'[a].state = "FINISHING_USER"
              \/ /\ heap'[a].pid = heap[a].pid /\ heap'[a].state \in FinalStates
                 /\ proc'[heap[a].pid].life = "reaped"]_vars
  BY FinishingStays
<1> QED BY <1>1, Inductive, PTL DEF Spec, StopIsFinal
=============================================================================
