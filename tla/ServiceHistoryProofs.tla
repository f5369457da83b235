------------------------ MODULE ServiceHistoryProofs ------------------------
(***************************************************************************)
(* What may be relied on of the service executor in spite of the iterators *)
(* it saves: everything, until a sweep collects two services or, for wild  *)
(* accesses, a service is restarted or started with a command longer than  *)
(* its buffer.  A saved iterator is right as long as it is the only one:   *)
(* its entry is of a live cell whose process has been reaped (Marks), so   *)
(* that erasing it takes no entry of a process that is still there; and    *)
(* without a RESTART an address is in the vector once (NoTwice), so that   *)
(* erasing it leaves no entry of a freed cell.                             *)
(***************************************************************************)
EXTENDS ServiceHistory, ServiceExcutorProofs

\* The entry at a position of the vector is of a service that was reaped.
Marked(i) ==
    /\ i <= Len(mRunningService)
    /\ mRunningService[i] \in DOMAIN heap
    /\ proc[heap[mRunningService[i]].pid].life = "reaped"

Saved == {gcIterator[k] : k \in 1..Len(gcIterator)}

Marks ==
    /\ pc = "wait" => gcIterator = << >>
    /\ ~crowded => Len(gcIterator) <= 1 /\ \A i \in Saved : Marked(i)

NoTwice ==
    ~restarted =>
        /\ \A i \in 1..Len(mRunningService) : mRunningService[i] \in DOMAIN heap
        /\ \A i, j \in 1..Len(mRunningService) :
              mRunningService[i] = mRunningService[j] => i = j

HInv == HistoryTypeOK /\ IInv /\ Marks /\ NoTwice /\ KeptUntilReaped /\ DiesOnlyWild

-----------------------------------------------------------------------------
(* What the steps do to entries and to the vector *)

Starting == \E c \in Clients, n \in Names, s \in Sequences, f \in Flags,
               a \in Addrs, p \in Pids : StartForked(c, n, s, f, a, p)
Restarting == \E c \in Clients, l \in Labels : Restart(c, l)
Smashing == \E c \in Clients, n \in Names : StartSmashes(c, n)

KeepsEntries ==
    /\ DOMAIN heap' = DOMAIN heap
    /\ \A a \in DOMAIN heap : heap'[a].pid = heap[a].pid /\ heap'[a].name = heap[a].name
    /\ DOMAIN proc' = DOMAIN proc
    /\ \A p \in DOMAIN proc : /\ proc'[p].name = proc[p].name
                              /\ proc[p].life = "reaped" => proc'[p].life = "reaped"

\* Assigning the state of a cell keeps its name and pid.
LEMMA StateKeeps ==
    ASSUME TypeOK, NEW b, NEW state, heap' = [heap EXCEPT ![b].state = state]
    PROVE  /\ DOMAIN heap' = DOMAIN heap
           /\ \A a \in DOMAIN heap :
                 heap'[a].pid = heap[a].pid /\ heap'[a].name = heap[a].name
BY CellTypes DEF ServiceInfo

\* A signal that stops or continues a process brings none back.
LEMMA SignalKeeps ==
    ASSUME TypeOK, NEW q, NEW from, NEW to, from # "reaped", Signalled(q, from, to)
    PROVE  /\ DOMAIN proc' = DOMAIN proc
           /\ \A p \in DOMAIN proc :
                 /\ proc'[p].name = proc[p].name
                 /\ proc[p].life = "reaped" => proc'[p].life = "reaped"
BY ProcTypes DEF Process, Signalled

\* A process that ends had not been reaped.
LEMMA EndKeeps ==
    ASSUME TypeOK, NEW q \in DOMAIN proc, NEW cause, proc[q].life # "reaped", End(q, cause)
    PROVE  KeepsEntries
<1>1. \A p \in DOMAIN proc : proc[p] \in Process
  BY ProcTypes
<1>2. heap' = heap /\ proc' = [proc EXCEPT ![q].life = "zombie", ![q].cause = cause]
  BY DEF End
<1>3. DOMAIN proc' = DOMAIN proc
  BY <1>2
<1>4. ASSUME NEW p \in DOMAIN proc
      PROVE  /\ proc'[p].name = proc[p].name
             /\ proc[p].life = "reaped" => proc'[p].life = "reaped"
  <2>1. CASE p = q
    BY <1>1, <1>2, <2>1 DEF Process
  <2>2. CASE p # q
    BY <1>2, <2>2
  <2> QED BY <2>1, <2>2
<1> QED BY <1>2, <1>3, <1>4 DEF KeepsEntries

\* What a sweep that finds an ended process does to it and to its entry.
LEMMA ReapKeeps ==
    ASSUME IInv, ScanReap, NEW i, i = it
    PROVE  /\ KeepsEntries /\ mRunningService' = mRunningService
           /\ gcIterator' = Append(gcIterator, i) /\ Marked(i)' /\ pc' = "scan"
<1> DEFINE a == mRunningService[i]
           p == heap[a].pid
<1>1. /\ a \in DOMAIN heap /\ i <= Len(mRunningService) /\ pc' = "scan"
      /\ heap' = [heap EXCEPT ![a].state = EndState(heap[a].state, proc[p].cause)]
      /\ proc' = [proc EXCEPT ![p].life = "reaped", ![p].told = Append(@,
             [status |-> EndStatus(heap[a].state, proc[p].cause), to |-> heap[a].writer])]
      /\ mRunningService' = mRunningService /\ gcIterator' = Append(gcIterator, i)
  BY DEF ScanReap, Scanning, Dangling, Entry, Advance, tables
<1>2. TypeOK /\ p \in DOMAIN proc
  BY <1>1 DEF IInv, TablesInv, ProcessInv, Ownership
<1>3. /\ DOMAIN heap' = DOMAIN heap
      /\ \A b \in DOMAIN heap : heap'[b].pid = heap[b].pid /\ heap'[b].name = heap[b].name
  BY <1>1, <1>2, StateKeeps
<1> HIDE DEF a, p
<1>4. DOMAIN proc' = DOMAIN proc /\ \A q \in DOMAIN proc : proc[q] \in Process
  BY <1>1, <1>2, ProcTypes
<1>5. proc'[p].life = "reaped" /\ proc'[p].name = proc[p].name
  BY <1>1, <1>2, <1>4 DEF Process
<1>6. \A q \in DOMAIN proc : q # p => proc'[q] = proc[q]
  BY <1>1
<1>7. KeepsEntries
  BY <1>3, <1>4, <1>5, <1>6 DEF KeepsEntries
<1>8. Marked(i)'
  <2>1. mRunningService'[i] = a /\ heap'[a].pid = p /\ a \in DOMAIN heap'
    BY <1>1, <1>3 DEF a, p
  <2> QED BY <1>1, <1>5, <2>1 DEF Marked
<1> QED BY <1>1, <1>7, <1>8

-----------------------------------------------------------------------------
(* The steps *)

\* A message that starts nothing, or a second without one, begins a sweep with
\* no iterator saved and leaves every entry where it is.
LEMMA MessageKeeps ==
    ASSUME IInv, Handle \/ Timeout, ~Starting, ~Smashing
    PROVE  /\ KeepsEntries /\ gcIterator' = << >> /\ pc' = "scan" /\ UNCHANGED alive
           /\ mRunningService' = mRunningService \/ Restarting
<1> USE DEF Answer, StartSweep
<1>1. TypeOK
  BY DEF IInv, TablesInv
<1>2. UNCHANGED <<heap, tables, proc>> => KeepsEntries /\ mRunningService' = mRunningService
  BY DEF KeepsEntries, tables
<1>3. CASE Timeout
  BY <1>2, <1>3 DEF Timeout
<1>4. ASSUME NEW c \in Clients, InfoByLabel(c)
      PROVE  /\ UNCHANGED <<heap, tables, proc>>
             /\ gcIterator' = << >> /\ pc' = "scan" /\ UNCHANGED alive
  BY <1>4 DEF InfoByLabel, Refuse
<1>5. ASSUME NEW c \in Clients, NEW n \in Names,
             \/ StartExists(c, n) \/ StartForkFails(c, n)
             \/ \E f \in Flags : InfoRefused(c, n, f)
      PROVE  /\ UNCHANGED <<heap, tables, proc>>
             /\ gcIterator' = << >> /\ pc' = "scan" /\ UNCHANGED alive
  BY <1>5 DEF StartExists, StartForkFails, InfoRefused, Refuse
<1>6. ASSUME NEW c \in Clients, NEW l \in Labels,
             StopRefused(c, l) \/ PauseRefused(c, l) \/ RestartRefused(c, l)
      PROVE  /\ UNCHANGED <<heap, tables, proc>>
             /\ gcIterator' = << >> /\ pc' = "scan" /\ UNCHANGED alive
  BY <1>6 DEF StopRefused, PauseRefused, RestartRefused, Refuse
<1>7. ASSUME NEW c \in Clients, NEW n \in Names, NEW f \in Flags, Info(c, n, f)
      PROVE  /\ KeepsEntries /\ mRunningService' = mRunningService
             /\ gcIterator' = << >> /\ pc' = "scan" /\ UNCHANGED alive
  <2>1. /\ heap' = [heap EXCEPT ![mNameService[n]].writer = @ \cup {c}] /\ proc' = proc
        /\ mRunningService' = mRunningService
        /\ gcIterator' = << >> /\ pc' = "scan" /\ UNCHANGED alive
    BY <1>7 DEF Info, tables
  <2>2. KeepsEntries
    BY <1>1, <2>1, CellTypes DEF KeepsEntries, ServiceInfo
  <2> QED BY <2>1, <2>2
<1>8. ASSUME NEW c \in Clients, NEW l \in Labels, Stop(c, l)
      PROVE  /\ KeepsEntries /\ mRunningService' = mRunningService
             /\ gcIterator' = << >> /\ pc' = "scan" /\ UNCHANGED alive
  <2>1. /\ heap' = [heap EXCEPT ![mSeqService[l]].state = "FINISHING_USER"]
        /\ proc' = [proc EXCEPT ![Service(l).pid].sigterm = TRUE]
        /\ mRunningService' = mRunningService
        /\ gcIterator' = << >> /\ pc' = "scan" /\ UNCHANGED alive
    BY <1>8 DEF Stop, tables
  <2>2. /\ DOMAIN proc' = DOMAIN proc
        /\ \A p \in DOMAIN proc : proc'[p].name = proc[p].name /\ proc'[p].life = proc[p].life
    BY <1>1, <2>1, ProcTypes DEF Process
  <2> QED BY <1>1, <2>1, <2>2, StateKeeps DEF KeepsEntries
<1>9. ASSUME NEW c \in Clients, NEW l \in Labels, Pause(c, l)
      PROVE  /\ KeepsEntries /\ mRunningService' = mRunningService
             /\ gcIterator' = << >> /\ pc' = "scan" /\ UNCHANGED alive
  <2>1. /\ heap' = [heap EXCEPT ![mSeqService[l]].state = "PAUSED"]
        /\ Signalled(Service(l).pid, "run", "stopped")
        /\ mRunningService' = mRunningService
        /\ gcIterator' = << >> /\ pc' = "scan" /\ UNCHANGED alive
    BY <1>9 DEF Pause, tables
  <2> QED BY <1>1, <2>1, StateKeeps, SignalKeeps DEF KeepsEntries
<1>10. ASSUME NEW c \in Clients, NEW l \in Labels, Restart(c, l)
       PROVE  /\ KeepsEntries /\ gcIterator' = << >> /\ pc' = "scan" /\ UNCHANGED alive
  <2>1. /\ heap' = [heap EXCEPT ![mSeqService[l]].state = "RUNNING"]
        /\ Signalled(Service(l).pid, "stopped", "run")
        /\ gcIterator' = << >> /\ pc' = "scan" /\ UNCHANGED alive
    BY <1>10 DEF Restart
  <2> QED BY <1>1, <2>1, StateKeeps, SignalKeeps DEF KeepsEntries
<1> QED BY <1>2, <1>3, <1>4, <1>5, <1>6, <1>7, <1>8, <1>9, <1>10 DEF Handle, Starting, Restarting, Smashing

\* A step of the scan, of the end of a collection, of a service, or none.
LEMMA OtherKeeps ==
    ASSUME IInv, [Next]_vars, ~(Handle \/ Timeout) \/ Smashing, ~GcErase
    PROVE  /\ KeepsEntries /\ mRunningService' = mRunningService
           /\ \/ gcIterator' = gcIterator
              \/ \E i \in Nat : gcIterator' = Append(gcIterator, i) /\ Marked(i)'
           /\ pc' = "wait" => gcIterator' = << >> \/ (pc = "wait" /\ gcIterator' = gcIterator)
           /\ UNCHANGED alive \/ ScanWild \/ GcWild \/ smashed'
<1>1. TypeOK
  BY DEF IInv, TablesInv
<1>2. UNCHANGED <<heap, tables, proc>> => KeepsEntries /\ mRunningService' = mRunningService
  BY DEF KeepsEntries, tables
<1>3. CASE ScanSkip \/ ScanWild \/ ScanEnd \/ GcWild \/ GcEnd \/ UNCHANGED vars
  BY <1>2, <1>3 DEF ScanSkip, ScanWild, ScanEnd, GcWild, GcEnd, vars, sweep, Scanning,
                    Collecting, Advance
<1>4. CASE ScanNotEnded
  <2>1. PICK i \in Nat : i = it
    BY <1>1 DEF TypeOK
  <2>2. /\ UNCHANGED <<heap, tables, proc>> /\ UNCHANGED alive /\ pc' = "scan"
        /\ i <= Len(mRunningService) /\ mRunningService[i] \in DOMAIN heap
        /\ gcIterator' = IF proc[heap[mRunningService[i]].pid].life = "reaped"
                         THEN Append(gcIterator, i) ELSE gcIterator
    BY <1>4, <2>1 DEF ScanNotEnded, Scanning, Advance, Dangling, Entry
  <2>3. CASE proc[heap[mRunningService[i]].pid].life = "reaped"
    BY <1>2, <2>2, <2>3 DEF Marked, tables
  <2>4. CASE proc[heap[mRunningService[i]].pid].life # "reaped"
    BY <1>2, <2>2, <2>4
  <2> QED BY <2>3, <2>4
<1>5. CASE ScanReap
  <2>1. PICK i \in Nat : i = it
    BY <1>1 DEF TypeOK
  <2>2. UNCHANGED alive
    BY <1>5 DEF ScanReap, Advance
  <2> QED BY <1>5, <2>1, <2>2, ReapKeeps
<1>6. ASSUME NEW p \in Pids, TermDelivered(p) \/ \E cause \in Causes : Exit(p, cause)
      PROVE  KeepsEntries /\ UNCHANGED <<mRunningService, sweep, alive>>
  <2>1. PICK cause : p \in DOMAIN proc /\ proc[p].life # "reaped" /\ End(p, cause)
    BY <1>6 DEF TermDelivered, Exit
  <2> QED BY <1>1, <2>1, EndKeeps DEF End, tables
<1>7. CASE Processes
  BY <1>6, <1>7 DEF Processes, sweep
<1>8. CASE ReturnSmashed \/ Smashing
  BY <1>2, <1>8 DEF ReturnSmashed, Smashing, StartSmashes, Copied, sweep
<1> QED BY <1>3, <1>4, <1>5, <1>7, <1>8 DEF Next, Worker, Monitor

\* Once the daemon is dead only its services move.
LEMMA DeadStays == ~alive /\ [Next]_vars => UNCHANGED <<smashed, alive>>
<1> SUFFICES ASSUME ~alive, [Next]_vars PROVE UNCHANGED <<smashed, alive>>
  OBVIOUS
<1>1. ~Handle
  <2>1. ~Waiting
    BY DEF Waiting
  <2>2. ASSUME NEW c \in Clients, NEW n \in Names
        PROVE  /\ ~StartExists(c, n) /\ ~StartForkFails(c, n)
               /\ ~StartSmashes(c, n) /\ \A f \in Flags : ~Info(c, n, f) /\ ~InfoRefused(c, n, f)
    BY <2>1 DEF StartExists, StartForkFails, StartSmashes, Info, InfoRefused
  <2>3. ASSUME NEW c \in Clients, NEW n \in Names, NEW s \in Sequences, NEW f \in Flags,
               NEW a \in Addrs, NEW p \in Pids
        PROVE  ~StartForked(c, n, s, f, a, p)
    BY <2>1 DEF StartForked
  <2>4. ASSUME NEW c \in Clients, NEW l \in Labels
        PROVE  /\ ~Stop(c, l) /\ ~StopRefused(c, l) /\ ~Pause(c, l) /\ ~PauseRefused(c, l)
               /\ ~Restart(c, l) /\ ~RestartRefused(c, l)
    BY <2>1 DEF Stop, StopRefused, Pause, PauseRefused, Restart, RestartRefused
  <2>5. \A c \in Clients : ~InfoByLabel(c)
    BY <2>1 DEF InfoByLabel
  <2> QED BY <2>2, <2>3, <2>4, <2>5 DEF Handle
<1>2. ~Timeout /\ ~Monitor
  BY DEF Timeout, Waiting, Monitor, ScanSkip, ScanWild, ScanNotEnded, ScanReap, ScanEnd,
         GcErase, GcWild, GcEnd, ReturnSmashed, Scanning, Collecting
<1>3. Processes \/ UNCHANGED vars
  BY <1>1, <1>2 DEF Next, Worker
<1> QED BY <1>3 DEF Processes, Exit, TermDelivered, End, vars

\* START puts a new cell with a new process behind the others.
LEMMA StartAdds ==
    ASSUME IInv, Starting
    PROVE  \E a \in Addrs \ DOMAIN heap, p \in Pids \ DOMAIN proc :
              /\ DOMAIN heap' = DOMAIN heap \cup {a}
              /\ \A b \in DOMAIN heap : heap'[b] = heap[b]
              /\ DOMAIN proc' = DOMAIN proc \cup {p}
              /\ \A q \in DOMAIN proc : proc'[q] = proc[q]
              /\ heap'[a].pid = p /\ heap'[a].name = proc'[p].name
              /\ mRunningService' = Append(mRunningService, a)
              /\ gcIterator' = << >> /\ pc' = "scan" /\ UNCHANGED alive
<1>1. PICK c \in Clients, n \in Names, s \in Sequences, f \in Flags, a \in Addrs, p \in Pids :
          StartForked(c, n, s, f, a, p)
  BY DEF Starting
<1> DEFINE info == [name |-> n, pid |-> p, state |-> "RUNNING", label |-> <<s, a>>,
                    flags |-> f, writer |-> {c}]
           process == [life |-> "run", name |-> n, sigterm |-> FALSE,
                       cause |-> "none", told |-> << >>]
<1>2. /\ heap' = Insert(heap, a, info) /\ proc' = Insert(proc, p, process)
      /\ a \notin DOMAIN heap /\ p \notin DOMAIN proc
      /\ mRunningService' = Append(mRunningService, a)
      /\ gcIterator' = << >> /\ pc' = "scan" /\ UNCHANGED alive
  BY <1>1 DEF StartForked, Answer, StartSweep
<1>3. info.pid = p /\ info.name = n /\ process.name = n
  OBVIOUS
<1> HIDE DEF info, process
<1>4. /\ DOMAIN heap' = DOMAIN heap \cup {a} /\ heap'[a] = info
      /\ \A b \in DOMAIN heap : heap'[b] = heap[b]
  BY <1>2 DEF Insert
<1>5. /\ DOMAIN proc' = DOMAIN proc \cup {p} /\ proc'[p] = process
      /\ \A q \in DOMAIN proc : proc'[q] = proc[q]
  BY <1>2 DEF Insert
<1> QED BY <1>2, <1>3, <1>4, <1>5

\* The collection takes one entry out of the vector and frees its cell.
LEMMA GcTakes ==
    ASSUME IInv, GcErase
    PROVE  \E i \in 1..Len(mRunningService) :
              /\ i = Head(gcIterator) /\ gcIterator # << >> /\ gcIterator' = Tail(gcIterator)
              /\ mRunningService[i] \in DOMAIN heap
              /\ DOMAIN heap' = DOMAIN heap \ {mRunningService[i]}
              /\ \A b \in DOMAIN heap' : heap'[b] = heap[b]
              /\ Len(mRunningService') = Len(mRunningService) - 1
              /\ \A j \in 1..Len(mRunningService') :
                    mRunningService'[j] = mRunningService[IF j < i THEN j ELSE j + 1]
              /\ proc' = proc /\ pc' = "gc" /\ UNCHANGED alive
<1>1. TypeOK /\ mRunningService \in Seq(Addrs) /\ gcIterator \in Seq(Nat \ {0})
  BY DEF IInv, TablesInv, TypeOK
<1>2. PICK i : i = Head(gcIterator)
  OBVIOUS
<1>3. /\ gcIterator # << >> /\ gcIterator' = Tail(gcIterator) /\ i <= Len(mRunningService)
      /\ mRunningService[i] \in DOMAIN heap
      /\ heap' = Erase(heap, mRunningService[i])
      /\ mRunningService' = RemoveAt(mRunningService, i)
      /\ proc' = proc /\ pc' = "gc" /\ UNCHANGED alive
  BY <1>2 DEF GcErase, Collecting, Collectable, Position
<1>4. i \in 1..Len(mRunningService)
  BY <1>1, <1>2, <1>3
<1>5. /\ Len(mRunningService') = Len(mRunningService) - 1
      /\ \A j \in 1..Len(mRunningService) - 1 :
            mRunningService'[j] = IF j < i THEN mRunningService[j] ELSE mRunningService[j + 1]
  BY <1>1, <1>3, <1>4, RemoveAtSeq
<1>6. /\ DOMAIN heap' = DOMAIN heap \ {mRunningService[i]}
      /\ \A b \in DOMAIN heap' : heap'[b] = heap[b]
  BY <1>3 DEF Erase
<1> QED BY <1>2, <1>3, <1>4, <1>5, <1>6

-----------------------------------------------------------------------------
(* The invariant *)

\* The history forgets nothing, and misses no sweep and no RESTART.
LEMMA Observed ==
    ASSUME HistoryTypeOK, [HNext]_hvars
    PROVE  /\ [Next]_vars /\ HistoryTypeOK'
           /\ ~crowded' => ~crowded
           /\ ~restarted' => ~restarted
           /\ \/ UNCHANGED hvars
              \/ /\ ~crowded' => Len(gcIterator') <= 1
                 /\ Restarting => restarted'
<1>0. [Next]_vars /\ TypeOK'
  <2>1. [Next]_vars
    BY DEF HNext, hvars
  <2> QED BY <2>1, TypeStep DEF HistoryTypeOK
<1>1. CASE UNCHANGED hvars
  BY <1>0, <1>1 DEF hvars, history, HistoryTypeOK
<1>2. CASE HNext
  <2>1. /\ Next
        /\ crowded' = (crowded \/ Len(gcIterator') > 1)
        /\ restarted' = (restarted \/ Restarting)
    BY <1>2 DEF HNext, Observe, Restarting
  <2>2. crowded \in BOOLEAN /\ restarted \in BOOLEAN
    BY DEF HistoryTypeOK
  <2>3. crowded' \in BOOLEAN /\ (~crowded' => ~crowded /\ ~(Len(gcIterator') > 1))
    BY <2>1, <2>2, Zenon
  <2>4. restarted' \in BOOLEAN /\ (~restarted' => ~restarted /\ ~Restarting)
    BY <2>1, <2>2, Zenon
  <2>5. ~(Len(gcIterator') > 1) => Len(gcIterator') <= 1
    BY <1>0 DEF TypeOK
  <2> QED BY <1>0, <2>3, <2>4, <2>5 DEF HistoryTypeOK
<1> QED BY <1>1, <1>2

\* A saved iterator points to the entry of a service that was reaped until the
\* collection, if it is the only one.
LEMMA MarksStep ==
    ASSUME HistoryTypeOK, IInv, Marks, [HNext]_hvars
    PROVE  Marks'
<1>1. /\ [Next]_vars
      /\ ~crowded' => ~crowded /\ (Len(gcIterator') <= 1 \/ UNCHANGED hvars)
  BY Observed
<1>2. TypeOK /\ gcIterator \in Seq(Nat \ {0}) /\ mRunningService \in Seq(Addrs)
  BY DEF IInv, TablesInv, TypeOK
<1>3. ASSUME KeepsEntries, mRunningService' = mRunningService, NEW i, Marked(i)
      PROVE  Marked(i)'
  BY <1>3 DEF KeepsEntries, Marked, IInv, ProcessInv, Ownership
<1>4. gcIterator' = << >> => Marks'
  BY DEF Marks, Saved
<1>5. CASE UNCHANGED hvars
  <2>1. KeepsEntries /\ UNCHANGED <<mRunningService, gcIterator, pc, crowded>>
    BY <1>5 DEF KeepsEntries, hvars, vars, history, tables, sweep
  <2>2. Saved' = Saved
    BY <2>1 DEF Saved
  <2> QED BY <1>3, <2>1, <2>2 DEF Marks
<1>6. CASE Starting
  BY <1>4, <1>6, StartAdds
<1>7. CASE (Handle \/ Timeout) /\ ~Starting /\ ~Smashing
  BY <1>4, <1>7, MessageKeeps
<1>8. CASE GcErase /\ ~UNCHANGED hvars
  <2>1. gcIterator # << >> /\ gcIterator' = Tail(gcIterator) /\ pc' = "gc"
    BY <1>8, GcTakes
  <2>2. ~crowded' => gcIterator' = << >>
    BY <1>1, <1>2, <1>8, <2>1 DEF Marks
  <2> QED BY <1>4, <2>1, <2>2 DEF Marks
<1>9. CASE (~(Handle \/ Timeout) \/ Smashing) /\ ~GcErase /\ ~UNCHANGED hvars
  <2>1. /\ KeepsEntries /\ mRunningService' = mRunningService
        /\ \/ gcIterator' = gcIterator
           \/ \E i \in Nat : gcIterator' = Append(gcIterator, i) /\ Marked(i)'
        /\ pc' = "wait" => gcIterator' = << >> \/ (pc = "wait" /\ gcIterator' = gcIterator)
    BY <1>1, <1>9, OtherKeeps
  <2>2. pc' = "wait" => gcIterator' = << >>
    BY <2>1 DEF Marks
  <2>3. ASSUME ~crowded' PROVE \A i \in Saved' : Marked(i)'
    <3>1. \A i \in Saved : Marked(i)'
      BY <1>1, <1>3, <1>9, <2>1, <2>3 DEF Marks
    <3>2. CASE gcIterator' = gcIterator
      BY <3>1, <3>2 DEF Saved
    <3>3. ASSUME NEW i \in Nat, gcIterator' = Append(gcIterator, i), Marked(i)'
          PROVE  \A j \in Saved' : Marked(j)'
      <4>1. Saved' \subseteq Saved \cup {i}
        BY <1>2, <3>3 DEF Saved
      <4> QED BY <3>1, <3>3, <4>1
    <3> QED BY <2>1, <3>2, <3>3
  <2>4. ~crowded' => Len(gcIterator') <= 1
    BY <1>1, <1>9
  <2> QED BY <2>2, <2>3, <2>4 DEF Marks
<1> QED BY <1>5, <1>6, <1>7, <1>8, <1>9

\* Without a RESTART the vector holds the live cells, once each: what START
\* pushes was not live before, and what the collection frees is taken out.
LEMMA NoTwiceStep ==
    ASSUME HistoryTypeOK, IInv, NoTwice, [HNext]_hvars
    PROVE  NoTwice'
<1>1. [Next]_vars /\ (~restarted' => ~restarted) /\ (Restarting => restarted' \/ UNCHANGED hvars)
  BY Observed
<1>2. TypeOK /\ mRunningService \in Seq(Addrs)
  BY DEF IInv, TablesInv, TypeOK
<1>3. CASE DOMAIN heap' = DOMAIN heap /\ mRunningService' = mRunningService
  BY <1>1, <1>3 DEF NoTwice
<1>4. CASE UNCHANGED hvars
  BY <1>3, <1>4 DEF hvars, vars, tables
<1>5. CASE Starting
  <2>1. PICK a \in Addrs \ DOMAIN heap :
            DOMAIN heap' = DOMAIN heap \cup {a} /\ mRunningService' = Append(mRunningService, a)
    BY <1>5, StartAdds
  <2>2. /\ Len(mRunningService') = Len(mRunningService) + 1
        /\ \A i \in 1..Len(mRunningService') :
              mRunningService'[i] = IF i \in 1..Len(mRunningService) THEN mRunningService[i] ELSE a
        /\ \A i \in 1..Len(mRunningService') \ 1..Len(mRunningService) :
              i = Len(mRunningService) + 1
    BY <1>2, <2>1
  <2> QED BY <1>1, <2>1, <2>2 DEF NoTwice
<1>6. CASE (Handle \/ Timeout) /\ ~Starting /\ ~Smashing
  BY <1>1, <1>3, <1>4, <1>6, MessageKeeps DEF KeepsEntries, NoTwice
<1>7. CASE GcErase
  <2>1. PICK i \in 1..Len(mRunningService) :
            /\ DOMAIN heap' = DOMAIN heap \ {mRunningService[i]}
            /\ Len(mRunningService') = Len(mRunningService) - 1
            /\ \A j \in 1..Len(mRunningService') :
                  mRunningService'[j] = mRunningService[IF j < i THEN j ELSE j + 1]
    BY <1>7, GcTakes
  <2> DEFINE from(j) == IF j < i THEN j ELSE j + 1
  <2>2. \A j, k \in 1..Len(mRunningService') :
            /\ from(j) \in 1..Len(mRunningService) /\ from(j) # i
            /\ from(j) = from(k) => j = k
    BY <1>2, <2>1
  <2>3. \A j \in 1..Len(mRunningService') : mRunningService'[j] = mRunningService[from(j)]
    BY <2>1
  <2> HIDE DEF from
  <2>4. ASSUME ~restarted, NEW j \in 1..Len(mRunningService')
        PROVE  mRunningService'[j] \in DOMAIN heap'
    <3>1. mRunningService[from(j)] \in DOMAIN heap /\ mRunningService[from(j)] # mRunningService[i]
      BY <2>2, <2>4 DEF NoTwice
    <3> QED BY <2>1, <2>3, <3>1
  <2>5. ASSUME ~restarted, NEW j \in 1..Len(mRunningService'), NEW k \in 1..Len(mRunningService'),
               mRunningService'[j] = mRunningService'[k]
        PROVE  j = k
    <3>1. from(j) = from(k)
      BY <2>2, <2>3, <2>5 DEF NoTwice
    <3> QED BY <2>2, <3>1
  <2> QED BY <1>1, <2>4, <2>5 DEF NoTwice
<1>8. CASE (~(Handle \/ Timeout) \/ Smashing) /\ ~GcErase
  BY <1>1, <1>3, <1>8, OtherKeeps DEF KeepsEntries
<1> QED BY <1>5, <1>6, <1>7, <1>8

\* A process keeps its entry: START gives it one, and an entry is taken only
\* from a service that was reaped.
LEMMA KeptStep ==
    ASSUME HistoryTypeOK, IInv, Marks, KeptUntilReaped, [HNext]_hvars
    PROVE  KeptUntilReaped'
<1>1. [Next]_vars /\ (~crowded' => ~crowded)
  BY Observed
<1>2. SUFFICES ASSUME ~crowded', NEW p \in DOMAIN proc', proc'[p].life # "reaped"
               PROVE  \E a \in DOMAIN heap' : heap'[a].pid = p /\ heap'[a].name = proc'[p].name
  BY DEF KeptUntilReaped
<1>3. \A q \in DOMAIN proc : proc[q].life # "reaped" =>
          \E a \in DOMAIN heap : heap[a].pid = q /\ heap[a].name = proc[q].name
  BY <1>1, <1>2 DEF KeptUntilReaped
<1>4. CASE Starting
  <2>1. PICK a \in Addrs \ DOMAIN heap, q \in Pids \ DOMAIN proc :
            /\ DOMAIN heap' = DOMAIN heap \cup {a}
            /\ \A b \in DOMAIN heap : heap'[b] = heap[b]
            /\ DOMAIN proc' = DOMAIN proc \cup {q}
            /\ \A r \in DOMAIN proc : proc'[r] = proc[r]
            /\ heap'[a].pid = q /\ heap'[a].name = proc'[q].name
    BY <1>4, StartAdds
  <2>2. CASE p = q
    BY <2>1, <2>2
  <2>3. CASE p # q
    BY <1>2, <1>3, <2>1, <2>3
  <2> QED BY <2>2, <2>3
<1>5. CASE GcErase
  <2>1. PICK i \in 1..Len(mRunningService) :
            /\ i = Head(gcIterator) /\ gcIterator # << >>
            /\ DOMAIN heap' = DOMAIN heap \ {mRunningService[i]}
            /\ \A b \in DOMAIN heap' : heap'[b] = heap[b]
            /\ proc' = proc
    BY <1>5, GcTakes
  <2>2. i \in Saved
    BY <2>1 DEF Saved, IInv, TablesInv, TypeOK
  <2>3. proc[heap[mRunningService[i]].pid].life = "reaped"
    BY <1>1, <1>2, <2>2 DEF Marks, Marked
  <2> QED BY <1>2, <1>3, <2>1, <2>3
<1>6. CASE ~Starting /\ ~GcErase
  <2>1. KeepsEntries
    BY <1>1, <1>6, MessageKeeps, OtherKeeps
  <2>2. p \in DOMAIN proc /\ proc[p].life # "reaped"
    BY <1>2, <2>1 DEF KeepsEntries
  <2> QED BY <1>3, <2>1, <2>2 DEF KeepsEntries
<1> QED BY <1>4, <1>5, <1>6

\* The daemon dies in a scan that meets the entry of a freed cell, in a
\* collection whose iterator points to none, or of a START that overran cmd.
LEMMA DiesStep ==
    ASSUME HistoryTypeOK, IInv, Marks, NoTwice, DiesOnlyWild, [HNext]_hvars
    PROVE  DiesOnlyWild'
<1>1. [Next]_vars /\ (~crowded' => ~crowded) /\ (~restarted' => ~restarted)
  BY Observed
<1>2. SUFFICES ASSUME ~alive', ~crowded, ~restarted, ~smashed' PROVE FALSE
  BY <1>1 DEF DiesOnlyWild
<1>3. alive
  BY <1>1, <1>2, DeadStays DEF DiesOnlyWild
<1>4. ScanWild \/ GcWild
  <2>1. CASE Starting
    BY <1>2, <1>3, <2>1, StartAdds
  <2>2. CASE GcErase
    BY <1>2, <1>3, <2>2, GcTakes
  <2>3. CASE (Handle \/ Timeout) /\ ~Starting /\ ~Smashing
    BY <1>2, <1>3, <2>3, MessageKeeps
  <2>4. CASE (~(Handle \/ Timeout) \/ Smashing) /\ ~GcErase
    BY <1>1, <1>2, <1>3, <2>4, OtherKeeps
  <2> QED BY <2>1, <2>2, <2>3, <2>4
<1>5. CASE ScanWild
  <2>1. it \in 1..Len(mRunningService) /\ mRunningService[it] \notin DOMAIN heap
    BY <1>5 DEF ScanWild, Scanning, Dangling, Entry, IInv, TablesInv, TypeOK
  <2> QED BY <1>2, <2>1 DEF NoTwice
<1>6. CASE GcWild
  <2>1. gcIterator # << >> /\ ~Collectable
    BY <1>6 DEF GcWild, Collecting
  <2>2. Head(gcIterator) \in Saved
    BY <2>1 DEF Saved, IInv, TablesInv, TypeOK
  <2> QED BY <1>2, <2>1, <2>2 DEF Marks, Marked, Collectable, Position
<1> QED BY <1>4, <1>5, <1>6

\* The inductive invariant holds of every reachable state.
LEMMA HInductive == HSpec => []HInv
<1>1. HInit => HInv
  <2> SUFFICES ASSUME HInit PROVE HInv
    OBVIOUS
  <2>1. Init /\ crowded = FALSE /\ restarted = FALSE
    BY DEF HInit
  <2>2. HistoryTypeOK /\ IInv
    BY <2>1, TypeInit, TablesInit, ProcessInit DEF HistoryTypeOK, IInv, TablesInv
  <2>3. Marks /\ NoTwice /\ KeptUntilReaped /\ DiesOnlyWild
    BY <2>1 DEF Init, Marks, Saved, NoTwice, KeptUntilReaped, DiesOnlyWild
  <2> QED BY <2>2, <2>3 DEF HInv
<1>2. HInv /\ [HNext]_hvars => HInv'
  <2> SUFFICES ASSUME HInv, [HNext]_hvars PROVE HInv'
    OBVIOUS
  <2>1. HistoryTypeOK /\ IInv /\ Marks /\ NoTwice /\ KeptUntilReaped /\ DiesOnlyWild
    BY DEF HInv
  <2>2. [Next]_vars /\ HistoryTypeOK'
    BY <2>1, Observed
  <2>3. IInv'
    BY <2>1, <2>2, TypeStep, TablesStep, ProcessStep DEF IInv, TablesInv
  <2> QED BY <2>1, <2>2, <2>3, MarksStep, NoTwiceStep, KeptStep, DiesStep DEF HInv
<1> QED BY <1>1, <1>2, PTL DEF HSpec

-----------------------------------------------------------------------------
(* Theorems *)

\* The history only observes: what holds of ServiceExcutor holds here.
THEOREM Observes == HSpec => Spec
<1>1. HInit => Init
  BY DEF HInit
<1>2. [HNext]_hvars => [Next]_vars
  BY DEF HNext, hvars
<1> QED BY <1>1, <1>2, PTL DEF HSpec, Spec

\* The shape of the history.
THEOREM HistoryTyped == HSpec => []HistoryTypeOK
<1>1. HInv => HistoryTypeOK
  BY DEF HInv
<1> QED BY <1>1, HInductive, PTL

\* A process keeps its entry until it is reaped as long as no sweep of
\* monitor_service_status has collected two services.
THEOREM EntriesKept == HSpec => []KeptUntilReaped
<1>1. HInv => KeptUntilReaped
  BY DEF HInv
<1> QED BY <1>1, HInductive, PTL

\* So long START's check keeps two processes from running under one name.
THEOREM OneProcess == HSpec => []OneProcessUnlessCrowded
<1>1. HInv => OneProcessUnlessCrowded
  <2>1. SUFFICES ASSUME HInv, ~crowded, NEW p \in DOMAIN proc, NEW q \in DOMAIN proc,
                        proc[p].life \in {"run", "stopped"},
                        proc[q].life \in {"run", "stopped"}, proc[p].name = proc[q].name
                 PROVE  p = q
    BY DEF OneProcessUnlessCrowded, OneProcessPerName
  <2>2. PICK a \in DOMAIN heap : heap[a].pid = p /\ heap[a].name = proc[p].name
    BY <2>1 DEF HInv, KeptUntilReaped
  <2>3. PICK b \in DOMAIN heap : heap[b].pid = q /\ heap[b].name = proc[q].name
    BY <2>1 DEF HInv, KeptUntilReaped
  <2>4. mNameService[heap[a].name] = a /\ mNameService[heap[b].name] = b
    BY <2>1 DEF HInv, IInv, TablesInv, TablesAgree
  <2> QED BY <2>1, <2>2, <2>3, <2>4
<1> QED BY <1>1, HInductive, PTL

\* The daemon dies of a wild access only after a sweep that collected two
\* services, after a RESTART, or in a START whose command is longer than the
\* buffer it is copied to.
THEOREM DeathExplained == HSpec => []DiesOnlyWild
<1>1. HInv => DiesOnlyWild
  BY DEF HInv
<1> QED BY <1>1, HInductive, PTL
=============================================================================
