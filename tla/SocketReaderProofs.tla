------------------------- MODULE SocketReaderProofs -------------------------
(***************************************************************************)
(* What holds of the table of connections for any number of connections,   *)
(* clients, slots, descriptors and commands.  Besides the properties the   *)
(* inductive invariant says that a connection is accepted once (Accepted), *)
(* that its writer's number is its own until the daemon closes it          *)
(* (Writers), and that its slot, one at most, has that number (Table).     *)
(***************************************************************************)
EXTENDS SocketReader, TLAPS

\* A connection is in the backlog once, and no longer when it is accepted.
Accepted ==
    /\ \A i \in DOMAIN backlog :
          backlog[i] \notin DOMAIN sockfd /\ life[backlog[i]] # "new"
    /\ \A i, j \in DOMAIN backlog : backlog[i] = backlog[j] => i = j
    /\ \A c \in DOMAIN sockfd : life[c] # "new"

\* The number in a writer is its connection's or the connection is gone.
Writers == \A c \in DOMAIN sockfd : life[c] = "gone" \/ file[sockfd[c]] = c

\* A slot's descriptor is the one its connection was accepted with.
Table ==
    /\ \A s \in OpenSlots : mClients[s].fd = sockfd[mClients[s].conn]
    /\ \A s, t \in OpenSlots : mClients[s].conn = mClients[t].conn => s = t

-----------------------------------------------------------------------------
(* Messages *)

\* A message appended to a queue comes behind those that are there.
LEMMA AppendBehind ==
    ASSUME NEW S, NEW s \in Seq(S), NEW e \in S
    PROVE  /\ Append(s, e) \in Seq(S)
           /\ DOMAIN Append(s, e) = DOMAIN s \cup {Len(s) + 1}
           /\ \A i \in DOMAIN s : Append(s, e)[i] = s[i] /\ i < Len(s) + 1 /\ i \in Nat
           /\ Append(s, e)[Len(s) + 1] = e
           /\ Len(s) + 1 > 0
OBVIOUS

\* What is behind the head of a queue moves up by one.
LEMMA TailMovesUp ==
    ASSUME NEW S, NEW s \in Seq(S), s # << >>
    PROVE  /\ Head(s) = s[1] /\ 1 \in DOMAIN s /\ Head(s) \in S
           /\ Tail(s) \in Seq(S)
           /\ \A i \in DOMAIN Tail(s) : i + 1 \in DOMAIN s /\ Tail(s)[i] = s[i + 1] /\ i \in Nat
           /\ \A i \in DOMAIN s \ {1} : i - 1 \in DOMAIN Tail(s) /\ Tail(s)[i - 1] = s[i] /\ i \in Nat
OBVIOUS

-----------------------------------------------------------------------------
(* The shape of the state *)

\* Losing connections keeps the types of what the clients have.
LEMMA TypeLose ==
    ASSUME TypeOK, NEW conns, Lose(conns)
    PROVE  /\ life' \in [Conns -> {"new", "connected", "shut", "ended", "gone"}]
           /\ inbox' \in [Conns -> Seq(Commands)]
           /\ \A c \in Conns : life'[c] = IF c \in conns THEN "gone" ELSE life[c]
BY DEF TypeOK, Lose

\* So does stopRead, which neither makes a connection new again nor revives one.
LEMMA StopReadKeeps ==
    ASSUME TypeOK, StopRead
    PROVE  /\ life' \in [Conns -> {"new", "connected", "shut", "ended", "gone"}]
           /\ inbox' \in [Conns -> Seq(Commands)]
           /\ \A c \in Conns : /\ life[c] # "new" => life'[c] # "new"
                               /\ life[c] = "gone" => life'[c] = "gone"
<1> DEFINE refused == {backlog[i] : i \in DOMAIN backlog}
           quiet == {c \in Conns :
                        life[c] = "connected" /\ \E s \in OpenSlots : FileOf(s) = c}
<1>1. /\ life' = [c \in Conns |-> IF c \in refused THEN "gone"
                                 ELSE IF c \in quiet THEN "shut" ELSE life[c]]
      /\ inbox' = [c \in Conns |-> IF c \in refused THEN << >> ELSE inbox[c]]
  BY DEF StopRead
<1>2. \A c \in quiet : life[c] = "connected"
  OBVIOUS
<1> HIDE DEF refused, quiet
<1>3. life \in [Conns -> {"new", "connected", "shut", "ended", "gone"}]
      /\ inbox \in [Conns -> Seq(Commands)]
  BY DEF TypeOK
<1> QED BY <1>1, <1>2, <1>3

\* Closing numbers keeps the types of files and clients.
LEMMA TypeClose ==
    ASSUME TypeOK, NEW fds, Close(fds)
    PROVE  /\ file' \in [Fds -> Conns \cup Commands \cup {None}]
           /\ life' \in [Conns -> {"new", "connected", "shut", "ended", "gone"}]
           /\ inbox' \in [Conns -> Seq(Commands)]
           /\ \A f \in Fds : file'[f] = IF f \in fds THEN None ELSE file[f]
           /\ \A c \in Conns : life'[c] = IF \E f \in fds : file[f] = c THEN "gone" ELSE life[c]
<1>1. Lose({c \in Conns : \E f \in fds : file[f] = c})
  BY DEF Close
<1> QED BY <1>1, TypeLose DEF Close, TypeOK

\* What dropping the connection of a slot does.
LEMMA DropKeeps ==
    ASSUME TypeOK, NEW s \in OpenSlots, Drop(s)
    PROVE  /\ mClients' = [mClients EXCEPT ![s].fd = None]
           /\ mClients' \in [Slots -> ClientSocket]
           /\ OpenSlots' = OpenSlots \ {s}
           /\ \A t \in Slots : mClients'[t].conn = mClients[t].conn
           /\ \A t \in OpenSlots' : mClients'[t] = mClients[t]
           /\ posted' = Append(posted, [type |-> "DESTROY", cmd |-> None, conn |-> mClients[s].conn])
           /\ [type |-> "DESTROY", cmd |-> None, conn |-> mClients[s].conn] \in Message
           /\ Close({mClients[s].fd})
           /\ mClients[s].fd \in Fds /\ mClients[s].conn \in DOMAIN sockfd
<1>1. /\ mClients' = [mClients EXCEPT ![s].fd = None]
      /\ posted' = Append(posted, [type |-> "DESTROY", cmd |-> None, conn |-> mClients[s].conn])
      /\ Close({mClients[s].fd})
  BY DEF Drop, Post
<1>2. s \in Slots /\ mClients[s].fd # None /\ mClients[s] \in ClientSocket
      /\ mClients[s].conn \in DOMAIN sockfd
  BY DEF TypeOK, OpenSlots, FreeSlots
<1>3. mClients[s].conn \in Conns /\ mClients[s].fd \in Fds
  BY <1>2 DEF TypeOK, IsMap, ClientSocket
<1>4. /\ mClients' \in [Slots -> ClientSocket]
      /\ \A t \in Slots \ {s} : mClients'[t] = mClients[t]
      /\ mClients'[s].fd = None /\ mClients'[s].conn = mClients[s].conn
  BY <1>1, <1>2, <1>3 DEF TypeOK, ClientSocket
<1>5. OpenSlots' = OpenSlots \ {s}
  BY <1>2, <1>4 DEF OpenSlots, FreeSlots
<1>6. [type |-> "DESTROY", cmd |-> None, conn |-> mClients[s].conn] \in Message
  BY <1>3 DEF Message
<1> QED BY <1>1, <1>2, <1>3, <1>4, <1>5, <1>6 DEF OpenSlots

\* Answering keeps the types of astray and of whether the daemon runs.
LEMMA TypeAnswer ==
    ASSUME TypeOK, NEW c \in DOMAIN sockfd, Answer(c)
    PROVE  astray' \subseteq Conns \X Conns /\ alive' \in BOOLEAN
BY DEF Answer, Sent, TypeOK, IsMap

\* The initial state has the right shape.
LEMMA TypeInit == Init => TypeOK
<1> SUFFICES ASSUME Init PROVE TypeOK
  OBVIOUS
<1>1. mClients \in [Slots -> ClientSocket] /\ OpenSlots = {}
  BY DEF Init, ClientSocket, OpenSlots, FreeSlots
<1>2. IsMap(sockfd, Conns, Fds) /\ IsMap(running, Commands, Running)
  BY DEF Init, IsMap
<1>3. inbox \in [Conns -> Seq(Commands)] /\ backlog \in Seq(Conns) /\ posted = << >>
      /\ posted \in Seq(Message)
  BY DEF Init
<1>4. sent \in 0..CommandNum
  BY BoundsAssumption DEF Init
<1>5. ready = {} /\ pc = "select" /\ rejected = {} /\ astray = {} /\ listening = TRUE
      /\ alive = TRUE /\ stopped = FALSE
      /\ file \in [Fds -> Conns \cup Commands \cup {None}]
      /\ life \in [Conns -> {"new", "connected", "shut", "ended", "gone"}]
  BY DEF Init
<1>6. \A i \in DOMAIN posted : posted[i].conn \in DOMAIN sockfd
  BY <1>3
<1>7. \A s \in OpenSlots : mClients[s].conn \in DOMAIN sockfd
  BY <1>1
<1>8. ready \subseteq OpenSlots /\ (pc = "read" <=> ready # {}) /\ pc \in {"select", "sweep", "read"}
      /\ rejected \subseteq DOMAIN sockfd /\ astray \subseteq Conns \X Conns
      /\ listening \in BOOLEAN /\ alive \in BOOLEAN /\ stopped \in BOOLEAN
  BY <1>5
<1> QED BY <1>1, <1>2, <1>3, <1>4, <1>5, <1>6, <1>7, <1>8 DEF TypeOK

\* No step of the reader spoils the shape.
LEMMA TypeReader == TypeOK /\ Reader => TypeOK'
<1> SUFFICES ASSUME TypeOK, Reader PROVE TypeOK'
  OBVIOUS
<1>1. CASE SelectFails \/ SweepEnd \/ AcceptFails
  BY <1>1 DEF SelectFails, SweepEnd, AcceptFails, vars, client, executor, ending, ending, TypeOK, IsMap,
     OpenSlots, FreeSlots
<1>2. CASE SelectData
  <2>1. ready' \subseteq OpenSlots /\ ready' # {} /\ pc' = "read"
    BY <1>2 DEF SelectData
  <2> QED BY <1>2, <2>1 DEF SelectData, client, executor, ending, TypeOK, IsMap, OpenSlots, FreeSlots
<1>3. CASE Accept
  <2> DEFINE c == Head(backlog)
  <2>1. c \in Conns /\ backlog' \in Seq(Conns)
    BY <1>3, TailMovesUp DEF Accept, TypeOK
  <2>2. PICK f \in Fds, reject \in BOOLEAN :
           /\ file' = [file EXCEPT ![f] = IF reject THEN None ELSE c]
           /\ sockfd' = With(sockfd, c, f)
           /\ \/ \E s \in FreeSlots : mClients' = [mClients EXCEPT ![s] = [fd |-> f, conn |-> c]]
              \/ UNCHANGED mClients
           /\ rejected' = IF reject THEN rejected \cup {c} ELSE rejected
           /\ Lose(IF reject THEN {c} ELSE {})
    BY <1>3 DEF Accept, Lowest
  <2>3. IsMap(sockfd', Conns, Fds) /\ DOMAIN sockfd' = DOMAIN sockfd \cup {c}
    BY <2>1, <2>2 DEF TypeOK, IsMap, With
  <2>4. /\ mClients' \in [Slots -> ClientSocket]
        /\ OpenSlots \subseteq OpenSlots'
        /\ \A s \in OpenSlots' : mClients'[s].conn \in DOMAIN sockfd'
    <3>1. CASE UNCHANGED mClients
      BY <2>3, <3>1 DEF TypeOK, OpenSlots, FreeSlots
    <3>2. ASSUME NEW s \in FreeSlots, mClients' = [mClients EXCEPT ![s] = [fd |-> f, conn |-> c]]
          PROVE  /\ mClients' \in [Slots -> ClientSocket]
                 /\ OpenSlots \subseteq OpenSlots'
                 /\ \A t \in OpenSlots' : mClients'[t].conn \in DOMAIN sockfd'
      <4>1. s \in Slots /\ s \notin OpenSlots /\ [fd |-> f, conn |-> c] \in ClientSocket
        BY <2>1 DEF FreeSlots, OpenSlots, ClientSocket
      <4>2. [fd |-> f, conn |-> c].conn = c
        OBVIOUS
      <4> HIDE DEF c
      <4>3. mClients' \in [Slots -> ClientSocket]
            /\ mClients'[s] = [fd |-> f, conn |-> c]
            /\ \A t \in Slots \ {s} : mClients'[t] = mClients[t]
        BY <3>2, <4>1 DEF TypeOK
      <4>4. OpenSlots \subseteq OpenSlots' /\ OpenSlots' \subseteq OpenSlots \cup {s}
        BY <4>1, <4>3 DEF OpenSlots, FreeSlots
      <4>5. \A t \in OpenSlots : mClients[t].conn \in DOMAIN sockfd /\ t \in Slots \ {s}
        BY <4>1 DEF TypeOK, OpenSlots
      <4>6. ASSUME NEW t \in OpenSlots' PROVE mClients'[t].conn \in DOMAIN sockfd'
        <5>1. CASE t = s
          BY <2>3, <4>2, <4>3, <5>1
        <5>2. CASE t # s
          <6>1. t \in OpenSlots
            BY <4>4, <5>2
          <6>2. mClients'[t] = mClients[t] /\ mClients[t].conn \in DOMAIN sockfd
            BY <4>3, <4>5, <6>1
          <6> QED BY <2>3, <6>2
        <5> QED BY <5>1, <5>2
      <4> QED BY <4>3, <4>4, <4>6
    <3> QED BY <2>2, <3>1, <3>2
  <2>5. file' \in [Fds -> Conns \cup Commands \cup {None}] /\ rejected' \subseteq DOMAIN sockfd'
    BY <2>1, <2>2, <2>3 DEF TypeOK
  <2>6. life' \in [Conns -> {"new", "connected", "shut", "ended", "gone"}]
        /\ inbox' \in [Conns -> Seq(Commands)]
    BY <2>2, TypeLose
  <2>7. UNCHANGED <<listening, pc, ready, sent, posted, running, alive, stopped, astray>>
    BY <1>3 DEF Accept, executor, ending
  <2> QED BY <2>1, <2>3, <2>4, <2>5, <2>6, <2>7 DEF TypeOK
<1>4. ASSUME NEW s \in OpenSlots, Drop(s),
             ready' \subseteq ready \ {s}, pc' \in {"select", "sweep", "read"},
             pc' = "read" <=> ready' # {},
             UNCHANGED <<listening, sockfd, backlog, sent, running, ending, rejected, astray>>
      PROVE  TypeOK'
  <2>1. /\ file' \in [Fds -> Conns \cup Commands \cup {None}]
        /\ life' \in [Conns -> {"new", "connected", "shut", "ended", "gone"}]
        /\ inbox' \in [Conns -> Seq(Commands)]
    BY <1>4, DropKeeps, TypeClose
  <2>2. posted' \in Seq(Message) /\ \A i \in DOMAIN posted' : posted'[i].conn \in DOMAIN sockfd
    <3> DEFINE m == [type |-> "DESTROY", cmd |-> None, conn |-> mClients[s].conn]
    <3>1. posted' = Append(posted, m) /\ m \in Message /\ m.conn \in DOMAIN sockfd
      BY <1>4, DropKeeps
    <3> HIDE DEF m
    <3> QED BY <3>1, AppendBehind DEF TypeOK
  <2>3. mClients' \in [Slots -> ClientSocket] /\ ready' \subseteq OpenSlots'
        /\ \A t \in OpenSlots' : mClients'[t].conn \in DOMAIN sockfd
    BY <1>4, DropKeeps DEF TypeOK
  <2> QED BY <1>4, <2>1, <2>2, <2>3 DEF ending, TypeOK
<1>5. ASSUME NEW s \in Slots, Sweep(s) PROVE TypeOK'
  <2>1. s \in OpenSlots /\ ready = {} /\ ready' = {} /\ pc' = "sweep" /\ Drop(s)
    BY <1>5 DEF Sweep, Lowest, Bad, TypeOK
  <2> QED BY <1>4, <1>5, <2>1 DEF Sweep
<1>6. ASSUME NEW s \in Slots, ReadEnd(s) PROVE TypeOK'
  <2>1. s \in OpenSlots /\ Drop(s) /\ ready' = ready \ {s}
        /\ pc' \in {"select", "read"} /\ (pc' = "read" <=> ready' # {})
    BY <1>6 DEF ReadEnd, Turn, Lowest, Done, TypeOK
  <2> QED BY <1>4, <1>6, <2>1 DEF ReadEnd
<1>7. ASSUME NEW s \in Slots, ReadCommand(s) PROVE TypeOK'
  <2> DEFINE c == mClients[s].conn
             r == FileOf(s)
             m == [type |-> "START", cmd |-> Head(inbox[r]), conn |-> c]
  <2>1. s \in OpenSlots /\ ready' = ready \ {s} /\ ready' \subseteq OpenSlots
        /\ pc' \in {"select", "read"} /\ (pc' = "read" <=> ready' # {})
    BY <1>7 DEF ReadCommand, Turn, Lowest, Done, TypeOK
  <2>2. c \in DOMAIN sockfd /\ c \in Conns /\ r \in Conns /\ inbox[r] # << >>
    BY <1>7, <2>1 DEF ReadCommand, TypeOK, IsMap
  <2>3. m \in Message /\ m.conn = c
    <3>1. Head(inbox[r]) \in Commands
      BY <2>2, TailMovesUp DEF TypeOK
    <3> QED BY <2>2, <3>1 DEF Message
  <2>4. posted' \in Seq(Message) /\ \A i \in DOMAIN posted' : posted'[i].conn \in DOMAIN sockfd
    <3>1. posted' = posted \/ posted' = Append(posted, m)
      BY <1>7 DEF ReadCommand
    <3>2. m.conn \in DOMAIN sockfd
      BY <2>2, <2>3
    <3> HIDE DEF m
    <3>3. CASE posted' = posted
      BY <3>3 DEF TypeOK
    <3>4. CASE posted' = Append(posted, m)
      BY <2>3, <3>2, <3>4, AppendBehind DEF TypeOK
    <3> QED BY <3>1, <3>3, <3>4
  <2>5. astray' \subseteq Conns \X Conns /\ alive' \in BOOLEAN
    <3>1. UNCHANGED <<alive, astray>> \/ Answer(c)
      BY <1>7 DEF ReadCommand
    <3> QED BY <2>2, <3>1, TypeAnswer DEF TypeOK
  <2>6. inbox' \in [Conns -> Seq(Commands)]
    BY <1>7 DEF ReadCommand, TypeOK
  <2>7. UNCHANGED <<mClients, listening, file, sockfd, backlog, life, sent, running, stopped,
                    rejected>>
    BY <1>7 DEF ReadCommand
  <2> QED BY <2>1, <2>4, <2>5, <2>6, <2>7 DEF TypeOK, OpenSlots, FreeSlots
<1>8. ASSUME NEW s \in Slots, ReadOutput(s) PROVE TypeOK'
  <2>1. ready' \subseteq OpenSlots /\ pc' \in {"select", "read"} /\ (pc' = "read" <=> ready' # {})
    BY <1>8 DEF ReadOutput, Turn, Lowest, Done, TypeOK
  <2> QED BY <1>8, <2>1 DEF ReadOutput, client, executor, ending, TypeOK, OpenSlots, FreeSlots
<1> QED BY <1>1, <1>2, <1>3, <1>5, <1>6, <1>7, <1>8 DEF Reader, Read

\* The head of the queue of the executor and what is left of it.
LEMMA TypePosted ==
    ASSUME TypeOK, posted # << >>, posted' = Tail(posted)
    PROVE  /\ posted' \in Seq(Message)
           /\ \A i \in DOMAIN posted' : posted'[i].conn \in DOMAIN sockfd
           /\ Head(posted) \in Message /\ Head(posted) = posted[1] /\ 1 \in DOMAIN posted
           /\ Head(posted).conn \in DOMAIN sockfd
<1>1. posted \in Seq(Message) /\ \A i \in DOMAIN posted : posted[i].conn \in DOMAIN sockfd
  BY DEF TypeOK
<1> QED BY <1>1, TailMovesUp

\* No step of the executor spoils the shape.
LEMMA TypeExcutor == TypeOK /\ Excutor => TypeOK'
<1> SUFFICES ASSUME TypeOK, Excutor PROVE TypeOK'
  OBVIOUS
<1> DEFINE m == Head(posted)
<1>1. /\ posted' \in Seq(Message) /\ m \in Message
      /\ \A i \in DOMAIN posted' : posted'[i].conn \in DOMAIN sockfd
      /\ m.conn \in DOMAIN sockfd
  <2>1. posted # << >> /\ posted' = Tail(posted)
    BY DEF Excutor, Start, Destroy
  <2> QED BY <2>1, TypePosted
<1>2. CASE Start
  <2>1. m.cmd \in Commands /\ m.conn \in Conns
    BY <1>1, <1>2 DEF Start, Message
  <2>2. /\ IsMap(running', Commands, Running)
        /\ file' \in [Fds -> Conns \cup Commands \cup {None}]
    <3>1. CASE UNCHANGED <<running, file>>
      BY <3>1 DEF TypeOK, IsMap
    <3>2. ASSUME NEW f \in Fds, running' = With(running, m.cmd, [conn |-> m.conn, fd |-> f]),
                 file' = [file EXCEPT ![f] = m.cmd]
          PROVE  /\ IsMap(running', Commands, Running)
                 /\ file' \in [Fds -> Conns \cup Commands \cup {None}]
      <4>1. [conn |-> m.conn, fd |-> f] \in Running
        BY <2>1 DEF Running
      <4> HIDE DEF m
      <4> QED BY <2>1, <3>2, <4>1 DEF TypeOK, IsMap, With
    <3> QED BY <1>2, <3>1, <3>2 DEF Start
  <2>3. astray' \subseteq Conns \X Conns /\ alive' \in BOOLEAN
    BY <1>1, <1>2, TypeAnswer DEF Start
  <2>4. UNCHANGED <<mClients, listening, pc, ready, sockfd, backlog, life, inbox, sent, stopped,
                    rejected>>
    BY <1>2 DEF Start, client
  <2> QED BY <1>1, <2>2, <2>3, <2>4 DEF TypeOK, OpenSlots, FreeSlots
<1>3. CASE Destroy
  <2>1. /\ file' \in [Fds -> Conns \cup Commands \cup {None}]
        /\ life' \in [Conns -> {"new", "connected", "shut", "ended", "gone"}]
        /\ inbox' \in [Conns -> Seq(Commands)]
    BY <1>3, TypeClose DEF Destroy
  <2>2. IsMap(running', Commands, Running)
    <3>1. running' = [k \in DOMAIN running \ LabelsOf(m.conn) |-> running[k]]
      BY <1>3 DEF Destroy
    <3> QED BY <3>1 DEF TypeOK, IsMap
  <2>3. UNCHANGED <<mClients, listening, pc, ready, sockfd, backlog, sent, alive, stopped,
                    rejected, astray>>
    BY <1>3 DEF Destroy, ending
  <2> QED BY <1>1, <2>1, <2>2, <2>3 DEF TypeOK, OpenSlots, FreeSlots
<1> QED BY <1>2, <1>3 DEF Excutor

\* Nor do the clients or the main thread.
LEMMA TypeOthers == TypeOK /\ (Environment \/ StopRead) => TypeOK'
<1> SUFFICES ASSUME TypeOK, Environment \/ StopRead PROVE TypeOK'
  OBVIOUS
<1>1. ASSUME NEW c \in Conns, Connects(c) PROVE TypeOK'
  <2>1. backlog' \in Seq(Conns)
    BY <1>1, AppendBehind DEF Connects, TypeOK
  <2> QED BY <1>1, <2>1 DEF Connects, executor, ending, TypeOK, IsMap, OpenSlots, FreeSlots
<1>2. ASSUME NEW c \in Conns, Sends(c) PROVE TypeOK'
  <2>1. sent' \in 1..CommandNum
    BY <1>2, BoundsAssumption DEF Sends, TypeOK
  <2>2. inbox' \in [Conns -> Seq(Commands)]
    <3>1. inbox[c] \in Seq(Commands) /\ sent' \in Commands
      BY <2>1 DEF TypeOK, Commands
    <3>2. Append(inbox[c], sent') \in Seq(Commands)
      BY <3>1
    <3> QED BY <1>2, <3>2 DEF Sends, TypeOK
  <2>3. sent' \in 0..CommandNum
    BY <2>1, BoundsAssumption
  <2> QED BY <1>2, <2>2, <2>3 DEF Sends, executor, ending, TypeOK, IsMap, OpenSlots, FreeSlots
<1>3. ASSUME NEW c \in Conns, Ends(c) PROVE TypeOK'
  BY <1>3 DEF Ends, executor, ending, TypeOK, IsMap, OpenSlots, FreeSlots
<1>4. CASE StopRead
  <2>1. /\ life' \in [Conns -> {"new", "connected", "shut", "ended", "gone"}]
        /\ inbox' \in [Conns -> Seq(Commands)]
    BY <1>4, StopReadKeeps
  <2>2. backlog' \in Seq(Conns)
    BY <1>4 DEF StopRead
  <2>3. stopped' \in BOOLEAN
    BY <1>4 DEF StopRead
  <2> QED BY <1>4, <2>1, <2>2, <2>3 DEF StopRead, executor, TypeOK, IsMap, OpenSlots, FreeSlots
<1> QED BY <1>1, <1>2, <1>3, <1>4 DEF Environment

\* Every step keeps the shape of the state.
LEMMA TypeStep == TypeOK /\ [Next]_vars => TypeOK'
<1>1. CASE UNCHANGED vars
  BY <1>1 DEF vars, client, executor, ending, ending, TypeOK, IsMap, OpenSlots, FreeSlots
<1> QED BY <1>1, TypeReader, TypeExcutor, TypeOthers DEF Next

\* The variables keep their types (SaceReader.h:62-115, SaceWriter.h:63-69).
THEOREM TypeCorrect == Spec => []TypeOK
BY TypeInit, TypeStep, PTL DEF Spec

-----------------------------------------------------------------------------
(* What the steps do to the part of the state the invariants are about *)

core == <<mClients, file, sockfd, backlog, life, posted, running, rejected, astray>>

Dropped(s) == Drop(s) /\ UNCHANGED <<sockfd, backlog, running, rejected, astray>>

\* The steps that change it.
LEMMA Steps ==
    ASSUME TypeOK, [Next]_vars
    PROVE  \/ UNCHANGED core
           \/ Accept \/ Start \/ Destroy \/ StopRead
           \/ \E s \in OpenSlots : Dropped(s)
           \/ \E s \in OpenSlots : ReadCommand(s)
           \/ \E c \in Conns : Connects(c) \/ Ends(c)
<1>1. ASSUME SelectFails \/ SelectData \/ SweepEnd \/ AcceptFails \/ UNCHANGED vars
      PROVE  UNCHANGED core
  BY <1>1 DEF SelectFails, SelectData, SweepEnd, AcceptFails, core, vars, client, executor, ending
<1>2. ASSUME NEW s \in Slots, ReadOutput(s) PROVE UNCHANGED core
  BY <1>2 DEF ReadOutput, core, client, executor
<1>3. ASSUME NEW c \in Conns, Sends(c) PROVE UNCHANGED core
  BY <1>3 DEF Sends, core, executor
<1>4. ASSUME NEW s \in Slots, Sweep(s) PROVE s \in OpenSlots /\ Dropped(s)
  BY <1>4 DEF Sweep, Lowest, Bad, Dropped
<1>5. ASSUME NEW s \in Slots, ReadEnd(s) PROVE s \in OpenSlots /\ Dropped(s)
  BY <1>5 DEF ReadEnd, Turn, Lowest, Dropped, TypeOK
<1>6. ASSUME NEW s \in Slots, ReadCommand(s) PROVE s \in OpenSlots
  BY <1>6 DEF ReadCommand, Turn, Lowest, TypeOK
<1> QED BY <1>1, <1>2, <1>3, <1>4, <1>5, <1>6 DEF Next, Reader, Read, Excutor, Environment

\* What accepting a connection c with number f does to it, to the number and to
\* the rest.
Accepts(c, f) ==
    /\ backlog # << >> /\ c = Head(backlog) /\ backlog' = Tail(backlog)
    /\ c \notin DOMAIN sockfd /\ life[c] # "new"
    /\ file[f] = None
    /\ \A g \in Fds \ {f} : file'[g] = file[g]
    /\ DOMAIN sockfd' = DOMAIN sockfd \cup {c} /\ sockfd'[c] = f
    /\ \A d \in DOMAIN sockfd : sockfd'[d] = sockfd[d]
    /\ \A d \in Conns \ {c} : life'[d] = life[d]
    /\ \/ file'[f] = c /\ life'[c] = life[c] /\ rejected' = rejected
       \/ life'[c] = "gone" /\ rejected' = rejected \cup {c}
    /\ \/ UNCHANGED mClients
       \/ \E s \in FreeSlots : /\ mClients'[s] = [fd |-> f, conn |-> c]
                               /\ OpenSlots' = OpenSlots \cup {s}
                               /\ \A t \in Slots \ {s} : mClients'[t] = mClients[t]
    /\ UNCHANGED <<posted, running, astray>>

\* Accepting takes the first connection that waits and some free number.
LEMMA AcceptKeeps ==
    ASSUME TypeOK, Accepted, Accept
    PROVE  \E c \in Conns, f \in Fds : Accepts(c, f)
<1> DEFINE c == Head(backlog)
<1>1. backlog # << >> /\ backlog' = Tail(backlog) /\ c = backlog[1] /\ 1 \in DOMAIN backlog
      /\ c \in Conns /\ UNCHANGED <<posted, running, astray>>
  BY TailMovesUp DEF Accept, TypeOK, executor
<1>2. c \notin DOMAIN sockfd /\ life[c] # "new"
  BY <1>1 DEF Accepted
<1>3. PICK f \in Fds, reject \in BOOLEAN :
         /\ file[f] = None
         /\ file' = [file EXCEPT ![f] = IF reject THEN None ELSE c]
         /\ sockfd' = With(sockfd, c, f)
         /\ \/ \E s \in FreeSlots : mClients' = [mClients EXCEPT ![s] = [fd |-> f, conn |-> c]]
            \/ UNCHANGED mClients
         /\ rejected' = IF reject THEN rejected \cup {c} ELSE rejected
         /\ Lose(IF reject THEN {c} ELSE {})
  BY DEF Accept, Lowest, FreeFds
<1>4. /\ \A g \in Fds \ {f} : file'[g] = file[g]
      /\ file'[f] = IF reject THEN None ELSE c
  BY <1>3 DEF TypeOK
<1>5. /\ DOMAIN sockfd' = DOMAIN sockfd \cup {c} /\ sockfd'[c] = f
      /\ \A d \in DOMAIN sockfd : sockfd'[d] = sockfd[d]
  BY <1>2, <1>3 DEF With
<1>6. \A d \in Conns : life'[d] = IF d \in (IF reject THEN {c} ELSE {}) THEN "gone" ELSE life[d]
  BY <1>3, TypeLose
<1>7. \A s \in FreeSlots : mClients' = [mClients EXCEPT ![s] = [fd |-> f, conn |-> c]] =>
         /\ mClients'[s] = [fd |-> f, conn |-> c]
         /\ \A t \in Slots \ {s} : mClients'[t] = mClients[t]
         /\ OpenSlots' = OpenSlots \cup {s}
  <2> SUFFICES ASSUME NEW s \in FreeSlots,
                      mClients' = [mClients EXCEPT ![s] = [fd |-> f, conn |-> c]]
               PROVE  /\ mClients'[s] = [fd |-> f, conn |-> c]
                      /\ \A t \in Slots \ {s} : mClients'[t] = mClients[t]
                      /\ OpenSlots' = OpenSlots \cup {s}
    OBVIOUS
  <2>1. s \in Slots /\ f # None
    BY NoneAssumption DEF FreeSlots
  <2>2. mClients'[s] = [fd |-> f, conn |-> c] /\ \A t \in Slots \ {s} : mClients'[t] = mClients[t]
    BY <2>1 DEF TypeOK
  <2> QED BY <2>1, <2>2 DEF OpenSlots, FreeSlots
<1>8. \/ file'[f] = c /\ life'[c] = life[c] /\ rejected' = rejected
      \/ life'[c] = "gone" /\ rejected' = rejected \cup {c}
  <2> HIDE DEF c
  <2>1. CASE reject
    BY <1>1, <1>3, <1>6, <2>1
  <2>2. CASE ~reject
    BY <1>1, <1>3, <1>4, <1>6, <2>2
  <2> QED BY <2>1, <2>2
<1>9. \A d \in Conns \ {c} : life'[d] = life[d]
  BY <1>6
<1>10. \/ UNCHANGED mClients
       \/ \E s \in FreeSlots : /\ mClients'[s] = [fd |-> f, conn |-> c]
                               /\ OpenSlots' = OpenSlots \cup {s}
                               /\ \A t \in Slots \ {s} : mClients'[t] = mClients[t]
  BY <1>3, <1>7
<1>11. c = Head(backlog)
  OBVIOUS
<1> HIDE DEF c
<1>12. Accepts(c, f)
  BY <1>1, <1>2, <1>3, <1>4, <1>5, <1>8, <1>9, <1>10, <1>11 DEF Accepts
<1> QED BY <1>1, <1>12

\* What starting a command does to the number it takes.
LEMMA StartKeeps ==
    ASSUME TypeOK, Start
    PROVE  LET m == Head(posted) IN
           /\ posted # << >> /\ posted' = Tail(posted)
           /\ m = posted[1] /\ m.type = "START" /\ m.cmd \in Commands /\ m.conn \in DOMAIN sockfd
           /\ Answer(m.conn)
           /\ UNCHANGED <<mClients, sockfd, backlog, life, rejected>>
           /\ \/ UNCHANGED <<running, file>>
              \/ \E f \in Fds :
                    /\ file[f] = None /\ file'[f] = m.cmd
                    /\ \A g \in Fds \ {f} : file'[g] = file[g]
                    /\ DOMAIN running' = DOMAIN running \cup {m.cmd}
                    /\ running'[m.cmd] = [conn |-> m.conn, fd |-> f]
                    /\ \A k \in DOMAIN running \ {m.cmd} : running'[k] = running[k]
<1> DEFINE m == Head(posted)
<1>1. posted # << >> /\ posted' = Tail(posted) /\ m.type = "START" /\ Answer(m.conn)
      /\ UNCHANGED <<mClients, sockfd, backlog, life, rejected>>
  BY DEF Start, client
<1>2. m \in Message /\ m = posted[1] /\ m.conn \in DOMAIN sockfd
  BY <1>1, TypePosted
<1>3. m.cmd \in Commands
  BY <1>1, <1>2 DEF Message
<1>4. \/ UNCHANGED <<running, file>>
      \/ \E f \in Fds :
            /\ file[f] = None /\ running' = With(running, m.cmd, [conn |-> m.conn, fd |-> f])
            /\ file' = [file EXCEPT ![f] = m.cmd]
  <2>1. CASE UNCHANGED <<running, file>>
    BY <2>1
  <2>2. ASSUME NEW f \in Fds, NEW g \in Fds,
               LET end == IF m.cmd \in Inputs THEN g ELSE f IN
               /\ Lowest(FreeFds, f) /\ Lowest(FreeFds \ {f}, g)
               /\ running' = With(running, m.cmd, [conn |-> m.conn, fd |-> end])
               /\ file' = [file EXCEPT ![end] = m.cmd]
        PROVE  \E h \in Fds :
                  /\ file[h] = None
                  /\ running' = With(running, m.cmd, [conn |-> m.conn, fd |-> h])
                  /\ file' = [file EXCEPT ![h] = m.cmd]
    BY <2>2 DEF Lowest, FreeFds
  <2> QED BY <2>1, <2>2 DEF Start
<1>5. ASSUME NEW f \in Fds, file' = [file EXCEPT ![f] = m.cmd],
             running' = With(running, m.cmd, [conn |-> m.conn, fd |-> f])
      PROVE  /\ file'[f] = m.cmd
             /\ \A g \in Fds \ {f} : file'[g] = file[g]
             /\ DOMAIN running' = DOMAIN running \cup {m.cmd}
             /\ running'[m.cmd] = [conn |-> m.conn, fd |-> f]
             /\ \A k \in DOMAIN running \ {m.cmd} : running'[k] = running[k]
  <2> HIDE DEF m
  <2> QED BY <1>5 DEF TypeOK, With
<1> QED BY <1>1, <1>2, <1>3, <1>4, <1>5

\* Once it has connected a connection stays so, and once gone it stays gone.
LEMMA LifeGoesOn ==
    ASSUME TypeOK, Accepted, [Next]_vars, NEW c \in Conns
    PROVE  /\ life[c] # "new" => life'[c] # "new"
           /\ life[c] = "gone" => life'[c] = "gone"
<1>1. CASE UNCHANGED core
  BY <1>1 DEF core
<1>2. CASE Accept
  BY <1>2, AcceptKeeps DEF Accepts
<1>3. CASE Start
  BY <1>3, StartKeeps
<1>4. CASE Destroy
  BY <1>4, TypeClose DEF Destroy
<1>5. CASE StopRead
  BY <1>5, StopReadKeeps
<1>6. ASSUME NEW s \in OpenSlots, Dropped(s)
      PROVE  (life[c] # "new" => life'[c] # "new") /\ (life[c] = "gone" => life'[c] = "gone")
  <2>1. Close({mClients[s].fd})
    BY <1>6 DEF Dropped, Drop
  <2> QED BY <2>1, TypeClose
<1>7. ASSUME NEW s \in OpenSlots, ReadCommand(s) PROVE life' = life
  BY <1>7 DEF ReadCommand
<1>8. ASSUME NEW d \in Conns, Connects(d) \/ Ends(d)
      PROVE  (life[c] # "new" => life'[c] # "new") /\ (life[c] = "gone" => life'[c] = "gone")
  BY <1>8 DEF Connects, Ends, Open, TypeOK
<1> QED BY <1>1, <1>2, <1>3, <1>4, <1>5, <1>6, <1>7, <1>8, Steps

-----------------------------------------------------------------------------
(* Answers *)

\* A connection is accepted once.
LEMMA AcceptedStep == TypeOK /\ Accepted /\ [Next]_vars => Accepted'
<1> SUFFICES ASSUME TypeOK, Accepted, [Next]_vars PROVE Accepted'
  OBVIOUS
<1>1. \A i \in DOMAIN backlog : backlog[i] \in Conns
  BY DEF TypeOK
<1>2. DOMAIN sockfd \subseteq Conns
  BY DEF TypeOK, IsMap
<1>3. \A c \in Conns : life[c] # "new" => life'[c] # "new"
  BY LifeGoesOn
<1>4. CASE backlog' = backlog /\ sockfd' = sockfd
  BY <1>1, <1>2, <1>3, <1>4 DEF Accepted
<1>5. CASE Accept
  <2>0. PICK c \in Conns, f \in Fds : Accepts(c, f)
    BY <1>5, AcceptKeeps
  <2>1. /\ backlog # << >> /\ c = Head(backlog) /\ backlog' = Tail(backlog)
        /\ DOMAIN sockfd' = DOMAIN sockfd \cup {c}
        /\ life[c] # "new"
    BY <2>0 DEF Accepts
  <2>2. \A i \in DOMAIN backlog' :
           /\ i + 1 \in DOMAIN backlog /\ backlog'[i] = backlog[i + 1] /\ i \in Nat
           /\ i # 0
    BY <2>1, TailMovesUp DEF TypeOK
  <2>3. c = backlog[1] /\ 1 \in DOMAIN backlog
    BY <2>1, TailMovesUp DEF TypeOK
  <2>4. \A i \in DOMAIN backlog' : backlog'[i] \notin DOMAIN sockfd' /\ life'[backlog'[i]] # "new"
    BY <1>1, <1>3, <2>1, <2>2, <2>3 DEF Accepted
  <2>5. \A i, j \in DOMAIN backlog' : backlog'[i] = backlog'[j] => i = j
    <3> SUFFICES ASSUME NEW i \in DOMAIN backlog', NEW j \in DOMAIN backlog',
                        backlog'[i] = backlog'[j]
                 PROVE  i = j
      OBVIOUS
    <3>1. i + 1 = j + 1
      BY <2>2 DEF Accepted
    <3> QED BY <2>2, <3>1
  <2>6. \A d \in DOMAIN sockfd' : life'[d] # "new"
    BY <1>2, <1>3, <2>1 DEF Accepted
  <2> QED BY <2>4, <2>5, <2>6 DEF Accepted
<1>6. ASSUME NEW c \in Conns, Connects(c) PROVE Accepted'
  <2>1. /\ DOMAIN backlog' = DOMAIN backlog \cup {Len(backlog) + 1}
        /\ \A i \in DOMAIN backlog : backlog'[i] = backlog[i]
        /\ backlog'[Len(backlog) + 1] = c
    BY <1>6, AppendBehind DEF Connects, TypeOK
  <2>2. life[c] = "new" /\ life'[c] = "connected" /\ sockfd' = sockfd
    BY <1>6 DEF Connects, TypeOK
  <2>3. \A i \in DOMAIN backlog : backlog[i] # c
    BY <2>2 DEF Accepted
  <2>4. c \notin DOMAIN sockfd
    BY <2>2 DEF Accepted
  <2> QED BY <1>1, <1>2, <1>3, <2>1, <2>2, <2>3, <2>4 DEF Accepted
<1>7. CASE StopRead
  BY <1>2, <1>3, <1>7 DEF StopRead, Accepted
<1>8. ASSUME NEW c \in Conns, Ends(c) PROVE backlog' = backlog /\ sockfd' = sockfd
  BY <1>8 DEF Ends
<1>9. ASSUME UNCHANGED core \/ Start \/ Destroy \/ (\E s \in OpenSlots : Dropped(s))
             \/ (\E s \in OpenSlots : ReadCommand(s))
      PROVE  backlog' = backlog /\ sockfd' = sockfd
  BY <1>9 DEF core, Start, Destroy, Dropped, ReadCommand, client
<1> QED BY <1>4, <1>5, <1>6, <1>7, <1>8, <1>9, Steps

\* The number in a writer is its connection's until the daemon closes it.
LEMMA WritersStep == TypeOK /\ Accepted /\ Writers /\ [Next]_vars => Writers'
<1> SUFFICES ASSUME TypeOK, Accepted, Writers, [Next]_vars PROVE Writers'
  OBVIOUS
<1>1. \A c \in DOMAIN sockfd : c \in Conns /\ c # None /\ sockfd[c] \in Fds
  BY NoneAssumption DEF TypeOK, IsMap
<1>2. \A c \in Conns : life[c] = "gone" => life'[c] = "gone"
  BY LifeGoesOn
<1>3. ASSUME file' = file, sockfd' = sockfd PROVE Writers'
  BY <1>1, <1>2, <1>3 DEF Writers
<1>4. ASSUME NEW fds, Close(fds), sockfd' = sockfd PROVE Writers'
  BY <1>1, <1>2, <1>4, TypeClose DEF Writers
<1>5. CASE Accept
  <2>0. PICK c \in Conns, f \in Fds : Accepts(c, f)
    BY <1>5, AcceptKeeps
  <2>1. /\ file[f] = None /\ \A g \in Fds \ {f} : file'[g] = file[g]
        /\ DOMAIN sockfd' = DOMAIN sockfd \cup {c} /\ sockfd'[c] = f
        /\ \A d \in DOMAIN sockfd : sockfd'[d] = sockfd[d]
        /\ file'[f] = c \/ life'[c] = "gone"
    BY <2>0 DEF Accepts
  <2>2. ASSUME NEW d \in DOMAIN sockfd PROVE life'[d] = "gone" \/ file'[sockfd'[d]] = d
    BY <1>1, <1>2, <2>1, <2>2 DEF Writers
  <2> QED BY <2>1, <2>2 DEF Writers
<1>6. CASE Start
  <2>1. sockfd' = sockfd
    BY <1>6 DEF Start
  <2>2. \/ file' = file
        \/ \E f \in Fds : file[f] = None /\ \A g \in Fds \ {f} : file'[g] = file[g]
    BY <1>6, StartKeeps
  <2> QED BY <1>1, <1>2, <2>1, <2>2 DEF Writers
<1>7. CASE Destroy
  BY <1>4, <1>7 DEF Destroy
<1>8. ASSUME NEW s \in OpenSlots, Dropped(s) PROVE Writers'
  BY <1>4, <1>8 DEF Dropped, Drop
<1>9. ASSUME UNCHANGED core \/ StopRead \/ (\E s \in OpenSlots : ReadCommand(s))
             \/ (\E c \in Conns : Connects(c) \/ Ends(c))
      PROVE  file' = file /\ sockfd' = sockfd
  BY <1>9 DEF core, StopRead, ReadCommand, Connects, Ends
<1> QED BY <1>3, <1>5, <1>6, <1>7, <1>8, <1>9, Steps

\* An answer goes where the writer's number leads.
LEMMA AnswersStep ==
    TypeOK /\ Accepted /\ Writers /\ AnswersReachAsker /\ [Next]_vars => AnswersReachAsker'
<1> SUFFICES ASSUME TypeOK, Accepted, Writers, AnswersReachAsker, [Next]_vars
             PROVE  AnswersReachAsker'
  OBVIOUS
<1>1. \A c \in Conns : life[c] = "gone" => life'[c] = "gone"
  BY LifeGoesOn
<1>2. ASSUME astray' = astray PROVE AnswersReachAsker'
  BY <1>1, <1>2 DEF AnswersReachAsker
<1>3. ASSUME NEW c \in DOMAIN sockfd, Answer(c) PROVE AnswersReachAsker'
  <2>1. astray' = astray \/ (life[c] = "gone" /\ \E r \in Conns : astray' = astray \cup {<<c, r>>})
    BY <1>3 DEF Answer, Sent, Writers
  <2> QED BY <1>1, <1>2, <2>1 DEF AnswersReachAsker
<1>4. CASE Start
  BY <1>3, <1>4, StartKeeps
<1>5. ASSUME NEW s \in OpenSlots, ReadCommand(s) PROVE AnswersReachAsker'
  <2>1. mClients[s].conn \in DOMAIN sockfd
    BY DEF TypeOK
  <2> QED BY <1>2, <1>3, <1>5, <2>1 DEF ReadCommand
<1>6. ASSUME UNCHANGED core \/ Accept \/ Destroy \/ StopRead \/ (\E s \in OpenSlots : Dropped(s))
             \/ (\E c \in Conns : Connects(c) \/ Ends(c))
      PROVE  astray' = astray
  BY <1>6 DEF core, Accept, Destroy, StopRead, Dropped, Connects, Ends
<1> QED BY <1>2, <1>4, <1>5, <1>6, Steps

-----------------------------------------------------------------------------
(* Descriptors *)

\* A number a rejected connection has had stays suspect.
LEMMA ShadyStays ==
    ASSUME TypeOK, Accepted, [Next]_vars
    PROVE  Shady \subseteq Shady'
<1>1. rejected \subseteq DOMAIN sockfd
  BY DEF TypeOK
<1>2. CASE Accept
  <2>1. rejected \subseteq rejected' /\ \A d \in DOMAIN sockfd : sockfd'[d] = sockfd[d]
    BY <1>2, AcceptKeeps DEF Accepts
  <2> QED BY <1>1, <2>1 DEF Shady
<1>3. ASSUME UNCHANGED core \/ Start \/ Destroy \/ StopRead \/ (\E s \in OpenSlots : Dropped(s))
             \/ (\E s \in OpenSlots : ReadCommand(s)) \/ (\E d \in Conns : Connects(d) \/ Ends(d))
      PROVE  rejected' = rejected /\ sockfd' = sockfd
  BY <1>3 DEF core, Start, Destroy, StopRead, Dropped, ReadCommand, Connects, Ends, client
<1> QED BY <1>2, <1>3, Steps DEF Shady

\* What a slot holds is a connection and a number.
LEMMA SlotHolds ==
    ASSUME TypeOK, NEW s \in OpenSlots
    PROVE  /\ s \in Slots /\ mClients[s].fd \in Fds
           /\ mClients[s].conn \in DOMAIN sockfd /\ mClients[s].conn \in Conns
BY DEF TypeOK, OpenSlots, FreeSlots, IsMap, ClientSocket

\* The table keeps the numbers connections were accepted with.
LEMMA TableStep == TypeOK /\ Accepted /\ Table /\ [Next]_vars => Table'
<1> SUFFICES ASSUME TypeOK, Accepted, Table, [Next]_vars PROVE Table'
  OBVIOUS
<1>1. ASSUME mClients' = mClients, sockfd' = sockfd PROVE Table'
  BY <1>1 DEF Table, OpenSlots, FreeSlots
<1>2. CASE Accept
  <2>0. PICK c \in Conns, f \in Fds : Accepts(c, f)
    BY <1>2, AcceptKeeps
  <2>1. /\ c \notin DOMAIN sockfd
        /\ DOMAIN sockfd' = DOMAIN sockfd \cup {c} /\ sockfd'[c] = f
        /\ \A d \in DOMAIN sockfd : sockfd'[d] = sockfd[d]
        /\ \/ UNCHANGED mClients
           \/ \E s \in FreeSlots : /\ mClients'[s] = [fd |-> f, conn |-> c]
                                   /\ OpenSlots' = OpenSlots \cup {s}
                                   /\ \A t \in Slots \ {s} : mClients'[t] = mClients[t]
    BY <2>0 DEF Accepts
  <2>2. CASE UNCHANGED mClients
    <3>1. OpenSlots' = OpenSlots
      BY <2>2 DEF OpenSlots, FreeSlots
    <3> QED BY <2>1, <2>2, <3>1, SlotHolds DEF Table
  <2>3. ASSUME NEW s \in FreeSlots, mClients'[s] = [fd |-> f, conn |-> c],
               OpenSlots' = OpenSlots \cup {s}, \A t \in Slots \ {s} : mClients'[t] = mClients[t]
        PROVE  Table'
    <3>1. \A t \in OpenSlots : mClients'[t] = mClients[t] /\ mClients[t].conn \in DOMAIN sockfd
      BY <2>3, SlotHolds DEF OpenSlots
    <3>2. mClients'[s].fd = f /\ mClients'[s].conn = c
      BY <2>3
    <3> QED BY <2>1, <2>3, <3>1, <3>2 DEF Table
  <2> QED BY <2>1, <2>2, <2>3
<1>3. ASSUME NEW s \in OpenSlots, Dropped(s) PROVE Table'
  <2>1. Drop(s) /\ sockfd' = sockfd
    BY <1>3 DEF Dropped
  <2>2. OpenSlots' \subseteq OpenSlots /\ \A t \in OpenSlots' : mClients'[t] = mClients[t]
    BY <2>1, DropKeeps
  <2> QED BY <2>1, <2>2 DEF Table
<1>4. ASSUME UNCHANGED core \/ Start \/ Destroy \/ StopRead
             \/ (\E s \in OpenSlots : ReadCommand(s)) \/ (\E d \in Conns : Connects(d) \/ Ends(d))
      PROVE  mClients' = mClients /\ sockfd' = sockfd
  BY <1>4 DEF core, Start, Destroy, StopRead, ReadCommand, Connects, Ends, client
<1> QED BY <1>1, <1>2, <1>3, <1>4, Steps

\* Every step keeps each descriptor its owner's.
LEMMA DescriptorsStep ==
    TypeOK /\ Accepted /\ Table /\ DescriptorsOwn /\ [Next]_vars => DescriptorsOwn'
<1> SUFFICES ASSUME TypeOK, Accepted, Table, DescriptorsOwn, [Next]_vars PROVE DescriptorsOwn'
  OBVIOUS
<1>1. Shady \subseteq Shady'
  BY ShadyStays
<1>2. \A k \in DOMAIN running : k \in Commands /\ running[k].fd \in Fds
  BY DEF TypeOK, IsMap, Running
<1>3. /\ \A c \in Conns, k \in Commands : c # k
      /\ None \notin Conns /\ None \notin Commands
  BY NoneAssumption, KindsAssumption
<1>4. ASSUME mClients' = mClients, running' = running, file' = file PROVE DescriptorsOwn'
  BY <1>1, <1>4 DEF DescriptorsOwn, OpenSlots, FreeSlots, FileOf
<1>5. CASE Accept
  <2>0. PICK c \in Conns, f \in Fds : Accepts(c, f)
    BY <1>5, AcceptKeeps
  <2>1. /\ file[f] = None /\ \A g \in Fds \ {f} : file'[g] = file[g]
        /\ DOMAIN sockfd' = DOMAIN sockfd \cup {c} /\ sockfd'[c] = f
        /\ file'[f] = c \/ rejected' = rejected \cup {c}
        /\ \/ UNCHANGED mClients
           \/ \E s \in FreeSlots : /\ mClients'[s] = [fd |-> f, conn |-> c]
                                   /\ OpenSlots' = OpenSlots \cup {s}
                                   /\ \A t \in Slots \ {s} : mClients'[t] = mClients[t]
        /\ running' = running
    BY <2>0 DEF Accepts
  <2>2. file'[f] = c \/ f \in Shady'
    BY <2>1 DEF Shady
  <2>3. \A t \in OpenSlots : file'[mClients[t].fd] = mClients[t].conn \/ mClients[t].fd \in Shady'
    <3>1. \A t \in OpenSlots : mClients[t].fd \in Fds /\ mClients[t].conn # None
      BY <1>3, SlotHolds
    <3> QED BY <1>1, <2>1, <3>1 DEF DescriptorsOwn, FileOf
  <2>4. \A k \in DOMAIN running : file'[running[k].fd] = k \/ running[k].fd \in Shady'
    BY <1>1, <1>2, <1>3, <2>1 DEF DescriptorsOwn
  <2>5. CASE UNCHANGED mClients
    <3>1. OpenSlots' = OpenSlots
      BY <2>5 DEF OpenSlots, FreeSlots
    <3> QED BY <2>1, <2>3, <2>4, <2>5, <3>1 DEF DescriptorsOwn, FileOf
  <2>6. ASSUME NEW s \in FreeSlots, mClients'[s] = [fd |-> f, conn |-> c],
               OpenSlots' = OpenSlots \cup {s}, \A t \in Slots \ {s} : mClients'[t] = mClients[t]
        PROVE  DescriptorsOwn'
    <3>1. \A t \in OpenSlots : mClients'[t] = mClients[t]
      BY <2>6 DEF OpenSlots
    <3>2. mClients'[s].fd = f /\ mClients'[s].conn = c
      BY <2>6
    <3>3. \A t \in OpenSlots' :
             file'[mClients'[t].fd] = mClients'[t].conn \/ mClients'[t].fd \in Shady'
      BY <2>2, <2>3, <2>6, <3>1, <3>2
    <3> QED BY <2>1, <2>4, <3>3 DEF DescriptorsOwn, FileOf
  <2> QED BY <2>1, <2>5, <2>6
<1>6. ASSUME NEW s \in OpenSlots, Dropped(s) PROVE DescriptorsOwn'
  <2> DEFINE f == mClients[s].fd
  <2>1. /\ OpenSlots' = OpenSlots \ {s}
        /\ \A t \in OpenSlots' : mClients'[t] = mClients[t]
        /\ \A g \in Fds \ {f} : file'[g] = file[g]
        /\ running' = running
    <3>1. Drop(s) /\ running' = running
      BY <1>6 DEF Dropped
    <3>2. Close({f}) /\ OpenSlots' = OpenSlots \ {s} /\ \A t \in OpenSlots' : mClients'[t] = mClients[t]
      BY <3>1, DropKeeps
    <3> HIDE DEF f
    <3> QED BY <3>1, <3>2, TypeClose
  <2>2. \A t \in OpenSlots \ {s} : mClients[t].fd # f \/ f \in Shady
    BY SlotHolds DEF DescriptorsOwn, FileOf, Table
  <2>3. \A k \in DOMAIN running : running[k].fd # f \/ f \in Shady
    BY <1>2, <1>3, SlotHolds DEF DescriptorsOwn, FileOf
  <2>4. \A t \in OpenSlots' : file'[mClients'[t].fd] = mClients'[t].conn \/ mClients'[t].fd \in Shady'
    BY <1>1, <2>1, <2>2, SlotHolds DEF DescriptorsOwn, FileOf
  <2>5. \A k \in DOMAIN running' : file'[running'[k].fd] = k \/ running'[k].fd \in Shady'
    BY <1>1, <1>2, <2>1, <2>3 DEF DescriptorsOwn
  <2> QED BY <2>4, <2>5 DEF DescriptorsOwn, FileOf
<1>7. CASE Start
  <2> DEFINE m == Head(posted)
  <2>1. mClients' = mClients /\ OpenSlots' = OpenSlots
    BY <1>7 DEF Start, OpenSlots, FreeSlots
  <2>2. CASE UNCHANGED <<running, file>>
    BY <1>4, <2>1, <2>2
  <2>3. ASSUME NEW f \in Fds, file[f] = None, file'[f] = m.cmd,
               \A g \in Fds \ {f} : file'[g] = file[g],
               DOMAIN running' = DOMAIN running \cup {m.cmd},
               running'[m.cmd] = [conn |-> m.conn, fd |-> f],
               \A k \in DOMAIN running \ {m.cmd} : running'[k] = running[k]
        PROVE  DescriptorsOwn'
    <3> HIDE DEF m
    <3>1. \A t \in OpenSlots : file'[mClients[t].fd] = mClients[t].conn \/ mClients[t].fd \in Shady'
      <4>1. \A t \in OpenSlots : mClients[t].fd \in Fds /\ mClients[t].conn # None
        BY <1>3, SlotHolds
      <4> QED BY <1>1, <2>3, <4>1 DEF DescriptorsOwn, FileOf
    <3>2. running'[m.cmd].fd = f
      BY <2>3
    <3>3. \A k \in DOMAIN running' : file'[running'[k].fd] = k \/ running'[k].fd \in Shady'
      <4>1. \A k \in DOMAIN running \ {m.cmd} :
               file'[running[k].fd] = k \/ running[k].fd \in Shady'
        <5>1. \A k \in DOMAIN running : running[k].fd \in Fds /\ k # None
          BY <1>2, NoneAssumption
        <5> QED BY <1>1, <2>3, <5>1 DEF DescriptorsOwn
      <4> QED BY <2>3, <3>2, <4>1
    <3> QED BY <2>1, <3>1, <3>3 DEF DescriptorsOwn, FileOf
  <2> QED BY <1>7, <2>2, <2>3, StartKeeps
<1>8. CASE Destroy
  <2> DEFINE labels == LabelsOf(Head(posted).conn)
             fds == {running[k].fd : k \in labels}
  <2>1. mClients' = mClients /\ OpenSlots' = OpenSlots /\ Close(fds)
        /\ running' = [k \in DOMAIN running \ labels |-> running[k]]
    BY <1>8 DEF Destroy, OpenSlots, FreeSlots
  <2>2. \A g \in Fds : file'[g] = IF g \in fds THEN None ELSE file[g]
    BY <2>1, TypeClose
  <2>3. labels \subseteq DOMAIN running
    BY DEF LabelsOf
  <2>4. \A t \in OpenSlots : mClients[t].fd \notin fds \/ mClients[t].fd \in Shady
    BY <1>2, <1>3, <2>3, SlotHolds DEF DescriptorsOwn, FileOf
  <2>5. \A k \in DOMAIN running \ labels : running[k].fd \notin fds \/ running[k].fd \in Shady
    BY <1>2, <2>3 DEF DescriptorsOwn
  <2> HIDE DEF fds, labels
  <2>6. \A t \in OpenSlots : file'[mClients[t].fd] = mClients[t].conn \/ mClients[t].fd \in Shady'
    BY <1>1, <2>2, <2>4, SlotHolds DEF DescriptorsOwn, FileOf
  <2>7. \A k \in DOMAIN running' : file'[running'[k].fd] = k \/ running'[k].fd \in Shady'
    BY <1>1, <1>2, <2>1, <2>2, <2>5 DEF DescriptorsOwn
  <2> QED BY <2>1, <2>6, <2>7 DEF DescriptorsOwn, FileOf
<1>9. ASSUME UNCHANGED core \/ StopRead \/ (\E s \in OpenSlots : ReadCommand(s))
             \/ (\E d \in Conns : Connects(d) \/ Ends(d))
      PROVE  mClients' = mClients /\ running' = running /\ file' = file
  BY <1>9 DEF core, StopRead, ReadCommand, Connects, Ends, executor
<1> QED BY <1>4, <1>5, <1>6, <1>7, <1>8, <1>9, Steps

-----------------------------------------------------------------------------
(* Commands *)

\* What is behind a place in the queue is, when another message is appended.
LEMMA DestroyStaysBehind ==
    ASSUME TypeOK, NEW e \in Message, posted' = Append(posted, e)
    PROVE  /\ \A i : DestroyedAfter(i) \subseteq DestroyedAfter(i)'
           /\ e.type = "DESTROY" =>
                 \A i \in DOMAIN posted \cup {0} : e.conn \in DestroyedAfter(i)'
<1>1. /\ DOMAIN posted' = DOMAIN posted \cup {Len(posted) + 1}
      /\ \A i \in DOMAIN posted : posted'[i] = posted[i] /\ i < Len(posted) + 1
      /\ posted'[Len(posted) + 1] = e /\ Len(posted) + 1 > 0
  BY AppendBehind DEF TypeOK
<1>2. \A i : DestroyedAfter(i) \subseteq DestroyedAfter(i)'
  BY <1>1 DEF DestroyedAfter
<1>3. e.conn \in Conns
  BY DEF Message
<1>4. ASSUME e.type = "DESTROY", NEW i \in DOMAIN posted \cup {0}
      PROVE  e.conn \in DestroyedAfter(i)'
  BY <1>1, <1>3, <1>4 DEF DestroyedAfter
<1> QED BY <1>2, <1>4

\* What is behind the head of the queue moves up with the rest.
LEMMA DestroyMovesUp ==
    ASSUME TypeOK, posted # << >>, posted' = Tail(posted)
    PROVE  /\ posted[1] = Head(posted) /\ 1 \in DOMAIN posted
           /\ \A i \in DOMAIN posted' : /\ i + 1 \in DOMAIN posted /\ posted'[i] = posted[i + 1]
                                        /\ i \in Nat
           /\ \A i \in Nat : DestroyedAfter(i + 1) \subseteq DestroyedAfter(i)'
           /\ \A c \in DestroyedAfter(0) :
                 \/ c \in DestroyedAfter(0)'
                 \/ posted[1].type = "DESTROY" /\ Owner[posted[1].conn] = Owner[c]
<1>1. posted \in Seq(Message)
  BY DEF TypeOK
<1>2. /\ posted[1] = Head(posted) /\ 1 \in DOMAIN posted
      /\ \A i \in DOMAIN posted' : i + 1 \in DOMAIN posted /\ posted'[i] = posted[i + 1] /\ i \in Nat
      /\ \A i \in DOMAIN posted \ {1} :
            i - 1 \in DOMAIN posted' /\ posted'[i - 1] = posted[i] /\ i \in Nat
  BY <1>1, TailMovesUp
<1>3. ASSUME NEW i \in Nat, NEW c \in DestroyedAfter(i + 1) PROVE c \in DestroyedAfter(i)'
  <2>1. PICK j \in DOMAIN posted :
           j > i + 1 /\ posted[j].type = "DESTROY" /\ Owner[posted[j].conn] = Owner[c]
    BY <1>3 DEF DestroyedAfter
  <2>2. j \in Nat
    BY <1>1
  <2>3. j - 1 \in DOMAIN posted' /\ posted'[j - 1] = posted[j] /\ j - 1 > i
    BY <1>2, <2>1, <2>2
  <2> QED BY <1>3, <2>1, <2>3 DEF DestroyedAfter
<1>4. ASSUME NEW c \in DestroyedAfter(0),
             ~ (posted[1].type = "DESTROY" /\ Owner[posted[1].conn] = Owner[c])
      PROVE  c \in DestroyedAfter(0)'
  <2>1. PICK j \in DOMAIN posted :
           j > 0 /\ posted[j].type = "DESTROY" /\ Owner[posted[j].conn] = Owner[c]
    BY DEF DestroyedAfter
  <2>2. j \in Nat /\ j # 1
    BY <1>1, <1>4, <2>1
  <2>3. j - 1 \in DOMAIN posted' /\ posted'[j - 1] = posted[j] /\ j - 1 > 0
    BY <1>2, <2>1, <2>2
  <2> QED BY <2>1, <2>3 DEF DestroyedAfter
<1> QED BY <1>2, <1>3, <1>4

\* No step leaves a command behind.
LEMMA OrphansStep == TypeOK /\ Accepted /\ NoOrphans /\ [Next]_vars => NoOrphans'
<1> SUFFICES ASSUME TypeOK, Accepted, NoOrphans, [Next]_vars PROVE NoOrphans'
  OBVIOUS
<1>1. ASSUME Connected \subseteq Connected', running' = running, posted' = posted
      PROVE  NoOrphans'
  BY <1>1 DEF NoOrphans, DestroyedAfter
<1>2. ASSUME mClients' = mClients PROVE Connected' = Connected
  BY <1>2 DEF Connected, OpenSlots, FreeSlots
<1>3. CASE Accept
  <2>1. posted' = posted /\ running' = running
    BY <1>3 DEF Accept, executor
  <2>2. \/ UNCHANGED mClients
        \/ \E s \in FreeSlots : /\ OpenSlots' = OpenSlots \cup {s}
                                /\ \A t \in Slots \ {s} : mClients'[t] = mClients[t]
    BY <1>3, AcceptKeeps DEF Accepts
  <2>3. Connected \subseteq Connected'
    BY <1>2, <2>2 DEF Connected, OpenSlots
  <2> QED BY <1>1, <2>1, <2>3
<1>4. ASSUME NEW s \in OpenSlots, Dropped(s) PROVE NoOrphans'
  <2> DEFINE d == mClients[s].conn
             m == [type |-> "DESTROY", cmd |-> None, conn |-> d]
  <2>1. /\ OpenSlots' = OpenSlots \ {s} /\ \A t \in OpenSlots' : mClients'[t] = mClients[t]
        /\ posted' = Append(posted, m) /\ m \in Message
        /\ running' = running
    BY <1>4, DropKeeps DEF Dropped
  <2>2. m.type = "DESTROY" /\ m.conn = d
    OBVIOUS
  <2>3. Connected \subseteq Connected' \cup {d}
    BY <2>1 DEF Connected
  <2> HIDE DEF m, d
  <2>4. /\ \A i : DestroyedAfter(i) \subseteq DestroyedAfter(i)'
        /\ \A i \in DOMAIN posted \cup {0} : d \in DestroyedAfter(i)'
    BY <2>1, <2>2, DestroyStaysBehind
  <2>5. /\ DOMAIN posted' = DOMAIN posted \cup {Len(posted) + 1}
        /\ \A i \in DOMAIN posted : posted'[i] = posted[i]
        /\ posted'[Len(posted) + 1] = m
    BY <2>1, AppendBehind DEF TypeOK
  <2>6. \A k \in DOMAIN running : running[k].conn \in Connected' \cup DestroyedAfter(0)'
    BY <2>3, <2>4 DEF NoOrphans
  <2>7. \A i \in DOMAIN posted :
           posted[i].type = "START" => posted[i].conn \in Connected' \cup DestroyedAfter(i)'
    BY <2>3, <2>4 DEF NoOrphans
  <2> QED BY <2>1, <2>2, <2>5, <2>6, <2>7 DEF NoOrphans
<1>5. ASSUME NEW s \in OpenSlots, ReadCommand(s) PROVE NoOrphans'
  <2> DEFINE d == mClients[s].conn
             m == [type |-> "START", cmd |-> Head(inbox[FileOf(s)]), conn |-> d]
  <2>1. Connected' = Connected /\ running' = running
        /\ (posted' = posted \/ posted' = Append(posted, m))
    BY <1>2, <1>5 DEF ReadCommand
  <2>2. m \in Message /\ m.conn = d
    <3>1. FileOf(s) \in Conns /\ inbox[FileOf(s)] # << >>
      BY <1>5 DEF ReadCommand
    <3>2. Head(inbox[FileOf(s)]) \in Commands
      BY <3>1, TailMovesUp DEF TypeOK
    <3> QED BY <3>2, SlotHolds DEF Message
  <2>3. d \in Connected
    BY DEF Connected
  <2> HIDE DEF m, d
  <2>4. CASE posted' = Append(posted, m)
    <3>1. \A i : DestroyedAfter(i) \subseteq DestroyedAfter(i)'
      BY <2>2, <2>4, DestroyStaysBehind
    <3>2. /\ DOMAIN posted' = DOMAIN posted \cup {Len(posted) + 1}
          /\ \A i \in DOMAIN posted : posted'[i] = posted[i]
          /\ posted'[Len(posted) + 1] = m
      BY <2>2, <2>4, AppendBehind DEF TypeOK
    <3> QED BY <2>1, <2>2, <2>3, <3>1, <3>2 DEF NoOrphans
  <2> QED BY <1>1, <2>1, <2>4
<1>6. ASSUME Start \/ Destroy
      PROVE  /\ Connected' = Connected
             /\ posted # << >> /\ posted' = Tail(posted)
             /\ \A i \in DOMAIN posted' : posted'[i].type = "START" =>
                   posted'[i].conn \in Connected' \cup DestroyedAfter(i)'
  <2>1. posted # << >> /\ posted' = Tail(posted)
    BY <1>6 DEF Start, Destroy
  <2>2. Connected' = Connected
    BY <1>2, <1>6 DEF Start, Destroy
  <2>3. ASSUME NEW i \in DOMAIN posted', posted'[i].type = "START"
        PROVE  posted'[i].conn \in Connected' \cup DestroyedAfter(i)'
    <3>1. i + 1 \in DOMAIN posted /\ posted'[i] = posted[i + 1] /\ i \in Nat
          /\ DestroyedAfter(i + 1) \subseteq DestroyedAfter(i)'
      BY <2>1, DestroyMovesUp
    <3> QED BY <2>2, <2>3, <3>1 DEF NoOrphans
  <2> QED BY <2>1, <2>2, <2>3
<1>7. CASE Start
  <2> DEFINE m == Head(posted)
  <2>1. /\ m = posted[1] /\ m.type = "START"
        /\ \/ running' = running
           \/ \E k \in Commands :
                 /\ DOMAIN running' = DOMAIN running \cup {k}
                 /\ running'[k].conn = m.conn
                 /\ \A l \in DOMAIN running \ {k} : running'[l] = running[l]
    <3>1. /\ m = posted[1] /\ m.type = "START" /\ m.cmd \in Commands
          /\ \/ running' = running
             \/ \E f \in Fds :
                   /\ DOMAIN running' = DOMAIN running \cup {m.cmd}
                   /\ running'[m.cmd] = [conn |-> m.conn, fd |-> f]
                   /\ \A k \in DOMAIN running \ {m.cmd} : running'[k] = running[k]
      BY <1>7, StartKeeps
    <3>2. \A f : running'[m.cmd] = [conn |-> m.conn, fd |-> f] => running'[m.cmd].conn = m.conn
      OBVIOUS
    <3> HIDE DEF m
    <3> QED BY <3>1, <3>2
  <2>2. /\ 1 \in DOMAIN posted
        /\ DestroyedAfter(0 + 1) \subseteq DestroyedAfter(0)'
        /\ \A c \in DestroyedAfter(0) : c \in DestroyedAfter(0)' \/ posted[1].type = "DESTROY"
    BY <1>6, <1>7, DestroyMovesUp
  <2>3. posted[1].conn \in Connected' \cup DestroyedAfter(0)'
    BY <1>6, <1>7, <2>1, <2>2 DEF NoOrphans
  <2>4. \A k \in DOMAIN running : running[k].conn \in Connected' \cup DestroyedAfter(0)'
    BY <1>6, <1>7, <2>1, <2>2 DEF NoOrphans
  <2> HIDE DEF m
  <2>5. \A k \in DOMAIN running' : running'[k].conn \in Connected' \cup DestroyedAfter(0)'
    BY <2>1, <2>3, <2>4
  <2> QED BY <1>6, <1>7, <2>5 DEF NoOrphans
<1>8. CASE Destroy
  <2>1. /\ running' = [k \in DOMAIN running \ LabelsOf(Head(posted).conn) |-> running[k]]
        /\ Head(posted) = posted[1]
    BY <1>6, <1>8, DestroyMovesUp DEF Destroy
  <2>2. \A k \in DOMAIN running' : /\ k \in DOMAIN running /\ running'[k] = running[k]
                                   /\ Owner[posted[1].conn] # Owner[running[k].conn]
    BY <2>1 DEF LabelsOf
  <2>3. \A c \in DestroyedAfter(0) :
           c \in DestroyedAfter(0)' \/ Owner[posted[1].conn] = Owner[c]
    BY <1>6, <1>8, DestroyMovesUp
  <2>4. \A k \in DOMAIN running' : running'[k].conn \in Connected' \cup DestroyedAfter(0)'
    BY <1>6, <1>8, <2>2, <2>3 DEF NoOrphans
  <2> QED BY <1>6, <1>8, <2>4 DEF NoOrphans
<1>9. ASSUME UNCHANGED core \/ StopRead \/ (\E d \in Conns : Connects(d) \/ Ends(d))
      PROVE  mClients' = mClients /\ running' = running /\ posted' = posted
  BY <1>9 DEF core, StopRead, Connects, Ends, executor
<1> QED BY <1>1, <1>2, <1>3, <1>4, <1>5, <1>7, <1>8, <1>9, Steps

-----------------------------------------------------------------------------
(* The theorems *)

Inv ==
    /\ TypeOK
    /\ Accepted /\ Writers /\ AnswersReachAsker
    /\ Table /\ DescriptorsOwn
    /\ NoOrphans

\* The initial state satisfies the invariant: nothing has been accepted.
LEMMA InvInit == Init => Inv
<1> SUFFICES ASSUME Init PROVE Inv
  OBVIOUS
<1>1. OpenSlots = {}
  BY DEF Init, OpenSlots, FreeSlots
<1>2. Accepted /\ Writers
  BY DEF Init, Accepted, Writers
<1>3. AnswersReachAsker
  BY DEF Init, AnswersReachAsker
<1>4. Table /\ DescriptorsOwn
  BY <1>1 DEF Init, Table, DescriptorsOwn
<1>5. NoOrphans
  BY DEF Init, NoOrphans
<1> QED BY <1>2, <1>3, <1>4, <1>5, TypeInit DEF Inv

\* Every step keeps it.
LEMMA InvStep == Inv /\ [Next]_vars => Inv'
BY TypeStep, AcceptedStep, WritersStep, AnswersStep, TableStep, DescriptorsStep, OrphansStep
   DEF Inv

\* The invariant holds in every reachable state.
LEMMA InvHolds == Spec => []Inv
BY InvInit, InvStep, PTL DEF Spec

\* No answer reaches another connection while the asker's descriptor is open
\* (SaceWriter.cpp:24-62, SaceReader.cpp:230).
THEOREM AnswersKept == Spec => []AnswersReachAsker
<1>1. Inv => AnswersReachAsker
  BY DEF Inv
<1> QED BY <1>1, InvHolds, PTL

\* No descriptor in the table or of a command's pipe is another's, unless a
\* connection was rejected that had had it (SaceReader.cpp:158-202, 230).
THEOREM DescriptorsKept == Spec => []DescriptorsOwn
<1>1. Inv => DescriptorsOwn
  BY DEF Inv
<1> QED BY <1>1, InvHolds, PTL

\* No command outlives its connection without a DESTROY on its way
\* (SaceReader.cpp:107-122, SaceExcutor.cpp:768-792).
THEOREM OrphansFollowed == Spec => []NoOrphans
<1>1. Inv => NoOrphans
  BY DEF Inv
<1> QED BY <1>1, InvHolds, PTL
=============================================================================
