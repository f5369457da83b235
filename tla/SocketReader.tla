---------------------------- MODULE SocketReader ----------------------------
(***************************************************************************)
(* The table of connections of saced (src/saced/SaceReader.cpp), composed  *)
(* with the writers that answer them (src/saced/SaceWriter.cpp) and with   *)
(* the commands the executor runs for them (src/saced/SaceExcutor.cpp).    *)
(* One thread accepts and reads, the executor's worker opens and closes    *)
(* the pipes of commands and answers through the number a connection had   *)
(* when it was accepted, and the main thread stops the reader.             *)
(*                                                                         *)
(* What a descriptor's number names is in file, as the kernel has it: the  *)
(* lowest free number is used next.  The messages are those that start a   *)
(* command; NormalExcutor has the others, and how commands are closed.     *)
(***************************************************************************)
EXTENDS Naturals, Sequences

CONSTANTS
    Conns,      \* connections clients make
    Clients, Owner,    \* a connection's client: its uid and pid
    Trusted,    \* clients whose uid is AID_SYSTEM or AID_ROOT
    CommandNum, \* bound of the model on the commands sent
    Inputs,     \* commands sent with SACE_CMD_FLAG_OUT, which read from their pipe
    ClientNum,  \* MAX_CLIENT_NUM
    FdNum,      \* descriptors the daemon can have besides its listening socket
    None        \* no connection, no command, no file, no descriptor (-1)

Slots == 1..ClientNum
Fds == 1..FdNum
Commands == 1..CommandNum    \* in the order they are sent

ASSUME OwnerAssumption == Owner \in [Conns -> Clients]
ASSUME BoundsAssumption == ClientNum \in Nat /\ FdNum \in Nat /\ CommandNum \in Nat
ASSUME NoneAssumption == None \notin Conns \cup Commands \cup Fds
ASSUME KindsAssumption == Conns \cap Commands = {}

VARIABLES
    mClients,   \* slot -> its fd and the connection its client and writer are of
    listening,  \* whether mSockFd is open
    pc, ready,  \* the reader: position, slots whose descriptors select returned
    file,       \* descriptor -> the connection or the command whose end it is
    sockfd,     \* connection -> the number in its SaceSocketWriter
    backlog,    \* connections to be accepted
    life,       \* connection -> "new", "connected", "shut" down for writing by
                \* stopRead, "ended" by its client or "gone", its descriptor
                \* closed and what it has sent discarded
    inbox,      \* connection -> commands sent and not read
    sent,       \* how many commands have been sent
    posted,     \* messages on their way to the executor
    running,    \* command -> the connection it was read from and its pipe's fd
    alive,      \* whether the daemon runs
    stopped,    \* whether stopRead was called
    rejected,   \* connections closed although they have a slot, or for want of one
    astray      \* <<a, b>>: an answer for a has been sent to b

client == <<backlog, life, inbox, sent>>
executor == <<posted, running>>
ending == <<alive, stopped>>
vars == <<mClients, listening, pc, ready, file, sockfd, client, executor, ending,
          rejected, astray>>

-----------------------------------------------------------------------------
(* Data *)

ClientSocket == [fd : Fds \cup {None}, conn : Conns \cup {None}]
Message ==
    [type : {"START"}, cmd : Commands, conn : Conns]
        \cup [type : {"DESTROY"}, cmd : {None}, conn : Conns]
Running == [conn : Conns, fd : Fds]

With(f, k, v) == [x \in DOMAIN f \cup {k} |-> IF x = k THEN v ELSE f[x]]

Lowest(S, n) == n \in S /\ \A m \in S : n <= m
FreeFds == {f \in Fds : file[f] = None}
FreeSlots == {s \in Slots : mClients[s].fd = None}
OpenSlots == Slots \ FreeSlots
FileOf(s) == file[mClients[s].fd]

Lose(conns) ==
    /\ life' = [c \in Conns |-> IF c \in conns THEN "gone" ELSE life[c]]
    /\ inbox' = [c \in Conns |-> IF c \in conns THEN << >> ELSE inbox[c]]

\* Closing a number closes whatever has it.
Close(fds) ==
    /\ file' = [f \in Fds |-> IF f \in fds THEN None ELSE file[f]]
    /\ Lose({c \in Conns : \E f \in fds : file[f] = c})

Init ==
    /\ mClients = [s \in Slots |-> [fd |-> None, conn |-> None]]
    /\ listening = TRUE
    /\ pc = "select" /\ ready = {}
    /\ file = [f \in Fds |-> None]
    /\ sockfd = << >>
    /\ backlog = << >>
    /\ life = [c \in Conns |-> "new"]
    /\ inbox = [c \in Conns |-> << >>]
    /\ sent = 0
    /\ posted = << >> /\ running = << >>
    /\ alive = TRUE /\ stopped = FALSE
    /\ rejected = {} /\ astray = {}

-----------------------------------------------------------------------------
(* Clients *)

Connects(c) ==
    /\ life[c] = "new" /\ listening
    /\ life' = [life EXCEPT ![c] = "connected"]
    /\ backlog' = Append(backlog, c)
    /\ UNCHANGED <<mClients, listening, pc, ready, file, sockfd, inbox, sent, executor,
                   ending, rejected, astray>>

Open(c) == life[c] \in {"connected", "shut"}

Sends(c) ==
    /\ Open(c)
    /\ sent < CommandNum
    /\ sent' = sent + 1
    /\ inbox' = [inbox EXCEPT ![c] = Append(@, sent')]
    /\ UNCHANGED <<mClients, listening, pc, ready, file, sockfd, backlog, life, executor,
                   ending, rejected, astray>>

Ends(c) ==
    /\ Open(c)
    /\ life' = [life EXCEPT ![c] = "ended"]
    /\ UNCHANGED <<mClients, listening, pc, ready, file, sockfd, backlog, inbox, sent,
                   executor, ending, rejected, astray>>

-----------------------------------------------------------------------------
(* Writers: SaceSocketWriter::sendResult *)

\* Nothing keeps SIGPIPE away: the daemon ends when it writes to a connection
\* that its client has ended or that was shut down.
Sent(c, r) ==
    /\ alive' = (r \in Conns => life[r] \notin {"shut", "ended"})
    /\ astray' = IF r \in Conns \ {c} THEN astray \cup {<<c, r>>} ELSE astray

AnswerFirst(c) == Sent(c, IF 1 \in OpenSlots THEN FileOf(1) ELSE None)
\* The number of the connection may by now be a file's that is no socket, or
\* another connection's.
Answer(c) == Sent(c, file[sockfd[c]])

-----------------------------------------------------------------------------
(* The reader: recv_data_or_connection *)

\* select fails when one of the descriptors is not open.
Bad(s) == s \in OpenSlots /\ FileOf(s) = None
Fails == ~listening \/ \E s \in Slots : Bad(s)

SelectFails ==
    /\ pc = "select"
    /\ Fails
    /\ pc' = "sweep"
    /\ UNCHANGED <<mClients, listening, ready, file, sockfd, client, executor, ending,
                   rejected, astray>>

AtEnd(c) == inbox[c] = << >> /\ life[c] = "ended"
ReadableData(s) == FileOf(s) \in Conns /\ inbox[FileOf(s)] # << >>
Readable(s) == FileOf(s) \in Conns /\ (inbox[FileOf(s)] # << >> \/ AtEnd(FileOf(s)))

\* A pipe may have output at any time.
SelectData ==
    /\ pc = "select"
    /\ ~Fails
    /\ backlog = << >>
    /\ \E output \in SUBSET {s \in OpenSlots : FileOf(s) \in Commands} :
          ready' = {s \in OpenSlots : Readable(s)} \cup output
    /\ ready' # {}
    /\ pc' = "read"
    /\ UNCHANGED <<mClients, listening, file, sockfd, client, executor, ending, rejected,
                   astray>>

\* close, handle_socket_close
PostIfRunning(s) ==
    posted' = IF \E k \in DOMAIN running : running[k].conn = mClients[s].conn
              THEN Append(posted, [type |-> "DESTROY", cmd |-> None, conn |-> mClients[s].conn])
              ELSE posted
Post(s) ==
    posted' = Append(posted, [type |-> "DESTROY", cmd |-> None, conn |-> mClients[s].conn])
DropOpen(s) == Close({mClients[s].fd}) /\ UNCHANGED mClients /\ Post(s)
Drop(s) ==
    /\ Close({mClients[s].fd})
    /\ mClients' = [mClients EXCEPT ![s].fd = None]
    /\ Post(s)

\* The sweep after a select that failed, in the order of the table
Sweep(s) ==
    /\ pc = "sweep"
    /\ Lowest({t \in Slots : Bad(t)}, s)
    /\ Drop(s)
    /\ UNCHANGED <<listening, pc, ready, sockfd, backlog, sent, running, ending, rejected,
                   astray>>

\* setup_socket, also when it is stopRead that has closed mSockFd
SweepEnd ==
    /\ pc = "sweep"
    /\ ~ \E s \in Slots : Bad(s)
    /\ listening' = TRUE
    /\ pc' = "select"
    /\ UNCHANGED <<mClients, ready, file, sockfd, client, executor, ending, rejected,
                   astray>>

\* The index compared with MAX_CLIENT_NUM is not the loop's and holds anything:
\* the connection is closed or not, whether it has a slot or not.  Nothing that
\* happens between select and accept matters to either.
Accept ==
    LET c == Head(backlog) IN
    /\ pc = "select"
    /\ ~Fails
    /\ backlog # << >>
    /\ backlog' = Tail(backlog)
    /\ \E f \in Fds, reject \in BOOLEAN :
          /\ Lowest(FreeFds, f)
          /\ file' = [file EXCEPT ![f] = IF reject THEN None ELSE c]
          /\ sockfd' = With(sockfd, c, f)
          /\ \/ \E s \in Slots :
                   /\ Lowest(FreeSlots, s)
                   /\ mClients' = [mClients EXCEPT ![s] = [fd |-> f, conn |-> c]]
             \/ FreeSlots = {} /\ UNCHANGED mClients
          /\ rejected' = IF reject THEN rejected \cup {c} ELSE rejected
          /\ Lose(IF reject THEN {c} ELSE {})
    /\ UNCHANGED <<listening, pc, ready, sent, executor, ending, astray>>

\* Without a descriptor accept fails, and is tried again before anything is read.
AcceptFails ==
    /\ pc = "select"
    /\ ~Fails
    /\ backlog # << >> /\ FreeFds = {}
    /\ UNCHANGED vars

\* The loop over the slots whose descriptors are ready
Turn(s) == pc = "read" /\ Lowest(ready, s)
DoneAtOnce(s) == ready' = ready \ {s} /\ pc' = "select"
Done(s) ==
    /\ ready' = ready \ {s}
    /\ pc' = IF ready = {s} THEN "select" ELSE "read"

\* The connection has ended, its number is closed, or it is a pipe's whose
\* command has closed its end.
ReadEnd(s) ==
    /\ Turn(s)
    /\ \/ FileOf(s) = None
       \/ FileOf(s) \in Conns /\ AtEnd(FileOf(s))
       \/ FileOf(s) \in Commands
    /\ Drop(s)
    /\ Done(s)
    /\ UNCHANGED <<listening, sockfd, backlog, sent, running, ending, rejected, astray>>

\* handle_socket_msg: one read takes all that has arrived and its first message
\* is handled.
ReadCommand(s) ==
    LET c == mClients[s].conn
        r == FileOf(s)
    IN
    /\ Turn(s)
    /\ r \in Conns /\ inbox[r] # << >>
    /\ inbox' = [inbox EXCEPT ![r] = << >>]
    /\ IF Owner[c] \in Trusted
       THEN /\ posted' = Append(posted, [type |-> "START", cmd |-> Head(inbox[r]), conn |-> c])
            /\ UNCHANGED <<alive, astray>>
       ELSE Answer(c) /\ UNCHANGED posted
    /\ Done(s)
    /\ UNCHANGED <<mClients, listening, file, sockfd, backlog, life, sent, running, stopped,
                   rejected>>

\* The output of a command is no message.
ReadOutput(s) ==
    /\ Turn(s)
    /\ FileOf(s) \in Commands
    /\ Done(s)
    /\ UNCHANGED <<mClients, listening, file, sockfd, client, executor, ending, rejected,
                   astray>>

Read(s) == ReadEnd(s) \/ ReadCommand(s) \/ ReadOutput(s)

-----------------------------------------------------------------------------
(* The main thread: stopRead.  Its thread goes on. *)

StopRead ==
    /\ alive /\ ~stopped
    /\ stopped' = TRUE
    /\ listening' = FALSE
    /\ backlog' = << >>
    /\ LET refused == {backlog[i] : i \in DOMAIN backlog}
           quiet == {c \in Conns : life[c] = "connected" /\ \E s \in OpenSlots : FileOf(s) = c}
       IN /\ life' = [c \in Conns |-> IF c \in refused THEN "gone"
                                      ELSE IF c \in quiet THEN "shut" ELSE life[c]]
          /\ inbox' = [c \in Conns |-> IF c \in refused THEN << >> ELSE inbox[c]]
    /\ UNCHANGED <<mClients, pc, ready, file, sockfd, sent, executor, alive, rejected,
                   astray>>

-----------------------------------------------------------------------------
(* The executor *)

\* startNormalCmd: a pipe has the two lowest free numbers, and the daemon keeps
\* the first to read from it and the second to write to it.  It may be impossible
\* to make the pipe or the process.
Start ==
    LET m == Head(posted) IN
    /\ posted # << >> /\ m.type = "START"
    /\ posted' = Tail(posted)
    /\ \/ \E f, g \in Fds :
             LET end == IF m.cmd \in Inputs THEN g ELSE f IN
             /\ Lowest(FreeFds, f) /\ Lowest(FreeFds \ {f}, g)
             /\ running' = With(running, m.cmd, [conn |-> m.conn, fd |-> end])
             /\ file' = [file EXCEPT ![end] = m.cmd]
       \/ UNCHANGED <<running, file>>
    /\ Answer(m.conn)
    /\ UNCHANGED <<mClients, listening, pc, ready, sockfd, client, stopped, rejected>>

\* destroyNormalCmd: the commands of the client, whichever connection they were
\* read from
LabelsOf(c) == {k \in DOMAIN running : Owner[running[k].conn] = Owner[c]}
Destroy ==
    LET m == Head(posted)
        labels == LabelsOf(m.conn)
    IN
    /\ posted # << >> /\ m.type = "DESTROY"
    /\ posted' = Tail(posted)
    /\ running' = [k \in DOMAIN running \ labels |-> running[k]]
    /\ Close({running[k].fd : k \in labels})
    /\ UNCHANGED <<mClients, listening, pc, ready, sockfd, backlog, sent, ending, rejected,
                   astray>>

-----------------------------------------------------------------------------
Reader ==
    /\ alive
    /\ \/ SelectFails \/ SelectData \/ SweepEnd
       \/ Accept \/ AcceptFails
       \/ \E s \in Slots : Sweep(s) \/ Read(s)
Excutor == alive /\ (Start \/ Destroy)
\* What clients do when the daemon has ended does not matter.
Environment ==
    alive /\ \E c \in Conns : Connects(c) \/ Sends(c) \/ Ends(c)

Next == Reader \/ Excutor \/ Environment \/ StopRead

Spec == Init /\ [][Next]_vars

\* The reader's thread and the executor's worker go on.  Clients and the main
\* thread are left to chance.
Fairness == WF_vars(Reader) /\ WF_vars(Excutor)

FairSpec == Spec /\ Fairness

-----------------------------------------------------------------------------
(* Properties *)

IsMap(f, K, V) == DOMAIN f \subseteq K /\ f \in [DOMAIN f -> V]

\* The shape of the state.
TypeOK ==
    /\ mClients \in [Slots -> ClientSocket]
    /\ \A s \in OpenSlots : mClients[s].conn \in DOMAIN sockfd
    /\ listening \in BOOLEAN /\ alive \in BOOLEAN /\ stopped \in BOOLEAN
    /\ pc \in {"select", "sweep", "read"}
    /\ ready \subseteq OpenSlots
    /\ pc = "read" <=> ready # {}
    /\ file \in [Fds -> Conns \cup Commands \cup {None}]
    /\ IsMap(sockfd, Conns, Fds)
    /\ backlog \in Seq(Conns)
    /\ life \in [Conns -> {"new", "connected", "shut", "ended", "gone"}]
    /\ inbox \in [Conns -> Seq(Commands)]
    /\ sent \in 0..CommandNum
    /\ posted \in Seq(Message)
    /\ \A i \in DOMAIN posted : posted[i].conn \in DOMAIN sockfd
    /\ IsMap(running, Commands, Running)
    /\ rejected \subseteq DOMAIN sockfd
    /\ astray \subseteq Conns \X Conns

\* The numbers of rejected connections
Shady == {sockfd[c] : c \in rejected}

\* The descriptor in a slot is its connection's, and that of a running command
\* is its pipe's: closing one never closes another's file, however numbers are
\* used again.  Only the number of a connection that was rejected when it had
\* its slot already is in two hands.
DescriptorsOwn ==
    /\ \A s \in OpenSlots : FileOf(s) = mClients[s].conn \/ mClients[s].fd \in Shady
    /\ \A k \in DOMAIN running : file[running[k].fd] = k \/ running[k].fd \in Shady

\* A command that runs, or is about to, belongs to a connection that is in the
\* table, or a DESTROY for its client is behind it: no command outlives its
\* connection unnoticed.
Connected == {mClients[s].conn : s \in OpenSlots}
DestroyedAfter(i) ==
    {c \in Conns : \E j \in DOMAIN posted :
        j > i /\ posted[j].type = "DESTROY" /\ Owner[posted[j].conn] = Owner[c]}
NoOrphans ==
    /\ \A k \in DOMAIN running : running[k].conn \in Connected \cup DestroyedAfter(0)
    /\ \A i \in DOMAIN posted :
          posted[i].type = "START" => posted[i].conn \in Connected \cup DestroyedAfter(i)

\* An answer reaches another connection only after the daemon has closed the
\* asker's descriptor, whose number the other has got since.
AnswersReachAsker == \A a \in Conns, b \in Conns : <<a, b>> \in astray => life[a] = "gone"

\* When a connection ends, its commands are destroyed in the end, unless the
\* daemon is ended by an answer to a connection that cannot take it, the
\* uninitialised index interferes, or connections wait for a descriptor none of
\* which is free: as long as one waits to be accepted, nothing is read.
EndReachesCommands ==
    \A c \in Conns :
        life[c] \in {"ended", "gone"} ~>
            \/ \A k \in DOMAIN running : running[k].conn # c
            \/ ~alive
            \/ rejected # {}
            \/ backlog # << >> /\ FreeFds = {}
=============================================================================
