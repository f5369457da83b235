---------------------------- MODULE SocketSender ----------------------------
(***************************************************************************)
(* A client's side of the socket (src/libsace/SaceSender.cpp, class        *)
(* SaceSocketSender), while the connection lasts: application threads      *)
(* write commands and wait up to three seconds for a result with the       *)
(* sequence number of the command; one receive thread reads results and    *)
(* responses, files the results in mResult and wakes every waiting thread. *)
(*                                                                         *)
(* Commands are counted in the order in which they are written.  The       *)
(* sequence number a command carries is the next of a 16 bit counter, or,  *)
(* of a command to an existing object (SaceObj.cpp), half of the object's  *)
(* label: the number of the command that created it, whether or not that   *)
(* one was answered and whoever sent it.  So any number may come again.    *)
(***************************************************************************)
EXTENDS Naturals, Sequences

CONSTANTS
    Threads,      \* application threads that share the sender
    Executors,    \* executors of the daemon, by the types of commands
    MaxCommands,  \* bound of the model on the number of commands
    MaxStream     \* bound of the model on messages a response may join

ASSUME BoundsAssumption == MaxCommands \in Nat /\ MaxStream \in Nat

VARIABLES
    sequence,  \* sequence[k]: the sequence number of command k, named after
               \* the first command that carried it
    executor,  \* executor[k]: the executor command k is for
    caller,    \* caller[k]: the thread that issued command k
    got,       \* got[k]: the command whose result call k returned, or 0
    pc,        \* a thread's position in excuteCommand
    cmd,       \* the command a thread is waiting for, or 0
    daemon,    \* commands the daemon has yet to answer
    stream,    \* unread messages on the socket; a response counts as 0
    mResult    \* map<uint32_t, SaceResult>: sequence number -> command

calls == <<sequence, executor, caller, got, pc, cmd>>
vars == <<calls, daemon, stream, mResult>>

-----------------------------------------------------------------------------
Commands == 1..Len(sequence)
Response == 0

Init ==
    /\ sequence = << >> /\ executor = << >> /\ caller = << >> /\ got = << >>
    /\ pc = [t \in Threads |-> "idle"]
    /\ cmd = [t \in Threads |-> 0]
    /\ daemon = {}
    /\ stream = << >>
    /\ mResult = << >>

-----------------------------------------------------------------------------
(* The application threads: excuteCommand() *)

\* A number this sender has not used: of the counter, or of a service another
\* client started.  Or one it has: of an object, also of a START that timed out,
\* as a later INFO finds its service; or of the counter come round.
NextSequence == {Len(sequence) + 1} \cup {k \in Commands : sequence[k] = k}

Write(t, s, e) ==
    /\ pc[t] = "idle"
    /\ Len(sequence) < MaxCommands
    /\ sequence' = Append(sequence, s)
    /\ executor' = Append(executor, e)
    /\ caller' = Append(caller, t)
    /\ got' = Append(got, 0)
    /\ pc' = [pc EXCEPT ![t] = "written"]
    /\ cmd' = [cmd EXCEPT ![t] = Len(sequence')]
    /\ daemon' = daemon \cup {Len(sequence')}
    /\ UNCHANGED <<stream, mResult>>

\* lock; pthread_cond_timedwait: mResult is not looked at before the wait.
Wait(t) ==
    /\ pc[t] = "written"
    /\ pc' = [pc EXCEPT ![t] = "waiting"]
    /\ UNCHANGED <<sequence, executor, caller, got, cmd, daemon, stream, mResult>>

\* POSIX lets a wait end without a broadcast.
SpuriousWakeup(t) ==
    /\ pc[t] = "waiting"
    /\ pc' = [pc EXCEPT ![t] = "woken"]
    /\ UNCHANGED <<sequence, executor, caller, got, cmd, daemon, stream, mResult>>

\* ETIMEDOUT: the call returns without a look at mResult.
AfterTimeoutRetry == "written"
AfterTimeout == "idle"

Timeout(t) ==
    /\ pc[t] = "waiting"
    /\ pc' = [pc EXCEPT ![t] = AfterTimeout]
    /\ cmd' = [cmd EXCEPT ![t] = IF AfterTimeout = "idle" THEN 0 ELSE @]
    /\ UNCHANGED <<sequence, executor, caller, got, daemon, stream, mResult>>

\* mResult.find(cmd.sequence)
Found(s) == DOMAIN mResult \cap {s}

KeptAfter(s) == DOMAIN mResult
LeftAfter(s) == DOMAIN mResult \ {s}

Take(t) ==
    /\ pc[t] = "woken"
    /\ \E s \in Found(sequence[cmd[t]]) :
          /\ got' = [got EXCEPT ![cmd[t]] = mResult[s]]
          /\ mResult' = [r \in LeftAfter(s) |-> mResult[r]]
    /\ pc' = [pc EXCEPT ![t] = "idle"]
    /\ cmd' = [cmd EXCEPT ![t] = 0]
    /\ UNCHANGED <<sequence, executor, caller, daemon, stream>>

\* Another call's result: unlock, and around the loop to the wait.
WaitAgain(t) ==
    /\ pc[t] = "woken"
    /\ Found(sequence[cmd[t]]) = {}
    /\ pc' = [pc EXCEPT ![t] = "written"]
    /\ UNCHANGED <<sequence, executor, caller, got, cmd, daemon, stream, mResult>>

-----------------------------------------------------------------------------
(* The receive thread: recv_thread_run(), handleResult() *)

\* handleResult: insert keeps a result that is already there, and everyone
\* who waits is woken.
InsertedUnderZero(s, k) ==
    [r \in DOMAIN mResult \cup {0} |-> IF r \in DOMAIN mResult THEN mResult[r] ELSE k]
Inserted(s, k) ==
    [r \in DOMAIN mResult \cup {s} |-> IF r \in DOMAIN mResult THEN mResult[r] ELSE k]

Broadcast == pc' = [t \in Threads |-> IF pc[t] = "waiting" THEN "woken" ELSE pc[t]]

\* One recvmsg of 1024 bytes may return several messages, of which only the
\* first is parsed.
Received(n) ==
    /\ n \in 1..Len(stream)
    /\ stream' = SubSeq(stream, n + 1, Len(stream))

ReceiveResult(n) ==
    /\ Received(n)
    /\ Head(stream) # Response
    /\ mResult' = Inserted(sequence[Head(stream)], Head(stream))
    /\ Broadcast
    /\ UNCHANGED <<sequence, executor, caller, got, cmd, daemon>>

ReceiveResponse(n) ==
    /\ Received(n)
    /\ Head(stream) = Response
    /\ UNCHANGED <<calls, daemon, mResult>>

-----------------------------------------------------------------------------
(* The daemon: external *)

\* An executor answers in order, or not at all (a command behind another in one
\* read() is never parsed); the executors do not wait for each other.
Alike(j, k) == sequence[j] = sequence[k] /\ executor[j] = executor[k]
Due(k) == k \in daemon /\ \A j \in daemon : Alike(j, k) => k <= j

Answer(k) ==
    /\ Due(k)
    /\ daemon' = daemon \ {k}
    /\ stream' = Append(stream, k)
    /\ UNCHANGED <<calls, mResult>>

Ignore(k) ==
    /\ Due(k)
    /\ daemon' = daemon \ {k}
    /\ UNCHANGED <<calls, stream, mResult>>

Respond ==
    /\ Len(stream) < MaxStream
    /\ stream' = Append(stream, Response)
    /\ UNCHANGED <<calls, daemon, mResult>>

-----------------------------------------------------------------------------
Call(t) == Wait(t) \/ Take(t) \/ WaitAgain(t)
Receive == \E n \in 1..Len(stream) : ReceiveResult(n) \/ ReceiveResponse(n)
Daemon == Respond \/ \E k \in daemon : Answer(k) \/ Ignore(k)

Next ==
    \/ \E t \in Threads :
          \/ \E s \in NextSequence, e \in Executors : Write(t, s, e)
          \/ Call(t) \/ SpuriousWakeup(t) \/ Timeout(t)
    \/ Receive
    \/ Daemon

Spec == Init /\ [][Next]_vars

\* A thread that can go on does, and once the deadline of a call, which is
\* computed before its loop, has passed, its next wait ends at once.  Nothing
\* is asked of the daemon or the receive thread.
Fairness == \A t \in Threads : WF_vars(Call(t)) /\ SF_vars(Timeout(t))

FairSpec == Spec /\ Fairness

-----------------------------------------------------------------------------
(* Properties *)

\* The shape of the state.
TypeOK ==
    /\ sequence \in Seq(Nat \ {0})
    /\ \A k \in Commands : sequence[k] \in 1..k
    /\ executor \in Seq(Executors) /\ Len(executor) = Len(sequence)
    /\ caller \in Seq(Threads) /\ Len(caller) = Len(sequence)
    /\ got \in Seq(Nat) /\ Len(got) = Len(sequence)
    /\ \A k \in Commands : got[k] \in Commands \cup {0}
    /\ pc \in [Threads -> {"idle", "written", "waiting", "woken"}]
    /\ cmd \in [Threads -> Nat]
    /\ \A t \in Threads : cmd[t] \in IF pc[t] = "idle" THEN {0} ELSE Commands
    /\ daemon \subseteq Commands
    /\ stream \in Seq(Nat)
    /\ \A i \in 1..Len(stream) : stream[i] \in Commands \cup {Response}
    /\ DOMAIN mResult \subseteq Commands
    /\ mResult \in [DOMAIN mResult -> Commands]

\* A result is returned by one call at most, and once: it is never on its way,
\* filed and returned at the same time.
InStream(k) == {i \in 1..Len(stream) : stream[i] = k}
FiledUnder(k) == {s \in DOMAIN mResult : mResult[s] = k}
ReturnedBy(k) == {c \in Commands : got[c] = k}
ResultOnce ==
    \A k \in Commands :
        /\ \A i, j \in InStream(k) : i = j
        /\ \A c, d \in ReturnedBy(k) : c = d
        /\ k \in daemon => InStream(k) = {}
        /\ k \in daemon \/ InStream(k) # {} => FiledUnder(k) = {} /\ ReturnedBy(k) = {}
        /\ FiledUnder(k) # {} => ReturnedBy(k) = {}

\* The results under a number that one thread uses belong to their commands until
\* a call with that number has timed out.
Returned(k) == \A t \in Threads : cmd[t] # k
OneCaller(k) == \A j \in Commands : sequence[j] = sequence[k] => caller[j] = caller[k]
OwnUntilTimeout ==
    \A k \in Commands :
        OneCaller(k) /\ got[k] \notin {0, k} =>
            \E i \in 1..(k - 1) : sequence[i] = sequence[k] /\ got[i] = 0 /\ Returned(i)

\* The sender implements ObjectReplies: the results of an executor under one
\* number reach the calls in the order of the commands, each once, although the
\* number may come again for anything, results are filed in a map, insert drops
\* the later of two, and any thread may be woken for any of them.
Replies == INSTANCE ObjectReplies
RepliesInOrder == Replies!Spec

\* A call returns, even if nothing is ever received.
CallReturns == \A t \in Threads : (pc[t] # "idle") ~> (pc[t] = "idle")

\* What SaceTypes.h says of SaceResult::sequence, "Corresponding to
\* command/service", and excuteCommand relies on: the result found under the
\* sequence number of a command is the command's.  Refuted by a call that times
\* out although its result is filed: the next call on the object returns it.
ResultIsOwn == \A k \in Commands : got[k] \in {0, k}
=============================================================================
