---------------------------- MODULE ExcutorQueue ----------------------------
(***************************************************************************)
(* The message queue of one executor (src/saced/SaceExcutor.cpp, class     *)
(* SaceExcutor) and the three threads that share it: the dispatcher thread *)
(* puts messages in, the executor's own thread takes them out and handles  *)
(* them, and the main thread shuts the executor down (uninit).  A message  *)
(* is counted by the semaphore mSyncSem and kept in mCmdQueue, which the   *)
(* mutex mSyncMutex protects; mExit is read without the mutex.             *)
(***************************************************************************)
EXTENDS Naturals, Sequences

CONSTANTS
    Messages,   \* the messages the dispatcher hands out, each one once
    Mine,       \* those whose msgHandler is this executor's mMsgType
    Timed,      \* whether receive_msg_timeout() is positive
    None        \* no message

ASSUME MineAssumption == Mine \subseteq Messages
ASSUME TimedAssumption == Timed \in BOOLEAN
ASSUME NoneAssumption == None \notin Messages

VARIABLES
    mCmdQueue,   \* queue<sp<SaceMessageHeader>>
    mSyncSem,    \* value of the semaphore
    mSyncMutex,  \* holder of the mutex, "free" or "destroyed"
    mExit,
    taken,       \* messages the dispatcher has taken from its looper
    dpc, dmsg,   \* the dispatcher's position and message in excute()
    wpc, wmsg,   \* the worker's position and saceMsg
    token,       \* whether the worker was woken by a token of the semaphore
    mpc,         \* the main thread's position in uninit()
    handled,     \* messages handled so far
    alive        \* FALSE once a destroyed mutex has ended the daemon

dispatcher == <<taken, dpc, dmsg>>
worker == <<wpc, wmsg, token, handled>>
vars == <<mCmdQueue, mSyncSem, mSyncMutex, mExit, dispatcher, worker, mpc, alive>>

-----------------------------------------------------------------------------
Init ==
    /\ mCmdQueue = << >>
    /\ mSyncSem = 0
    /\ mSyncMutex = "free"
    /\ mExit = FALSE
    /\ taken = {} /\ dpc = "idle" /\ dmsg = None
    /\ wpc = "wait" /\ wmsg = None /\ token = FALSE /\ handled = << >>
    /\ mpc = "run"
    /\ alive = TRUE

Lock(thread) == mSyncMutex = "free" /\ mSyncMutex' = thread
Unlock(thread) == mSyncMutex' = IF mSyncMutex = thread THEN "free" ELSE mSyncMutex

-----------------------------------------------------------------------------
(* The dispatcher thread: excute(), sendCommandMessage() *)

\* A message for another executor is left to it.
Excute(m) ==
    /\ dpc = "idle"
    /\ taken' = taken \cup {m}
    /\ IF m \in Mine THEN dpc' = "check" /\ dmsg' = m
                     ELSE UNCHANGED <<dpc, dmsg>>
    /\ UNCHANGED <<mCmdQueue, mSyncSem, mSyncMutex, mExit, worker, mpc, alive>>

DispatchCheck ==
    /\ dpc = "check"
    /\ dpc' = IF mExit THEN "idle" ELSE "lock"
    /\ UNCHANGED <<mCmdQueue, mSyncSem, mSyncMutex, mExit, taken, dmsg, worker, mpc, alive>>

DispatchLock ==
    /\ dpc = "lock"
    /\ Lock("dispatcher")
    /\ dpc' = "push"
    /\ UNCHANGED <<mCmdQueue, mSyncSem, mExit, taken, dmsg, worker, mpc, alive>>

\* Locking a destroyed mutex ends the process, or fails and is not noticed.
DispatchLockDestroyed ==
    /\ dpc = "lock"
    /\ mSyncMutex = "destroyed"
    /\ \/ alive' = FALSE /\ UNCHANGED dpc
       \/ dpc' = "push" /\ UNCHANGED alive
    /\ UNCHANGED <<mCmdQueue, mSyncSem, mSyncMutex, mExit, taken, dmsg, worker, mpc>>

DispatchPush ==
    /\ dpc = "push"
    /\ mCmdQueue' = Append(mCmdQueue, dmsg)
    /\ Unlock("dispatcher")
    /\ dpc' = "post"
    /\ UNCHANGED <<mSyncSem, mExit, taken, dmsg, worker, mpc, alive>>

DispatchPostIfFirst ==
    /\ dpc = "post"
    /\ mSyncSem' = IF Len(mCmdQueue) = 1 THEN mSyncSem + 1 ELSE mSyncSem
    /\ dpc' = "idle"
    /\ UNCHANGED <<mCmdQueue, mSyncMutex, mExit, taken, dmsg, worker, mpc, alive>>
DispatchPost ==
    /\ dpc = "post"
    /\ mSyncSem' = mSyncSem + 1
    /\ dpc' = "idle"
    /\ UNCHANGED <<mCmdQueue, mSyncMutex, mExit, taken, dmsg, worker, mpc, alive>>

-----------------------------------------------------------------------------
(* The worker: excute_command_thread() *)

PostedOrExit == mSyncSem > 0 \/ mExit
Posted == mSyncSem > 0

Wait ==
    /\ wpc = "wait"
    /\ Posted
    /\ mSyncSem' = mSyncSem - 1
    /\ wpc' = "check" /\ token' = TRUE
    /\ UNCHANGED <<mCmdQueue, mSyncMutex, mExit, dispatcher, wmsg, handled, mpc, alive>>

\* EINTR is not looked at: the thread goes on as if it had been woken.
WaitInterrupted ==
    /\ wpc = "wait"
    /\ wpc' = "check" /\ token' = FALSE
    /\ UNCHANGED <<mCmdQueue, mSyncSem, mSyncMutex, mExit, dispatcher, wmsg, handled,
                   mpc, alive>>

\* ETIMEDOUT: excuteTimeout(), and back to the wait without a look at mExit
WaitTimedOut ==
    /\ Timed
    /\ wpc = "wait"
    /\ mSyncSem = 0
    /\ wpc' = "timeout"
    /\ UNCHANGED <<mCmdQueue, mSyncSem, mSyncMutex, mExit, dispatcher, wmsg, token,
                   handled, mpc, alive>>

ExcuteTimeout ==
    /\ wpc = "timeout"
    /\ wpc' = "wait"
    /\ UNCHANGED <<mCmdQueue, mSyncSem, mSyncMutex, mExit, dispatcher, wmsg, token,
                   handled, mpc, alive>>

WorkerCheck ==
    /\ wpc = "check"
    /\ wpc' = IF mExit THEN "exited" ELSE "lock"
    /\ UNCHANGED <<mCmdQueue, mSyncSem, mSyncMutex, mExit, dispatcher, wmsg, token,
                   handled, mpc, alive>>

WorkerLock ==
    /\ wpc = "lock"
    /\ Lock("worker")
    /\ wpc' = "pop"
    /\ UNCHANGED <<mCmdQueue, mSyncSem, mExit, dispatcher, wmsg, token, handled, mpc, alive>>

AfterFrontOnly == mCmdQueue
AfterPop == Tail(mCmdQueue)

WorkerPop ==
    /\ wpc = "pop"
    /\ IF mCmdQueue = << >>
       THEN wmsg' = None /\ wpc' = "wait" /\ UNCHANGED mCmdQueue
       ELSE wmsg' = Head(mCmdQueue) /\ wpc' = "excute" /\ mCmdQueue' = AfterPop
    /\ token' = FALSE
    /\ Unlock("worker")
    /\ UNCHANGED <<mSyncSem, mExit, dispatcher, handled, mpc, alive>>

\* excuteCommand(): the handler of the executor
ExcuteCommand ==
    /\ wpc = "excute"
    /\ handled' = Append(handled, wmsg)
    /\ wpc' = "wait"
    /\ UNCHANGED <<mCmdQueue, mSyncSem, mSyncMutex, mExit, dispatcher, wmsg, token, mpc, alive>>

-----------------------------------------------------------------------------
(* The main thread: uninit(), destroy_excute_thread() *)

Uninit ==
    /\ mpc = "run"
    /\ mpc' = "lock"
    /\ UNCHANGED <<mCmdQueue, mSyncSem, mSyncMutex, mExit, dispatcher, worker, alive>>

MainLock ==
    /\ mpc = "lock"
    /\ Lock("main")
    /\ mpc' = "exit"
    /\ UNCHANGED <<mCmdQueue, mSyncSem, mExit, dispatcher, worker, alive>>

MainExit ==
    /\ mpc = "exit"
    /\ mExit' = TRUE
    /\ Unlock("main")
    /\ mpc' = "post"
    /\ UNCHANGED <<mCmdQueue, mSyncSem, dispatcher, worker, alive>>

MainPostMissing ==
    /\ mpc = "post"
    /\ mpc' = "join"
    /\ UNCHANGED <<mCmdQueue, mSyncSem, mSyncMutex, mExit, dispatcher, worker, alive>>
MainPost ==
    /\ mpc = "post"
    /\ mSyncSem' = mSyncSem + 1
    /\ mpc' = "join"
    /\ UNCHANGED <<mCmdQueue, mSyncMutex, mExit, dispatcher, worker, alive>>

EndedOrIdle == wpc \in {"exited", "wait"}
Ended == wpc = "exited"

MainJoin ==
    /\ mpc = "join"
    /\ Ended
    /\ mpc' = "destroy"
    /\ UNCHANGED <<mCmdQueue, mSyncSem, mSyncMutex, mExit, dispatcher, worker, alive>>

\* Destroying a mutex that is held fails with EBUSY and leaves it.
MainDestroy ==
    /\ mpc = "destroy"
    /\ mSyncMutex' = IF mSyncMutex = "free" THEN "destroyed" ELSE mSyncMutex
    /\ mpc' = "done"
    /\ UNCHANGED <<mCmdQueue, mSyncSem, mExit, dispatcher, worker, alive>>

-----------------------------------------------------------------------------
Dispatch ==
    DispatchCheck \/ DispatchLock \/ DispatchLockDestroyed \/ DispatchPush \/ DispatchPost
Work ==
    Wait \/ WaitTimedOut \/ ExcuteTimeout \/ WorkerCheck \/ WorkerLock \/ WorkerPop
        \/ ExcuteCommand
Shutdown == MainLock \/ MainExit \/ MainPost \/ MainJoin \/ MainDestroy

Next ==
    /\ alive
    /\ \/ \E m \in Messages \ taken : Excute(m)
       \/ Dispatch \/ Work \/ WaitInterrupted \/ Uninit \/ Shutdown

Spec == Init /\ [][Next]_vars

\* No thread stops between its steps, and one that waits for the mutex, which
\* is only ever held for a few instructions, gets it.  Nothing makes a signal
\* interrupt a wait, and nothing makes a message or the shutdown come.
Fairness ==
    /\ WF_vars(alive /\ Dispatch) /\ SF_vars(alive /\ DispatchLock)
    /\ WF_vars(alive /\ Work) /\ SF_vars(alive /\ WorkerLock)
    /\ WF_vars(alive /\ Shutdown) /\ SF_vars(alive /\ MainLock)

FairSpec == Spec /\ Fairness

-----------------------------------------------------------------------------
(* Properties *)

\* The shape of the state.
TypeOK ==
    /\ mCmdQueue \in Seq(Messages)
    /\ mSyncSem \in Nat
    /\ mSyncMutex \in {"free", "dispatcher", "worker", "main", "destroyed"}
    /\ mExit \in BOOLEAN
    /\ taken \subseteq Messages
    /\ dpc \in {"idle", "check", "lock", "push", "post"}
    /\ dmsg \in Messages \cup {None}
    /\ dpc # "idle" => dmsg \in Messages
    /\ wpc \in {"wait", "timeout", "check", "lock", "pop", "excute", "exited"}
    /\ wmsg \in Messages \cup {None}
    /\ wpc = "excute" => wmsg \in Messages
    /\ token \in BOOLEAN
    /\ mpc \in {"run", "lock", "exit", "post", "join", "destroy", "done"}
    /\ handled \in Seq(Messages)
    /\ alive \in BOOLEAN

\* No wake-up is lost: every queued message is covered by a token of the
\* semaphore, by one about to be posted or by one the worker has just taken,
\* although messages are also popped without a token when a wait is
\* interrupted.
WakeupPending ==
    wpc # "exited" =>
        Len(mCmdQueue) <= mSyncSem + (IF dpc = "post" THEN 1 ELSE 0)
                                   + (IF token THEN 1 ELSE 0)

\* The worker has ended before what it uses is destroyed, and it ends only when
\* it is told to.
WorkerGoneFirst ==
    /\ mSyncMutex = "destroyed" => wpc = "exited"
    /\ wpc = "exited" => mExit

\* The executor implements the promise of FifoHandler.
InHand == IF wpc = "excute" THEN <<wmsg>> ELSE << >>
Fifo == INSTANCE FifoHandler
    WITH pending <- InHand \o mCmdQueue, open <- wpc # "exited"
HandlesInOrder == Fifo!Spec

\* A queued message is handled, unless the executor is shut down.
QueuedIsHandled ==
    \A m \in Messages :
        (\E i \in 1..Len(mCmdQueue) : mCmdQueue[i] = m)
            ~> (mExit \/ \E i \in 1..Len(handled) : handled[i] = m)

\* uninit() returns: the worker is woken from its wait, however long that is.
UninitReturns == (mpc = "lock") ~> (mpc = "done")
=============================================================================
