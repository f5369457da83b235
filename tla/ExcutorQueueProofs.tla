------------------------- MODULE ExcutorQueueProofs -------------------------
(***************************************************************************)
(* What holds of an executor's queue for any messages and any number of    *)
(* them.  WakeupPending is not inductive by itself: that a token in hand   *)
(* is spent by the next pop (TokenHeld), and where the main thread is when *)
(* the flag is set and the mutex destroyed (ShutdownOrder), complete it.   *)
(***************************************************************************)
EXTENDS ExcutorQueue, SequenceTheorems, TLAPS

TokenHeld == token => wpc \in {"check", "lock", "pop", "exited"}

ShutdownOrder ==
    /\ mpc \in {"post", "join", "destroy", "done"} <=> mExit
    /\ mpc \in {"destroy", "done"} => wpc = "exited"
    /\ mSyncMutex = "destroyed" => mpc = "done"

IInv == TypeOK /\ TokenHeld /\ WakeupPending /\ WorkerGoneFirst /\ ShutdownOrder

\* The invariant holds before the first message.
LEMMA InitInv == Init => IInv
<1> SUFFICES ASSUME Init PROVE IInv
  OBVIOUS
<1>1. TypeOK
  <2>1. mCmdQueue \in Seq(Messages) /\ handled \in Seq(Messages) /\ mSyncSem \in Nat
    BY DEF Init
  <2>2. taken \subseteq Messages
    BY DEF Init
  <2> QED BY <2>1, <2>2 DEF Init, TypeOK
<1>2. TokenHeld /\ WorkerGoneFirst /\ ShutdownOrder
  BY DEF Init, TokenHeld, WorkerGoneFirst, ShutdownOrder
<1>3. WakeupPending
  BY DEF Init, WakeupPending
<1> QED BY <1>1, <1>2, <1>3 DEF IInv

\* Pushing a message lengthens the queue by one and gives the mutex up.
LEMMA PushLengthens ==
    ASSUME TypeOK, DispatchPush
    PROVE  /\ mCmdQueue' \in Seq(Messages) /\ Len(mCmdQueue') = Len(mCmdQueue) + 1
           /\ mSyncMutex' \in {"free", mSyncMutex} /\ dpc = "push" /\ dpc' = "post"
           /\ UNCHANGED <<mSyncSem, mExit, taken, dmsg, wpc, wmsg, token, handled, mpc, alive>>
<1>1. mCmdQueue \in Seq(Messages) /\ dmsg \in Messages /\ mCmdQueue' = Append(mCmdQueue, dmsg)
  BY DEF TypeOK, DispatchPush
<1>2. mCmdQueue' \in Seq(Messages) /\ Len(mCmdQueue') = Len(mCmdQueue) + 1
  BY <1>1, AppendProperties
<1>3. /\ mSyncMutex' \in {"free", mSyncMutex} /\ dpc = "push" /\ dpc' = "post"
      /\ UNCHANGED <<mSyncSem, mExit, taken, dmsg, wpc, wmsg, token, handled, mpc, alive>>
  BY DEF DispatchPush, Unlock, worker
<1> QED BY <1>2, <1>3

\* Every step of the dispatcher, the worker and the main thread keeps it.
LEMMA NextInv == IInv /\ [Next]_vars => IInv'
<1> SUFFICES ASSUME IInv, [Next]_vars PROVE IInv'
  OBVIOUS
<1> USE NoneAssumption, MineAssumption
    DEF IInv, TypeOK, TokenHeld, WakeupPending, WorkerGoneFirst, ShutdownOrder,
        dispatcher, worker
<1>1. ASSUME NEW m \in Messages \ taken, Excute(m) PROVE IInv'
  BY <1>1 DEF Excute
<1>2. CASE DispatchCheck
  BY <1>2 DEF DispatchCheck
<1>3. CASE DispatchLock
  BY <1>3 DEF DispatchLock, Lock
<1>4. CASE DispatchLockDestroyed
  BY <1>4 DEF DispatchLockDestroyed
<1>5. CASE DispatchPush
  <2>1. /\ mCmdQueue' \in Seq(Messages) /\ Len(mCmdQueue') = Len(mCmdQueue) + 1
        /\ mSyncMutex' \in {"free", mSyncMutex} /\ dpc = "push" /\ dpc' = "post"
        /\ UNCHANGED <<mSyncSem, mExit, taken, dmsg, wpc, wmsg, token, handled, mpc, alive>>
    BY <1>5, PushLengthens
  <2>2. TypeOK'
    BY <2>1
  <2>3. WakeupPending'
    BY <2>1
  <2>4. TokenHeld' /\ WorkerGoneFirst' /\ ShutdownOrder'
    BY <2>1
  <2> QED BY <2>2, <2>3, <2>4
<1>6. CASE DispatchPost
  BY <1>6 DEF DispatchPost
<1>7. CASE Wait
  BY <1>7 DEF Wait, Posted
<1>8. CASE WaitInterrupted
  <2>1. wpc = "wait" /\ wpc' = "check" /\ token = FALSE /\ token' = FALSE
    BY <1>8 DEF WaitInterrupted
  <2>2. UNCHANGED <<mCmdQueue, mSyncSem, mSyncMutex, mExit, taken, dpc, dmsg, wmsg, handled,
                    mpc, alive>>
    BY <1>8 DEF WaitInterrupted
  <2>3. TypeOK'
    BY <2>1, <2>2
  <2> QED BY <2>1, <2>2, <2>3
<1>9. CASE WaitTimedOut
  BY <1>9 DEF WaitTimedOut
<1>10. CASE ExcuteTimeout
  BY <1>10 DEF ExcuteTimeout
<1>11. CASE WorkerCheck
  BY <1>11 DEF WorkerCheck
<1>12. CASE WorkerLock
  BY <1>12 DEF WorkerLock, Lock
<1>13. CASE WorkerPop
  <2>1. /\ wpc = "pop" /\ wpc' \in {"wait", "excute"} /\ token' = FALSE
        /\ mSyncMutex' \in {"free", mSyncMutex}
        /\ UNCHANGED <<mSyncSem, mExit, taken, dpc, dmsg, handled, mpc, alive>>
    BY <1>13 DEF WorkerPop, Unlock
  <2>2. /\ mCmdQueue' \in Seq(Messages) /\ wmsg' \in Messages \cup {None}
        /\ wpc' = "excute" => wmsg' \in Messages
    <3>1. CASE mCmdQueue = << >>
      BY <1>13, <3>1 DEF WorkerPop
    <3>2. CASE mCmdQueue # << >>
      <4>1. Head(mCmdQueue) \in Messages /\ Tail(mCmdQueue) \in Seq(Messages)
        BY <3>2
      <4> QED BY <1>13, <3>2, <4>1 DEF WorkerPop, AfterPop
    <3> QED BY <3>1, <3>2
  <2>3. TypeOK'
    BY <2>1, <2>2
  <2>4. Len(mCmdQueue') = 0 \/ Len(mCmdQueue') = Len(mCmdQueue) - 1
    BY <1>13 DEF WorkerPop, AfterPop
  <2>5. WakeupPending'
    BY <2>1, <2>4, <2>2
  <2>6. TokenHeld' /\ WorkerGoneFirst' /\ ShutdownOrder'
    BY <2>1
  <2> QED BY <2>3, <2>5, <2>6
<1>14. CASE ExcuteCommand
  BY <1>14 DEF ExcuteCommand
<1>15. CASE Uninit
  BY <1>15 DEF Uninit
<1>16. CASE MainLock
  BY <1>16 DEF MainLock, Lock
<1>17. CASE MainExit
  BY <1>17 DEF MainExit, Unlock
<1>18. CASE MainPost
  BY <1>18 DEF MainPost
<1>19. CASE MainJoin
  BY <1>19 DEF MainJoin, Ended
<1>20. CASE MainDestroy
  BY <1>20 DEF MainDestroy
<1>21. CASE UNCHANGED vars
  BY <1>21 DEF vars
<1> QED
  BY <1>1, <1>2, <1>3, <1>4, <1>5, <1>6, <1>7, <1>8, <1>9, <1>10, <1>11, <1>12, <1>13,
     <1>14, <1>15, <1>16, <1>17, <1>18, <1>19, <1>20, <1>21
  DEF Next, Dispatch, Work, Shutdown

\* The inductive invariant holds of every reachable state.
LEMMA Inductive == Spec => []IInv
BY InitInv, NextInv, PTL DEF Spec

\* Every reachable state of the queue has the shape TypeOK.
THEOREM TypeCorrect == Spec => []TypeOK
BY Inductive, PTL DEF IInv

\* While the worker lives, the semaphore's tokens, with those in flight, cover
\* the queued messages, although interrupted waits pop messages without one.
THEOREM NoWakeupLost == Spec => []WakeupPending
BY Inductive, PTL DEF IInv
\* The mutex is destroyed only after the worker has ended, which it does only
\* when told to.
THEOREM WorkerOutlived == Spec => []WorkerGoneFirst
BY Inductive, PTL DEF IInv

-----------------------------------------------------------------------------
\* Appending to a concatenation appends to its second part.
LEMMA AppendBehind ==
    ASSUME NEW S, NEW s \in Seq(S), NEW t \in Seq(S), NEW e \in S
    PROVE  s \o Append(t, e) = Append(s \o t, e)
BY AppendProperties, ConcatProperties

\* The initial state is an initial state of FifoHandler.
LEMMA RefineInit == Init => Fifo!Init
BY DEF Init, Fifo!Init, InHand

\* Every step is an acceptance, a handling or a closing of FifoHandler, or none
\* of it: a push accepts, excuteCommand handles, the worker's exit closes.
LEMMA RefineNext == IInv /\ [Next]_vars => [Fifo!Next]_(Fifo!vars)
<1> SUFFICES ASSUME IInv, [Next]_vars PROVE [Fifo!Next]_(Fifo!vars)
  OBVIOUS
<1> DEFINE pending == InHand \o mCmdQueue
<1>0. InHand \in Seq(Messages) /\ mCmdQueue \in Seq(Messages)
  BY DEF IInv, TypeOK, InHand
<1>1. CASE UNCHANGED <<mCmdQueue, wmsg, wpc, handled>>
  BY <1>1 DEF Fifo!vars, InHand
<1>2. CASE DispatchPush
  <2>1. dmsg \in Messages /\ mCmdQueue' = Append(mCmdQueue, dmsg)
    BY <1>2 DEF DispatchPush, IInv, TypeOK
  <2>2. UNCHANGED <<InHand, handled, wpc>>
    BY <1>2 DEF DispatchPush, worker, InHand
  <2>3. pending' = Append(pending, dmsg)
    BY <1>0, <2>1, <2>2, AppendBehind
  <2> QED BY <2>1, <2>2, <2>3 DEF Fifo!Next, Fifo!Accept
<1>3. ASSUME wpc # "excute", wpc' # "excute", wpc' # "exited", wpc # "exited",
             UNCHANGED <<mCmdQueue, handled>>
      PROVE  UNCHANGED Fifo!vars
  BY <1>3 DEF Fifo!vars, InHand
<1>4. CASE Wait \/ WaitInterrupted \/ WaitTimedOut \/ ExcuteTimeout \/ WorkerLock
  BY <1>3, <1>4 DEF Wait, WaitInterrupted, WaitTimedOut, ExcuteTimeout, WorkerLock
<1>5. CASE WorkerCheck
  <2>1. CASE mExit
    <3>1. UNCHANGED <<mCmdQueue, handled>> /\ wpc = "check" /\ wpc' = "exited"
      BY <1>5, <2>1 DEF WorkerCheck
    <3> QED BY <3>1 DEF InHand, Fifo!Next, Fifo!Close
  <2>2. CASE ~mExit
    BY <1>3, <1>5, <2>2 DEF WorkerCheck
  <2> QED BY <2>1, <2>2
<1>6. CASE WorkerPop
  <2>1. CASE mCmdQueue = << >>
    BY <1>3, <1>6, <2>1 DEF WorkerPop
  <2>2. CASE mCmdQueue # << >>
    <3>1. /\ wpc = "pop" /\ wpc' = "excute" /\ handled' = handled
          /\ wmsg' = Head(mCmdQueue) /\ mCmdQueue' = Tail(mCmdQueue)
      BY <1>6, <2>2 DEF WorkerPop, AfterPop
    <3>2. <<Head(mCmdQueue)>> \o Tail(mCmdQueue) = << >> \o mCmdQueue
      BY <1>0, <2>2
    <3>3. pending' = pending
      BY <3>1, <3>2 DEF InHand
    <3> QED BY <3>1, <3>3 DEF Fifo!vars
  <2> QED BY <2>1, <2>2
<1>7. CASE ExcuteCommand
  <2>1. /\ wpc = "excute" /\ wpc' = "wait" /\ mCmdQueue' = mCmdQueue
        /\ handled' = Append(handled, wmsg) /\ wmsg \in Messages
    BY <1>7 DEF ExcuteCommand, IInv, TypeOK
  <2>2. pending = <<wmsg>> \o mCmdQueue /\ pending' = << >> \o mCmdQueue
    BY <2>1 DEF InHand
  <2>3. /\ pending # << >> /\ Head(pending) = wmsg
        /\ Tail(pending) = << >> \o mCmdQueue
    <3>1. <<wmsg>> \in Seq(Messages) /\ << >> \in Seq(Messages)
      BY <2>1
    <3> QED BY <1>0, <2>1, <2>2, <3>1, ConcatProperties
  <2> QED BY <2>1, <2>2, <2>3 DEF Fifo!Next, Fifo!Handle
<1>8. CASE \/ \E m \in Messages \ taken : Excute(m)
           \/ DispatchCheck \/ DispatchLock \/ DispatchLockDestroyed \/ DispatchPost
           \/ Uninit \/ Shutdown
  <2>1. UNCHANGED <<mCmdQueue, wmsg, wpc, handled>>
    BY <1>8 DEF Excute, DispatchCheck, DispatchLock, DispatchLockDestroyed, DispatchPost,
                Uninit, Shutdown, MainLock, MainExit, MainPost, MainJoin, MainDestroy, worker
  <2> QED BY <1>1, <2>1
<1>9. CASE UNCHANGED vars
  BY <1>1, <1>9 DEF vars, worker
<1> QED
  BY <1>2, <1>4, <1>5, <1>6, <1>7, <1>8, <1>9 DEF Next, Dispatch, Work

\* The executor's queue implements FifoHandler: what it accepts it handles in
\* order, once, and not after its worker has exited.
THEOREM Refinement == Spec => HandlesInOrder
BY Inductive, RefineInit, RefineNext, PTL DEF Spec, HandlesInOrder, Fifo!Spec
=============================================================================
