---------------------------- MODULE FifoHandler -----------------------------
(***************************************************************************)
(* What an executor promises to the dispatcher: a message it has accepted  *)
(* is handled at most once, in the order of acceptance, and nothing is     *)
(* handled once the executor has closed.                                   *)
(***************************************************************************)
EXTENDS Sequences

CONSTANT Messages

VARIABLES
    pending,   \* accepted, not handled yet
    handled,   \* handled, in order
    open       \* FALSE once the executor handles nothing any more

vars == <<pending, handled, open>>

Init == pending = << >> /\ handled = << >> /\ open = TRUE

Accept(m) ==
    /\ pending' = Append(pending, m)
    /\ UNCHANGED <<handled, open>>

Handle ==
    /\ open
    /\ pending # << >>
    /\ handled' = Append(handled, Head(pending))
    /\ pending' = Tail(pending)
    /\ UNCHANGED open

Close == open' = FALSE /\ UNCHANGED <<pending, handled>>

Next == (\E m \in Messages : Accept(m)) \/ Handle \/ Close

Spec == Init /\ [][Next]_vars
=============================================================================
