--------------------------- MODULE ServiceHistory ---------------------------
(***************************************************************************)
(* The service executor with a memory of the two things that its tables    *)
(* cannot tell afterwards and that decide what may be relied on: whether a *)
(* sweep has ever collected more than one service, after which its saved   *)
(* iterators may have erased a wrong entry, and whether a service was ever *)
(* restarted, after which its address may be twice in the vector.          *)
(* The history variables only observe; every step is one of                *)
(* ServiceExcutor.                                                         *)
(***************************************************************************)
EXTENDS ServiceExcutor

VARIABLES
    crowded,   \* a sweep has saved more than one iterator
    restarted  \* a RESTART has been carried out

history == <<crowded, restarted>>
hvars == <<vars, history>>

HInit == Init /\ crowded = FALSE /\ restarted = FALSE

Observe ==
    /\ crowded' = (crowded \/ Len(gcIterator') > 1)
    /\ restarted' = (restarted \/ \E c \in Clients, l \in Labels : Restart(c, l))

HNext == Next /\ Observe

HSpec == HInit /\ [][HNext]_hvars

-----------------------------------------------------------------------------
(* Properties *)

\* The shape of the history; what it observes is typed in ServiceExcutor.
HistoryTypeOK == TypeOK /\ crowded \in BOOLEAN /\ restarted \in BOOLEAN

\* As long as no sweep has collected two services at once, whatever a RESTART
\* leaves twice in the vector and wherever a freed cell is used again, a process
\* that has not been reaped keeps its entry, under the name it was started for:
\* it can be stopped, its end will be told, and START refuses its name.
KeptUntilReaped ==
    ~crowded =>
        \A p \in DOMAIN proc :
            proc[p].life # "reaped" =>
                \E a \in DOMAIN heap : heap[a].pid = p /\ heap[a].name = proc[p].name

\* So a name means one process, which START's check is there for, unless a
\* sweep has collected two services at once.
OneProcessUnlessCrowded == ~crowded => OneProcessPerName

\* Wild accesses have no other source than the three: a sweep goes through a
\* freed cell only after a RESTART, beyond the vector or through a cell freed
\* twice only after one that collected two services; otherwise the daemon dies
\* while it carries out a START whose command is longer than its buffer.
DiesOnlyWild == ~alive => crowded \/ restarted \/ smashed
=============================================================================
