---------------------------- MODULE ObjectReplies ----------------------------
(***************************************************************************)
(* What a client may rely on of the answers it gets through a sender, from *)
(* however many threads, whatever is late or lost, and whichever commands  *)
(* share a sequence number: a call is answered once, by a result that      *)
(* carries its number and that no other call gets, and the results of one  *)
(* executor under one number are handed out in the order of their          *)
(* commands, so that no call on an object gets an older result of it than  *)
(* a call before it.  Results may be skipped, and a call may get that of   *)
(* another command with its number.                                        *)
(***************************************************************************)
EXTENDS Naturals, Sequences

CONSTANT Executors

VARIABLES
    sequence,  \* sequence[k]: the first command with the number of command k
    executor,  \* executor[k]: the executor command k is for
    got        \* got[k]: the command whose result call k returned, or 0

vars == <<sequence, executor, got>>

Commands == 1..Len(sequence)

Init == sequence = << >> /\ executor = << >> /\ got = << >>

Used(s) == s \in Commands /\ sequence[s] = s

Issue(s, e) ==
    /\ s = Len(sequence) + 1 \/ Used(s)
    /\ sequence' = Append(sequence, s)
    /\ executor' = Append(executor, e)
    /\ got' = Append(got, 0)

Alike(j, k) == sequence[j] = sequence[k] /\ executor[j] = executor[k]
ReturnedLike(r) == {c \in Commands : got[c] # 0 /\ Alike(got[c], r)}

Return(k, r) ==
    /\ got[k] = 0
    /\ sequence[r] = sequence[k]
    /\ \A c \in ReturnedLike(r) : got[c] < r
    /\ got' = [got EXCEPT ![k] = r]
    /\ UNCHANGED <<sequence, executor>>

Next ==
    \/ \E s \in 1..(Len(sequence) + 1), e \in Executors : Issue(s, e)
    \/ \E k, r \in Commands : Return(k, r)

Spec == Init /\ [][Next]_vars
=============================================================================
