------------------------- MODULE SocketSenderProofs -------------------------
(***************************************************************************)
(* What holds of the sender for any number of threads, commands and        *)
(* messages.  A result is filed under the sequence number of its command   *)
(* (FiledUnderItsOwn) and returned to a call with that number, which with  *)
(* the shape of the state is inductive; with it ResultOnce is, and with    *)
(* the order of results on their way (InOrder) the step simulation of      *)
(* ObjectReplies.  Nothing is assumed of the numbers: any may come again.  *)
(***************************************************************************)
EXTENDS SocketSender, SequenceTheorems, TLAPS

\* Cutting messages off the front of the stream leaves messages of the stream.
LEMMA Cut ==
    ASSUME NEW S, NEW q \in Seq(S), NEW n \in 1..Len(q)
    PROVE  /\ SubSeq(q, n + 1, Len(q)) \in Seq(S)
           /\ Len(SubSeq(q, n + 1, Len(q))) = Len(q) - n
           /\ \A i \in 1..Len(q) - n : SubSeq(q, n + 1, Len(q))[i] = q[i + n]
OBVIOUS

-----------------------------------------------------------------------------
(* The shape of the state *)

\* The initial state has the right shape.
LEMMA TypeInit == Init => TypeOK
<1> SUFFICES ASSUME Init PROVE TypeOK
  OBVIOUS
<1>1. /\ sequence \in Seq(Nat \ {0}) /\ caller \in Seq(Threads) /\ got \in Seq(Nat)
      /\ executor \in Seq(Executors) /\ stream \in Seq(Nat) /\ Len(sequence) = 0 /\ Commands = {}
  BY DEF Init, Commands
<1> QED BY <1>1 DEF Init, TypeOK, Response

\* What is read first, if anything is on the stream, is its first message.
LEMMA NotEmpty ==
    ASSUME TypeOK, NEW n \in 1..Len(stream)
    PROVE  1 \in 1..Len(stream) /\ Head(stream) = stream[1]
<1>1. stream \in Seq(Nat)
  BY DEF TypeOK
<1>2. Len(stream) \in Nat /\ stream # << >>
  BY <1>1
<1>3. 1 \in 1..Len(stream)
  BY <1>2
<1> QED BY <1>1, <1>2, <1>3

\* No step of a thread, of the receive thread or of the daemon spoils it.
LEMMA TypeStep == TypeOK /\ [Next]_vars => TypeOK'
<1> SUFFICES ASSUME TypeOK, [Next]_vars PROVE TypeOK'
  OBVIOUS
<1>0. Len(sequence) \in Nat /\ 0 \notin Commands /\ Commands \subseteq Nat
  BY DEF TypeOK, Commands
<1>1. ASSUME NEW t \in Threads, NEW s \in NextSequence, NEW e \in Executors,
             Write(t, s, e) PROVE TypeOK'
  <2> DEFINE k == Len(sequence) + 1
  <2>1. s \in 1..k
    BY <1>0 DEF NextSequence, Commands
  <2>2. /\ sequence' \in Seq(Nat \ {0}) /\ Len(sequence') = k
        /\ Commands' = Commands \cup {k}
        /\ \A j \in Commands : sequence'[j] = sequence[j]
        /\ sequence'[k] = s
    BY <1>1, <2>1, <1>0 DEF Write, TypeOK, Commands
  <2>3. /\ caller' \in Seq(Threads) /\ Len(caller') = k
        /\ executor' \in Seq(Executors) /\ Len(executor') = k
        /\ got' \in Seq(Nat) /\ Len(got') = k
        /\ \A j \in Commands : got'[j] = got[j]
        /\ got'[k] = 0
    BY <1>1, <1>0 DEF Write, TypeOK, Commands
  <2>4. /\ \A j \in Commands' : sequence'[j] \in 1..j
        /\ \A j \in Commands' : got'[j] \in Commands' \cup {0}
    BY <2>1, <2>2, <2>3 DEF TypeOK
  <2>5. /\ pc' \in [Threads -> {"idle", "written", "waiting", "woken"}]
        /\ cmd' \in [Threads -> Nat]
        /\ \A r \in Threads : cmd'[r] \in IF pc'[r] = "idle" THEN {0} ELSE Commands'
    BY <1>1, <2>2, <1>0 DEF Write, TypeOK
  <2>6. daemon' \subseteq Commands' /\ stream' = stream /\ mResult' = mResult
    BY <1>1, <2>2 DEF Write, TypeOK
  <2>7. /\ \A i \in 1..Len(stream) : stream[i] \in Commands' \cup {Response}
        /\ DOMAIN mResult \subseteq Commands'
        /\ mResult \in [DOMAIN mResult -> Commands']
    BY <2>2 DEF TypeOK
  <2> QED BY <2>2, <2>3, <2>4, <2>5, <2>6, <2>7 DEF TypeOK, Response
<1>2. ASSUME NEW t \in Threads, Wait(t) \/ SpuriousWakeup(t) \/ WaitAgain(t) PROVE TypeOK'
  BY <1>2 DEF Wait, SpuriousWakeup, WaitAgain, TypeOK, Commands
<1>3. ASSUME NEW t \in Threads, Timeout(t) PROVE TypeOK'
  BY <1>3 DEF Timeout, AfterTimeout, TypeOK, Commands
<1>4. ASSUME NEW t \in Threads, Take(t) PROVE TypeOK'
  <2>1. PICK s \in Found(sequence[cmd[t]]) :
            /\ got' = [got EXCEPT ![cmd[t]] = mResult[s]]
            /\ mResult' = [r \in LeftAfter(s) |-> mResult[r]]
    BY <1>4 DEF Take
  <2>2. s \in DOMAIN mResult /\ mResult[s] \in Commands
    BY <2>1 DEF Found, TypeOK
  <2>3. /\ got' \in Seq(Nat) /\ Len(got') = Len(got)
        /\ \A k \in Commands : got'[k] \in Commands \cup {0}
    <3>1. cmd[t] \in Commands /\ mResult[s] \in Nat
      BY <1>0, <1>4, <2>2 DEF Take, TypeOK
    <3>2. got \in Seq(Nat) /\ Len(got) = Len(sequence)
      BY DEF TypeOK
    <3>3. got' \in Seq(Nat) /\ Len(got') = Len(got)
      BY <2>1, <3>1, <3>2 DEF Commands
    <3>4. \A k \in Commands : got'[k] \in {got[k], mResult[s]}
      BY <2>1, <3>2 DEF Commands
    <3> QED BY <2>2, <3>3, <3>4 DEF TypeOK
  <2>4. DOMAIN mResult' \subseteq Commands /\ mResult' \in [DOMAIN mResult' -> Commands]
    BY <2>1 DEF TypeOK, LeftAfter
  <2>5. /\ UNCHANGED <<sequence, executor, caller, daemon, stream, Commands>>
        /\ pc' = [pc EXCEPT ![t] = "idle"] /\ cmd' = [cmd EXCEPT ![t] = 0]
    BY <1>4 DEF Take, Commands
  <2> QED BY <2>3, <2>4, <2>5 DEF TypeOK
<1>5. ASSUME NEW n \in 1..Len(stream), Received(n)
      PROVE  /\ stream' \in Seq(Nat)
             /\ \A i \in 1..Len(stream') : stream'[i] \in Commands \cup {Response}
  <2>1. stream \in Seq(Nat) /\ stream' = SubSeq(stream, n + 1, Len(stream))
    BY <1>5 DEF Received, TypeOK
  <2>2. /\ stream' \in Seq(Nat) /\ Len(stream') = Len(stream) - n
        /\ \A i \in 1..Len(stream) - n : stream'[i] = stream[i + n]
    BY <2>1, Cut
  <2>3. \A i \in 1..Len(stream) - n : i + n \in 1..Len(stream)
    BY <2>1
  <2> QED BY <2>2, <2>3 DEF TypeOK
<1>6. ASSUME NEW n \in 1..Len(stream), ReceiveResult(n) PROVE TypeOK'
  <2>1. Head(stream) \in Commands
    <3>1. 1 \in 1..Len(stream) /\ Head(stream) = stream[1]
      BY NotEmpty
    <3> QED BY <1>6, <3>1 DEF ReceiveResult, TypeOK
  <2>2. sequence[Head(stream)] \in Commands
    BY <2>1 DEF TypeOK, Commands
  <2>3. DOMAIN mResult' \subseteq Commands /\ mResult' \in [DOMAIN mResult' -> Commands]
    BY <1>6, <2>1, <2>2 DEF ReceiveResult, Inserted, TypeOK
  <2>4. UNCHANGED <<sequence, executor, caller, got, cmd, daemon, Commands>>
    BY <1>6 DEF ReceiveResult, Commands
  <2>5. /\ pc' \in [Threads -> {"idle", "written", "waiting", "woken"}]
        /\ \A t \in Threads : pc'[t] = "idle" <=> pc[t] = "idle"
    BY <1>6 DEF ReceiveResult, Broadcast, TypeOK
  <2> QED BY <1>5, <1>6, <2>3, <2>4, <2>5 DEF ReceiveResult, TypeOK
<1>7. ASSUME NEW n \in 1..Len(stream), ReceiveResponse(n) PROVE TypeOK'
  <2>1. UNCHANGED <<sequence, executor, caller, got, pc, cmd, daemon, mResult, Commands>>
    BY <1>7 DEF ReceiveResponse, calls, Commands
  <2> QED BY <1>5, <1>7, <2>1 DEF ReceiveResponse, TypeOK
<1>8. ASSUME NEW k \in daemon, Answer(k) PROVE TypeOK'
  <2>1. UNCHANGED <<sequence, executor, caller, got, pc, cmd, mResult, Commands>>
    BY <1>8 DEF Answer, calls, Commands
  <2>2. /\ stream' \in Seq(Nat)
        /\ \A i \in 1..Len(stream') : stream'[i] \in Commands \cup {Response}
    BY <1>0, <1>8 DEF Answer, TypeOK
  <2> QED BY <1>8, <2>1, <2>2 DEF Answer, TypeOK
<1>9. ASSUME NEW k \in daemon, Ignore(k) PROVE TypeOK'
  BY <1>9 DEF Ignore, TypeOK, calls, Commands
<1>10. CASE Respond
  <2>1. UNCHANGED <<sequence, executor, caller, got, pc, cmd, daemon, mResult, Commands>>
    BY <1>10 DEF Respond, calls, Commands
  <2>2. /\ stream' \in Seq(Nat)
        /\ \A i \in 1..Len(stream') : stream'[i] \in Commands \cup {Response}
    <3>1. stream' = Append(stream, Response) /\ stream \in Seq(Nat) /\ Response \in Nat
      BY <1>10 DEF Respond, TypeOK, Response
    <3>2. /\ stream' \in Seq(Nat) /\ Len(stream') = Len(stream) + 1
          /\ \A i \in 1..Len(stream) : stream'[i] = stream[i]
          /\ stream'[Len(stream) + 1] = Response
      BY <3>1, AppendProperties
    <3>3. \A i \in 1..Len(stream) : stream[i] \in Commands \cup {Response}
      BY DEF TypeOK
    <3>4. \A i \in 1..Len(stream') : i \in 1..Len(stream) \/ i = Len(stream) + 1
      BY <3>1, <3>2
    <3> HIDE DEF Response
    <3> QED BY <3>2, <3>3, <3>4
  <2> QED BY <2>1, <2>2 DEF TypeOK
<1>11. CASE UNCHANGED vars
  BY <1>11 DEF vars, calls, TypeOK, Commands
<1> QED
  BY <1>1, <1>2, <1>3, <1>4, <1>6, <1>7, <1>8, <1>9, <1>10, <1>11
  DEF Next, Call, Receive, Daemon

\* Every reachable state of the sender has the shape TypeOK.
THEOREM TypeCorrect == Spec => []TypeOK
BY TypeInit, TypeStep, PTL DEF Spec

\* What writing command k does to the calls.
LEMMA WriteAdds ==
    ASSUME TypeOK, NEW t \in Threads, NEW s \in NextSequence, NEW e \in Executors,
             Write(t, s, e),
           NEW k, k = Len(sequence) + 1
    PROVE  /\ k \in Nat /\ k # 0 /\ k \notin Commands /\ \A j \in Commands : j < k
           /\ Commands' = Commands \cup {k}
           /\ \A j \in Commands :
                 sequence'[j] = sequence[j] /\ caller'[j] = caller[j] /\ got'[j] = got[j]
           /\ sequence'[k] = s /\ caller'[k] = t /\ got'[k] = 0
           /\ s \in 1..k
           /\ \A j \in Commands : executor'[j] = executor[j]
<1>1. /\ executor \in Seq(Executors) /\ Len(executor) = Len(sequence)
      /\ sequence \in Seq(Nat \ {0}) /\ got \in Seq(Nat) /\ caller \in Seq(Threads)
      /\ Len(caller) = Len(sequence) /\ Len(got) = Len(sequence) /\ Len(sequence) \in Nat
  BY DEF TypeOK
<1>2. k \in Nat /\ k # 0 /\ k \notin Commands /\ \A j \in Commands : j < k
  BY <1>1 DEF Commands
<1>3. s \in 1..k /\ s \in Nat \ {0}
  BY <1>1 DEF NextSequence, Commands
<1>4. sequence' = Append(sequence, s) /\ caller' = Append(caller, t) /\ got' = Append(got, 0)
      /\ executor' = Append(executor, e)
  BY DEF Write
<1>5. /\ Len(sequence') = k
      /\ \A j \in 1..Len(sequence) : sequence'[j] = sequence[j]
      /\ sequence'[k] = s
  BY <1>1, <1>3, <1>4, AppendProperties
<1>6. (\A j \in 1..Len(sequence) : caller'[j] = caller[j]) /\ caller'[k] = t
  BY <1>1, <1>4, AppendProperties
<1>7. (\A j \in 1..Len(sequence) : got'[j] = got[j]) /\ got'[k] = 0
  BY <1>1, <1>4, AppendProperties
<1>8. Commands' = Commands \cup {k}
  BY <1>1, <1>5 DEF Commands
<1>9. \A j \in 1..Len(sequence) : executor'[j] = executor[j]
  BY <1>1, <1>4, AppendProperties
<1> QED BY <1>2, <1>3, <1>5, <1>6, <1>7, <1>8, <1>9 DEF Commands

\* Reading n messages takes them, the first at least, off the stream.
LEMMA ReceivedShifts ==
    ASSUME TypeOK, NEW n \in 1..Len(stream), Received(n)
    PROVE  /\ Len(stream') = Len(stream) - n
           /\ \A i \in 1..Len(stream') :
                 /\ i + n \in 1..Len(stream) \ {1}
                 /\ stream'[i] = stream[i + n]
<1>1. stream \in Seq(Nat) /\ stream' = SubSeq(stream, n + 1, Len(stream))
  BY DEF Received, TypeOK
<1>2. /\ Len(stream') = Len(stream) - n
      /\ \A i \in 1..Len(stream) - n : stream'[i] = stream[i + n]
  BY <1>1, Cut
<1>3. Len(stream) \in Nat
  BY <1>1
<1>4. \A i \in 1..Len(stream) - n : i + n \in 1..Len(stream) \ {1}
  BY <1>3
<1> QED BY <1>2, <1>4

\* A message is sent behind those that are on the stream.
LEMMA SentBehind ==
    ASSUME TypeOK, NEW m \in Commands \cup {Response}, stream' = Append(stream, m)
    PROVE  /\ Len(stream') = Len(stream) + 1
           /\ \A i \in 1..Len(stream') :
                 \/ i \in 1..Len(stream) /\ stream'[i] = stream[i]
                 \/ i = Len(stream) + 1 /\ stream'[i] = m
<1>1. stream \in Seq(Nat) /\ m \in Nat
  BY DEF TypeOK, Commands, Response
<1>2. /\ Len(stream') = Len(stream) + 1
      /\ \A i \in 1..Len(stream) : stream'[i] = stream[i]
      /\ stream'[Len(stream) + 1] = m
  BY <1>1, AppendProperties
<1>3. \A i \in 1..Len(stream) + 1 : i \in 1..Len(stream) \/ i = Len(stream) + 1
  BY <1>1
<1> QED BY <1>2, <1>3

-----------------------------------------------------------------------------
(* Whose result a call returns *)

FiledUnderItsOwn == \A s \in DOMAIN mResult : sequence[mResult[s]] = s
ReturnedToItsOwn == \A k \in Commands : got[k] # 0 => sequence[got[k]] = sequence[k]

\* Filing and taking keep results with the sequence number of their commands.
LEMMA ItsOwnStep ==
    TypeOK /\ FiledUnderItsOwn /\ ReturnedToItsOwn /\ [Next]_vars
        => FiledUnderItsOwn' /\ ReturnedToItsOwn'
<1> SUFFICES ASSUME TypeOK, FiledUnderItsOwn, ReturnedToItsOwn, [Next]_vars
             PROVE  FiledUnderItsOwn' /\ ReturnedToItsOwn'
  OBVIOUS
<1>1. ASSUME NEW t \in Threads, NEW s \in NextSequence, NEW e \in Executors,
             Write(t, s, e)
      PROVE  FiledUnderItsOwn' /\ ReturnedToItsOwn'
  <2> DEFINE k == Len(sequence) + 1
  <2>2. /\ Commands' = Commands \cup {k}
        /\ \A j \in Commands : sequence'[j] = sequence[j] /\ got'[j] = got[j]
        /\ got'[k] = 0 /\ mResult' = mResult
    BY <1>1, WriteAdds DEF Write
  <2>3. \A j \in Commands : got[j] \in Commands \cup {0}
    BY DEF TypeOK
  <2>4. \A r \in DOMAIN mResult : mResult[r] \in Commands
    BY DEF TypeOK
  <2> QED BY <2>2, <2>3, <2>4 DEF FiledUnderItsOwn, ReturnedToItsOwn
<1>2. ASSUME NEW t \in Threads, Take(t)
      PROVE  FiledUnderItsOwn' /\ ReturnedToItsOwn'
  <2>1. PICK s \in Found(sequence[cmd[t]]) :
            /\ got' = [got EXCEPT ![cmd[t]] = mResult[s]]
            /\ mResult' = [r \in LeftAfter(s) |-> mResult[r]]
    BY <1>2 DEF Take
  <2>2. s = sequence[cmd[t]] /\ s \in DOMAIN mResult /\ sequence[mResult[s]] = s
    BY <2>1 DEF Found, FiledUnderItsOwn
  <2>3. UNCHANGED <<sequence, Commands>>
    BY <1>2 DEF Take, Commands
  <2>4. FiledUnderItsOwn'
    BY <2>1, <2>3 DEF FiledUnderItsOwn, LeftAfter
  <2>5. \A k \in Commands : got'[k] = IF k = cmd[t] THEN mResult[s] ELSE got[k]
    BY <2>1 DEF TypeOK, Commands
  <2> QED BY <2>2, <2>3, <2>4, <2>5 DEF ReturnedToItsOwn
<1>3. ASSUME NEW n \in 1..Len(stream), ReceiveResult(n)
      PROVE  FiledUnderItsOwn' /\ ReturnedToItsOwn'
  <2>1. UNCHANGED <<sequence, got, Commands>>
    BY <1>3 DEF ReceiveResult, Commands
  <2>2. mResult' = Inserted(sequence[Head(stream)], Head(stream))
    BY <1>3 DEF ReceiveResult
  <2> QED BY <2>1, <2>2 DEF FiledUnderItsOwn, ReturnedToItsOwn, Inserted
<1>4. CASE UNCHANGED <<sequence, got, mResult>>
  BY <1>4 DEF FiledUnderItsOwn, ReturnedToItsOwn, Commands
<1>5. CASE \/ \E t \in Threads : Wait(t) \/ SpuriousWakeup(t) \/ WaitAgain(t) \/ Timeout(t)
           \/ \E n \in 1..Len(stream) : ReceiveResponse(n)
           \/ Daemon
           \/ UNCHANGED vars
  <2>1. UNCHANGED <<sequence, got, mResult>>
    BY <1>5 DEF Wait, SpuriousWakeup, WaitAgain, Timeout, ReceiveResponse, Daemon, Respond,
                Answer, Ignore, vars, calls
  <2> QED BY <1>4, <2>1
<1> QED BY <1>1, <1>2, <1>3, <1>5 DEF Next, Call, Receive

-----------------------------------------------------------------------------
(* How often a result is returned *)

\* ResultOnce of one command, element by element.
Once(k) ==
    /\ \A i, j \in 1..Len(stream) : stream[i] = k /\ stream[j] = k => i = j
    /\ \A c, d \in Commands : got[c] = k /\ got[d] = k => c = d
    /\ \A i \in 1..Len(stream) : stream[i] = k => k \notin daemon
    /\ \A s \in DOMAIN mResult :
          mResult[s] = k => /\ k \notin daemon
                            /\ \A i \in 1..Len(stream) : stream[i] # k
                            /\ \A c \in Commands : got[c] # k
    /\ \A c \in Commands :
          got[c] = k => k \notin daemon /\ \A i \in 1..Len(stream) : stream[i] # k

OnceInv == \A k \in Commands : Once(k)

\* Once says of each command what ResultOnce says with sets.
LEMMA OnceMeans == OnceInv => ResultOnce
<1> SUFFICES ASSUME OnceInv, NEW k \in Commands
             PROVE  /\ \A i, j \in InStream(k) : i = j
                    /\ \A c, d \in ReturnedBy(k) : c = d
                    /\ k \in daemon => InStream(k) = {}
                    /\ k \in daemon \/ InStream(k) # {}
                          => FiledUnder(k) = {} /\ ReturnedBy(k) = {}
                    /\ FiledUnder(k) # {} => ReturnedBy(k) = {}
  BY DEF ResultOnce
<1>1. Once(k)
  BY DEF OnceInv
<1> QED BY <1>1 DEF Once, InStream, ReturnedBy, FiledUnder

\* Writing, answering, filing and taking move a result on and leave no copy.
LEMMA OnceStep ==
    TypeOK /\ FiledUnderItsOwn /\ OnceInv /\ [Next]_vars => OnceInv'
<1> SUFFICES ASSUME TypeOK, FiledUnderItsOwn, OnceInv, [Next]_vars PROVE OnceInv'
  OBVIOUS
<1>0. /\ \A i \in 1..Len(stream) : stream[i] \in Commands \cup {Response}
      /\ \A r \in DOMAIN mResult : mResult[r] \in Commands
      /\ \A c \in Commands : got[c] \in Commands \cup {0}
      /\ daemon \subseteq Commands /\ Response \notin Commands /\ Response = 0
      /\ Len(sequence) \in Nat /\ Len(sequence) + 1 \notin Commands
  BY DEF TypeOK, Commands, Response
<1>1. ASSUME NEW t \in Threads, NEW s \in NextSequence, NEW e \in Executors,
             Write(t, s, e) PROVE OnceInv'
  <2>0. PICK new : new = Len(sequence) + 1
    OBVIOUS
  <2>2. /\ Commands' = Commands \cup {new}
        /\ \A j \in Commands : got'[j] = got[j]
        /\ got'[new] = 0
        /\ stream' = stream /\ mResult' = mResult /\ daemon' = daemon \cup {new}
    <3>1. /\ Commands' = Commands \cup {new}
          /\ \A j \in Commands : got'[j] = got[j]
          /\ got'[new] = 0 /\ sequence'[new] = s
      BY <1>1, <2>0, WriteAdds
    <3>2. Len(sequence') = new
      BY <1>1, <2>0 DEF Write, TypeOK
    <3> QED BY <1>1, <3>1, <3>2 DEF Write
  <2>3. ASSUME NEW k \in Commands PROVE Once(k)'
    <3>1. Once(k) /\ k # new /\ k # 0
      BY <1>0, <2>0 DEF OnceInv
    <3> QED BY <2>2, <3>1 DEF Once
  <2>4. Once(new)'
    <3>1. new # 0 /\ new \notin Commands
      BY <1>0, <2>0
    <3>2. \A i \in 1..Len(stream) : stream[i] # new
      BY <1>0, <3>1
    <3>3. \A r \in DOMAIN mResult : mResult[r] # new
      BY <1>0, <3>1
    <3>4. \A c \in Commands' : got'[c] # new
      BY <1>0, <2>2, <3>1
    <3> QED BY <2>2, <3>2, <3>3, <3>4 DEF Once
  <2> QED BY <2>2, <2>3, <2>4 DEF OnceInv
<1>2. ASSUME NEW t \in Threads, Take(t) PROVE OnceInv'
  <2>1. PICK s \in Found(sequence[cmd[t]]) :
            /\ got' = [got EXCEPT ![cmd[t]] = mResult[s]]
            /\ mResult' = [r \in LeftAfter(s) |-> mResult[r]]
    BY <1>2 DEF Take
  <2>2. s \in DOMAIN mResult
    BY <2>1 DEF Found
  <2>3. UNCHANGED <<stream, daemon, Commands>>
    BY <1>2 DEF Take, Commands
  <2>4. \A c \in Commands : got'[c] = IF c = cmd[t] THEN mResult[s] ELSE got[c]
    BY <2>1 DEF TypeOK, Commands
  <2>5. /\ DOMAIN mResult' = DOMAIN mResult \ {s}
        /\ \A r \in DOMAIN mResult' : mResult'[r] = mResult[r] /\ mResult[r] # mResult[s]
    BY <2>1, <2>2 DEF LeftAfter, FiledUnderItsOwn
  <2>6. ASSUME NEW k \in Commands PROVE Once(k)'
    <3>1. Once(k)
      BY DEF OnceInv
    <3>2. CASE k = mResult[s]
      BY <2>2, <2>3, <2>4, <2>5, <3>1, <3>2 DEF Once
    <3>3. CASE k # mResult[s]
      BY <2>3, <2>4, <2>5, <3>1, <3>3 DEF Once
    <3> QED BY <3>2, <3>3
  <2> QED BY <2>3, <2>6 DEF OnceInv
<1>4. ASSUME NEW n \in 1..Len(stream), ReceiveResult(n) PROVE OnceInv'
  <2> DEFINE h == Head(stream)
  <2>1. /\ Len(stream') = Len(stream) - n
        /\ \A i \in 1..Len(stream') :
              i + n \in 1..Len(stream) \ {1} /\ stream'[i] = stream[i + n]
    BY <1>4, ReceivedShifts DEF ReceiveResult
  <2>2. UNCHANGED <<got, daemon, Commands>>
    BY <1>4 DEF ReceiveResult, Commands
  <2>3. /\ 1 \in 1..Len(stream) /\ h = stream[1]
    BY DEF TypeOK
  <2>4. \A r \in DOMAIN mResult' :
            \/ r \in DOMAIN mResult /\ mResult'[r] = mResult[r]
            \/ mResult'[r] = h
    BY <1>4 DEF ReceiveResult, Inserted
  <2>5. Len(stream) \in Nat /\ Len(stream') \in Nat
    BY <2>1 DEF TypeOK
  <2>6. ASSUME NEW k \in Commands PROVE Once(k)'
    <3>1. Once(k)
      BY DEF OnceInv
    <3> HIDE DEF h
    <3>2. \A i \in 1..Len(stream') :
              stream'[i] = k => k \notin daemon /\ \A c \in Commands : got[c] # k
      BY <2>1, <3>1 DEF Once
    <3>3. \A i, j \in 1..Len(stream') : stream'[i] = k /\ stream'[j] = k => i = j
      <4> SUFFICES ASSUME NEW i \in 1..Len(stream'), NEW j \in 1..Len(stream'),
                          stream'[i] = k, stream'[j] = k
                   PROVE  i = j
        OBVIOUS
      <4>1. i + n = j + n
        BY <2>1, <3>1 DEF Once
      <4> QED BY <2>5, <4>1
    <3>4. h = k => \A i \in 1..Len(stream') : stream'[i] # k
      BY <2>1, <2>3, <3>1 DEF Once
    <3>5. h = k => k \notin daemon /\ \A c \in Commands : got[c] # k
      BY <2>3, <3>1 DEF Once
    <3>6. \A r \in DOMAIN mResult' :
              mResult'[r] = k => /\ k \notin daemon
                                 /\ \A i \in 1..Len(stream') : stream'[i] # k
                                 /\ \A c \in Commands : got[c] # k
      BY <2>1, <2>4, <3>1, <3>4, <3>5 DEF Once
    <3>7. \A c \in Commands :
              got[c] = k => k \notin daemon /\ \A i \in 1..Len(stream') : stream'[i] # k
      BY <3>1, <3>2 DEF Once
    <3> QED BY <2>2, <3>1, <3>2, <3>3, <3>6, <3>7 DEF Once
  <2> QED BY <2>2, <2>6 DEF OnceInv
<1>5. ASSUME NEW n \in 1..Len(stream), ReceiveResponse(n) PROVE OnceInv'
  <2>1. /\ Len(stream') = Len(stream) - n
        /\ \A i \in 1..Len(stream') :
              i + n \in 1..Len(stream) \ {1} /\ stream'[i] = stream[i + n]
    BY <1>5, ReceivedShifts DEF ReceiveResponse
  <2>2. UNCHANGED <<got, daemon, mResult, Commands>>
    BY <1>5 DEF ReceiveResponse, calls, Commands
  <2>5. Len(stream) \in Nat /\ Len(stream') \in Nat
    BY <2>1 DEF TypeOK
  <2>6. ASSUME NEW k \in Commands PROVE Once(k)'
    <3>1. Once(k)
      BY DEF OnceInv
    <3>3. \A i, j \in 1..Len(stream') : stream'[i] = k /\ stream'[j] = k => i = j
      <4> SUFFICES ASSUME NEW i \in 1..Len(stream'), NEW j \in 1..Len(stream'),
                          stream'[i] = k, stream'[j] = k
                   PROVE  i = j
        OBVIOUS
      <4>1. i + n = j + n
        BY <2>1, <3>1 DEF Once
      <4> QED BY <2>5, <4>1
    <3> QED BY <2>1, <2>2, <3>1, <3>3 DEF Once
  <2> QED BY <2>2, <2>6 DEF OnceInv
<1>7. ASSUME NEW m \in daemon, Answer(m) PROVE OnceInv'
  <2>1. \A i \in 1..Len(stream') :
            \/ i \in 1..Len(stream) /\ stream'[i] = stream[i]
            \/ i = Len(stream) + 1 /\ stream'[i] = m
    BY <1>0, <1>7, SentBehind DEF Answer
  <2>2. UNCHANGED <<got, mResult, Commands>> /\ daemon' = daemon \ {m}
    BY <1>7 DEF Answer, calls, Commands
  <2>3. Once(m)
    BY <1>0 DEF OnceInv
  <2>4. ASSUME NEW k \in Commands PROVE Once(k)'
    <3>1. Once(k)
      BY DEF OnceInv
    <3>2. CASE k = m
      BY <2>1, <2>2, <2>3, <3>2 DEF Once
    <3>3. CASE k # m
      BY <2>1, <2>2, <3>1, <3>3 DEF Once
    <3> QED BY <3>2, <3>3
  <2> QED BY <2>2, <2>4 DEF OnceInv
<1>8. CASE Respond
  <2>1. \A i \in 1..Len(stream') :
            \/ i \in 1..Len(stream) /\ stream'[i] = stream[i]
            \/ i = Len(stream) + 1 /\ stream'[i] = Response
    BY <1>8, SentBehind DEF Respond
  <2>2. UNCHANGED <<got, mResult, daemon, Commands>>
    BY <1>8 DEF Respond, calls, Commands
  <2>4. ASSUME NEW k \in Commands PROVE Once(k)'
    <3>1. Once(k) /\ k # Response
      BY <1>0 DEF OnceInv
    <3> HIDE DEF Response
    <3> QED BY <2>1, <2>2, <3>1 DEF Once
  <2> QED BY <2>2, <2>4 DEF OnceInv
<1>9. ASSUME NEW m \in daemon, Ignore(m) PROVE OnceInv'
  BY <1>9 DEF Ignore, calls, OnceInv, Once, Commands
<1>10. CASE \/ \E t \in Threads : Wait(t) \/ SpuriousWakeup(t) \/ WaitAgain(t) \/ Timeout(t)
            \/ UNCHANGED vars
  <2>1. UNCHANGED <<stream, got, mResult, daemon, Commands>>
    BY <1>10 DEF Wait, SpuriousWakeup, WaitAgain, Timeout, vars, calls, Commands
  <2> QED BY <2>1 DEF OnceInv, Once
<1> QED BY <1>1, <1>2, <1>4, <1>5, <1>7, <1>8, <1>9, <1>10 DEF Next, Call, Receive, Daemon

\* Every result is returned by at most one call and once, for any number of
\* threads, however many messages a recvmsg swallows.
THEOREM ReturnedOnce == Spec => []ResultOnce
<1>1. Init => FiledUnderItsOwn /\ ReturnedToItsOwn /\ OnceInv
  BY DEF Init, FiledUnderItsOwn, ReturnedToItsOwn, OnceInv, Commands
<1>2. Spec => [](FiledUnderItsOwn /\ ReturnedToItsOwn /\ OnceInv)
  BY <1>1, ItsOwnStep, OnceStep, TypeCorrect, PTL DEF Spec
<1> QED BY <1>2, OnceMeans, PTL

-----------------------------------------------------------------------------
(* Who makes a call *)

\* A thread makes one call at a time: the command it waits for is its own, has
\* returned nothing yet, and is the last the thread has written.
CallingOne ==
    \A t \in Threads :
        cmd[t] # 0 => /\ caller[cmd[t]] = t /\ got[cmd[t]] = 0
                      /\ \A j \in Commands : caller[j] = t => j <= cmd[t]

\* Writing begins a call, and taking and timing out end it.
LEMMA CallingStep == TypeOK /\ CallingOne /\ [Next]_vars => CallingOne'
<1> SUFFICES ASSUME TypeOK, CallingOne, [Next]_vars PROVE CallingOne'
  OBVIOUS
<1>0. \A t \in Threads : cmd[t] # 0 => cmd[t] \in Commands
  BY DEF TypeOK
<1>1. ASSUME NEW t \in Threads, NEW s \in NextSequence, NEW e \in Executors,
             Write(t, s, e) PROVE CallingOne'
  <2>0. PICK new : new = Len(sequence) + 1
    OBVIOUS
  <2>1. /\ new \notin Commands /\ Commands' = Commands \cup {new}
        /\ \A j \in Commands : caller'[j] = caller[j] /\ got'[j] = got[j] /\ j < new
        /\ caller'[new] = t /\ got'[new] = 0 /\ new \in Nat /\ new # 0
    BY <1>1, <2>0, WriteAdds
  <2>2. cmd' = [cmd EXCEPT ![t] = new]
    <3>1. Len(sequence') = new
      BY <1>1, <2>0 DEF Write, TypeOK
    <3> QED BY <1>1, <3>1 DEF Write
  <2>3. \A u \in Threads : cmd'[u] = IF u = t THEN new ELSE cmd[u]
    BY <2>2 DEF TypeOK
  <2>4. \A j \in Commands' : j <= new
    BY <2>1 DEF Commands
  <2>5. ASSUME NEW u \in Threads, cmd'[u] # 0
        PROVE  /\ caller'[cmd'[u]] = u /\ got'[cmd'[u]] = 0
               /\ \A j \in Commands' : caller'[j] = u => j <= cmd'[u]
    <3>1. CASE u = t
      BY <2>1, <2>3, <2>4, <3>1
    <3>2. CASE u # t
      <4>1. cmd'[u] = cmd[u] /\ cmd[u] \in Commands
        BY <1>0, <2>3, <2>5, <3>2
      <4>2. /\ caller[cmd[u]] = u /\ got[cmd[u]] = 0
            /\ \A j \in Commands : caller[j] = u => j <= cmd[u]
        BY <2>5, <4>1 DEF CallingOne
      <4> QED BY <2>1, <3>2, <4>1, <4>2
    <3> QED BY <3>1, <3>2
  <2> QED BY <2>5 DEF CallingOne
<1>2. ASSUME NEW t \in Threads, Take(t) PROVE CallingOne'
  <2>1. PICK r : got' = [got EXCEPT ![cmd[t]] = r]
    BY <1>2 DEF Take
  <2>2. /\ \A c \in Commands : c # cmd[t] => got'[c] = got[c]
        /\ \A u \in Threads : cmd'[u] = IF u = t THEN 0 ELSE cmd[u]
        /\ UNCHANGED <<caller, Commands>>
    BY <1>2, <2>1 DEF Take, TypeOK, Commands
  <2>3. cmd[t] # 0
    BY <1>2 DEF Take, TypeOK, Commands
  <2>4. \A u \in Threads \ {t} : cmd[u] # 0 => cmd[u] # cmd[t]
    BY <2>3 DEF CallingOne
  <2> QED BY <1>0, <2>2, <2>4 DEF CallingOne
<1>3. ASSUME NEW t \in Threads, Timeout(t) PROVE CallingOne'
  <2>1. /\ \A u \in Threads : cmd'[u] = IF u = t THEN 0 ELSE cmd[u]
        /\ UNCHANGED <<caller, got, Commands>>
    BY <1>3 DEF Timeout, AfterTimeout, TypeOK, Commands
  <2> QED BY <2>1 DEF CallingOne
<1>4. CASE \/ \E t \in Threads : Wait(t) \/ SpuriousWakeup(t) \/ WaitAgain(t)
           \/ Receive \/ Daemon \/ UNCHANGED vars
  <2>1. UNCHANGED <<caller, got, cmd, Commands>>
    BY <1>4 DEF Wait, SpuriousWakeup, WaitAgain, Receive, ReceiveResult, ReceiveResponse,
                Daemon, Respond, Answer, Ignore, vars, calls, Commands
  <2> QED BY <2>1 DEF CallingOne
<1> QED BY <1>1, <1>2, <1>3, <1>4 DEF Next, Call

\* A result that is filed was returned by no call.
LEMMA FiledNotReturned ==
    ASSUME OnceInv, NEW s \in DOMAIN mResult, mResult[s] \in Commands, NEW c \in Commands
    PROVE  got[c] # mResult[s]
BY DEF OnceInv, Once

\* A call gets a result that is not its own only behind a call that gave up.
LEMMA OwnStep ==
    TypeOK /\ FiledUnderItsOwn /\ OnceInv /\ CallingOne /\ OwnUntilTimeout /\ [Next]_vars
        => OwnUntilTimeout'
<1> SUFFICES ASSUME TypeOK, FiledUnderItsOwn, OnceInv, CallingOne, OwnUntilTimeout, [Next]_vars
             PROVE  OwnUntilTimeout'
  OBVIOUS
<1> DEFINE GaveUp(i, k) == sequence[i] = sequence[k] /\ got[i] = 0 /\ Returned(i)
<1>0. /\ \A t \in Threads : cmd[t] # 0 => cmd[t] \in Commands
      /\ Commands \subseteq Nat
      /\ \A k \in Commands : \A i \in 1..(k - 1) : i \in Commands
  BY DEF TypeOK, Commands
<1>1. ASSUME NEW t \in Threads, NEW s \in NextSequence, NEW e \in Executors,
             Write(t, s, e) PROVE OwnUntilTimeout'
  <2>0. PICK new : new = Len(sequence) + 1
    OBVIOUS
  <2>1. /\ new \notin Commands /\ Commands' = Commands \cup {new}
        /\ \A j \in Commands : /\ sequence'[j] = sequence[j]
                               /\ caller'[j] = caller[j] /\ got'[j] = got[j]
        /\ got'[new] = 0
    BY <1>1, <2>0, WriteAdds
  <2>2. \A u \in Threads : cmd'[u] \in {cmd[u], new}
    <3>1. Len(sequence') = new
      BY <1>1, <2>0 DEF Write, TypeOK
    <3> QED BY <1>1, <3>1 DEF Write, TypeOK
  <2>3. ASSUME NEW k \in Commands', OneCaller(k)', got'[k] \notin {0, k}
        PROVE  \E i \in 1..(k - 1) : GaveUp(i, k)'
    <3>1. k \in Commands /\ got[k] \notin {0, k} /\ OneCaller(k)
      BY <2>1, <2>3 DEF OneCaller
    <3>2. PICK i \in 1..(k - 1) : GaveUp(i, k)
      BY <3>1 DEF OwnUntilTimeout
    <3>3. i \in Commands
      BY <1>0, <3>1
    <3>4. sequence'[i] = sequence'[k] /\ got'[i] = 0
      BY <2>1, <3>1, <3>2, <3>3
    <3>5. Returned(i)'
      BY <2>1, <2>2, <3>2, <3>3 DEF Returned
    <3> QED BY <3>4, <3>5
  <2> QED BY <2>3 DEF OwnUntilTimeout
<1>2. ASSUME NEW t \in Threads, Take(t) PROVE OwnUntilTimeout'
  <2>0. PICK m : m = cmd[t]
    OBVIOUS
  <2>1. PICK s \in Found(sequence[m]) : got' = [got EXCEPT ![m] = mResult[s]]
    BY <1>2, <2>0 DEF Take
  <2>2. /\ s \in DOMAIN mResult /\ s = sequence[m] /\ mResult[s] \in Commands
        /\ sequence[mResult[s]] = sequence[m]
    BY <2>1 DEF Found, FiledUnderItsOwn, TypeOK
  <2>3. /\ \A u \in Threads : cmd'[u] = IF u = t THEN 0 ELSE cmd[u]
        /\ UNCHANGED <<sequence, executor, caller, Commands>>
    BY <1>2 DEF Take, TypeOK, Commands
  <2>4. m \in Commands /\ m # 0 /\ caller[m] = t /\ \A j \in Commands : caller[j] = t => j <= m
    <3>1. m \in Commands
      BY <1>2, <2>0 DEF Take, TypeOK
    <3>2. m # 0
      BY <3>1 DEF Commands
    <3> QED BY <2>0, <3>1, <3>2 DEF CallingOne
  <2>5. \A c \in Commands : got'[c] = IF c = m THEN mResult[s] ELSE got[c]
    <3>1. got \in Seq(Nat) /\ Len(got) = Len(sequence)
      BY DEF TypeOK
    <3> QED BY <2>1, <2>4, <3>1 DEF Commands
  <2>6. \A i \in Commands : Returned(i) => Returned(i)' /\ i # m
    <3>1. \A i \in Commands : i # 0
      BY DEF Commands
    <3> QED BY <2>0, <2>3, <3>1 DEF Returned
  <2>7. ASSUME NEW k \in Commands, NEW i \in 1..(k - 1), GaveUp(i, k) PROVE GaveUp(i, k)'
    <3>1. i \in Commands
      BY <1>0
    <3> QED BY <2>3, <2>5, <2>6, <2>7, <3>1
  <2>8. ASSUME NEW k \in Commands, OneCaller(k), got'[k] \notin {0, k}, k # m
        PROVE  \E i \in 1..(k - 1) : GaveUp(i, k)'
    <3>1. got[k] \notin {0, k}
      BY <2>5, <2>8
    <3>2. PICK i \in 1..(k - 1) : GaveUp(i, k)
      BY <2>8, <3>1 DEF OwnUntilTimeout
    <3> QED BY <2>7, <3>2
  <2>9. ASSUME OneCaller(m), mResult[s] # m
        PROVE  \E i \in 1..(m - 1) : GaveUp(i, m)'
    <3>0. PICK r : r = mResult[s]
      OBVIOUS
    <3>1. r \in Commands /\ sequence[r] = sequence[m] /\ caller[r] = t /\ r < m
      <4>1. r \in Commands /\ sequence[r] = sequence[m] /\ r # m
        BY <2>2, <2>9, <3>0
      <4>2. caller[r] = t
        BY <2>4, <2>9, <4>1 DEF OneCaller
      <4>3. r <= m /\ r \in Nat /\ m \in Nat
        BY <1>0, <2>4, <4>1, <4>2
      <4> QED BY <4>1, <4>2, <4>3
    <3>2. got[r] # r
      BY <2>2, <3>0, <3>1, FiledNotReturned
    <3>3. CASE got[r] = 0
      <4>1. ASSUME NEW u \in Threads PROVE cmd[u] # r
        <5>1. CASE u = t
          <6>1. r \in Nat /\ m \in Nat
            BY <1>0, <2>4, <3>1
          <6>2. cmd[u] = m /\ r < m
            BY <2>0, <3>1, <5>1
          <6> QED BY <6>1, <6>2
        <5>2. CASE u # t
          <6>1. r # 0
            BY <3>1 DEF Commands
          <6> QED BY <3>1, <5>2, <6>1 DEF CallingOne
        <5> QED BY <5>1, <5>2
      <4>2. GaveUp(r, m)
        BY <3>1, <3>3, <4>1 DEF Returned
      <4>3. r \in 1..(m - 1)
        BY <2>4, <3>1 DEF Commands
      <4> QED BY <2>4, <2>7, <4>2, <4>3
    <3>4. CASE got[r] # 0
      <4>1. OneCaller(r)
        BY <2>4, <2>9, <3>1 DEF OneCaller
      <4>2. PICK i \in 1..(r - 1) : GaveUp(i, r)
        BY <3>1, <3>2, <3>4, <4>1 DEF OwnUntilTimeout
      <4>3. i \in 1..(m - 1) /\ GaveUp(i, m)
        BY <1>0, <2>4, <3>1, <4>2
      <4> QED BY <2>4, <2>7, <4>3
    <3> QED BY <3>3, <3>4
  <2>10. ASSUME NEW k \in Commands', OneCaller(k)', got'[k] \notin {0, k}
         PROVE  \E i \in 1..(k - 1) : GaveUp(i, k)'
    <3>1. k \in Commands /\ OneCaller(k)
      BY <2>3, <2>10 DEF OneCaller
    <3>2. CASE k # m
      BY <2>8, <2>10, <3>1, <3>2
    <3>3. CASE k = m
      <4>1. mResult[s] # m
        BY <2>5, <2>10, <3>1, <3>3
      <4> QED BY <2>9, <3>1, <3>3, <4>1
    <3> QED BY <3>2, <3>3
  <2> QED BY <2>10 DEF OwnUntilTimeout
<1>3. ASSUME NEW t \in Threads, Timeout(t) PROVE OwnUntilTimeout'
  <2>1. /\ \A u \in Threads : cmd'[u] \in {0, cmd[u]}
        /\ UNCHANGED <<sequence, executor, caller, got, Commands>>
    BY <1>3 DEF Timeout, AfterTimeout, TypeOK, Commands
  <2>2. \A k \in Commands : \A i \in 1..(k - 1) : Returned(i) => Returned(i)'
    <3>1. \A k \in Commands : \A i \in 1..(k - 1) : i # 0
      BY DEF Commands
    <3> QED BY <2>1, <3>1 DEF Returned
  <2>3. \A k \in Commands : OneCaller(k)' => OneCaller(k)
    BY <2>1 DEF OneCaller
  <2> QED BY <2>1, <2>2, <2>3 DEF OwnUntilTimeout
<1>4. CASE \/ \E t \in Threads : Wait(t) \/ SpuriousWakeup(t) \/ WaitAgain(t)
           \/ Receive \/ Daemon \/ UNCHANGED vars
  <2>1. UNCHANGED <<sequence, executor, caller, got, cmd, Commands>>
    BY <1>4 DEF Wait, SpuriousWakeup, WaitAgain, Receive, ReceiveResult, ReceiveResponse,
                Daemon, Respond, Answer, Ignore, vars, calls, Commands
  <2> QED BY <2>1 DEF OwnUntilTimeout, OneCaller, Returned
<1> QED BY <1>1, <1>2, <1>3, <1>4 DEF Next, Call

\* As long as one thread uses an object, a call on it gets the result of an
\* earlier command only if an earlier call on it has timed out.
THEOREM OwnBeforeTimeout == Spec => []OwnUntilTimeout
<1>1. Init => FiledUnderItsOwn /\ ReturnedToItsOwn /\ OnceInv /\ CallingOne /\ OwnUntilTimeout
  BY DEF Init, FiledUnderItsOwn, ReturnedToItsOwn, OnceInv, CallingOne, OwnUntilTimeout, Commands
<1> QED BY <1>1, ItsOwnStep, OnceStep, CallingStep, OwnStep, TypeCorrect, PTL DEF Spec

-----------------------------------------------------------------------------
(* In what order results are returned *)

Filed(k) == \E s \in DOMAIN mResult : mResult[s] = k
Streamed(k) == \E i \in 1..Len(stream) : stream[i] = k
Given(k) == \E c \in Commands : got[c] = k

\* The result of command j is further on its way than that of command k.
Ahead(j, k) ==
    \/ Given(j) /\ (Filed(k) \/ Streamed(k) \/ k \in daemon)
    \/ Filed(j) /\ (Streamed(k) \/ k \in daemon)
    \/ Streamed(j) /\ k \in daemon
    \/ \E a, b \in 1..Len(stream) : a < b /\ stream[a] = j /\ stream[b] = k

\* The results of an executor under one number do not overtake each other.
InOrder == \A j, k \in Commands : Alike(j, k) /\ Ahead(j, k) => j < k

\* What taking a result does.
LEMMA TakeGives ==
    ASSUME TypeOK, NEW t \in Threads, Take(t)
    PROVE  \E s \in DOMAIN mResult :
              /\ cmd[t] \in Commands /\ s = sequence[cmd[t]] /\ mResult[s] \in Commands
              /\ got' = [got EXCEPT ![cmd[t]] = mResult[s]]
              /\ \A c \in Commands : got'[c] = IF c = cmd[t] THEN mResult[s] ELSE got[c]
              /\ DOMAIN mResult' = DOMAIN mResult \ {s}
              /\ \A r \in DOMAIN mResult' : mResult'[r] = mResult[r]
              /\ UNCHANGED <<sequence, executor, daemon, stream, Commands>>
<1>1. PICK s \in Found(sequence[cmd[t]]) :
          /\ got' = [got EXCEPT ![cmd[t]] = mResult[s]]
          /\ mResult' = [r \in LeftAfter(s) |-> mResult[r]]
  BY DEF Take
<1>2. s \in DOMAIN mResult /\ s = sequence[cmd[t]] /\ mResult[s] \in Commands
  BY <1>1 DEF Found, TypeOK
<1>3. cmd[t] \in Commands
  BY DEF Take, TypeOK
<1>4. got \in Seq(Nat) /\ Len(got) = Len(sequence)
  BY DEF TypeOK
<1>5. \A c \in Commands : got'[c] = IF c = cmd[t] THEN mResult[s] ELSE got[c]
  BY <1>1, <1>4 DEF Commands
<1>6. DOMAIN mResult' = DOMAIN mResult \ {s} /\ \A r \in DOMAIN mResult' : mResult'[r] = mResult[r]
  BY <1>1 DEF LeftAfter
<1>7. UNCHANGED <<sequence, executor, daemon, stream, Commands>>
  BY DEF Take, Commands
<1> QED BY <1>1, <1>2, <1>3, <1>5, <1>6, <1>7

\* Every step keeps the order: the daemon answers the first command of an
\* object, the receive thread files the first message, and what is taken was
\* the only result filed for its object.
LEMMA OrderStep == TypeOK /\ FiledUnderItsOwn /\ InOrder /\ [Next]_vars => InOrder'
<1> SUFFICES ASSUME TypeOK, FiledUnderItsOwn, InOrder, [Next]_vars,
                    NEW j \in Commands', NEW k \in Commands',
                    Alike(j, k)', Ahead(j, k)'
             PROVE  j < k
  BY DEF InOrder
<1>0. /\ \A i \in 1..Len(stream) : stream[i] \in Commands \cup {Response}
      /\ \A r \in DOMAIN mResult : mResult[r] \in Commands
      /\ \A c \in Commands : got[c] \in Commands \cup {0}
      /\ daemon \subseteq Commands /\ 0 \notin Commands /\ Response = 0
  BY DEF TypeOK, Commands, Response
<1>1. ASSUME j \in Commands, k \in Commands, Alike(j, k), Ahead(j, k)
      PROVE  j < k
  BY <1>1 DEF InOrder
<1>2. ASSUME NEW t \in Threads, NEW s \in NextSequence, NEW e \in Executors,
             Write(t, s, e) PROVE j < k
  <2>0. PICK new : new = Len(sequence) + 1
    OBVIOUS
  <2>1. /\ new \notin Commands /\ Commands' = Commands \cup {new} /\ new # 0
        /\ \A c \in Commands : sequence'[c] = sequence[c] /\ got'[c] = got[c] /\ c < new
        /\ \A c \in Commands : executor'[c] = executor[c]
        /\ got'[new] = 0
    BY <1>2, <2>0, WriteAdds
  <2>2. daemon' = daemon \cup {new} /\ stream' = stream /\ mResult' = mResult
    <3>1. Len(sequence') = new
      BY <1>2, <2>0 DEF Write, TypeOK
    <3> QED BY <1>2, <3>1 DEF Write
  <2>3. \A c \in Commands' : /\ Given(c)' => Given(c) /\ c \in Commands
                             /\ Filed(c)' => Filed(c) /\ c \in Commands
                             /\ Streamed(c)' => Streamed(c) /\ c \in Commands
    <3>1. \A c \in Commands' : c # 0
      BY <1>0, <2>1
    <3>2. \A c \in Commands' : Given(c)' => Given(c) /\ c \in Commands
      BY <1>0, <2>1, <3>1 DEF Given
    <3>3. \A c : Filed(c)' => Filed(c) /\ c \in Commands
      BY <1>0, <2>2 DEF Filed
    <3>4. \A c \in Commands' : Streamed(c)' => Streamed(c) /\ c \in Commands
      BY <1>0, <2>2, <3>1 DEF Streamed
    <3> QED BY <3>2, <3>3, <3>4
  <2>4. j \in Commands
    BY <2>2, <2>3 DEF Ahead, Streamed
  <2>5. CASE k = new
    BY <2>1, <2>4, <2>5
  <2>6. CASE k # new
    <3>1. k \in Commands /\ Alike(j, k)
      BY <2>1, <2>4, <2>6 DEF Alike
    <3>2. Ahead(j, k)
      BY <2>2, <2>3, <2>6 DEF Ahead
    <3> QED BY <1>1, <2>4, <3>1, <3>2
  <2> QED BY <2>5, <2>6
<1>3. ASSUME NEW t \in Threads, Take(t) PROVE j < k
  <2>0. PICK s \in DOMAIN mResult :
            /\ cmd[t] \in Commands /\ s = sequence[cmd[t]] /\ mResult[s] \in Commands
            /\ got' = [got EXCEPT ![cmd[t]] = mResult[s]]
            /\ \A c \in Commands : got'[c] = IF c = cmd[t] THEN mResult[s] ELSE got[c]
            /\ DOMAIN mResult' = DOMAIN mResult \ {s}
            /\ \A r \in DOMAIN mResult' : mResult'[r] = mResult[r]
            /\ UNCHANGED <<sequence, executor, daemon, stream, Commands>>
    BY <1>3, TakeGives, ZenonT(20)
  <2>1. /\ mResult[s] \in Commands
        /\ \A c \in Commands : got'[c] = IF c = cmd[t] THEN mResult[s] ELSE got[c]
        /\ DOMAIN mResult' = DOMAIN mResult \ {s}
        /\ \A r \in DOMAIN mResult' : mResult'[r] = mResult[r]
        /\ UNCHANGED <<sequence, executor, daemon, stream, Commands>>
    BY <2>0
  <2>2. j \in Commands /\ k \in Commands /\ Alike(j, k) /\ sequence[j] = sequence[k]
    BY <2>1 DEF Alike
  <2>3. \A c : (Filed(c)' => Filed(c)) /\ (Given(c)' => Given(c) \/ c = mResult[s])
    BY <2>1 DEF Filed, Given
  <2>4. \A c : Streamed(c)' <=> Streamed(c)
    BY <2>1 DEF Streamed
  <2>5. Filed(mResult[s])
    BY DEF Filed
  <2>6. Filed(k)' => sequence[k] # sequence[mResult[s]]
    BY <2>1 DEF Filed, FiledUnderItsOwn
  <2>7. Ahead(j, k)
    <3>1. CASE Given(j)' /\ (Filed(k)' \/ Streamed(k)' \/ k \in daemon')
      <4>1. CASE Given(j)
        BY <2>1, <2>3, <2>4, <3>1, <4>1 DEF Ahead
      <4>2. CASE j = mResult[s]
        BY <2>1, <2>2, <2>4, <2>5, <2>6, <3>1, <4>2 DEF Ahead
      <4> QED BY <2>3, <3>1, <4>1, <4>2
    <3>2. CASE Filed(j)' /\ (Streamed(k)' \/ k \in daemon')
      BY <2>1, <2>3, <2>4, <3>2 DEF Ahead
    <3>3. CASE Streamed(j)' /\ k \in daemon'
      BY <2>1, <2>4, <3>3 DEF Ahead
    <3>4. CASE \E a, b \in 1..Len(stream') : a < b /\ stream'[a] = j /\ stream'[b] = k
      BY <2>1, <3>4 DEF Ahead
    <3> QED BY <3>1, <3>2, <3>3, <3>4 DEF Ahead
  <2> QED BY <1>1, <2>2, <2>7
<1>4. ASSUME NEW n \in 1..Len(stream), Received(n)
      PROVE  /\ \A c : Streamed(c)' => /\ Streamed(c)
                                       /\ \E b \in 1..Len(stream) : 1 < b /\ stream[b] = c
             /\ (\E a, b \in 1..Len(stream') : a < b /\ stream'[a] = j /\ stream'[b] = k)
                   => \E a, b \in 1..Len(stream) : a < b /\ stream[a] = j /\ stream[b] = k
  <2>1. /\ Len(stream) \in Nat /\ Len(stream') = Len(stream) - n
        /\ \A i \in 1..Len(stream') :
              i + n \in 1..Len(stream) \ {1} /\ stream'[i] = stream[i + n]
    BY <1>4, ReceivedShifts DEF TypeOK
  <2>2. ASSUME NEW c, Streamed(c)'
        PROVE  \E b \in 1..Len(stream) : 1 < b /\ stream[b] = c
    <3>1. PICK i \in 1..Len(stream') : stream'[i] = c
      BY <2>2 DEF Streamed
    <3>2. i + n \in 1..Len(stream) /\ 1 < i + n /\ stream[i + n] = c
      BY <2>1, <3>1
    <3> QED BY <3>2
  <2>3. ASSUME NEW a \in 1..Len(stream'), NEW b \in 1..Len(stream'),
               a < b, stream'[a] = j, stream'[b] = k
        PROVE  \E c, d \in 1..Len(stream) : c < d /\ stream[c] = j /\ stream[d] = k
    <3>1. /\ a + n \in 1..Len(stream) /\ b + n \in 1..Len(stream) /\ a + n < b + n
          /\ stream[a + n] = j /\ stream[b + n] = k
      BY <2>1, <2>3
    <3> QED BY <3>1
  <2> QED BY <2>2, <2>3 DEF Streamed
<1>5. ASSUME NEW n \in 1..Len(stream), ReceiveResult(n) PROVE j < k
  <2>0. PICK h : h = Head(stream)
    OBVIOUS
  <2>1. UNCHANGED <<sequence, executor, got, daemon, Commands>> /\ Received(n)
    BY <1>5 DEF ReceiveResult, Commands
  <2>2. 1 \in 1..Len(stream) /\ stream[1] = h /\ Streamed(h)
    <3>1. 1 \in 1..Len(stream) /\ Head(stream) = stream[1]
      BY NotEmpty
    <3> QED BY <2>0, <3>1 DEF Streamed
  <2>3. \A c : Filed(c)' => Filed(c) \/ c = h
    BY <1>5, <2>0 DEF ReceiveResult, Inserted, Filed
  <2>4. \A c : Given(c)' <=> Given(c)
    BY <2>1 DEF Given
  <2>5. \A c : Streamed(c)' => /\ Streamed(c)
                               /\ \E b \in 1..Len(stream) : 1 < b /\ stream[b] = c
    BY <1>4, <2>1
  <2>6. Ahead(j, k)
    <3>1. CASE Given(j)' /\ (Filed(k)' \/ Streamed(k)' \/ k \in daemon')
      BY <2>1, <2>2, <2>3, <2>4, <2>5, <3>1 DEF Ahead
    <3>2. CASE Filed(j)' /\ Streamed(k)'
      <4>1. CASE j = h
        <5>1. PICK b \in 1..Len(stream) : 1 < b /\ stream[b] = k
          BY <2>5, <3>2
        <5> QED BY <2>2, <4>1, <5>1 DEF Ahead
      <4>2. CASE Filed(j)
        BY <2>5, <3>2, <4>2 DEF Ahead
      <4> QED BY <2>3, <3>2, <4>1, <4>2
    <3>3. CASE (Filed(j)' \/ Streamed(j)') /\ k \in daemon'
      BY <2>1, <2>2, <2>3, <2>5, <3>3 DEF Ahead
    <3>4. CASE \E a, b \in 1..Len(stream') : a < b /\ stream'[a] = j /\ stream'[b] = k
      BY <1>4, <2>1, <3>4 DEF Ahead
    <3> QED BY <3>1, <3>2, <3>3, <3>4 DEF Ahead
  <2> QED BY <1>1, <2>1, <2>6 DEF Alike
<1>6. ASSUME NEW n \in 1..Len(stream), ReceiveResponse(n) PROVE j < k
  <2>1. UNCHANGED <<sequence, executor, got, daemon, mResult, Commands>> /\ Received(n)
    BY <1>6 DEF ReceiveResponse, calls, Commands
  <2>2. \A c : (Given(c)' <=> Given(c)) /\ (Filed(c)' <=> Filed(c)) /\ (Streamed(c)' => Streamed(c))
    BY <1>4, <2>1 DEF Given, Filed
  <2>3. Ahead(j, k)
    BY <1>4, <2>1, <2>2 DEF Ahead
  <2> QED BY <1>1, <2>1, <2>3 DEF Alike
<1>7. ASSUME NEW m \in Commands \cup {Response}, stream' = Append(stream, m)
      PROVE  /\ \A c : Streamed(c)' => Streamed(c) \/ c = m
             /\ (\E a, b \in 1..Len(stream') : a < b /\ stream'[a] = j /\ stream'[b] = k)
                   => \/ \E a, b \in 1..Len(stream) : a < b /\ stream[a] = j /\ stream[b] = k
                      \/ k = m /\ Streamed(j)
  <2>1. /\ Len(stream) \in Nat
        /\ \A i \in 1..Len(stream') : \/ i \in 1..Len(stream) /\ stream'[i] = stream[i]
                                      \/ i = Len(stream) + 1 /\ stream'[i] = m
    BY <1>7, SentBehind DEF TypeOK
  <2>2. \A c : Streamed(c)' => Streamed(c) \/ c = m
    BY <2>1 DEF Streamed
  <2>3. ASSUME NEW a \in 1..Len(stream'), NEW b \in 1..Len(stream'),
               a < b, stream'[a] = j, stream'[b] = k
        PROVE  \/ \E c, d \in 1..Len(stream) : c < d /\ stream[c] = j /\ stream[d] = k
               \/ k = m /\ Streamed(j)
    <3>1. CASE b = Len(stream) + 1
      <4>1. a # Len(stream) + 1 /\ stream'[b] = m
        BY <2>1, <2>3, <3>1
      <4> QED BY <2>1, <2>3, <4>1 DEF Streamed
    <3>2. CASE b # Len(stream) + 1
      <4>1. b \in 1..Len(stream) /\ a # Len(stream) + 1
        BY <2>1, <2>3, <3>2
      <4> QED BY <2>1, <2>3, <3>2, <4>1
    <3> QED BY <3>1, <3>2
  <2> QED BY <2>2, <2>3
<1>8. ASSUME NEW m \in daemon, Answer(m) PROVE j < k
  <2>1. /\ UNCHANGED <<sequence, executor, got, mResult, Commands>> /\ daemon' = daemon \ {m}
        /\ m \in Commands /\ stream' = Append(stream, m)
        /\ \A c \in daemon : Alike(c, m) => m <= c
    BY <1>0, <1>8 DEF Answer, Due, calls, Commands
  <2>2. \A c : (Given(c)' <=> Given(c)) /\ (Filed(c)' <=> Filed(c))
    BY <2>1 DEF Given, Filed
  <2>3. \A c : Streamed(c)' => Streamed(c) \/ c = m
    BY <1>7, <2>1
  <2>4. CASE j = m /\ k \in daemon'
    <3>1. m <= k /\ m # k /\ m \in Nat /\ k \in Nat
      BY <2>1, <2>4 DEF Commands, Alike
    <3> QED BY <2>4, <3>1
  <2>5. CASE ~(j = m /\ k \in daemon')
    <3>1. Ahead(j, k)
      <4>1. CASE \E a, b \in 1..Len(stream') : a < b /\ stream'[a] = j /\ stream'[b] = k
        BY <1>7, <2>1, <4>1 DEF Ahead
      <4>2. CASE ~\E a, b \in 1..Len(stream') : a < b /\ stream'[a] = j /\ stream'[b] = k
        BY <2>1, <2>2, <2>3, <2>5, <4>2 DEF Ahead
      <4> QED BY <4>1, <4>2
    <3> QED BY <1>1, <2>1, <3>1 DEF Alike
  <2> QED BY <2>4, <2>5
<1>9. CASE Respond
  <2>1. /\ UNCHANGED <<sequence, executor, got, daemon, mResult, Commands>>
        /\ stream' = Append(stream, Response)
    BY <1>9 DEF Respond, calls, Commands
  <2>2. j # Response /\ k # Response /\ j \in Commands /\ k \in Commands
    BY <1>0, <2>1
  <2>3. \A c : (Given(c)' <=> Given(c)) /\ (Filed(c)' <=> Filed(c))
    BY <2>1 DEF Given, Filed
  <2>4. \A c : Streamed(c)' => Streamed(c) \/ c = Response
    BY <1>7, <2>1
  <2>5. Ahead(j, k)
    <3>1. CASE \E a, b \in 1..Len(stream') : a < b /\ stream'[a] = j /\ stream'[b] = k
      BY <1>7, <2>1, <2>2, <3>1 DEF Ahead
    <3>2. CASE ~\E a, b \in 1..Len(stream') : a < b /\ stream'[a] = j /\ stream'[b] = k
      BY <2>1, <2>2, <2>3, <2>4, <3>2 DEF Ahead
    <3> QED BY <3>1, <3>2
  <2> QED BY <1>1, <2>1, <2>5 DEF Alike
<1>10. ASSUME NEW m \in daemon, Ignore(m) PROVE j < k
  <2>1. UNCHANGED <<sequence, executor, got, stream, mResult, Commands>> /\ daemon' = daemon \ {m}
    BY <1>10 DEF Ignore, calls, Commands
  <2>2. \A c : (Given(c)' <=> Given(c)) /\ (Filed(c)' <=> Filed(c)) /\ (Streamed(c)' <=> Streamed(c))
    BY <2>1 DEF Given, Filed, Streamed
  <2>3. Ahead(j, k)
    BY <2>1, <2>2 DEF Ahead
  <2> QED BY <1>1, <2>1, <2>3 DEF Alike
<1>11. CASE \/ \E t \in Threads : Wait(t) \/ SpuriousWakeup(t) \/ WaitAgain(t) \/ Timeout(t)
            \/ UNCHANGED vars
  <2>1. UNCHANGED <<sequence, executor, got, daemon, stream, mResult, Commands>>
    BY <1>11 DEF Wait, SpuriousWakeup, WaitAgain, Timeout, vars, calls, Commands
  <2>2. Ahead(j, k)
    BY <2>1 DEF Ahead, Given, Filed, Streamed
  <2> QED BY <1>1, <2>1, <2>2 DEF Alike
<1> QED BY <1>2, <1>3, <1>5, <1>6, <1>8, <1>9, <1>10, <1>11 DEF Next, Call, Receive, Daemon

\* Writing is issuing, taking is returning, and nothing else concerns a client.
LEMMA RepliesStep ==
    TypeOK /\ FiledUnderItsOwn /\ CallingOne /\ InOrder /\ [Next]_vars
        => [Replies!Next]_(Replies!vars)
<1> SUFFICES ASSUME TypeOK, FiledUnderItsOwn, CallingOne, InOrder, [Next]_vars
             PROVE  Replies!Next \/ UNCHANGED <<sequence, executor, got>>
  BY DEF Replies!vars
<1>0. Replies!Commands = Commands
  BY DEF Replies!Commands, Commands
<1>1. ASSUME NEW t \in Threads, NEW s \in NextSequence, NEW e \in Executors,
             Write(t, s, e)
      PROVE  Replies!Next
  <2>1. s \in 1..(Len(sequence) + 1)
    BY DEF NextSequence, Commands, TypeOK
  <2>2. s = Len(sequence) + 1 \/ Replies!Used(s)
    BY <1>0 DEF NextSequence, Replies!Used
  <2>3. Replies!Issue(s, e)
    BY <1>1, <2>2 DEF Write, Replies!Issue
  <2> QED BY <2>1, <2>3 DEF Replies!Next
<1>2. ASSUME NEW t \in Threads, Take(t) PROVE Replies!Next
  <2>1. PICK s \in DOMAIN mResult :
            /\ cmd[t] \in Commands /\ s = sequence[cmd[t]] /\ mResult[s] \in Commands
            /\ got' = [got EXCEPT ![cmd[t]] = mResult[s]]
            /\ UNCHANGED <<sequence, executor>>
    BY <1>2, TakeGives
  <2>0. PICK k, r : k = cmd[t] /\ r = mResult[s]
    OBVIOUS
  <2>2. k \in Commands /\ r \in Commands /\ sequence[r] = sequence[k]
    BY <2>0, <2>1 DEF FiledUnderItsOwn
  <2>3. got[k] = 0
    BY <2>0, <2>2 DEF CallingOne, Commands
  <2>4. ASSUME NEW c \in Replies!ReturnedLike(r) PROVE got[c] < r
    <3>1. c \in Commands /\ got[c] # 0 /\ Alike(got[c], r)
      BY <1>0 DEF Replies!ReturnedLike, Replies!Alike, Alike
    <3>2. got[c] \in Commands /\ Given(got[c]) /\ Filed(r)
      BY <2>0, <3>1 DEF TypeOK, Given, Filed
    <3> QED BY <2>2, <3>1, <3>2 DEF InOrder, Ahead
  <2>5. Replies!Return(k, r)
    BY <2>0, <2>1, <2>2, <2>3, <2>4 DEF Replies!Return
  <2> QED BY <1>0, <2>2, <2>5 DEF Replies!Next
<1>3. CASE \/ \E t \in Threads : Wait(t) \/ SpuriousWakeup(t) \/ WaitAgain(t) \/ Timeout(t)
           \/ Receive \/ Daemon \/ UNCHANGED vars
  BY <1>3 DEF Wait, SpuriousWakeup, WaitAgain, Timeout, Receive, ReceiveResult, ReceiveResponse,
     Daemon, Respond, Answer, Ignore, vars, calls
<1> QED BY <1>1, <1>2, <1>3 DEF Next, Call

\* The sender implements ObjectReplies: the results of an executor under one
\* number reach calls in the order of the commands, each once, for any number of
\* threads and whichever numbers come again.
THEOREM Refinement == Spec => RepliesInOrder
<1>1. Init => Replies!Init /\ FiledUnderItsOwn /\ ReturnedToItsOwn /\ CallingOne /\ InOrder
  BY DEF Init, Replies!Init, FiledUnderItsOwn, ReturnedToItsOwn, CallingOne, InOrder, Commands
<1> QED
  BY <1>1, ItsOwnStep, CallingStep, OrderStep, RepliesStep, TypeCorrect, PTL
  DEF Spec, RepliesInOrder, Replies!Spec
=============================================================================
