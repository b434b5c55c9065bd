------------------------ MODULE WorkerClient_proofs ------------------------
(***************************************************************************)
(* Proofs about WorkerClient for any number of calls and slots.            *)
(*                                                                         *)
(* The argument: active counts the calls between Acquire and Leave, and a  *)
(* worker runs only while its call is one of them, because every way out   *)
(* of a call kills the worker first or finds it ended.                     *)
(***************************************************************************)
EXTENDS WorkerClient, FiniteSetTheorems, TLAPS

Holding == {"spawning", "sending", "reading", "terminating"}

Holders == {c \in Calls : pc[c] \in Holding}

(* The semaphore's queue holds each queued call once. *)
QueueInv ==
    /\ \A i \in 1..Len(waiters) : pc[waiters[i]] = "queued"
    /\ \A i, j \in 1..Len(waiters) : waiters[i] = waiters[j] => i = j

(* Each slot taken has its holder. *)
SlotInv == active = Cardinality(Holders)

ClientInv == TypeOK /\ QueueInv /\ SlotInv

(* A worker runs only while its call is in the exchange. *)
RunningInv == \A c \in Calls : worker[c] = "running" => pc[c] \in {"sending", "reading"}

-----------------------------------------------------------------------------
(* Slots *)

LEMMA HoldersFinite == IsFiniteSet(Holders) /\ Cardinality(Holders) \in Nat
  <1>1. IsFiniteSet(Holders)
    BY CallsAssumption, FS_Subset DEF Holders
  <1> QED BY <1>1, FS_CardinalityType

LEMMA HolderTakesSlot ==
    ASSUME SlotInv, NEW c \in Calls, c \notin Holders, Holders' = Holders \union {c},
           active' = active + 1
    PROVE  SlotInv'
  BY HoldersFinite, FS_AddElement DEF SlotInv

LEMMA HolderLeaves ==
    ASSUME SlotInv, active \in 0..MaxParallelism, NEW c \in Calls, c \in Holders,
           Holders' = Holders \ {c}, active' = active - 1
    PROVE  SlotInv' /\ active' \in 0..MaxParallelism
  <1>1. Cardinality(Holders \ {c}) = Cardinality(Holders) - 1
    BY HoldersFinite, FS_RemoveElement
  <1>2. Cardinality(Holders) # 0
    BY HoldersFinite, FS_EmptySet
  <1>3. active \in Nat /\ active # 0 /\ active <= MaxParallelism /\ MaxParallelism \in Nat
    BY <1>2, ParallelismAssumption DEF SlotInv
  <1> QED BY <1>1, <1>3 DEF SlotInv

(* A call that leaves _invoke() gives its slot back, and only that changes. *)
LEMMA LeaveKeeps ==
    ASSUME ClientInv, NEW c \in Calls, c \in Holders, NEW value \in Results, Leave(c, value),
           waiters' = waiters
    PROVE  /\ pc' \in [Calls -> Points] /\ result' \in [Calls -> Results]
           /\ active' \in 0..MaxParallelism /\ SlotInv' /\ QueueInv'
  <1>1. pc' = [pc EXCEPT ![c] = "ended"] /\ active' = active - 1
        /\ result' = [result EXCEPT ![c] = value]
    BY DEF Leave, Return, Goto
  <1>2. pc' \in [Calls -> Points] /\ result' \in [Calls -> Results]
    BY <1>1 DEF ClientInv, TypeOK, Points
  <1>3. Holders' = Holders \ {c}
    BY <1>1 DEF Holders, Holding, ClientInv, TypeOK
  <1>4. SlotInv' /\ active' \in 0..MaxParallelism
    BY <1>1, <1>3, HolderLeaves DEF ClientInv, TypeOK
  <1>5. QueueInv'
    <2>1. \A i \in 1..Len(waiters) : waiters[i] \in Calls
      BY DEF ClientInv, TypeOK
    <2> QED BY <1>1, <2>1 DEF ClientInv, QueueInv, TypeOK, Holders, Holding
  <1> QED BY <1>2, <1>4, <1>5

(* A call that goes on within _invoke() keeps its slot. *)
LEMMA MoveKeeps ==
    ASSUME ClientInv, NEW c \in Calls, c \in Holders, NEW point \in Holding, Goto(c, point),
           waiters' = waiters, active' = active
    PROVE  pc' \in [Calls -> Points] /\ SlotInv' /\ QueueInv'
  <1>1. pc' = [pc EXCEPT ![c] = point] /\ pc' \in [Calls -> Points]
    BY DEF Goto, ClientInv, TypeOK, Points, Holding
  <1>2. Holders' = Holders
    BY <1>1 DEF Holders, Holding, ClientInv, TypeOK
  <1>3. QueueInv'
    <2>1. \A i \in 1..Len(waiters) : waiters[i] \in Calls
      BY DEF ClientInv, TypeOK
    <2> QED BY <1>1, <2>1 DEF ClientInv, QueueInv, TypeOK, Holders, Holding
  <1> QED BY <1>1, <1>2, <1>3 DEF ClientInv, SlotInv

-----------------------------------------------------------------------------
(* The queue *)

LEMMA QueueKeeps ==
    ASSUME ClientInv, NEW c \in Calls, Queue(c)
    PROVE  ClientInv'
  <1>1. /\ pc[c] = "idle" /\ pc' = [pc EXCEPT ![c] = "queued"]
        /\ waiters' = Append(waiters, c) /\ waiters \in Seq(Calls)
    BY DEF Queue, Goto, ClientInv, TypeOK
  <1>2. /\ waiters' \in Seq(Calls) /\ Len(waiters') = Len(waiters) + 1 /\ Len(waiters) \in Nat
        /\ \A i \in 1..Len(waiters) : waiters'[i] = waiters[i] /\ waiters[i] \in Calls
        /\ waiters'[Len(waiters) + 1] = c
    BY <1>1
  <1>3. \A i \in 1..Len(waiters) : waiters[i] # c
    BY <1>1 DEF ClientInv, QueueInv
  <1>4. QueueInv'
    <2>1. \A i \in 1..Len(waiters') : i \in 1..Len(waiters) \/ i = Len(waiters) + 1
      BY <1>2
    <2>2. \A i \in 1..Len(waiters') : pc'[waiters'[i]] = "queued"
      BY <1>1, <1>2, <2>1 DEF ClientInv, QueueInv, TypeOK
    <2>3. \A i, j \in 1..Len(waiters') : waiters'[i] = waiters'[j] => i = j
      BY <1>2, <1>3, <2>1 DEF ClientInv, QueueInv
    <2> QED BY <2>2, <2>3 DEF QueueInv
  <1>5. Holders' = Holders /\ pc' \in [Calls -> Points]
    BY <1>1 DEF Holders, Holding, ClientInv, TypeOK, Points
  <1>6. TypeOK'
    BY <1>2, <1>5 DEF Queue, processes, ClientInv, TypeOK
  <1> QED BY <1>4, <1>5, <1>6 DEF Queue, ClientInv, SlotInv

LEMMA AcquireKeeps ==
    ASSUME ClientInv, NEW c \in Calls, Acquire(c)
    PROVE  ClientInv'
  <1>1. /\ waiters \in Seq(Calls) /\ waiters # <<>> /\ c = waiters[1]
        /\ waiters' = Tail(waiters) /\ pc' = [pc EXCEPT ![c] = "spawning"]
        /\ active' = active + 1 /\ active < MaxParallelism
    BY DEF Acquire, Goto, ClientInv, TypeOK
  <1>2. /\ waiters' \in Seq(Calls) /\ Len(waiters) \in Nat \ {0}
        /\ Len(waiters') = Len(waiters) - 1
        /\ \A i \in 1..Len(waiters') : waiters'[i] = waiters[i + 1] /\ waiters[i + 1] \in Calls
    BY <1>1
  <1>3. pc[c] = "queued"
    BY <1>1, <1>2 DEF ClientInv, QueueInv
  <1>4. \A i \in 1..Len(waiters') : i + 1 \in 1..Len(waiters) /\ i + 1 # 1
    BY <1>2
  <1>5. QueueInv'
    <2>1. \A i \in 1..Len(waiters') : waiters'[i] # c
      BY <1>1, <1>2, <1>4 DEF ClientInv, QueueInv
    <2>2. \A i \in 1..Len(waiters') : pc'[waiters'[i]] = "queued"
      BY <1>1, <1>2, <1>4, <2>1 DEF ClientInv, QueueInv, TypeOK
    <2>3. ASSUME NEW i \in 1..Len(waiters'), NEW j \in 1..Len(waiters'),
                 waiters'[i] = waiters'[j]
          PROVE  i = j
      <3>1. i + 1 = j + 1
        BY <1>2, <1>4, <2>3 DEF ClientInv, QueueInv
      <3> QED BY <3>1
    <2> QED BY <2>2, <2>3 DEF QueueInv
  <1>6. c \notin Holders /\ Holders' = Holders \union {c} /\ pc' \in [Calls -> Points]
    BY <1>1, <1>3 DEF Holders, Holding, ClientInv, TypeOK, Points
  <1>7. SlotInv'
    BY <1>1, <1>6, HolderTakesSlot DEF ClientInv
  <1>8. active' \in 0..MaxParallelism
    BY <1>1, ParallelismAssumption DEF ClientInv, TypeOK
  <1>9. TypeOK'
    BY <1>2, <1>6, <1>8 DEF Acquire, processes, ClientInv, TypeOK
  <1> QED BY <1>5, <1>7, <1>9 DEF ClientInv

LEMMA Joined ==
    ASSUME NEW S, NEW s \in Seq(S), NEW t \in Seq(S)
    PROVE  /\ s \o t \in Seq(S) /\ Len(s \o t) = Len(s) + Len(t)
           /\ \A i \in 1..Len(s) : (s \o t)[i] = s[i]
           /\ \A i \in 1..Len(t) : (s \o t)[Len(s) + i] = t[i]
  OBVIOUS

LEMMA JoinedAround ==
    ASSUME NEW S, NEW s \in Seq(S), NEW k \in 1..Len(s), NEW l \in Seq(S), NEW r \in Seq(S),
           Len(l) = k - 1, \A i \in 1..(k - 1) : l[i] = s[i],
           Len(r) = Len(s) - k, \A i \in 1..(Len(s) - k) : r[i] = s[k + i]
    PROVE  /\ l \o r \in Seq(S) /\ Len(l \o r) = Len(s) - 1
           /\ \A i \in 1..(Len(s) - 1) : (l \o r)[i] = s[IF i < k THEN i ELSE i + 1]
  <1>0. Len(s) \in Nat /\ k \in Nat /\ 1 <= k /\ k <= Len(s)
    OBVIOUS
  <1>1. l \o r \in Seq(S) /\ Len(l \o r) = Len(s) - 1
    <2>1. l \o r \in Seq(S) /\ Len(l \o r) = Len(l) + Len(r)
      BY Joined
    <2> QED BY <1>0, <2>1
  <1>2. ASSUME NEW i \in 1..(Len(s) - 1), i < k PROVE (l \o r)[i] = s[i]
    <2>1. i \in 1..Len(l) /\ i \in 1..(k - 1)
      BY <1>0, <1>2
    <2>2. (l \o r)[i] = l[i]
      BY <2>1, Joined
    <2> QED BY <2>1, <2>2
  <1>3. ASSUME NEW i \in 1..(Len(s) - 1), ~ (i < k) PROVE (l \o r)[i] = s[i + 1]
    <2>1. PICK j \in 1..(Len(s) - k) : i = Len(l) + j
      <3>1. i - (k - 1) \in 1..(Len(s) - k) /\ i = Len(l) + (i - (k - 1))
        BY <1>0, <1>3
      <3> QED BY <3>1
    <2>2. (l \o r)[i] = r[j]
      BY <2>1, Joined
    <2>3. r[j] = s[k + j] /\ k + j = i + 1
      BY <1>0, <2>1
    <2> QED BY <2>2, <2>3
  <1> QED BY <1>1, <1>2, <1>3

(* Taking out one element shifts the later ones. *)
LEMMA TakenOut ==
    ASSUME NEW S, NEW s \in Seq(S), NEW k \in 1..Len(s)
    PROVE  /\ SubSeq(s, 1, k - 1) \o SubSeq(s, k + 1, Len(s)) \in Seq(S)
           /\ Len(SubSeq(s, 1, k - 1) \o SubSeq(s, k + 1, Len(s))) = Len(s) - 1
           /\ \A i \in 1..(Len(s) - 1) :
                 (SubSeq(s, 1, k - 1) \o SubSeq(s, k + 1, Len(s)))[i]
                   = s[IF i < k THEN i ELSE i + 1]
  <1>0. Len(s) \in Nat /\ k \in Nat /\ 1 <= k /\ k <= Len(s)
    OBVIOUS
  <1> DEFINE l == SubSeq(s, 1, k - 1)
             r == SubSeq(s, k + 1, Len(s))
  <1>1. l \in Seq(S)
    BY <1>0
  <1>2. Len(l) = k - 1 /\ \A i \in 1..(k - 1) : l[i] = s[i]
    BY <1>0
  <1>3. r \in Seq(S)
    BY <1>0
  <1>4. Len(r) = Len(s) - k
    BY <1>0
  <1>5. \A i \in 1..(Len(s) - k) : r[i] = s[k + i]
    BY <1>0
  <1> HIDE DEF l, r
  <1>6. l \o r \in Seq(S) /\ Len(l \o r) = Len(s) - 1
    <2>1. l \o r \in Seq(S) /\ Len(l \o r) = Len(l) + Len(r)
      BY ONLY <1>1, <1>3, Joined
    <2> QED BY <1>0, <1>2, <1>4, <2>1
  <1>7. \A i \in 1..(Len(s) - 1) : (l \o r)[i] = s[IF i < k THEN i ELSE i + 1]
    BY ONLY <1>1, <1>2, <1>3, <1>4, <1>5, JoinedAround, s \in Seq(S), k \in 1..Len(s)
  <1> QED BY <1>6, <1>7 DEF l, r

LEMMA CancelQueuedKeeps ==
    ASSUME ClientInv, NEW c \in Calls, CancelQueued(c)
    PROVE  ClientInv'
  <1>1. PICK k \in 1..Len(waiters) :
          /\ waiters[k] = c
          /\ waiters' = SubSeq(waiters, 1, k - 1) \o SubSeq(waiters, k + 1, Len(waiters))
    BY DEF CancelQueued
  <1>2. /\ waiters \in Seq(Calls) /\ Len(waiters) \in Nat /\ k \in Nat
        /\ 1 <= k /\ k <= Len(waiters)
    BY <1>1 DEF ClientInv, TypeOK
  <1> DEFINE old(i) == IF i < k THEN i ELSE i + 1
  <1>3. /\ waiters' \in Seq(Calls) /\ Len(waiters') = Len(waiters) - 1
        /\ \A i \in 1..Len(waiters') : waiters'[i] = waiters[old(i)]
    BY <1>1, <1>2, TakenOut
  <1>4. \A i \in 1..Len(waiters') :
          old(i) \in 1..Len(waiters) /\ old(i) # k /\ waiters[old(i)] \in Calls
    BY <1>2, <1>3
  <1> HIDE DEF old
  <1>5. pc' = [pc EXCEPT ![c] = "ended"] /\ pc[c] = "queued"
        /\ result' = [result EXCEPT ![c] = "cancelled"]
    BY <1>1 DEF CancelQueued, Return, Goto, ClientInv, QueueInv
  <1>6. QueueInv'
    <2>1. \A i \in 1..Len(waiters') : waiters'[i] # c
      <3>1. \A i \in 1..Len(waiters) : waiters[i] = waiters[k] => i = k
        BY DEF ClientInv, QueueInv
      <3> QED BY <1>1, <1>3, <1>4, <3>1
    <2>2. \A i \in 1..Len(waiters') : pc'[waiters'[i]] = "queued"
      BY <1>3, <1>4, <1>5, <2>1 DEF ClientInv, QueueInv, TypeOK
    <2>3. ASSUME NEW i \in 1..Len(waiters'), NEW j \in 1..Len(waiters'),
                 waiters'[i] = waiters'[j]
          PROVE  i = j
      <3>1. old(i) = old(j)
        <4>1. waiters[old(i)] = waiters[old(j)]
          BY <1>3, <2>3
        <4> QED BY <1>4, <4>1 DEF ClientInv, QueueInv
      <3>2. i \in Nat /\ j \in Nat
        BY <1>2, <1>3
      <3> QED BY <1>2, <3>1, <3>2 DEF old
    <2> QED BY <2>2, <2>3 DEF QueueInv
  <1>7. /\ Holders' = Holders /\ pc' \in [Calls -> Points]
        /\ result' \in [Calls -> Results]
    BY <1>5 DEF Holders, Holding, ClientInv, TypeOK, Points, Results
  <1>8. TypeOK'
    BY <1>3, <1>7 DEF CancelQueued, processes, ClientInv, TypeOK
  <1> QED BY <1>6, <1>7, <1>8 DEF CancelQueued, ClientInv, SlotInv

-----------------------------------------------------------------------------
(* _invoke() *)

LEMMA InvokeKeeps ==
    ASSUME ClientInv, NEW c \in Calls,
           \/ Spawn(c) \/ SpawnFails(c) \/ SpawnLate(c) \/ Sent(c) \/ PipeBreaks(c)
           \/ Complete(c) \/ Timeout(c) \/ Cancel(c) \/ TooLong(c)
           \/ Terminated(c) \/ CancelTerminating(c)
    PROVE  ClientInv'
  <1>1. c \in Holders /\ waiters' = waiters
    BY DEF Spawn, SpawnFails, SpawnLate, Sent, PipeBreaks, Complete, Timeout, Cancel, TooLong,
           Terminated, CancelTerminating, Holders, Holding
  <1>2. /\ worker' \in [Calls -> Workers] /\ helper' \in [Calls -> BOOLEAN]
        /\ stuck' \in [Calls -> BOOLEAN]
    <2>0. /\ worker \in [Calls -> Workers] /\ helper \in [Calls -> BOOLEAN]
          /\ stuck \in [Calls -> BOOLEAN]
      BY DEF ClientInv, TypeOK
    <2>1. CASE Timeout(c) \/ Cancel(c) \/ TooLong(c)
      BY <2>0, <2>1 DEF Timeout, Cancel, TooLong, Terminate, processes, Workers
    <2>2. CASE Spawn(c) \/ SpawnLate(c)
      BY <2>0, <2>2 DEF Spawn, SpawnLate, Workers
    <2>3. CASE \/ SpawnFails(c) \/ Sent(c) \/ PipeBreaks(c) \/ Complete(c) \/ Terminated(c)
               \/ CancelTerminating(c)
      BY <2>0, <2>3 DEF SpawnFails, Sent, PipeBreaks, Complete, Terminated, CancelTerminating,
                        processes
    <2> QED BY <2>1, <2>2, <2>3
  <1>3. CASE \E value \in Results : Leave(c, value)
    BY <1>1, <1>2, <1>3, LeaveKeeps DEF ClientInv, TypeOK
  <1>4. CASE \E point \in Holding : Goto(c, point) /\ active' = active
                /\ result' \in [Calls -> Results]
    BY <1>1, <1>2, <1>4, MoveKeeps DEF ClientInv, TypeOK
  <1>5. result[c] \in Results
    BY DEF ClientInv, TypeOK
  <1>6. CASE Timeout(c) \/ Cancel(c) \/ TooLong(c)
    BY <1>3, <1>4, <1>6 DEF Timeout, Cancel, TooLong, Terminate, Holding, Results, ClientInv,
                            TypeOK
  <1>7. CASE SpawnFails(c) \/ PipeBreaks(c) \/ Complete(c) \/ Terminated(c)
                \/ CancelTerminating(c)
    BY <1>3, <1>5, <1>7 DEF SpawnFails, PipeBreaks, Complete, Terminated, CancelTerminating,
                            Results
  <1>8. CASE Spawn(c) \/ SpawnLate(c) \/ Sent(c)
    BY <1>4, <1>8 DEF Spawn, SpawnLate, Sent, Holding, Results, ClientInv, TypeOK
  <1> QED BY <1>6, <1>7, <1>8

-----------------------------------------------------------------------------
(* The theorems *)

LEMMA ClientInit == Init => ClientInv
  <1> SUFFICES ASSUME Init PROVE ClientInv
    OBVIOUS
  <1>1. TypeOK
    BY ParallelismAssumption DEF Init, TypeOK, Points, Workers, Results
  <1>2. QueueInv
    BY DEF Init, QueueInv
  <1>3. Holders = {}
    BY DEF Init, Holders, Holding
  <1>4. SlotInv
    BY <1>3, FS_EmptySet DEF Init, SlotInv
  <1> QED BY <1>1, <1>2, <1>4 DEF ClientInv

LEMMA ClientNext == ClientInv /\ [Next]_vars => ClientInv'
  <1> SUFFICES ASSUME ClientInv, [Next]_vars PROVE ClientInv'
    OBVIOUS
  <1>1. ASSUME NEW c \in Calls, Refuse(c) PROVE ClientInv'
    <2>1. pc[c] = "idle" /\ pc' = [pc EXCEPT ![c] = "ended"]
          /\ result' = [result EXCEPT ![c] = "refused"]
      BY <1>1 DEF Refuse, Return, Goto
    <2>2. Holders' = Holders
      BY <2>1 DEF Holders, Holding, ClientInv, TypeOK
    <2>3. QueueInv'
      <3>1. \A i \in 1..Len(waiters) : waiters[i] \in Calls /\ waiters[i] # c
        BY <2>1 DEF ClientInv, TypeOK, QueueInv
      <3> QED BY <1>1, <2>1, <3>1 DEF Refuse, QueueInv, ClientInv, TypeOK
    <2>4. TypeOK'
      BY <1>1, <2>1 DEF Refuse, processes, ClientInv, TypeOK, Points, Results
    <2> QED BY <1>1, <2>2, <2>3, <2>4 DEF Refuse, ClientInv, SlotInv
  <1>2. ASSUME NEW c \in Calls, ProcessStep(c) PROVE ClientInv'
    <2>1. UNCHANGED calls
      BY <1>2 DEF ProcessStep, Exit, StartHelper, HelperExits, Reap
    <2>2. /\ worker' \in [Calls -> Workers] /\ helper' \in [Calls -> BOOLEAN]
          /\ stuck' \in [Calls -> BOOLEAN]
      BY <1>2 DEF ProcessStep, Exit, StartHelper, HelperExits, Reap, ClientInv, TypeOK, Workers
    <2> QED BY <2>1, <2>2 DEF calls, ClientInv, TypeOK, QueueInv, SlotInv, Holders
  <1>3. CASE UNCHANGED vars
    BY <1>3 DEF vars, ClientInv, TypeOK, QueueInv, SlotInv, Holders
  <1> QED BY <1>1, <1>2, <1>3, QueueKeeps, AcquireKeeps, CancelQueuedKeeps, InvokeKeeps
          DEF Next, CallStep

(* The client keeps its types; in particular it never takes more slots than *)
(* there are and never returns one it does not hold.                        *)
THEOREM TypeCorrect == Spec => []TypeOK
  <1>1. ClientInv => TypeOK
    BY DEF ClientInv
  <1> QED BY <1>1, ClientInit, ClientNext, PTL DEF Spec

LEMMA RunningNext ==
    ClientInv /\ RunningInv /\ "unread" \notin Misbehaviours /\ [Next]_vars => RunningInv'
  <1> SUFFICES ASSUME ClientInv, RunningInv, "unread" \notin Misbehaviours, [Next]_vars,
                      NEW d \in Calls, worker'[d] = "running"
               PROVE  pc'[d] \in {"sending", "reading"}
    BY DEF RunningInv
  <1>0. pc \in [Calls -> Points] /\ worker \in [Calls -> Workers]
    BY DEF ClientInv, TypeOK
  <1>1. ASSUME NEW c \in Calls, Spawn(c) \/ Sent(c) PROVE pc'[d] \in {"sending", "reading"}
    BY <1>0, <1>1 DEF Spawn, Sent, Goto, processes, RunningInv
  <1>2. ASSUME NEW c \in Calls, Timeout(c) \/ Cancel(c) \/ TooLong(c)
        PROVE  pc'[d] \in {"sending", "reading"}
    BY <1>0, <1>2 DEF Timeout, Cancel, TooLong, Terminate, Leave, Return, Goto, processes,
                      RunningInv
  <1>3. ASSUME NEW c \in Calls,
               \/ SpawnFails(c) \/ SpawnLate(c) \/ PipeBreaks(c) \/ Complete(c)
               \/ Terminated(c) \/ CancelTerminating(c)
        PROVE  pc'[d] \in {"sending", "reading"}
    BY <1>0, <1>3 DEF SpawnFails, SpawnLate, PipeBreaks, Complete, Terminated,
                      CancelTerminating, Leave, Return, Goto, processes, RunningInv
  <1>4. ASSUME NEW c \in Calls, Refuse(c) \/ Queue(c) \/ Acquire(c) \/ CancelQueued(c)
        PROVE  pc'[d] \in {"sending", "reading"}
    <2>1. pc[c] \in {"idle", "queued"}
      <3>1. waiters # <<>> => 1 \in 1..Len(waiters) /\ Head(waiters) = waiters[1]
        <4>1. waiters \in Seq(Calls)
          BY DEF ClientInv, TypeOK
        <4>2. waiters # <<>> => Len(waiters) \in Nat \ {0} /\ Head(waiters) = waiters[1]
          BY <4>1
        <4> QED BY <4>2
      <3> QED BY <1>4, <3>1 DEF Refuse, Queue, Acquire, CancelQueued, ClientInv, QueueInv
    <2> QED BY <1>0, <1>4, <2>1 DEF Refuse, Queue, Acquire, CancelQueued, Return, Goto,
                                    processes, RunningInv
  <1>5. ASSUME NEW c \in Calls, ProcessStep(c) PROVE pc'[d] \in {"sending", "reading"}
    BY <1>0, <1>5 DEF ProcessStep, Exit, StartHelper, HelperExits, Reap, calls, RunningInv
  <1>6. CASE UNCHANGED vars
    BY <1>6 DEF vars, RunningInv
  <1> QED BY <1>1, <1>2, <1>3, <1>4, <1>5, <1>6 DEF Next, CallStep

(* If workers read their requests, no more than MaxParallelism of them run  *)
(* at a time, however their calls end.                                      *)
THEOREM ParallelismCeilingHolds ==
    ASSUME "unread" \notin Misbehaviours
    PROVE  Spec => []ParallelismCeiling
  <1>1. Init => RunningInv
    BY DEF Init, RunningInv
  <1>2. ClientInv /\ RunningInv => ParallelismCeiling
    <2> SUFFICES ASSUME ClientInv, RunningInv PROVE ParallelismCeiling
      OBVIOUS
    <2>1. Running \subseteq Holders
      BY DEF Running, Holders, Holding, RunningInv
    <2>2. Cardinality(Running) <= Cardinality(Holders) /\ IsFiniteSet(Running)
      BY <2>1, HoldersFinite, FS_Subset
    <2>3. Cardinality(Running) \in Nat
      BY <2>2, FS_CardinalityType
    <2>4. active = Cardinality(Holders)
      BY DEF ClientInv, SlotInv
    <2>5. active \in Nat /\ MaxParallelism \in Nat /\ active <= MaxParallelism
      <3>1. active \in 0..MaxParallelism
        BY DEF ClientInv, TypeOK
      <3>2. MaxParallelism \in Nat
        BY ParallelismAssumption
      <3> QED BY <3>1, <3>2
    <2> QED BY <2>2, <2>3, <2>4, <2>5 DEF ParallelismCeiling
  <1> QED BY <1>1, <1>2, ClientInit, ClientNext, RunningNext, PTL DEF Spec
=============================================================================
