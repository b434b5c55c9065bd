---------------------------- MODULE WorkerClient ----------------------------
(***************************************************************************)
(* The client of a connector worker (worker.py, ConnectorWorkerClient).    *)
(* Each call of invoke() waits for one of MaxParallelism slots, starts a   *)
(* worker process in a session of its own, exchanges one request and one   *)
(* response with it over pipes under a deadline, and terminates it when    *)
(* the deadline passes, the call is cancelled or the response is too long. *)
(*                                                                         *)
(* Calls are tasks of one event loop; an action is what a call does from   *)
(* one await to the next, or a step of the operating system.  The worker   *)
(* program is arbitrary: it may hang or exit at any time, and do what      *)
(* Misbehaviours permits.                                                  *)
(*                                                                         *)
(* Abstractions: a deadline may pass whenever the call runs under it; an   *)
(* exit code and a response are good or not; a helper is any process that  *)
(* the worker started, in its session and with its pipes.                  *)
(***************************************************************************)
EXTENDS Naturals, Sequences, FiniteSets

CONSTANTS
    Calls,           \* calls of invoke()
    MaxParallelism,  \* WorkerLimits.max_parallelism
    Misbehaviours    \* what the worker program may do

ASSUME CallsAssumption == IsFiniteSet(Calls)
ASSUME ParallelismAssumption == MaxParallelism \in Nat \ {0}
ASSUME MisbehavioursAssumption == Misbehaviours \subseteq
    {"unread",       \* stop reading its request, but live on
     "helper",        \* start a process that outlives it
     "flood"}         \* write more than the event loop buffers unread

VARIABLES
    pc,         \* where each call is
    waiters,    \* calls in the semaphore's queue, in order of arrival
    active,     \* slots taken
    worker,     \* the worker process of each call
    helper,     \* whether a helper of that worker runs
    stuck,      \* whether output is left in a pipe nobody reads any more
    result      \* what each call ends with

vars == <<pc, waiters, active, worker, helper, stuck, result>>

Points == {"idle", "queued", "spawning", "sending", "reading", "terminating", "ended"}

\* "exited" and "killed" end the process; "reaped": the event loop knows.
Workers == {"none", "running", "exited", "killed", "reaped"}

Results == {"none", "refused", "returned", "failed", "pipe", "timeout", "cancelled",
            "violation"}

TypeOK ==
    /\ pc \in [Calls -> Points]
    /\ waiters \in Seq(Calls)
    /\ active \in 0..MaxParallelism
    /\ worker \in [Calls -> Workers]
    /\ helper \in [Calls -> BOOLEAN]
    /\ stuck \in [Calls -> BOOLEAN]
    /\ result \in [Calls -> Results]

Init ==
    /\ pc = [c \in Calls |-> "idle"]
    /\ waiters = <<>>
    /\ active = 0
    /\ worker = [c \in Calls |-> "none"]
    /\ helper = [c \in Calls |-> FALSE]
    /\ stuck = [c \in Calls |-> FALSE]
    /\ result = [c \in Calls |-> "none"]

processes == <<worker, helper, stuck>>

-----------------------------------------------------------------------------
(* invoke(): the semaphore *)

Goto(c, point) == pc' = [pc EXCEPT ![c] = point]

Return(c, value) ==
    /\ Goto(c, "ended")
    /\ result' = [result EXCEPT ![c] = value]

\* The call leaves _invoke(), with a value or an exception: its slot is free.
Leave(c, value) ==
    /\ Return(c, value)
    /\ active' = active - 1

\* A bad operation name, a payload that is not JSON, a request too long.
Refuse(c) ==
    /\ pc[c] = "idle"
    /\ Return(c, "refused")
    /\ UNCHANGED <<waiters, active, processes>>

Queue(c) ==
    /\ pc[c] = "idle"
    /\ Goto(c, "queued")
    /\ waiters' = Append(waiters, c)
    /\ UNCHANGED <<active, result, processes>>

Acquire(c) ==
    /\ waiters # <<>> /\ c = Head(waiters)
    /\ active < MaxParallelism
    /\ waiters' = Tail(waiters)
    /\ active' = active + 1
    /\ Goto(c, "spawning")
    /\ UNCHANGED <<result, processes>>

\* Broken variant: the waiter gives back a slot it never had.
CancelQueuedReleases(c) ==
    /\ pc[c] = "queued"
    /\ waiters' = SelectSeq(waiters, LAMBDA d : d # c)
    /\ Leave(c, "cancelled")
    /\ UNCHANGED processes

CancelQueued(c) ==
    /\ \E i \in 1..Len(waiters) :
          /\ waiters[i] = c
          /\ waiters' = SubSeq(waiters, 1, i - 1) \o SubSeq(waiters, i + 1, Len(waiters))
    /\ Return(c, "cancelled")
    /\ UNCHANGED <<active, processes>>

-----------------------------------------------------------------------------
(* _invoke() and _exchange() *)

Spawn(c) ==
    /\ pc[c] = "spawning"
    /\ worker' = [worker EXCEPT ![c] = "running"]
    /\ Goto(c, "sending")
    /\ UNCHANGED <<waiters, active, helper, stuck, result>>

\* create_subprocess_exec raises; when it is cancelled, it kills and waits for
\* the process it may have started.
SpawnFails(c) ==
    /\ pc[c] = "spawning"
    /\ \E why \in {"failed", "cancelled"} : Leave(c, why)
    /\ UNCHANGED <<waiters, processes>>

\* The caller's deadline had passed before the process was there.
SpawnLate(c) ==
    /\ pc[c] = "spawning"
    /\ worker' = [worker EXCEPT ![c] = "killed"]
    /\ Goto(c, "terminating")
    /\ result' = [result EXCEPT ![c] = "timeout"]
    /\ UNCHANGED <<waiters, active, helper, stuck>>

Sent(c) ==
    /\ pc[c] = "sending"
    /\ Goto(c, "reading")
    /\ UNCHANGED <<waiters, active, result, processes>>

\* drain() raises because nobody will read the rest of the request.
PipeBreaks(c) ==
    /\ pc[c] = "sending"
    /\ worker[c] # "running" \/ "unread" \in Misbehaviours
    /\ Leave(c, "pipe")
    /\ UNCHANGED <<waiters, processes>>

\* The end of both streams, which a helper keeps open, and of the process.
\* The exit code and the response decide about the outcome.
Complete(c) ==
    /\ pc[c] = "reading" /\ worker[c] = "reaped" /\ ~ helper[c]
    /\ \E value \in {"returned", "failed"} : Leave(c, value)
    /\ UNCHANGED <<waiters, processes>>

-----------------------------------------------------------------------------
(* _terminate() *)

\* Broken variant: the worker is left to itself.
Abandon(c, why) == Leave(c, why) /\ UNCHANGED processes

\* The whole session is killed, unless the worker itself is known to have
\* ended; in that case wait() returns at once.
Terminate(c, why) ==
    \/ /\ worker[c] = "reaped"
       /\ Leave(c, why)
       /\ UNCHANGED processes
    \/ /\ worker[c] # "reaped"
       /\ worker' = [worker EXCEPT ![c] = IF @ = "running" THEN "killed" ELSE @]
       /\ helper' = [helper EXCEPT ![c] = FALSE]
       /\ \E left \in BOOLEAN :
             /\ left => "flood" \in Misbehaviours
             /\ stuck' = [stuck EXCEPT ![c] = left]
       /\ Goto(c, "terminating")
       /\ result' = [result EXCEPT ![c] = why]
       /\ UNCHANGED active

Timeout(c) ==
    /\ pc[c] \in {"sending", "reading"}
    /\ Terminate(c, "timeout")
    /\ UNCHANGED waiters

Cancel(c) ==
    /\ pc[c] \in {"sending", "reading"}
    /\ Terminate(c, "cancelled")
    /\ UNCHANGED waiters

\* A stream exceeds its limit; nobody reads on.
TooLong(c) ==
    /\ pc[c] = "reading"
    /\ Terminate(c, "violation")
    /\ UNCHANGED waiters

\* Broken variant: an end that the event loop saw first is missed.
TerminatedByKill(c) ==
    /\ pc[c] = "terminating" /\ worker[c] = "killed"
    /\ Leave(c, result[c])
    /\ UNCHANGED <<waiters, processes>>

\* wait() returns when the process has ended and its pipes are closed, which
\* the event loop notices only once all output has been read.
Terminated(c) ==
    /\ pc[c] = "terminating"
    /\ worker[c] = "reaped" /\ ~ stuck[c]
    /\ Leave(c, result[c])
    /\ UNCHANGED <<waiters, processes>>

\* A second cancellation, during wait().
CancelTerminating(c) ==
    /\ pc[c] = "terminating"
    /\ Leave(c, "cancelled")
    /\ UNCHANGED <<waiters, processes>>

-----------------------------------------------------------------------------
(* The operating system *)

calls == <<pc, waiters, active, result>>

Exit(c) ==
    /\ worker[c] = "running"
    /\ worker' = [worker EXCEPT ![c] = "exited"]
    /\ UNCHANGED <<helper, stuck, calls>>

StartHelper(c) ==
    /\ worker[c] = "running" /\ "helper" \in Misbehaviours
    /\ helper' = [helper EXCEPT ![c] = TRUE]
    /\ UNCHANGED <<worker, stuck, calls>>

HelperExits(c) ==
    /\ helper[c]
    /\ helper' = [helper EXCEPT ![c] = FALSE]
    /\ UNCHANGED <<worker, stuck, calls>>

\* The child watcher reports the end of the process to the event loop.
Reap(c) ==
    /\ worker[c] \in {"exited", "killed"}
    /\ worker' = [worker EXCEPT ![c] = "reaped"]
    /\ UNCHANGED <<helper, stuck, calls>>

-----------------------------------------------------------------------------
(* The specification *)

CallStep(c) ==
    \/ Refuse(c) \/ Queue(c) \/ Acquire(c) \/ CancelQueued(c)
    \/ Spawn(c) \/ SpawnFails(c) \/ SpawnLate(c)
    \/ Sent(c) \/ PipeBreaks(c) \/ Complete(c)
    \/ Timeout(c) \/ Cancel(c) \/ TooLong(c)
    \/ Terminated(c) \/ CancelTerminating(c)

ProcessStep(c) == Exit(c) \/ StartHelper(c) \/ HelperExits(c) \/ Reap(c)

Next == \E c \in Calls : CallStep(c) \/ ProcessStep(c)

Spec == Init /\ [][Next]_vars

(* The event loop runs ready tasks and timers, fork and exec end, killed    *)
(* processes are reaped.  No worker has to do anything.                     *)
FairSpec ==
    /\ Spec
    /\ \A c \in Calls :
          /\ WF_vars(Acquire(c))
          /\ WF_vars(Spawn(c) \/ SpawnFails(c) \/ SpawnLate(c))
          /\ WF_vars(Timeout(c))
          /\ WF_vars(Terminated(c))
          /\ WF_vars(Reap(c))

-----------------------------------------------------------------------------
(* Properties *)

Running == {c \in Calls : worker[c] = "running"}

(* docs/architecture/phase-6-runtime-scaffold.md: "a semaphore-backed       *)
(* parallelism ceiling".  However calls end (deadline, cancellation, once   *)
(* or twice, crash, bad response), no more than MaxParallelism workers run, *)
(* as long as workers read their requests.                                  *)
ParallelismCeiling == Cardinality(Running) <= MaxParallelism

(* The deadline bounds the call, whatever the worker does: every call that  *)
(* has queued for a slot ends.                                              *)
CallsEnd == \A c \in Calls : pc[c] = "queued" ~> pc[c] = "ended"
=============================================================================
