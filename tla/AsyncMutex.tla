----------------------------- MODULE AsyncMutex -----------------------------
(***************************************************************************)
(* The tokio::sync::Mutex around the registry, from how the code uses it:  *)
(* lock().await queues the task, dropping the guard hands the lock to the  *)
(* first task in the queue, and dropping a future that waits in lock()     *)
(* takes its task out of the queue or gives back a lock it was handed and  *)
(* has not used yet.                                                      *)
(***************************************************************************)
EXTENDS Naturals, Sequences, SequencesExt

CONSTANTS
    Task,       \* the tasks that use the mutex
    Nobody      \* the mutex is free

ASSUME NobodyAssumption == Nobody \notin Task

VARIABLES
    holder,     \* the task that holds the lock, or Nobody
    waiters     \* the tasks in lock().await, in the order they came

mutexVars == <<holder, waiters>>

\* The holder is a task or nobody, the queue one of tasks.
MutexTypeOK ==
    /\ holder \in Task \cup {Nobody}
    /\ waiters \in Seq(Task)

MutexInit(first) == holder = first /\ waiters = <<>>

\* lock().await is polled for the first time.
LockBy(task) ==
    IF holder = Nobody
    THEN holder' = task /\ UNCHANGED waiters
    ELSE waiters' = Append(waiters, task) /\ UNCHANGED holder

\* The guard is dropped.
Unlock ==
    IF waiters = <<>>
    THEN holder' = Nobody /\ UNCHANGED waiters
    ELSE holder' = Head(waiters) /\ waiters' = Tail(waiters)

\* The future of a task in lock().await is dropped.
Abandon(task) ==
    IF holder = task
    THEN Unlock
    ELSE /\ \E i \in 1 .. Len(waiters) : /\ waiters[i] = task
                                        /\ waiters' = RemoveAt(waiters, i)
         /\ UNCHANGED holder
=============================================================================
