---------------------------- MODULE Application ----------------------------
(***************************************************************************)
(* A JavaFX application with a Task: the platform of PlatformImpl and a    *)
(* worker thread that runs Task.call, publishes values on the way and      *)
(* reports the outcome through Platform.runLater, while the task may be    *)
(* cancelled on the FX thread or off it.                                   *)
(*                                                                         *)
(* A Task has two states that have to agree in the end: the one of         *)
(* FutureTask, which the worker and a canceller race for, and the Worker   *)
(* state that the FX thread sets.                                          *)
(***************************************************************************)
EXTENDS PlatformImpl

CONSTANTS
    MaxUpdates,     \* values the task publishes before its result
    TaskActs        \* the share of MaxActs that an application with a task
                    \* gives up

VARIABLES
    future,         \* of FutureTask: "new", "completed", "cancelled"
    state,          \* the Worker state, on the FX thread
    call,           \* where the worker thread is
    outcome,        \* how Task.call has ended
    updates,        \* the last value published
    valueUpdate,    \* the reference that coalesces values; 0 is null
    value           \* the value property, on the FX thread

taskVars == <<future, state, call, outcome, updates, valueUpdate, value>>
vars == <<pvars, taskVars>>

TaskItems == {"running", "update", "succeeded", "failed", "cancelled"}
Result == MaxUpdates + 1

ASSUME ApplicationAssumption ==
    /\ OtherItems = TaskItems
    /\ "worker" \in Threads
    /\ MaxUpdates \in Nat /\ TaskActs \in 1..MaxActs

TypeOK ==
    /\ PlatformTypeOK
    /\ future \in {"new", "completed", "cancelled"}
    /\ state \in {"READY", "RUNNING", "SUCCEEDED", "FAILED", "CANCELLED"}
    /\ call \in {"none", "submitted", "calling", "returned", "done"}
    /\ outcome \in {"none", "SUCCEEDED", "FAILED"}
    /\ updates \in 0..MaxUpdates
    /\ valueUpdate \in 0..MaxUpdates
    /\ value \in 0..Result

Init ==
    /\ PlatformInit
    /\ future = "new" /\ state = "READY" /\ call = "none"
    /\ outcome = "none" /\ updates = 0 /\ valueUpdate = 0 /\ value = 0

-----------------------------------------------------------------------------
(* The worker thread.                                                      *)

WorkerFree == posting["worker"] = "none"

KeepPlatform == UNCHANGED <<exitVars, launchVars, stack, fx, waiting, acts>>

\* Application code hands the task to a thread.
Submit ==
    /\ InUserCode /\ acts + TaskActs <= MaxActs
    /\ acts' = acts + TaskActs
    /\ call = "none" /\ call' = "submitted"
    /\ UNCHANGED <<idleVars, exitVars, launchVars, stack, fx, posting, waiting,
                   future, state, outcome, updates, valueUpdate, value>>

\* FutureTask.run does nothing for a task that was cancelled before.
CallBegins ==
    /\ call = "submitted"
    /\ IF future = "new"
         THEN call' = "calling" /\ Count("worker", "running")
         ELSE call' = "done" /\ UNCHANGED <<idleVars, posting>>
    /\ KeepPlatform
    /\ UNCHANGED <<future, state, outcome, updates, valueUpdate, value>>

\* Task.updateValue: only the first value since the last runnable posts one.
UpdateValue ==
    /\ call = "calling" /\ WorkerFree /\ updates < MaxUpdates
    /\ updates' = updates + 1
    /\ valueUpdate' = updates + 1
    /\ IF valueUpdate = 0 THEN Count("worker", "update")
                          ELSE UNCHANGED <<idleVars, posting>>
    /\ KeepPlatform
    /\ UNCHANGED <<future, state, call, outcome, value>>

\* Task.call returns: the result is posted unless the task is cancelled.
CallReturns ==
    /\ call = "calling" /\ WorkerFree
    /\ call' = "returned"
    /\ outcome' = "SUCCEEDED"
    /\ IF future = "cancelled" THEN UNCHANGED <<idleVars, posting>>
                               ELSE Count("worker", "succeeded")
    /\ KeepPlatform
    /\ UNCHANGED <<future, state, updates, valueUpdate, value>>

\* Task.call throws: the failure is posted even if the task is cancelled.
CallThrows ==
    /\ call = "calling" /\ WorkerFree
    /\ call' = "returned"
    /\ outcome' = "FAILED"
    /\ Count("worker", "failed")
    /\ KeepPlatform
    /\ UNCHANGED <<future, state, updates, valueUpdate, value>>

\* FutureTask.set or setException.
FutureSet ==
    /\ call = "returned" /\ WorkerFree
    /\ call' = "done"
    /\ future' = IF future = "new" THEN "completed" ELSE future
    /\ KeepPlatform
    /\ UNCHANGED <<idleVars, posting, state, outcome, updates, valueUpdate,
                   value>>

Worker == CallBegins \/ UpdateValue \/ CallReturns \/ CallThrows \/ FutureSet

-----------------------------------------------------------------------------
(* On the FX thread.                                                       *)

\* Mutant: the outcome also overwrites CANCELLED.
SetStateAlways(s) == state' = s

SetState(s) == state' = IF state = "CANCELLED" THEN state ELSE s

TakeValueUpdate == value' = valueUpdate /\ valueUpdate' = 0

RunTaskRunnable ==
    /\ RunShort(TaskItems)
    /\ CASE Head(queue) = "running" ->
              SetState("RUNNING") /\ UNCHANGED <<valueUpdate, value>>
         [] Head(queue) = "update" ->
              TakeValueUpdate /\ UNCHANGED state
         [] Head(queue) = "succeeded" ->
              /\ value' = Result
              /\ SetState("SUCCEEDED") /\ UNCHANGED valueUpdate
         [] Head(queue) = "failed" ->
              SetState("FAILED") /\ UNCHANGED <<valueUpdate, value>>
         [] Head(queue) = "cancelled" ->
              SetState("CANCELLED") /\ UNCHANGED <<valueUpdate, value>>
    /\ UNCHANGED <<future, call, outcome, updates>>

-----------------------------------------------------------------------------
(* Task.cancel.                                                            *)

\* FutureTask.cancel
CancelFuture == call # "none" /\ future = "new" /\ future' = "cancelled"

\* On the FX thread, in an event handler, the state is set at once.
CancelOnFX ==
    /\ InUserCode \/ Dispatching
    /\ CancelFuture
    /\ SetState("CANCELLED")
    /\ UNCHANGED <<idleVars, exitVars, launchVars, stack, fx, posting, waiting,
                   acts, call, outcome, updates, valueUpdate, value>>

\* Off it the state is posted.
CancelOffFX ==
    /\ OtherFree
    /\ CancelFuture
    /\ Count("other", "cancelled")
    /\ UNCHANGED <<exitVars, launchVars, stack, fx, waiting, acts, state, call,
                   outcome, updates, valueUpdate, value>>

-----------------------------------------------------------------------------

Platform == PlatformNext /\ UNCHANGED taskVars

Next == Platform \/ Worker \/ RunTaskRunnable
        \/ Submit \/ CancelOnFX \/ CancelOffFX

Runs(t) ==
    /\ \/ Defer(t)
       \/ AwaitDone(t)
       \/ t = "launcher" /\ Launcher
    /\ UNCHANGED taskVars

\* Every thread is scheduled: runLater and runAndWait go through, the launcher
\* goes on, and so does the FX thread, whose application code ends and leaves
\* its nested loops.
Fairness ==
    /\ WF_vars((FX /\ UNCHANGED taskVars) \/ RunTaskRunnable)
    /\ \A t \in Threads : WF_vars(Runs(t))

Spec == Init /\ [][Next]_vars /\ Fairness

-----------------------------------------------------------------------------
(* Properties.                                                             *)

Terminated == fx = "terminated"

RunnableFrames == {i \in DOMAIN stack : stack[i].item # "event"}

\* pendingRunnables counts the runnables that are queued, running, or about
\* to be queued, whatever the exit of the toolkit refuses: the idle check
\* relies on it to be zero exactly when there are none.
PendingCounts ==
    ~Terminated =>
        pendingRunnables = Len(queue) + Cardinality(RunnableFrames)
            + Cardinality({t \in Threads : posting[t] # "none"})

\* "In case there is an event in process, allow for it to show another
\* window" (PlatformImpl.java:409): hiding the last window never finds the
\* application idle, and neither does a runnable that ends inside the nested
\* loop of a handler, as long as the toolkit is not exiting.  Two callers of
\* checkIdle are not so careful: a handler that has closed the last window is
\* still on the stack when it leaves its nested loop ("loop") or calls
\* setImplicitExit ("implicitExit"), and the application may then be taken for
\* idle although the handler could show another window.
HandlerMayGoOn ==
    /\ fx # "window"
    /\ fx = "runnable" /\ ~toolkitExit => stack = <<>>

\* What the idle check relies on, in one invariant: typed fields, a count that
\* is right, and no idleness found by closing a window or under a handler that
\* waits in a nested loop.
IdleConsistent == TypeOK /\ PendingCounts /\ HandlerMayGoOn

\* Every runnable that runLater accepts is run before the toolkit is gone,
\* unless the FX thread exits it directly.
AcceptedIsRun == Terminated /\ ~direct => queue = <<>>

\* An application that has been started is stopped before the toolkit exits,
\* also when start has failed.
StopBeforeExit == Terminated /\ startCalled => stopRun

TaskItemsPending ==
    \/ \E i \in DOMAIN queue : queue[i] \in TaskItems
    \/ \E t \in Threads : posting[t] \in TaskItems

\* Once everything a task posted has been run, the Worker state is the one of
\* the Future: cancelled if cancel() returned true, else as the call ended.
StateAgreesWithFuture ==
    call = "done" /\ ~TaskItemsPending /\ ~toolkitExit =>
        state = IF future = "cancelled" THEN "CANCELLED" ELSE outcome

\* The last value published reaches the value property however the updates
\* are coalesced, and no older one replaces the result.
LastValueArrives ==
    ~TaskItemsPending /\ ~toolkitExit =>
        \/ value = Result /\ outcome = "SUCCEEDED"
        \/ value = updates /\ (outcome = "SUCCEEDED" => future = "cancelled")

\* What a task shows on the FX thread once all it has posted has been run:
\* the state of its future and its last value.
TaskConsistent == StateAgreesWithFuture /\ LastValueArrives

\* An application exits once Platform.exit has been called, or with implicit
\* exit once its last window stays closed.
ExitsInTheEnd ==
    <>[](platformExit \/ (firstWindowShown /\ numWindows = 0 /\ implicitExit))
        => <>Terminated

\* A thread in runAndWait is not left waiting, unless the FX thread exits the
\* toolkit directly or from within the runnable.
RunAndWaitReturns ==
    waiting["other"] = "waits" ~>
        \/ waiting["other"] = "no"
        \/ direct
        \/ Terminated /\ stack # <<>>
=============================================================================
