-------------------------- MODULE NestedEventLoop --------------------------
(***************************************************************************)
(* Glass event loops on GTK: the event thread, the InvokeLaterDispatcher   *)
(* thread that hands runnables to the native queue one by one, and the     *)
(* nested loops (EventLoop) that handlers enter and leave.                 *)
(*                                                                         *)
(* A handler is a native event or a runnable.  Handlers and nested loops   *)
(* alternate on the event thread's call stack: handlers[i + 1] runs in the *)
(* loop stack[i], handlers[1] in the main loop.  A handler may do anything *)
(* the toolkit allows in any order: enter a loop, leave any active loop,   *)
(* return.  QuantumToolkit.eventLoopMap has the keys of the active loops.  *)
(***************************************************************************)
EXTENDS Integers, Sequences, FiniteSets

CONSTANTS
    Runnables,       \* runnables the application posts, each once
    Loops,           \* EventLoop objects, each entered once
    Event,           \* the handler of a native event
    None             \* null

ASSUME EventIsNoTask == Event \notin Runnables \cup ({"recheck"} \X Loops)
ASSUME NoneIsNothing ==
    None \notin Runnables \cup ({"recheck"} \X Loops) \cup Loops
ASSUME RunnablesDiffer == Runnables \cap ({"recheck"} \X Loops) = {}

VARIABLES
    deque, dpc, cur,         \* InvokeLaterDispatcher: queue, position, runnable
    nestedEventLoopEntered, leavingNestedEventLoop,
    done,                    \* Futures that are done
    native,                  \* Futures in the native queue
    ready,                   \* of these, gathered by the current iteration
    callers,                 \* runnables whose invokeAndWait caller waits
    direct,                  \* runnables submitted by invokeAndWait
    stack, state,            \* EventLoop.stack and the state of each loop
    handlers,                \* the handlers on the call stack
    quit,                    \* native loops told to quit
    eventLoopExitEnterPassValue,
    posted, started,         \* history: runnables in order of invokeLater, of start
    reentered                \* history: a handler that had left its own loop
                             \* has entered another

dispatcherVars == <<dpc, cur>>
nativeVars == <<native, ready>>
waitVars == <<callers, direct>>
loopVars == <<stack, state, quit, eventLoopExitEnterPassValue>>
history == <<posted, started>>
vars == <<deque, dispatcherVars, nestedEventLoopEntered,
          leavingNestedEventLoop, done, nativeVars, waitVars, loopVars,
          handlers, history, reentered>>

-----------------------------------------------------------------------------
\* The runnable that EventLoop.enter posts when loop l has returned.
Recheck(l) == <<"recheck", l>>
Tasks == Runnables \cup {Recheck(l) : l \in Loops}

SeqRange(s) == {s[i] : i \in 1..Len(s)}
WithoutLast(s) == SubSeq(s, 1, Len(s) - 1)

Innermost == stack[Len(stack)]                            \* stack.peek()
\* The native loop has control: no handler runs in the innermost loop.
InNativeLoop == Len(handlers) = Len(stack)
Quitting == stack # <<>> /\ Innermost \in quit

\* The native enter is about to return to EventLoop.enter.
LoopEnds == InNativeLoop /\ ready = 0 /\ Quitting

Init ==
    /\ deque = <<>> /\ dpc = "take" /\ cur = None
    /\ nestedEventLoopEntered = FALSE /\ leavingNestedEventLoop = FALSE
    /\ done = {} /\ native = <<>> /\ ready = 0
    /\ callers = {} /\ direct = {}
    /\ stack = <<>> /\ state = [l \in Loops |-> "NEW"]
    /\ handlers = <<>> /\ quit = {} /\ eventLoopExitEnterPassValue = None
    /\ posted = <<>> /\ started = <<>> /\ reentered = FALSE

-----------------------------------------------------------------------------
(* Application.invokeLater and invokeAndWait, from any thread.             *)

Fresh(r) == r \notin SeqRange(posted) \cup direct

invokeLater(t) == deque' = Append(deque, t) /\ posted' = Append(posted, t)

PostRunnable(r) ==
    /\ Fresh(r)
    /\ invokeLater(r)
    /\ UNCHANGED <<dispatcherVars, nestedEventLoopEntered,
                   leavingNestedEventLoop, done, nativeVars, waitVars,
                   loopVars, handlers, started, reentered>>

\* invokeAndWait on another thread bypasses the deque ...
invokeAndWait(r) ==
    /\ Fresh(r)
    /\ native' = Append(native, r)
    /\ direct' = direct \cup {r}
    /\ callers' = callers \cup {r}
    /\ UNCHANGED <<deque, dispatcherVars, nestedEventLoopEntered,
                   leavingNestedEventLoop, done, ready, loopVars, handlers,
                   history, reentered>>

\* ... and waits for its own Future only.
CallerReturns(r) ==
    /\ r \in callers \cap done
    /\ callers' = callers \ {r}
    /\ UNCHANGED <<deque, dispatcherVars, nestedEventLoopEntered,
                   leavingNestedEventLoop, done, nativeVars, direct,
                   loopVars, handlers, history, reentered>>

-----------------------------------------------------------------------------
(* InvokeLaterDispatcher.run                                               *)

\* Mutant: the runnable goes to the end of the queue.
putBackLast(r) == deque' = Append(deque, r)

putBack(r) == deque' = <<r>> \o deque                      \* addFirst

TakeFirst ==
    /\ dpc = "take" /\ deque # <<>>
    /\ cur' = Head(deque) /\ deque' = Tail(deque)
    /\ dpc' = "check"
    /\ UNCHANGED <<nestedEventLoopEntered, leavingNestedEventLoop, done,
                   nativeVars, waitVars, loopVars, handlers, history,
                   reentered>>

\* leavingNestedEventLoop is read without the lock, once.
CheckLeaving ==
    /\ dpc = "check"
    /\ \/ /\ leavingNestedEventLoop
          /\ putBack(cur)
          /\ cur' = None /\ dpc' = "deferred"
       \/ /\ ~leavingNestedEventLoop
          /\ dpc' = "submit"
          /\ UNCHANGED <<deque, cur>>
    /\ UNCHANGED <<nestedEventLoopEntered, leavingNestedEventLoop, done,
                   nativeVars, waitVars, loopVars, handlers, history,
                   reentered>>

WaitUntilLeft ==
    /\ dpc = "deferred" /\ ~leavingNestedEventLoop
    /\ dpc' = "take"
    /\ UNCHANGED <<deque, cur, nestedEventLoopEntered,
                   leavingNestedEventLoop, done, nativeVars, waitVars,
                   loopVars, handlers, history, reentered>>

submitForLaterInvocation ==
    /\ dpc = "submit"
    /\ native' = Append(native, cur)
    /\ dpc' = "await"
    /\ UNCHANGED <<deque, cur, nestedEventLoopEntered,
                   leavingNestedEventLoop, done, ready, waitVars, loopVars,
                   handlers, history, reentered>>

\* Mutant: entering a nested loop does not end the wait.
AwaitDone ==
    /\ dpc = "await"
    /\ cur \in done
    /\ nestedEventLoopEntered' = FALSE
    /\ cur' = None /\ dpc' = "take"
    /\ UNCHANGED <<deque, leavingNestedEventLoop, done, nativeVars, waitVars,
                   loopVars, handlers, history, reentered>>

\* The wait ends when the Future is done or any nested loop was entered.
AwaitFuture ==
    /\ dpc = "await"
    /\ cur \in done \/ nestedEventLoopEntered
    /\ nestedEventLoopEntered' = FALSE
    /\ cur' = None /\ dpc' = "take"
    /\ UNCHANGED <<deque, leavingNestedEventLoop, done, nativeVars, waitVars,
                   loopVars, handlers, history, reentered>>

-----------------------------------------------------------------------------
(* The event thread: handlers started by the native loop.  One iteration   *)
(* of the GLib main loop gathers the idle sources that are ready, runs     *)
(* them all, and only then looks whether it has to quit; events have       *)
(* priority and an iteration of their own.                                 *)

HandleEvent ==
    /\ InNativeLoop /\ ready = 0 /\ ~Quitting
    /\ handlers' = Append(handlers, Event)
    /\ UNCHANGED <<deque, dispatcherVars, nestedEventLoopEntered,
                   leavingNestedEventLoop, done, nativeVars, waitVars,
                   loopVars, history, reentered>>

\* The next source of this iteration, or the first one of a new iteration.
DispatchNative ==
    /\ InNativeLoop /\ native # <<>>
    /\ \/ ready > 0 /\ ready' = ready - 1
       \/ ready = 0 /\ ~Quitting /\ ready' = Len(native) - 1
    /\ native' = Tail(native)
    /\ started' = IF Head(native) \in direct THEN started
                  ELSE Append(started, Head(native))

RunRunnable ==
    /\ DispatchNative
    /\ Head(native) \in Runnables
    /\ handlers' = Append(handlers, Head(native))
    /\ UNCHANGED <<deque, dispatcherVars, nestedEventLoopEntered,
                   leavingNestedEventLoop, done, waitVars, loopVars, posted,
                   reentered>>

\* What the event thread tells the dispatcher, under its LOCK.
\* Mutant: the dispatcher is not told.
notifyNothing == UNCHANGED nestedEventLoopEntered

notifyEnteringNestedEventLoop == nestedEventLoopEntered' = TRUE
notifyLeavingNestedEventLoop == leavingNestedEventLoop' = TRUE
notifyLeftNestedEventLoop == leavingNestedEventLoop' = FALSE

\* Application.leaveNestedEventLoop(l): gtk_main_quit ends the innermost loop.
leaveNestedEventLoop(l) ==
    /\ notifyLeavingNestedEventLoop
    /\ eventLoopExitEnterPassValue' = l
    /\ quit' = quit \cup {Innermost}

\* Mutant: the outer loop is left with the value of the inner one.
RunRecheckOwn ==
    /\ DispatchNative
    /\ Head(native) \notin Runnables
    /\ IF stack # <<>> /\ state[Innermost] = "LEAVING"
       THEN leaveNestedEventLoop(Head(native)[2])
       ELSE UNCHANGED <<leavingNestedEventLoop, quit,
                        eventLoopExitEnterPassValue>>
    /\ done' = done \cup {Head(native)}
    /\ UNCHANGED <<deque, dispatcherVars, nestedEventLoopEntered, waitVars,
                   stack, state, handlers, posted, reentered>>

\* The runnable posted by EventLoop.enter checks the stack again.
RunRecheck ==
    /\ DispatchNative
    /\ Head(native) \notin Runnables
    /\ IF stack # <<>> /\ state[Innermost] = "LEAVING"
       THEN leaveNestedEventLoop(Innermost)
       ELSE UNCHANGED <<leavingNestedEventLoop, quit,
                        eventLoopExitEnterPassValue>>
    /\ done' = done \cup {Head(native)}
    /\ UNCHANGED <<deque, dispatcherVars, nestedEventLoopEntered, waitVars,
                   stack, state, handlers, posted, reentered>>

\* A handler returns or throws; Future.run marks itself done either way.
HandlerReturns ==
    /\ ~InNativeLoop
    /\ handlers' = WithoutLast(handlers)
    /\ done' = done \cup ({handlers[Len(handlers)]} \ {Event})
    /\ UNCHANGED <<deque, dispatcherVars, nestedEventLoopEntered,
                   leavingNestedEventLoop, nativeVars, waitVars, loopVars,
                   history, reentered>>

-----------------------------------------------------------------------------
(* What a running handler may do with nested loops.                        *)

\* A nested iteration of GLib drops what the outer one had gathered.
enter(l) ==
    /\ ~InNativeLoop
    /\ state[l] = "NEW"
    /\ state' = [state EXCEPT ![l] = "ACTIVE"]
    /\ stack' = Append(stack, l)
    /\ notifyEnteringNestedEventLoop
    /\ ready' = 0
    /\ reentered' = (reentered \/ Quitting)
    /\ UNCHANGED <<deque, dispatcherVars, leavingNestedEventLoop, done,
                   native, waitVars, quit, eventLoopExitEnterPassValue,
                   handlers, history>>

\* Mutant: the innermost loop is quit for any loop.
AnyLoop(l) == TRUE

IsInnermost(l) == Innermost = l

leave(l) ==
    /\ ~InNativeLoop
    /\ state[l] = "ACTIVE"
    /\ state' = [state EXCEPT ![l] = "LEAVING"]
    /\ IF IsInnermost(l)
       THEN leaveNestedEventLoop(l)
       ELSE UNCHANGED <<leavingNestedEventLoop, quit,
                        eventLoopExitEnterPassValue>>
    /\ UNCHANGED <<deque, dispatcherVars, nestedEventLoopEntered, done,
                   nativeVars, waitVars, stack, handlers, history,
                   reentered>>

\* Once the innermost loop is popped, the next one was left before.
\* Mutant: the outer loop is forgotten.
OuterLoopForgotten == FALSE

OuterLoopLeaving ==
    Len(stack) > 1 /\ state[stack[Len(stack) - 1]] = "LEAVING"

\* The native loop returns into EventLoop.enter, and that into its handler.
LoopReturns ==
    /\ LoopEnds
    /\ eventLoopExitEnterPassValue' = None
    /\ notifyLeftNestedEventLoop
    /\ quit' = quit \ {Innermost}
    /\ state' = [state EXCEPT ![Innermost] = "IDLE"]
    /\ stack' = WithoutLast(stack)
    /\ IF OuterLoopLeaving
       THEN invokeLater(Recheck(Innermost))
       ELSE UNCHANGED <<deque, posted>>
    /\ UNCHANGED <<dispatcherVars, nestedEventLoopEntered, done, nativeVars,
                   waitVars, handlers, started, reentered>>

-----------------------------------------------------------------------------
Dispatcher ==
    TakeFirst \/ CheckLeaving \/ WaitUntilLeft \/ submitForLaterInvocation
        \/ AwaitFuture

Next ==
    \/ \E r \in Runnables :
          PostRunnable(r) \/ invokeAndWait(r) \/ CallerReturns(r)
    \/ TakeFirst \/ CheckLeaving \/ WaitUntilLeft
    \/ submitForLaterInvocation \/ AwaitFuture
    \/ HandleEvent \/ RunRunnable \/ RunRecheck \/ HandlerReturns
    \/ \E l \in Loops : enter(l) \/ leave(l)
    \/ LoopReturns

Spec == Init /\ [][Next]_vars

\* The threads run, handlers return, and events leave the queue idle at times.
FairSpec ==
    /\ Spec
    /\ WF_vars(Dispatcher)
    /\ WF_vars(HandlerReturns)
    /\ WF_vars(LoopReturns)
    /\ SF_vars(RunRunnable \/ RunRecheck)

-----------------------------------------------------------------------------
(* Properties                                                              *)

LoopStates == {"NEW", "ACTIVE", "LEAVING", "IDLE"}

\* Every variable has its type, and handlers and loops alternate on the
\* event thread's stack.
TypeOK ==
    /\ deque \in Seq(Tasks) /\ native \in Seq(Tasks)
    /\ dpc \in {"take", "check", "submit", "await", "deferred"}
    /\ cur \in Tasks \cup {None}
    /\ (cur = None) <=> (dpc \in {"take", "deferred"})
    /\ nestedEventLoopEntered \in BOOLEAN /\ leavingNestedEventLoop \in BOOLEAN
    /\ done \subseteq Tasks /\ ready \in 0..Len(native)
    /\ callers \subseteq direct /\ direct \subseteq Runnables
    /\ stack \in Seq(Loops) /\ state \in [Loops -> LoopStates]
    /\ handlers \in Seq(Runnables \cup {Event})
    /\ Len(handlers) - Len(stack) \in {0, 1}
    /\ quit \subseteq Loops
    /\ eventLoopExitEnterPassValue \in Loops \cup {None}
    /\ posted \in Seq(Tasks) /\ started \in Seq(Tasks)
    /\ reentered \in BOOLEAN

\* Whatever has started or is to start, in that order: what invokeAndWait has
\* submitted is in between, until it starts.
Taken == IF dpc \in {"check", "submit"} THEN <<cur>> ELSE <<>>
Line == started \o native \o Taken \o deque

PostedBefore(t, u) ==
    \E i, j \in DOMAIN posted : i < j /\ posted[i] = t /\ posted[j] = u

\* Runnables start in the order in which they were posted and none is lost,
\* whatever is deferred, put back or overtaken by invokeAndWait.
RunsInPostedOrder ==
    /\ SeqRange(posted) = SeqRange(Line) \ direct
    /\ \A i, j \in DOMAIN Line :
          i < j /\ Line[i] \notin direct /\ Line[j] \notin direct =>
              PostedBefore(Line[i], Line[j])

\* EventLoop.enter: only a loop that was told to leave is made to return, and
\* the stack holds exactly the loops that are active or leaving, each once.
OnlyLeavingLoopsReturn ==
    /\ \A l \in quit : state[l] = "LEAVING"
    /\ SeqRange(stack) = {l \in Loops : state[l] \in {"ACTIVE", "LEAVING"}}
    /\ \A i, j \in 1..Len(stack) : stack[i] = stack[j] => i = j

\* The dispatcher never waits for a Future that is suspended in a nested loop
\* without having been told to carry on, nor for one that cannot run any more.
DispatcherMovesOn ==
    dpc = "await" =>
        /\ cur \in SeqRange(native) \cup SeqRange(handlers) \cup done
        /\ (\E i \in 1..Len(stack) : handlers[i] = cur)
              => nestedEventLoopEntered

\* Runnables are held back only while a native loop is on its way out, whose
\* return will release them.
LeavingFlagEnds == leavingNestedEventLoop => quit # {}

\* The loops and what the dispatcher knows of them fit together: typed state,
\* a stack of just the entered loops, and a hold-back that a return will end.
LoopsConsistent == TypeOK /\ OnlyLeavingLoopsReturn /\ LeavingFlagEnds

\* EventLoop.enter asserts "ret == this" when its native loop has returned.
\* It does unless a handler has entered a loop after leaving its own.
ReturnsOwnLoop ==
    LoopEnds /\ ~reentered => eventLoopExitEnterPassValue = Innermost

\* Every runnable passed to invokeLater is executed at some time ...
EveryRunnableRuns ==
    \A r \in Runnables :
        r \in SeqRange(posted) ~> r \in SeqRange(started)

\* ... if no handler enters a loop after leaving its own.
PostedRunnablesRun ==
    \A r \in Runnables :
        r \in SeqRange(posted) ~> r \in SeqRange(started) \/ reentered

\* A loop that was told to leave does not stay innermost for ever: it returns
\* as soon as no inner loop is left, through the recheck that is posted then.
LeavingLoopReturns ==
    \A l \in Loops :
        LET Stuck == state[l] = "LEAVING" /\ stack # <<>> /\ Innermost = l
        IN  Stuck ~> ~Stuck
=============================================================================
