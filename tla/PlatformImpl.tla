---------------------------- MODULE PlatformImpl ----------------------------
(***************************************************************************)
(* PlatformImpl and LauncherImpl: runLater, the idle check and the exit of *)
(* a JavaFX application.                                                   *)
(*                                                                         *)
(* The FX application thread runs events and the runnables that other      *)
(* threads post.  When the last window has been closed and no runnable is  *)
(* pending it queues a dummy runnable, to let an event in progress show    *)
(* another window, and takes the application for idle when that has run.   *)
(* The launcher thread waits for this, or for Platform.exit, calls         *)
(* Application.stop and exits the toolkit.                                 *)
(*                                                                         *)
(* runLater is two steps: pendingRunnables is incremented first, and the   *)
(* runnable deferred later, under runLaterLock.                            *)
(***************************************************************************)
EXTENDS Integers, Sequences, FiniteSets

CONSTANTS
    Threads,        \* the threads that post runnables, the launcher among them
    OtherItems,     \* runnables that are not the platform's own
    MaxWindows,
    MaxActs         \* how many events arrive, things application code does and
                    \* calls other threads make, together

ASSUME ThreadsAssumption ==
    IsFiniteSet(Threads) /\ {"launcher", "other"} \subseteq Threads

ASSUME BoundsAssumption == MaxWindows \in Nat /\ MaxActs \in Nat

VARIABLES
    platformExit, toolkitExit, implicitExit, pendingRunnables, numWindows,
    firstWindowShown, lastWindowClosed, reallyIdle,
    finishListeners,        \* the launcher's listener is in the set
    listenersRegistered,
    queue,          \* runnables deferred to Glass
    stack,          \* what runs on the FX thread; the last one is on top
    fx,             \* "run", or whose idle check is about to notify the
                    \* listeners, or how far the exit has got
    posting,        \* what a thread has counted but not deferred yet
    waiting,        \* the threads inside runAndWait, as far as they have got
    launcher,       \* where the launcher thread is
    startCalled, exitCalled, shutdownLatch, error,
    stopRun,        \* Application.stop has been run
    direct,         \* the toolkit was exited without a queued runnable
    acts

idleVars == <<firstWindowShown, lastWindowClosed, reallyIdle, numWindows,
              pendingRunnables, queue>>
exitVars == <<platformExit, toolkitExit, implicitExit, finishListeners,
              listenersRegistered, exitCalled, shutdownLatch, direct>>
launchVars == <<launcher, startCalled, error, stopRun>>
pvars == <<idleVars, exitVars, launchVars, stack, fx, posting, waiting, acts>>

Waiting == {"user", "start", "stop"}    \* posted by runAndWait
UserCode == Waiting \cup {"event", "later"}
Callers == {"window", "loop", "runnable", "implicitExit"}   \* of checkIdle
Items == {"dummy", "exit", "later"} \cup Waiting \cup OtherItems
LauncherSteps == {"init", "starting", "started", "stopping", "remove",
                  "unregister", "checking", "exiting", "done"}

PlatformTypeOK ==
    /\ {platformExit, toolkitExit, implicitExit, firstWindowShown,
        lastWindowClosed, reallyIdle, finishListeners, listenersRegistered,
        startCalled, exitCalled, shutdownLatch, error, stopRun,
        direct} \subseteq BOOLEAN
    /\ pendingRunnables \in Nat
    /\ numWindows \in 0..MaxWindows
    /\ queue \in Seq(Items)
    /\ stack \in Seq([item : UserCode \cup {"finally"}, nested : BOOLEAN])
    /\ fx \in {"run", "exiting", "terminated"} \cup Callers
    /\ posting \in [Threads -> Items \cup {"none"}]
    /\ waiting \in [Threads -> {"no", "posted", "waits", "exits"}]
    /\ launcher \in LauncherSteps
    /\ acts \in 0..MaxActs

\* The toolkit has been started and the launcher's listener registered.
PlatformInit ==
    /\ platformExit = FALSE /\ toolkitExit = FALSE /\ implicitExit = TRUE
    /\ pendingRunnables = 0 /\ numWindows = 0
    /\ firstWindowShown = FALSE /\ lastWindowClosed = FALSE
    /\ reallyIdle = FALSE
    /\ finishListeners = TRUE /\ listenersRegistered = TRUE
    /\ queue = <<>> /\ stack = <<>> /\ fx = "run"
    /\ posting = [t \in Threads |-> "none"]
    /\ waiting = [t \in Threads |-> "no"]
    /\ launcher = "init" /\ startCalled = FALSE /\ exitCalled = FALSE
    /\ shutdownLatch = FALSE /\ error = FALSE /\ stopRun = FALSE
    /\ direct = FALSE /\ acts = 0

-----------------------------------------------------------------------------
(* runLater.                                                               *)

\* pendingRunnables.incrementAndGet()
Count(t, r) ==
    /\ posting[t] = "none"
    /\ posting' = [posting EXCEPT ![t] = r]
    /\ pendingRunnables' = pendingRunnables + 1
    /\ UNCHANGED <<firstWindowShown, lastWindowClosed, reallyIdle, numWindows,
                   queue>>

\* Mutant: runnables are accepted after the toolkit has begun to exit.
DeferAfterExit(t) ==
    /\ posting[t] # "none"
    /\ posting' = [posting EXCEPT ![t] = "none"]
    /\ queue' = Append(queue, posting[t])
    /\ UNCHANGED <<firstWindowShown, lastWindowClosed, reallyIdle, numWindows,
                   pendingRunnables, exitVars, launchVars, stack, fx,
                   waiting, acts>>

\* The rest, under runLaterLock: nothing but the exit itself is accepted
\* once the toolkit has begun to exit.
Defer(t) ==
    /\ posting[t] # "none"
    /\ posting' = [posting EXCEPT ![t] = "none"]
    /\ IF toolkitExit /\ posting[t] # "exit"
         THEN pendingRunnables' = pendingRunnables - 1 /\ UNCHANGED queue
         ELSE queue' = Append(queue, posting[t]) /\ UNCHANGED pendingRunnables
    /\ UNCHANGED <<firstWindowShown, lastWindowClosed, reallyIdle, numWindows,
                   exitVars, launchVars, stack, fx, waiting, acts>>

\* runAndWait: unless the thread itself is exiting the toolkit, it looks
\* once, after runLater, whether the toolkit has exited.
RunAndWait(t, r) ==
    /\ Count(t, r)
    /\ waiting' = [waiting EXCEPT ![t] = IF r = "exit" THEN "exits" ELSE "posted"]

\* Mutant: the thread does not look.
AwaitDoneBlindly(t) ==
    /\ waiting[t] = "posted" /\ posting[t] = "none"
    /\ waiting' = [waiting EXCEPT ![t] = "waits"]
    /\ UNCHANGED <<idleVars, exitVars, launchVars, stack, fx, posting, acts>>

AwaitDone(t) ==
    /\ waiting[t] = "posted" /\ posting[t] = "none"
    /\ waiting' = [waiting EXCEPT ![t] = IF toolkitExit THEN "no" ELSE "waits"]
    /\ UNCHANGED <<idleVars, exitVars, launchVars, stack, fx, posting, acts>>

\* doneLatch.countDown(), which may come before the thread looks and waits.
Release(t) == waiting' = [waiting EXCEPT ![t] = "no"]

-----------------------------------------------------------------------------
(* The idle check, on the FX thread.                                       *)

\* Mutant: the listeners are notified by the first check that finds the
\* application idle.
CheckIdleAtOnce(who, windows, pending, q, nested) ==
    LET closed == windows = 0 /\ (lastWindowClosed \/ firstWindowShown)
        idle   == closed /\ pending = 0 /\ (toolkitExit \/ ~nested)
    IN  /\ numWindows' = windows
        /\ firstWindowShown' = (firstWindowShown \/ windows > 0)
        /\ lastWindowClosed' = (closed /\ ~idle)
        /\ fx' = IF idle THEN who ELSE "run"
        /\ queue' = q /\ pendingRunnables' = pending
        /\ UNCHANGED reallyIdle

\* checkIdle with so many windows, and with the runnables pending and queued
\* that the caller leaves.
CheckIdle(who, windows, pending, q, nested) ==
    LET closed == windows = 0 /\ (lastWindowClosed \/ firstWindowShown)
        idle   == closed /\ pending = 0 /\ (toolkitExit \/ ~nested)
    IN  /\ numWindows' = windows
        /\ firstWindowShown' = (firstWindowShown \/ windows > 0)
        /\ lastWindowClosed' = (closed /\ ~(idle /\ reallyIdle))
        /\ reallyIdle' = (idle \/ (reallyIdle /\ windows = 0))
        /\ fx' = IF idle /\ reallyIdle THEN who ELSE "run"
        /\ IF idle /\ ~reallyIdle /\ ~toolkitExit
             THEN queue' = Append(q, "dummy") /\ pendingRunnables' = pending + 1
             ELSE queue' = q /\ pendingRunnables' = pending

NestedLoopRunning(s) == \E i \in DOMAIN s : s[i].nested

-----------------------------------------------------------------------------
(* The FX thread.                                                          *)

Top == stack[Len(stack)]
Under == SubSeq(stack, 1, Len(stack) - 1)
Frame(item) == [item |-> item, nested |-> FALSE]

\* An event loop, the outermost or a nested one, waits for something to do.
Dispatching == fx = "run" /\ (stack # <<>> => Top.nested)

InUserCode == fx = "run" /\ stack # <<>> /\ ~Top.nested /\ Top.item \in UserCode

EventArrives ==
    /\ Dispatching /\ acts < MaxActs
    /\ acts' = acts + 1
    /\ stack' = Append(stack, Frame("event"))
    /\ UNCHANGED <<idleVars, exitVars, launchVars, fx, posting, waiting>>

\* A runnable with application code begins.
RunUserCode ==
    /\ Dispatching /\ queue # <<>>
    /\ Head(queue) \in UserCode
    /\ queue' = Tail(queue)
    /\ stack' = Append(stack, Frame(Head(queue)))
    /\ startCalled' = (startCalled \/ Head(queue) = "start")
    /\ UNCHANGED <<firstWindowShown, lastWindowClosed, reallyIdle, numWindows,
                   pendingRunnables, exitVars, launcher, error, stopRun,
                   fx, posting, waiting, acts>>

\* One without runs and is done with: pendingRunnables is decremented and
\* the idle check made.
RunShort(items) ==
    /\ Dispatching /\ queue # <<>>
    /\ Head(queue) \in items
    /\ CheckIdle("runnable", numWindows, pendingRunnables - 1, Tail(queue),
                 NestedLoopRunning(stack))
    /\ UNCHANGED <<exitVars, launchVars, stack, posting, waiting, acts>>

\* The runnable of tkExit: Toolkit.exit.  The check made after it finds the
\* toolkit exited and starts nothing any more.
RunExit ==
    /\ Dispatching /\ queue # <<>>
    /\ Head(queue) = "exit"
    /\ queue' = Tail(queue)
    /\ fx' = "terminated"
    /\ waiting' = [t \in Threads |->
                    IF waiting[t] = "exits" THEN "no" ELSE waiting[t]]
    /\ UNCHANGED <<firstWindowShown, lastWindowClosed, reallyIdle, numWindows,
                   pendingRunnables, exitVars, launchVars, stack,
                   posting, acts>>

\* Application code shows or hides a window.  Hiding tells the listeners a
\* second time when the peer is closed: the check is repeated at once and
\* comes to the same end, or finds the dummy runnable pending.
ChangeWindows(n) ==
    /\ InUserCode /\ acts < MaxActs
    /\ acts' = acts + 1
    /\ CheckIdle("window", n, pendingRunnables, queue, NestedLoopRunning(stack))
    /\ UNCHANGED <<exitVars, launchVars, stack, posting, waiting>>

Show == numWindows < MaxWindows /\ ChangeWindows(numWindows + 1)
Hide == numWindows > 0 /\ ChangeWindows(numWindows - 1)

EnterNestedLoop ==
    /\ InUserCode /\ acts < MaxActs
    /\ acts' = acts + 1
    /\ ~NestedLoopRunning(stack)
    /\ stack' = Append(Under, [Top EXCEPT !.nested = TRUE])
    /\ UNCHANGED <<idleVars, exitVars, launchVars, fx, posting, waiting>>

\* Mutant: no idle check when the last nested loop ends.
LeaveNestedLoopOnly ==
    /\ fx = "run" /\ stack # <<>> /\ Top.nested
    /\ stack' = Append(Under, [Top EXCEPT !.nested = FALSE])
    /\ UNCHANGED <<idleVars, exitVars, launchVars, fx, posting, waiting, acts>>

\* The loop is left, and exitedLastNestedLoop called.
LeaveNestedLoop ==
    /\ fx = "run" /\ stack # <<>> /\ Top.nested
    /\ LET left == Append(Under, [Top EXCEPT !.nested = FALSE])
       IN  /\ stack' = left
           /\ CheckIdle("loop", numWindows, pendingRunnables, queue,
                        NestedLoopRunning(left))
    /\ UNCHANGED <<exitVars, launchVars, posting, waiting, acts>>

\* Platform.setImplicitExit on the FX thread.
SetImplicitExit(b) ==
    /\ InUserCode /\ acts < MaxActs
    /\ acts' = acts + 1
    /\ implicitExit' = b
    /\ CheckIdle("implicitExit", numWindows, pendingRunnables, queue,
                 NestedLoopRunning(stack))
    /\ UNCHANGED <<platformExit, toolkitExit, finishListeners,
                   listenersRegistered, exitCalled, shutdownLatch, direct,
                   launchVars, stack, posting, waiting>>

\* Application code ends.  Of a runnable the latch of runAndWait is counted
\* down first; start may end with an exception.
EndUserCode ==
    /\ InUserCode
    /\ stack' = IF Top.item = "event" THEN Under
                ELSE Append(Under, Frame("finally"))
    /\ CASE Top.item \in {"start", "stop"} -> Release("launcher")
         [] Top.item = "user" -> Release("other")
         [] OTHER -> UNCHANGED waiting
    /\ error' \in {error, error \/ Top.item = "start"}
    /\ stopRun' = (stopRun \/ Top.item = "stop")
    /\ UNCHANGED <<idleVars, exitVars, launcher, startCalled, fx, posting, acts>>

\* The runnable is done with: pendingRunnables is decremented and the idle
\* check made.
Finally ==
    /\ fx = "run" /\ stack # <<>> /\ Top.item = "finally"
    /\ stack' = Under
    /\ CheckIdle("runnable", numWindows, pendingRunnables - 1, queue,
                 NestedLoopRunning(Under))
    /\ UNCHANGED <<exitVars, launchVars, posting, waiting, acts>>

\* notifyFinishListeners(false).
NotifyIdle ==
    /\ fx \in Callers
    /\ shutdownLatch' = (shutdownLatch
           \/ (listenersRegistered /\ finishListeners
                 /\ implicitExit /\ startCalled))
    /\ LET tkExit == /\ ~listenersRegistered
                     /\ implicitExit \/ platformExit
                     /\ ~toolkitExit
       IN  /\ fx' = IF tkExit THEN "exiting" ELSE "run"
           /\ toolkitExit' = (toolkitExit \/ tkExit)
           /\ direct' = (direct \/ tkExit)
    /\ UNCHANGED <<idleVars, platformExit, implicitExit, finishListeners,
                   listenersRegistered, exitCalled, launchVars, stack, posting,
                   waiting, acts>>

\* tkExit on the FX thread calls Toolkit.exit itself.
ExitDirectly ==
    /\ fx = "exiting"
    /\ fx' = "terminated"
    /\ UNCHANGED <<idleVars, exitVars, launchVars, stack, posting, waiting,
                   acts>>

\* Platform.exit on the FX thread.
ExitCalled ==
    /\ InUserCode /\ acts < MaxActs
    /\ acts' = acts + 1
    /\ platformExit' = TRUE
    /\ exitCalled' = (exitCalled \/ (listenersRegistered /\ finishListeners))
    /\ shutdownLatch' = (shutdownLatch
                           \/ (listenersRegistered /\ finishListeners))
    /\ LET tkExit == ~listenersRegistered /\ ~toolkitExit
       IN  /\ fx' = IF tkExit THEN "exiting" ELSE "run"
           /\ toolkitExit' = (toolkitExit \/ tkExit)
           /\ direct' = (direct \/ tkExit)
    /\ UNCHANGED <<idleVars, implicitExit, finishListeners, listenersRegistered,
                   launchVars, stack, posting, waiting>>

FX ==
    \/ RunUserCode \/ RunShort({"dummy"}) \/ RunExit \/ LeaveNestedLoop \/ EndUserCode
    \/ Finally \/ NotifyIdle \/ ExitDirectly
FXActs ==
    \/ EventArrives \/ Show \/ Hide \/ EnterNestedLoop \/ ExitCalled
    \/ \E b \in BOOLEAN : SetImplicitExit(b)

-----------------------------------------------------------------------------
(* The launcher thread.                                                    *)

LauncherReady == posting["launcher"] = "none" /\ waiting["launcher"] = "no"

Launch(from, to) == launcher = from /\ launcher' = to /\ LauncherReady

KeepLaunch == UNCHANGED <<startCalled, error, stopRun, stack, fx, acts>>

\* Application.init has returned, and start is called unless exit has been.
LauncherStart ==
    /\ IF exitCalled
         THEN Launch("init", "started") /\ UNCHANGED <<idleVars, posting, waiting>>
         ELSE Launch("init", "starting") /\ RunAndWait("launcher", "start")
    /\ UNCHANGED exitVars /\ KeepLaunch

\* The application's constructor or its init throws.
LauncherInitFails ==
    /\ Launch("init", "started")
    /\ error' = TRUE
    /\ UNCHANGED <<idleVars, exitVars, posting, waiting, startCalled, stopRun,
                   stack, fx, acts>>

LauncherStarted ==
    /\ Launch("starting", "started")
    /\ UNCHANGED <<idleVars, exitVars, posting, waiting>> /\ KeepLaunch

\* Mutant: an application whose start failed is not stopped.
LauncherStopUnlessFailed ==
    /\ error \/ shutdownLatch
    /\ IF startCalled /\ ~error
         THEN Launch("started", "stopping") /\ RunAndWait("launcher", "stop")
         ELSE Launch("started", "remove") /\ UNCHANGED <<idleVars, posting, waiting>>
    /\ UNCHANGED exitVars /\ KeepLaunch

\* Start has failed, or the latch has been counted down.
LauncherStop ==
    /\ error \/ shutdownLatch
    /\ IF startCalled
         THEN Launch("started", "stopping") /\ RunAndWait("launcher", "stop")
         ELSE Launch("started", "remove") /\ UNCHANGED <<idleVars, posting, waiting>>
    /\ UNCHANGED exitVars /\ KeepLaunch

LauncherStopped ==
    /\ Launch("stopping", "remove")
    /\ UNCHANGED <<idleVars, exitVars, posting, waiting>> /\ KeepLaunch

\* removeListener, which ends with an idle check posted to the FX thread.
RemoveListener ==
    /\ Launch("remove", "unregister")
    /\ finishListeners' = FALSE
    /\ UNCHANGED <<idleVars, platformExit, toolkitExit, implicitExit,
                   listenersRegistered, exitCalled, shutdownLatch, direct,
                   posting, waiting>> /\ KeepLaunch

Unregister ==
    /\ Launch("unregister", "checking")
    /\ listenersRegistered' = FALSE
    /\ Count("launcher", "dummy")
    /\ UNCHANGED <<platformExit, toolkitExit, implicitExit, finishListeners,
                   exitCalled, shutdownLatch, direct, waiting>> /\ KeepLaunch

TkExit ==
    /\ toolkitExit' = TRUE
    /\ IF toolkitExit
         THEN Launch("checking", "done") /\ UNCHANGED <<idleVars, posting, waiting>>
         ELSE Launch("checking", "exiting") /\ RunAndWait("launcher", "exit")
    /\ UNCHANGED <<platformExit, implicitExit, finishListeners,
                   listenersRegistered, exitCalled, shutdownLatch,
                   direct>> /\ KeepLaunch

LauncherDone ==
    /\ Launch("exiting", "done")
    /\ UNCHANGED <<idleVars, exitVars, posting, waiting>> /\ KeepLaunch

Launcher ==
    \/ LauncherStart \/ LauncherInitFails \/ LauncherStarted \/ LauncherStop
    \/ LauncherStopped \/ RemoveListener \/ Unregister \/ TkExit \/ LauncherDone

-----------------------------------------------------------------------------
(* Any other thread.                                                       *)

OtherFree == posting["other"] = "none" /\ waiting["other"] = "no"

OtherActs == OtherFree /\ acts < MaxActs /\ acts' = acts + 1

OtherPosts ==
    /\ OtherActs
    /\ \/ Count("other", "later") /\ UNCHANGED waiting
       \/ RunAndWait("other", "user")
    /\ UNCHANGED <<exitVars, launchVars, stack, fx>>

\* Platform.setImplicitExit: the idle check is posted.
OtherSetsImplicitExit(b) ==
    /\ OtherActs
    /\ implicitExit' = b
    /\ Count("other", "dummy")
    /\ UNCHANGED <<platformExit, toolkitExit, finishListeners,
                   listenersRegistered, exitCalled, shutdownLatch, direct,
                   launchVars, stack, fx, waiting>>

\* Platform.exit; without a listener the toolkit is exited from here.
OtherExits ==
    /\ OtherActs
    /\ platformExit' = TRUE
    /\ exitCalled' = (exitCalled \/ (listenersRegistered /\ finishListeners))
    /\ shutdownLatch' = (shutdownLatch
                           \/ (listenersRegistered /\ finishListeners))
    /\ IF listenersRegistered \/ toolkitExit
         THEN UNCHANGED <<idleVars, toolkitExit, posting, waiting>>
         ELSE toolkitExit' = TRUE /\ RunAndWait("other", "exit")
    /\ UNCHANGED <<implicitExit, finishListeners, listenersRegistered, direct,
                   launchVars, stack, fx>>

Other ==
    \/ OtherPosts \/ OtherExits
    \/ \E b \in BOOLEAN : OtherSetsImplicitExit(b)

Posting == \E t \in Threads : Defer(t) \/ AwaitDone(t)

PlatformNext == FX \/ FXActs \/ Launcher \/ Other \/ Posting

=============================================================================
