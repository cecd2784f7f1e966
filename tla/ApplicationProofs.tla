------------------------- MODULE ApplicationProofs -------------------------
(***************************************************************************)
(* Proofs about an application with a task: it is stopped before its      *)
(* toolkit exits, what is accepted is run, the idle check counts right,    *)
(* and the task shows the state of its future and its last value, for any  *)
(* number of threads, windows, events, updates and calls.                  *)
(***************************************************************************)
EXTENDS Application, SequenceTheorems, FiniteSetTheorems, TLAPS

Frames == [item : UserCode \cup {"finally"}, nested : BOOLEAN]

LauncherTypes ==
    /\ {toolkitExit, listenersRegistered, startCalled, stopRun} \subseteq BOOLEAN
    /\ queue \in Seq(Items)
    /\ stack \in Seq(Frames)
    /\ posting \in [Threads -> Items \cup {"none"}]
    /\ waiting \in [Threads -> {"no", "posted", "waits", "exits"}]
    /\ launcher \in LauncherSteps

\* What is in the queue and on the stack, and start only once.
In(q, item) == \E k \in 1..Len(q) : q[k] = item
Once(q) == \A j, k \in 1..Len(q) : q[j] = "start" /\ q[k] = "start" => j = k
InFrames(s, item) == \E k \in 1..Len(s) : s[k].item = item
OnceInFrames(s) ==
    \A j, k \in 1..Len(s) : s[j].item = "start" /\ s[k].item = "start" => j = k

Queued(item) == In(queue, item)
Running(item) == InFrames(stack, item)

StartAwaited == launcher = "starting" /\ waiting["launcher"] \in {"posted", "waits"}

\* The start of the application is in one place only, and as long as it is
\* anywhere the launcher waits for it.
StartOnce ==
    /\ posting["launcher"] = "start" \/ Queued("start") \/ Running("start")
         => StartAwaited
    /\ posting["launcher"] = "start" => ~Queued("start") /\ ~Running("start")
    /\ Queued("start") => ~Running("start")
    /\ Once(queue) /\ OnceInFrames(stack)

\* Only the launcher posts start and stop, and stop only at the end.
StopLate ==
    /\ \A t \in Threads \ {"launcher"} : posting[t] \notin {"start", "stop"}
    /\ posting["launcher"] = "stop" \/ Queued("stop") \/ Running("stop")
         => launcher \notin {"init", "starting", "started"}

\* The listener is there until the launcher has removed it, and the toolkit
\* does not exit before.
ExitOrder ==
    /\ ~listenersRegistered <=> launcher \in {"checking", "exiting", "done"}
    /\ toolkitExit => ~listenersRegistered
    /\ fx \in {"exiting", "terminated"} => toolkitExit
    /\ \A t \in Threads : posting[t] = "exit" => toolkitExit
    /\ Queued("exit") => toolkitExit

\* Whoever is past the call of stop has seen it run.
StopSeen ==
    /\ launcher = "stopping" =>
          stopRun \/ waiting["launcher"] \in {"posted", "waits"}
    /\ launcher \in {"remove", "unregister", "checking", "exiting", "done"} =>
          (startCalled => stopRun)

LauncherInv ==
    LauncherTypes /\ StartOnce /\ StopLate /\ ExitOrder /\ StopSeen

-----------------------------------------------------------------------------
(* What popping and pushing do to a sequence.                              *)

\* A runnable that is queued joins those in the queue.
LEMMA QueueAppend ==
    ASSUME NEW q \in Seq(Items), NEW e \in Items
    PROVE  /\ Append(q, e) \in Seq(Items)
           /\ \A i : In(Append(q, e), i) <=> In(q, i) \/ i = e
           /\ Once(q) /\ (e = "start" => ~In(q, "start")) => Once(Append(q, e))
  <1> DEFINE a == Append(q, e)
  <1>1. /\ a \in Seq(Items) /\ Len(a) = Len(q) + 1 /\ Len(q) \in Nat
        /\ \A i \in 1..Len(q) : a[i] = q[i]
        /\ a[Len(q) + 1] = e
    BY AppendProperties, LenProperties
  <1> HIDE DEF a
  <1>2. \A i : In(a, i) <=> In(q, i) \/ i = e
    <2>1. \A k \in 1..Len(q) : k \in 1..Len(a)
      BY <1>1
    <2>2. \A k \in 1..Len(a) : k \in 1..Len(q) \/ k = Len(q) + 1
      BY <1>1
    <2>3. Len(q) + 1 \in 1..Len(a)
      BY <1>1
    <2> QED
      BY <1>1, <2>1, <2>2, <2>3 DEF In
  <1>3. Once(q) /\ (e = "start" => ~In(q, "start")) => Once(a)
    <2>1. \A k \in 1..Len(a) : k \in 1..Len(q) \/ k = Len(q) + 1
      BY <1>1
    <2> QED
      BY <1>1, <2>1 DEF In, Once
  <1> QED
    BY <1>1, <1>2, <1>3 DEF a

\* A runnable that is taken out is the only one that may disappear.
LEMMA QueueTail ==
    ASSUME NEW q \in Seq(Items), q # <<>>
    PROVE  /\ Tail(q) \in Seq(Items)
           /\ \A i : In(Tail(q), i) => In(q, i)
           /\ In(q, Head(q)) /\ Head(q) \in Items
           /\ Once(q) => Once(Tail(q))
           /\ Once(q) /\ Head(q) = "start" => ~In(Tail(q), "start")
  <1> DEFINE r == Tail(q)
  <1>1. /\ r \in Seq(Items) /\ Len(r) = Len(q) - 1 /\ Len(q) \in Nat \ {0}
        /\ \A i \in 1..Len(r) : r[i] = q[i + 1]
        /\ Head(q) \in Items
    BY HeadTailProperties, EmptySeq
  <1>2. Head(q) = q[1]
    OBVIOUS
  <1>3. 1 \in 1..Len(q) /\ \A i \in 1..Len(r) : i + 1 \in 1..Len(q) /\ i + 1 # 1
    BY <1>1
  <1> HIDE DEF r
  <1>4. \A i : In(r, i) => In(q, i)
    BY <1>1, <1>3 DEF In
  <1>5. In(q, Head(q))
    BY <1>2, <1>3 DEF In
  <1>6. Once(q) => Once(r)
    <2>1. SUFFICES ASSUME Once(q), NEW j \in 1..Len(r), NEW k \in 1..Len(r),
                          r[j] = "start", r[k] = "start"
                   PROVE  j = k
      BY DEF Once
    <2>2. j + 1 = k + 1
      BY <1>1, <1>3, <2>1 DEF Once
    <2> QED
      BY <2>2
  <1>7. Once(q) /\ Head(q) = "start" => ~In(r, "start")
    BY <1>1, <1>2, <1>3 DEF In, Once
  <1> QED
    BY <1>1, <1>4, <1>5, <1>6, <1>7 DEF r

\* A frame that is pushed joins those on the stack.
LEMMA StackPush ==
    ASSUME NEW s \in Seq(Frames), NEW f \in Frames
    PROVE  /\ Append(s, f) \in Seq(Frames)
           /\ \A i : InFrames(Append(s, f), i) <=> InFrames(s, i) \/ i = f.item
           /\ OnceInFrames(s) /\ (f.item = "start" => ~InFrames(s, "start"))
                => OnceInFrames(Append(s, f))
  <1> DEFINE a == Append(s, f)
  <1>1. /\ a \in Seq(Frames) /\ Len(a) = Len(s) + 1 /\ Len(s) \in Nat
        /\ \A i \in 1..Len(s) : a[i] = s[i]
        /\ a[Len(s) + 1] = f
    BY AppendProperties, LenProperties
  <1> HIDE DEF a
  <1>2. /\ \A k \in 1..Len(s) : k \in 1..Len(a)
        /\ \A k \in 1..Len(a) : k \in 1..Len(s) \/ k = Len(s) + 1
        /\ Len(s) + 1 \in 1..Len(a)
    BY <1>1
  <1>3. \A i : InFrames(a, i) <=> InFrames(s, i) \/ i = f.item
    BY <1>1, <1>2 DEF InFrames
  <1>4. OnceInFrames(s) /\ (f.item = "start" => ~InFrames(s, "start"))
          => OnceInFrames(a)
    BY <1>1, <1>2 DEF InFrames, OnceInFrames
  <1> QED
    BY <1>1, <1>3, <1>4 DEF a

\* The frames under the top one are those of the stack.
LEMMA StackPop ==
    ASSUME stack \in Seq(Frames), stack # <<>>
    PROVE  /\ Under \in Seq(Frames) /\ Top \in Frames
           /\ Len(Under) = Len(stack) - 1
           /\ \A i \in 1..Len(stack) - 1 : Under[i] = stack[i]
           /\ \A i : InFrames(Under, i) => InFrames(stack, i)
           /\ InFrames(stack, Top.item)
           /\ OnceInFrames(stack) => OnceInFrames(Under)
           /\ OnceInFrames(stack) /\ Top.item = "start"
                => ~InFrames(Under, "start")
  <1> DEFINE n == Len(stack)
  <1>1. n \in Nat \ {0} /\ \A i \in 1..n : stack[i] \in Frames
    BY EmptySeq, ElementOfSeq
  <1>2. /\ Under \in Seq(Frames) /\ Len(Under) = n - 1
        /\ \A i \in 1..n - 1 : Under[i] = stack[i]
    <2>1. \A i \in 1..n - 1 : stack[i] \in Frames
      BY <1>1
    <2>2. /\ Under \in Seq(Frames)
          /\ Len(Under) = IF 1 <= n - 1 THEN n - 1 - 1 + 1 ELSE 0
          /\ \A i \in 1..n - 1 - 1 + 1 : Under[i] = stack[1 + i - 1]
      BY <1>1, <2>1, SubSeqProperties DEF Under
    <2>3. Len(Under) = n - 1
      <3> HIDE DEF n
      <3>1. n \in Nat \ {0} /\ Len(Under) = IF 1 <= n - 1 THEN n - 1 - 1 + 1 ELSE 0
        BY <1>1, <2>2
      <3> QED
        BY <3>1
    <2>4. \A i \in 1..n - 1 : i \in 1..n - 1 - 1 + 1 /\ 1 + i - 1 = i
      BY <1>1
    <2> HIDE DEF n
    <2>5. \A i \in 1..n - 1 : Under[i] = stack[i]
      BY <2>2, <2>4
    <2> QED
      BY <2>2, <2>3, <2>5
  <1>3. /\ Top = stack[n] /\ n \in 1..n
        /\ \A k \in 1..Len(Under) : k \in 1..n /\ k # n
    BY <1>1, <1>2 DEF Top
  <1>9. Top \in Frames
    BY <1>1, <1>3
  <1> HIDE DEF n
  <1>4. DOMAIN stack = 1..n /\ n = Len(stack)
    BY LenProperties DEF n
  <1>5. \A i : InFrames(Under, i) => InFrames(stack, i)
    BY <1>2, <1>3, <1>4 DEF InFrames
  <1>6. InFrames(stack, Top.item)
    BY <1>3, <1>4 DEF InFrames
  <1>7. OnceInFrames(stack) => OnceInFrames(Under)
    BY <1>2, <1>3, <1>4 DEF OnceInFrames
  <1>8. OnceInFrames(stack) /\ Top.item = "start" => ~InFrames(Under, "start")
    BY <1>2, <1>3, <1>4 DEF InFrames, OnceInFrames
  <1> QED
    BY <1>2, <1>4, <1>5, <1>6, <1>7, <1>8, <1>9

-----------------------------------------------------------------------------
(* What the steps have in common.                                          *)

\* The idle check queues nothing but the dummy runnable.
LEMMA IdleCheck ==
    ASSUME NEW q \in Seq(Items), NEW who, NEW windows, NEW pending, NEW nested,
           CheckIdle(who, windows, pending, q, nested)
    PROVE  /\ queue' \in Seq(Items)
           /\ \A i : In(queue', i) => In(q, i) \/ i = "dummy"
           /\ Once(q) => Once(queue')
           /\ fx' \in {who, "run"}
  <1>1. "dummy" \in Items
    BY DEF Items
  <1>2. queue' = q \/ queue' = Append(q, "dummy")
    BY DEF CheckIdle
  <1>3. fx' \in {who, "run"}
    BY DEF CheckIdle
  <1> QED
    BY <1>1, <1>2, <1>3, QueueAppend

\* The exit is announced by toolkitExit, and only without listeners.
ExitStep ==
    /\ toolkitExit' \in BOOLEAN
    /\ toolkitExit => toolkitExit'
    /\ toolkitExit' => ~listenersRegistered
    /\ fx' \in {"exiting", "terminated"} => toolkitExit'

\* A step that lets no start, stop or exit appear and leaves the threads and
\* the launcher alone preserves the invariant.
LEMMA QuietStep ==
    ASSUME LauncherInv, ExitStep,
           queue' \in Seq(Items), Once(queue'),
           \A i : In(queue', i) => In(queue, i) \/ i \in OtherItems \cup {"dummy"},
           stack' \in Seq(Frames), OnceInFrames(stack'),
           \A i : InFrames(stack', i) =>
                    InFrames(stack, i) \/ i \in {"event", "finally"},
           UNCHANGED <<posting, waiting, launcher, startCalled, stopRun,
                       listenersRegistered>>
    PROVE  LauncherInv'
  <1>1. \A i \in {"start", "stop", "exit"} : i \notin OtherItems \cup {"dummy"}
    BY ApplicationAssumption DEF TaskItems
  <1>2. /\ Queued("start")' => Queued("start")
        /\ Queued("stop")' => Queued("stop")
        /\ Queued("exit")' => Queued("exit")
        /\ Running("start")' => Running("start")
        /\ Running("stop")' => Running("stop")
    BY <1>1 DEF Queued, Running
  <1>3. LauncherTypes'
    BY DEF LauncherInv, LauncherTypes, ExitStep
  <1>4. StartOnce'
    BY <1>2 DEF LauncherInv, StartOnce, StartAwaited
  <1>5. StopLate'
    BY <1>2 DEF LauncherInv, StopLate
  <1>6. ExitOrder'
    BY <1>2 DEF LauncherInv, ExitOrder, ExitStep
  <1>7. StopSeen'
    BY DEF LauncherInv, StopSeen
  <1> QED
    BY <1>3, <1>4, <1>5, <1>6, <1>7 DEF LauncherInv

\* So does a thread other than the launcher that begins to post something.
LEMMA PostingStep ==
    ASSUME LauncherInv, ExitStep,
           NEW t \in Threads \ {"launcher"},
           NEW r \in Items \ {"start", "stop"},
           r = "exit" => toolkitExit',
           NEW w \in {"no", "posted", "waits", "exits"},
           posting' = [posting EXCEPT ![t] = r],
           waiting' = [waiting EXCEPT ![t] = w],
           UNCHANGED <<queue, stack, launcher, startCalled, stopRun,
                       listenersRegistered>>
    PROVE  LauncherInv'
  <1> "launcher" \in Threads
    BY ThreadsAssumption
  <1>1. /\ posting'["launcher"] = posting["launcher"]
        /\ waiting'["launcher"] = waiting["launcher"]
    BY DEF LauncherInv, LauncherTypes
  <1>2. UNCHANGED <<Queued("start"), Queued("stop"), Queued("exit"),
                    Running("start"), Running("stop")>>
    BY DEF Queued, Running
  <1>3. LauncherTypes'
    BY DEF LauncherInv, LauncherTypes, ExitStep
  <1>4. StartOnce'
    BY <1>1, <1>2 DEF LauncherInv, StartOnce, StartAwaited
  <1>5. StopLate'
    <2>1. \A u \in Threads \ {"launcher"} : posting'[u] \notin {"start", "stop"}
      BY DEF LauncherInv, LauncherTypes, StopLate
    <2> QED
      BY <1>1, <1>2, <2>1 DEF LauncherInv, StopLate
  <1>6. ExitOrder'
    <2>1. \A u \in Threads : posting'[u] = "exit" => toolkitExit'
      BY DEF LauncherInv, LauncherTypes, ExitOrder, ExitStep
    <2> QED
      BY <1>2, <2>1 DEF LauncherInv, ExitOrder, ExitStep
  <1>7. StopSeen'
    BY <1>1 DEF LauncherInv, StopSeen
  <1> QED
    BY <1>3, <1>4, <1>5, <1>6, <1>7 DEF LauncherInv

-----------------------------------------------------------------------------
(* The FX thread.                                                          *)

\* A step on the FX thread that starts no exit.
LEMMA NoExit ==
    ASSUME LauncherInv, fx' \notin {"exiting", "terminated"}, UNCHANGED toolkitExit
    PROVE  ExitStep
  BY DEF LauncherInv, LauncherTypes, ExitOrder, ExitStep

\* What the invariant says of queue and stack.
LEMMA Contents ==
    ASSUME LauncherInv
    PROVE  /\ queue \in Seq(Items) /\ Once(queue)
           /\ stack \in Seq(Frames) /\ OnceInFrames(stack)
  BY DEF LauncherInv, LauncherTypes, StartOnce

\* An idle check with the queue and the stack as they are.
LEMMA IdleCheckStep ==
    ASSUME LauncherInv,
           NEW who \in Callers, NEW windows, NEW pending, NEW nested,
           CheckIdle(who, windows, pending, queue, nested),
           stack' \in Seq(Frames), OnceInFrames(stack'),
           \A i : InFrames(stack', i) =>
                    InFrames(stack, i) \/ i \in {"event", "finally"},
           UNCHANGED <<posting, waiting, launcher, startCalled, stopRun,
                       listenersRegistered, toolkitExit>>
    PROVE  LauncherInv'
  <1>1. queue \in Seq(Items) /\ Once(queue)
    BY Contents
  <1>2. /\ queue' \in Seq(Items) /\ Once(queue') /\ fx' \in {who, "run"}
        /\ \A i : In(queue', i) => In(queue, i) \/ i = "dummy"
    BY <1>1, IdleCheck
  <1>3. ExitStep
    BY <1>2, NoExit DEF Callers
  <1> QED
    BY <1>2, <1>3, QuietStep

\* Frames are pushed and replaced as the invariant expects.
LEMMA FrameTypes ==
    /\ \A item \in UserCode \cup {"finally"} :
          Frame(item) \in Frames /\ Frame(item).item = item
    /\ \A f \in Frames : \A b \in BOOLEAN :
          [f EXCEPT !.nested = b] \in Frames /\ [f EXCEPT !.nested = b].item = f.item
  BY DEF Frames, Frame

\* The top frame enters or leaves a nested loop.
LEMMA NestedStack ==
    ASSUME LauncherInv, stack # <<>>, NEW b \in BOOLEAN
    PROVE  LET s == Append(Under, [Top EXCEPT !.nested = b])
           IN  /\ s \in Seq(Frames) /\ OnceInFrames(s)
               /\ \A i : InFrames(s, i) => InFrames(stack, i)
  <1>1. /\ Under \in Seq(Frames) /\ Top \in Frames
        /\ \A i : InFrames(Under, i) => InFrames(stack, i)
        /\ InFrames(stack, Top.item)
        /\ OnceInFrames(Under)
        /\ Top.item = "start" => ~InFrames(Under, "start")
    BY Contents, StackPop
  <1>2. [Top EXCEPT !.nested = b] \in Frames /\ [Top EXCEPT !.nested = b].item = Top.item
    BY <1>1, FrameTypes
  <1> QED
    BY <1>1, <1>2, StackPush

\* Steps of the FX thread that keep the stack or end a frame.
LEMMA FXQuiet ==
    ASSUME LauncherInv,
           \/ RunShort({"dummy"} \cup OtherItems) \/ LeaveNestedLoop \/ Finally
           \/ NotifyIdle \/ ExitDirectly \/ FXActs
    PROVE  LauncherInv'
  <1>0. /\ queue \in Seq(Items) /\ Once(queue)
        /\ stack \in Seq(Frames) /\ OnceInFrames(stack)
    BY Contents
  <1>1. CASE RunShort({"dummy"} \cup OtherItems)
    <2>1. queue # <<>>
      BY <1>1 DEF RunShort
    <2>2. /\ Tail(queue) \in Seq(Items) /\ Once(Tail(queue))
          /\ \A i : In(Tail(queue), i) => In(queue, i)
      BY <1>0, <2>1, QueueTail
    <2>3. /\ queue' \in Seq(Items) /\ Once(queue') /\ fx' \in {"runnable", "run"}
          /\ \A i : In(queue', i) => In(Tail(queue), i) \/ i = "dummy"
      BY <1>1, <2>2, IdleCheck DEF RunShort
    <2>4. UNCHANGED <<stack, posting, waiting, launcher, startCalled, stopRun,
                      listenersRegistered, toolkitExit>>
      BY <1>1 DEF RunShort, exitVars, launchVars
    <2>5. ExitStep
      BY <2>3, <2>4, NoExit
    <2> QED
      BY <1>0, <2>2, <2>3, <2>4, <2>5, QuietStep
  <1>2. CASE LeaveNestedLoop
    <2>1. stack # <<>>
      BY <1>2 DEF LeaveNestedLoop
    <2> DEFINE left == Append(Under, [Top EXCEPT !.nested = FALSE])
    <2>2. /\ left \in Seq(Frames) /\ OnceInFrames(left)
          /\ \A i : InFrames(left, i) => InFrames(stack, i)
      BY <2>1, NestedStack
    <2>3. /\ stack' = left
          /\ CheckIdle("loop", numWindows, pendingRunnables, queue,
                       NestedLoopRunning(left))
          /\ UNCHANGED <<posting, waiting, launcher, startCalled, stopRun,
                         listenersRegistered, toolkitExit>>
      BY <1>2 DEF LeaveNestedLoop, exitVars, launchVars
    <2> HIDE DEF left
    <2> "loop" \in Callers
      BY DEF Callers
    <2> QED
      BY <2>2, <2>3, IdleCheckStep
  <1>3. CASE Finally
    <2>1. /\ stack # <<>> /\ stack' = Under
          /\ CheckIdle("runnable", numWindows, pendingRunnables - 1, queue,
                       NestedLoopRunning(Under))
          /\ UNCHANGED <<posting, waiting, launcher, startCalled, stopRun,
                         listenersRegistered, toolkitExit>>
      BY <1>3 DEF Finally, exitVars, launchVars
    <2>2. /\ Under \in Seq(Frames) /\ OnceInFrames(Under)
          /\ \A i : InFrames(Under, i) => InFrames(stack, i)
      BY <1>0, <2>1, StackPop
    <2> "runnable" \in Callers
      BY DEF Callers
    <2> QED
      BY <2>1, <2>2, IdleCheckStep
  <1>4. CASE NotifyIdle
    <2>1. ExitStep
      BY <1>4 DEF NotifyIdle, LauncherInv, LauncherTypes, ExitOrder, ExitStep
    <2>2. UNCHANGED <<queue, stack, posting, waiting, launcher, startCalled,
                      stopRun, listenersRegistered>>
      BY <1>4 DEF NotifyIdle, idleVars, launchVars
    <2> QED
      BY <1>0, <2>1, <2>2, QuietStep
  <1>5. CASE ExitDirectly
    <2>1. ExitStep
      BY <1>5 DEF ExitDirectly, exitVars, LauncherInv, LauncherTypes, ExitOrder,
                  ExitStep
    <2>2. UNCHANGED <<queue, stack, posting, waiting, launcher, startCalled,
                      stopRun, listenersRegistered>>
      BY <1>5 DEF ExitDirectly, idleVars, exitVars, launchVars
    <2> QED
      BY <1>0, <2>1, <2>2, QuietStep
  <1>6. CASE EventArrives
    <2>1. /\ stack' = Append(stack, Frame("event")) /\ fx' = "run"
          /\ UNCHANGED <<queue, posting, waiting, launcher, startCalled,
                         stopRun, listenersRegistered, toolkitExit>>
      BY <1>6 DEF EventArrives, Dispatching, idleVars, exitVars, launchVars
    <2>2. Frame("event") \in Frames /\ Frame("event").item = "event"
      BY FrameTypes DEF UserCode
    <2>3. /\ stack' \in Seq(Frames) /\ OnceInFrames(stack')
          /\ \A i : InFrames(stack', i) => InFrames(stack, i) \/ i = "event"
      BY <1>0, <2>1, <2>2, StackPush
    <2>4. ExitStep
      BY <2>1, NoExit
    <2> QED
      BY <1>0, <2>1, <2>3, <2>4, QuietStep
  <1>7. CASE \E n \in {numWindows - 1, numWindows + 1} : ChangeWindows(n)
    <2>1. PICK n : ChangeWindows(n)
      BY <1>7
    <2>2. /\ CheckIdle("window", n, pendingRunnables, queue,
                       NestedLoopRunning(stack))
          /\ UNCHANGED <<stack, posting, waiting, launcher, startCalled,
                         stopRun, listenersRegistered, toolkitExit>>
      BY <2>1 DEF ChangeWindows, exitVars, launchVars
    <2> "window" \in Callers
      BY DEF Callers
    <2> QED
      BY <1>0, <2>2, IdleCheckStep
  <1>8. CASE EnterNestedLoop
    <2>1. /\ stack # <<>> /\ fx' = "run"
          /\ stack' = Append(Under, [Top EXCEPT !.nested = TRUE])
          /\ UNCHANGED <<queue, posting, waiting, launcher, startCalled,
                         stopRun, listenersRegistered, toolkitExit>>
      BY <1>8 DEF EnterNestedLoop, InUserCode, idleVars, exitVars, launchVars
    <2>2. /\ stack' \in Seq(Frames) /\ OnceInFrames(stack')
          /\ \A i : InFrames(stack', i) => InFrames(stack, i)
      BY <2>1, NestedStack
    <2>3. ExitStep
      BY <2>1, NoExit
    <2> QED
      BY <1>0, <2>1, <2>2, <2>3, QuietStep
  <1>9. CASE ExitCalled
    <2>1. ExitStep
      BY <1>9 DEF ExitCalled, LauncherInv, LauncherTypes, ExitOrder, ExitStep
    <2>2. UNCHANGED <<queue, stack, posting, waiting, launcher, startCalled,
                      stopRun, listenersRegistered>>
      BY <1>9 DEF ExitCalled, idleVars, launchVars
    <2> QED
      BY <1>0, <2>1, <2>2, QuietStep
  <1>10. CASE \E b \in BOOLEAN : SetImplicitExit(b)
    <2>1. PICK b \in BOOLEAN : SetImplicitExit(b)
      BY <1>10
    <2>2. /\ CheckIdle("implicitExit", numWindows, pendingRunnables, queue,
                       NestedLoopRunning(stack))
          /\ UNCHANGED <<stack, posting, waiting, launcher, startCalled,
                         stopRun, listenersRegistered, toolkitExit>>
      BY <2>1 DEF SetImplicitExit, launchVars
    <2> "implicitExit" \in Callers
      BY DEF Callers
    <2> QED
      BY <1>0, <2>2, IdleCheckStep
  <1> QED
    BY <1>1, <1>2, <1>3, <1>4, <1>5, <1>6, <1>7, <1>8, <1>9, <1>10
       DEF FXActs, Show, Hide

\* A runnable with application code moves from the queue to the stack.
LEMMA RunUserCodeStep ==
    ASSUME LauncherInv, RunUserCode
    PROVE  LauncherInv'
  <1> DEFINE r == Head(queue)
  <1>0. /\ queue \in Seq(Items) /\ Once(queue)
        /\ stack \in Seq(Frames) /\ OnceInFrames(stack)
    BY Contents
  <1>1. /\ queue # <<>> /\ r \in UserCode
        /\ queue' = Tail(queue) /\ stack' = Append(stack, Frame(r))
        /\ startCalled' = (startCalled \/ r = "start") /\ fx' = fx
        /\ UNCHANGED <<posting, waiting, launcher, stopRun, toolkitExit,
                       listenersRegistered>>
    BY DEF RunUserCode, exitVars
  <1>2. /\ queue' \in Seq(Items) /\ Once(queue') /\ In(queue, r)
        /\ \A i : In(queue', i) => In(queue, i)
        /\ r = "start" => ~In(queue', "start")
    BY <1>0, <1>1, QueueTail
  <1>3. Frame(r) \in Frames /\ Frame(r).item = r
    BY <1>1, FrameTypes
  <1> HIDE DEF r
  <1>4. r = "start" => ~InFrames(stack, "start")
    BY <1>2 DEF LauncherInv, StartOnce, Queued, Running
  <1>5. /\ stack' \in Seq(Frames) /\ OnceInFrames(stack')
        /\ \A i : InFrames(stack', i) <=> InFrames(stack, i) \/ i = r
    BY <1>0, <1>1, <1>3, <1>4, StackPush
  <1>6. /\ Queued("start")' => Queued("start") /\ r # "start"
        /\ Queued("stop")' => Queued("stop")
        /\ Queued("exit")' => Queued("exit")
        /\ Running("start")' => Running("start") \/ (r = "start" /\ Queued("start"))
        /\ Running("stop")' => Running("stop") \/ Queued("stop")
        /\ r = "start" => Queued("start")
    BY <1>2, <1>5 DEF Queued, Running
  <1>7. LauncherTypes'
    BY <1>1, <1>2, <1>5 DEF LauncherInv, LauncherTypes
  <1>8. StartOnce'
    BY <1>1, <1>2, <1>5, <1>6 DEF LauncherInv, StartOnce, StartAwaited
  <1>9. StopLate'
    BY <1>1, <1>6 DEF LauncherInv, StopLate
  <1>10. ExitOrder'
    BY <1>1, <1>6 DEF LauncherInv, ExitOrder
  <1>11. StopSeen'
    <2>1. r = "start" => launcher = "starting"
      BY <1>6 DEF LauncherInv, StartOnce, StartAwaited
    <2> QED
      BY <1>1, <2>1 DEF LauncherInv, StopSeen
  <1> QED
    BY <1>7, <1>8, <1>9, <1>10, <1>11 DEF LauncherInv

\* The exit runs: it was queued, so toolkitExit is set, and nobody but the
\* thread that posted it is released.
LEMMA RunExitStep ==
    ASSUME LauncherInv, RunExit
    PROVE  LauncherInv'
  <1> "launcher" \in Threads
    BY ThreadsAssumption
  <1>0. queue \in Seq(Items) /\ Once(queue)
    BY Contents
  <1>1. /\ queue # <<>> /\ Head(queue) = "exit" /\ queue' = Tail(queue)
        /\ waiting' = [t \in Threads |->
                        IF waiting[t] = "exits" THEN "no" ELSE waiting[t]]
        /\ UNCHANGED <<stack, posting, launcher, startCalled, stopRun,
                       toolkitExit, listenersRegistered>>
    BY DEF RunExit, exitVars, launchVars
  <1>2. /\ queue' \in Seq(Items) /\ Once(queue') /\ In(queue, "exit")
        /\ \A i : In(queue', i) => In(queue, i)
    BY <1>0, <1>1, QueueTail
  <1>3. toolkitExit
    BY <1>2 DEF LauncherInv, ExitOrder, Queued
  <1>4. /\ Queued("start")' => Queued("start")
        /\ Queued("stop")' => Queued("stop")
        /\ UNCHANGED <<Running("start"), Running("stop")>>
    BY <1>1, <1>2 DEF Queued, Running
  <1>5. waiting["launcher"] \in {"posted", "waits"} =>
            waiting'["launcher"] \in {"posted", "waits"}
    BY <1>1
  <1>6. LauncherTypes'
    <2>1. waiting' \in [Threads -> {"no", "posted", "waits", "exits"}]
      BY <1>1 DEF LauncherInv, LauncherTypes
    <2> QED
      BY <1>1, <1>2, <2>1 DEF LauncherInv, LauncherTypes
  <1>7. StartOnce'
    BY <1>1, <1>2, <1>4, <1>5 DEF LauncherInv, StartOnce, StartAwaited
  <1>8. StopLate'
    BY <1>1, <1>4 DEF LauncherInv, StopLate
  <1>9. ExitOrder'
    BY <1>1, <1>3 DEF LauncherInv, ExitOrder
  <1>10. StopSeen'
    BY <1>1, <1>5 DEF LauncherInv, StopSeen
  <1> QED
    BY <1>6, <1>7, <1>8, <1>9, <1>10 DEF LauncherInv

\* Application code ends: the start or the stop leaves the stack as the
\* launcher is released.
LEMMA EndUserCodeStep ==
    ASSUME LauncherInv, EndUserCode
    PROVE  LauncherInv'
  <1> DEFINE r == Top.item
  <1> "launcher" \in Threads /\ "other" \in Threads
    BY ThreadsAssumption
  <1>0. stack \in Seq(Frames) /\ OnceInFrames(stack) /\ stack # <<>>
    BY Contents DEF EndUserCode, InUserCode
  <1>1. /\ stack' = IF r = "event" THEN Under ELSE Append(Under, Frame("finally"))
        /\ stopRun' = (stopRun \/ r = "stop")
        /\ UNCHANGED <<queue, posting, launcher, startCalled, fx, toolkitExit,
                       listenersRegistered>>
    BY DEF EndUserCode, idleVars, exitVars
  <1>2. \/ r \in {"start", "stop"} /\ waiting' = [waiting EXCEPT !["launcher"] = "no"]
        \/ r \notin {"start", "stop"} /\ waiting' = [waiting EXCEPT !["other"] = "no"]
        \/ r \notin {"start", "stop"} /\ waiting' = waiting
    BY DEF EndUserCode, Release
  <1>3. /\ Under \in Seq(Frames) /\ OnceInFrames(Under)
        /\ \A i : InFrames(Under, i) => InFrames(stack, i)
        /\ InFrames(stack, r)
        /\ r = "start" => ~InFrames(Under, "start")
    BY <1>0, StackPop
  <1> HIDE DEF r
  <1>4. Frame("finally") \in Frames /\ Frame("finally").item = "finally"
    BY FrameTypes
  <1>5. /\ stack' \in Seq(Frames) /\ OnceInFrames(stack')
        /\ \A i : InFrames(stack', i) => InFrames(Under, i) \/ i = "finally"
    BY <1>1, <1>3, <1>4, StackPush
  <1>6. /\ UNCHANGED <<Queued("start"), Queued("stop"), Queued("exit")>>
        /\ Running("start")' => Running("start") /\ r # "start"
        /\ Running("stop")' => Running("stop")
        /\ r = "start" => Running("start")
        /\ r = "stop" => Running("stop")
    BY <1>1, <1>3, <1>5 DEF Queued, Running
  <1>7. /\ waiting' \in [Threads -> {"no", "posted", "waits", "exits"}]
        /\ r \notin {"start", "stop"} => waiting'["launcher"] = waiting["launcher"]
    BY <1>2 DEF LauncherInv, LauncherTypes
  <1>8. LauncherTypes'
    BY <1>1, <1>5, <1>7 DEF LauncherInv, LauncherTypes
  <1>9. /\ r = "start" => ~Queued("start") /\ posting["launcher"] # "start"
        /\ r = "stop" => launcher # "starting"
        /\ r = "start" => launcher = "starting"
    BY <1>6 DEF LauncherInv, StartOnce, StartAwaited, StopLate
  <1>10. StartOnce'
    BY <1>1, <1>5, <1>6, <1>7, <1>9 DEF LauncherInv, StartOnce, StartAwaited
  <1>11. StopLate'
    BY <1>1, <1>6 DEF LauncherInv, StopLate
  <1>12. ExitOrder'
    BY <1>1, <1>6 DEF LauncherInv, ExitOrder
  <1>13. StopSeen'
    BY <1>1, <1>7, <1>9 DEF LauncherInv, StopSeen
  <1> QED
    BY <1>8, <1>10, <1>11, <1>12, <1>13 DEF LauncherInv

-----------------------------------------------------------------------------
(* runLater and runAndWait.                                                *)

\* A runnable moves from the thread that posts it to the queue.
LEMMA DeferStep ==
    ASSUME LauncherInv, NEW t \in Threads, Defer(t)
    PROVE  LauncherInv'
  <1> DEFINE r == posting[t]
  <1> "launcher" \in Threads
    BY ThreadsAssumption
  <1>0. queue \in Seq(Items) /\ Once(queue)
    BY Contents
  <1>1. /\ r # "none" /\ posting' = [posting EXCEPT ![t] = "none"]
        /\ queue' = queue \/ queue' = Append(queue, r)
        /\ UNCHANGED <<stack, waiting, launcher, startCalled, stopRun, fx,
                       toolkitExit, listenersRegistered>>
    BY DEF Defer, exitVars, launchVars
  <1>2. r \in Items
    BY <1>1 DEF LauncherInv, LauncherTypes
  <1>3. /\ r = "start" \/ r = "stop" => t = "launcher"
        /\ r = "exit" => toolkitExit
    BY DEF LauncherInv, StopLate, ExitOrder
  <1>4. r = "start" => ~Queued("start") /\ ~Running("start")
    BY <1>3 DEF LauncherInv, StartOnce
  <1>5. \A u \in Threads : posting'[u] \in {posting[u], "none"} /\ posting'[t] = "none"
    BY <1>1 DEF LauncherInv, LauncherTypes
  <1>6. posting' \in [Threads -> Items \cup {"none"}]
    BY <1>1 DEF LauncherInv, LauncherTypes
  <1> HIDE DEF r
  <1>7. /\ queue' \in Seq(Items) /\ Once(queue')
        /\ \A i : In(queue', i) => In(queue, i) \/ i = r
    <2>1. r = "start" => ~In(queue, "start")
      BY <1>4 DEF Queued
    <2>2. /\ Append(queue, r) \in Seq(Items) /\ Once(Append(queue, r))
          /\ \A i : In(Append(queue, r), i) => In(queue, i) \/ i = r
      BY <1>0, <1>2, <2>1, QueueAppend
    <2>3. CASE queue' = queue
      BY <1>0, <2>3
    <2>4. CASE queue' = Append(queue, r)
      BY <2>2, <2>4
    <2> QED
      BY <1>1, <2>3, <2>4
  <1>8. /\ Queued("start")' => Queued("start") \/ r = "start"
        /\ Queued("stop")' => Queued("stop") \/ r = "stop"
        /\ Queued("exit")' => Queued("exit") \/ r = "exit"
        /\ UNCHANGED <<Running("start"), Running("stop")>>
    BY <1>1, <1>7 DEF Queued, Running
  <1>9. LauncherTypes'
    BY <1>1, <1>6, <1>7 DEF LauncherInv, LauncherTypes
  <1>10. StartOnce'
    BY <1>1, <1>3, <1>4, <1>5, <1>7, <1>8
       DEF LauncherInv, StartOnce, StartAwaited, r
  <1>11. StopLate'
    BY <1>1, <1>3, <1>5, <1>8 DEF LauncherInv, StopLate, r
  <1>12. ExitOrder'
    BY <1>1, <1>3, <1>5, <1>8 DEF LauncherInv, ExitOrder
  <1>13. StopSeen'
    BY <1>1 DEF LauncherInv, StopSeen
  <1> QED
    BY <1>9, <1>10, <1>11, <1>12, <1>13 DEF LauncherInv

\* A thread waits, or gives up because the toolkit exits; for start and stop
\* the launcher never has to.
LEMMA AwaitDoneStep ==
    ASSUME LauncherInv, NEW t \in Threads, AwaitDone(t)
    PROVE  LauncherInv'
  <1> "launcher" \in Threads
    BY ThreadsAssumption
  <1>1. /\ waiting' = [waiting EXCEPT ![t] = IF toolkitExit THEN "no" ELSE "waits"]
        /\ UNCHANGED <<queue, stack, posting, launcher, startCalled, stopRun, fx,
                       toolkitExit, listenersRegistered>>
    BY DEF AwaitDone, idleVars, exitVars, launchVars
  <1>2. UNCHANGED <<Queued("start"), Queued("stop"), Queued("exit"),
                    Running("start"), Running("stop")>>
    BY <1>1 DEF Queued, Running
  <1>3. /\ waiting' \in [Threads -> {"no", "posted", "waits", "exits"}]
        /\ launcher \in {"starting", "stopping"}
             /\ waiting["launcher"] \in {"posted", "waits"}
             => waiting'["launcher"] \in {"posted", "waits"}
    <2>1. launcher \in {"starting", "stopping"} => ~toolkitExit
      BY DEF LauncherInv, ExitOrder
    <2>2. waiting \in [Threads -> {"no", "posted", "waits", "exits"}]
      BY DEF LauncherInv, LauncherTypes
    <2>3. (IF toolkitExit THEN "no" ELSE "waits") \in {"no", "waits"}
      OBVIOUS
    <2> QED
      BY <1>1, <2>1, <2>2, <2>3
  <1>4. LauncherTypes'
    BY <1>1, <1>3 DEF LauncherInv, LauncherTypes
  <1>5. StartOnce'
    BY <1>1, <1>2, <1>3 DEF LauncherInv, StartOnce, StartAwaited
  <1>6. StopLate'
    BY <1>1, <1>2 DEF LauncherInv, StopLate
  <1>7. ExitOrder'
    BY <1>1, <1>2 DEF LauncherInv, ExitOrder
  <1>8. StopSeen'
    BY <1>1, <1>3 DEF LauncherInv, StopSeen
  <1> QED
    BY <1>4, <1>5, <1>6, <1>7, <1>8 DEF LauncherInv

-----------------------------------------------------------------------------
(* The launcher and the other threads.                                     *)

\* A step of the launcher: what it posts and how it moves on.
LEMMA LauncherStep ==
    ASSUME LauncherInv, Launcher
    PROVE  LauncherInv'
  <1> "launcher" \in Threads
    BY ThreadsAssumption
  <1>0. /\ posting \in [Threads -> Items \cup {"none"}]
        /\ waiting \in [Threads -> {"no", "posted", "waits", "exits"}]
        /\ launcher \in LauncherSteps
        /\ {toolkitExit, listenersRegistered, startCalled, stopRun} \subseteq BOOLEAN
    BY DEF LauncherInv, LauncherTypes
  <1>1. /\ posting["launcher"] = "none" /\ waiting["launcher"] = "no"
        /\ UNCHANGED <<queue, stack, startCalled, stopRun, fx>>
    BY DEF Launcher, LauncherStart, LauncherInitFails, LauncherStarted,
           LauncherStop, LauncherStopped, RemoveListener, Unregister, TkExit,
           LauncherDone, Launch, LauncherReady, KeepLaunch, RunAndWait, Count,
           idleVars
  <1>2. /\ UNCHANGED <<Queued("start"), Queued("stop"), Queued("exit"),
                       Running("start"), Running("stop")>>
        /\ UNCHANGED <<Once(queue), OnceInFrames(stack)>>
    BY <1>1 DEF Queued, Running
  <1>3. ~Queued("start") /\ ~Running("start")
    BY <1>1 DEF LauncherInv, StartOnce, StartAwaited
  <1>4. PICK r \in {"none", "start", "stop", "dummy", "exit"},
             w \in {"no", "posted", "exits"} :
          /\ posting' = [posting EXCEPT !["launcher"] = r]
          /\ waiting' = [waiting EXCEPT !["launcher"] = w]
          /\ \/ /\ launcher = "init" /\ launcher' = "starting"
                /\ r = "start" /\ w = "posted"
                /\ UNCHANGED <<toolkitExit, listenersRegistered>>
             \/ /\ \/ launcher \in {"init", "starting"} /\ launcher' = "started"
                   \/ launcher = "started" /\ launcher' = "remove" /\ ~startCalled
                   \/ launcher = "stopping" /\ launcher' = "remove"
                   \/ launcher = "remove" /\ launcher' = "unregister"
                   \/ launcher = "exiting" /\ launcher' = "done"
                /\ r = "none" /\ w = "no"
                /\ UNCHANGED <<toolkitExit, listenersRegistered>>
             \/ /\ launcher = "started" /\ launcher' = "stopping"
                /\ r = "stop" /\ w = "posted"
                /\ UNCHANGED <<toolkitExit, listenersRegistered>>
             \/ /\ launcher = "unregister" /\ launcher' = "checking"
                /\ r = "dummy" /\ w = "no"
                /\ listenersRegistered' = FALSE /\ UNCHANGED toolkitExit
             \/ /\ launcher = "checking" /\ launcher' \in {"exiting", "done"}
                /\ r \in {"none", "exit"} /\ w \in {"no", "exits"}
                /\ toolkitExit' = TRUE /\ UNCHANGED listenersRegistered
    <2>0. /\ UNCHANGED posting => posting' = [posting EXCEPT !["launcher"] = "none"]
          /\ UNCHANGED waiting => waiting' = [waiting EXCEPT !["launcher"] = "no"]
      BY <1>0, <1>1
    <2>1. CASE LauncherStart
      BY <2>0, <2>1 DEF LauncherStart, Launch, RunAndWait, Count, exitVars
    <2>2. CASE LauncherInitFails
      BY <2>0, <2>2 DEF LauncherInitFails, Launch, exitVars
    <2>3. CASE LauncherStarted
      BY <2>0, <2>3 DEF LauncherStarted, Launch, exitVars
    <2>4. CASE LauncherStop
      BY <2>0, <2>4 DEF LauncherStop, Launch, RunAndWait, Count, exitVars
    <2>5. CASE LauncherStopped
      BY <2>0, <2>5 DEF LauncherStopped, Launch, exitVars
    <2>6. CASE RemoveListener
      BY <2>0, <2>6 DEF RemoveListener, Launch
    <2>7. CASE Unregister
      BY <2>0, <2>7 DEF Unregister, Launch, Count
    <2>8. CASE TkExit
      BY <2>0, <2>8 DEF TkExit, Launch, RunAndWait, Count
    <2>9. CASE LauncherDone
      BY <2>0, <2>9 DEF LauncherDone, Launch, exitVars
    <2> QED
      BY <2>1, <2>2, <2>3, <2>4, <2>5, <2>6, <2>7, <2>8, <2>9 DEF Launcher
  <1>5. /\ posting'["launcher"] = r /\ waiting'["launcher"] = w
        /\ \A t \in Threads \ {"launcher"} : posting'[t] = posting[t]
        /\ posting' \in [Threads -> Items \cup {"none"}]
        /\ waiting' \in [Threads -> {"no", "posted", "waits", "exits"}]
    BY <1>0, <1>4 DEF Items, Waiting
  <1>6. LauncherTypes'
    <2>1. launcher' \in LauncherSteps
      BY <1>4 DEF LauncherSteps
    <2>2. toolkitExit' \in BOOLEAN /\ listenersRegistered' \in BOOLEAN
      BY <1>0, <1>4
    <2> QED
      BY <1>1, <1>5, <2>1, <2>2 DEF LauncherInv, LauncherTypes
  <1>7. StartOnce'
    <2>1. r = "start" => StartAwaited'
      BY <1>4, <1>5 DEF StartAwaited
    <2> QED
      BY <1>2, <1>3, <1>5, <2>1 DEF LauncherInv, StartOnce
  <1>8. StopLate'
    <2>1. /\ r = "stop" => launcher' = "stopping"
          /\ launcher \notin {"init", "starting", "started"}
               => launcher' \notin {"init", "starting", "started"}
      BY <1>4
    <2> QED
      BY <1>2, <1>5, <2>1 DEF LauncherInv, StopLate
  <1>9. ExitOrder'
    <2>1. /\ ~listenersRegistered' <=> launcher' \in {"checking", "exiting", "done"}
          /\ toolkitExit => toolkitExit'
          /\ toolkitExit' => ~listenersRegistered'
          /\ r = "exit" => toolkitExit'
      BY <1>0, <1>4 DEF LauncherInv, ExitOrder
    <2> QED
      BY <1>1, <1>2, <1>5, <2>1 DEF LauncherInv, ExitOrder
  <1>10. StopSeen'
    <2>1. launcher = "stopping" => stopRun
      BY <1>1 DEF LauncherInv, StopSeen
    <2>2. /\ launcher' = "stopping" => w = "posted"
          /\ launcher' \in {"remove", "unregister", "checking", "exiting", "done"} =>
               \/ ~startCalled
               \/ launcher \in {"stopping", "remove", "unregister", "checking",
                                "exiting", "done"}
      BY <1>4
    <2> QED
      BY <1>1, <1>5, <2>1, <2>2 DEF LauncherInv, StopSeen
  <1> QED
    BY <1>6, <1>7, <1>8, <1>9, <1>10 DEF LauncherInv

\* The other threads post what they post, and exit only without listeners.
LEMMA OtherStep ==
    ASSUME LauncherInv, Other \/ CancelOffFX
    PROVE  LauncherInv'
  <1> "other" \in Threads \ {"launcher"}
    BY ThreadsAssumption
  <1>0. /\ posting \in [Threads -> Items \cup {"none"}]
        /\ waiting \in [Threads -> {"no", "posted", "waits", "exits"}]
        /\ posting["other"] = "none" /\ waiting["other"] = "no"
    BY DEF LauncherInv, LauncherTypes, Other, OtherPosts, OtherSetsImplicitExit,
           OtherExits, OtherActs, OtherFree, CancelOffFX
  <1>1. UNCHANGED <<queue, stack, launcher, startCalled, stopRun, fx,
                    listenersRegistered>>
    BY DEF Other, OtherPosts, OtherSetsImplicitExit, OtherExits, CancelOffFX,
           RunAndWait, Count, idleVars, exitVars, launchVars
  <1>2. {"later", "user", "dummy", "exit", "cancelled"} \subseteq
            Items \ {"start", "stop"}
    BY ApplicationAssumption DEF Items, Waiting, TaskItems
  <1>3. UNCHANGED waiting => waiting' = [waiting EXCEPT !["other"] = "no"]
    BY <1>0
  <1>4. UNCHANGED toolkitExit => ExitStep
    BY <1>1 DEF LauncherInv, LauncherTypes, ExitOrder, ExitStep
  <1>5. CASE OtherPosts
    <2>1. UNCHANGED toolkitExit
      BY <1>5 DEF OtherPosts, exitVars
    <2>2. \/ posting' = [posting EXCEPT !["other"] = "later"] /\ UNCHANGED waiting
          \/ /\ posting' = [posting EXCEPT !["other"] = "user"]
             /\ waiting' = [waiting EXCEPT !["other"] = "posted"]
      BY <1>5 DEF OtherPosts, RunAndWait, Count
    <2> QED
      BY <1>1, <1>2, <1>3, <1>4, <2>1, <2>2, PostingStep
  <1>6. CASE \E b \in BOOLEAN : OtherSetsImplicitExit(b)
    <2>1. /\ posting' = [posting EXCEPT !["other"] = "dummy"]
          /\ UNCHANGED <<waiting, toolkitExit>>
      BY <1>6 DEF OtherSetsImplicitExit, Count
    <2> QED
      BY <1>1, <1>2, <1>3, <1>4, <2>1, PostingStep
  <1>7. CASE OtherExits
    <2>1. CASE listenersRegistered \/ toolkitExit
      <3>1. UNCHANGED <<toolkitExit, posting, waiting>>
        BY <1>7, <2>1 DEF OtherExits
      <3> QED
        BY <1>1, <1>4, <3>1, Contents, QuietStep
    <2>2. CASE ~(listenersRegistered \/ toolkitExit)
      <3>1. /\ toolkitExit' = TRUE
            /\ posting' = [posting EXCEPT !["other"] = "exit"]
            /\ waiting' = [waiting EXCEPT !["other"] = "exits"]
        BY <1>7, <2>2 DEF OtherExits, RunAndWait, Count
      <3>2. ExitStep
        BY <2>2, <3>1 DEF ExitStep
      <3> QED
        BY <1>1, <1>2, <3>1, <3>2, PostingStep
    <2> QED
      BY <2>1, <2>2
  <1>8. CASE CancelOffFX
    <2>1. /\ posting' = [posting EXCEPT !["other"] = "cancelled"]
          /\ UNCHANGED <<waiting, toolkitExit>>
      BY <1>8 DEF CancelOffFX, Count, exitVars
    <2> QED
      BY <1>1, <1>2, <1>3, <1>4, <2>1, PostingStep
  <1> QED
    BY <1>5, <1>6, <1>7, <1>8 DEF Other

\* The worker posts only what belongs to its task.
LEMMA WorkerStep ==
    ASSUME LauncherInv, Worker
    PROVE  LauncherInv'
  <1> "worker" \in Threads \ {"launcher"}
    BY ApplicationAssumption
  <1>0. waiting \in [Threads -> {"no", "posted", "waits", "exits"}]
    BY DEF LauncherInv, LauncherTypes
  <1>1. UNCHANGED <<queue, stack, launcher, startCalled, stopRun, fx, waiting,
                    listenersRegistered, toolkitExit>>
    BY DEF Worker, CallBegins, UpdateValue, CallReturns, CallThrows, FutureSet,
           KeepPlatform, Count, idleVars, exitVars, launchVars
  <1>2. ExitStep
    BY <1>1 DEF LauncherInv, LauncherTypes, ExitOrder, ExitStep
  <1>3. waiting' = [waiting EXCEPT !["worker"] = waiting["worker"]]
    BY <1>0, <1>1
  <1>4. TaskItems \subseteq Items \ {"start", "stop", "exit"}
    BY ApplicationAssumption DEF Items, TaskItems
  <1>5. \/ UNCHANGED posting
        \/ \E r \in TaskItems : posting' = [posting EXCEPT !["worker"] = r]
    BY DEF Worker, CallBegins, UpdateValue, CallReturns, CallThrows, FutureSet,
           Count, TaskItems
  <1>6. CASE UNCHANGED posting
    BY <1>1, <1>2, <1>6, Contents, QuietStep
  <1>7. CASE \E r \in TaskItems : posting' = [posting EXCEPT !["worker"] = r]
    <2>1. PICK r \in TaskItems : posting' = [posting EXCEPT !["worker"] = r]
      BY <1>7
    <2>2. waiting["worker"] \in {"no", "posted", "waits", "exits"}
      BY <1>0
    <2>3. r \in Items \ {"start", "stop"} /\ r # "exit"
      BY <1>4
    <2> QED
      BY <1>1, <1>2, <1>3, <2>1, <2>2, <2>3, PostingStep
  <1> QED
    BY <1>5, <1>6, <1>7

-----------------------------------------------------------------------------

\* The invariant holds of every reachable state.
LEMMA LauncherInvHolds == Spec => []LauncherInv
  <1>1. Init => LauncherInv
    <2> SUFFICES ASSUME Init PROVE LauncherInv
      OBVIOUS
    <2> "launcher" \in Threads
      BY ThreadsAssumption
    <2>1. /\ \A i : ~Queued(i) /\ ~Running(i)
          /\ Once(queue) /\ OnceInFrames(stack)
      BY DEF Init, PlatformInit, Queued, Running, In, InFrames, Once, OnceInFrames
    <2>2. /\ posting \in [Threads -> Items \cup {"none"}]
          /\ waiting \in [Threads -> {"no", "posted", "waits", "exits"}]
          /\ \A t \in Threads : posting[t] = "none"
      BY DEF Init, PlatformInit
    <2>3. LauncherTypes
      <3>1. queue \in Seq(Items) /\ stack \in Seq(Frames)
        BY EmptySeq DEF Init, PlatformInit
      <3>2. /\ {toolkitExit, listenersRegistered, startCalled, stopRun} \subseteq BOOLEAN
            /\ launcher \in LauncherSteps
        BY DEF Init, PlatformInit, LauncherSteps
      <3> QED
        BY <2>2, <3>1, <3>2 DEF LauncherTypes
    <2>4. StartOnce /\ StopLate
      BY <2>1, <2>2 DEF Init, PlatformInit, StartOnce, StopLate
    <2>5. ExitOrder /\ StopSeen
      BY <2>1, <2>2 DEF Init, PlatformInit, ExitOrder, StopSeen
    <2> QED
      BY <2>3, <2>4, <2>5 DEF LauncherInv
  <1>2. LauncherInv /\ [Next]_vars => LauncherInv'
    <2> SUFFICES ASSUME LauncherInv, [Next]_vars PROVE LauncherInv'
      OBVIOUS
    <2>0. ASSUME UNCHANGED <<queue, stack, posting, waiting, launcher, fx,
                             startCalled, stopRun, listenersRegistered,
                             toolkitExit>>
          PROVE  LauncherInv'
      <3>1. ExitStep
        BY <2>0 DEF LauncherInv, LauncherTypes, ExitOrder, ExitStep
      <3> QED
        BY <2>0, <3>1, Contents, QuietStep
    <2>1. CASE UNCHANGED vars
      BY <2>0, <2>1 DEF vars, pvars, idleVars, exitVars, launchVars
    <2>2. CASE Submit \/ CancelOnFX
      BY <2>0, <2>2 DEF Submit, CancelOnFX, idleVars, exitVars, launchVars
    <2>3. CASE Worker
      BY <2>3, WorkerStep
    <2>4. CASE RunTaskRunnable
      <3>1. TaskItems \subseteq {"dummy"} \cup OtherItems
        BY ApplicationAssumption
      <3>2. RunShort({"dummy"} \cup OtherItems)
        BY <2>4, <3>1 DEF RunTaskRunnable, RunShort
      <3> QED
        BY <3>2, FXQuiet
    <2>5. CASE CancelOffFX \/ Other
      BY <2>5, OtherStep
    <2>6. CASE Launcher
      BY <2>6, LauncherStep
    <2>7. CASE FXActs
      BY <2>7, FXQuiet
    <2>8. CASE FX
      <3>1. RunShort({"dummy"}) => RunShort({"dummy"} \cup OtherItems)
        BY DEF RunShort
      <3> QED
        BY <2>8, <3>1, FXQuiet, RunUserCodeStep, RunExitStep, EndUserCodeStep DEF FX
    <2>9. CASE Posting
      BY <2>9, DeferStep, AwaitDoneStep DEF Posting
    <2> QED
      BY <2>1, <2>2, <2>3, <2>4, <2>5, <2>6, <2>7, <2>8, <2>9
         DEF Next, Platform, PlatformNext
  <1> QED
    BY <1>1, <1>2, PTL DEF Spec

\* An application that has been started is stopped before the toolkit is gone
\* (LauncherImpl.launchApplication1), whoever calls exit and however often,
\* whatever other threads post, and also when start fails.
THEOREM StoppedBeforeExit == Spec => []StopBeforeExit
  <1>1. LauncherInv => StopBeforeExit
    BY DEF LauncherInv, ExitOrder, StopSeen, StopBeforeExit, Terminated
  <1> QED
    BY <1>1, LauncherInvHolds, PTL

-----------------------------------------------------------------------------
(* The exit is the last runnable.                                          *)

LastExit(q) == \A k \in 1..Len(q) : q[k] = "exit" => k = Len(q)

\* The exit is posted once and queued last; only the FX thread exits without
\* posting it.
ExitLast ==
    /\ LastExit(queue)
    /\ \A t \in Threads : posting[t] = "exit" =>
          /\ ~Queued("exit")
          /\ \A u \in Threads : posting[u] = "exit" => u = t
          /\ fx = "terminated" => direct
    /\ fx = "exiting" => direct
    /\ fx = "terminated" /\ ~direct => queue = <<>>

\* What is queued behind anything but the exit may be the exit.
LEMMA LastExitAppend ==
    ASSUME NEW q \in Seq(Items), NEW e \in Items, ~In(q, "exit")
    PROVE  LastExit(Append(q, e))
  <1> DEFINE a == Append(q, e)
  <1>1. /\ Len(a) = Len(q) + 1 /\ Len(q) \in Nat
        /\ \A i \in 1..Len(q) : a[i] = q[i]
    BY AppendProperties, LenProperties
  <1> HIDE DEF a
  <1>2. \A k \in 1..Len(a) : k \in 1..Len(q) \/ k = Len(a)
    BY <1>1
  <1>3. LastExit(a)
    BY <1>1, <1>2 DEF LastExit, In
  <1> QED
    BY <1>3 DEF a

\* Nothing is queued behind the exit.
LEMMA LastExitTail ==
    ASSUME NEW q \in Seq(Items), q # <<>>, LastExit(q)
    PROVE  LastExit(Tail(q)) /\ (Head(q) = "exit" => Tail(q) = <<>>)
  <1> DEFINE r == Tail(q)
  <1>1. /\ r \in Seq(Items) /\ Len(r) = Len(q) - 1 /\ Len(q) \in Nat \ {0}
        /\ \A i \in 1..Len(r) : r[i] = q[i + 1]
    BY HeadTailProperties, EmptySeq
  <1>2. Head(q) = q[1]
    OBVIOUS
  <1> HIDE DEF r
  <1>3. /\ 1 \in 1..Len(q)
        /\ \A i \in 1..Len(r) : i + 1 \in 1..Len(q) /\ (i + 1 = Len(q) => i = Len(r))
    <2>1. Len(r) \in Nat
      BY <1>1
    <2> QED
      BY <1>1, <2>1
  <1>4. Head(q) = "exit" => Len(r) = 0
    <2>1. Head(q) = "exit" => 1 = Len(q)
      BY <1>2, <1>3 DEF LastExit
    <2> QED
      BY <1>1, <2>1
  <1>5. Len(r) = 0 => r = <<>>
    <2>1. r # <<>> => Len(r) \in Nat \ {0}
      BY <1>1, EmptySeq
    <2> QED
      BY <2>1
  <1>6. LastExit(r)
    BY <1>1, <1>3 DEF LastExit
  <1> QED
    BY <1>4, <1>5, <1>6 DEF r

\* The idle check queues its dummy runnable only before the exit.
LEMMA IdleBeforeExit ==
    ASSUME NEW q \in Seq(Items), LastExit(q), In(q, "exit") => toolkitExit,
           NEW who \in Callers, NEW windows, NEW pending, NEW nested,
           CheckIdle(who, windows, pending, q, nested)
    PROVE  /\ LastExit(queue') /\ (In(queue', "exit") => In(q, "exit"))
           /\ fx' \notin {"exiting", "terminated"}
  <1>1. \/ queue' = q
        \/ queue' = Append(q, "dummy") /\ ~toolkitExit
    BY DEF CheckIdle
  <1>2. "dummy" \in Items
    BY DEF Items
  <1>3. LastExit(queue')
    BY <1>1, <1>2, LastExitAppend
  <1>4. In(queue', "exit") => In(q, "exit")
    BY IdleCheck
  <1>5. fx' \in {who, "run"}
    BY DEF CheckIdle
  <1> QED
    BY <1>3, <1>4, <1>5 DEF Callers

\* A step of the FX thread that queues no exit.
LEMMA FXKeepsExitLast ==
    ASSUME ExitLast, LastExit(queue'), In(queue', "exit") => In(queue, "exit"),
           UNCHANGED posting,
           fx' # "terminated", fx' = "exiting" => direct'
    PROVE  ExitLast'
  BY DEF ExitLast, Queued

\* A thread that posts: the exit only if it is the first to set toolkitExit.
LEMMA PostingKeepsExitLast ==
    ASSUME LauncherInv, ExitLast, NEW t \in Threads, NEW r,
           posting' = [posting EXCEPT ![t] = r],
           r = "exit" => ~toolkitExit,
           UNCHANGED <<queue, fx, direct>>
    PROVE  ExitLast'
  <1>1. \A u \in Threads : posting'[u] = IF u = t THEN r ELSE posting[u]
    BY DEF LauncherInv, LauncherTypes
  <1>2. UNCHANGED Queued("exit")
    BY DEF Queued
  <1>3. ~toolkitExit =>
            /\ ~Queued("exit") /\ fx # "terminated"
            /\ \A u \in Threads : posting[u] # "exit"
    BY DEF LauncherInv, ExitOrder
  <1> QED
    BY <1>1, <1>2, <1>3 DEF ExitLast

\* The exit stays the last runnable.
LEMMA ExitLastStep ==
    ASSUME LauncherInv, ExitLast, [Next]_vars
    PROVE  ExitLast'
  <1> "launcher" \in Threads /\ "other" \in Threads /\ "worker" \in Threads
    BY ThreadsAssumption, ApplicationAssumption
  <1>0. /\ queue \in Seq(Items) /\ LastExit(queue)
        /\ In(queue, "exit") => toolkitExit
    BY Contents DEF ExitLast, LauncherInv, ExitOrder, Queued
  <1> Callers = {"window", "loop", "runnable", "implicitExit"}
    BY DEF Callers
  <1>1. ASSUME UNCHANGED <<queue, posting, fx, direct>>
        PROVE  ExitLast'
    BY <1>1 DEF ExitLast, Queued
  <1>2. CASE UNCHANGED vars \/ Submit \/ CancelOnFX \/ FutureSet
    BY <1>1, <1>2 DEF vars, pvars, Submit, CancelOnFX, FutureSet, KeepPlatform,
                      idleVars, exitVars
  <1>3. CASE RunShort({"dummy"}) \/ RunTaskRunnable
    <2>1. PICK items : RunShort(items)
      BY <1>3 DEF RunTaskRunnable
    <2>2. /\ queue # <<>> /\ UNCHANGED <<posting, direct>>
          /\ CheckIdle("runnable", numWindows, pendingRunnables - 1, Tail(queue),
                       NestedLoopRunning(stack))
      BY <2>1 DEF RunShort, exitVars
    <2>3. /\ Tail(queue) \in Seq(Items) /\ LastExit(Tail(queue))
          /\ In(Tail(queue), "exit") => In(queue, "exit")
      BY <1>0, <2>2, QueueTail, LastExitTail
    <2>4. /\ LastExit(queue') /\ (In(queue', "exit") => In(Tail(queue), "exit"))
          /\ fx' \notin {"exiting", "terminated"}
      BY <1>0, <2>2, <2>3, IdleBeforeExit
    <2> QED
      BY <2>2, <2>3, <2>4, FXKeepsExitLast
  <1>4. ASSUME NEW who \in Callers, NEW w, NEW p, NEW n,
               CheckIdle(who, w, p, queue, n), UNCHANGED <<posting, direct>>
        PROVE  ExitLast'
    BY <1>0, <1>4, IdleBeforeExit, FXKeepsExitLast
  <1>5. CASE LeaveNestedLoop \/ Finally \/ Show \/ Hide
              \/ \E b \in BOOLEAN : SetImplicitExit(b)
    BY <1>4, <1>5 DEF LeaveNestedLoop, Finally, Show, Hide, ChangeWindows,
                      SetImplicitExit, exitVars
  <1>6. CASE RunUserCode
    <2>1. /\ queue # <<>> /\ queue' = Tail(queue) /\ fx' = "run"
          /\ UNCHANGED posting
      BY <1>6 DEF RunUserCode, Dispatching
    <2>2. LastExit(queue') /\ (In(queue', "exit") => In(queue, "exit"))
      BY <1>0, <2>1, QueueTail, LastExitTail
    <2> QED
      BY <2>1, <2>2, FXKeepsExitLast
  <1>7. CASE RunExit
    <2>1. /\ queue # <<>> /\ Head(queue) = "exit" /\ queue' = Tail(queue)
          /\ UNCHANGED posting /\ fx' = "terminated"
      BY <1>7 DEF RunExit
    <2>2. queue' = <<>> /\ LastExit(queue') /\ In(queue, "exit")
      BY <1>0, <2>1, QueueTail, LastExitTail
    <2>3. \A t \in Threads : posting'[t] # "exit"
      BY <2>1, <2>2 DEF ExitLast, Queued
    <2> QED
      BY <2>1, <2>2, <2>3 DEF ExitLast
  <1>8. CASE EndUserCode \/ EventArrives \/ EnterNestedLoop
    BY <1>1, <1>8 DEF EndUserCode, EventArrives, EnterNestedLoop, idleVars, exitVars
  <1>9. CASE NotifyIdle \/ ExitCalled
    <2>1. /\ UNCHANGED <<queue, posting>> /\ fx' # "terminated"
          /\ fx' = "exiting" => direct'
      BY <1>9 DEF NotifyIdle, ExitCalled, idleVars
    <2> QED
      BY <1>0, <2>1, FXKeepsExitLast
  <1>10. CASE ExitDirectly
    <2>1. UNCHANGED <<queue, posting, direct>> /\ fx = "exiting"
      BY <1>10 DEF ExitDirectly, idleVars, exitVars
    <2> QED
      BY <2>1 DEF ExitLast, Queued
  <1>11. CASE \E t \in Threads : Defer(t)
    <2>1. PICK t \in Threads : Defer(t)
      BY <1>11
    <2>2. posting[t] \in Items
      BY <2>1 DEF Defer, LauncherInv, LauncherTypes
    <2>3. /\ posting' = [posting EXCEPT ![t] = "none"]
          /\ UNCHANGED <<fx, direct, toolkitExit>>
          /\ \/ UNCHANGED queue
             \/ /\ queue' = Append(queue, posting[t])
                /\ ~toolkitExit \/ posting[t] = "exit"
      BY <2>1 DEF Defer, exitVars
    <2>4. \A u \in Threads : posting'[u] = IF u = t THEN "none" ELSE posting[u]
      BY <2>3 DEF LauncherInv, LauncherTypes
    <2>5. CASE UNCHANGED queue
      BY <2>3, <2>4, <2>5 DEF ExitLast, Queued
    <2>6. CASE queue' = Append(queue, posting[t]) /\ posting[t] = "exit"
      <3>1. ~In(queue, "exit") /\ (fx = "terminated" => direct)
        BY <2>6 DEF ExitLast, Queued
      <3>2. LastExit(queue')
        BY <1>0, <2>2, <2>6, <3>1, LastExitAppend
      <3>3. \A u \in Threads : posting'[u] # "exit"
        BY <2>4, <2>6 DEF ExitLast
      <3> QED
        BY <2>3, <3>1, <3>2, <3>3 DEF ExitLast
    <2>7. CASE queue' = Append(queue, posting[t]) /\ posting[t] # "exit" /\ ~toolkitExit
      <3>1. ~In(queue, "exit") /\ fx # "terminated"
        BY <1>0, <2>7 DEF LauncherInv, ExitOrder
      <3>2. LastExit(queue') /\ ~In(queue', "exit")
        BY <1>0, <2>2, <2>7, <3>1, LastExitAppend, QueueAppend
      <3>3. \A u \in Threads : posting'[u] # "exit"
        BY <2>4, <2>7 DEF LauncherInv, ExitOrder
      <3> QED
        BY <2>3, <3>1, <3>2, <3>3 DEF ExitLast
    <2> QED
      BY <2>3, <2>5, <2>6, <2>7
  <1>12. CASE \E t \in Threads : AwaitDone(t)
    BY <1>1, <1>12 DEF AwaitDone, idleVars, exitVars
  <1>13. CASE LauncherInitFails \/ LauncherStarted \/ LauncherStopped
              \/ RemoveListener \/ LauncherDone
    BY <1>1, <1>13 DEF LauncherInitFails, LauncherStarted, LauncherStopped,
                       RemoveListener, LauncherDone, KeepLaunch, idleVars, exitVars
  <1>14. ASSUME NEW t \in Threads, NEW r, Count(t, r), r = "exit" => ~toolkitExit,
                UNCHANGED <<fx, direct>>
         PROVE  ExitLast'
    BY <1>14, PostingKeepsExitLast DEF Count
  <1>15. CASE LauncherStart \/ LauncherStop \/ Unregister \/ TkExit
    BY <1>1, <1>14, <1>15 DEF LauncherStart, LauncherStop, Unregister, TkExit,
                              RunAndWait, KeepLaunch, idleVars, exitVars
  <1>16. CASE Other \/ CancelOffFX
    BY <1>1, <1>14, <1>16 DEF Other, OtherPosts, OtherSetsImplicitExit, OtherExits,
                              CancelOffFX, RunAndWait, idleVars, exitVars
  <1>17. CASE CallBegins \/ UpdateValue \/ CallReturns \/ CallThrows
    BY <1>1, <1>14, <1>17 DEF CallBegins, UpdateValue, CallReturns, CallThrows,
                              KeepPlatform, idleVars, exitVars
  <1> QED
    BY <1>2, <1>3, <1>5, <1>6, <1>7, <1>8, <1>9, <1>10, <1>11, <1>12, <1>13,
       <1>15, <1>16, <1>17
       DEF Next, Platform, PlatformNext, FX, FXActs, Launcher, Posting, Worker

\* Every runnable that Platform.runLater accepts has been run when the toolkit
\* is gone, unless the FX thread exits it directly: none is queued behind the
\* exit, whatever the threads post while it is under way.
THEOREM AcceptedRunnablesRun == Spec => []AcceptedIsRun
  <1>1. Init => ExitLast
    <2> SUFFICES ASSUME Init PROVE ExitLast
      OBVIOUS
    <2>1. /\ queue = <<>> /\ fx = "run"
          /\ \A t \in Threads : posting[t] = "none"
      BY DEF Init, PlatformInit
    <2>2. LastExit(queue)
      BY <2>1 DEF LastExit
    <2> QED
      BY <2>1, <2>2 DEF ExitLast
  <1>2. LauncherInv /\ ExitLast /\ [Next]_vars => ExitLast'
    BY ExitLastStep
  <1>3. ExitLast => AcceptedIsRun
    BY DEF ExitLast, AcceptedIsRun, Terminated
  <1> QED
    BY <1>1, <1>2, <1>3, LauncherInvHolds, PTL DEF Spec

-----------------------------------------------------------------------------
(* pendingRunnables counts what is queued, running and about to be queued. *)

RunFrames(s) == {i \in 1..Len(s) : s[i].item # "event"}
Posters(p) == {t \in Threads : p[t] # "none"}
Pending == Len(queue) + Cardinality(RunFrames(stack)) + Cardinality(Posters(posting))

\* After the exit of the toolkit the runnable that has exited it stays counted.
PendingInv ==
    /\ pendingRunnables \in Nat
    /\ pendingRunnables >= Pending
    /\ fx # "terminated" => pendingRunnables = Pending

\* A frame that is pushed counts unless it is an event's.
LEMMA FramesPush ==
    ASSUME NEW s \in Seq(Frames), NEW f \in Frames
    PROVE  /\ Cardinality(RunFrames(s)) \in Nat
           /\ Cardinality(RunFrames(Append(s, f))) =
                Cardinality(RunFrames(s)) + IF f.item = "event" THEN 0 ELSE 1
  <1> DEFINE a == Append(s, f)
             n == Len(s)
  <1>1. /\ Len(a) = n + 1 /\ n \in Nat
        /\ \A i \in 1..n : a[i] = s[i]
        /\ a[n + 1] = f
    BY AppendProperties, LenProperties
  <1> HIDE DEF a
  <1>2. IsFiniteSet(RunFrames(s)) /\ Cardinality(RunFrames(s)) \in Nat
    <2>1. IsFiniteSet(1..n)
      <3> HIDE DEF n
      <3>1. 1 \in Int /\ n \in Int
        BY <1>1
      <3> QED
        BY <3>1, FS_Interval
    <2>2. RunFrames(s) \in SUBSET (1..n)
      BY DEF RunFrames
    <2> QED
      BY <2>1, <2>2, FS_Subset, FS_CardinalityType
  <1>3. n + 1 \notin RunFrames(s)
    BY <1>1 DEF RunFrames
  <1>4. RunFrames(a) = IF f.item = "event" THEN RunFrames(s)
                                           ELSE RunFrames(s) \cup {n + 1}
    <2>1. \A i : i \in 1..Len(a) <=> i \in 1..n \/ i = n + 1
      BY <1>1
    <2>2. \A i \in 1..n : i # n + 1
      BY <1>1
    <2> HIDE DEF n
    <2>3. \A i : i \in RunFrames(a) <=> i \in RunFrames(s) \/ (i = n + 1 /\ f.item # "event")
      BY <1>1, <2>1, <2>2 DEF RunFrames, n
    <2> QED
      BY <2>3
  <1>5. Cardinality(RunFrames(s) \cup {n + 1}) = Cardinality(RunFrames(s)) + 1
    BY <1>2, <1>3, FS_AddElement
  <1> QED
    BY <1>2, <1>4, <1>5 DEF a

\* The stack is the frames under the top one and the top one.
LEMMA UnderTop ==
    ASSUME stack \in Seq(Frames), stack # <<>>
    PROVE  stack = Append(Under, Top) /\ Under \in Seq(Frames) /\ Top \in Frames
  <1> DEFINE a == Append(Under, Top)
             n == Len(stack)
  <1>1. /\ Under \in Seq(Frames) /\ Top \in Frames
        /\ Len(Under) = n - 1 /\ \A i \in 1..n - 1 : Under[i] = stack[i]
    BY StackPop
  <1>2. n \in Nat \ {0} /\ Top = stack[n]
    BY EmptySeq, LenProperties DEF Top
  <1>3. /\ a \in Seq(Frames) /\ Len(a) = n
        /\ \A i \in 1..n - 1 : a[i] = Under[i]
        /\ a[n] = Top
    <2>1. /\ a \in Seq(Frames) /\ Len(a) = Len(Under) + 1
          /\ \A i \in 1..Len(Under) : a[i] = Under[i]
          /\ a[Len(Under) + 1] = Top
      BY <1>1, AppendProperties
    <2> HIDE DEF a, n
    <2>2. Len(Under) + 1 = n
      BY <1>1, <1>2
    <2> QED
      BY <1>1, <2>1, <2>2
  <1> HIDE DEF a
  <1>4. \A i \in 1..n : i \in 1..n - 1 \/ i = n
    BY <1>2
  <1>5. \A i \in 1..n : a[i] = stack[i]
    BY <1>1, <1>2, <1>3, <1>4
  <1>6. a = stack
    BY <1>3, <1>5, SeqEqual
  <1> QED
    BY <1>1, <1>6 DEF a

\* A frame that is popped counted unless it was an event's.
LEMMA FramesPop ==
    ASSUME stack \in Seq(Frames), stack # <<>>
    PROVE  /\ Cardinality(RunFrames(stack)) \in Nat
           /\ Cardinality(RunFrames(Under)) \in Nat
           /\ Cardinality(RunFrames(stack)) =
                Cardinality(RunFrames(Under)) + IF Top.item = "event" THEN 0 ELSE 1
           /\ Top.item # "event" =>
                Cardinality(RunFrames(Under)) = Cardinality(RunFrames(stack)) - 1
  <1>1. /\ Cardinality(RunFrames(stack)) \in Nat
        /\ Cardinality(RunFrames(Under)) \in Nat
        /\ Cardinality(RunFrames(stack)) =
             Cardinality(RunFrames(Under)) + IF Top.item = "event" THEN 0 ELSE 1
    BY UnderTop, FramesPush
  <1> QED
    BY <1>1

\* A thread begins to post, or is done with it.
LEMMA PostersChange ==
    ASSUME posting \in [Threads -> Items \cup {"none"}],
           NEW t \in Threads, NEW r
    PROVE  /\ Cardinality(Posters(posting)) \in Nat
           /\ r # "none" /\ posting[t] = "none" =>
                Cardinality(Posters([posting EXCEPT ![t] = r])) =
                  Cardinality(Posters(posting)) + 1
           /\ r = "none" /\ posting[t] # "none" =>
                Cardinality(Posters([posting EXCEPT ![t] = r])) =
                  Cardinality(Posters(posting)) - 1
  <1> DEFINE P == Posters(posting)
             Q == Posters([posting EXCEPT ![t] = r])
  <1>1. IsFiniteSet(P) /\ Cardinality(P) \in Nat
    <2>1. P \in SUBSET Threads
      BY DEF Posters
    <2> QED
      BY <2>1, ThreadsAssumption, FS_Subset, FS_CardinalityType
  <1>2. Q = IF r = "none" THEN P \ {t} ELSE P \cup {t}
    BY DEF Posters
  <1>3. t \in P <=> posting[t] # "none"
    BY DEF Posters
  <1>4. /\ Cardinality(P \cup {t}) = IF t \in P THEN Cardinality(P) ELSE Cardinality(P) + 1
        /\ Cardinality(P \ {t}) = IF t \in P THEN Cardinality(P) - 1 ELSE Cardinality(P)
    BY <1>1, FS_AddElement, FS_RemoveElement
  <1> HIDE DEF P, Q
  <1>5. Cardinality(P) \in Nat
    BY <1>1
  <1>6. /\ r # "none" /\ posting[t] = "none" => Cardinality(Q) = Cardinality(P) + 1
        /\ r = "none" /\ posting[t] # "none" => Cardinality(Q) = Cardinality(P) - 1
    BY <1>2, <1>3, <1>4, <1>5
  <1> QED
    BY <1>5, <1>6 DEF P, Q

\* So many threads are posting.
LEMMA PostersNat ==
    ASSUME NEW p \in [Threads -> Items \cup {"none"}]
    PROVE  Cardinality(Posters(p)) \in Nat
  <1>1. Posters(p) \in SUBSET Threads
    BY DEF Posters
  <1> QED
    BY <1>1, ThreadsAssumption, FS_Subset, FS_CardinalityType

\* The idle check counts the dummy runnable it queues.
LEMMA IdleCheckCounts ==
    ASSUME NEW q \in Seq(Items), NEW who, NEW windows, NEW pending \in Nat,
           NEW nested, CheckIdle(who, windows, pending, q, nested)
    PROVE  /\ pendingRunnables' \in Nat /\ Len(queue') \in Nat /\ Len(q) \in Nat
           /\ pendingRunnables' = pending + (Len(queue') - Len(q))
  <1>1. \/ queue' = q /\ pendingRunnables' = pending
        \/ queue' = Append(q, "dummy") /\ pendingRunnables' = pending + 1
    BY DEF CheckIdle
  <1>2. Len(Append(q, "dummy")) = Len(q) + 1 /\ Len(q) \in Nat
    <2>1. "dummy" \in Items
      BY DEF Items
    <2> QED
      BY <2>1, AppendProperties, LenProperties
  <1> QED
    BY <1>1, <1>2

\* Every step keeps the count.
LEMMA PendingStep ==
    ASSUME LauncherInv, LauncherInv', PendingInv, [Next]_vars
    PROVE  PendingInv'
  <1> DEFINE L == Len(queue)
             F == Cardinality(RunFrames(stack))
             P == Cardinality(Posters(posting))
  <1> "launcher" \in Threads /\ "other" \in Threads /\ "worker" \in Threads
    BY ThreadsAssumption, ApplicationAssumption
  <1>t. /\ queue \in Seq(Items) /\ stack \in Seq(Frames)
        /\ posting \in [Threads -> Items \cup {"none"}]
        /\ Items \cap {"none", "event"} = {}
    BY ApplicationAssumption DEF LauncherInv, LauncherTypes, Items, Waiting, TaskItems
  <1>n. L \in Nat /\ F \in Nat /\ P \in Nat
    <2>1. Frame("event") \in Frames
      BY FrameTypes DEF UserCode
    <2> QED
      BY <1>t, <2>1, LenProperties, FramesPush, PostersChange
  <1>p. /\ pendingRunnables \in Nat /\ pendingRunnables >= L + F + P
        /\ fx # "terminated" => pendingRunnables = L + F + P
    BY DEF PendingInv, Pending
  <1> HIDE DEF L, F, P
  <1>0. ASSUME pendingRunnables' \in Nat, pendingRunnables' >= L' + F' + P',
               fx' # "terminated" => pendingRunnables' = L' + F' + P'
        PROVE  PendingInv'
    BY <1>0 DEF PendingInv, Pending, L, F, P
  <1>e. ASSUME pendingRunnables' \in Nat, pendingRunnables' = L' + F' + P'
        PROVE  PendingInv'
    BY <1>0, <1>e
  <1>1. ASSUME UNCHANGED <<queue, stack, posting, pendingRunnables>>,
               fx # "terminated" \/ fx' = fx
        PROVE  PendingInv'
    BY <1>1, <1>p DEF PendingInv, Pending, L, F, P
  <1>2. ASSUME NEW t \in Threads, NEW r \in Items, Count(t, r),
               UNCHANGED <<stack, fx>>
        PROVE  PendingInv'
    <2>1. L' = L /\ F' = F /\ P' = P + 1
      <3>1. /\ posting[t] = "none" /\ posting' = [posting EXCEPT ![t] = r]
            /\ UNCHANGED queue /\ r # "none"
        BY <1>2, <1>t DEF Count
      <3>2. Cardinality(Posters([posting EXCEPT ![t] = r])) = P + 1
        BY <1>t, <1>n, <3>1, PostersChange DEF P
      <3> QED
        BY <1>2, <3>1, <3>2 DEF L, F, P
    <2> QED
      BY <1>0, <1>2, <1>n, <1>p, <2>1 DEF Count
  <1>3. ASSUME UNCHANGED <<posting, stack>>, fx = "run", fx' # "terminated",
               NEW who, NEW windows, NEW nested,
               CheckIdle(who, windows, pendingRunnables, queue, nested)
        PROVE  PendingInv'
    <2>1. F' = F /\ P' = P
      BY <1>3 DEF F, P
    <2>2. /\ pendingRunnables' \in Nat /\ L' \in Nat
          /\ pendingRunnables' = pendingRunnables + (L' - L)
      BY <1>3, <1>t, <1>p, IdleCheckCounts DEF L
    <2>3. pendingRunnables' = L' + F' + P'
      BY <1>3, <1>n, <1>p, <2>1, <2>2
    <2> QED
      BY <1>e, <2>2, <2>3
  <1>4. CASE Show \/ Hide \/ \E b \in BOOLEAN : SetImplicitExit(b)
    <2>1. PICK who, windows, nested :
              who \in Callers
                /\ CheckIdle(who, windows, pendingRunnables, queue, nested)
      BY <1>4 DEF Show, Hide, ChangeWindows, SetImplicitExit, Callers
    <2>2. UNCHANGED <<posting, stack>> /\ fx = "run"
      BY <1>4 DEF Show, Hide, ChangeWindows, SetImplicitExit, InUserCode
    <2>3. fx' # "terminated"
      BY <2>1 DEF CheckIdle, Callers
    <2> QED
      BY <1>3, <2>1, <2>2, <2>3
  <1>5. CASE EventArrives
    <2>1. /\ stack' = Append(stack, Frame("event")) /\ fx = "run"
          /\ UNCHANGED <<queue, posting, pendingRunnables, fx>>
      BY <1>5 DEF EventArrives, idleVars, Dispatching
    <2>2. Frame("event") \in Frames /\ Frame("event").item = "event"
      BY FrameTypes DEF UserCode
    <2>3. F' = F
      BY <1>t, <1>n, <2>1, <2>2, FramesPush DEF F
    <2>4. L' = L /\ P' = P
      BY <2>1 DEF L, P
    <2> QED
      BY <1>0, <1>p, <2>1, <2>3, <2>4
  <1>6. CASE RunUserCode
    <2>1. /\ queue # <<>> /\ Head(queue) \in UserCode /\ queue' = Tail(queue)
          /\ stack' = Append(stack, Frame(Head(queue))) /\ fx = "run"
          /\ UNCHANGED <<posting, pendingRunnables, fx>>
      BY <1>6 DEF RunUserCode, Dispatching
    <2>2. L' = L - 1 /\ Head(queue) \in Items
      BY <1>t, <2>1, HeadTailProperties DEF L
    <2>3. /\ Frame(Head(queue)) \in Frames
          /\ Frame(Head(queue)).item # "event"
      BY <1>t, <2>1, <2>2, FrameTypes
    <2>4. F' = F + 1
      BY <1>t, <2>1, <2>3, FramesPush DEF F
    <2>5. P' = P
      BY <2>1 DEF P
    <2> QED
      BY <1>0, <1>n, <1>p, <2>1, <2>2, <2>4, <2>5
  <1>7. CASE RunShort({"dummy"}) \/ RunTaskRunnable
    <2>1. PICK items : RunShort(items)
      BY <1>7 DEF RunTaskRunnable
    <2>2. /\ queue # <<>> /\ UNCHANGED <<stack, posting>> /\ fx = "run"
          /\ CheckIdle("runnable", numWindows, pendingRunnables - 1, Tail(queue),
                       NestedLoopRunning(stack))
      BY <2>1 DEF RunShort, Dispatching
    <2>3. Tail(queue) \in Seq(Items) /\ Len(Tail(queue)) = L - 1 /\ L # 0
      BY <1>t, <2>2, HeadTailProperties, EmptySeq DEF L
    <2>4. pendingRunnables - 1 \in Nat
      BY <1>n, <1>p, <2>3
    <2>5. /\ pendingRunnables' \in Nat /\ L' \in Nat
          /\ pendingRunnables' = pendingRunnables - 1 + (L' - (L - 1))
      BY <2>2, <2>3, <2>4, IdleCheckCounts DEF L
    <2>6. F' = F /\ P' = P
      BY <2>2 DEF F, P
    <2>7. pendingRunnables' = L' + F' + P'
      BY <1>n, <1>p, <2>2, <2>5, <2>6
    <2> QED
      BY <1>e, <2>5, <2>7
  <1>8. CASE RunExit
    <2>1. /\ queue # <<>> /\ queue' = Tail(queue) /\ fx' = "terminated"
          /\ UNCHANGED <<stack, posting, pendingRunnables>>
      BY <1>8 DEF RunExit
    <2>2. L' = L - 1
      BY <1>t, <2>1, HeadTailProperties DEF L
    <2>3. F' = F /\ P' = P
      BY <2>1 DEF F, P
    <2> QED
      BY <1>0, <1>n, <1>p, <2>1, <2>2, <2>3
  <1>9. ASSUME stack # <<>>, NEW b \in BOOLEAN,
               stack' = Append(Under, [Top EXCEPT !.nested = b])
        PROVE  F' = F
    <2>1. /\ Under \in Seq(Frames) /\ Top \in Frames
          /\ F = Cardinality(RunFrames(Under)) + IF Top.item = "event" THEN 0 ELSE 1
      BY <1>9, <1>t, StackPop, FramesPop DEF F
    <2>2. /\ [Top EXCEPT !.nested = b] \in Frames
          /\ [Top EXCEPT !.nested = b].item = Top.item
      BY <1>9, <2>1, FrameTypes
    <2> QED
      BY <1>9, <2>1, <2>2, FramesPush DEF F
  <1>10. CASE EnterNestedLoop
    <2>1. /\ stack # <<>> /\ stack' = Append(Under, [Top EXCEPT !.nested = TRUE])
          /\ UNCHANGED <<queue, posting, pendingRunnables, fx>>
      BY <1>10 DEF EnterNestedLoop, InUserCode, idleVars
    <2>2. L' = L /\ P' = P
      BY <2>1 DEF L, P
    <2> QED
      BY <1>0, <1>9, <1>p, <2>1, <2>2
  <1>11. CASE LeaveNestedLoop
    <2>1. /\ stack # <<>> /\ stack' = Append(Under, [Top EXCEPT !.nested = FALSE])
          /\ fx = "run" /\ UNCHANGED posting
      BY <1>11 DEF LeaveNestedLoop
    <2>2. PICK nested : CheckIdle("loop", numWindows, pendingRunnables, queue, nested)
      BY <1>11 DEF LeaveNestedLoop
    <2>3. /\ pendingRunnables' \in Nat /\ L' \in Nat
          /\ pendingRunnables' = pendingRunnables + (L' - L)
      BY <2>2, <1>t, <1>p, IdleCheckCounts DEF L
    <2>4. F' = F
      BY <1>9, <2>1
    <2>5. P' = P
      BY <2>1 DEF P
    <2>6. pendingRunnables' = L' + F' + P'
      BY <1>n, <1>p, <2>1, <2>3, <2>4, <2>5
    <2> QED
      BY <1>e, <2>3, <2>6
  <1>12. CASE EndUserCode
    <2>1. /\ stack # <<>> /\ UNCHANGED <<queue, posting, pendingRunnables, fx>>
          /\ stack' = IF Top.item = "event" THEN Under
                      ELSE Append(Under, Frame("finally"))
      BY <1>12 DEF EndUserCode, InUserCode, idleVars
    <2>2. /\ Under \in Seq(Frames)
          /\ Cardinality(RunFrames(Under)) \in Nat
          /\ F = Cardinality(RunFrames(Under)) + IF Top.item = "event" THEN 0 ELSE 1
      BY <2>1, <1>t, StackPop, FramesPop DEF F
    <2>3. Frame("finally") \in Frames /\ Frame("finally").item = "finally"
      BY FrameTypes
    <2>4. Cardinality(RunFrames(Append(Under, Frame("finally")))) =
            Cardinality(RunFrames(Under)) + 1
      BY <2>2, <2>3, FramesPush
    <2>5. F' = F
      <3>1. CASE Top.item = "event"
        BY <2>1, <2>2, <3>1 DEF F
      <3>2. CASE Top.item # "event"
        BY <2>1, <2>2, <2>4, <3>2 DEF F
      <3> QED
        BY <3>1, <3>2
    <2>6. L' = L /\ P' = P
      BY <2>1 DEF L, P
    <2> QED
      BY <1>0, <1>p, <2>1, <2>5, <2>6
  <1>13. CASE Finally
    <2>1. /\ stack # <<>> /\ stack' = Under /\ fx = "run" /\ UNCHANGED posting
          /\ Top.item = "finally"
          /\ CheckIdle("runnable", numWindows, pendingRunnables - 1, queue,
                       NestedLoopRunning(Under))
      BY <1>13 DEF Finally
    <2>2. F' \in Nat /\ F' = F - 1
      BY <2>1, <1>t, FramesPop DEF F
    <2>3. pendingRunnables - 1 \in Nat
      <3>1. pendingRunnables = L + F + P
        BY <1>p, <2>1
      <3> QED
        BY <1>n, <2>2, <3>1
    <2>4. /\ pendingRunnables' \in Nat /\ L' \in Nat
          /\ pendingRunnables' = pendingRunnables - 1 + (L' - L)
      BY <2>1, <2>3, <1>t, IdleCheckCounts DEF L
    <2>5. P' = P
      BY <2>1 DEF P
    <2>6. pendingRunnables' = L' + F' + P'
      BY <1>n, <1>p, <2>1, <2>2, <2>4, <2>5
    <2> QED
      BY <1>e, <2>4, <2>6
  <1>14. CASE \E t \in Threads : Defer(t)
    <2>1. PICK t \in Threads : Defer(t)
      BY <1>14
    <2>2. /\ posting[t] # "none" /\ posting' = [posting EXCEPT ![t] = "none"]
          /\ \/ UNCHANGED queue /\ pendingRunnables' = pendingRunnables - 1
             \/ queue' = Append(queue, posting[t]) /\ UNCHANGED pendingRunnables
          /\ UNCHANGED <<stack, fx>>
      BY <2>1 DEF Defer
    <2>3. P' = P - 1 /\ F' = F
      <3>1. Cardinality(Posters([posting EXCEPT ![t] = "none"])) = P - 1
        BY <1>t, <1>n, <2>2, PostersChange DEF P
      <3> QED
        BY <2>2, <3>1 DEF P, F
    <2>4. P' \in Nat
      <3>1. posting' \in [Threads -> Items \cup {"none"}]
        BY DEF LauncherInv, LauncherTypes
      <3> QED
        BY <3>1, PostersNat DEF P
    <2>5. posting[t] \in Items
      BY <1>t, <2>2
    <2>6. queue' = Append(queue, posting[t]) => L' = L + 1
      BY <1>t, <2>5, AppendProperties DEF L
    <2>7. UNCHANGED queue => L' = L
      BY DEF L
    <2> QED
      BY <1>0, <1>n, <1>p, <2>2, <2>3, <2>4, <2>6, <2>7
  <1>15. CASE UNCHANGED vars \/ Submit \/ CancelOnFX \/ FutureSet
              \/ \E t \in Threads : AwaitDone(t)
    BY <1>1, <1>15 DEF vars, pvars, Submit, CancelOnFX, FutureSet, KeepPlatform,
                       AwaitDone, idleVars
  <1>16. CASE NotifyIdle \/ ExitCalled \/ ExitDirectly
    BY <1>1, <1>16 DEF NotifyIdle, ExitCalled, ExitDirectly, InUserCode, Callers,
                       idleVars
  <1>17. CASE LauncherInitFails \/ LauncherStarted \/ LauncherStopped
              \/ RemoveListener \/ LauncherDone
    BY <1>1, <1>17 DEF LauncherInitFails, LauncherStarted, LauncherStopped,
                       RemoveListener, LauncherDone, KeepLaunch, idleVars
  <1>i. {"start", "stop", "dummy", "exit", "later", "user"} \cup TaskItems
           \subseteq Items
    BY ApplicationAssumption DEF Items, Waiting
  <1>18. CASE LauncherStart \/ LauncherStop \/ Unregister \/ TkExit
    BY <1>1, <1>2, <1>i, <1>18 DEF LauncherStart, LauncherStop, Unregister, TkExit,
                                   RunAndWait, KeepLaunch, idleVars
  <1>19. CASE Other \/ CancelOffFX
    BY <1>1, <1>2, <1>i, <1>19 DEF Other, OtherPosts, OtherSetsImplicitExit,
                  OtherExits, CancelOffFX, RunAndWait, idleVars, TaskItems
  <1>20. CASE CallBegins \/ UpdateValue \/ CallReturns \/ CallThrows
    BY <1>1, <1>2, <1>i, <1>20 DEF CallBegins, UpdateValue, CallReturns, CallThrows,
                                   KeepPlatform, idleVars, TaskItems
  <1> QED
    BY <1>4, <1>5, <1>6, <1>7, <1>8, <1>10, <1>11, <1>12, <1>13, <1>14, <1>15,
       <1>16, <1>17, <1>18, <1>19, <1>20
       DEF Next, Platform, PlatformNext, FX, FXActs, Launcher, Posting, Worker

-----------------------------------------------------------------------------
(* The types, and what the idle check keeps of windows and idleness.       *)

\* What LauncherInv does not say of the types.
IdleTypes ==
    /\ {platformExit, implicitExit, firstWindowShown, lastWindowClosed,
        reallyIdle, finishListeners, exitCalled, shutdownLatch, error,
        direct} \subseteq BOOLEAN
    /\ numWindows \in 0..MaxWindows
    /\ fx \in {"run", "exiting", "terminated"} \cup Callers
    /\ acts \in 0..MaxActs

\* The application is never taken for idle while it has a window, so the code
\* that closes the last one finds reallyIdle reset.
WindowsIdle ==
    /\ numWindows > 0 => ~reallyIdle
    /\ fx # "window"

\* Below the top of the stack there are only handlers that wait in a nested
\* loop, and a runnable finds the application idle only when there is none.
LoopsBelow ==
    /\ \A k \in 1..Len(stack) : k < Len(stack) => stack[k].nested
    /\ fx = "runnable" /\ ~toolkitExit => stack = <<>>

\* Any idle check with so many windows that does not close one.
LEMMA IdleCheckTypes ==
    ASSUME IdleTypes, LauncherInv, WindowsIdle,
           NEW who \in Callers, NEW windows \in 0..MaxWindows, NEW pending,
           NEW q, NEW nested \in BOOLEAN,
           CheckIdle(who, windows, pending, q, nested),
           who = "window" => windows > 0 \/ numWindows > 0
    PROVE  /\ {firstWindowShown', lastWindowClosed', reallyIdle'} \subseteq BOOLEAN
           /\ numWindows' \in 0..MaxWindows
           /\ fx' \in {"run"} \cup Callers
           /\ WindowsIdle'
  <1> DEFINE closed == windows = 0 /\ (lastWindowClosed \/ firstWindowShown)
             idle   == closed /\ pending = 0 /\ (toolkitExit \/ ~nested)
  <1>1. /\ numWindows' = windows
        /\ firstWindowShown' = (firstWindowShown \/ windows > 0)
        /\ lastWindowClosed' = (closed /\ ~(idle /\ reallyIdle))
        /\ reallyIdle' = (idle \/ (reallyIdle /\ windows = 0))
        /\ fx' = IF idle /\ reallyIdle THEN who ELSE "run"
    BY DEF CheckIdle
  <1>2. {firstWindowShown', lastWindowClosed', reallyIdle'} \subseteq BOOLEAN
    BY <1>1, Zenon
  <1>3. fx' \in {"run"} \cup Callers
    BY <1>1
  <1>4. windows \in Nat /\ numWindows \in Nat
    BY BoundsAssumption DEF IdleTypes
  <1>5. windows > 0 => ~idle /\ ~(reallyIdle /\ windows = 0)
    BY <1>4
  <1>6. numWindows' > 0 => ~reallyIdle'
    BY <1>1, <1>5
  <1>7. fx' # "window"
    <2>1. CASE who # "window"
      BY <1>1, <2>1
    <2>2. CASE numWindows > 0
      BY <1>1, <2>2 DEF WindowsIdle
    <2>3. CASE windows > 0
      BY <1>1, <1>5, <2>3
    <2> QED
      BY <2>1, <2>2, <2>3
  <1> QED
    BY <1>1, <1>2, <1>3, <1>6, <1>7 DEF WindowsIdle

\* Every step keeps the types, and no window is closed by idle code.
LEMMA IdleTypesStep ==
    ASSUME LauncherInv, IdleTypes, WindowsIdle, [Next]_vars
    PROVE  IdleTypes' /\ WindowsIdle'
  <1>t. /\ {toolkitExit, listenersRegistered, startCalled} \subseteq BOOLEAN
        /\ numWindows \in 0..MaxWindows /\ numWindows \in Nat
        /\ acts \in 0..MaxActs /\ MaxActs \in Nat /\ MaxWindows \in Nat
    BY BoundsAssumption DEF LauncherInv, LauncherTypes, IdleTypes
  <1>n. \A s : NestedLoopRunning(s) \in BOOLEAN
    BY DEF NestedLoopRunning
  <1>c. {"window", "loop", "runnable", "implicitExit"} = Callers
    BY DEF Callers
  <1>a. acts < MaxActs => acts + 1 \in 0..MaxActs
    BY <1>t
  <1>1. ASSUME NEW who \in Callers \ {"window"}, NEW pending, NEW q,
               NEW nested \in BOOLEAN,
               CheckIdle(who, numWindows, pending, q, nested),
               acts' \in 0..MaxActs, implicitExit' \in BOOLEAN,
               UNCHANGED <<platformExit, finishListeners, exitCalled, shutdownLatch,
                           direct, error>>
        PROVE  IdleTypes' /\ WindowsIdle'
    <2>1. /\ {firstWindowShown', lastWindowClosed', reallyIdle'} \subseteq BOOLEAN
          /\ numWindows' \in 0..MaxWindows
          /\ fx' \in {"run"} \cup Callers
          /\ WindowsIdle'
      BY <1>1, <1>t, IdleCheckTypes
    <2> QED
      BY <1>1, <2>1 DEF IdleTypes
  <1>2. CASE RunShort({"dummy"}) \/ RunTaskRunnable
    <2>1. PICK items : RunShort(items)
      BY <1>2 DEF RunTaskRunnable
    <2> QED
      BY <1>1, <1>n, <1>c, <1>t, <2>1 DEF RunShort, exitVars, launchVars, IdleTypes
  <1>3. CASE LeaveNestedLoop \/ Finally
    BY <1>1, <1>n, <1>c, <1>t, <1>3
       DEF LeaveNestedLoop, Finally, exitVars, launchVars, IdleTypes
  <1>4. CASE \E b \in BOOLEAN : SetImplicitExit(b)
    BY <1>1, <1>n, <1>c, <1>a, <1>4 DEF SetImplicitExit, launchVars, IdleTypes
  <1>5. CASE Show \/ Hide
    <2>1. PICK n \in 0..MaxWindows :
             /\ CheckIdle("window", n, pendingRunnables, queue,
                          NestedLoopRunning(stack))
             /\ n > 0 \/ numWindows > 0
      <3>1. CASE Show
        <4>1. numWindows + 1 \in 0..MaxWindows /\ numWindows + 1 > 0
          BY <1>t, <3>1 DEF Show
        <4> QED
          BY <3>1, <4>1 DEF Show, ChangeWindows
      <3>2. CASE Hide
        <4>1. numWindows - 1 \in 0..MaxWindows /\ numWindows > 0
          BY <1>t, <3>2 DEF Hide
        <4> QED
          BY <3>2, <4>1 DEF Hide, ChangeWindows
      <3> QED
        BY <1>5, <3>1, <3>2
    <2>2. /\ acts' \in 0..MaxActs
          /\ UNCHANGED <<platformExit, implicitExit, finishListeners, exitCalled,
                         shutdownLatch, direct, error>>
      BY <1>5, <1>a DEF Show, Hide, ChangeWindows, exitVars, launchVars
    <2>3. /\ {firstWindowShown', lastWindowClosed', reallyIdle'} \subseteq BOOLEAN
          /\ numWindows' \in 0..MaxWindows
          /\ fx' \in {"run"} \cup Callers
          /\ WindowsIdle'
      BY <1>c, <1>n, <2>1, IdleCheckTypes
    <2> QED
      BY <2>2, <2>3 DEF IdleTypes
  <1>6. ASSUME UNCHANGED <<firstWindowShown, lastWindowClosed, reallyIdle, numWindows>>,
               fx' \in {fx, "run", "exiting", "terminated"}, acts' \in 0..MaxActs,
               {platformExit', implicitExit', finishListeners', exitCalled',
                shutdownLatch', error', direct'} \subseteq BOOLEAN
        PROVE  IdleTypes' /\ WindowsIdle'
    BY <1>6 DEF IdleTypes, WindowsIdle
  <1>7. CASE UNCHANGED vars \/ Submit \/ CancelOnFX \/ FutureSet
              \/ \E t \in Threads : AwaitDone(t)
    <2>1. CASE Submit
      <3>1. acts' \in 0..MaxActs
        BY <1>t, <2>1, ApplicationAssumption DEF Submit
      <3> QED
        BY <1>6, <2>1, <3>1 DEF Submit, idleVars, exitVars, launchVars, IdleTypes
    <2> QED
      BY <1>6, <1>7, <2>1 DEF vars, pvars, CancelOnFX, FutureSet, KeepPlatform,
                       AwaitDone, idleVars, exitVars, launchVars, IdleTypes
  <1>8. CASE EventArrives \/ RunUserCode \/ RunExit \/ EnterNestedLoop
              \/ ExitDirectly
    BY <1>6, <1>a, <1>t, <1>8
       DEF EventArrives, RunUserCode, RunExit, EnterNestedLoop, ExitDirectly,
           idleVars, exitVars, launchVars, IdleTypes
  <1>9. CASE EndUserCode
    <2>1. error' \in BOOLEAN
      BY <1>9 DEF EndUserCode, IdleTypes
    <2> QED
      BY <1>6, <1>t, <1>9, <2>1 DEF EndUserCode, idleVars, exitVars, IdleTypes
  <1>10. CASE NotifyIdle
    <2>1. /\ shutdownLatch' \in BOOLEAN /\ direct' \in BOOLEAN
          /\ fx' \in {"run", "exiting"}
      BY <1>10, <1>t DEF NotifyIdle, IdleTypes
    <2> QED
      BY <1>6, <1>t, <1>10, <2>1 DEF NotifyIdle, idleVars, launchVars, IdleTypes
  <1>11. CASE ExitCalled
    <2>1. /\ {platformExit', exitCalled', shutdownLatch', direct'} \subseteq BOOLEAN
          /\ fx' \in {"run", "exiting"} /\ acts' \in 0..MaxActs
      BY <1>11, <1>t, <1>a DEF ExitCalled, IdleTypes
    <2> QED
      BY <1>6, <1>11, <2>1 DEF ExitCalled, idleVars, launchVars, IdleTypes
  <1>12. CASE \E t \in Threads : Defer(t)
    BY <1>6, <1>t, <1>12 DEF Defer, exitVars, launchVars, IdleTypes
  <1>13. CASE Launcher
    <2>1. /\ UNCHANGED <<firstWindowShown, lastWindowClosed, reallyIdle, numWindows,
                         fx, acts>>
          /\ {platformExit', implicitExit', finishListeners', exitCalled',
              shutdownLatch', error', direct'} \subseteq BOOLEAN
      BY <1>13 DEF Launcher, LauncherStart, LauncherInitFails, LauncherStarted,
                LauncherStop, LauncherStopped, RemoveListener, Unregister, TkExit,
                LauncherDone, KeepLaunch, RunAndWait, Count, idleVars, exitVars,
                IdleTypes
    <2> QED
      BY <1>6, <1>t, <2>1
  <1>14. CASE Other \/ CancelOffFX
    <2>1. /\ UNCHANGED <<firstWindowShown, lastWindowClosed, reallyIdle, numWindows,
                         fx>>
          /\ acts' \in 0..MaxActs
      BY <1>14, <1>a, <1>t DEF Other, OtherPosts, OtherSetsImplicitExit, OtherExits,
                OtherActs, CancelOffFX, RunAndWait, Count, idleVars
    <2>2. {platformExit', implicitExit', finishListeners', exitCalled',
           shutdownLatch', error', direct'} \subseteq BOOLEAN
      BY <1>14, <1>t DEF Other, OtherPosts, OtherSetsImplicitExit, OtherExits,
                CancelOffFX, exitVars, launchVars, IdleTypes
    <2> QED
      BY <1>6, <2>1, <2>2
  <1>15. CASE CallBegins \/ UpdateValue \/ CallReturns \/ CallThrows
    BY <1>6, <1>t, <1>15 DEF CallBegins, UpdateValue, CallReturns, CallThrows,
              KeepPlatform, Count, idleVars, exitVars, launchVars, IdleTypes
  <1> QED
    BY <1>2, <1>3, <1>4, <1>5, <1>7, <1>8, <1>9, <1>10, <1>11, <1>12, <1>13,
       <1>14, <1>15
       DEF Next, Platform, PlatformNext, FX, FXActs, Posting, Worker

\* What the stack is once a frame has been pushed, replaced or popped.
LEMMA StackBelow ==
    ASSUME stack \in Seq(Frames), LoopsBelow
    PROVE  /\ \A f \in Frames :
                 (stack # <<>> => Top.nested) =>
                     \A k \in 1..Len(Append(stack, f)) :
                        k < Len(Append(stack, f)) => Append(stack, f)[k].nested
           /\ stack # <<>> => /\ \A k \in 1..Len(Under) : Under[k].nested
                              /\ \A f \in Frames : \A k \in 1..Len(Append(Under, f)) :
                                    k < Len(Append(Under, f)) => Append(Under, f)[k].nested
                              /\ Under \in Seq(Frames)
                              /\ Under # <<>> => NestedLoopRunning(Under)
           /\ stack # <<>> /\ Top.nested => NestedLoopRunning(stack)
  <1>n. Len(stack) \in Nat /\ DOMAIN stack = 1..Len(stack)
    BY LenProperties
  <1>e. stack # <<>> => Len(stack) \in 1..Len(stack)
    BY EmptySeq, <1>n
  <1>1. ASSUME NEW f \in Frames, stack # <<>> => Top.nested,
               NEW k \in 1..Len(Append(stack, f)), k < Len(Append(stack, f))
        PROVE  Append(stack, f)[k].nested
    <2>1. /\ Len(Append(stack, f)) = Len(stack) + 1
          /\ \A j \in 1..Len(stack) : Append(stack, f)[j] = stack[j]
      BY AppendProperties
    <2>2. k \in 1..Len(stack) /\ stack # <<>>
      BY <1>1, <1>n, <2>1
    <2> QED
      BY <1>1, <1>n, <2>1, <2>2 DEF LoopsBelow, Top
  <1>2. ASSUME stack # <<>>
        PROVE  /\ Under \in Seq(Frames) /\ Len(Under) = Len(stack) - 1
               /\ \A k \in 1..Len(Under) : Under[k].nested
    <2>1. /\ Under \in Seq(Frames) /\ Len(Under) = Len(stack) - 1
          /\ \A k \in 1..Len(stack) - 1 : Under[k] = stack[k]
      BY <1>2, <1>n, <1>e, SubSeqProperties DEF Under
    <2> QED
      BY <1>n, <2>1 DEF LoopsBelow
  <1>3. ASSUME stack # <<>>, NEW f \in Frames, NEW k \in 1..Len(Append(Under, f)),
               k < Len(Append(Under, f))
        PROVE  Append(Under, f)[k].nested
    <2>1. /\ Len(Append(Under, f)) = Len(Under) + 1 /\ Len(Under) \in Nat
          /\ \A j \in 1..Len(Under) : Append(Under, f)[j] = Under[j]
      BY <1>2, <1>3, AppendProperties, LenProperties
    <2> QED
      BY <1>2, <1>3, <2>1
  <1>4. ASSUME stack # <<>>, Under # <<>>
        PROVE  NestedLoopRunning(Under)
    <2>1. Len(Under) \in 1..Len(Under) /\ DOMAIN Under = 1..Len(Under)
      BY <1>2, <1>4, EmptySeq, LenProperties
    <2> QED
      BY <1>2, <1>4, <2>1 DEF NestedLoopRunning
  <1>5. stack # <<>> /\ Top.nested => NestedLoopRunning(stack)
    BY <1>n, <1>e DEF NestedLoopRunning, Top
  <1> QED
    BY <1>1, <1>2, <1>3, <1>4, <1>5

\* Every step keeps the shape of the stack, and the idle check of a runnable
\* finds no handler under it.
LEMMA LoopsBelowStep ==
    ASSUME LauncherInv, LauncherInv', LoopsBelow, [Next]_vars
    PROVE  LoopsBelow'
  <1>s. /\ stack \in Seq(Frames) /\ stack' \in Seq(Frames)
        /\ toolkitExit \in BOOLEAN /\ toolkitExit' \in BOOLEAN
    BY DEF LauncherInv, LauncherTypes
  <1>b. /\ \A f \in Frames :
              (stack # <<>> => Top.nested) =>
                 \A k \in 1..Len(Append(stack, f)) :
                    k < Len(Append(stack, f)) => Append(stack, f)[k].nested
        /\ stack # <<>> => /\ \A k \in 1..Len(Under) : Under[k].nested
                           /\ \A f \in Frames : \A k \in 1..Len(Append(Under, f)) :
                                 k < Len(Append(Under, f)) => Append(Under, f)[k].nested
                           /\ Under # <<>> => NestedLoopRunning(Under)
        /\ stack # <<>> /\ Top.nested => NestedLoopRunning(stack)
    BY <1>s, StackBelow
  <1>f. /\ \A item \in UserCode \cup {"finally"} : Frame(item) \in Frames
        /\ stack # <<>> => \A b \in BOOLEAN : [Top EXCEPT !.nested = b] \in Frames
    BY <1>s, FrameTypes, StackPop
  <1>q. ASSUME UNCHANGED stack,
               fx' # "runnable" \/ (fx' = fx /\ (toolkitExit => toolkitExit'))
        PROVE  LoopsBelow'
    BY <1>q DEF LoopsBelow
  <1>1. CASE RunShort({"dummy"}) \/ RunTaskRunnable
    <2>1. PICK items : RunShort(items)
      BY <1>1 DEF RunTaskRunnable
    <2>2. /\ UNCHANGED <<stack, toolkitExit>> /\ (stack # <<>> => Top.nested)
          /\ fx' = "runnable" => toolkitExit \/ ~NestedLoopRunning(stack)
      BY <2>1 DEF RunShort, Dispatching, CheckIdle, exitVars
    <2> QED
      BY <1>b, <2>2 DEF LoopsBelow
  <1>2. CASE Finally
    <2>1. /\ stack # <<>> /\ stack' = Under /\ UNCHANGED toolkitExit
          /\ fx' = "runnable" => toolkitExit \/ ~NestedLoopRunning(Under)
      BY <1>2 DEF Finally, CheckIdle, exitVars
    <2> QED
      BY <1>b, <2>1 DEF LoopsBelow
  <1>3. CASE LeaveNestedLoop \/ EnterNestedLoop
    <2>1. /\ stack # <<>> /\ fx' # "runnable"
          /\ \E b \in BOOLEAN : stack' = Append(Under, [Top EXCEPT !.nested = b])
      BY <1>3 DEF LeaveNestedLoop, EnterNestedLoop, CheckIdle, InUserCode
    <2>2. PICK f \in Frames : stack' = Append(Under, f)
      BY <1>f, <2>1
    <2> QED
      BY <1>b, <2>1, <2>2 DEF LoopsBelow
  <1>4. CASE EventArrives \/ RunUserCode
    <2>1. /\ stack # <<>> => Top.nested
          /\ fx' # "runnable"
          /\ \E item \in UserCode : stack' = Append(stack, Frame(item))
      BY <1>4 DEF EventArrives, RunUserCode, Dispatching, UserCode
    <2>2. PICK f \in Frames : stack' = Append(stack, f)
      BY <1>f, <2>1
    <2> QED
      BY <1>b, <2>1, <2>2 DEF LoopsBelow
  <1>5. CASE EndUserCode
    <2>1. /\ stack # <<>> /\ fx' # "runnable"
          /\ stack' = Under \/ stack' = Append(Under, Frame("finally"))
      BY <1>5 DEF EndUserCode, InUserCode
    <2>2. CASE stack' = Under
      BY <1>b, <2>1, <2>2 DEF LoopsBelow
    <2>3. CASE stack' # Under
      <3>1. PICK f \in Frames : stack' = Append(Under, f)
        BY <1>f, <2>1, <2>3
      <3> QED
        BY <1>b, <2>1, <3>1 DEF LoopsBelow
    <2> QED
      BY <2>2, <2>3
  <1>6. CASE Show \/ Hide \/ \E b \in BOOLEAN : SetImplicitExit(b)
    <2>1. UNCHANGED stack
      BY <1>6 DEF Show, Hide, ChangeWindows, SetImplicitExit
    <2>2. PICK who, n :
             /\ who \in {"window", "implicitExit"}
             /\ CheckIdle(who, n, pendingRunnables, queue, NestedLoopRunning(stack))
      BY <1>6 DEF Show, Hide, ChangeWindows, SetImplicitExit
    <2>3. fx' # "runnable"
      BY <2>2 DEF CheckIdle
    <2> QED
      BY <2>1, <2>3 DEF LoopsBelow
  <1>7. CASE RunExit \/ NotifyIdle \/ ExitDirectly \/ ExitCalled
    <2>1. UNCHANGED stack
      BY <1>7 DEF RunExit, NotifyIdle, ExitDirectly, ExitCalled
    <2>2. fx' # "runnable"
      BY <1>7 DEF RunExit, NotifyIdle, ExitDirectly, ExitCalled
    <2> QED
      BY <2>1, <2>2 DEF LoopsBelow
  <1>8. CASE UNCHANGED vars \/ Submit \/ CancelOnFX \/ Worker \/ CancelOffFX \/ Posting
    BY <1>8, <1>q DEF vars, pvars, Submit, CancelOnFX, CancelOffFX, Worker,
              CallBegins, UpdateValue, CallReturns, CallThrows, FutureSet, KeepPlatform,
              Posting, Defer, AwaitDone, exitVars
  <1>9. CASE Launcher \/ Other
    <2>1. UNCHANGED <<stack, fx>> /\ (toolkitExit => toolkitExit')
      BY <1>9 DEF Launcher, LauncherStart, LauncherInitFails, LauncherStarted,
              LauncherStop, LauncherStopped, RemoveListener, Unregister, TkExit,
              LauncherDone, KeepLaunch, Other, OtherPosts, OtherSetsImplicitExit,
              OtherExits, exitVars
    <2> QED
      BY <1>q, <2>1
  <1> QED
    BY <1>1, <1>2, <1>3, <1>4, <1>5, <1>6, <1>7, <1>8, <1>9
       DEF Next, Platform, PlatformNext, FX, FXActs

-----------------------------------------------------------------------------
(* What the idle check relies on.                                          *)

TaskTypes ==
    /\ future \in {"new", "completed", "cancelled"}
    /\ state \in {"READY", "RUNNING", "SUCCEEDED", "FAILED", "CANCELLED"}
    /\ call \in {"none", "submitted", "calling", "returned", "done"}
    /\ outcome \in {"none", "SUCCEEDED", "FAILED"}
    /\ updates \in 0..MaxUpdates
    /\ valueUpdate \in 0..MaxUpdates
    /\ value \in 0..Result

\* Every step keeps the types of the task.
LEMMA TaskTypesStep ==
    ASSUME TaskTypes, [Next]_vars
    PROVE  TaskTypes'
  <1>n. MaxUpdates \in Nat
    BY ApplicationAssumption
  <1>1. CASE Platform \/ UNCHANGED vars
    BY <1>1 DEF Platform, vars, taskVars, TaskTypes
  <1>2. CASE CallBegins \/ CallReturns \/ CallThrows \/ FutureSet
    BY <1>2 DEF CallBegins, CallReturns, CallThrows, FutureSet, TaskTypes
  <1>3. CASE UpdateValue
    <2>1. updates' \in 0..MaxUpdates /\ valueUpdate' \in 0..MaxUpdates
      BY <1>3, <1>n DEF UpdateValue, TaskTypes
    <2> QED
      BY <1>3, <2>1 DEF UpdateValue, TaskTypes
  <1>4. CASE RunTaskRunnable
    <2>h. Head(queue) \in TaskItems
      BY <1>4 DEF RunTaskRunnable, RunShort
    <2>1. /\ state' \in {state, "RUNNING", "SUCCEEDED", "FAILED", "CANCELLED"}
          /\ value' \in {value, valueUpdate, Result}
          /\ valueUpdate' \in {valueUpdate, 0}
      BY <1>4, <2>h DEF RunTaskRunnable, SetState, TakeValueUpdate, TaskItems
    <2>2. value' \in 0..Result /\ valueUpdate' \in 0..MaxUpdates
      BY <1>n, <2>1 DEF TaskTypes, Result
    <2> QED
      BY <1>4, <2>1, <2>2 DEF RunTaskRunnable, TaskTypes
  <1>5. CASE Submit \/ CancelOnFX \/ CancelOffFX
    BY <1>5 DEF Submit, CancelOnFX, CancelOffFX, CancelFuture, SetState, TaskTypes
  <1> QED
    BY <1>1, <1>2, <1>3, <1>4, <1>5 DEF Next, Worker

\* The inductive invariant behind the idle check.
IdleInv == IdleTypes /\ TaskTypes /\ WindowsIdle /\ LoopsBelow /\ PendingInv

\* Nothing is pending at the start.
LEMMA IdleInvInit == Init => IdleInv
  <1> SUFFICES ASSUME Init PROVE IdleInv
    OBVIOUS
  <1>1. IdleTypes /\ WindowsIdle
    <2>1. 0 \in 0..MaxWindows /\ 0 \in 0..MaxActs
      BY BoundsAssumption
    <2>2. {TRUE, FALSE} \subseteq BOOLEAN
      OBVIOUS
    <2> QED
      BY <2>1, <2>2 DEF Init, PlatformInit, IdleTypes, WindowsIdle
  <1>2. TaskTypes
    BY ApplicationAssumption DEF Init, TaskTypes, Result
  <1>3. PendingInv
    <2>1. /\ Len(queue) = 0 /\ RunFrames(stack) = {} /\ Posters(posting) = {}
          /\ pendingRunnables = 0
      BY DEF Init, PlatformInit, RunFrames, Posters
    <2> QED
      BY <2>1, FS_EmptySet DEF PendingInv, Pending
  <1>4. LoopsBelow
    BY DEF Init, PlatformInit, LoopsBelow
  <1> QED
    BY <1>1, <1>2, <1>3, <1>4 DEF IdleInv

\* It holds of every reachable state.
LEMMA IdleInvHolds == Spec => []IdleInv
  <1>1. Init => IdleInv
    BY IdleInvInit
  <1>2. LauncherInv /\ LauncherInv' /\ IdleInv /\ [Next]_vars => IdleInv'
    BY PendingStep, IdleTypesStep, LoopsBelowStep, TaskTypesStep DEF IdleInv
  <1> QED
    BY <1>1, <1>2, LauncherInvHolds, PTL DEF Spec

\* pendingRunnables is the number of runnables that are queued, running or
\* about to be queued as long as the toolkit runs, it never becomes negative,
\* and neither closing the last window nor a runnable that ends inside a
\* handler's nested loop finds the application idle.  A handler that leaves its
\* nested loop or calls setImplicitExit may: HandlerMayGoOn does not deny it.
THEOREM IdleCheckIsRight == Spec => []IdleConsistent
  <1>1. LauncherInv /\ IdleInv => IdleConsistent
    <2> SUFFICES ASSUME LauncherInv, IdleInv PROVE IdleConsistent
      OBVIOUS
    <2>1. TypeOK
      BY DEF LauncherInv, LauncherTypes, IdleInv, IdleTypes, TaskTypes, PendingInv,
             TypeOK, PlatformTypeOK, Frames
    <2>2. RunnableFrames = RunFrames(stack)
      <3>1. DOMAIN stack = 1..Len(stack)
        BY LenProperties DEF LauncherInv, LauncherTypes
      <3> QED
        BY <3>1 DEF RunnableFrames, RunFrames
    <2>3. PendingCounts
      BY <2>2 DEF IdleInv, PendingInv, Pending, PendingCounts, Posters, Terminated
    <2>4. HandlerMayGoOn
      BY DEF IdleInv, WindowsIdle, LoopsBelow, HandlerMayGoOn
    <2> QED
      BY <2>1, <2>3, <2>4 DEF IdleConsistent
  <1> QED
    BY <1>1, LauncherInvHolds, IdleInvHolds, PTL

-----------------------------------------------------------------------------
(* What a task has posted, and in which order it is run.                   *)

Early == {"running", "update"}      \* posted while Task.call runs
Late == {"succeeded", "failed"}     \* posted when it has ended

Posted(i) == posting["worker"] = i \/ In(queue, i)
CancelPosted ==
    In(queue, "cancelled") \/ \E t \in Threads : posting[t] = "cancelled"

\* How the call ended is queued behind all it has posted before, and updates
\* are coalesced into one.
TaskOrder(q) ==
    /\ \A j, k \in 1..Len(q) : q[j] \in Late /\ q[k] \in Early => k < j
    /\ \A j, k \in 1..Len(q) : q[j] = "update" /\ q[k] = "update" => j = k

\* Only the worker posts for the task, one runnable at a time.
WorkerPosts ==
    /\ \A t \in Threads : posting[t] \in Early \cup Late => t = "worker"
    /\ posting["worker"] \in Early => call = "calling"
    /\ posting["worker"] = "update" => ~In(queue, "update")

CallProgress ==
    /\ call \in {"none", "submitted", "calling"} => outcome = "none"
    /\ call = "returned" => outcome # "none"
    /\ call = "done" => outcome # "none" \/ future = "cancelled"
    /\ future = "completed" => call = "done"
    /\ Posted("succeeded") => outcome = "SUCCEEDED"
    /\ Posted("failed") => outcome = "FAILED"

\* An update is posted exactly while there is a value to deliver.
ValueFlow ==
    /\ Posted("update") <=> valueUpdate # 0
    /\ valueUpdate # 0 => valueUpdate = updates
    /\ value = Result => outcome = "SUCCEEDED" /\ ~Posted("update")
    /\ value = Result \/ Posted("update") \/ value = updates
    /\ outcome = "SUCCEEDED" =>
          Posted("succeeded") \/ value = Result \/ future = "cancelled"

Ended(o, i) ==
    outcome = o /\ future # "cancelled" =>
        Posted(i) \/ (state = o /\ ~Posted("running"))

StateFlow ==
    /\ CancelPosted \/ state = "CANCELLED" => future = "cancelled"
    /\ future = "cancelled" => CancelPosted \/ state = "CANCELLED"
    /\ Ended("SUCCEEDED", "succeeded")
    /\ Ended("FAILED", "failed")

TaskFlow ==
    /\ TaskOrder(queue)
    /\ WorkerPosts /\ CallProgress /\ ValueFlow /\ StateFlow

\* As long as the toolkit accepts what is posted.
TaskInv == ~toolkitExit => TaskFlow

\* A runnable of the task is queued behind those it has to be behind.
LEMMA TaskAppend ==
    ASSUME NEW q \in Seq(Items), NEW e \in Items, TaskOrder(q),
           e \in Early => ~In(q, "succeeded") /\ ~In(q, "failed"),
           e = "update" => ~In(q, "update")
    PROVE  TaskOrder(Append(q, e))
  <1> DEFINE a == Append(q, e)
  <1>1. /\ Len(a) = Len(q) + 1 /\ Len(q) \in Nat
        /\ \A i \in 1..Len(q) : a[i] = q[i]
        /\ a[Len(q) + 1] = e
    BY AppendProperties, LenProperties
  <1> HIDE DEF a
  <1>2. \A k \in 1..Len(a) : k \in 1..Len(q) \/ k = Len(q) + 1
    BY <1>1
  <1>3. \A k \in 1..Len(q) : k < Len(q) + 1
    BY <1>1
  <1>4. Early \cap Late = {}
    BY DEF Early, Late
  <1>5. ASSUME NEW j \in 1..Len(a), NEW k \in 1..Len(a), a[j] \in Late, a[k] \in Early
        PROVE  k < j
    <2>1. CASE j \in 1..Len(q) /\ k \in 1..Len(q)
      BY <1>1, <1>5, <2>1 DEF TaskOrder
    <2>2. CASE j = Len(q) + 1
      BY <1>1, <1>2, <1>3, <1>4, <1>5, <2>2
    <2>3. CASE j \in 1..Len(q) /\ k = Len(q) + 1
      BY <1>1, <1>5, <2>3 DEF In, Late
    <2> QED
      BY <1>2, <2>1, <2>2, <2>3
  <1>6. ASSUME NEW j \in 1..Len(a), NEW k \in 1..Len(a), a[j] = "update", a[k] = "update"
        PROVE  j = k
    BY <1>1, <1>2, <1>6 DEF TaskOrder, In
  <1> QED
    BY <1>5, <1>6 DEF TaskOrder, a

\* Taking a runnable out keeps the rest and their order; behind the end of the
\* call there is nothing earlier, and no second update behind an update.
LEMMA TaskTail ==
    ASSUME NEW q \in Seq(Items), q # <<>>, TaskOrder(q)
    PROVE  /\ Tail(q) \in Seq(Items) /\ TaskOrder(Tail(q))
           /\ \A i : In(q, i) <=> In(Tail(q), i) \/ i = Head(q)
           /\ Head(q) \in Late => ~In(Tail(q), "running") /\ ~In(Tail(q), "update")
           /\ Head(q) = "update" => ~In(Tail(q), "update")
  <1> DEFINE r == Tail(q)
  <1>1. /\ r \in Seq(Items) /\ Len(r) = Len(q) - 1 /\ Len(q) \in Nat \ {0}
        /\ \A i \in 1..Len(r) : r[i] = q[i + 1]
    BY HeadTailProperties, EmptySeq
  <1>2. Head(q) = q[1]
    OBVIOUS
  <1> HIDE DEF r
  <1>3. /\ 1 \in 1..Len(q)
        /\ \A i \in 1..Len(r) : i + 1 \in 1..Len(q) /\ i + 1 # 1 /\ ~(i + 1 < 1)
        /\ \A i \in 1..Len(q) : i # 1 => i - 1 \in 1..Len(r) /\ (i - 1) + 1 = i
    BY <1>1
  <1>4. \A i : In(q, i) <=> In(r, i) \/ i = Head(q)
    <2>1. ASSUME NEW i, In(q, i) PROVE In(r, i) \/ i = Head(q)
      <3>1. PICK k \in 1..Len(q) : q[k] = i
        BY <2>1 DEF In
      <3>2. CASE k = 1
        BY <1>2, <3>1, <3>2
      <3>3. CASE k # 1
        <4>1. k - 1 \in 1..Len(r) /\ r[k - 1] = q[k]
          BY <1>1, <1>3, <3>3
        <4> QED
          BY <3>1, <4>1 DEF In
      <3> QED
        BY <3>2, <3>3
    <2>2. \A i : In(r, i) => In(q, i)
      BY <1>1, <1>3 DEF In
    <2>3. In(q, Head(q))
      BY <1>2, <1>3 DEF In
    <2> QED
      BY <2>1, <2>2, <2>3
  <1>5. TaskOrder(r)
    <2>1. ASSUME NEW j \in 1..Len(r), NEW k \in 1..Len(r)
          PROVE  /\ r[j] \in Late /\ r[k] \in Early => k < j
                 /\ r[j] = "update" /\ r[k] = "update" => j = k
      <3>1. /\ j + 1 \in 1..Len(q) /\ k + 1 \in 1..Len(q)
            /\ r[j] = q[j + 1] /\ r[k] = q[k + 1]
        BY <1>1, <1>3
      <3>2. /\ r[j] \in Late /\ r[k] \in Early => k + 1 < j + 1
            /\ r[j] = "update" /\ r[k] = "update" => j + 1 = k + 1
        BY <3>1 DEF TaskOrder
      <3> QED
        BY <3>2
    <2> QED
      BY <2>1 DEF TaskOrder
  <1>6. Head(q) \in Late => ~In(r, "running") /\ ~In(r, "update")
    BY <1>1, <1>2, <1>3 DEF TaskOrder, In, Early
  <1>7. Head(q) = "update" => ~In(r, "update")
    BY <1>1, <1>2, <1>3 DEF TaskOrder, In
  <1> QED
    BY <1>1, <1>4, <1>5, <1>6, <1>7 DEF r

\* The idle check disturbs nothing of the task.
LEMMA TaskIdleCheck ==
    ASSUME NEW q \in Seq(Items), TaskOrder(q), NEW who, NEW windows, NEW pending,
           NEW nested, CheckIdle(who, windows, pending, q, nested)
    PROVE  /\ TaskOrder(queue')
           /\ \A i \in TaskItems : In(queue', i) <=> In(q, i)
  <1>1. queue' = q \/ queue' = Append(q, "dummy")
    BY DEF CheckIdle
  <1>2. "dummy" \in Items /\ "dummy" \notin TaskItems /\ "dummy" \notin Early
    BY DEF Items, TaskItems, Early
  <1>3. TaskOrder(Append(q, "dummy"))
    BY <1>2, TaskAppend
  <1>4. \A i \in TaskItems : In(Append(q, "dummy"), i) <=> In(q, i)
    BY <1>2, QueueAppend
  <1> QED
    BY <1>1, <1>3, <1>4

\* A step in which nothing happens to the task and to what it has posted.
LEMMA TaskQuiet ==
    ASSUME TaskFlow, TaskOrder(queue'),
           \A i \in TaskItems : In(queue', i) <=> In(queue, i),
           \A t \in Threads : posting'[t] # posting[t] =>
                 {posting[t], posting'[t]} \cap TaskItems = {},
           UNCHANGED taskVars
    PROVE  TaskFlow'
  <1>0. "worker" \in Threads
    BY ApplicationAssumption
  <1>1. Early \cup Late \cup {"cancelled"} = TaskItems
    BY DEF Early, Late, TaskItems
  <1>2. \A t \in Threads : \A i \in TaskItems : posting'[t] = i <=> posting[t] = i
    OBVIOUS
  <1>3. /\ \A i \in TaskItems : Posted(i)' <=> Posted(i)
        /\ CancelPosted' <=> CancelPosted
    BY <1>0, <1>2 DEF Posted, CancelPosted, TaskItems
  <1>4. WorkerPosts'
    <2>1. \A t \in Threads : posting'[t] \in Early \cup Late => t = "worker"
      BY <1>1, <1>2 DEF TaskFlow, WorkerPosts
    <2>2. posting'["worker"] \in Early => call' = "calling"
      BY <1>0, <1>1, <1>2 DEF TaskFlow, WorkerPosts, taskVars
    <2>3. posting'["worker"] = "update" => ~In(queue', "update")
      BY <1>0, <1>1, <1>2 DEF TaskFlow, WorkerPosts, TaskItems
    <2> QED
      BY <2>1, <2>2, <2>3 DEF WorkerPosts
  <1>5. CallProgress' /\ ValueFlow' /\ StateFlow'
    <2>1. {"running", "update", "succeeded", "failed"} \subseteq TaskItems
      BY DEF TaskItems
    <2> QED
      BY <1>3, <2>1 DEF TaskFlow, CallProgress, ValueFlow, StateFlow, Ended, taskVars
  <1> QED
    BY <1>4, <1>5 DEF TaskFlow

\* What is deferred was posted before, and is queued where it belongs.
LEMMA TaskDefer ==
    ASSUME LauncherInv, TaskFlow, ~toolkitExit, NEW t \in Threads, Defer(t),
           UNCHANGED taskVars
    PROVE  TaskFlow'
  <1> DEFINE r == posting[t]
  <1>0. "worker" \in Threads
    BY ApplicationAssumption
  <1>1. /\ r # "none" /\ posting' = [posting EXCEPT ![t] = "none"]
        /\ queue' = Append(queue, r)
    BY DEF Defer
  <1>2. /\ queue \in Seq(Items) /\ r \in Items
        /\ \A u \in Threads : posting'[u] = IF u = t THEN "none" ELSE posting[u]
        /\ "none" \notin TaskItems
    BY <1>1 DEF LauncherInv, LauncherTypes, TaskItems
  <1> HIDE DEF r
  <1>3. \A i : In(queue', i) <=> In(queue, i) \/ i = r
    BY <1>1, <1>2, QueueAppend
  <1>4. Early \cup Late \cup {"cancelled"} = TaskItems
    BY DEF Early, Late, TaskItems
  <1>5. r \in Early \cup Late => t = "worker"
    BY DEF TaskFlow, WorkerPosts, r
  <1>6. r \in Early => ~In(queue, "succeeded") /\ ~In(queue, "failed")
    BY <1>5 DEF TaskFlow, WorkerPosts, CallProgress, Posted, r
  <1>7. r = "update" => ~In(queue, "update")
    BY <1>5 DEF TaskFlow, WorkerPosts, Early, r
  <1>8. TaskOrder(queue')
    BY <1>1, <1>2, <1>6, <1>7, TaskAppend DEF TaskFlow
  <1>9. /\ \A i \in Early \cup Late : Posted(i)' <=> Posted(i)
        /\ CancelPosted' <=> CancelPosted
    <2>1. ASSUME NEW i \in Early \cup Late
          PROVE  Posted(i)' <=> Posted(i)
      <3>1. i # "none" /\ (r = i => t = "worker")
        BY <1>2, <1>4, <1>5
      <3>2. posting["worker"] = i => posting'["worker"] = i \/ r = i
        BY <1>0, <1>2 DEF r
      <3>3. posting'["worker"] = i => posting["worker"] = i
        BY <1>0, <1>2, <3>1
      <3> QED
        BY <1>3, <3>1, <3>2, <3>3 DEF Posted, r
    <2>2. CancelPosted' => CancelPosted
      BY <1>2, <1>3, <1>4 DEF CancelPosted, r
    <2>3. CancelPosted => CancelPosted'
      BY <1>2, <1>3, <1>4 DEF CancelPosted, r
    <2> QED
      BY <2>1, <2>2, <2>3
  <1>10. WorkerPosts'
    <2>1. \A u \in Threads : posting'[u] \in Early \cup Late => u = "worker"
      BY <1>2, <1>4 DEF TaskFlow, WorkerPosts
    <2>2. posting'["worker"] \in Early =>
             posting["worker"] \in Early /\ posting'["worker"] = posting["worker"]
               /\ t # "worker"
      BY <1>0, <1>2, <1>4
    <2>3. posting'["worker"] \in Early => call' = "calling"
      BY <2>2 DEF TaskFlow, WorkerPosts, taskVars
    <2>4. posting'["worker"] = "update" => ~In(queue', "update")
      BY <1>3, <1>5, <2>2 DEF TaskFlow, WorkerPosts, Early
    <2> QED
      BY <2>1, <2>3, <2>4 DEF WorkerPosts
  <1>11. CallProgress' /\ ValueFlow' /\ StateFlow'
    BY <1>9 DEF TaskFlow, CallProgress, ValueFlow, StateFlow, Ended, taskVars,
                Early, Late
  <1> QED
    BY <1>8, <1>10, <1>11 DEF TaskFlow

\* The steps of the platform.
LEMMA TaskPlatform ==
    ASSUME LauncherInv, TaskFlow, ~toolkitExit, ~toolkitExit',
           PlatformNext, UNCHANGED taskVars
    PROVE  TaskFlow'
  <1> "launcher" \in Threads /\ "other" \in Threads
    BY ThreadsAssumption
  <1>0. /\ queue \in Seq(Items) /\ TaskOrder(queue)
        /\ posting \in [Threads -> Items \cup {"none"}]
    BY DEF TaskFlow, LauncherInv, LauncherTypes
  <1>1. CASE UNCHANGED <<queue, posting>>
    BY <1>0, <1>1, TaskQuiet
  <1>2. ASSUME NEW t \in Threads, NEW r, Count(t, r), r \notin TaskItems
        PROVE  TaskFlow'
    <2>1. /\ UNCHANGED queue /\ posting[t] = "none"
          /\ posting' = [posting EXCEPT ![t] = r]
      BY <1>2 DEF Count
    <2>2. \A u \in Threads : posting'[u] = IF u = t THEN r ELSE posting[u]
      BY <1>0, <2>1
    <2>3. "none" \notin TaskItems
      BY DEF TaskItems
    <2> QED
      BY <1>0, <1>2, <2>1, <2>2, <2>3, TaskQuiet
  <1>3. ASSUME NEW who, NEW w, NEW p, NEW n, CheckIdle(who, w, p, queue, n),
               UNCHANGED posting
        PROVE  TaskFlow'
    BY <1>0, <1>3, TaskIdleCheck, TaskQuiet
  <1>4. ASSUME queue # <<>>, Head(queue) \notin TaskItems
        PROVE  /\ Tail(queue) \in Seq(Items) /\ TaskOrder(Tail(queue))
               /\ \A i \in TaskItems : In(Tail(queue), i) <=> In(queue, i)
    BY <1>0, <1>4, TaskTail
  <1>5. CASE RunUserCode
    <2>1. /\ queue # <<>> /\ Head(queue) \notin TaskItems
          /\ queue' = Tail(queue) /\ UNCHANGED posting
      BY <1>5 DEF RunUserCode, UserCode, Waiting, TaskItems
    <2> QED
      BY <1>4, <2>1, TaskQuiet
  <1>6. CASE RunShort({"dummy"})
    <2>1. /\ queue # <<>> /\ Head(queue) \notin TaskItems /\ UNCHANGED posting
          /\ CheckIdle("runnable", numWindows, pendingRunnables - 1, Tail(queue),
                       NestedLoopRunning(stack))
      BY <1>6 DEF RunShort, TaskItems
    <2>2. TaskOrder(queue') /\ \A i \in TaskItems : In(queue', i) <=> In(Tail(queue), i)
      BY <1>4, <2>1, TaskIdleCheck
    <2> QED
      BY <1>4, <2>1, <2>2, TaskQuiet
  <1>7. ~RunExit
    <2>1. RunExit => In(queue, "exit")
      BY <1>0, QueueTail DEF RunExit
    <2> QED
      BY <2>1 DEF LauncherInv, ExitOrder, Queued
  <1>8. CASE LeaveNestedLoop \/ Finally \/ Show \/ Hide
              \/ \E b \in BOOLEAN : SetImplicitExit(b)
    BY <1>3, <1>8 DEF LeaveNestedLoop, Finally, Show, Hide, ChangeWindows,
                      SetImplicitExit
  <1>9. CASE EndUserCode \/ NotifyIdle \/ ExitDirectly \/ EventArrives
              \/ EnterNestedLoop \/ ExitCalled
    BY <1>1, <1>9 DEF EndUserCode, NotifyIdle, ExitDirectly, EventArrives,
                      EnterNestedLoop, ExitCalled, idleVars
  <1>i. {"start", "stop", "dummy", "exit", "later", "user"} \cap TaskItems = {}
    BY DEF TaskItems
  <1>10. CASE Launcher
    BY <1>1, <1>2, <1>i, <1>10
       DEF Launcher, LauncherStart, LauncherInitFails, LauncherStarted, LauncherStop,
           LauncherStopped, RemoveListener, Unregister, TkExit, LauncherDone,
           RunAndWait, idleVars
  <1>11. CASE Other
    BY <1>1, <1>2, <1>i, <1>11
       DEF Other, OtherPosts, OtherSetsImplicitExit, OtherExits, RunAndWait, idleVars
  <1>12. CASE Posting
    BY <1>1, <1>12, TaskDefer DEF Posting, AwaitDone, idleVars
  <1> QED
    BY <1>5, <1>6, <1>7, <1>8, <1>9, <1>10, <1>11, <1>12
       DEF PlatformNext, FX, FXActs

\* What a thread that counts a runnable of the task changes.
LEMMA TaskCount ==
    ASSUME LauncherInv, NEW t \in Threads, NEW r \in TaskItems, Count(t, r),
           r = "cancelled" \/ t = "worker"
    PROVE  /\ UNCHANGED queue /\ posting[t] = "none"
           /\ \A u \in Threads : posting'[u] = IF u = t THEN r ELSE posting[u]
           /\ \A i \in Early \cup Late :
                 Posted(i)' <=> Posted(i) \/ (i = r /\ t = "worker")
           /\ CancelPosted' <=> CancelPosted \/ r = "cancelled"
  <1>0. "worker" \in Threads
    BY ApplicationAssumption
  <1>1. /\ UNCHANGED queue /\ posting[t] = "none"
        /\ posting' = [posting EXCEPT ![t] = r]
    BY DEF Count
  <1>2. \A u \in Threads : posting'[u] = IF u = t THEN r ELSE posting[u]
    BY <1>1 DEF LauncherInv, LauncherTypes
  <1>3. \A i \in Early \cup Late : i # "none" /\ i # "cancelled"
    BY DEF Early, Late
  <1>4. ASSUME NEW i \in Early \cup Late
        PROVE  Posted(i)' <=> Posted(i) \/ (i = r /\ t = "worker")
    BY <1>0, <1>1, <1>2, <1>3 DEF Posted
  <1>5. CancelPosted' <=> CancelPosted \/ r = "cancelled"
    BY <1>1, <1>2 DEF CancelPosted
  <1> QED
    BY <1>1, <1>2, <1>4, <1>5

\* The steps of the worker thread.
LEMMA TaskWorker ==
    ASSUME LauncherInv, TaskTypes, TaskFlow, ~toolkitExit, Worker
    PROVE  TaskFlow'
  <1>0. "worker" \in Threads
    BY ApplicationAssumption
  <1>1. /\ queue \in Seq(Items) /\ TaskOrder(queue)
        /\ posting \in [Threads -> Items \cup {"none"}]
    BY DEF TaskFlow, LauncherInv, LauncherTypes
  <1>2. UNCHANGED queue /\ TaskOrder(queue')
    BY <1>1 DEF Worker, CallBegins, UpdateValue, CallReturns, CallThrows, FutureSet,
                Count, idleVars
  <1>3. ASSUME UNCHANGED posting
        PROVE  UNCHANGED <<Posted("running"), Posted("update"), Posted("succeeded"),
                           Posted("failed"), CancelPosted>>
    BY <1>2, <1>3 DEF Posted, CancelPosted
  <1>4. ASSUME UNCHANGED posting, posting["worker"] \in Early => call' = "calling"
        PROVE  WorkerPosts'
    BY <1>2, <1>4 DEF TaskFlow, WorkerPosts
  <1>5. ASSUME NEW r \in Early \cup Late, Count("worker", r),
               r \in Early => call' = "calling",
               r = "update" => ~In(queue, "update")
        PROVE  /\ WorkerPosts'
               /\ \A i \in Early \cup Late : Posted(i)' <=> Posted(i) \/ i = r
               /\ CancelPosted' <=> CancelPosted
    <2>1. r \in TaskItems /\ r # "cancelled"
      BY <1>5 DEF Early, Late, TaskItems
    <2>2. /\ \A u \in Threads : posting'[u] = IF u = "worker" THEN r ELSE posting[u]
          /\ \A i \in Early \cup Late : Posted(i)' <=> Posted(i) \/ i = r
          /\ CancelPosted' <=> CancelPosted
      BY <1>0, <1>5, <2>1, TaskCount
    <2>3. posting'["worker"] = r
      BY <1>0, <2>2
    <2> QED
      BY <1>2, <1>5, <2>2, <2>3 DEF TaskFlow, WorkerPosts
  <1>e. /\ Early = {"running", "update"} /\ Late = {"succeeded", "failed"}
        /\ "none" \notin Early
    BY DEF Early, Late
  <1>6. CASE CallBegins
    <2>1. /\ call = "submitted" /\ UNCHANGED <<future, state, outcome, updates,
                                               valueUpdate, value>>
          /\ outcome = "none"
      BY <1>6 DEF CallBegins, TaskFlow, CallProgress
    <2>2. CASE future = "new"
      <3>1. call' = "calling" /\ Count("worker", "running")
        BY <1>6, <2>2 DEF CallBegins
      <3>2. /\ WorkerPosts' /\ (CancelPosted' <=> CancelPosted)
            /\ \A i \in Early \cup Late : Posted(i)' <=> Posted(i) \/ i = "running"
        BY <1>5, <1>e, <3>1
      <3>3. /\ UNCHANGED <<Posted("update"), Posted("succeeded"), Posted("failed")>>
        BY <1>e, <3>2 DEF Posted
      <3>4. CallProgress' /\ ValueFlow' /\ StateFlow'
        BY <2>1, <2>2, <3>1, <3>2, <3>3
           DEF TaskFlow, CallProgress, ValueFlow, StateFlow, Ended
      <3> QED
        BY <1>2, <3>2, <3>4 DEF TaskFlow
    <2>3. CASE future # "new"
      <3>1. call' = "done" /\ UNCHANGED posting /\ posting["worker"] \notin Early
        BY <1>6, <2>1, <2>3 DEF CallBegins, TaskFlow, WorkerPosts
      <3>2. future = "cancelled"
        BY <2>1, <2>3 DEF TaskFlow, CallProgress, TaskTypes
      <3>3. WorkerPosts'
        BY <1>4, <3>1
      <3>4. CallProgress' /\ ValueFlow' /\ StateFlow'
        BY <1>3, <2>1, <3>1, <3>2
           DEF TaskFlow, CallProgress, ValueFlow, StateFlow, Ended
      <3> QED
        BY <1>2, <3>3, <3>4 DEF TaskFlow
    <2> QED
      BY <2>2, <2>3
  <1>7. CASE UpdateValue
    <2>1. /\ call = "calling" /\ call' = "calling" /\ posting["worker"] = "none"
          /\ updates' = updates + 1 /\ valueUpdate' = updates + 1
          /\ UNCHANGED <<future, state, outcome, value>> /\ outcome = "none"
      BY <1>7 DEF UpdateValue, WorkerFree, TaskFlow, CallProgress
    <2>2. updates + 1 # 0
      BY ApplicationAssumption DEF TaskTypes
    <2>3. /\ WorkerPosts' /\ (CancelPosted' <=> CancelPosted)
          /\ \A i \in Early \cup Late : Posted(i)' <=> Posted(i) \/ i = "update"
      <3>1. CASE valueUpdate = 0
        <4>1. Count("worker", "update") /\ ~In(queue, "update")
          BY <1>7, <3>1 DEF UpdateValue, TaskFlow, ValueFlow, Posted
        <4> QED
          BY <1>5, <1>e, <2>1, <4>1
      <3>2. CASE valueUpdate # 0
        <4>1. UNCHANGED posting /\ Posted("update")
          BY <1>7, <3>2 DEF UpdateValue, TaskFlow, ValueFlow
        <4> QED
          BY <1>3, <1>4, <1>e, <2>1, <4>1
      <3> QED
        BY <3>1, <3>2
    <2>4. /\ UNCHANGED <<Posted("running"), Posted("succeeded"), Posted("failed")>>
          /\ Posted("update")'
      BY <1>e, <2>3 DEF Posted
    <2>5. CallProgress' /\ ValueFlow' /\ StateFlow'
      BY <2>1, <2>2, <2>3, <2>4
         DEF TaskFlow, CallProgress, ValueFlow, StateFlow, Ended
    <2> QED
      BY <1>2, <2>3, <2>5 DEF TaskFlow
  <1>8. CASE CallReturns \/ CallThrows
    <2>1. /\ call = "calling" /\ call' = "returned" /\ posting["worker"] = "none"
          /\ UNCHANGED <<future, state, updates, valueUpdate, value>>
          /\ outcome = "none" /\ outcome' \in {"SUCCEEDED", "FAILED"}
          /\ ~Posted("succeeded") /\ ~Posted("failed") /\ value # Result
          /\ future # "completed"
      BY <1>8 DEF CallReturns, CallThrows, WorkerFree, TaskFlow, CallProgress, ValueFlow
    <2>2. CASE outcome' = "SUCCEEDED" /\ future = "cancelled"
      <3>1. UNCHANGED posting
        BY <1>8, <2>2 DEF CallReturns, CallThrows
      <3>2. WorkerPosts'
        BY <1>4, <1>e, <2>1, <3>1
      <3>3. CallProgress' /\ ValueFlow' /\ StateFlow'
        BY <1>3, <2>1, <2>2, <3>1
           DEF TaskFlow, CallProgress, ValueFlow, StateFlow, Ended
      <3> QED
        BY <1>2, <3>2, <3>3 DEF TaskFlow
    <2>3. ASSUME NEW r \in Late, Count("worker", r),
                 \/ r = "succeeded" /\ outcome' = "SUCCEEDED"
                 \/ r = "failed" /\ outcome' = "FAILED"
          PROVE  TaskFlow'
      <3>1. /\ WorkerPosts' /\ (CancelPosted' <=> CancelPosted)
            /\ \A i \in Early \cup Late : Posted(i)' <=> Posted(i) \/ i = r
        BY <1>5, <1>e, <2>3
      <3>2. /\ UNCHANGED <<Posted("running"), Posted("update")>>
            /\ Posted("succeeded")' <=> r = "succeeded"
            /\ Posted("failed")' <=> r = "failed"
        BY <1>e, <2>1, <2>3, <3>1 DEF Posted
      <3>3. CallProgress' /\ ValueFlow' /\ StateFlow'
        BY <2>1, <2>3, <3>1, <3>2
           DEF TaskFlow, CallProgress, ValueFlow, StateFlow, Ended
      <3> QED
        BY <1>2, <3>1, <3>3 DEF TaskFlow
    <2> QED
      BY <1>8, <1>e, <2>2, <2>3 DEF CallReturns, CallThrows
  <1>9. CASE FutureSet
    <2>1. /\ call = "returned" /\ call' = "done" /\ posting["worker"] = "none"
          /\ future' = IF future = "new" THEN "completed" ELSE future
          /\ UNCHANGED <<posting, state, outcome, updates, valueUpdate, value>>
          /\ outcome # "none"
      BY <1>9 DEF FutureSet, WorkerFree, TaskFlow, CallProgress
    <2>2. WorkerPosts'
      BY <1>4, <1>e, <2>1
    <2>3. CallProgress' /\ ValueFlow' /\ StateFlow'
      BY <1>3, <2>1 DEF TaskFlow, CallProgress, ValueFlow, StateFlow, Ended
    <2> QED
      BY <1>2, <2>2, <2>3 DEF TaskFlow
  <1> QED
    BY <1>6, <1>7, <1>8, <1>9 DEF Worker

\* The FX thread runs what the task has posted.
LEMMA TaskRun ==
    ASSUME LauncherInv, TaskTypes, TaskFlow, RunTaskRunnable
    PROVE  TaskFlow'
  <1> DEFINE r == Head(queue)
  <1>0. "worker" \in Threads
    BY ApplicationAssumption
  <1>1. /\ queue # <<>> /\ r \in TaskItems /\ UNCHANGED posting
        /\ CheckIdle("runnable", numWindows, pendingRunnables - 1, Tail(queue),
                     NestedLoopRunning(stack))
        /\ UNCHANGED <<future, call, outcome, updates>>
    BY DEF RunTaskRunnable, RunShort
  <1>2. queue \in Seq(Items) /\ TaskOrder(queue)
    BY DEF TaskFlow, LauncherInv, LauncherTypes
  <1>3. /\ Tail(queue) \in Seq(Items) /\ TaskOrder(Tail(queue))
        /\ \A i : In(queue, i) <=> In(Tail(queue), i) \/ i = r
        /\ r \in Late => ~In(Tail(queue), "running") /\ ~In(Tail(queue), "update")
        /\ r = "update" => ~In(Tail(queue), "update")
    BY <1>1, <1>2, TaskTail
  <1>4. /\ TaskOrder(queue')
        /\ \A i \in TaskItems : In(queue', i) <=> In(Tail(queue), i)
    BY <1>1, <1>3, TaskIdleCheck
  <1>b. \/ /\ r = "running" /\ UNCHANGED <<valueUpdate, value>>
           /\ state' = IF state = "CANCELLED" THEN state ELSE "RUNNING"
        \/ /\ r = "update" /\ UNCHANGED state
           /\ value' = valueUpdate /\ valueUpdate' = 0
        \/ /\ r = "succeeded" /\ UNCHANGED valueUpdate /\ value' = Result
           /\ state' = IF state = "CANCELLED" THEN state ELSE "SUCCEEDED"
        \/ /\ r = "failed" /\ UNCHANGED <<valueUpdate, value>>
           /\ state' = IF state = "CANCELLED" THEN state ELSE "FAILED"
        \/ /\ r = "cancelled" /\ UNCHANGED <<valueUpdate, value>>
           /\ state' = "CANCELLED"
    BY <1>1 DEF RunTaskRunnable, TaskItems, SetState, TakeValueUpdate
  <1> HIDE DEF r
  <1>e. /\ Early = {"running", "update"} /\ Late = {"succeeded", "failed"}
        /\ TaskItems = Early \cup Late \cup {"cancelled"}
    BY DEF Early, Late, TaskItems
  <1>5. /\ \A i \in Early \cup Late : Posted(i)' => Posted(i)
        /\ \A i \in Early \cup Late : Posted(i) => Posted(i)' \/ i = r
        /\ CancelPosted' => CancelPosted
        /\ CancelPosted => CancelPosted' \/ r = "cancelled"
        /\ r = "cancelled" => CancelPosted
        /\ \A i \in Early \cup Late : r = i => Posted(i)
    BY <1>1, <1>3, <1>4, <1>e DEF Posted, CancelPosted
  <1>6. WorkerPosts'
    BY <1>1, <1>3, <1>4, <1>e DEF TaskFlow, WorkerPosts
  <1>7. /\ r = "succeeded" => outcome = "SUCCEEDED"
        /\ r = "failed" => outcome = "FAILED"
    BY <1>5, <1>e DEF TaskFlow, CallProgress
  <1>8. r \in Late => /\ posting["worker"] \notin Early
                     /\ ~Posted("running")' /\ ~Posted("update")'
    <2>1. r \in Late => posting["worker"] \notin Early
      BY <1>7, <1>e DEF TaskFlow, WorkerPosts, CallProgress
    <2> QED
      BY <1>1, <1>3, <1>4, <1>e, <2>1 DEF Posted
  <1>9. r = "update" => ~Posted("update")'
    BY <1>1, <1>3, <1>4, <1>e DEF Posted, TaskFlow, WorkerPosts
  <1>10. CallProgress'
    BY <1>1, <1>5, <1>e DEF TaskFlow, CallProgress
  <1>n. /\ valueUpdate # Result /\ updates # Result
    BY ApplicationAssumption DEF TaskTypes, Result
  <1>11. ValueFlow'
    <2>1. CASE r = "update"
      <3>1. /\ value' = valueUpdate /\ valueUpdate' = 0 /\ ~Posted("update")'
            /\ Posted("update")
        BY <1>b, <1>5, <1>9, <1>e, <2>1
      <3>2. value # Result /\ value' = updates
        BY <3>1 DEF TaskFlow, ValueFlow
      <3> QED
        BY <1>1, <1>5, <1>e, <1>n, <2>1, <3>1, <3>2 DEF TaskFlow, ValueFlow
    <2>2. CASE r = "succeeded"
      BY <1>1, <1>b, <1>5, <1>7, <1>8, <1>e, <2>2 DEF TaskFlow, ValueFlow
    <2>3. CASE r \notin {"update", "succeeded"}
      <3>1. UNCHANGED <<valueUpdate, value>>
        BY <1>b, <2>3
      <3>2. /\ Posted("update")' <=> Posted("update")
            /\ Posted("succeeded")' <=> Posted("succeeded")
        BY <1>5, <1>e, <2>3
      <3> QED
        BY <1>1, <3>1, <3>2 DEF TaskFlow, ValueFlow
    <2> QED
      BY <2>1, <2>2, <2>3
  <1>12. StateFlow'
    <2>1. CancelPosted' \/ state' = "CANCELLED" => future' = "cancelled"
      BY <1>1, <1>b, <1>5 DEF TaskFlow, StateFlow
    <2>2. future' = "cancelled" => CancelPosted' \/ state' = "CANCELLED"
      BY <1>1, <1>b, <1>5 DEF TaskFlow, StateFlow
    <2>3. ASSUME NEW o, NEW i,
                 \/ o = "SUCCEEDED" /\ i = "succeeded"
                 \/ o = "FAILED" /\ i = "failed"
          PROVE  Ended(o, i)'
      <3>1. SUFFICES ASSUME outcome = o, future # "cancelled", ~Posted(i)'
                     PROVE  state' = o /\ ~Posted("running")'
        BY <1>1 DEF Ended
      <3>2. state # "CANCELLED" /\ r # "cancelled"
        BY <1>5, <3>1 DEF TaskFlow, StateFlow
      <3>3. CASE r = i
        BY <1>b, <1>8, <1>e, <2>3, <3>2, <3>3
      <3>4. CASE r # i
        <4>1. ~Posted(i)
          BY <1>5, <1>e, <2>3, <3>1, <3>4
        <4>2. state = o /\ ~Posted("running")
          BY <2>3, <3>1, <4>1 DEF TaskFlow, StateFlow, Ended
        <4>3. r = "update"
          BY <1>b, <1>5, <1>7, <1>e, <2>3, <3>1, <3>2, <3>4, <4>2
        <4> QED
          BY <1>b, <1>5, <1>e, <4>2, <4>3
      <3> QED
        BY <3>3, <3>4
    <2> QED
      BY <2>1, <2>2, <2>3 DEF StateFlow
  <1> QED
    BY <1>4, <1>6, <1>10, <1>11, <1>12 DEF TaskFlow

\* The task is handed to a thread, or cancelled.
LEMMA TaskCancel ==
    ASSUME LauncherInv, TaskFlow, Submit \/ CancelOnFX \/ CancelOffFX
    PROVE  TaskFlow'
  <1>0. "worker" \in Threads /\ "other" \in Threads
    BY ThreadsAssumption, ApplicationAssumption
  <1>1. CASE Submit
    <2>1. /\ UNCHANGED <<queue, posting, future, state, outcome, updates,
                         valueUpdate, value>>
          /\ call = "none" /\ call' = "submitted"
      BY <1>1 DEF Submit, idleVars
    <2> QED
      BY <2>1 DEF TaskFlow, WorkerPosts, CallProgress, ValueFlow, StateFlow, Ended,
                  Posted, CancelPosted
  <1>2. CASE CancelOnFX
    <2>1. /\ UNCHANGED <<queue, posting, call, outcome, updates, valueUpdate, value>>
          /\ future = "new" /\ future' = "cancelled" /\ state' = "CANCELLED"
      BY <1>2 DEF CancelOnFX, CancelFuture, SetState, idleVars
    <2>2. UNCHANGED <<Posted("running"), Posted("update"), Posted("succeeded"),
                      Posted("failed"), CancelPosted>>
      BY <2>1 DEF Posted, CancelPosted
    <2> QED
      BY <2>1, <2>2 DEF TaskFlow, WorkerPosts, CallProgress, ValueFlow, StateFlow, Ended
  <1>3. CASE CancelOffFX
    <2>1. /\ UNCHANGED <<state, call, outcome, updates, valueUpdate, value>>
          /\ future = "new" /\ future' = "cancelled" /\ Count("other", "cancelled")
      BY <1>3 DEF CancelOffFX, CancelFuture
    <2>2. "cancelled" \in TaskItems /\ "cancelled" \notin Early \cup Late
      BY DEF TaskItems, Early, Late
    <2>3. /\ UNCHANGED queue
          /\ \A u \in Threads : posting'[u] = IF u = "other" THEN "cancelled"
                                               ELSE posting[u]
          /\ \A i \in Early \cup Late : Posted(i)' <=> Posted(i)
          /\ CancelPosted'
      BY <1>0, <2>1, <2>2, TaskCount
    <2>4. WorkerPosts'
      <3>1. posting'["worker"] = posting["worker"]
        BY <1>0, <2>3
      <3> QED
        BY <2>1, <2>2, <2>3, <3>1 DEF TaskFlow, WorkerPosts
    <2>5. CallProgress' /\ ValueFlow' /\ StateFlow'
      BY <2>1, <2>3 DEF TaskFlow, CallProgress, ValueFlow, StateFlow, Ended, Early, Late
    <2> QED
      BY <2>3, <2>4, <2>5 DEF TaskFlow
  <1> QED
    BY <1>1, <1>2, <1>3

\* Once the toolkit has begun to exit it stays so.
LEMMA ExitStays ==
    ASSUME LauncherInv, [Next]_vars, ~toolkitExit'
    PROVE  ~toolkitExit
  BY DEF LauncherInv, LauncherTypes, Next, Platform, PlatformNext, FX, FXActs,
         Launcher, Other, Posting, Worker, RunUserCode, RunShort, RunExit,
         LeaveNestedLoop, EndUserCode, Finally, NotifyIdle, ExitDirectly,
         EventArrives, Show, Hide, ChangeWindows, EnterNestedLoop, ExitCalled,
         SetImplicitExit, LauncherStart, LauncherInitFails, LauncherStarted,
         LauncherStop, LauncherStopped, RemoveListener, Unregister, TkExit,
         LauncherDone, OtherPosts, OtherExits, OtherSetsImplicitExit, Defer,
         AwaitDone, CallBegins, UpdateValue, CallReturns, CallThrows, FutureSet,
         KeepPlatform, RunTaskRunnable, Submit, CancelOnFX, CancelOffFX, vars,
         pvars, exitVars

\* What a task shows on the FX thread once all it has posted has been run is the
\* state of its future and its last value, whoever cancels it and when, however
\* many values it publishes and whatever other threads do.
THEOREM TaskAgrees == Spec => []TaskConsistent
  <1>1. Init => TaskInv
    <2> SUFFICES ASSUME Init PROVE TaskInv
      OBVIOUS
    <2>1. /\ \A i : ~In(queue, i) /\ TaskOrder(queue)
          /\ \A t \in Threads : posting[t] = "none"
          /\ "worker" \in Threads
      BY ApplicationAssumption DEF Init, PlatformInit, In, TaskOrder
    <2>2. /\ ~CancelPosted
          /\ \A i \in Early \cup Late : ~Posted(i)
      BY <2>1 DEF CancelPosted, Posted, Early, Late
    <2>3. Result # 0
      BY ApplicationAssumption DEF Result
    <2> QED
      BY <2>1, <2>2, <2>3 DEF Init, TaskInv, TaskFlow, WorkerPosts, CallProgress, ValueFlow,
                        StateFlow, Ended, Early, Late
  <1>2. LauncherInv /\ IdleInv /\ TaskInv /\ [Next]_vars => TaskInv'
    <2> SUFFICES ASSUME LauncherInv, IdleInv, TaskInv, [Next]_vars, ~toolkitExit'
                 PROVE  TaskFlow'
      BY DEF TaskInv
    <2>1. ~toolkitExit /\ TaskFlow /\ TaskTypes
      BY ExitStays DEF TaskInv, IdleInv
    <2>2. CASE UNCHANGED vars
      BY <2>1, <2>2, TaskQuiet DEF vars, pvars, idleVars, TaskFlow
    <2> QED
      BY <2>1, <2>2, TaskPlatform, TaskWorker, TaskRun, TaskCancel DEF Next, Platform
  <1>3. LauncherInv /\ IdleInv /\ TaskInv => TaskConsistent
    <2> SUFFICES ASSUME LauncherInv, IdleInv, TaskInv, ~TaskItemsPending, ~toolkitExit
                 PROVE  TaskConsistent
      BY DEF TaskConsistent, StateAgreesWithFuture, LastValueArrives
    <2>1. \A i \in TaskItems : ~In(queue, i) /\ \A t \in Threads : posting[t] # i
      <3>1. DOMAIN queue = 1..Len(queue)
        BY LenProperties DEF LauncherInv, LauncherTypes
      <3> QED
        BY <3>1 DEF TaskItemsPending, In
    <2>2. /\ ~Posted("update") /\ ~Posted("succeeded") /\ ~Posted("failed")
          /\ ~CancelPosted
      BY <2>1, ApplicationAssumption DEF Posted, CancelPosted, TaskItems
    <2>3. TaskFlow /\ TaskTypes
      BY DEF TaskInv, IdleInv
    <2>4. StateAgreesWithFuture
      BY <2>2, <2>3 DEF TaskFlow, CallProgress, StateFlow, Ended, TaskTypes,
                        StateAgreesWithFuture
    <2>5. LastValueArrives
      BY <2>2, <2>3 DEF TaskFlow, ValueFlow, LastValueArrives
    <2> QED
      BY <2>4, <2>5 DEF TaskConsistent
  <1> QED
    BY <1>1, <1>2, <1>3, LauncherInvHolds, IdleInvHolds, PTL DEF Spec
=============================================================================
