----------------------- MODULE RenderPipelineProofs -----------------------
(***************************************************************************)
(* Proofs about RenderPipeline, for any finite set of scenes.  Every       *)
(* invariant is proved by one lemma that takes the actions one by one.     *)
(***************************************************************************)
EXTENDS RenderPipeline, FiniteSetTheorems, TLAPS

\* Every window has a scene, or renderAll looks at the dirty scenes only.
SceneWindowsOnly == HasWindowManager \/ ~BareStages

\* A live repaint is the last job there is, and the application thread waits
\* for it.
LiveAlone ==
    /\ \A i \in 1..Len(renderQueue) :
           renderQueue[i].kind = "live" => i = Len(renderQueue) /\ fxpc = "liveWait"
    /\ rtJob.kind = "live" => renderQueue = <<>> /\ fxpc = "liveWait"

\* What renderAll visits can be repainted, and it cleared the flag before.
RepaintsAttached ==
    /\ fxpc = "repaint" => ~hasDirty
    /\ fxpc = "repaint" => \A s \in todo : s \in Scenes /\ Attached(s)
    /\ bareShown => BareStages

\* Content that can be painted is on the list that renderAll has not passed
\* yet, or a job or a posted repaint will get to it.
FrameReached(s) ==
    \/ s \in dirtyScenes /\ (fxpc = "repaint" => s \in todo)
    \/ HasJob(s)
    \/ \E i \in 1..Len(fxQueue) : fxQueue[i] = Repaint(s)
    \/ failed[s] # "no"

FramesReached ==
    \A s \in Scenes : Attached(s) /\ renderDirty[s] /\ stateValid[s] => FrameReached(s)

\* The list outlives its flag only when renderAll threw on a bare stage.
FlagDownOnlyThrown ==
    (IF fxpc = "repaint" THEN BareStage \in todo
                         ELSE ~hasDirty /\ dirtyScenes # {}) =>
        bareShown /\ ~HasWindowManager

\* A job that is past its painting has painted the scene or has failed to.
JobHasPainted ==
    rtpc \in {"present", "finish"} /\ renderDirty[rtScene] /\ stateValid[rtScene] =>
        failed[rtScene] # "no"

\* The runnables and jobs that the steps build are of their types.
LEMMA Elements ==
  /\ PulseRunnable \in Runnables
  /\ \A s \in Scenes : Repaint(s) \in Runnables
  /\ \A r \in Runnables : r.kind = "repaint" => r.scene \in Scenes
<1>1. PulseRunnable \in Runnables BY DEF Runnables
<1>2. \A s \in Scenes : Repaint(s) \in Runnables BY DEF Runnables
<1>3. ASSUME NEW r \in Runnables, r.kind = "repaint" PROVE r.scene \in Scenes
  <2>1. r # PulseRunnable BY <1>3 DEF PulseRunnable
  <2>2. PICK s \in Scenes : r = Repaint(s) BY <1>3, <2>1 DEF Runnables
  <2> QED BY <2>2 DEF Repaint
<1> QED BY <1>1, <1>2, <1>3

\* Jobs are built from scenes, and NoJob is none of them.
LEMMA JobElements ==
  /\ \A s \in Scenes : /\ [kind |-> "paint", scene |-> s] \in Jobs
                       /\ [kind |-> "live", scene |-> s] \in Jobs
  /\ \A j \in Jobs : j.scene \in Scenes
  /\ NoJob \notin Jobs
<1>1. \A s \in Scenes : [kind |-> "paint", scene |-> s] \in Jobs BY DEF Jobs
<1>2. \A s \in Scenes : [kind |-> "live", scene |-> s] \in Jobs BY DEF Jobs
<1>3. \A j \in Jobs : j.scene \in Scenes BY DEF Jobs
<1>4. NoJob \notin Jobs BY <1>3, NoSceneIsNoScene DEF NoJob
<1> QED BY <1>1, <1>2, <1>3, <1>4

\* A frame has finitely many windows.
LEMMA WindowsFinite ==
  dirtyScenes \subseteq Scenes => IsFiniteSet(Windows) /\ Cardinality(Windows) \in Nat
<1> SUFFICES ASSUME dirtyScenes \subseteq Scenes PROVE IsFiniteSet(Windows)
  BY FS_CardinalityType
<1>1. IsFiniteSet(Scenes \cup {BareStage})
  BY ScenesFinite, FS_Singleton, FS_Union
<1> QED BY <1>1, FS_Subset DEF Windows

\* The flags of the toolkit and of the scenes keep their types.
LEMMA FlagStep == TypeOK /\ [Next]_vars => (FlagTypes' /\ SceneFlagTypes')
<1> SUFFICES ASSUME TypeOK, [Next]_vars PROVE (FlagTypes' /\ SceneFlagTypes')
  OBVIOUS
<1> USE DEF TypeOK, FlagTypes, SceneFlagTypes, toolkitFlags, toolkitVars, windowVars,
           appVars, sceneVars, collectorVars, fxVars, rtVars, outsideFx, outsideRt
<1>1. CASE TimerTick BY <1>1 DEF TimerTick, postPulse
<1>2. CASE ShowBareStage BY <1>2 DEF ShowBareStage
<1>3. CASE Exit BY <1>3 DEF Exit
<1>4. CASE RunRepaint
  BY <1>4 DEF RunRepaint, entireSceneNeedsRepaint, sceneChanged, addDirtyScene,
     removeDirtyScene
<1>5. CASE StartPulse BY <1>5 DEF StartPulse
<1>6. CASE FirePulse BY <1>6 DEF FirePulse
<1>7. CASE AwaitRendering BY <1>7 DEF AwaitRendering
<1>8. CASE SynchronizeScene
  BY <1>8 DEF SynchronizeScene, sceneChanged, addDirtyScene, removeDirtyScene
<1>9. CASE EndFirePulse BY <1>9 DEF EndFirePulse
<1>10. CASE StartRenderAll BY <1>10 DEF StartRenderAll
<1>11. CASE EndRenderAll BY <1>11 DEF EndRenderAll
<1>12. CASE EndPulse BY <1>12 DEF EndPulse
<1>13. CASE SubmitLiveRepaint BY <1>13 DEF SubmitLiveRepaint
<1>14. CASE ExitAwaitRendering BY <1>14 DEF ExitAwaitRendering
<1>15. CASE TerminateGlass BY <1>15 DEF TerminateGlass
<1>16. CASE StartJob BY <1>16 DEF StartJob
<1>17. CASE BeginPaint BY <1>17 DEF BeginPaint
<1>18. CASE DoPaint BY <1>18 DEF DoPaint
<1>19. CASE Present BY <1>19 DEF Present
<1>20. CASE FinishPaint BY <1>20 DEF FinishPaint
<1>21. CASE LiveRepaintDone BY <1>21 DEF LiveRepaintDone
<1>22. CASE JobDone BY <1>22 DEF JobDone, postPulse
<1>23. CASE ReadLatch BY <1>23 DEF ReadLatch
<1>24. CASE CountDown BY <1>24 DEF CountDown
<1>25. CASE PulseAborted BY <1>25 DEF PulseAborted
<1>26. CASE RepaintBareStage BY <1>26 DEF RepaintBareStage
<1>27. CASE DeviceNotReady BY <1>27 DEF DeviceNotReady, deferRepaint
<1>28. CASE PresentFails BY <1>28 DEF PresentFails, deferRepaint
<1>29. CASE PainterThrows BY <1>29 DEF PainterThrows
<1>30. ASSUME NEW s \in Scenes, Show(s) PROVE (FlagTypes' /\ SceneFlagTypes')
  BY <1>30 DEF Show, addDirtyScene
<1>31. ASSUME NEW s \in Scenes, Hide(s) PROVE (FlagTypes' /\ SceneFlagTypes')
  BY <1>31 DEF Hide, removeDirtyScene
<1>32. ASSUME NEW s \in Scenes, MarkNodeDirty(s) PROVE (FlagTypes' /\ SceneFlagTypes')
  BY <1>32 DEF MarkNodeDirty, Event
<1>33. ASSUME NEW s \in Scenes, RepaintEvent(s) PROVE (FlagTypes' /\ SceneFlagTypes')
  BY <1>33 DEF RepaintEvent, Event, entireSceneNeedsRepaint, sceneChanged,
     addDirtyScene, removeDirtyScene
<1>34. ASSUME NEW s \in Scenes, ResizeEvent(s) PROVE (FlagTypes' /\ SceneFlagTypes')
  BY <1>34 DEF ResizeEvent, Event, entireSceneNeedsRepaint, sceneChanged,
     addDirtyScene, removeDirtyScene
<1>35. ASSUME NEW s \in Scenes, ScenePulse(s) PROVE (FlagTypes' /\ SceneFlagTypes')
  BY <1>35 DEF ScenePulse
<1>36. ASSUME NEW s \in Scenes, RepaintScene(s) PROVE (FlagTypes' /\ SceneFlagTypes')
  BY <1>36 DEF RepaintScene
<1>37. ASSUME NEW b \in BOOLEAN, SetAnimationRunnable(b) PROVE (FlagTypes' /\ SceneFlagTypes')
  BY <1>37 DEF SetAnimationRunnable, Event
<1>38. ASSUME NEW s \in Scenes, NEW b \in BOOLEAN, Minimize(s, b) PROVE (FlagTypes' /\ SceneFlagTypes')
  BY <1>38 DEF Minimize, Event
<1>39. CASE UNCHANGED vars BY <1>39 DEF vars
<1> QED BY <1>1, <1>2, <1>3, <1>4, <1>5, <1>6, <1>7, <1>8, <1>9, <1>10, <1>11, <1>12,
       <1>13, <1>14, <1>15, <1>16, <1>17, <1>18, <1>19, <1>20, <1>21, <1>22, <1>23,
       <1>24, <1>25, <1>26, <1>27, <1>28, <1>29, <1>30, <1>31, <1>32, <1>33, <1>34,
       <1>35, <1>36, <1>37, <1>38, <1>39 DEF Next, Environment, Pulse, Render, Faults

\* Queues, counters and program counters keep their types, and a thread inside
\* an operation keeps its operand.
LEMMA ControlStep == TypeOK /\ [Next]_vars => (ControlTypes' /\ OperandTypes')
<1> SUFFICES ASSUME TypeOK, [Next]_vars PROVE (ControlTypes' /\ OperandTypes')
  OBVIOUS
<1> USE DEF TypeOK, ControlTypes, OperandTypes, FxSteps, RtSteps, Locked, Counting, rtScene,
           toolkitFlags, toolkitVars, windowVars, appVars, sceneVars, collectorVars,
           fxVars, rtVars, outsideFx, outsideRt
<1>1. CASE TimerTick BY <1>1, MaxEventsNat, Elements DEF TimerTick, postPulse
<1>2. CASE ShowBareStage BY <1>2, MaxEventsNat DEF ShowBareStage
<1>3. CASE Exit BY <1>3, MaxEventsNat DEF Exit
<1>4. CASE RunRepaint
  BY <1>4, MaxEventsNat, Elements DEF RunRepaint, entireSceneNeedsRepaint,
     sceneChanged, addDirtyScene, removeDirtyScene
<1>5. CASE StartPulse BY <1>5, MaxEventsNat DEF StartPulse
<1>6. CASE FirePulse BY <1>6, MaxEventsNat DEF FirePulse
<1>7. CASE AwaitRendering BY <1>7, MaxEventsNat DEF AwaitRendering
<1>8. CASE SynchronizeScene
  BY <1>8, MaxEventsNat DEF SynchronizeScene, sceneChanged, addDirtyScene,
     removeDirtyScene
<1>9. CASE EndFirePulse BY <1>9, MaxEventsNat DEF EndFirePulse
<1>10. CASE StartRenderAll
  BY <1>10, MaxEventsNat, WindowsFinite DEF StartRenderAll, Windows
<1>11. CASE EndRenderAll BY <1>11, MaxEventsNat DEF EndRenderAll
<1>12. CASE EndPulse
  <2>1. live' \in Scenes \cup {NoScene} BY <1>12 DEF EndPulse
  <2>2. fxpc' \in {"idle", "liveSubmit"} /\ (fxpc' = "liveSubmit" => live' \in Scenes)
    BY <1>12 DEF EndPulse, FlagTypes
  <2>3. UNCHANGED <<appVars, sceneVars, rtVars, collectorVars, fxQueue, fxScene, todo>>
    BY <1>12 DEF EndPulse
  <2>4. ControlTypes' BY <2>1, <2>2, <2>3
  <2>5. OperandTypes' BY <2>2, <2>3
  <2> QED BY <2>4, <2>5
<1>13. CASE SubmitLiveRepaint
  <2> DEFINE job == [kind |-> "live", scene |-> live]
  <2>1. job \in Jobs BY <1>13, JobElements DEF SubmitLiveRepaint
  <2>2. renderQueue' = Append(renderQueue, job)
    BY <1>13, Zenon DEF SubmitLiveRepaint
  <2> HIDE DEF job
  <2>3. renderQueue' \in Seq(Jobs) BY <2>1, <2>2
  <2> QED BY <1>13, <2>3 DEF SubmitLiveRepaint
<1>14. CASE ExitAwaitRendering BY <1>14, MaxEventsNat DEF ExitAwaitRendering
<1>15. CASE TerminateGlass BY <1>15, MaxEventsNat DEF TerminateGlass
<1>16. CASE StartJob BY <1>16, MaxEventsNat DEF StartJob
<1>17. CASE BeginPaint BY <1>17, MaxEventsNat DEF BeginPaint
<1>18. CASE DoPaint BY <1>18, MaxEventsNat DEF DoPaint
<1>19. CASE Present BY <1>19, MaxEventsNat DEF Present
<1>20. CASE FinishPaint BY <1>20, MaxEventsNat DEF FinishPaint
<1>21. CASE LiveRepaintDone BY <1>21, MaxEventsNat DEF LiveRepaintDone
<1>22. CASE JobDone BY <1>22, MaxEventsNat, Elements DEF JobDone, postPulse
<1>23. CASE ReadLatch BY <1>23, MaxEventsNat DEF ReadLatch
<1>24. CASE CountDown BY <1>24, MaxEventsNat DEF CountDown
<1>25. CASE PulseAborted BY <1>25, MaxEventsNat DEF PulseAborted
<1>26. CASE RepaintBareStage BY <1>26, MaxEventsNat DEF RepaintBareStage
<1>27. CASE DeviceNotReady
  <2>1. rtScene \in Scenes BY <1>27, JobElements DEF DeviceNotReady
  <2>2. Repaint(rtScene) \in Runnables BY <2>1, Elements
  <2>3. fxQueue' \in {fxQueue, Append(fxQueue, Repaint(rtScene))}
    BY <1>27 DEF DeviceNotReady, deferRepaint
  <2>4. fxQueue' \in Seq(Runnables)
    <3>. HIDE DEF rtScene
    <3>. QED BY <2>2, <2>3, SMTT(30)
  <2> QED BY <1>27, <2>1, <2>4 DEF DeviceNotReady
<1>28. CASE PresentFails
  BY <1>28, MaxEventsNat, Elements, JobElements DEF PresentFails, deferRepaint
<1>29. CASE PainterThrows BY <1>29, MaxEventsNat DEF PainterThrows
<1>30. ASSUME NEW s \in Scenes, Show(s) PROVE (ControlTypes' /\ OperandTypes')
  BY <1>30, MaxEventsNat DEF Show, addDirtyScene
<1>31. ASSUME NEW s \in Scenes, Hide(s) PROVE (ControlTypes' /\ OperandTypes')
  BY <1>31, MaxEventsNat DEF Hide, removeDirtyScene
<1>32. ASSUME NEW s \in Scenes, MarkNodeDirty(s) PROVE (ControlTypes' /\ OperandTypes')
  BY <1>32, MaxEventsNat DEF MarkNodeDirty, Event
<1>33. ASSUME NEW s \in Scenes, RepaintEvent(s) PROVE (ControlTypes' /\ OperandTypes')
  BY <1>33, MaxEventsNat DEF RepaintEvent, Event, entireSceneNeedsRepaint,
     sceneChanged, addDirtyScene, removeDirtyScene
<1>34. ASSUME NEW s \in Scenes, ResizeEvent(s) PROVE (ControlTypes' /\ OperandTypes')
  BY <1>34, MaxEventsNat DEF ResizeEvent, Event, entireSceneNeedsRepaint,
     sceneChanged, addDirtyScene, removeDirtyScene
<1>35. ASSUME NEW s \in Scenes, ScenePulse(s) PROVE (ControlTypes' /\ OperandTypes')
  BY <1>35, MaxEventsNat DEF ScenePulse
<1>36. ASSUME NEW s \in Scenes, RepaintScene(s) PROVE (ControlTypes' /\ OperandTypes')
  <2> DEFINE job == [kind |-> "paint", scene |-> s]
  <2>1. job \in Jobs BY JobElements
  <2>2. renderQueue' = renderQueue \/ renderQueue' = Append(renderQueue, job)
    BY <1>36, Zenon DEF RepaintScene
  <2> HIDE DEF job
  <2>3. renderQueue' \in Seq(Jobs) BY <2>1, <2>2, SMTT(30)
  <2> QED BY <1>36, <2>3 DEF RepaintScene
<1>37. ASSUME NEW b \in BOOLEAN, SetAnimationRunnable(b) PROVE (ControlTypes' /\ OperandTypes')
  BY <1>37, MaxEventsNat DEF SetAnimationRunnable, Event
<1>38. ASSUME NEW s \in Scenes, NEW b \in BOOLEAN, Minimize(s, b) PROVE (ControlTypes' /\ OperandTypes')
  BY <1>38, MaxEventsNat DEF Minimize, Event
<1>39. CASE UNCHANGED vars BY <1>39, MaxEventsNat DEF vars
<1> QED BY <1>1, <1>2, <1>3, <1>4, <1>5, <1>6, <1>7, <1>8, <1>9, <1>10, <1>11, <1>12,
       <1>13, <1>14, <1>15, <1>16, <1>17, <1>18, <1>19, <1>20, <1>21, <1>22, <1>23,
       <1>24, <1>25, <1>26, <1>27, <1>28, <1>29, <1>30, <1>31, <1>32, <1>33, <1>34,
       <1>35, <1>36, <1>37, <1>38, <1>39 DEF Next, Environment, Pulse, Render, Faults

\* What Append and Tail do to the positions of a queue.
LEMMA AppendPositions ==
  ASSUME NEW S, NEW q \in Seq(S), NEW e \in S
  PROVE  /\ Len(Append(q, e)) = Len(q) + 1
         /\ \A i \in 1..Len(q) : Append(q, e)[i] = q[i]
         /\ Append(q, e)[Len(q) + 1] = e
OBVIOUS

\* Where the elements of a queue are after its head was taken.
LEMMA TailPositions ==
  ASSUME NEW S, NEW q \in Seq(S), q # <<>>
  PROVE  /\ Len(q) \in Nat \ {0} /\ Len(Tail(q)) = Len(q) - 1 /\ Head(q) = q[1]
         /\ \A i \in 1..Len(Tail(q)) : i + 1 \in 2..Len(q) /\ Tail(q)[i] = q[i + 1]
         /\ \A i \in 2..Len(q) : i - 1 \in 1..Len(Tail(q)) /\ Tail(q)[i - 1] = q[i]
OBVIOUS

\* A live repaint stays the last job.
LEMMA LiveStep == TypeOK /\ LiveAlone /\ [Next]_vars => LiveAlone'
<1> SUFFICES ASSUME TypeOK, LiveAlone, [Next]_vars PROVE LiveAlone'
  OBVIOUS
<1> USE DEF LiveAlone, toolkitFlags, toolkitVars, windowVars, appVars, sceneVars,
           collectorVars, fxVars, rtVars, outsideFx, outsideRt
<1>1. CASE TimerTick BY <1>1 DEF TimerTick, postPulse
<1>2. CASE ShowBareStage BY <1>2 DEF ShowBareStage
<1>3. CASE Exit BY <1>3 DEF Exit
<1>4. CASE RunRepaint
  BY <1>4 DEF RunRepaint, entireSceneNeedsRepaint, sceneChanged, addDirtyScene,
     removeDirtyScene
<1>5. CASE StartPulse BY <1>5 DEF StartPulse
<1>6. CASE FirePulse BY <1>6 DEF FirePulse
<1>7. CASE AwaitRendering BY <1>7 DEF AwaitRendering
<1>8. CASE SynchronizeScene
  BY <1>8 DEF SynchronizeScene, sceneChanged, addDirtyScene, removeDirtyScene
<1>9. CASE EndFirePulse BY <1>9 DEF EndFirePulse
<1>10. CASE StartRenderAll BY <1>10 DEF StartRenderAll
<1>11. CASE EndRenderAll BY <1>11 DEF EndRenderAll
<1>12. CASE EndPulse BY <1>12 DEF EndPulse
<1>13. CASE SubmitLiveRepaint BY <1>13 DEF SubmitLiveRepaint
<1>14. CASE ExitAwaitRendering BY <1>14 DEF ExitAwaitRendering
<1>15. CASE TerminateGlass BY <1>15 DEF TerminateGlass
<1>16. CASE StartJob BY <1>16 DEF StartJob
<1>17. CASE BeginPaint BY <1>17 DEF BeginPaint
<1>18. CASE DoPaint BY <1>18 DEF DoPaint
<1>19. CASE Present BY <1>19 DEF Present
<1>20. CASE FinishPaint BY <1>20 DEF FinishPaint
<1>21. CASE LiveRepaintDone BY <1>21 DEF LiveRepaintDone, NoJob
<1>22. CASE JobDone BY <1>22 DEF JobDone, postPulse
<1>23. CASE ReadLatch BY <1>23 DEF ReadLatch
<1>24. CASE CountDown BY <1>24 DEF CountDown, NoJob
<1>25. CASE PulseAborted BY <1>25 DEF PulseAborted
<1>26. CASE RepaintBareStage BY <1>26 DEF RepaintBareStage
<1>27. CASE DeviceNotReady BY <1>27 DEF DeviceNotReady, deferRepaint
<1>28. CASE PresentFails BY <1>28 DEF PresentFails, deferRepaint
<1>29. CASE PainterThrows BY <1>29 DEF PainterThrows
<1>30. ASSUME NEW s \in Scenes, Show(s) PROVE LiveAlone'
  BY <1>30 DEF Show, addDirtyScene
<1>31. ASSUME NEW s \in Scenes, Hide(s) PROVE LiveAlone'
  BY <1>31 DEF Hide, removeDirtyScene
<1>32. ASSUME NEW s \in Scenes, MarkNodeDirty(s) PROVE LiveAlone'
  BY <1>32 DEF MarkNodeDirty, Event
<1>33. ASSUME NEW s \in Scenes, RepaintEvent(s) PROVE LiveAlone'
  BY <1>33 DEF RepaintEvent, Event, entireSceneNeedsRepaint, sceneChanged,
     addDirtyScene, removeDirtyScene
<1>34. ASSUME NEW s \in Scenes, ResizeEvent(s) PROVE LiveAlone'
  BY <1>34 DEF ResizeEvent, Event, entireSceneNeedsRepaint, sceneChanged,
     addDirtyScene, removeDirtyScene
<1>35. ASSUME NEW s \in Scenes, ScenePulse(s) PROVE LiveAlone' BY <1>35 DEF ScenePulse
<1>36. ASSUME NEW s \in Scenes, RepaintScene(s) PROVE LiveAlone'
  BY <1>36 DEF RepaintScene
<1>37. ASSUME NEW b \in BOOLEAN, SetAnimationRunnable(b) PROVE LiveAlone'
  BY <1>37 DEF SetAnimationRunnable, Event
<1>38. ASSUME NEW s \in Scenes, NEW b \in BOOLEAN, Minimize(s, b) PROVE LiveAlone'
  BY <1>38 DEF Minimize, Event
<1>39. CASE UNCHANGED vars BY <1>39 DEF vars
<1> QED BY <1>1, <1>2, <1>3, <1>4, <1>5, <1>6, <1>7, <1>8, <1>9, <1>10, <1>11, <1>12,
       <1>13, <1>14, <1>15, <1>16, <1>17, <1>18, <1>19, <1>20, <1>21, <1>22, <1>23,
       <1>24, <1>25, <1>26, <1>27, <1>28, <1>29, <1>30, <1>31, <1>32, <1>33, <1>34,
       <1>35, <1>36, <1>37, <1>38, <1>39 DEF Next, Environment, Pulse, Render, Faults

\* A painting flag keeps its job.
LEMMA PaintingStep == TypeOK /\ LiveAlone /\ PaintingHasJob /\ [Next]_vars => PaintingHasJob'
<1> SUFFICES ASSUME TypeOK, LiveAlone, PaintingHasJob, [Next]_vars PROVE PaintingHasJob'
  OBVIOUS
<1> USE DEF PaintingHasJob, Locked, toolkitFlags, toolkitVars, windowVars, appVars,
           sceneVars, collectorVars, fxVars, rtVars, outsideFx, outsideRt
<1>1. CASE TimerTick BY <1>1 DEF TimerTick, postPulse
<1>2. CASE ShowBareStage BY <1>2 DEF ShowBareStage
<1>3. CASE Exit BY <1>3 DEF Exit
<1>4. CASE RunRepaint
  BY <1>4 DEF RunRepaint, entireSceneNeedsRepaint, sceneChanged, addDirtyScene,
     removeDirtyScene
<1>5. CASE StartPulse BY <1>5 DEF StartPulse
<1>6. CASE FirePulse BY <1>6 DEF FirePulse
<1>7. CASE AwaitRendering BY <1>7 DEF AwaitRendering
<1>8. CASE SynchronizeScene
  BY <1>8 DEF SynchronizeScene, sceneChanged, addDirtyScene, removeDirtyScene
<1>9. CASE EndFirePulse BY <1>9 DEF EndFirePulse
<1>10. CASE StartRenderAll BY <1>10 DEF StartRenderAll
<1>11. CASE EndRenderAll BY <1>11 DEF EndRenderAll
<1>12. CASE EndPulse BY <1>12 DEF EndPulse
<1>13. CASE SubmitLiveRepaint
  <2>1. renderQueue \in Seq(Jobs) /\ [kind |-> "live", scene |-> live] \in Jobs
    BY <1>13, JobElements DEF SubmitLiveRepaint, TypeOK, ControlTypes, OperandTypes
  <2>2. /\ Len(renderQueue') = Len(renderQueue) + 1
        /\ \A i \in 1..Len(renderQueue) : renderQueue'[i] = renderQueue[i]
    BY <1>13, <2>1, AppendPositions DEF SubmitLiveRepaint
  <2>3. Len(renderQueue) \in Nat BY <2>1
  <2>4. painting' = painting /\ rtJob' = rtJob /\ rtpc' = rtpc
    BY <1>13 DEF SubmitLiveRepaint
  <2>5. 1..Len(renderQueue) \subseteq 1..Len(renderQueue') BY <2>2, <2>3
  <2> SUFFICES ASSUME NEW s \in Scenes, painting[s],
                      NEW i \in 1..Len(renderQueue),
                      renderQueue[i] = [kind |-> "paint", scene |-> s]
               PROVE  renderQueue'[i] = [kind |-> "paint", scene |-> s] /\ i \in 1..Len(renderQueue')
    BY <2>4
  <2> QED BY <2>2, <2>5
<1>14. CASE ExitAwaitRendering BY <1>14 DEF ExitAwaitRendering
<1>15. CASE TerminateGlass BY <1>15 DEF TerminateGlass
<1>16. CASE StartJob
  <2>1. renderQueue \in Seq(Jobs) /\ renderQueue # <<>> /\ rtpc = "idle"
    BY <1>16 DEF StartJob, TypeOK, ControlTypes
  <2>2. /\ Len(renderQueue) \in Nat \ {0} /\ rtJob' = renderQueue[1]
        /\ \A i \in 2..Len(renderQueue) :
              i - 1 \in 1..Len(renderQueue') /\ renderQueue'[i - 1] = renderQueue[i]
    BY <1>16, <2>1, TailPositions DEF StartJob
  <2>3. painting' = painting /\ rtpc' = "validate" BY <1>16 DEF StartJob
  <2> SUFFICES ASSUME NEW s \in Scenes, painting[s]
               PROVE  \/ \E i \in 1..Len(renderQueue') : renderQueue'[i] = [kind |-> "paint", scene |-> s]
                      \/ rtJob' = [kind |-> "paint", scene |-> s]
    BY <2>3
  <2>4. PICK i \in 1..Len(renderQueue) : renderQueue[i] = [kind |-> "paint", scene |-> s]
    BY <2>1
  <2>5. i = 1 \/ i \in 2..Len(renderQueue) BY <2>2
  <2> QED BY <2>2, <2>4, <2>5
<1>17. CASE BeginPaint BY <1>17 DEF BeginPaint
<1>18. CASE DoPaint BY <1>18 DEF DoPaint
<1>19. CASE Present BY <1>19 DEF Present
<1>20. CASE FinishPaint
  <2>1. rtJob \in Jobs /\ rtScene \in Scenes /\ painting \in [Scenes -> BOOLEAN]
    BY <1>20, JobElements DEF FinishPaint, TypeOK, SceneFlagTypes, OperandTypes, rtScene
  <2>2. /\ painting' = [painting EXCEPT ![rtScene] = FALSE]
        /\ renderQueue' = renderQueue /\ rtJob' = rtJob
    BY <1>20 DEF FinishPaint
  <2> SUFFICES ASSUME NEW s \in Scenes, painting'[s]
               PROVE  \E i \in 1..Len(renderQueue) : renderQueue[i] = [kind |-> "paint", scene |-> s]
    BY <2>2
  <2>3. painting[s] /\ s # rtScene BY <2>1, <2>2
  <2>4. rtJob # [kind |-> "paint", scene |-> s] BY <2>3 DEF rtScene
  <2> QED BY <2>3, <2>4
<1>21. CASE LiveRepaintDone BY <1>21 DEF LiveRepaintDone
<1>22. CASE JobDone BY <1>22 DEF JobDone, postPulse
<1>23. CASE ReadLatch BY <1>23 DEF ReadLatch
<1>24. CASE CountDown BY <1>24 DEF CountDown
<1>25. CASE PulseAborted BY <1>25 DEF PulseAborted
<1>26. CASE RepaintBareStage BY <1>26 DEF RepaintBareStage
<1>27. CASE DeviceNotReady BY <1>27 DEF DeviceNotReady, deferRepaint
<1>28. CASE PresentFails BY <1>28 DEF PresentFails, deferRepaint
<1>29. CASE PainterThrows BY <1>29 DEF PainterThrows
<1>30. ASSUME NEW s \in Scenes, Show(s) PROVE PaintingHasJob'
  BY <1>30 DEF Show, addDirtyScene
<1>31. ASSUME NEW s \in Scenes, Hide(s) PROVE PaintingHasJob'
  BY <1>31 DEF Hide, removeDirtyScene
<1>32. ASSUME NEW s \in Scenes, MarkNodeDirty(s) PROVE PaintingHasJob'
  BY <1>32 DEF MarkNodeDirty, Event
<1>33. ASSUME NEW s \in Scenes, RepaintEvent(s) PROVE PaintingHasJob'
  BY <1>33 DEF RepaintEvent, Event, entireSceneNeedsRepaint, sceneChanged,
     addDirtyScene, removeDirtyScene
<1>34. ASSUME NEW s \in Scenes, ResizeEvent(s) PROVE PaintingHasJob'
  BY <1>34 DEF ResizeEvent, Event, entireSceneNeedsRepaint, sceneChanged,
     addDirtyScene, removeDirtyScene
<1>35. ASSUME NEW s \in Scenes, ScenePulse(s) PROVE PaintingHasJob'
  BY <1>35 DEF ScenePulse
<1>36. ASSUME NEW s \in Scenes, RepaintScene(s) PROVE PaintingHasJob'
  <2> DEFINE job == [kind |-> "paint", scene |-> s]
  <2>1. renderQueue \in Seq(Jobs) /\ job \in Jobs /\ painting \in [Scenes -> BOOLEAN]
    BY JobElements DEF TypeOK, ControlTypes, SceneFlagTypes
  <2>2. rtJob' = rtJob /\ rtpc' = rtpc BY <1>36 DEF RepaintScene
  <2>3. CASE UNCHANGED <<painting, renderQueue>> BY <2>2, <2>3
  <2>4. CASE /\ painting' = [painting EXCEPT ![s] = TRUE]
             /\ renderQueue' = Append(renderQueue, job)
    <3> HIDE DEF job
    <3>1. /\ Len(renderQueue') = Len(renderQueue) + 1 /\ Len(renderQueue) \in Nat
          /\ \A i \in 1..Len(renderQueue) : renderQueue'[i] = renderQueue[i]
          /\ renderQueue'[Len(renderQueue) + 1] = job
      BY <2>1, <2>4, AppendPositions
    <3>2. ASSUME NEW t \in Scenes, painting'[t], t # s
          PROVE  \/ \E i \in 1..Len(renderQueue') : renderQueue'[i] = [kind |-> "paint", scene |-> t]
                 \/ rtJob' = [kind |-> "paint", scene |-> t] /\ rtpc' \in Locked
      <4>1. painting[t] BY <2>1, <2>4, <3>2
      <4> QED BY <2>2, <3>1, <4>1
    <3>3. \E i \in 1..Len(renderQueue') : renderQueue'[i] = job BY <3>1
    <3> USE DEF job
    <3> QED BY <3>2, <3>3
  <2> QED BY <1>36, <2>3, <2>4 DEF RepaintScene
<1>37. ASSUME NEW b \in BOOLEAN, SetAnimationRunnable(b) PROVE PaintingHasJob'
  BY <1>37 DEF SetAnimationRunnable, Event
<1>38. ASSUME NEW s \in Scenes, NEW b \in BOOLEAN, Minimize(s, b) PROVE PaintingHasJob'
  BY <1>38 DEF Minimize, Event
<1>39. CASE UNCHANGED vars BY <1>39 DEF vars
<1> QED BY <1>1, <1>2, <1>3, <1>4, <1>5, <1>6, <1>7, <1>8, <1>9, <1>10, <1>11, <1>12,
       <1>13, <1>14, <1>15, <1>16, <1>17, <1>18, <1>19, <1>20, <1>21, <1>22, <1>23,
       <1>24, <1>25, <1>26, <1>27, <1>28, <1>29, <1>30, <1>31, <1>32, <1>33, <1>34,
       <1>35, <1>36, <1>37, <1>38, <1>39 DEF Next, Environment, Pulse, Render, Faults

\* The dirty list and its flag stay consistent, and the list holds attached
\* scenes.
LEMMA DirtyStep == TypeOK /\ LiveAlone /\ SceneWindowsOnly /\ RepaintsAttached /\ DirtyListConsistent /\ [Next]_vars => (RepaintsAttached' /\ DirtyListConsistent')
<1> SUFFICES ASSUME TypeOK, LiveAlone, SceneWindowsOnly, RepaintsAttached, DirtyListConsistent, [Next]_vars PROVE (RepaintsAttached' /\ DirtyListConsistent')
  OBVIOUS
<1> USE DEF RepaintsAttached, DirtyListConsistent, Attached, toolkitFlags, toolkitVars,
           windowVars, appVars, sceneVars, collectorVars, fxVars, rtVars, outsideFx,
           outsideRt
<1>1. CASE TimerTick BY <1>1 DEF TimerTick, postPulse
<1>2. CASE ShowBareStage BY <1>2 DEF ShowBareStage
<1>3. CASE Exit BY <1>3 DEF Exit
<1>4. CASE RunRepaint
  BY <1>4 DEF RunRepaint, entireSceneNeedsRepaint, sceneChanged, addDirtyScene,
     removeDirtyScene
<1>5. CASE StartPulse BY <1>5 DEF StartPulse
<1>6. CASE FirePulse BY <1>6 DEF FirePulse
<1>7. CASE AwaitRendering BY <1>7 DEF AwaitRendering
<1>8. CASE SynchronizeScene
  BY <1>8 DEF SynchronizeScene, sceneChanged, addDirtyScene, removeDirtyScene
<1>9. CASE EndFirePulse BY <1>9 DEF EndFirePulse
<1>10. CASE StartRenderAll
  <2>1. CASE hasDirty
    <3>1. /\ hasDirty' = FALSE /\ todo' = Windows /\ fxpc' = "repaint"
          /\ UNCHANGED <<dirtyScenes, peer, bareShown>>
      BY <1>10, <2>1 DEF StartRenderAll
    <3>2. \A s \in Windows : s \in Scenes /\ Attached(s)
      BY DEF TypeOK, ControlTypes, Windows, SceneWindowsOnly
    <3> QED BY <3>1, <3>2
  <2>2. CASE ~hasDirty
    BY <1>10, <2>2 DEF StartRenderAll
  <2> QED BY <2>1, <2>2
<1>11. CASE EndRenderAll BY <1>11 DEF EndRenderAll, TypeOK, FlagTypes
<1>12. CASE EndPulse BY <1>12 DEF EndPulse
<1>13. CASE SubmitLiveRepaint BY <1>13 DEF SubmitLiveRepaint
<1>14. CASE ExitAwaitRendering BY <1>14 DEF ExitAwaitRendering
<1>15. CASE TerminateGlass BY <1>15 DEF TerminateGlass
<1>16. CASE StartJob BY <1>16 DEF StartJob
<1>17. CASE BeginPaint BY <1>17 DEF BeginPaint
<1>18. CASE DoPaint BY <1>18 DEF DoPaint
<1>19. CASE Present BY <1>19 DEF Present
<1>20. CASE FinishPaint BY <1>20 DEF FinishPaint
<1>21. CASE LiveRepaintDone BY <1>21 DEF LiveRepaintDone, LiveAlone
<1>22. CASE JobDone BY <1>22 DEF JobDone, postPulse
<1>23. CASE ReadLatch BY <1>23 DEF ReadLatch
<1>24. CASE CountDown BY <1>24 DEF CountDown
<1>25. CASE PulseAborted BY <1>25 DEF PulseAborted
<1>26. CASE RepaintBareStage BY <1>26, NoSceneIsNoScene DEF RepaintBareStage
<1>27. CASE DeviceNotReady BY <1>27 DEF DeviceNotReady, deferRepaint
<1>28. CASE PresentFails BY <1>28 DEF PresentFails, deferRepaint
<1>29. CASE PainterThrows BY <1>29 DEF PainterThrows
<1>30. ASSUME NEW s \in Scenes, Show(s) PROVE (RepaintsAttached' /\ DirtyListConsistent')
  BY <1>30 DEF Show, addDirtyScene, TypeOK, ControlTypes, FlagTypes
<1>31. ASSUME NEW s \in Scenes, Hide(s) PROVE (RepaintsAttached' /\ DirtyListConsistent')
  BY <1>31 DEF Hide, removeDirtyScene
<1>32. ASSUME NEW s \in Scenes, MarkNodeDirty(s) PROVE (RepaintsAttached' /\ DirtyListConsistent')
  BY <1>32 DEF MarkNodeDirty, Event
<1>33. ASSUME NEW s \in Scenes, RepaintEvent(s) PROVE (RepaintsAttached' /\ DirtyListConsistent')
  BY <1>33 DEF RepaintEvent, Event, entireSceneNeedsRepaint, sceneChanged,
     addDirtyScene, removeDirtyScene
<1>34. ASSUME NEW s \in Scenes, ResizeEvent(s) PROVE (RepaintsAttached' /\ DirtyListConsistent')
  BY <1>34 DEF ResizeEvent, Event, entireSceneNeedsRepaint, sceneChanged,
     addDirtyScene, removeDirtyScene
<1>35. ASSUME NEW s \in Scenes, ScenePulse(s) PROVE (RepaintsAttached' /\ DirtyListConsistent')
  BY <1>35 DEF ScenePulse
<1>36. ASSUME NEW s \in Scenes, RepaintScene(s) PROVE (RepaintsAttached' /\ DirtyListConsistent')
  BY <1>36 DEF RepaintScene
<1>37. ASSUME NEW b \in BOOLEAN, SetAnimationRunnable(b) PROVE (RepaintsAttached' /\ DirtyListConsistent')
  BY <1>37 DEF SetAnimationRunnable, Event
<1>38. ASSUME NEW s \in Scenes, NEW b \in BOOLEAN, Minimize(s, b) PROVE (RepaintsAttached' /\ DirtyListConsistent')
  BY <1>38 DEF Minimize, Event
<1>39. CASE UNCHANGED vars BY <1>39 DEF vars
<1> QED BY <1>1, <1>2, <1>3, <1>4, <1>5, <1>6, <1>7, <1>8, <1>9, <1>10, <1>11, <1>12,
       <1>13, <1>14, <1>15, <1>16, <1>17, <1>18, <1>19, <1>20, <1>21, <1>22, <1>23,
       <1>24, <1>25, <1>26, <1>27, <1>28, <1>29, <1>30, <1>31, <1>32, <1>33, <1>34,
       <1>35, <1>36, <1>37, <1>38, <1>39 DEF Next, Environment, Pulse, Render, Faults

\* Only a renderAll that threw on a bare stage leaves a list without its flag.
LEMMA ListStep == TypeOK /\ LiveAlone /\ FlagDownOnlyThrown /\ [Next]_vars => FlagDownOnlyThrown'
<1> SUFFICES ASSUME TypeOK, LiveAlone, FlagDownOnlyThrown, [Next]_vars PROVE FlagDownOnlyThrown'
  OBVIOUS
<1> USE DEF FlagDownOnlyThrown, toolkitFlags, toolkitVars, windowVars, appVars,
           sceneVars, collectorVars, fxVars, rtVars, outsideFx, outsideRt
<1>1. CASE TimerTick BY <1>1 DEF TimerTick, postPulse
<1>2. CASE ShowBareStage BY <1>2 DEF ShowBareStage
<1>3. CASE Exit BY <1>3 DEF Exit
<1>4. CASE RunRepaint
  BY <1>4 DEF RunRepaint, entireSceneNeedsRepaint, sceneChanged, addDirtyScene,
     removeDirtyScene
<1>5. CASE StartPulse BY <1>5 DEF StartPulse
<1>6. CASE FirePulse BY <1>6 DEF FirePulse
<1>7. CASE AwaitRendering BY <1>7 DEF AwaitRendering
<1>8. CASE SynchronizeScene
  BY <1>8 DEF SynchronizeScene, sceneChanged, addDirtyScene, removeDirtyScene
<1>9. CASE EndFirePulse BY <1>9 DEF EndFirePulse
<1>10. CASE StartRenderAll
  <2>1. BareStage \in Windows => bareShown /\ ~HasWindowManager
    BY NoSceneIsNoScene DEF TypeOK, ControlTypes, Windows
  <2> QED BY <1>10, <2>1 DEF StartRenderAll
<1>11. CASE EndRenderAll BY <1>11 DEF EndRenderAll
<1>12. CASE EndPulse BY <1>12 DEF EndPulse
<1>13. CASE SubmitLiveRepaint BY <1>13 DEF SubmitLiveRepaint
<1>14. CASE ExitAwaitRendering BY <1>14 DEF ExitAwaitRendering
<1>15. CASE TerminateGlass BY <1>15 DEF TerminateGlass
<1>16. CASE StartJob BY <1>16 DEF StartJob
<1>17. CASE BeginPaint BY <1>17 DEF BeginPaint
<1>18. CASE DoPaint BY <1>18 DEF DoPaint
<1>19. CASE Present BY <1>19 DEF Present
<1>20. CASE FinishPaint BY <1>20 DEF FinishPaint
<1>21. CASE LiveRepaintDone BY <1>21 DEF LiveRepaintDone, LiveAlone
<1>22. CASE JobDone BY <1>22 DEF JobDone, postPulse
<1>23. CASE ReadLatch BY <1>23 DEF ReadLatch
<1>24. CASE CountDown BY <1>24 DEF CountDown
<1>25. CASE PulseAborted BY <1>25 DEF PulseAborted
<1>26. CASE RepaintBareStage BY <1>26, NoSceneIsNoScene DEF RepaintBareStage
<1>27. CASE DeviceNotReady BY <1>27 DEF DeviceNotReady, deferRepaint
<1>28. CASE PresentFails BY <1>28 DEF PresentFails, deferRepaint
<1>29. CASE PainterThrows BY <1>29 DEF PainterThrows
<1>30. ASSUME NEW s \in Scenes, Show(s) PROVE FlagDownOnlyThrown'
  BY <1>30 DEF Show, addDirtyScene, TypeOK, ControlTypes, FlagTypes
<1>31. ASSUME NEW s \in Scenes, Hide(s) PROVE FlagDownOnlyThrown'
  BY <1>31 DEF Hide, removeDirtyScene
<1>32. ASSUME NEW s \in Scenes, MarkNodeDirty(s) PROVE FlagDownOnlyThrown'
  BY <1>32 DEF MarkNodeDirty, Event
<1>33. ASSUME NEW s \in Scenes, RepaintEvent(s) PROVE FlagDownOnlyThrown'
  BY <1>33 DEF RepaintEvent, Event, entireSceneNeedsRepaint, sceneChanged,
     addDirtyScene, removeDirtyScene
<1>34. ASSUME NEW s \in Scenes, ResizeEvent(s) PROVE FlagDownOnlyThrown'
  BY <1>34 DEF ResizeEvent, Event, entireSceneNeedsRepaint, sceneChanged,
     addDirtyScene, removeDirtyScene
<1>35. ASSUME NEW s \in Scenes, ScenePulse(s) PROVE FlagDownOnlyThrown'
  BY <1>35 DEF ScenePulse
<1>36. ASSUME NEW s \in Scenes, RepaintScene(s) PROVE FlagDownOnlyThrown'
  BY <1>36 DEF RepaintScene
<1>37. ASSUME NEW b \in BOOLEAN, SetAnimationRunnable(b) PROVE FlagDownOnlyThrown'
  BY <1>37 DEF SetAnimationRunnable, Event
<1>38. ASSUME NEW s \in Scenes, NEW b \in BOOLEAN, Minimize(s, b) PROVE FlagDownOnlyThrown'
  BY <1>38 DEF Minimize, Event
<1>39. CASE UNCHANGED vars BY <1>39 DEF vars
<1> QED BY <1>1, <1>2, <1>3, <1>4, <1>5, <1>6, <1>7, <1>8, <1>9, <1>10, <1>11, <1>12,
       <1>13, <1>14, <1>15, <1>16, <1>17, <1>18, <1>19, <1>20, <1>21, <1>22, <1>23,
       <1>24, <1>25, <1>26, <1>27, <1>28, <1>29, <1>30, <1>31, <1>32, <1>33, <1>34,
       <1>35, <1>36, <1>37, <1>38, <1>39 DEF Next, Environment, Pulse, Render, Faults

\* The paints owed are finitely many, and finishing one of them leaves at
\* most one less.
LEMMA OwedFinite ==
  ASSUME TypeOK PROVE IsFiniteSet(PaintsOwed) /\ Cardinality(PaintsOwed) \in Nat
<1>1. IsFiniteSet(Scenes \cup {BareStage})
  BY ScenesFinite, FS_Singleton, FS_Union
<1>2. PaintsOwed \subseteq Scenes \cup {BareStage}
  BY DEF TypeOK, ControlTypes, PaintsOwed, ToRepaint
<1> QED BY <1>1, <1>2, FS_Subset, FS_CardinalityType

\* The same after a step.
LEMMA PrimedOwedFinite ==
  ASSUME TypeOK, [Next]_vars
  PROVE  IsFiniteSet(PaintsOwed') /\ Cardinality(PaintsOwed') \in Nat
<1>1. ControlTypes' BY ControlStep
<1>2. IsFiniteSet(Scenes \cup {BareStage})
  BY ScenesFinite, FS_Singleton, FS_Union
<1>3. PaintsOwed' \subseteq Scenes \cup {BareStage}
  BY <1>1 DEF ControlTypes, PaintsOwed, ToRepaint
<1> QED BY <1>2, <1>3, FS_Subset, FS_CardinalityType

\* Finishing one paint takes at most one element away.
LEMMA OneLess ==
  ASSUME NEW S, NEW T, NEW x, IsFiniteSet(S), IsFiniteSet(T), S \subseteq T \cup {x}
  PROVE  Cardinality(S) <= Cardinality(T) + 1
<1>1. /\ IsFiniteSet(T \cup {x})
      /\ Cardinality(T \cup {x}) = Cardinality(T) \/ Cardinality(T \cup {x}) = Cardinality(T) + 1
  BY FS_AddElement
<1>2. Cardinality(S) <= Cardinality(T \cup {x}) BY <1>1, FS_Subset
<1>3. Cardinality(S) \in Nat /\ Cardinality(T) \in Nat BY FS_CardinalityType
<1> QED BY <1>1, <1>2, <1>3

\* Every count of the latch stays owed by a paint.
LEMMA LatchStep == TypeOK /\ LiveAlone /\ PaintingHasJob /\ SceneWindowsOnly /\ RepaintsAttached /\ LatchServed /\ [Next]_vars => LatchServed'
<1> SUFFICES ASSUME TypeOK, LiveAlone, PaintingHasJob, SceneWindowsOnly, RepaintsAttached, LatchServed, [Next]_vars PROVE LatchServed'
  OBVIOUS
<1> USE DEF LatchServed, PaintsOwed, ToRepaint, CompletionAtWork, Counting, toolkitFlags,
           toolkitVars, windowVars, appVars, sceneVars, collectorVars, fxVars, rtVars,
           outsideFx, outsideRt
<1>1. CASE TimerTick BY <1>1 DEF TimerTick, postPulse
<1>2. CASE ShowBareStage BY <1>2 DEF ShowBareStage
<1>3. CASE Exit BY <1>3 DEF Exit
<1>4. CASE RunRepaint
  BY <1>4 DEF RunRepaint, entireSceneNeedsRepaint, sceneChanged, addDirtyScene,
     removeDirtyScene
<1>5. CASE StartPulse BY <1>5 DEF StartPulse
<1>6. CASE FirePulse BY <1>6 DEF FirePulse
<1>7. CASE AwaitRendering BY <1>7 DEF AwaitRendering
<1>8. CASE SynchronizeScene
  BY <1>8 DEF SynchronizeScene, sceneChanged, addDirtyScene, removeDirtyScene
<1>9. CASE EndFirePulse BY <1>9 DEF EndFirePulse
<1>10. CASE StartRenderAll
  <2>1. CASE hasDirty
    <3>1. /\ latch' = Cardinality(Windows) /\ todo' = Windows /\ fxpc' = "repaint"
      BY <1>10, <2>1 DEF StartRenderAll
    <3>2. Windows \subseteq PaintsOwed' BY <3>1
    <3>3. IsFiniteSet(PaintsOwed') /\ Cardinality(PaintsOwed') \in Nat
      BY PrimedOwedFinite
    <3> HIDE DEF PaintsOwed
    <3>4. Cardinality(Windows) <= Cardinality(PaintsOwed') BY <3>2, <3>3, FS_Subset
    <3>5. Cardinality(Windows) \in Nat BY <3>2, <3>3, FS_Subset, FS_CardinalityType
    <3> QED BY <3>1, <3>3, <3>4, <3>5
  <2>2. CASE ~hasDirty BY <1>10, <2>2 DEF StartRenderAll
  <2> QED BY <2>1, <2>2
<1>11. CASE EndRenderAll BY <1>11 DEF EndRenderAll
<1>12. CASE EndPulse BY <1>12 DEF EndPulse
<1>13. CASE SubmitLiveRepaint BY <1>13 DEF SubmitLiveRepaint
<1>14. CASE ExitAwaitRendering BY <1>14 DEF ExitAwaitRendering
<1>15. CASE TerminateGlass BY <1>15 DEF TerminateGlass
<1>16. CASE StartJob BY <1>16 DEF StartJob
<1>17. CASE BeginPaint BY <1>17 DEF BeginPaint
<1>18. CASE DoPaint BY <1>18 DEF DoPaint
<1>19. CASE Present BY <1>19 DEF Present
<1>20. CASE FinishPaint
  <2>1. rtJob \in Jobs /\ rtScene \in Scenes /\ rtRef = "none"
    BY <1>20, JobElements DEF FinishPaint, TypeOK, OperandTypes, rtScene
  <2>2. /\ painting \in [Scenes -> BOOLEAN] /\ painting' = [painting EXCEPT ![rtScene] = FALSE]
        /\ rtpc = "finish" /\ rtpc' = "done"
        /\ UNCHANGED <<rtJob, rtRef, latch, fxpc, todo>>
    BY <1>20 DEF FinishPaint, TypeOK, SceneFlagTypes
  <2>3. CASE rtJob.kind = "live"
    <3>1. ~painting[rtScene]
      BY <2>1, <2>3 DEF LiveAlone, PaintingHasJob
    <3>2. painting' = painting BY <2>1, <2>2, <3>1
    <3> QED BY <2>2, <2>3, <3>2
  <2>4. CASE rtJob.kind = "paint"
    <3>1. PaintsOwed \subseteq PaintsOwed' \cup {rtScene} BY <2>1, <2>2
    <3>2. ~CompletionAtWork /\ CompletionAtWork' BY <2>1, <2>2, <2>4
    <3> HIDE DEF PaintsOwed, CompletionAtWork
    <3>3. /\ IsFiniteSet(PaintsOwed) /\ IsFiniteSet(PaintsOwed')
          /\ Cardinality(PaintsOwed) \in Nat /\ Cardinality(PaintsOwed') \in Nat
      BY OwedFinite, PrimedOwedFinite
    <3>4. Cardinality(PaintsOwed) <= Cardinality(PaintsOwed') + 1 BY <3>1, <3>3, OneLess
    <3>5. latch \in Nat BY DEF TypeOK, ControlTypes
    <3> QED BY <2>2, <3>2, <3>3, <3>4, <3>5
  <2> QED BY <2>1, <2>3, <2>4 DEF Jobs
<1>21. CASE LiveRepaintDone BY <1>21 DEF LiveRepaintDone, LiveAlone
<1>22. CASE JobDone BY <1>22 DEF JobDone, postPulse
<1>23. CASE ReadLatch BY <1>23 DEF ReadLatch, TypeOK, OperandTypes
<1>24. CASE CountDown
  <2>1. rtRef \in {"current", "old"} /\ latch \in Nat
    BY <1>24 DEF CountDown, TypeOK, ControlTypes, OperandTypes
  <2>2. PaintsOwed' = PaintsOwed BY <1>24 DEF CountDown
  <2>3. ~CompletionAtWork' BY <1>24 DEF CountDown
  <2>4. latch' = IF rtRef = "current" /\ latch > 0 THEN latch - 1 ELSE latch
    BY <1>24 DEF CountDown
  <2>5. rtRef = "old" => ~CompletionAtWork OBVIOUS
  <2>6. Cardinality(PaintsOwed) \in Nat BY OwedFinite
  <2> HIDE DEF PaintsOwed, CompletionAtWork
  <2> QED BY <2>1, <2>2, <2>3, <2>4, <2>5, <2>6
<1>25. CASE PulseAborted BY <1>25 DEF PulseAborted
<1>26. CASE RepaintBareStage
  BY <1>26, NoSceneIsNoScene DEF RepaintBareStage, RepaintsAttached
<1>27. CASE DeviceNotReady BY <1>27 DEF DeviceNotReady, deferRepaint
<1>28. CASE PresentFails BY <1>28 DEF PresentFails, deferRepaint
<1>29. CASE PainterThrows BY <1>29 DEF PainterThrows
<1>30. ASSUME NEW s \in Scenes, Show(s) PROVE LatchServed'
  BY <1>30 DEF Show, addDirtyScene
<1>31. ASSUME NEW s \in Scenes, Hide(s) PROVE LatchServed'
  BY <1>31 DEF Hide, removeDirtyScene
<1>32. ASSUME NEW s \in Scenes, MarkNodeDirty(s) PROVE LatchServed'
  BY <1>32 DEF MarkNodeDirty, Event
<1>33. ASSUME NEW s \in Scenes, RepaintEvent(s) PROVE LatchServed'
  BY <1>33 DEF RepaintEvent, Event, entireSceneNeedsRepaint, sceneChanged,
     addDirtyScene, removeDirtyScene
<1>34. ASSUME NEW s \in Scenes, ResizeEvent(s) PROVE LatchServed'
  BY <1>34 DEF ResizeEvent, Event, entireSceneNeedsRepaint, sceneChanged,
     addDirtyScene, removeDirtyScene
<1>35. ASSUME NEW s \in Scenes, ScenePulse(s) PROVE LatchServed' BY <1>35 DEF ScenePulse
<1>36. ASSUME NEW s \in Scenes, RepaintScene(s) PROVE LatchServed'
  <2>1. Attached(s) /\ painting \in [Scenes -> BOOLEAN]
    BY <1>36 DEF RepaintScene, RepaintsAttached, TypeOK, SceneFlagTypes
  <2>2. /\ fxpc = "repaint" /\ fxpc' = "repaint" /\ s \in todo /\ todo' = todo \ {s}
        /\ painting' = [painting EXCEPT ![s] = TRUE]
        /\ UNCHANGED <<latch, rtpc, rtJob, rtRef>>
    BY <1>36, <2>1 DEF RepaintScene
  <2>3. PaintsOwed' = PaintsOwed BY <2>1, <2>2
  <2>4. CompletionAtWork' = CompletionAtWork BY <2>2
  <2> HIDE DEF PaintsOwed, CompletionAtWork
  <2> QED BY <2>2, <2>3, <2>4
<1>37. ASSUME NEW b \in BOOLEAN, SetAnimationRunnable(b) PROVE LatchServed'
  BY <1>37 DEF SetAnimationRunnable, Event
<1>38. ASSUME NEW s \in Scenes, NEW b \in BOOLEAN, Minimize(s, b) PROVE LatchServed'
  BY <1>38 DEF Minimize, Event
<1>39. CASE UNCHANGED vars BY <1>39 DEF vars
<1> QED BY <1>1, <1>2, <1>3, <1>4, <1>5, <1>6, <1>7, <1>8, <1>9, <1>10, <1>11, <1>12,
       <1>13, <1>14, <1>15, <1>16, <1>17, <1>18, <1>19, <1>20, <1>21, <1>22, <1>23,
       <1>24, <1>25, <1>26, <1>27, <1>28, <1>29, <1>30, <1>31, <1>32, <1>33, <1>34,
       <1>35, <1>36, <1>37, <1>38, <1>39 DEF Next, Environment, Pulse, Render, Faults

\* A dirty node of a showing scene keeps its pulse.
LEMMA NodesStep == TypeOK /\ LiveAlone /\ NoDirtyNodeForgotten /\ [Next]_vars => NoDirtyNodeForgotten'
<1> SUFFICES ASSUME TypeOK, LiveAlone, NoDirtyNodeForgotten, [Next]_vars PROVE NoDirtyNodeForgotten'
  OBVIOUS
<1> USE DEF NoDirtyNodeForgotten, Attached, toolkitFlags, toolkitVars, windowVars, appVars,
           sceneVars, collectorVars, fxVars, rtVars, outsideFx, outsideRt
<1>1. CASE TimerTick BY <1>1 DEF TimerTick, postPulse
<1>2. CASE ShowBareStage BY <1>2 DEF ShowBareStage
<1>3. CASE Exit BY <1>3 DEF Exit
<1>4. CASE RunRepaint
  BY <1>4 DEF RunRepaint, entireSceneNeedsRepaint, sceneChanged, addDirtyScene,
     removeDirtyScene
<1>5. CASE StartPulse BY <1>5 DEF StartPulse
<1>6. CASE FirePulse BY <1>6 DEF FirePulse
<1>7. CASE AwaitRendering BY <1>7 DEF AwaitRendering
<1>8. CASE SynchronizeScene
  BY <1>8 DEF SynchronizeScene, sceneChanged, addDirtyScene, removeDirtyScene, TypeOK,
     SceneFlagTypes, ControlTypes, OperandTypes
<1>9. CASE EndFirePulse BY <1>9 DEF EndFirePulse
<1>10. CASE StartRenderAll BY <1>10 DEF StartRenderAll
<1>11. CASE EndRenderAll BY <1>11 DEF EndRenderAll
<1>12. CASE EndPulse BY <1>12 DEF EndPulse
<1>13. CASE SubmitLiveRepaint BY <1>13 DEF SubmitLiveRepaint
<1>14. CASE ExitAwaitRendering BY <1>14 DEF ExitAwaitRendering
<1>15. CASE TerminateGlass BY <1>15 DEF TerminateGlass
<1>16. CASE StartJob BY <1>16 DEF StartJob
<1>17. CASE BeginPaint BY <1>17 DEF BeginPaint
<1>18. CASE DoPaint BY <1>18 DEF DoPaint
<1>19. CASE Present BY <1>19 DEF Present
<1>20. CASE FinishPaint BY <1>20 DEF FinishPaint
<1>21. CASE LiveRepaintDone BY <1>21 DEF LiveRepaintDone, LiveAlone
<1>22. CASE JobDone BY <1>22 DEF JobDone, postPulse
<1>23. CASE ReadLatch BY <1>23 DEF ReadLatch
<1>24. CASE CountDown BY <1>24 DEF CountDown
<1>25. CASE PulseAborted BY <1>25 DEF PulseAborted
<1>26. CASE RepaintBareStage BY <1>26 DEF RepaintBareStage
<1>27. CASE DeviceNotReady BY <1>27 DEF DeviceNotReady, deferRepaint
<1>28. CASE PresentFails BY <1>28 DEF PresentFails, deferRepaint
<1>29. CASE PainterThrows BY <1>29 DEF PainterThrows
<1>30. ASSUME NEW s \in Scenes, Show(s) PROVE NoDirtyNodeForgotten'
  BY <1>30 DEF Show, addDirtyScene
<1>31. ASSUME NEW s \in Scenes, Hide(s) PROVE NoDirtyNodeForgotten'
  BY <1>31 DEF Hide, removeDirtyScene
<1>32. ASSUME NEW s \in Scenes, MarkNodeDirty(s) PROVE NoDirtyNodeForgotten'
  BY <1>32 DEF MarkNodeDirty, Event, TypeOK, FlagTypes, SceneFlagTypes
<1>33. ASSUME NEW s \in Scenes, RepaintEvent(s) PROVE NoDirtyNodeForgotten'
  BY <1>33 DEF RepaintEvent, Event, entireSceneNeedsRepaint, sceneChanged,
     addDirtyScene, removeDirtyScene
<1>34. ASSUME NEW s \in Scenes, ResizeEvent(s) PROVE NoDirtyNodeForgotten'
  BY <1>34 DEF ResizeEvent, Event, entireSceneNeedsRepaint, sceneChanged,
     addDirtyScene, removeDirtyScene, TypeOK, FlagTypes, SceneFlagTypes
<1>35. ASSUME NEW s \in Scenes, ScenePulse(s) PROVE NoDirtyNodeForgotten'
  BY <1>35 DEF ScenePulse
<1>36. ASSUME NEW s \in Scenes, RepaintScene(s) PROVE NoDirtyNodeForgotten'
  BY <1>36 DEF RepaintScene
<1>37. ASSUME NEW b \in BOOLEAN, SetAnimationRunnable(b) PROVE NoDirtyNodeForgotten'
  BY <1>37 DEF SetAnimationRunnable, Event
<1>38. ASSUME NEW s \in Scenes, NEW b \in BOOLEAN, Minimize(s, b) PROVE NoDirtyNodeForgotten'
  BY <1>38 DEF Minimize, Event
<1>39. CASE UNCHANGED vars BY <1>39 DEF vars
<1> QED BY <1>1, <1>2, <1>3, <1>4, <1>5, <1>6, <1>7, <1>8, <1>9, <1>10, <1>11, <1>12,
       <1>13, <1>14, <1>15, <1>16, <1>17, <1>18, <1>19, <1>20, <1>21, <1>22, <1>23,
       <1>24, <1>25, <1>26, <1>27, <1>28, <1>29, <1>30, <1>31, <1>32, <1>33, <1>34,
       <1>35, <1>36, <1>37, <1>38, <1>39 DEF Next, Environment, Pulse, Render, Faults

\* A job past its painting has painted or failed.
LEMMA PaintedStep == TypeOK /\ JobHasPainted /\ [Next]_vars => JobHasPainted'
<1> SUFFICES ASSUME TypeOK, JobHasPainted, [Next]_vars PROVE JobHasPainted'
  OBVIOUS
<1> USE DEF JobHasPainted, rtScene, toolkitFlags, toolkitVars, windowVars, appVars,
           sceneVars, collectorVars, fxVars, rtVars, outsideFx, outsideRt
<1>1. CASE TimerTick BY <1>1 DEF TimerTick, postPulse
<1>2. CASE ShowBareStage BY <1>2 DEF ShowBareStage
<1>3. CASE Exit BY <1>3 DEF Exit
<1>4. CASE RunRepaint
  BY <1>4 DEF RunRepaint, entireSceneNeedsRepaint, sceneChanged, addDirtyScene,
     removeDirtyScene
<1>5. CASE StartPulse BY <1>5 DEF StartPulse
<1>6. CASE FirePulse BY <1>6 DEF FirePulse
<1>7. CASE AwaitRendering BY <1>7 DEF AwaitRendering
<1>8. CASE SynchronizeScene
  BY <1>8 DEF SynchronizeScene, sceneChanged, addDirtyScene, removeDirtyScene,
     RenderLockFree, Locked
<1>9. CASE EndFirePulse BY <1>9 DEF EndFirePulse
<1>10. CASE StartRenderAll BY <1>10 DEF StartRenderAll
<1>11. CASE EndRenderAll BY <1>11 DEF EndRenderAll
<1>12. CASE EndPulse BY <1>12 DEF EndPulse
<1>13. CASE SubmitLiveRepaint BY <1>13 DEF SubmitLiveRepaint
<1>14. CASE ExitAwaitRendering BY <1>14 DEF ExitAwaitRendering
<1>15. CASE TerminateGlass BY <1>15 DEF TerminateGlass
<1>16. CASE StartJob BY <1>16 DEF StartJob
<1>17. CASE BeginPaint
  BY <1>17, JobElements DEF BeginPaint, TypeOK, SceneFlagTypes, ControlTypes,
     OperandTypes
<1>18. CASE DoPaint
  BY <1>18, JobElements DEF DoPaint, TypeOK, SceneFlagTypes, ControlTypes,
     OperandTypes
<1>19. CASE Present BY <1>19 DEF Present
<1>20. CASE FinishPaint BY <1>20 DEF FinishPaint
<1>21. CASE LiveRepaintDone BY <1>21 DEF LiveRepaintDone
<1>22. CASE JobDone BY <1>22 DEF JobDone, postPulse
<1>23. CASE ReadLatch BY <1>23 DEF ReadLatch
<1>24. CASE CountDown BY <1>24 DEF CountDown
<1>25. CASE PulseAborted BY <1>25 DEF PulseAborted
<1>26. CASE RepaintBareStage BY <1>26 DEF RepaintBareStage
<1>27. CASE DeviceNotReady
  BY <1>27, JobElements DEF DeviceNotReady, deferRepaint, TypeOK, SceneFlagTypes,
     ControlTypes, OperandTypes
<1>28. CASE PresentFails BY <1>28 DEF PresentFails, deferRepaint
<1>29. CASE PainterThrows
  BY <1>29, JobElements DEF PainterThrows, TypeOK, SceneFlagTypes, ControlTypes,
     OperandTypes
<1>30. ASSUME NEW s \in Scenes, Show(s) PROVE JobHasPainted'
  BY <1>30 DEF Show, addDirtyScene, RenderLockFree, Locked
<1>31. ASSUME NEW s \in Scenes, Hide(s) PROVE JobHasPainted'
  BY <1>31 DEF Hide, removeDirtyScene
<1>32. ASSUME NEW s \in Scenes, MarkNodeDirty(s) PROVE JobHasPainted'
  BY <1>32 DEF MarkNodeDirty, Event
<1>33. ASSUME NEW s \in Scenes, RepaintEvent(s) PROVE JobHasPainted'
  BY <1>33 DEF RepaintEvent, Event, entireSceneNeedsRepaint, sceneChanged,
     addDirtyScene, removeDirtyScene
<1>34. ASSUME NEW s \in Scenes, ResizeEvent(s) PROVE JobHasPainted'
  BY <1>34 DEF ResizeEvent, Event, entireSceneNeedsRepaint, sceneChanged,
     addDirtyScene, removeDirtyScene, RenderLockFree, Locked
<1>35. ASSUME NEW s \in Scenes, ScenePulse(s) PROVE JobHasPainted'
  BY <1>35 DEF ScenePulse
<1>36. ASSUME NEW s \in Scenes, RepaintScene(s) PROVE JobHasPainted'
  BY <1>36 DEF RepaintScene
<1>37. ASSUME NEW b \in BOOLEAN, SetAnimationRunnable(b) PROVE JobHasPainted'
  BY <1>37 DEF SetAnimationRunnable, Event
<1>38. ASSUME NEW s \in Scenes, NEW b \in BOOLEAN, Minimize(s, b) PROVE JobHasPainted'
  BY <1>38 DEF Minimize, Event
<1>39. CASE UNCHANGED vars BY <1>39 DEF vars
<1> QED BY <1>1, <1>2, <1>3, <1>4, <1>5, <1>6, <1>7, <1>8, <1>9, <1>10, <1>11, <1>12,
       <1>13, <1>14, <1>15, <1>16, <1>17, <1>18, <1>19, <1>20, <1>21, <1>22, <1>23,
       <1>24, <1>25, <1>26, <1>27, <1>28, <1>29, <1>30, <1>31, <1>32, <1>33, <1>34,
       <1>35, <1>36, <1>37, <1>38, <1>39 DEF Next, Environment, Pulse, Render, Faults

\* Content that can be painted keeps its frame.
LEMMA FramesStep == TypeOK /\ LiveAlone /\ PaintingHasJob /\ JobHasPainted /\ FramesReached /\ [Next]_vars => FramesReached'
<1> SUFFICES ASSUME TypeOK, LiveAlone, PaintingHasJob, JobHasPainted, FramesReached, [Next]_vars PROVE FramesReached'
  OBVIOUS
<1> USE DEF FramesReached, FrameReached, HasJob, Attached, rtScene, toolkitFlags,
           toolkitVars, windowVars, appVars, sceneVars, collectorVars, fxVars, rtVars,
           outsideFx, outsideRt
<1>1. CASE TimerTick BY <1>1 DEF TimerTick, postPulse
<1>2. CASE ShowBareStage BY <1>2 DEF ShowBareStage
<1>3. CASE Exit BY <1>3 DEF Exit
<1>4. CASE RunRepaint
  <2> SUFFICES ASSUME NEW t \in Scenes, Attached(t)', renderDirty'[t], stateValid'[t]
               PROVE  FrameReached(t)'
    OBVIOUS
  <2> DEFINE h == Head(fxQueue).scene
  <2>1. fxQueue \in Seq(Runnables) /\ fxQueue # <<>> /\ dirtyScenes \subseteq Scenes
    BY <1>4 DEF RunRepaint, TypeOK, ControlTypes
  <2>2. /\ fxQueue' = Tail(fxQueue) /\ fxpc = "idle" /\ fxpc' = "idle"
        /\ dirtyScenes' = IF Attached(h) THEN dirtyScenes \cup {h} ELSE dirtyScenes \ {h}
        /\ UNCHANGED <<peer, renderDirty, stateValid, renderQueue, rtpc, rtJob, failed>>
    BY <1>4 DEF RunRepaint, entireSceneNeedsRepaint, sceneChanged, addDirtyScene,
                removeDirtyScene
  <2>3. /\ Head(fxQueue) = fxQueue[1] /\ Len(fxQueue) \in Nat
        /\ \A i \in 2..Len(fxQueue) :
              i - 1 \in 1..Len(fxQueue') /\ fxQueue'[i - 1] = fxQueue[i]
    BY <2>1, <2>2, TailPositions
  <2>4. CASE h = t BY <2>2, <2>4
  <2>5. CASE h # t /\ \E i \in 1..Len(fxQueue) : fxQueue[i] = Repaint(t)
    <3>1. PICK i \in 1..Len(fxQueue) : fxQueue[i] = Repaint(t) BY <2>5
    <3>2. i # 1 BY <2>3, <2>5, <3>1 DEF Repaint
    <3>3. i \in 2..Len(fxQueue) BY <2>3, <3>2
    <3> QED BY <2>3, <3>1, <3>3
  <2>6. CASE h # t /\ ~(\E i \in 1..Len(fxQueue) : fxQueue[i] = Repaint(t))
    BY <2>2, <2>6
  <2> QED BY <2>4, <2>5, <2>6
<1>5. CASE StartPulse
  <2> SUFFICES ASSUME NEW t \in Scenes, Attached(t)', renderDirty'[t], stateValid'[t]
               PROVE  FrameReached(t)'
    OBVIOUS
  <2>1. fxQueue \in Seq(Runnables) /\ fxQueue # <<>>
    BY <1>5 DEF StartPulse, TypeOK, ControlTypes
  <2>2. /\ fxQueue' = Tail(fxQueue) /\ fxpc = "idle" /\ fxpc' = "anim"
        /\ Head(fxQueue) = PulseRunnable
        /\ UNCHANGED <<peer, renderDirty, stateValid, renderQueue, rtpc, rtJob, failed, dirtyScenes>>
    BY <1>5 DEF StartPulse
  <2>3. /\ Head(fxQueue) = fxQueue[1] /\ Len(fxQueue) \in Nat
        /\ \A i \in 2..Len(fxQueue) :
              i - 1 \in 1..Len(fxQueue') /\ fxQueue'[i - 1] = fxQueue[i]
    BY <2>1, <2>2, TailPositions
  <2>4. CASE \E i \in 1..Len(fxQueue) : fxQueue[i] = Repaint(t)
    <3>1. PICK i \in 1..Len(fxQueue) : fxQueue[i] = Repaint(t) BY <2>4
    <3>2. i # 1 BY <2>2, <2>3, <3>1 DEF Repaint, PulseRunnable
    <3>3. i \in 2..Len(fxQueue) BY <2>3, <3>2
    <3> QED BY <2>3, <3>1, <3>3
  <2>5. CASE ~(\E i \in 1..Len(fxQueue) : fxQueue[i] = Repaint(t)) BY <2>2, <2>5
  <2> QED BY <2>4, <2>5
<1>6. CASE FirePulse BY <1>6 DEF FirePulse
<1>7. CASE AwaitRendering BY <1>7 DEF AwaitRendering
<1>8. CASE SynchronizeScene
  BY <1>8 DEF SynchronizeScene, sceneChanged, addDirtyScene, removeDirtyScene
<1>9. CASE EndFirePulse BY <1>9 DEF EndFirePulse
<1>10. CASE StartRenderAll BY <1>10 DEF StartRenderAll, Windows
<1>11. CASE EndRenderAll BY <1>11 DEF EndRenderAll
<1>12. CASE EndPulse BY <1>12 DEF EndPulse
<1>13. CASE SubmitLiveRepaint BY <1>13 DEF SubmitLiveRepaint
<1>14. CASE ExitAwaitRendering BY <1>14 DEF ExitAwaitRendering
<1>15. CASE TerminateGlass BY <1>15 DEF TerminateGlass
<1>16. CASE StartJob
  <2> SUFFICES ASSUME NEW t \in Scenes, Attached(t)', renderDirty'[t], stateValid'[t]
               PROVE  FrameReached(t)'
    OBVIOUS
  <2>1. renderQueue \in Seq(Jobs) /\ renderQueue # <<>>
    BY <1>16 DEF StartJob, TypeOK, ControlTypes
  <2>2. /\ renderQueue' = Tail(renderQueue) /\ rtpc = "idle" /\ rtpc' = "validate"
        /\ rtJob' = Head(renderQueue)
        /\ UNCHANGED <<peer, renderDirty, stateValid, fxQueue, fxpc, todo, failed, dirtyScenes>>
    BY <1>16 DEF StartJob
  <2>3. /\ Head(renderQueue) = renderQueue[1] /\ Len(renderQueue) \in Nat
        /\ \A i \in 2..Len(renderQueue) :
              i - 1 \in 1..Len(renderQueue') /\ renderQueue'[i - 1] = renderQueue[i]
    BY <2>1, <2>2, TailPositions
  <2>4. CASE \E i \in 1..Len(renderQueue) : renderQueue[i].scene = t
    <3>1. PICK i \in 1..Len(renderQueue) : renderQueue[i].scene = t BY <2>4
    <3>2. CASE i = 1 BY <2>2, <2>3, <3>1, <3>2
    <3>3. CASE i \in 2..Len(renderQueue) BY <2>3, <3>1, <3>3
    <3> QED BY <2>3, <3>2, <3>3
  <2>5. CASE ~(\E i \in 1..Len(renderQueue) : renderQueue[i].scene = t) BY <2>2, <2>5
  <2> QED BY <2>4, <2>5
<1>17. CASE BeginPaint
  BY <1>17, JobElements DEF BeginPaint, TypeOK, SceneFlagTypes, ControlTypes,
     OperandTypes
<1>18. CASE DoPaint
  BY <1>18, JobElements DEF DoPaint, TypeOK, SceneFlagTypes, ControlTypes,
     OperandTypes
<1>19. CASE Present BY <1>19 DEF Present
<1>20. CASE FinishPaint BY <1>20 DEF FinishPaint
<1>21. CASE LiveRepaintDone BY <1>21 DEF LiveRepaintDone
<1>22. CASE JobDone BY <1>22 DEF JobDone, postPulse
<1>23. CASE ReadLatch BY <1>23 DEF ReadLatch
<1>24. CASE CountDown BY <1>24 DEF CountDown
<1>25. CASE PulseAborted BY <1>25 DEF PulseAborted
<1>26. CASE RepaintBareStage BY <1>26 DEF RepaintBareStage
<1>27. CASE DeviceNotReady
  <2> SUFFICES ASSUME NEW t \in Scenes, Attached(t)', renderDirty'[t], stateValid'[t]
               PROVE  FrameReached(t)'
    OBVIOUS
  <2>1. /\ rtScene \in Scenes /\ fxQueue \in Seq(Runnables) /\ Len(fxQueue) \in Nat
        /\ failed \in [Scenes -> {"no", "device", "thrown"}]
    BY <1>27, JobElements DEF DeviceNotReady, TypeOK, ControlTypes, OperandTypes
  <2>2. /\ failed' = [failed EXCEPT ![rtScene] = "device"]
        /\ UNCHANGED <<peer, renderDirty, stateValid, renderQueue, rtJob, fxpc, todo, dirtyScenes>>
    BY <1>27 DEF DeviceNotReady
  <2>3. CASE t = rtScene BY <2>1, <2>2, <2>3
  <2>4. CASE t # rtScene
    <3>1. fxQueue' = fxQueue \/ fxQueue' = Append(fxQueue, Repaint(rtScene))
      BY <1>27 DEF DeviceNotReady, deferRepaint
    <3>2. 1..Len(fxQueue) \subseteq 1..Len(fxQueue')
      BY <2>1, <3>1, Elements, AppendPositions
    <3>3. \A i \in 1..Len(fxQueue) : fxQueue'[i] = fxQueue[i]
      BY <2>1, <3>1, Elements, AppendPositions
    <3> QED BY <2>1, <2>2, <2>4, <3>2, <3>3
  <2> QED BY <2>3, <2>4
<1>28. CASE PresentFails BY <1>28 DEF PresentFails, deferRepaint
<1>29. CASE PainterThrows
  BY <1>29, JobElements DEF PainterThrows, TypeOK, SceneFlagTypes, ControlTypes,
     OperandTypes
<1>30. ASSUME NEW s \in Scenes, Show(s) PROVE FramesReached'
  BY <1>30 DEF Show, addDirtyScene
<1>31. ASSUME NEW s \in Scenes, Hide(s) PROVE FramesReached'
  BY <1>31 DEF Hide, removeDirtyScene, TypeOK, SceneFlagTypes, ControlTypes,
     OperandTypes
<1>32. ASSUME NEW s \in Scenes, MarkNodeDirty(s) PROVE FramesReached'
  BY <1>32 DEF MarkNodeDirty, Event
<1>33. ASSUME NEW s \in Scenes, RepaintEvent(s) PROVE FramesReached'
  BY <1>33 DEF RepaintEvent, Event, entireSceneNeedsRepaint, sceneChanged,
     addDirtyScene, removeDirtyScene
<1>34. ASSUME NEW s \in Scenes, ResizeEvent(s) PROVE FramesReached'
  BY <1>34 DEF ResizeEvent, Event, entireSceneNeedsRepaint, sceneChanged,
     addDirtyScene, removeDirtyScene
<1>35. ASSUME NEW s \in Scenes, ScenePulse(s) PROVE FramesReached'
  BY <1>35 DEF ScenePulse
<1>36. ASSUME NEW s \in Scenes, RepaintScene(s) PROVE FramesReached'
  <2> SUFFICES ASSUME NEW t \in Scenes, Attached(t)', renderDirty'[t], stateValid'[t]
               PROVE  FrameReached(t)'
    OBVIOUS
  <2> DEFINE job == [kind |-> "paint", scene |-> s]
  <2>0. job \in Jobs BY JobElements
  <2>1. /\ renderQueue \in Seq(Jobs) /\ Len(renderQueue) \in Nat
        /\ painting \in [Scenes -> BOOLEAN]
    BY DEF TypeOK, ControlTypes, SceneFlagTypes
  <2>2. /\ fxpc = "repaint" /\ fxpc' = "repaint" /\ s \in todo /\ todo' = todo \ {s}
        /\ UNCHANGED <<peer, renderDirty, stateValid, fxQueue, rtpc, rtJob, failed, dirtyScenes>>
        /\ renderQueue' = renderQueue \/ renderQueue' = Append(renderQueue, job)
    BY <1>36 DEF RepaintScene
  <2>3. /\ 1..Len(renderQueue) \subseteq 1..Len(renderQueue')
        /\ \A i \in 1..Len(renderQueue) : renderQueue'[i] = renderQueue[i]
    <3> HIDE DEF job
    <3> QED BY <2>0, <2>1, <2>2, AppendPositions
  <2>4. CASE t # s BY <2>2, <2>3, <2>4
  <2>5. CASE t = s /\ painting[s]
    <3>1. CASE \E i \in 1..Len(renderQueue) : renderQueue[i] = job BY <2>3, <2>5, <3>1
    <3>2. CASE rtJob = job /\ rtpc \in Locked
      BY <2>2, <2>5, <3>2 DEF Locked, JobHasPainted
    <3> QED BY <2>5, <3>1, <3>2 DEF PaintingHasJob
  <2>6. CASE t = s /\ ~painting[s]
    <3>1. renderQueue' = Append(renderQueue, job) BY <1>36, <2>2, <2>6 DEF RepaintScene
    <3>2. job.scene = t BY <2>6
    <3> HIDE DEF job
    <3>3. Len(renderQueue') = Len(renderQueue) + 1 /\ renderQueue'[Len(renderQueue) + 1] = job
      BY <2>0, <2>1, <3>1, AppendPositions
    <3>4. Len(renderQueue) + 1 \in 1..Len(renderQueue') BY <2>1, <3>3
    <3> QED BY <3>2, <3>3, <3>4
  <2> QED BY <2>4, <2>5, <2>6
<1>37. ASSUME NEW b \in BOOLEAN, SetAnimationRunnable(b) PROVE FramesReached'
  BY <1>37 DEF SetAnimationRunnable, Event
<1>38. ASSUME NEW s \in Scenes, NEW b \in BOOLEAN, Minimize(s, b) PROVE FramesReached'
  BY <1>38 DEF Minimize, Event
<1>39. CASE UNCHANGED vars BY <1>39 DEF vars
<1> QED BY <1>1, <1>2, <1>3, <1>4, <1>5, <1>6, <1>7, <1>8, <1>9, <1>10, <1>11, <1>12,
       <1>13, <1>14, <1>15, <1>16, <1>17, <1>18, <1>19, <1>20, <1>21, <1>22, <1>23,
       <1>24, <1>25, <1>26, <1>27, <1>28, <1>29, <1>30, <1>31, <1>32, <1>33, <1>34,
       <1>35, <1>36, <1>37, <1>38, <1>39 DEF Next, Environment, Pulse, Render, Faults

\* All that the steps need to know of a state in which no window is bare.
PipelineInv ==
    /\ TypeOK /\ LiveAlone /\ PaintingHasJob
    /\ RepaintsAttached /\ DirtyListConsistent /\ LatchServed

\* All that they need to know in any configuration.
ContentInv ==
    /\ TypeOK /\ LiveAlone /\ PaintingHasJob
    /\ NoDirtyNodeForgotten /\ JobHasPainted /\ FramesReached /\ FlagDownOnlyThrown

\* The first state satisfies every part of both.
LEMMA InitHolds == Init => PipelineInv /\ ContentInv
<1> SUFFICES ASSUME Init PROVE PipelineInv /\ ContentInv
  OBVIOUS
<1>1. TypeOK
  <2>1. FlagTypes BY DEF Init, FlagTypes
  <2>2. SceneFlagTypes BY DEF Init, SceneFlagTypes
  <2>3. ControlTypes BY MaxEventsNat DEF Init, ControlTypes, FxSteps, RtSteps
  <2>4. OperandTypes BY DEF Init, OperandTypes
  <2> QED BY <2>1, <2>2, <2>3, <2>4 DEF TypeOK
<1>2. LiveAlone BY DEF Init, LiveAlone, NoJob
<1>3. PaintingHasJob BY DEF Init, PaintingHasJob
<1>4. RepaintsAttached /\ DirtyListConsistent
  BY DEF Init, RepaintsAttached, DirtyListConsistent
<1>5. LatchServed
  <2>1. Cardinality(PaintsOwed) \in Nat BY <1>1, OwedFinite
  <2> QED BY <2>1 DEF Init, LatchServed
<1>6. NoDirtyNodeForgotten BY DEF Init, NoDirtyNodeForgotten, Attached
<1>7. JobHasPainted BY DEF Init, JobHasPainted
<1>8. FramesReached BY DEF Init, FramesReached
<1>9. FlagDownOnlyThrown BY DEF Init, FlagDownOnlyThrown
<1> QED BY <1>1, <1>2, <1>3, <1>4, <1>5, <1>6, <1>7, <1>8, <1>9 DEF PipelineInv, ContentInv

\* Type correctness of the pulse and render pipeline.
THEOREM TypeCorrect == Spec => []TypeOK
<1>1. TypeOK /\ [Next]_vars => TypeOK'
  BY FlagStep, ControlStep DEF TypeOK
<1>2. Init => TypeOK BY InitHolds DEF ContentInv
<1> QED BY <1>1, <1>2, PTL DEF Spec

\* waitForRenderingToComplete cannot hang and the dirty list is consistent,
\* whatever the number of scenes, unless renderAll meets a window without one.
THEOREM LatchAlwaysServed ==
  ASSUME SceneWindowsOnly
  PROVE  Spec => [](LatchServed /\ DirtyListConsistent)
<1>1. PipelineInv /\ [Next]_vars => PipelineInv'
  <2> SUFFICES ASSUME PipelineInv, [Next]_vars PROVE PipelineInv'
    OBVIOUS
  <2> USE DEF PipelineInv
  <2>1. TypeOK' BY FlagStep, ControlStep DEF TypeOK
  <2>2. LiveAlone' BY LiveStep
  <2>3. PaintingHasJob' BY PaintingStep
  <2>4. RepaintsAttached' /\ DirtyListConsistent' BY DirtyStep
  <2>5. LatchServed' BY LatchStep
  <2> QED BY <2>1, <2>2, <2>3, <2>4, <2>5
<1>2. PipelineInv => LatchServed /\ DirtyListConsistent BY DEF PipelineInv
<1> QED BY <1>1, <1>2, InitHolds, PTL DEF Spec

\* What is forgotten between the threads, and what is not: a dirty node keeps a
\* pulse coming unless an exception cut the last pulse short; synchronized
\* content keeps a frame coming unless its last job failed or renderAll threw on
\* a bare stage and left its scene behind; a painting flag that suppresses a
\* repaint always keeps a job.
THEOREM NothingForgotten ==
  Spec => [](NoDirtyNodeForgotten /\ NoFrameForgotten /\ PaintingHasJob)
<1>1. ContentInv /\ [Next]_vars => ContentInv'
  <2> SUFFICES ASSUME ContentInv, [Next]_vars PROVE ContentInv'
    OBVIOUS
  <2> USE DEF ContentInv
  <2>1. TypeOK' BY FlagStep, ControlStep DEF TypeOK
  <2>2. LiveAlone' BY LiveStep
  <2>3. PaintingHasJob' BY PaintingStep
  <2>4. NoDirtyNodeForgotten' BY NodesStep
  <2>5. JobHasPainted' BY PaintedStep
  <2>6. FramesReached' BY FramesStep
  <2>7. FlagDownOnlyThrown' BY ListStep
  <2> QED BY <2>1, <2>2, <2>3, <2>4, <2>5, <2>6, <2>7
<1>2. ContentInv => NoDirtyNodeForgotten /\ NoFrameForgotten /\ PaintingHasJob
  <2>1. FramesReached /\ FlagDownOnlyThrown => NoFrameForgotten
    BY DEF FramesReached, FrameReached, FlagDownOnlyThrown, NoFrameForgotten,
       FrameComing, LeftBehind, RenderAllThrew
  <2> QED BY <2>1 DEF ContentInv
<1> QED BY <1>1, <1>2, InitHolds, PTL DEF Spec

\* Dirty nodes have a pulse coming, and the list of dirty scenes agrees with
\* the flag hasDirty that timer and renderAll read.
THEOREM DirtyIsTracked ==
  ASSUME SceneWindowsOnly
  PROVE  Spec => []DirtyTracked
<1>1. NoDirtyNodeForgotten /\ DirtyListConsistent => DirtyTracked
  BY DEF DirtyTracked
<1> QED BY <1>1, LatchAlwaysServed, NothingForgotten, PTL

\* The painting flag of a scene is up only while a job will take it down.
THEOREM PaintingEnds == Spec => []PaintingHasJob
  BY NothingForgotten, PTL
=============================================================================
