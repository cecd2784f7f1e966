--------------------------- MODULE RenderPipeline ---------------------------
(***************************************************************************)
(* The pulse and render pipeline of the Quantum toolkit.  Three threads    *)
(* share it: the pulse timer posts pulses, the JavaFX application thread   *)
(* ("fx") runs them, copies the changed scene graph to the render graph    *)
(* and submits paint jobs, and the single QuantumRenderer thread ("rt")    *)
(* paints.  They meet in the flags of QuantumToolkit, in the latch and the *)
(* dirty list of PaintCollector, in the per-scene flags of GlassScene and  *)
(* in ViewPainter.renderLock.                                              *)
(*                                                                         *)
(* The application thread never holds the render lock across two of its    *)
(* steps here: a critical section of it is one step, taken while the       *)
(* render thread is outside its own.                                       *)
(***************************************************************************)
EXTENDS Integers, Sequences, FiniteSets

CONSTANTS
    Scenes,            \* the ViewScene peers the run may create
    NoScene,           \* null
    BareStage,         \* the window of a stage without a scene
    Presenting,        \* the scenes painted by PresentingPainter (isSynchronous)
    HasWindowManager,  \* Application.hasWindowManager()
    BareStages,        \* stages without a scene may be shown
    LiveResize,        \* QuantumToolkit.liveResize
    VsyncHint,         \* isVsyncEnabled() && !hasNativeSystemVsync()
    DeviceFaults,      \* the device may be lost, a painter may throw
    PulseThrows,       \* application code may throw out of a pulse
    MaxEvents          \* bound: events on windows that are showing

ASSUME ScenesFinite == IsFiniteSet(Scenes)
ASSUME NoSceneIsNoScene == NoScene \notin Scenes /\ BareStage \notin Scenes
ASSUME PresentingScenes == Presenting \subseteq Scenes
ASSUME Switches == {HasWindowManager, BareStages, LiveResize, VsyncHint,
                    DeviceFaults, PulseThrows} \subseteq BOOLEAN
ASSUME MaxEventsNat == MaxEvents \in Nat

VARIABLES
    toolkitRunning, animationRunnable, animationRunning, nextPulseRequested,
    pulseRunning,
    fxQueue,           \* the runnables posted with Application.invokeLater
    peer,              \* life of a ViewScene: new, attached to a stage, disposed
    nodesDirty,        \* the Scene has nodes to synchronize
    shown,             \* its native window is visible and not minimized
    bareShown,         \* a stage without a scene is showing
    stateValid,        \* SceneState: the snapshot says painting is possible
    renderDirty,       \* synchronized content that is not painted yet
    entireSceneDirty, painting,
    dirtyScenes, hasDirty,
    latch,             \* count of the current allWorkCompletedLatch
    needsHint,
    fxpc, fxScene,     \* where the application thread is, and on which scene
    todo,              \* what its current loop has still to visit
    live,              \* the scene whose live repaint the pulse belongs to
    renderQueue, rtpc, rtJob,
    rtEverything,      \* renderEverything of the running paint
    rtRef,             \* which latch the running job is about to count down
    exposed,           \* history: a full repaint was asked for and not done
    failed,            \* history: how the last job failed to paint, if it did
    aborted,           \* history: the last pulse ended in an exception
    events

toolkitFlags  == <<toolkitRunning, animationRunnable, animationRunning, nextPulseRequested>>
toolkitVars   == <<toolkitFlags, pulseRunning, fxQueue>>
windowVars    == <<peer, shown, bareShown>>
appVars       == <<windowVars, nodesDirty, events>>
sceneVars     == <<stateValid, renderDirty, entireSceneDirty, painting, exposed, failed>>
collectorVars == <<dirtyScenes, hasDirty, latch, needsHint>>
fxVars        == <<fxpc, fxScene, todo, live, aborted>>
rtVars        == <<renderQueue, rtpc, rtJob, rtEverything, rtRef>>
outsideFx     == <<toolkitVars, appVars, sceneVars, collectorVars, rtVars>>
outsideRt     == <<toolkitVars, appVars, sceneVars, collectorVars, fxVars>>
vars          == <<outsideFx, fxVars>>

PulseRunnable == [kind |-> "pulse", scene |-> NoScene]
Repaint(s)    == [kind |-> "repaint", scene |-> s]
Runnables     == {PulseRunnable} \cup {Repaint(s) : s \in Scenes}
Jobs          == [kind : {"paint", "live"}, scene : Scenes]
NoJob         == [kind |-> "none", scene |-> NoScene]

FxSteps == {"idle", "anim", "scenes", "await", "sync", "renderAll", "repaint",
            "pulseEnd", "liveSubmit", "liveWait", "exitWait", "exitLock", "exited"}
InPulse == fxpc \in {"anim", "scenes", "await", "sync", "renderAll", "repaint", "pulseEnd"}
AppCode == fxpc \in {"idle", "anim", "scenes"}   \* application code may run here

Locked   == {"validate", "paint", "present", "finish"}  \* rt holds the render lock
Counting == {"done", "ref", "count"}                    \* rt is in PaintCollector.done
RtSteps  == {"idle"} \cup Locked \cup Counting

Attached(s) == peer[s] = "attached"
\* ViewPainter.renderLock can be taken by the application thread.
RenderLockFree == rtpc \notin Locked

FlagTypes ==
    /\ toolkitRunning \in BOOLEAN /\ animationRunnable \in BOOLEAN
    /\ animationRunning \in BOOLEAN /\ nextPulseRequested \in BOOLEAN
    /\ pulseRunning \in BOOLEAN /\ bareShown \in BOOLEAN
    /\ hasDirty \in BOOLEAN /\ needsHint \in BOOLEAN
    /\ rtEverything \in BOOLEAN /\ aborted \in BOOLEAN

SceneFlagTypes ==
    /\ nodesDirty \in [Scenes -> BOOLEAN] /\ shown \in [Scenes -> BOOLEAN]
    /\ stateValid \in [Scenes -> BOOLEAN] /\ renderDirty \in [Scenes -> BOOLEAN]
    /\ entireSceneDirty \in [Scenes -> BOOLEAN] /\ exposed \in [Scenes -> BOOLEAN]
    /\ painting \in [Scenes -> BOOLEAN]

ControlTypes ==
    /\ fxQueue \in Seq(Runnables)
    /\ peer \in [Scenes -> {"new", "attached", "disposed"}]
    /\ failed \in [Scenes -> {"no", "device", "thrown"}]
    /\ dirtyScenes \subseteq Scenes
    /\ latch \in Nat
    /\ fxpc \in FxSteps
    /\ fxScene \in Scenes \cup {NoScene}
    /\ todo \subseteq Scenes \cup {BareStage}
    /\ live \in Scenes \cup {NoScene}
    /\ renderQueue \in Seq(Jobs)
    /\ rtpc \in RtSteps
    /\ rtJob \in Jobs \cup {NoJob}
    /\ rtRef \in {"none", "current", "old"}
    /\ events \in 0..MaxEvents

\* A thread that is inside an operation knows the scene it works on.
OperandTypes ==
    /\ fxpc \in {"await", "sync"} => fxScene \in Scenes
    /\ fxpc \in {"liveSubmit", "liveWait"} => live \in Scenes
    /\ rtpc # "idle" => rtJob \in Jobs
    /\ rtpc = "idle" => rtJob = NoJob
    /\ rtRef # "none" <=> rtpc = "count"

\* Every variable has its type, and a thread the operand of its current step.
TypeOK == FlagTypes /\ SceneFlagTypes /\ ControlTypes /\ OperandTypes

Init ==
    /\ toolkitRunning = TRUE
    /\ animationRunnable = FALSE /\ animationRunning = FALSE
    /\ nextPulseRequested = FALSE /\ pulseRunning = FALSE
    /\ fxQueue = <<>>
    /\ peer = [s \in Scenes |-> "new"]
    /\ nodesDirty = [s \in Scenes |-> TRUE]          \* dirtyNodes == null
    /\ shown = [s \in Scenes |-> FALSE]
    /\ bareShown = FALSE
    /\ stateValid = [s \in Scenes |-> FALSE]
    /\ renderDirty = [s \in Scenes |-> FALSE]
    /\ entireSceneDirty = [s \in Scenes |-> TRUE]
    /\ painting = [s \in Scenes |-> FALSE]
    /\ exposed = [s \in Scenes |-> FALSE]
    /\ failed = [s \in Scenes |-> "no"]
    /\ dirtyScenes = {} /\ hasDirty = FALSE
    /\ latch = 0 /\ needsHint = FALSE
    /\ fxpc = "idle" /\ fxScene = NoScene /\ todo = {} /\ live = NoScene
    /\ renderQueue = <<>> /\ rtpc = "idle" /\ rtJob = NoJob
    /\ rtEverything = FALSE /\ rtRef = "none"
    /\ aborted = FALSE
    /\ events = 0

-----------------------------------------------------------------------------
(* Operations the steps below are made of.                                 *)

\* PaintCollector.addDirtyScene
addDirtyScene(s) ==
    /\ dirtyScenes' = dirtyScenes \cup {s}
    /\ hasDirty' = (hasDirty \/ s \notin dirtyScenes)

\* PaintCollector.removeDirtyScene
removeDirtyScene(s) ==
    /\ dirtyScenes' = dirtyScenes \ {s}
    /\ hasDirty' = (dirtyScenes \ {s} # {})

\* GlassScene.sceneChanged
sceneChanged(s) == IF Attached(s) THEN addDirtyScene(s) ELSE removeDirtyScene(s)

\* GlassScene.entireSceneNeedsRepaint on the application thread
entireSceneNeedsRepaint(s) ==
    /\ entireSceneDirty' = [entireSceneDirty EXCEPT ![s] = TRUE]
    /\ exposed' = [exposed EXCEPT ![s] = TRUE]
    /\ sceneChanged(s)

\* The condition under which QuantumToolkit.postPulse posts.
MayPostPulse ==
    /\ toolkitRunning
    /\ animationRunning \/ nextPulseRequested \/ hasDirty
    /\ ~pulseRunning

\* QuantumToolkit.postPulse when it posts
postPulse ==
    /\ pulseRunning' = TRUE
    /\ fxQueue' = Append(fxQueue, PulseRunnable)

\* Showing, hiding and exiting happen once and need no bound.
Event == events < MaxEvents /\ events' = events + 1

-----------------------------------------------------------------------------
(* The pulse timer.                                                        *)

TimerTick ==
    /\ fxpc \notin {"exitWait", "exitLock", "exited"}     \* pulseTimer.stop()
    /\ MayPostPulse
    /\ postPulse
    /\ UNCHANGED <<sceneVars, appVars, fxVars, rtVars, toolkitFlags, collectorVars>>

-----------------------------------------------------------------------------
(* Application code and window events, on the application thread.          *)

\* Window.show: the peer is created and attached to its stage, the native
\* window appears, its state is captured under the lock, a pulse is requested.
Show(s) ==
    /\ fxpc \in {"idle", "anim"}
    /\ peer[s] = "new"
    /\ RenderLockFree
    /\ peer' = [peer EXCEPT ![s] = "attached"]
    /\ shown' = [shown EXCEPT ![s] = TRUE]
    /\ stateValid' = [stateValid EXCEPT ![s] = TRUE]
    /\ exposed' = [exposed EXCEPT ![s] = TRUE]
    /\ addDirtyScene(s)
    /\ nextPulseRequested' = TRUE
    /\ UNCHANGED <<fxVars, rtVars, toolkitRunning, animationRunnable, animationRunning,
                   pulseRunning, fxQueue, bareShown, renderDirty, entireSceneDirty,
                   painting, failed, nodesDirty, latch, needsHint, events>>

\* Window.hide: setStage(null) takes the scene off the dirty list; under the
\* lock the view is removed from the window and then closed by dispose().
Hide(s) ==
    /\ fxpc \in {"idle", "anim"}
    /\ Attached(s)
    /\ RenderLockFree
    /\ peer' = [peer EXCEPT ![s] = "disposed"]
    /\ shown' = [shown EXCEPT ![s] = FALSE]
    /\ stateValid' = [stateValid EXCEPT ![s] = FALSE]
    /\ removeDirtyScene(s)
    /\ UNCHANGED <<toolkitVars, fxVars, rtVars, bareShown, renderDirty,
                   entireSceneDirty, painting, exposed, failed, nodesDirty, latch,
                   needsHint, events>>

\* A stage without a scene is shown.
ShowBareStage ==
    /\ BareStages /\ fxpc = "idle"
    /\ ~bareShown
    /\ bareShown' = TRUE
    /\ nextPulseRequested' = TRUE
    /\ UNCHANGED <<sceneVars, fxVars, rtVars, collectorVars, toolkitRunning,
                   animationRunnable, animationRunning, pulseRunning, fxQueue, peer, shown,
                   nodesDirty, events>>

\* Scene.addToDirtyList: only the first dirty node asks for a pulse.
MarkNodeDirty(s) ==
    /\ AppCode /\ Event
    /\ nodesDirty' = [nodesDirty EXCEPT ![s] = TRUE]
    /\ nextPulseRequested' = (nextPulseRequested \/ (~nodesDirty[s] /\ Attached(s)))
    /\ UNCHANGED <<sceneVars, fxVars, rtVars, collectorVars, windowVars, toolkitRunning,
                   animationRunnable, animationRunning, pulseRunning, fxQueue>>

\* QuantumToolkit.setAnimationRunnable
SetAnimationRunnable(on) ==
    /\ AppCode /\ Event
    /\ animationRunnable' = on
    /\ animationRunning' = (animationRunning \/ on)
    /\ UNCHANGED <<sceneVars, fxVars, rtVars, collectorVars, windowVars, toolkitRunning,
                   nextPulseRequested, pulseRunning, fxQueue, nodesDirty>>

\* The window system minimizes or restores the window.
Minimize(s, iconified) ==
    /\ fxpc = "idle" /\ Event
    /\ Attached(s)
    /\ shown' = [shown EXCEPT ![s] = ~iconified]
    /\ UNCHANGED <<toolkitVars, sceneVars, fxVars, rtVars, collectorVars, peer,
                   bareShown, nodesDirty>>

\* ViewEvent.REPAINT
RepaintEvent(s) ==
    /\ fxpc = "idle" /\ Event
    /\ Attached(s)
    /\ entireSceneNeedsRepaint(s)
    /\ UNCHANGED <<toolkitVars, fxVars, rtVars, windowVars, stateValid, renderDirty,
                   painting, failed, nodesDirty, latch, needsHint>>

\* ViewEvent.RESIZE: the new size makes nodes dirty, the whole scene is dirty,
\* its state is captured under the lock; with live resize a pulse without
\* renderAll follows at once.
ResizeEvent(s) ==
    /\ fxpc = "idle" /\ Event
    /\ Attached(s)
    /\ RenderLockFree
    /\ entireSceneNeedsRepaint(s)
    /\ nodesDirty' = [nodesDirty EXCEPT ![s] = TRUE]
    /\ stateValid' = [stateValid EXCEPT ![s] = shown[s]]
    /\ IF LiveResize /\ shown[s] /\ toolkitRunning
       THEN /\ live' = s
            /\ nextPulseRequested' = FALSE
            /\ animationRunning' = animationRunnable
            /\ fxpc' = "anim"
            /\ aborted' = FALSE
       ELSE /\ nextPulseRequested' = (nextPulseRequested \/ ~nodesDirty[s])
            /\ UNCHANGED <<live, animationRunning, fxpc, aborted>>
    /\ UNCHANGED <<rtVars, windowVars, toolkitRunning, animationRunnable, pulseRunning,
                   fxQueue, renderDirty, painting, failed, latch, needsHint, fxScene, todo>>

\* A repaint request that a painter handed over with Platform.runLater.
RunRepaint ==
    /\ fxpc = "idle"
    /\ fxQueue # <<>> /\ Head(fxQueue).kind = "repaint"
    /\ fxQueue' = Tail(fxQueue)
    /\ entireSceneNeedsRepaint(Head(fxQueue).scene)
    /\ UNCHANGED <<appVars, fxVars, rtVars, toolkitFlags, pulseRunning, stateValid,
                   renderDirty, painting, failed, latch, needsHint>>

-----------------------------------------------------------------------------
(* QuantumToolkit.pulse on the application thread.                         *)

\* The posted pulse starts; when the toolkit has stopped it does nothing.
StartPulse ==
    /\ fxpc = "idle"
    /\ fxQueue # <<>> /\ Head(fxQueue) = PulseRunnable
    /\ fxQueue' = Tail(fxQueue)
    /\ nextPulseRequested' = FALSE
    /\ animationRunning' = animationRunnable
    /\ fxpc' = "anim"
    /\ aborted' = FALSE
    /\ UNCHANGED <<sceneVars, appVars, rtVars, collectorVars, toolkitRunning,
                   animationRunnable, pulseRunning, fxScene, todo, live>>

\* The animations have run; firePulse takes its copy of the scene listeners.
FirePulse ==
    /\ fxpc = "anim"
    /\ fxpc' = "scenes"
    /\ todo' = {s \in Scenes : Attached(s)}
    /\ UNCHANGED <<outsideFx, fxScene, live, aborted>>

\* Scene.ScenePulseListener.pulse: a clean scene is passed over, a dirty one is
\* to be synchronized once the previous frame is complete.
ScenePulse(s) ==
    /\ fxpc = "scenes" /\ s \in todo
    /\ todo' = todo \ {s}
    /\ IF nodesDirty[s]
       THEN fxpc' = "await" /\ fxScene' = s
       ELSE UNCHANGED <<fxpc, fxScene>>
    /\ UNCHANGED <<outsideFx, live, aborted>>

\* PaintCollector.waitForRenderingToComplete returns.
AwaitRendering ==
    /\ fxpc = "await" /\ latch = 0
    /\ fxpc' = "sync"
    /\ UNCHANGED <<outsideFx, fxScene, todo, live, aborted>>

\* Mutant: the scene is synchronized without the render lock.
SynchronizeUnlocked ==
    /\ fxpc = "sync"
    /\ nodesDirty' = [nodesDirty EXCEPT ![fxScene] = FALSE]
    /\ renderDirty' = [renderDirty EXCEPT ![fxScene] = TRUE]
    /\ stateValid' = [stateValid EXCEPT ![fxScene] = shown[fxScene]]
    /\ sceneChanged(fxScene)
    /\ fxpc' = "scenes" /\ fxScene' = NoScene
    /\ UNCHANGED <<toolkitVars, windowVars, events, entireSceneDirty, painting, exposed, failed,
                   latch, needsHint, todo, live, aborted, rtVars>>

\* Under the render lock: synchronize, mark the peer dirty, capture its state.
SynchronizeScene ==
    /\ fxpc = "sync" /\ RenderLockFree
    /\ nodesDirty' = [nodesDirty EXCEPT ![fxScene] = FALSE]
    /\ renderDirty' = [renderDirty EXCEPT ![fxScene] = TRUE]
    /\ stateValid' = [stateValid EXCEPT ![fxScene] = shown[fxScene]]
    /\ sceneChanged(fxScene)
    /\ fxpc' = "scenes" /\ fxScene' = NoScene
    /\ UNCHANGED <<toolkitVars, rtVars, windowVars, entireSceneDirty, painting, exposed,
                   failed, latch, needsHint, todo, live, aborted, events>>

\* Every listener has run; only a posted pulse goes on to renderAll.
EndFirePulse ==
    /\ fxpc = "scenes" /\ todo = {}
    /\ fxpc' = IF live = NoScene THEN "renderAll" ELSE "pulseEnd"
    /\ UNCHANGED <<outsideFx, fxScene, todo, live, aborted>>

\* An exception of application code leaves the pulse through its finally.
PulseAborted ==
    /\ PulseThrows /\ fxpc \in {"anim", "scenes"}
    /\ fxpc' = "pulseEnd" /\ todo' = {} /\ aborted' = TRUE
    /\ UNCHANGED <<outsideFx, fxScene, live>>

-----------------------------------------------------------------------------
(* PaintCollector.renderAll                                                *)

\* With a window manager the dirty scenes are repainted, without one the
\* content of every visible window.
Windows ==
    IF HasWindowManager THEN dirtyScenes
    ELSE {s \in Scenes : Attached(s)} \cup (IF bareShown THEN {BareStage} ELSE {})

StartRenderAll ==
    /\ fxpc = "renderAll"
    /\ IF hasDirty
       THEN /\ hasDirty' = FALSE
            /\ needsHint' = FALSE
            /\ latch' = Cardinality(Windows)
            /\ rtRef' = IF rtRef = "current" THEN "old" ELSE rtRef
            /\ todo' = Windows
            /\ fxpc' = "repaint"
       ELSE /\ fxpc' = "pulseEnd"
            /\ UNCHANGED <<hasDirty, needsHint, latch, rtRef, todo>>
    /\ UNCHANGED <<toolkitVars, sceneVars, appVars, dirtyScenes, fxScene, live, aborted,
                   rtpc, rtJob, rtEverything, renderQueue>>

\* DIRTY_SCENE_SORTER: an uploading scene comes before every presenting one.
SortedFirst(w) == HasWindowManager /\ w \in Presenting => todo \subseteq Presenting

\* Mutant: a scene whose window is not shown submits no job.
RepaintShownScene(s) ==
    /\ fxpc = "repaint" /\ s \in todo /\ SortedFirst(s)
    /\ todo' = todo \ {s}
    /\ needsHint' = (needsHint \/ (s \in dirtyScenes /\ s \in Presenting))
    /\ IF shown[s] /\ ~painting[s]
       THEN /\ painting' = [painting EXCEPT ![s] = TRUE]
            /\ renderQueue' = Append(renderQueue, [kind |-> "paint", scene |-> s])
       ELSE UNCHANGED <<painting, renderQueue>>
    /\ UNCHANGED <<toolkitVars, appVars, stateValid, renderDirty, entireSceneDirty,
                   exposed, failed, dirtyScenes, hasDirty, latch, fxpc, fxScene, live,
                   aborted, rtpc, rtJob, rtEverything, rtRef>>

\* ViewScene.repaint of the next window: a scene that is being painted gets no
\* second job.
RepaintScene(s) ==
    /\ fxpc = "repaint" /\ s \in todo /\ SortedFirst(s)
    /\ todo' = todo \ {s}
    /\ needsHint' = (needsHint \/ (s \in dirtyScenes /\ s \in Presenting))
    /\ IF Attached(s) /\ ~painting[s]
       THEN /\ painting' = [painting EXCEPT ![s] = TRUE]
            /\ renderQueue' = Append(renderQueue, [kind |-> "paint", scene |-> s])
       ELSE UNCHANGED <<painting, renderQueue>>
    /\ UNCHANGED <<toolkitVars, appVars, stateValid, renderDirty, entireSceneDirty,
                   exposed, failed, dirtyScenes, hasDirty, latch, fxpc, fxScene, live,
                   aborted, rtpc, rtJob, rtEverything, rtRef>>

\* Without a window manager the loop dereferences the null scene of a bare
\* stage; the exception leaves renderAll before dirtyScenes.clear().
RepaintBareStage ==
    /\ fxpc = "repaint" /\ BareStage \in todo
    /\ fxpc' = "pulseEnd" /\ todo' = {} /\ aborted' = TRUE
    /\ UNCHANGED <<outsideFx, fxScene, live>>

EndRenderAll ==
    /\ fxpc = "repaint" /\ todo = {}
    /\ dirtyScenes' = {}
    /\ fxpc' = "pulseEnd"
    /\ UNCHANGED <<toolkitVars, sceneVars, appVars, rtVars, hasDirty, latch, needsHint,
                   fxScene, todo, live, aborted>>

\* Mutant: the request for the next pulse is cleared when the pulse ends.
EndPulseClearsRequest ==
    /\ fxpc = "pulseEnd"
    /\ pulseRunning' = FALSE
    /\ nextPulseRequested' = FALSE
    /\ fxpc' = IF live = NoScene \/ aborted THEN "idle" ELSE "liveSubmit"
    /\ live' = IF aborted THEN NoScene ELSE live
    /\ UNCHANGED <<sceneVars, appVars, rtVars, toolkitRunning, animationRunnable,
                   animationRunning, collectorVars, fxQueue, fxScene, todo, aborted>>

\* Mutant: the pulse counts as running while the next one is requested.
EndPulseKeepsRunning ==
    /\ fxpc = "pulseEnd"
    /\ pulseRunning' = (pulseRunning /\ nextPulseRequested)
    /\ fxpc' = IF live = NoScene \/ aborted THEN "idle" ELSE "liveSubmit"
    /\ live' = IF aborted THEN NoScene ELSE live
    /\ UNCHANGED <<sceneVars, appVars, rtVars, toolkitFlags, collectorVars, fxQueue,
                   fxScene, todo, aborted>>

\* The finally of QuantumToolkit.pulse
EndPulse ==
    /\ fxpc = "pulseEnd"
    /\ pulseRunning' = FALSE
    /\ fxpc' = IF live = NoScene \/ aborted THEN "idle" ELSE "liveSubmit"
    /\ live' = IF aborted THEN NoScene ELSE live
    /\ UNCHANGED <<sceneVars, appVars, rtVars, toolkitFlags, collectorVars, fxQueue,
                   fxScene, todo, aborted>>

\* PaintCollector.liveRepaintRenderJob submits a job of its own and waits.
SubmitLiveRepaint ==
    /\ fxpc = "liveSubmit"
    /\ renderQueue' = Append(renderQueue, [kind |-> "live", scene |-> live])
    /\ fxpc' = "liveWait"
    /\ UNCHANGED <<toolkitVars, sceneVars, appVars, collectorVars, fxScene, todo, live,
                   aborted, rtpc, rtJob, rtEverything, rtRef>>

-----------------------------------------------------------------------------
(* QuantumToolkit.exit                                                     *)

Exit ==
    /\ fxpc = "idle"
    /\ fxpc' = "exitWait"
    /\ UNCHANGED <<outsideFx, fxScene, todo, live, aborted>>

ExitAwaitRendering ==
    /\ fxpc = "exitWait" /\ latch = 0
    /\ fxpc' = "exitLock"
    /\ UNCHANGED <<outsideFx, fxScene, todo, live, aborted>>

\* Glass is terminated under the lock; dispose() stops the toolkit.
TerminateGlass ==
    /\ fxpc = "exitLock" /\ RenderLockFree
    /\ toolkitRunning' = FALSE
    /\ fxpc' = "exited"
    /\ UNCHANGED <<sceneVars, appVars, rtVars, collectorVars, animationRunnable,
                   animationRunning, nextPulseRequested, pulseRunning, fxQueue, fxScene,
                   todo, live, aborted>>

-----------------------------------------------------------------------------
(* The render thread: RenderJob.run of one job after the other.            *)

rtScene == rtJob.scene

\* entireSceneNeedsRepaint on the render thread: Platform.runLater
deferRepaint(s) == fxQueue' = IF toolkitRunning THEN Append(fxQueue, Repaint(s)) ELSE fxQueue

\* The painter takes the render lock.
StartJob ==
    /\ rtpc = "idle" /\ renderQueue # <<>>
    /\ rtJob' = Head(renderQueue)
    /\ renderQueue' = Tail(renderQueue)
    /\ rtpc' = "validate"
    /\ UNCHANGED <<outsideRt, rtEverything, rtRef>>

\* validateStageGraphics, then the start of paintImpl, which decides whether
\* to render everything.
BeginPaint ==
    /\ rtpc = "validate"
    /\ rtpc' = IF stateValid[rtScene] THEN "paint" ELSE "finish"
    /\ rtEverything' = (stateValid[rtScene] /\ entireSceneDirty[rtScene])
    /\ UNCHANGED <<outsideRt, rtJob, rtRef, renderQueue>>

\* The device is not ready: PresentingPainter asks for another repaint,
\* UploadingPainter just returns.
DeviceNotReady ==
    /\ DeviceFaults /\ rtpc = "validate" /\ stateValid[rtScene]
    /\ IF rtScene \in Presenting THEN deferRepaint(rtScene) ELSE UNCHANGED fxQueue
    /\ failed' = [failed EXCEPT ![rtScene] = "device"]
    /\ rtpc' = "finish"
    /\ UNCHANGED <<appVars, fxVars, toolkitFlags, collectorVars, pulseRunning,
                   stateValid, renderDirty, entireSceneDirty, painting, exposed, rtJob,
                   rtEverything, rtRef, renderQueue>>

\* ViewPainter.doPaint: the flag is cleared, whatever was decided from it.
DoPaint ==
    /\ rtpc = "paint"
    /\ entireSceneDirty' = [entireSceneDirty EXCEPT ![rtScene] = FALSE]
    /\ renderDirty' = [renderDirty EXCEPT ![rtScene] = FALSE]
    /\ exposed' = [exposed EXCEPT ![rtScene] = @ /\ ~rtEverything]
    /\ failed' = [failed EXCEPT ![rtScene] = "no"]
    /\ rtpc' = "present"
    /\ UNCHANGED <<toolkitVars, appVars, fxVars, collectorVars, stateValid, painting,
                   rtJob, rtEverything, rtRef, renderQueue>>

Present ==
    /\ rtpc = "present"
    /\ rtpc' = "finish"
    /\ UNCHANGED <<outsideRt, rtJob, rtEverything, rtRef, renderQueue>>

\* The frame cannot be presented or read back: another repaint is asked for.
PresentFails ==
    /\ DeviceFaults /\ rtpc = "present"
    /\ deferRepaint(rtScene)
    /\ rtpc' = "finish"
    /\ UNCHANGED <<sceneVars, appVars, fxVars, toolkitFlags, collectorVars,
                   pulseRunning, rtJob, rtEverything, rtRef, renderQueue>>

\* A Throwable in the painter is printed and forgotten.
PainterThrows ==
    /\ DeviceFaults /\ rtpc \in {"validate", "paint"}
    /\ failed' = [failed EXCEPT ![rtScene] = "thrown"]
    /\ rtpc' = "finish"
    /\ UNCHANGED <<toolkitVars, appVars, fxVars, collectorVars, stateValid, renderDirty,
                   entireSceneDirty, painting, exposed, rtJob, rtEverything, rtRef,
                   renderQueue>>

\* Mutant: the early return for an invalid state leaves the painting flag set.
FinishValidPaint ==
    /\ rtpc = "finish"
    /\ painting' = [painting EXCEPT ![rtScene] = @ /\ ~stateValid[rtScene]]
    /\ rtpc' = "done" /\ rtEverything' = FALSE
    /\ UNCHANGED <<toolkitVars, appVars, stateValid, renderDirty, entireSceneDirty, exposed,
                   failed, collectorVars, fxVars, rtJob, rtRef, renderQueue>>

\* The painter's finally: painting is over, the render lock is released.
FinishPaint ==
    /\ rtpc = "finish"
    /\ painting' = [painting EXCEPT ![rtScene] = FALSE]
    /\ rtpc' = "done" /\ rtEverything' = FALSE
    /\ UNCHANGED <<toolkitVars, appVars, fxVars, collectorVars, stateValid, renderDirty,
                   entireSceneDirty, exposed, failed, rtJob, rtRef, renderQueue>>

\* Mutant: a job that painted nothing does not call its listener.
LiveRepaintPainted ==
    /\ rtpc = "done" /\ rtJob.kind = "live"
    /\ IF stateValid[rtScene] THEN fxpc' = "idle" /\ live' = NoScene
                              ELSE UNCHANGED <<fxpc, live>>
    /\ rtpc' = "idle" /\ rtJob' = NoJob
    /\ UNCHANGED <<toolkitVars, sceneVars, appVars, collectorVars, fxScene, todo,
                   aborted, rtEverything, rtRef, renderQueue>>

\* The CompletionListener of a live repaint releases the application thread.
LiveRepaintDone ==
    /\ rtpc = "done" /\ rtJob.kind = "live"
    /\ fxpc' = "idle" /\ live' = NoScene
    /\ rtpc' = "idle" /\ rtJob' = NoJob
    /\ UNCHANGED <<toolkitVars, sceneVars, appVars, collectorVars, fxScene, todo,
                   aborted, rtEverything, rtRef, renderQueue>>

\* PaintCollector.done: the last job of the frame gives the vsync hint ...
JobDone ==
    /\ rtpc = "done" /\ rtJob.kind = "paint"
    /\ IF latch = 1 /\ needsHint /\ VsyncHint /\ MayPostPulse
       THEN postPulse
       ELSE UNCHANGED <<pulseRunning, fxQueue>>
    /\ rtpc' = "ref"
    /\ UNCHANGED <<sceneVars, appVars, fxVars, toolkitFlags, collectorVars, rtJob,
                   rtEverything, rtRef, renderQueue>>

\* ... and only then reads the latch it counts down.
ReadLatch ==
    /\ rtpc = "ref"
    /\ rtRef' = "current" /\ rtpc' = "count"
    /\ UNCHANGED <<outsideRt, rtJob, rtEverything, renderQueue>>

\* Mutant: a count that goes below zero.
CountDownUnguarded ==
    /\ rtpc = "count"
    /\ latch' = IF rtRef = "current" THEN latch - 1 ELSE latch
    /\ rtRef' = "none" /\ rtpc' = "idle" /\ rtJob' = NoJob
    /\ UNCHANGED <<toolkitVars, appVars, sceneVars, dirtyScenes, hasDirty, needsHint, fxVars,
                   rtEverything, renderQueue>>

CountDown ==
    /\ rtpc = "count"
    /\ latch' = IF rtRef = "current" /\ latch > 0 THEN latch - 1 ELSE latch
    /\ rtRef' = "none" /\ rtpc' = "idle" /\ rtJob' = NoJob
    /\ UNCHANGED <<toolkitVars, sceneVars, appVars, fxVars, dirtyScenes, hasDirty,
                   needsHint, rtEverything, renderQueue>>

-----------------------------------------------------------------------------
Environment ==
    \/ \E s \in Scenes : \/ Show(s) \/ Hide(s) \/ MarkNodeDirty(s)
                         \/ RepaintEvent(s) \/ ResizeEvent(s)
                         \/ \E b \in BOOLEAN : Minimize(s, b)
    \/ ShowBareStage
    \/ \E b \in BOOLEAN : SetAnimationRunnable(b)
    \/ Exit

Pulse ==
    \/ RunRepaint \/ StartPulse \/ FirePulse \/ AwaitRendering \/ SynchronizeScene
    \/ EndFirePulse \/ StartRenderAll \/ EndRenderAll \/ EndPulse \/ SubmitLiveRepaint
    \/ ExitAwaitRendering \/ TerminateGlass
    \/ \E s \in Scenes : ScenePulse(s) \/ RepaintScene(s)

Faults == PulseAborted \/ RepaintBareStage \/ DeviceNotReady \/ PresentFails \/ PainterThrows

Render ==
    \/ StartJob \/ BeginPaint \/ DoPaint \/ Present \/ FinishPaint \/ LiveRepaintDone
    \/ JobDone \/ ReadLatch \/ CountDown

Next == TimerTick \/ Environment \/ Pulse \/ Render \/ Faults

Spec == Init /\ [][Next]_vars

\* The timer keeps ticking, and neither thread stops between two of its steps.
FairSpec == Spec /\ WF_vars(TimerTick) /\ WF_vars(Pulse) /\ WF_vars(Render)

-----------------------------------------------------------------------------
(* Properties.                                                             *)

\* The jobs of a scene that will still read its content.
HasJob(s) ==
    \/ \E i \in 1..Len(renderQueue) : renderQueue[i].scene = s
    \/ rtScene = s /\ rtpc \in {"validate", "paint"}

\* The windows whose paint is still to be finished: being painted, or not yet
\* visited by the loop of renderAll.
ToRepaint  == IF fxpc = "repaint" THEN todo ELSE {}
PaintsOwed == {s \in Scenes : painting[s]} \cup ToRepaint

\* A paint is finished and done() has not yet counted the current latch down.
CompletionAtWork == rtpc \in Counting /\ rtJob.kind = "paint" /\ rtRef # "old"

\* The scene is on a list whose flag is down: renderAll returns at once, and
\* addDirtyScene raises the flag only for a scene that is not on the list.
LeftBehind(s) == s \in dirtyScenes /\ ~hasDirty /\ fxpc # "repaint"

\* A frame of the scene is on its way: a job will paint it, renderAll will get
\* to it on the dirty list, or a painter has posted a repaint that puts it there.
FrameComing(s) ==
    \/ HasJob(s)
    \/ /\ ~LeftBehind(s)
       /\ \/ s \in dirtyScenes /\ (fxpc = "repaint" => s \in todo)
          \/ \E i \in 1..Len(fxQueue) : fxQueue[i] = Repaint(s)

\* waitForRenderingToComplete cannot hang: whenever the latch is above zero, a
\* completion that will count it down is still to come, and there are at
\* least as many of them as the latch counts.  Jobs are not counted one by one
\* in renderAll, and a job that was submitted for an older latch may be the
\* one that serves this one.
LatchServed == latch <= Cardinality(PaintsOwed) + IF CompletionAtWork THEN 1 ELSE 0

\* The painting flag of a scene is set only while a job of it is queued or at
\* work, so that the repaint it suppresses is not lost.
PaintingHasJob ==
    \A s \in Scenes : painting[s] =>
        LET job == [kind |-> "paint", scene |-> s]
        IN  \/ \E i \in 1..Len(renderQueue) : renderQueue[i] = job
            \/ rtJob = job /\ rtpc \in Locked

\* No dirty node is forgotten: while the toolkit runs, a showing scene with
\* dirty nodes has a pulse coming, unless an exception cut the last pulse short.
NoDirtyNodeForgotten ==
    \A s \in Scenes : Attached(s) /\ nodesDirty[s] =>
        \/ nextPulseRequested \/ aborted
        \/ fxpc = "anim"
        \/ fxpc = "scenes" /\ s \in todo
        \/ fxpc \in {"await", "sync"} /\ (s = fxScene \/ s \in todo)

\* renderAll met the window of a bare stage, threw before dirtyScenes.clear(),
\* and left this scene behind.
RenderAllThrew(s) == LeftBehind(s) /\ bareShown /\ ~HasWindowManager

\* No synchronized content is forgotten: what was copied to the render graph of
\* a scene that can be painted has a frame coming.  There are two exceptions:
\* the scene's last job failed (device not ready, or the painter threw), or,
\* without a window manager, renderAll threw on a bare stage
\* (PaintCollector.java:402-404) and left the scene on a list it will not visit.
NoFrameForgotten ==
    \A s \in Scenes : Attached(s) /\ renderDirty[s] /\ stateValid[s] =>
        FrameComing(s) \/ failed[s] # "no" \/ RenderAllThrew(s)

\* The dirty list and the flag that timer and renderAll read agree, and the
\* list holds attached scenes only: repaint() of any other submits no job.
DirtyListConsistent ==
    /\ \A s \in dirtyScenes : Attached(s)
    /\ fxpc # "repaint" => hasDirty = (dirtyScenes # {})

\* Nothing dirty is lost on its way from the nodes to the list of renderAll:
\* nodes keep a pulse coming, and the list holds what its flag announces.
DirtyTracked == NoDirtyNodeForgotten /\ DirtyListConsistent

\* A repaint request of the window system is honoured: the scene it exposed
\* has a frame coming that renders everything.
NoRepaintForgotten ==
    \A s \in Scenes : Attached(s) /\ exposed[s] /\ stateValid[s] =>
        FrameComing(s) \/ failed[s] # "no"

\* Whatever waits for the render thread gets on: the synchronization of a scene,
\* exit() and a live repaint all return from their wait.
WaitsEnd ==
    \A pc \in {"await", "exitWait", "liveWait"} : (fxpc = pc) ~> (fxpc # pc)

\* A change of the scene graph reaches the screen: dirty nodes are synchronized
\* and painted, unless their window goes away, the toolkit exits, an exception
\* cuts the pulse short or the painter fails.
ChangesArePainted ==
    \A s \in Scenes :
        (Attached(s) /\ nodesDirty[s]) ~>
            \/ ~nodesDirty[s] /\ ~renderDirty[s]
            \/ ~Attached(s) \/ ~shown[s] \/ ~stateValid[s]
            \/ aborted \/ failed[s] # "no"
            \/ fxpc \in {"exitWait", "exitLock", "exited"}
=============================================================================
