# A TLA+ verification project for OpenJFX 8

This directory models the concurrent core of the JavaFX runtime: how a change of
the scene graph becomes a frame on the screen, how frames travel from the render
thread to the window, how runnables and nested event loops are scheduled on the
application thread, how an application starts, becomes idle and exits, how a
`Task` reports to the application thread, and how the media player buffers,
plays, stalls, seeks and is torn down.

`modules/graphics/src/main/java` is written `G/` below, `G/com/sun/javafx/tk/quantum`
is `Q/`, `modules/media/src/main/native` is `MN/`.

## 1. Inventory

### Threads

| thread | runs | talks to the others through |
|---|---|---|
| pulse timer | `QuantumToolkit.postPulse` | the flags of `QuantumToolkit`, `PaintCollector.hasDirty`, `invokeLater` |
| JavaFX application thread | events, pulses, runnables, nested event loops | everything |
| QuantumRenderer thread | paint jobs, uploads of embedded scenes | `ViewPainter.renderLock`, `PaintCollector.done`, `invokeLater` |
| InvokeLaterDispatcher | takes runnables from its deque, submits them to the native queue | its `LOCK`, two flags, `Future.done` |
| launcher | `LauncherImpl.launchApplication1`: start, wait, stop, exit | `shutdownLatch`, `runAndWait`, `tkExit` |
| user threads, Task threads | `runLater`, `runAndWait`, `Task.call`, `cancel` | `runLaterLock`, `pendingRunnables`, atomic references |
| media main loop | GStreamer bus messages of all players | `m_StateLock`, `m_DisposeLock`, `sBusCallbackContent` |
| media source | `java_source_loop`: downloads, events and buffers | STREAM_LOCK of its pad, the lock of the progress buffer |
| media reader | task of the progress buffer's source pad | the same lock, `add_cond`, `del_cond` |
| range monitor | tells a pulling demuxer that its range has come | the same lock |
| media pulse timer | `NativeMediaPlayer` time and stop-time events | the player's calls |

### Components

| component | state | operations | what makes it correct |
|---|---|---|---|
| Pulse (`Q/QuantumToolkit`) | `toolkitRunning`, `animationRunnable/Running`, `nextPulseRequested`, `pulseRunning` | `postPulse`, `pulse`, `firePulse`, `requestNextPulse`, `exit` | a dirty node always has a pulse coming, also after exceptions |
| `Q/PaintCollector` | `dirtyScenes`, `hasDirty`, `allWorkCompletedLatch`, `needsHint` | `addDirtyScene`, `removeDirtyScene`, `renderAll`, `liveRepaintRenderJob`, `done`, `waitForRenderingToComplete` | the latch is always served; nothing on the list is dropped |
| Scene peers (`Q/GlassScene`, `ViewScene`, `SceneState`, `G/javafx/scene/Scene`) | `painting`, `entireSceneDirty`, snapshot of the window, dirty nodes | `sceneChanged`, `entireSceneNeedsRepaint`, `repaint`, synchronization | synchronized content has a frame coming |
| Painters (`Q/ViewPainter`, `PresentingPainter`, `UploadingPainter`) | render lock, job being painted | `run`, `paintImpl`, presentation, error paths | `painting` is always cleared; failures release the lock and the latch |
| Pixel queue (`G/com/sun/prism/impl/QueuedPixelSource`) | `beingConsumed`, `enqueued`, `saved` | `getUnusedPixels`, `enqueuePixels`, `getLatestPixels`, `doneWithPixels`, `skipLatestPixels` | no buffer is written while in use; the consumer gets the latest frame; at most three buffers |
| Event loops (`G/com/sun/glass/ui/EventLoop`, `InvokeLaterDispatcher`, `gtk/GtkApplication`) | deque, native queue, two flags, stack and state of the loops, pass value | `invokeLater`, `invokeAndWait`, `enter`, `leave`, the dispatcher's loop | order of `runLater`; loops return from the inside out; nobody waits for a suspended runnable |
| Platform (`G/com/sun/javafx/application/PlatformImpl`, `LauncherImpl`) | `pendingRunnables`, `numWindows`, `reallyIdle`, `lastWindowClosed`, `toolkitExit`, finish listeners, latch of the launcher | `runLater`, `runAndWait`, `checkIdle`, `setImplicitExit`, `exit`, `tkExit`, launch | the count is right; exit only when idle or asked; `stop` before the toolkit goes; accepted runnables run |
| `javafx.concurrent.Task` | state of `FutureTask`, Worker state, coalescing references | `call`, `updateValue`, `cancel`, `setState` | both states agree in the end; the last value arrives |
| Java source and progress buffers (`MN/gstreamer/plugins/javasource`, `progressbuffer`) | pending event, flow results, tasks, cache or ring of caches, segment, EOS, flush flags, range request | chain, events, loop, seek, flush, close, getrange, monitor | blocks in order and announced; a seek wins and returns; EOS is delivered |
| Player (`MN/jfxmedia/platform/gstreamer/GstAudioPlaybackPipeline.cpp`) | player state, pending state, stall and seek flags, buffer position, dispose flags and the callback record | play, pause, stop, seek, rate, finish, bus messages, dispose | player and pipeline agree; the last call wins; stalls end; teardown frees once and does not deadlock |
| Master timer (`G/com/sun/scenario/animation/AbstractMasterTimer`) | receivers, animation timers, lock flags, pause state | add, remove, `timePulseImpl`, pause, resume | receivers changed during a pulse |
| Properties (`ExpressionHelper`, bindings, collections) | listener arrays, `locked`, weak listeners | add, remove, fire | listeners changed while firing |
| Resource pools (`BaseResourcePool`, `Disposer`) | used, target, list of resources, lock counts | allocate, cleanup, dispose | accounting at the limit |
| Scene graph, CSS, layout, controls, FXML, text, geometry, effects, backends, decoders, web, Swing/SWT embedding, packager | | | not concurrent, numeric, native or third-party: see section 8 |

Interactions: the timer posts a pulse through `invokeLater`; a pulse runs
animation and layout, each dirty scene waits for the render thread
(`waitForRenderingToComplete`), copies its nodes under the render lock and enters
itself in the dirty list; `renderAll` sets the latch and submits a job per scene;
the render thread paints under the render lock, and either presents or hands
`Pixels` to the application thread through a posted runnable; `done` counts down
the latch. Everything that is posted goes through `InvokeLaterDispatcher`, and a
handler may suspend itself in a nested loop at any time; what is posted through
`Platform.runLater` is counted, and the count, the windows and the nested loops
decide when the application is idle. A player's calls ask the GStreamer pipeline
for a state and leave a note; the source thread fills a progress buffer, the
reader empties it, and the bus brings states, progress, underruns and errors to
the main loop, which interprets them by the note.

### What is hard

Flags without a common lock (`hasDirty`, `painting`, `entireSceneDirty`,
`leavingNestedEventLoop`); a latch that is replaced while an older frame
completes; a render job that reads a snapshot; repaint requests from the render
thread itself; exceptions between two updates that belong together; a dispatcher
whose wait is ended by a flag that belongs to nobody in particular; loops left in
another order than they were entered; a count that is raised before the test that
may refuse it; an idle decision taken by two checks in a row; a cancellation that
crosses an outcome; a wait that begins without a second test; a result of a push
that overwrites an order to stop; messages that are interpreted after the calls
they belong to; a record that two threads may have to free. `PROJECT.json` lists
each with its line.

## 2. Modules

| module | models | builds on |
|---|---|---|
| `RenderPipeline` | pulse, dirty list, latch, paint jobs | |
| `LatestFrame` | abstract mailbox: what the pixel queue promises | |
| `QueuedPixelSource` | the pixel queue, its painter and its consumer | refines `LatestFrame` |
| `NestedEventLoop` | dispatcher, native queue, nested loops | |
| `PlatformImpl` | counting, idle check, exit, launcher | |
| `Application` | the platform together with a `Task` | extends `PlatformImpl` |
| `JavaSource` | the element at the head of a media pipeline | |
| `OrderedStream` | abstract stream: what a progress buffer promises to a demuxer | |
| `HLSProgressBuffer` | the segment ring for HTTP Live Streaming | extends `JavaSource`, refines `OrderedStream` |
| `ProgressBuffer` | the cache file for other remote media, push and pull | extends `JavaSource`, its steps are those of `OrderedStream` |
| `BusCallbackContent` | the protocol by which a player and the main loop part | |
| `PlaybackPipeline` | the player's state machine | extends `BusCallbackContent`, refines its protocol |
| `MC...` | the instances for TLC | the module of the same name |
| `...Proofs` | theorems | the module of the same name |

Operators whose comment begins with "Mutant" are not used by the specifications.
Each is a plausible slip in one definition; replacing the definition by it makes
TLC report the property that `PROJECT.json` pairs it with.

### RenderPipeline

Variables carry the names of the fields. The application thread has a program
counter `fxpc` (`idle`, `anim`, `scenes`, `await`, `sync`, `renderAll`, `repaint`,
`pulseEnd`, and the steps of live resize and exit), the render thread `rtpc`
(`idle`, `validate`, `paint`, `present`, `finish`, `done`, `ref`, `count`). A step
is what happens between two points where another thread can observe or change
something: a critical section of the application thread under the render lock is
one step, taken while the render thread is not in `Locked`; the render thread's
own section is split into `validate`, `paint`, `present` and `finish`, because
the application thread changes `entireSceneDirty` and the dirty list without the
lock. `done()` is split in three because it tests the latch, then reads the field
again to count it down (`rtRef` remembers whether the latch read is still the
current one).

Abstractions: a scene graph is one bit (`nodesDirty`: not yet synchronized), the
render graph another (`renderDirty`: synchronized, not yet painted); a window is
visible or not; a device is ready or lost; the fast path of `repaint` for embedded
scenes, overlay warnings and the disposal of presentables are left out.
`exposed`, `failed` and `aborted` are history for the properties.

### QueuedPixelSource and LatestFrame

Every method of the class is synchronized and is one step; the painter takes
pixels, fills them, enqueues them and posts an upload in separate steps, the
consumer fetches, shows and releases. The Pixels are a buffer and dimensions; a
buffer's `content` is the number of the frame that was painted into it. The list
of weak references is a set: its order only decides which of several free entries
is found first, so `getUnusedPixels` may pick any. Garbage collection may drop any
entry that nobody holds, at any time. `LatestFrame` has four numbers (last frame
painted, frame waiting, frame being shown, frame on the screen) and allows the
producer to replace the waiting frame and the consumer to take it; the refinement
mapping is `Mailbox` in `QueuedPixelSource`.

### NestedEventLoop

The dispatcher thread has one action per atomic step of its loop (`TakeFirst`,
`CheckLeaving`, `WaitUntilLeft`, `submitForLaterInvocation`, `AwaitFuture`). The
event thread's call stack alternates handlers and nested loops: `handlers[i + 1]`
runs in `stack[i]`. A handler, be it a runnable or a native event, may enter a new
loop, leave any active loop, and return, in any order. What the event thread does
between two native dispatches is seen by the dispatcher only through the two flags
and `done`, so each call is one step. Runnables and loops are used once each.

The native loop is external, GLib as `GlassApplication.cpp` uses it:
`gtk_main_quit` ends the innermost `gtk_main`; an iteration gathers the idle
sources that are ready (`ready`), runs all of them and then looks whether it has to
quit; events have priority and an iteration of their own; a nested iteration
drops what the outer one had gathered. `eventLoopMap` of `QuantumToolkit` holds the
keys of the active loops and is therefore not a variable;
`notifyLastNestedLoopExited` only triggers the idle check, which belongs to
`PlatformImpl`.

### PlatformImpl and Application

The application thread is a stack of what runs on it (`stack`: an event, a
runnable, its `finally` clause), each of which may be suspended in a nested loop,
and `fx`, which says whose idle check is about to notify the listeners or how far
the exit has got. `runLater` is two steps, `Count` and `Defer`: between them the
runnable is in `posting` of its thread. `checkIdle` is the operator `CheckIdle`,
called with the count, the windows and the nesting as they are after the step that
calls it; off the application thread it becomes a posted dummy, as in the code.
The launcher goes through `starting`, `started`, `stopping`, `remove`,
`unregister`, `checking`, `exiting`. Application code (`UserCode`) shows and hides
windows, enters nested loops, calls `setImplicitExit`, `Platform.exit`, hands a
task to a thread and cancels it; another thread posts, waits, cancels and exits.

`Application` adds a `Task`: the state of `FutureTask` (external, from its
documented behaviour), the Worker state on the application thread, `call` of the
worker, the coalescing reference. Left out: the preloader, Web Start, the runnable
of the error notification, `Service` and `ScheduledService`, the progress, message
and title updates (they have the shape of the value update), null values, handlers
fired by `setState`, the second notification of `GlassStage.close`.

### JavaSource, HLSProgressBuffer, ProgressBuffer, OrderedStream

A step is what one thread does while it holds the element's lock, or one group of
unlocked reads and writes: where the code tests a flag before it takes the lock,
the test is a step of its own. A started GStreamer task holds the STREAM_LOCK of
its pad; it gives the lock up where it parks. A condition wait is a program counter
(`wait`) that only a signal moves, so lost signals are lost in the model too. Media
is counted in blocks. `HLSProgressBuffer` has the ring of caches, the playlist of
`SegmentCount` segments and flushes that come from a seek or from closing;
`ProgressBuffer` has the cache file, the segment, EOS, and both modes of the
demuxer (`setup` chooses the mode and how much of the stated size the server
delivers; it may accept or refuse each range request). A seek may aim anywhere up to
`MaxTarget`, the end and positions behind it included: `gstbaseparse.c` converts a
time to bytes by the average rate and nobody clamps the result. A seek that the
server refuses is left to the cache by `FallBack`, without the lock and after the
source's task has been started again, as in the code. `late`, `failed`, `refused`,
`overtaken` record what went wrong and are named by the properties. `OrderedStream` has the block expected next
and the announcements since the last flush.

### BusCallbackContent and PlaybackPipeline

`BusCallbackContent` is the dispose protocol: the flags of the record, its lock,
where `Dispose`, the main loop and the pad callbacks are, the watch and how often
the record has been freed. `PlaybackPipeline` extends it and adds the player: one
action is one section under `m_StateLock` or one `gst_element_set_state`, because
the lock guards single accesses and not the calls. Its steps that touch the record
are steps of the protocol by definition, the others leave it
alone. The call of `Dispose` (`CallDispose`) and its first section under
`m_DisposeLock` (`MarkDisposeInProgress`) are two steps: in between it waits for the
lock. The GStreamer pipeline is external: state, pending and target state, an
asynchronous completion, a bus that keeps order. `crossed` collects the ways in
which calls and messages have crossed; the comment at `Crossings` explains each.
Left out: the position of `ASYNC_DONE`, the availability of the duration, sink and
clock flags, warnings, spectrum and track events, changes from PAUSED to READY,
the growth of A/V queues, the markers.

## 3. Runs

| run | instance | states | checks |
|---|---|---|---|
| `render` | 2 scenes, one presenting and one uploading, live resize, pulses that throw, 1 event, fairness | 101,716 | `TypeOK`, `LatchServed`, `DirtyTracked`, `WaitsEnd`, `ChangesArePainted` |
| `render_nowm` | no window manager, a stage without a scene, device faults, 3 events | 835,669 | `PaintingHasJob`, `NoFrameForgotten` |
| `render_expose` | 1 event | | `NoRepaintForgotten`: violated |
| `pixel_source` | 3 buffers, 2 dimensions, 3 frames, uploads that throw, embedded or not, fairness | 424,618 | `SourceConsistent`, `WritesUnusedOnly`, `IsLatestFrame`, `NewestShown` |
| `nested_loops` | 3 runnables, 2 loops, fairness | 470,098 | `LoopsConsistent`, `RunsInPostedOrder`, `DispatcherMovesOn`, `ReturnsOwnLoop`, `PostedRunnablesRun`, `LeavingLoopReturns` |
| `nested_loops_deferred` | 2 runnables, 2 loops, fairness | | `EveryRunnableRuns`: violated |
| `hls_buffer` | ring of 2, 3 segments of 2 blocks, 2 seeks, a close, faults, fairness | 334,507 | `RingConsistent`, `InOrder`, `CallsReturn`, `EosIsReached` |
| `hls_seek` | ring of 3 as in the code, 4 segments, 1 seek, no faults, fairness | | `SeekReturns`: violated |
| `progress_buffer` | 3 blocks, 2 seeks with targets up to one behind the end, a close, push and pull, cut downloads, refused seeks, fairness | 685,233 | `CacheConsistent`, `InOrder`, `SeekWins`, `CallsReturn`, `EosDelivered`, `RangeAnswered` |
| `playback` | 2 blocks, any 2 calls, 1 underrun, with and without HLS | 4,117,630 | `PlayerConsistent`, `LastCallWins` |
| `playback_teardown` | play, 1 underrun, 1 fatal error, dispose at any time, fairness | 359,260 | `RecordSafe`, `StoppedForGood`, `StallEnds`, `DisposeEnds`, `MainLoopGoesOn` |
| `application` | 1 window, 3 threads, 4 acts, a task with 2 updates, fairness | 838,744 | `IdleConsistent`, `AcceptedIsRun`, `StopBeforeExit`, `TaskConsistent`, `ExitsInTheEnd`, `RunAndWaitReturns` |

An invariant called `...Consistent` is a conjunction: the module's type invariant
with the named parts that describe how its fields fit together.

What they show:

* `LatchServed` is why the pulse cannot hang: although `renderAll` replaces the
  latch while older jobs run and although completions count down whichever latch
  they find, there are never fewer completions to come than the latch counts.
* `DirtyTracked` and `NoFrameForgotten` follow a change through both of its stages:
  dirty nodes have a pulse coming, synchronized content has a frame coming. The
  exceptions are named in the formulas: a pulse that application code cut short
  (`aborted`), a painter that failed (`failed`), and a `renderAll` that threw on a
  bare stage (`RenderAllThrew`). A scene on a list whose flag `hasDirty` is down
  does not count as having a frame coming (`LeftBehind`).
* `WritesUnusedOnly` and `IsLatestFrame`: the painter never touches what the window
  system reads, and the consumer never goes back to an older frame.
* `DispatcherMovesOn` and `LoopsConsistent`: each of the dispatcher's two waits is
  ended by somebody.
* `IdleConsistent`: the count of pending runnables is right through every race with
  the exit, closing a window does not itself find the application idle, and neither
  does a runnable that ends under a handler waiting in a nested loop, while the
  toolkit is not exiting. It does not say that the handler that closed the last
  window is never cut off: it may be, if it leaves a nested loop or calls
  `setImplicitExit` (see below).
  `ExitsInTheEnd` is the other half: an application that should exit does.
* `TaskConsistent`: however an outcome, a cancellation and coalesced updates are
  interleaved, the task ends in the state of its future with its last value.
* `InOrder`, `CallsReturn`, `EosIsReached`, `EosDelivered`, `RangeAnswered`: the
  buffers deliver what they announced, and every wait has somebody to end it, except
  in the races that the formulas name and the next section describes.
* `PlayerConsistent` and `LastCallWins`: once everything has settled, player,
  pipeline and the last call agree unless one of the named crossings has happened.
  Fewer crossings excuse a pause or stop that is not kept than a play: a stall or a
  finish that comes late may silence the media, never start it.
* `RecordSafe`, `DisposeEnds`: the callback record is freed by exactly one thread,
  after the last use, whichever thread comes last, and `Dispose` returns. The
  exception is a `Dispose` that waits for its lock (line 355) behind an error handler
  that stops the pipeline with the lock held while a pad callback waits for it
  (`ErrorMeetsPads`): the three threads hang together.
* `StoppedForGood`: nothing starts the pipeline again between the moment `Dispose`
  has set it to NULL and its release. It rests on the flag being set under the lock:
  without the lock a handler that is at work resumes the pipeline.

### Statements of the code that the model refutes

With a run and a finding of their own:

* `render_expose`: a REPAINT event that arrives after the running job has read
  `entireSceneDirty` is suppressed by `painting` and wiped out by the next
  `renderAll`; `addDirtyScene` promises that the scene "gets processed on the next
  call to renderAll".
* `nested_loops_deferred`: a handler that leaves its own loop and then enters
  another (closes a dialog, shows the next with `showAndWait`) keeps
  `leavingNestedEventLoop` set while the new loop is open. No runnable is submitted.
* `hls_seek`: the flush of a seek signals `del_cond` between the posting of the FULL
  message and the wait; the source thread sleeps for ever, the seek waits for it.

Met while modelling, without a run of their own; where a property excepts one of
them, the exception is in its formula.

* Pipeline. `NoJobAfterExitWait` (in `MCRenderPipeline`): `exit()` may pass its wait
  with a job queued, because a late completion opened the latch of the new frame.
  `NotReadyFrameComes` (there too): the repaint that `PresentingPainter` posts when
  the device is not ready may be suppressed by the `painting` flag of the very job
  that posted it. Without a window manager a showing stage without a scene makes
  `renderAll` throw (`PaintCollector.java:403`) after it has set the latch: nobody
  counts it down. It has also lowered `hasDirty` and not cleared `dirtyScenes`, so
  the scenes left on the list are never visited: `addDirtyScene` raises the flag only
  for a scene that is not on it (`RenderAllThrew`).
* Event loops. An event handler that enters a loop while the dispatcher is idle
  leaves `nestedEventLoopEntered` set, which ends the next wait before its runnable
  has run; GLib may then run two runnables in one iteration, the second in a loop
  that the first has left. The pass value of `GtkApplication` is shared, so the
  assertion `ret == this` of `EventLoop.enter` fails after a loop was entered by a
  handler that had left its own (`reentered`).
* Platform. `reallyIdle` survives a window-less nested loop or a
  `setImplicitExit(true)` in a handler, so the toolkit may be found idle while that
  handler could still show a window. `launch` may return while another thread's
  `tkExit` is in progress. `runAndWait` hangs if the application thread exits the
  toolkit directly or from inside the runnable (`RunAndWaitReturns` excepts both).
  `listenersRegistered` and `finishListeners` are not changed together.
* Task. A FAILED or SUCCEEDED task becomes CANCELLED when `cancel()` crosses the
  outcome before `FutureTask` has recorded it, although `Worker.State` describes
  CANCELLED as reached from READY, SCHEDULED or RUNNING. `updateValue(null)`
  followed by a value loses the value.
* HLS buffer. A flush that overtakes the source thread between its unlocked test
  and its write (`overtaken`): write index -1, a claim of a stale cache. The signal
  of the last free cache may be lost like that of the flush (`BothWait`). A seek to
  the duration after EOS leaves the reader paused (`ReaderForgotten`).
* Progress buffer. The result of a push overwrites the order to stop
  (`StopForgotten`); a reader that has caught up with a download that was cut never
  gets EOS (`ReaderStarves`); an EOS between `reset_eos` and the stop of the source
  refuses the next newsegment event, and one that begins at the end or behind it is
  refused or leaves an empty segment (`refused`); `instant_seek` is tested again
  without the lock (`late`); a refused seek before the beginning of the cache
  leaves a negative position, and a refused seek that meets the newsegment event of
  an earlier one reads another cache than it looked at (`failed`); a seek to the end
  or beyond it that is taken from the cache leaves the reader waiting behind a
  complete download, without EOS, until the next seek; `getrange` ignores `cache_read_offset`; the
  monitor ends when EOS finds no range request.
* Player, as crossings (the words of `Crossings` in brackets): a pause of a stalled
  player whose pipeline is already resuming is lost (pause); a resume decided by the
  bus thread overtakes pause or stop (resume); a stall decided there, or the pulse's
  finish, suspends a pipeline that does not play any more (stall, finish); stop or
  pause in Ready, or play before a pause has completed, leaves a note that a later
  stall is taken for (note); the end of the stream is handled after a seek or pause
  (eos); play or pause is refused by a player that is still Finished, pause or stop
  by one still Paused or Stopped whose pipeline is about to play (refused); an older
  message is taken for the answer to a newer note or for the stall (stale); a player
  that is still Finished hears that its pipeline has paused and keeps the note of the
  pause, so that a later stall makes it Paused and nobody resumes it (kept); a call
  restarts a pipeline that an error has just stopped (error). The kept note came out
  of the proof of `LastCallWins`: it takes four to six calls (play, finish, seek,
  pause, seek, play, then a stall) and 96 steps, more than the run has. Also:
  `SetRate` assigns `m_fRate` before it tests whether the rate was zero, so "Resume
  play if resetting from zero rate" never applies; an HLS seek resets neither
  `m_bHLSPBFull` nor `m_bLastProgressValueEOS`. The error handler stops the pipeline
  with `m_DisposeLock` held while a pad callback may wait for that lock
  (`ErrorMeetsPads`).

A hazard of `PROJECT.json` whose own case is among these exceptions has a note that
says so: the property then shows that nothing but the named case goes wrong there.

## 4. Bounds

* Pipeline: `MaxEvents` bounds the window events, dirty nodes and animation changes
  after a scene is shown; showing and hiding are bounded by the life of a peer (new,
  attached, disposed). Two scenes are needed for jobs of different scenes to be in
  the queue at once, for a latch above one, and for a completion of one scene to
  serve the latch of another. One event after the first frame lets a request meet
  a running job, two let a request meet the job of another request.
* Pixels: three buffers are what the class keeps; three frames give one held, one
  waiting and one being shown. Two dimensions force the list to change.
* Loops: two loops give an outer and an inner one; three runnables give one that
  leaves, one behind it and one overtaking.
* HLS: the ring of two is full with one segment unread and one being written; the
  third segment has to wait. `hls_seek` uses the three caches of the code.
* Progress buffer: three blocks give a position before, at and behind a target; the
  second seek meets what the first left under way. `MaxTarget` 4 lets a seek aim at
  the end of the media and at a position behind it.
* Player: `MaxCalls` 2 lets a call cross another and both cross a message;
  `Duration` 2 leaves a block to stall in front of.
* Application: `MaxActs` is one budget for events, what application code does and
  calls of the other thread; a task costs `TaskActs` of it, so that an application
  has either a task and one act or four acts. Cancelling is free, it happens once.
  The invariants also pass with `MaxActs` 5 and `TaskActs` 4 (1.2 million states).

The proofs hold for every value of these bounds. That matters for the buffers: the
exception `late` of `SeekWins` needs four blocks to make a difference, and some
orders of seeks and refused segments in `InOrder` need five seeks, more than a run
can have. Symmetry is not used: most runs
check temporal properties. Deadlock is checked in the nested loop runs, where
native events are always possible; elsewhere the system rests after the bounded
events, after exit, when the media has ended or when the player is gone.

## 5. Fairness

* `RenderPipeline`: weak fairness of the timer (a native timer keeps firing), of the
  application thread's steps inside a pulse and of the render thread's steps; none
  for window events and application changes.
* `QueuedPixelSource`: weak fairness of a painter that has taken pixels and of the
  consumer (posted runnables are run); none for starting another frame.
* `NestedEventLoop`: weak fairness of the dispatcher thread, of a handler's return
  (handlers that hang are the application's business), of a native loop that was
  told to quit, and strong fairness of running a submitted runnable, because an
  event handler in between disables it for a while: events arrive at a finite
  rate, so the loop is idle again and again. None for leaving a loop: the user may
  leave a dialog open for ever.
* `Application`: weak fairness of each thread. For the application thread this
  includes that application code ends and that nested loops are left; for the
  others that `runLater`, `runAndWait` and the launcher go on. None for events, for
  what application code does, or for the task.
* `HLSProgressBuffer`, `ProgressBuffer`: weak fairness of the source, the reader, the
  monitor, the demuxer and of a seek or close that has begun; none for beginning one.
* `PlaybackPipeline`: weak fairness of the main loop, of a call that has begun, of
  the streaming threads, of the download and of a dispose that has begun; none for
  calls, underruns and errors.

Each is what a scheduler that runs every runnable thread provides, together with a
server that goes on sending or closes the connection.

## 6. Proofs

All proofs are checked by TLAPS. Assumptions are the named `ASSUME`s of the
modules (constants are of their types, null is no element) and nothing else, but
for `SceneWindowsOnly`, which is a hypothesis of the theorems that need it.

* `RenderPipelineProofs`. `TypeCorrect`. `LatchAlwaysServed`: under
  `SceneWindowsOnly` (a window manager, or no stage without a scene: the case in
  which `renderAll` throws is exactly the excluded one) `LatchServed` and
  `DirtyListConsistent` hold for any finite set of scenes. The inductive invariant
  adds `LiveAlone` (a live repaint is the last job and the application thread waits
  for it: otherwise its completion could be counted for a paint) and
  `RepaintsAttached` (what the loop of `renderAll` still has to visit will be
  submitted). The step of `CountDown` needs that counting takes at most one
  element away, a fact about cardinalities (`OneLess`). `NothingForgotten`:
  `NoDirtyNodeForgotten`, `NoFrameForgotten` and `PaintingHasJob`, here also
  without a window manager and with bare stages, with the exceptions the formulas
  name. The invariant adds `FramesReached`
  (a dirty scene that the loop of `renderAll` has already passed has a job) and
  `JobHasPainted` (a job past its painting has painted or failed).
  `DirtyIsTracked` and `PaintingEnds` follow.
* `QueuedPixelSourceProofs`. `SourceSafe` and `SourceStaysConsistent`,
  `WritesUnused`, and `SourceIsLatestFrame`, the refinement of `LatestFrame`. The
  invariant `SourceInv` says which Pixels the threads hold by where they are, that
  what the painter holds shares no buffer with what it gave away, that saved Pixels
  have distinct buffers, and that the frames are in order from screen to painter.
* `NestedEventLoopProofs`. `LoopsSafe` and `LoopsStayConsistent`: `TypeOK`,
  `OnlyLeavingLoopsReturn`, `LeavingFlagEnds` and `DispatcherMovesOn`. The last
  needs `OnePlace` (a runnable is in the deque, with the dispatcher, or beyond,
  never in two of these: otherwise the dispatcher could submit and wait for what is
  already suspended) and `RechecksOnce` (the runnable that a returning loop posts is
  new). `OwnLoopReturned`: if no handler enters a loop after leaving its own, the
  assertion of `EventLoop.enter` holds. `PostedOrderKept`: what has started, what is
  submitted, what the dispatcher holds and the deque form one `Line`. Taking,
  submitting, putting back and starting a runnable leave the line as it is, posting
  appends to it, `invokeAndWait` inserts into it, and starting takes an inserted one
  out; lemmas say what each does to "t stands before u" (`Inserted`, `Appended`).
* `BusCallbackContentProofs`. `RecordIsSafe`: the protocol frees the record once,
  last, and no handler outlives the pipeline object. The invariant has who owns the
  lock (`LockOwners`), what is true since dispose has set its flag (`Closing`: no
  handler runs, later no streaming thread is left), who still may use the record
  (`Watching`) and whose turn it is to free it (`Freeing`).
* `PlaybackPipelineProofs`. The player's steps are built from those of the protocol
  (`PlayerFollowsProtocol` only says so), hence `PlayerRecordSafe` follows
  from `RecordIsSafe` for any media, calls, underruns and faults.
  `PipelineStaysStopped`: `Closing` says that no handler runs once the flag is set,
  `BusIdle` that the bus thread is then in no call, and `NoMoreCalls` that the
  application is in none either, so nobody is left who could move a pipeline that is in NULL.
  `StatesAgreeWhenSettled`: `StatesAgree` says something only when nothing is under
  way, so the invariant has to say what the player will believe once it has heard
  all that is: `talk` is the message being handled followed by those on the bus, and
  `Believed(talk, s, k, x)` says that a player in state s comes to message k with the
  pipeline in state x in mind. `LastTells` (the last message tells the state of the
  pipeline), `Chain` (each begins where the one before ended), `Repeats` and
  `Preroll` (a seek's PAUSED to PAUSED is expected or excused by a note), `Birth`
  (nothing is heard before the preroll) and `Notes` (the note of a pause or stop
  stays until its answer comes, and the answer comes) hold as long as nothing has
  crossed that the states depend on; `Control`, `Stalling`, `Changing`, `BusIdle`
  and `Errors` say where the threads can be and hold always.
  `LastCallWinsWhenSettled` rests on a second invariant, `CallInv`, beside that one.
  `CallSteps`, `StallStep` and `Aim` say how far the call that was made last can be
  and where the pipeline is told to go; they hold always. `PauseStory` is why a pause
  is kept: from the moment the call has left its note, or found nothing to do, the
  media is `Hushed`, nobody has told the pipeline to play, and the player knows or a
  note says so (`Hush`), so that neither a resume of the bus thread nor the seek of
  Java's `stop` (`NoStart`) starts it. `PlayStory` is why a play is kept, and it is
  harder, because a note left by an earlier pause makes a later stall look like its
  answer. While a note is there its answer is on the way (`PauseComes`, `SeekComes`)
  and the pipeline is told to pause (`NotePauses`); play after a note is therefore a
  crossing, or the note is already `Doomed` to be answered by a stale message, which
  is one (`NotePlays`). Without a note every start the player is still to hear of has
  ended or is the last thing asked (`StartsLast`), a preroll it hears of is followed
  by a start (`PlayIsLast`, `PrerollPlays`) and handled for a reason (`Reasoned`), and
  so a player that wants to play is told to, is about to stop for want of data, or
  knows that it has (`PlayWins`). The proof reduces a step to seven kinds by what it
  does to the pipeline and to the news (`Moves`: nothing, a message is heard, a stall
  ends at once, a change completes, a preroll begins, a thread starts or suspends the
  pipeline), and treats every part by kind.
* `ProgressBufferProofs`. `CacheStaysConsistent`, `BlocksComeInOrder` and
  `LastSeekWins` from one invariant: what each place of the source thread is about
  to push (`SourceFlow`), what no thread has touched before the first block and
  while a seek moves the cache (`Modes`), that cache and segment tell the same story
  (`Run`, `SegmentEnd`), that a reader behind a complete download has something to
  read or EOS to send unless a seek has taken it beyond the end (`Finish`, `Astray`),
  that a seek which falls back on the cache finds its target there (`FallsBack`), that
  the place of the reader is what downstream
  expects (`Stream`), and that once a seek has met the reader no other segment is on
  its way (`Target`).
* `HLSProgressBufferProofs`. `RingStaysConsistent` and `BlocksComeInOrder`, the
  refinement of `OrderedStream`, for any size of ring and segments. `Delivering` is
  the heart: behind an announced segment the held caches form a run from the read
  index to the write index, full but for the last, each continuing the one before,
  with the reader where downstream is (`Ordered`); or a flush has overtaken the
  writer and an empty cache at the reader's turn stops everything (`Blocked`).
  `Flushed` and `Unannounced` say that the ring is empty from the flush of a seek to
  the next segment, `Writing` what the writer that has passed its unlocked test owns.
* `ApplicationProofs`. `StoppedBeforeExit`: the invariant `LauncherInv` says that
  the start of the application is in one place only and awaited (`StartOnce`), that
  only the launcher posts `stop`, late (`StopLate`), that the toolkit exits only when
  the listener is gone (`ExitOrder`), and that whoever is past the call of `stop` has
  seen it run (`StopSeen`); it needs lemmas on what appending, taking the head and
  popping do to a sequence. `AcceptedRunnablesRun`: in a queue that holds the exit
  runnable it is the last (`ExitLast`), because `Defer` and `tkExit` agree through
  `toolkitExit`. `IdleCheckIsRight`: `PendingInv` counts the queue, the frames that
  are not an event's and the threads about to post through every step (after the
  exit the runnable that called it stays counted); `WindowsIdle` says that
  `reallyIdle` is reset whenever there is a window, and `checkIdle` of a runnable
  under a nested loop looks at the nesting (`HandlerMayGoOn`). `TaskAgrees`: how the call ended
  is queued behind all it has posted (`TaskOrder`), an update is posted exactly while
  there is a value to deliver (`ValueFlow`), and a cancelled future has its
  cancellation posted or applied (`StateFlow`), as long as the toolkit accepts
  runnables.

Each auxiliary invariant was checked with TLC on the instances above before it was
proved; `CallInv` also by simulation with up to eight calls.

## 7. Model-checked only

Liveness (every property with `~>` or `<>`): fairness and `ENABLED` are outside the
prover. Every invariant, action property and refinement of the passing runs is a
theorem. No module declares a `RECURSIVE` operator.

## 8. Not modelled

The bulk of the repository's lines is third-party code that OpenJFX carries
(WebKit, GLib, GStreamer and its plugins, ICU tables, OpenGL headers) or code that
this kind of model does not reach:

* Scene graph, layout, CSS, input dispatch, controls, FXML and builders:
  single-threaded, and their state is the user's tree. Master timer, expression
  helpers and resource pools: sequential, with state that changes under an
  iteration; see the plan.
* Geometry, effects, rasterisation, text: floating-point arithmetic.
* Prism backends, fonts, decoders, WebKit, platform windowing: native or third-party
  code; they appear as devices that are lost, windows that are exposed, events and
  messages that arrive.
* Image decoders, network locators, the packager: pure input and output.
* The event loops of Windows and Mac share `InvokeLaterDispatcher` and `EventLoop`,
  but their native halves differ; SWT embedding, where the dispatcher is absent.
* Of the media code: live playlists, the cache file of Windows, the indexing of FLV,
  failures of JAR connections, queue sizes of A/V pipelines, AVFoundation, the
  properties of `javafx.scene.media`.
* Of the platform: the preloader, Web Start, `Service`, `ScheduledService`.

Simplifications inside what is modelled. Those marked (*) leave behaviour of the
code out; the others merge or rename steps:

* `RenderPipeline`: a resize event comes between pulses and looks at `shown` instead
  of the peer's visibility (`GlassViewEventHandler.java:828`); the `drawInPaint`
  branch of a repaint event (lines 809-814, (*)) is for SWT on a Mac only; a painter
  throws before it presents, never in its `finally` clause
  (`PresentingPainter.java:116-126`), so that its job always ends and the completion
  listener is called: `RenderJob.java:58-70` skips it when the job itself throws (*).
* `PlatformImpl`: `GlassStage.java:78` notifies a second time, of the same list; the
  two writes of `PlatformImpl.java:360-362` are one step. `Task.updateValue` is called
  from the worker's thread only (lines 1200-1201 set the value directly on the
  application thread) and with values that are not null (*).
* `HLSProgressBuffer`: a write with write index -1 (`hlsprogressbuffer.c:313`) is
  undefined and changes nothing here; segments are not empty, so lines 481-485 do not
  apply; a failed allocation (`javasource.c:610`) ends the task with WRONG_STATE where
  the code leaves the result OK (*); the server does not refuse an HLS seek (*).
* `ProgressBuffer`: a newsegment event is in bytes and its cache can be created
  (`progressbuffer.c:612-643`, other errors post a message and refuse it, (*)); a push
  is answered with OK, WRONG_STATE or UNEXPECTED; the unlocked writes of the event to
  send next (lines 654 and 741) are atomic.
* `BusCallbackContent`: `g_source_attach` succeeds (lines 150-154, (*)).
* `PlaybackPipeline`: a seek goes to the start of the media, and without HLS it finds
  it downloaded: a seek outside the downloaded data, which starts the source again and
  takes EOS back, is left to `ProgressBuffer` (*). Rates are zero and one; a change
  between two other rates is a `RateSeek` with the same steps; the assignment (765) and
  the seek (779) are one step. `TornDown` is the state change (1169) and the player's
  (1171), both under `m_DisposeLock`. Errors that are not fatal (1099-1160) change no
  state. A state change that fails does so for a pause (`PauseFails`); for play it
  leaves nothing but the error message, which is a `Fault`.

## 9. Plan

Done: the pipeline, the pixel queue, the event loops, the platform with a task, the
progress buffers, the player and its teardown. Next, in this order:

1. `Service` and `ScheduledService` on top of `Application`, with an abstract
   `Worker` of the documented state sequences.
2. `MasterTimer`: receivers and timers changed while `timePulseImpl` iterates, with
   the array copies of the code; composition with the pulse flags of
   `RenderPipeline` (`setAnimationRunnable`).
3. `ExpressionHelper`: nested notifications, weak listeners, the same array
   discipline; `ResourcePool`: accounting, pruning stages, growth of the target.
