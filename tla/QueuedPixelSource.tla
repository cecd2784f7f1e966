------------------------- MODULE QueuedPixelSource -------------------------
(***************************************************************************)
(* com.sun.prism.impl.QueuedPixelSource between its two users: a painter   *)
(* on the render thread that fills Pixels and enqueues them, and the       *)
(* consumer that uploads the latest Pixels to the view.  The consumer runs *)
(* on the application thread, from a runnable posted for every frame, or,  *)
(* for an embedded scene, on the render thread itself.                     *)
(*                                                                         *)
(* Every method of the class is synchronized: one step each.  What happens *)
(* between the calls is not.  The order of the list of saved Pixels, which *)
(* only decides which of several free ones is found first, is left out.    *)
(***************************************************************************)
EXTENDS Integers, FiniteSets

CONSTANTS
    Buffers,       \* the IntBuffers that may be allocated
    Dims,          \* width, height and scale of a frame
    Area,          \* the pixels a frame of these dimensions needs
    None,          \* null
    MaxFrames      \* bound: frames painted

ASSUME NoneIsNone == None \notin [buf : Buffers, dim : Dims]
ASSUME AreaNat == Area \in [Dims -> Nat]
ASSUME MaxFramesNat == MaxFrames \in Nat

VARIABLES
    beingConsumed, enqueued,
    saved,         \* the Pixels behind the weak references of the list
    capacity,      \* of every IntBuffer that was allocated
    content,       \* the frame in the buffer, 0 for anything else
    rtpc, held,    \* the painter and the Pixels it fills
    frame,         \* frames painted so far
    uploads,       \* upload runnables in the event queue
    cpc, used,     \* the consumer and the Pixels it uploads
    valid,         \* SceneState.isValid
    refused,       \* the view has thrown
    synchronous,   \* the embedded scene's EmbeddedState uploads at once
    onScreen,      \* the frame on the screen
    illegalState   \* an IllegalStateException was thrown

sourceVars   == <<beingConsumed, enqueued, saved, capacity>>
painterVars  == <<rtpc, held, frame, content>>
consumerVars == <<cpc, used, onScreen, illegalState>>
viewVars     == <<valid, refused, synchronous>>
vars         == <<sourceVars, painterVars, consumerVars, uploads, viewVars>>

Pixels == [buf : Buffers, dim : Dims]

\* Every variable has its type.
TypeOK ==
    /\ beingConsumed \in Pixels \cup {None} /\ enqueued \in Pixels \cup {None}
    /\ saved \subseteq Pixels
    /\ capacity \in [Buffers -> Nat]
    /\ content \in [Buffers -> Nat]
    /\ rtpc \in {"idle", "fill", "filled", "upload"}
    /\ held \in Pixels \cup {None}
    /\ frame \in 0..MaxFrames
    /\ uploads \in Nat
    /\ cpc \in {"idle", "get", "skip", "show", "done"}
    /\ used \in Pixels \cup {None}
    /\ valid \in BOOLEAN /\ illegalState \in BOOLEAN
    /\ refused \in BOOLEAN /\ synchronous \in BOOLEAN
    /\ onScreen \in Nat

Init ==
    /\ beingConsumed = None /\ enqueued = None /\ saved = {}
    /\ capacity = [b \in Buffers |-> 0]
    /\ content = [b \in Buffers |-> 0]
    /\ rtpc = "idle" /\ held = None /\ frame = 0
    /\ uploads = 0
    /\ cpc = "idle" /\ used = None
    /\ valid = TRUE /\ refused = FALSE /\ synchronous \in BOOLEAN
    /\ onScreen = 0
    /\ illegalState = FALSE

-----------------------------------------------------------------------------
(* getUnusedPixels                                                         *)

usesSameBuffer(p1, p2) == p2 # None /\ p1.buf = p2.buf

\* Mutant: only the Pixels being consumed are left alone.
NotConsumed(p) == usesSameBuffer(p, beingConsumed)

InUse(p) == usesSameBuffer(p, beingConsumed) \/ usesSameBuffer(p, enqueued)

Free == {p \in saved : ~InUse(p)}

\* Mutant: Pixels that were passed over stay in the list.
KeepAll(drop) == saved

\* The loop removes the Pixels it passes over: their weak reference was cleared,
\* which may happen to any that are free, or their buffer is too small.
Without(drop) == saved \ drop

\* Saved Pixels of these dimensions are returned as they are.
SamePixels(d, drop) ==
    \E p \in Free \ drop :
        /\ p.dim = d
        /\ saved' = Without(drop)
        /\ held' = p
        /\ UNCHANGED capacity

\* Pixels of other dimensions go away, and their buffer is reused.
ReusedBuffer(d, drop) ==
    \E p \in Free \ drop :
        /\ p.dim # d /\ capacity[p.buf] >= Area[d]
        /\ saved' = Without(drop \cup {p}) \cup {[buf |-> p.buf, dim |-> d]}
        /\ held' = [buf |-> p.buf, dim |-> d]
        /\ UNCHANGED capacity

\* The buffers something still refers to.
Live == {p.buf : p \in saved \cup ({beingConsumed, enqueued} \ {None})}

\* Nothing can be reused: a buffer is allocated.
NewBuffer(d, drop) ==
    /\ drop = Free
    /\ \E b \in Buffers \ Live :
         /\ capacity' = [capacity EXCEPT ![b] = Area[d]]
         /\ saved' = Without(drop) \cup {[buf |-> b, dim |-> d]}
         /\ held' = [buf |-> b, dim |-> d]

getUnusedPixels(d) ==
    /\ rtpc = "idle" /\ frame < MaxFrames
    /\ \E drop \in SUBSET Free :
         SamePixels(d, drop) \/ ReusedBuffer(d, drop) \/ NewBuffer(d, drop)
    /\ rtpc' = "fill"
    /\ UNCHANGED <<beingConsumed, enqueued, frame, content, consumerVars, uploads,
                   viewVars>>

-----------------------------------------------------------------------------
(* The rest of the painter's frame.                                        *)

\* The frame is copied into the buffer.
FillPixels ==
    /\ rtpc = "fill"
    /\ frame' = frame + 1
    /\ content' = [content EXCEPT ![held.buf] = frame + 1]
    /\ rtpc' = "filled"
    /\ UNCHANGED <<sourceVars, held, consumerVars, uploads, viewVars>>

\* readPixels fails: the Pixels are dropped, whatever was written to them.
ReadFails ==
    /\ rtpc = "fill"
    /\ content' = [content EXCEPT ![held.buf] = 0]
    /\ held' = None /\ rtpc' = "idle"
    /\ UNCHANGED <<sourceVars, frame, consumerVars, uploads, viewVars>>

\* Mutant: a frame that waits is not replaced by a newer one.
enqueueIfEmpty ==
    /\ rtpc = "filled"
    /\ enqueued' = IF enqueued = None THEN held ELSE enqueued
    /\ held' = None /\ rtpc' = "upload"
    /\ UNCHANGED <<beingConsumed, saved, capacity, frame, content, consumerVars, uploads,
                   viewVars>>

enqueuePixels ==
    /\ rtpc = "filled"
    /\ enqueued' = held
    /\ held' = None /\ rtpc' = "upload"
    /\ UNCHANGED <<beingConsumed, saved, capacity, frame, content, consumerVars, uploads,
                   viewVars>>

\* SceneState.uploadPixels posts the upload.
PostUpload ==
    /\ rtpc = "upload" /\ ~synchronous
    /\ uploads' = uploads + 1
    /\ rtpc' = "idle"
    /\ UNCHANGED <<sourceVars, held, frame, content, consumerVars, viewVars>>

-----------------------------------------------------------------------------
(* The consumer.                                                           *)

\* Mutant: the test for a valid view is the wrong way round.
StartUploadInverted ==
    /\ cpc = "idle"
    /\ IF synchronous
       THEN rtpc = "upload" /\ UNCHANGED uploads
       ELSE uploads > 0 /\ uploads' = uploads - 1
    /\ cpc' = IF valid THEN "skip" ELSE "get"
    /\ UNCHANGED <<sourceVars, painterVars, used, onScreen, illegalState, viewVars>>

\* The runnable, or EmbeddedState.uploadPixels, looks at the state of the view.
StartUpload ==
    /\ cpc = "idle"
    /\ IF synchronous
       THEN rtpc = "upload" /\ UNCHANGED uploads
       ELSE uploads > 0 /\ uploads' = uploads - 1
    /\ cpc' = IF valid THEN "get" ELSE "skip"
    /\ UNCHANGED <<sourceVars, painterVars, used, onScreen, illegalState, viewVars>>

\* With an embedded scene the painter goes on when the consumer returns.
Return == rtpc' = IF synchronous THEN "idle" ELSE rtpc

\* An exception of the PixelSource leaves the consumer.
IllegalState ==
    /\ illegalState' = TRUE
    /\ cpc' = "idle" /\ used' = None /\ Return
    /\ UNCHANGED <<beingConsumed, enqueued, saved, capacity>>

getLatestPixels ==
    /\ cpc = "get"
    /\ IF beingConsumed # None THEN IllegalState
       ELSE /\ beingConsumed' = enqueued /\ enqueued' = None
            /\ used' = enqueued
            /\ IF enqueued = None THEN cpc' = "idle" /\ Return ELSE cpc' = "show" /\ UNCHANGED rtpc
            /\ UNCHANGED <<saved, capacity, illegalState>>
    /\ UNCHANGED <<held, frame, content, uploads, viewVars, onScreen>>

\* View.uploadPixels or EmbeddedScene.uploadPixels
ShowPixels ==
    /\ cpc = "show"
    /\ onScreen' = content[used.buf]
    /\ cpc' = "done"
    /\ UNCHANGED <<sourceVars, painterVars, used, illegalState, uploads, viewVars>>

\* The view throws; the finally clause follows all the same.
ShowFails ==
    /\ cpc = "show"
    /\ cpc' = "done"
    /\ refused' = TRUE
    /\ UNCHANGED <<sourceVars, painterVars, used, onScreen, illegalState, uploads, valid,
                   synchronous>>

doneWithPixels ==
    /\ cpc = "done"
    /\ IF beingConsumed # used THEN IllegalState
       ELSE /\ beingConsumed' = None
            /\ used' = None /\ cpc' = "idle" /\ Return
            /\ UNCHANGED <<enqueued, saved, capacity, illegalState>>
    /\ UNCHANGED <<held, frame, content, uploads, viewVars, onScreen>>

skipLatestPixels ==
    /\ cpc = "skip"
    /\ IF beingConsumed # None THEN IllegalState
       ELSE /\ enqueued' = None
            /\ cpc' = "idle" /\ Return
            /\ UNCHANGED <<beingConsumed, saved, capacity, used, illegalState>>
    /\ UNCHANGED <<held, frame, content, uploads, viewVars, onScreen>>

\* The view is closed or its window loses its size, on the application thread.
CloseView ==
    /\ valid /\ (cpc = "idle" \/ synchronous)
    /\ valid' = FALSE
    /\ UNCHANGED <<sourceVars, painterVars, consumerVars, uploads, refused, synchronous>>

-----------------------------------------------------------------------------
Painter  == (\E d \in Dims : getUnusedPixels(d)) \/ FillPixels \/ ReadFails
            \/ enqueuePixels \/ PostUpload
Consumer == StartUpload \/ getLatestPixels \/ ShowPixels \/ ShowFails \/ doneWithPixels
            \/ skipLatestPixels

Next == Painter \/ Consumer \/ CloseView

Spec == Init /\ [][Next]_vars

\* A painter finishes the frame it works on and posted runnables are run.
FairSpec ==
    /\ Spec
    /\ WF_vars(FillPixels \/ ReadFails \/ enqueuePixels \/ PostUpload)
    /\ WF_vars(Consumer)

-----------------------------------------------------------------------------
(* Properties.                                                             *)

\* "At most we will need 3 sets of pixels": the list of weak references never
\* grows beyond the capacity it was created with.
AtMostThree == Cardinality(saved) <= 3

\* The painter never writes into Pixels that wait to be uploaded or are being
\* uploaded, however the calls of the two threads interleave.
WritesUnusedOnly ==
    [][\A b \in Buffers : content'[b] # content[b] =>
           \A p \in {beingConsumed, enqueued} \ {None} : p.buf # b]_vars

\* No frame is left in the queue: when the painter and the consumer are done,
\* a frame in the queue has a runnable that will fetch it.
EnqueuedIsFetched ==
    enqueued # None => rtpc = "upload" \/ uploads > 0 \/ cpc \in {"get", "skip"}

\* The IllegalStateExceptions of the class are never thrown.
NeverIllegalState == ~illegalState

\* What the class is built to keep, in one invariant: typed fields, at most
\* three Pixels, no exception, and no frame that nobody will fetch.
SourceConsistent ==
    TypeOK /\ AtMostThree /\ NeverIllegalState /\ EnqueuedIsFetched

\* The newest frame reaches the screen, unless the view is closed or throws,
\* or a newer one is painted.
NewestShown ==
    \A f \in 1..MaxFrames :
        (frame = f) ~> (onScreen = f \/ frame > f \/ ~valid \/ refused)

\* The frame in the buffer of some Pixels, and the source seen as a mailbox.
ContentOf(p) == IF p = None THEN 0 ELSE content[p.buf]
Mailbox == INSTANCE LatestFrame WITH
    last    <- IF rtpc = "filled" THEN frame - 1 ELSE frame,
    waiting <- ContentOf(enqueued),
    taken   <- ContentOf(beingConsumed),
    screen  <- onScreen

\* The source implements the mailbox for the latest frame: the consumer gets the
\* newest frame that was enqueued, each at most once and never an older one.
IsLatestFrame == Mailbox!LFSpec
=============================================================================
