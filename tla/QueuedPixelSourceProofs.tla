---------------------- MODULE QueuedPixelSourceProofs ----------------------
(***************************************************************************)
(* Proofs about QueuedPixelSource, for any number of buffers, dimensions   *)
(* and frames.                                                             *)
(***************************************************************************)
EXTENDS QueuedPixelSource, FiniteSetTheorems, TLAPS

\* Which Pixels the two threads hold, by where they are.
Threads ==
    /\ rtpc \in {"fill", "filled"} <=> held # None
    /\ rtpc = "fill" => frame < MaxFrames
    /\ cpc \in {"show", "done"} <=> beingConsumed # None
    /\ used = beingConsumed
    /\ synchronous /\ cpc # "idle" => rtpc = "upload"
    /\ synchronous /\ cpc \in {"show", "done"} => enqueued = None
    /\ NeverIllegalState
    /\ EnqueuedIsFetched

\* The Pixels the painter fills share no buffer with the ones it has given away.
HeldUnused ==
    held # None => ~usesSameBuffer(held, beingConsumed) /\ ~usesSameBuffer(held, enqueued)

\* No two saved Pixels share a buffer, and there are at most three.
SavedDistinct ==
    /\ \A p, q \in saved : p.buf = q.buf => p = q
    /\ IsFiniteSet(saved) /\ AtMostThree

\* The frames in the buffers that were given away, from the screen to the
\* painter, are in order.
FramesInOrder ==
    /\ rtpc = "filled" => content[held.buf] = frame
    /\ onScreen <= (IF rtpc = "filled" THEN frame - 1 ELSE frame)
    /\ enqueued # None =>
         /\ onScreen < ContentOf(enqueued)
         /\ ContentOf(beingConsumed) < ContentOf(enqueued)
         /\ ContentOf(enqueued) <= (IF rtpc = "filled" THEN frame - 1 ELSE frame)
    /\ beingConsumed # None =>
         ContentOf(beingConsumed) \in 1..(IF rtpc = "filled" THEN frame - 1 ELSE frame)
    /\ cpc = "show" => onScreen < ContentOf(beingConsumed)
    /\ cpc = "done" => onScreen <= ContentOf(beingConsumed)

SourceInv == TypeOK /\ Threads /\ HeldUnused /\ SavedDistinct /\ FramesInOrder

\* The variables keep their types.
LEMMA TypeStep ==
  ASSUME TypeOK, Threads, [Next]_vars
  PROVE  TypeOK'
<1> USE DEF TypeOK, Pixels, Threads, NeverIllegalState, vars, sourceVars, painterVars,
           consumerVars, viewVars
<1>1. ASSUME NEW d \in Dims, getUnusedPixels(d) PROVE TypeOK'
  BY <1>1, AreaNat, MaxFramesNat, NoneIsNone DEF getUnusedPixels, SamePixels,
     ReusedBuffer, NewBuffer, Without, Free, InUse, usesSameBuffer, Live
<1>2. CASE FillPixels BY <1>2, AreaNat, MaxFramesNat, NoneIsNone DEF FillPixels
<1>3. CASE ReadFails BY <1>3, AreaNat, MaxFramesNat, NoneIsNone DEF ReadFails
<1>4. CASE enqueuePixels BY <1>4, AreaNat, MaxFramesNat, NoneIsNone DEF enqueuePixels
<1>5. CASE PostUpload BY <1>5, AreaNat, MaxFramesNat, NoneIsNone DEF PostUpload
<1>6. CASE StartUpload BY <1>6, AreaNat, MaxFramesNat, NoneIsNone DEF StartUpload
<1>7. CASE getLatestPixels
  BY <1>7, AreaNat, MaxFramesNat, NoneIsNone DEF getLatestPixels, IllegalState, Return
<1>8. CASE ShowPixels BY <1>8, AreaNat, MaxFramesNat, NoneIsNone DEF ShowPixels
<1>9. CASE ShowFails BY <1>9, AreaNat, MaxFramesNat, NoneIsNone DEF ShowFails
<1>10. CASE doneWithPixels
  BY <1>10, AreaNat, MaxFramesNat, NoneIsNone DEF doneWithPixels, IllegalState, Return
<1>11. CASE skipLatestPixels
  BY <1>11, AreaNat, MaxFramesNat, NoneIsNone DEF skipLatestPixels, IllegalState,
     Return
<1>12. CASE CloseView BY <1>12, AreaNat, MaxFramesNat, NoneIsNone DEF CloseView
<1>13. CASE UNCHANGED vars BY <1>13, AreaNat, MaxFramesNat, NoneIsNone DEF vars
<1> QED BY <1>1, <1>2, <1>3, <1>4, <1>5, <1>6, <1>7, <1>8, <1>9, <1>10, <1>11, <1>12,
       <1>13 DEF Next, Painter, Consumer

\* Each thread holds what its place says, and no exception is thrown.
LEMMA ThreadsStep ==
  ASSUME TypeOK, Threads, [Next]_vars
  PROVE  Threads'
<1> USE DEF TypeOK, Pixels, Threads, NeverIllegalState, EnqueuedIsFetched, vars, sourceVars,
           painterVars, consumerVars, viewVars
<1>1. ASSUME NEW d \in Dims, getUnusedPixels(d) PROVE Threads'
  BY <1>1, NoneIsNone DEF getUnusedPixels, SamePixels, ReusedBuffer,
     NewBuffer, Without, Free, InUse, usesSameBuffer, Live
<1>2. CASE FillPixels BY <1>2, NoneIsNone DEF FillPixels
<1>3. CASE ReadFails BY <1>3, NoneIsNone DEF ReadFails
<1>4. CASE enqueuePixels BY <1>4, NoneIsNone DEF enqueuePixels
<1>5. CASE PostUpload BY <1>5, NoneIsNone DEF PostUpload
<1>6. CASE StartUpload BY <1>6, NoneIsNone DEF StartUpload
<1>7. CASE getLatestPixels
  BY <1>7, NoneIsNone DEF getLatestPixels, IllegalState, Return
<1>8. CASE ShowPixels BY <1>8, NoneIsNone DEF ShowPixels
<1>9. CASE ShowFails BY <1>9, NoneIsNone DEF ShowFails
<1>10. CASE doneWithPixels
  BY <1>10, NoneIsNone DEF doneWithPixels, IllegalState, Return
<1>11. CASE skipLatestPixels
  BY <1>11, NoneIsNone DEF skipLatestPixels, IllegalState, Return
<1>12. CASE CloseView BY <1>12, NoneIsNone DEF CloseView
<1>13. CASE UNCHANGED vars BY <1>13, NoneIsNone DEF vars
<1> QED BY <1>1, <1>2, <1>3, <1>4, <1>5, <1>6, <1>7, <1>8, <1>9, <1>10, <1>11, <1>12,
       <1>13 DEF Next, Painter, Consumer

\* The painter keeps its buffer to itself.
LEMMA HeldStep ==
  ASSUME TypeOK, Threads, HeldUnused, [Next]_vars
  PROVE  HeldUnused'
<1> USE DEF HeldUnused, usesSameBuffer, Threads, vars, sourceVars, painterVars, consumerVars, viewVars
<1>1. ASSUME NEW d \in Dims, getUnusedPixels(d) PROVE HeldUnused'
  BY <1>1, NoneIsNone DEF getUnusedPixels, SamePixels, ReusedBuffer, NewBuffer,
     Without, Free, InUse, usesSameBuffer, Live
<1>2. CASE FillPixels BY <1>2, NoneIsNone DEF FillPixels
<1>3. CASE ReadFails BY <1>3, NoneIsNone DEF ReadFails
<1>4. CASE enqueuePixels BY <1>4, NoneIsNone DEF enqueuePixels
<1>5. CASE PostUpload BY <1>5, NoneIsNone DEF PostUpload
<1>6. CASE StartUpload BY <1>6, NoneIsNone DEF StartUpload
<1>7. CASE getLatestPixels
  BY <1>7, NoneIsNone DEF getLatestPixels, IllegalState, Return
<1>8. CASE ShowPixels BY <1>8, NoneIsNone DEF ShowPixels
<1>9. CASE ShowFails BY <1>9, NoneIsNone DEF ShowFails
<1>10. CASE doneWithPixels
  BY <1>10, NoneIsNone DEF doneWithPixels, IllegalState, Return
<1>11. CASE skipLatestPixels
  BY <1>11, NoneIsNone DEF skipLatestPixels, IllegalState, Return
<1>12. CASE CloseView BY <1>12, NoneIsNone DEF CloseView
<1>13. CASE UNCHANGED vars BY <1>13, NoneIsNone DEF vars
<1> QED BY <1>1, <1>2, <1>3, <1>4, <1>5, <1>6, <1>7, <1>8, <1>9, <1>10, <1>11, <1>12,
       <1>13 DEF Next, Painter, Consumer

\* Of distinct Pixels at most two are in use.
LEMMA TwoInUse ==
  ASSUME SavedDistinct
  PROVE  IsFiniteSet(saved \ Free) /\ Cardinality(saved \ Free) <= 2
<1> DEFINE Using(q) == {p \in saved : usesSameBuffer(p, q)}
<1>1. ASSUME NEW q PROVE IsFiniteSet(Using(q)) /\ Cardinality(Using(q)) \in 0..1
  <2>1. CASE Using(q) = {} BY <2>1, FS_EmptySet
  <2>2. CASE Using(q) # {}
    <3>1. PICK x : x \in Using(q) BY <2>2
    <3>2. Using(q) = {x} BY <3>1 DEF SavedDistinct, usesSameBuffer
    <3> HIDE DEF Using
    <3>3. IsFiniteSet({x}) /\ Cardinality({x}) = 1 BY FS_Singleton
    <3> QED BY <3>2, <3>3
  <2> QED BY <2>1, <2>2
<1>2. saved \ Free = Using(beingConsumed) \cup Using(enqueued)
  BY DEF Free, InUse
<1> HIDE DEF Using
<1>3. /\ IsFiniteSet(Using(beingConsumed) \cup Using(enqueued))
      /\ Cardinality(Using(beingConsumed) \cup Using(enqueued)) =
           Cardinality(Using(beingConsumed)) + Cardinality(Using(enqueued))
           - Cardinality(Using(beingConsumed) \cap Using(enqueued))
  BY <1>1, FS_Union
<1>4. Cardinality(Using(beingConsumed) \cap Using(enqueued)) \in Nat
  BY <1>1, FS_Intersection, FS_CardinalityType
<1> QED BY <1>1, <1>2, <1>3, <1>4

\* The saved Pixels stay distinct and at most three.
LEMMA SavedStep ==
  ASSUME TypeOK, Threads, SavedDistinct, [Next]_vars
  PROVE  SavedDistinct'
<1> USE DEF SavedDistinct, AtMostThree, vars, sourceVars, painterVars, consumerVars, viewVars
<1>1. ASSUME NEW d \in Dims, getUnusedPixels(d) PROVE SavedDistinct'
  <2>1. PICK drop \in SUBSET Free :
           SamePixels(d, drop) \/ ReusedBuffer(d, drop) \/ NewBuffer(d, drop)
    BY <1>1 DEF getUnusedPixels
  <2>2. Cardinality(saved) \in Nat BY FS_CardinalityType
  <2>3. CASE SamePixels(d, drop)
    <3>1. saved' \subseteq saved BY <2>3 DEF SamePixels, Without
    <3>2. IsFiniteSet(saved') /\ Cardinality(saved') <= Cardinality(saved)
      BY <3>1, FS_Subset
    <3>3. Cardinality(saved') \in Nat BY <3>2, FS_CardinalityType
    <3> QED BY <2>2, <3>1, <3>2, <3>3
  <2>4. CASE ReusedBuffer(d, drop)
    <3>1. PICK p \in Free \ drop :
            saved' = Without(drop \cup {p}) \cup {[buf |-> p.buf, dim |-> d]}
      BY <2>4 DEF ReusedBuffer
    <3> DEFINE new == [buf |-> p.buf, dim |-> d]
               rest == saved \ {p}
    <3>2. p \in saved /\ saved' \subseteq rest \cup {new} BY <3>1 DEF Free, Without
    <3>3. IsFiniteSet(rest) /\ Cardinality(rest) = Cardinality(saved) - 1
      BY <3>2, FS_RemoveElement
    <3>4. \A q \in rest : q.buf # p.buf BY <3>2
    <3>5. new.buf = p.buf OBVIOUS
    <3> HIDE DEF new, rest
    <3>6. /\ IsFiniteSet(rest \cup {new})
          /\ Cardinality(rest \cup {new}) \in {Cardinality(rest), Cardinality(rest) + 1}
      BY <3>3, FS_AddElement
    <3>7. IsFiniteSet(saved') /\ Cardinality(saved') <= Cardinality(rest \cup {new})
      BY <3>2, <3>6, FS_Subset
    <3>8. Cardinality(saved') \in Nat BY <3>7, FS_CardinalityType
    <3>9. \A q, r \in saved' : q.buf = r.buf => q = r
      BY <3>2, <3>4, <3>5 DEF rest
    <3> QED BY <2>2, <3>3, <3>6, <3>7, <3>8, <3>9
  <2>5. CASE NewBuffer(d, drop)
    <3>1. PICK b \in Buffers \ Live : saved' = Without(drop) \cup {[buf |-> b, dim |-> d]}
      BY <2>5 DEF NewBuffer
    <3> DEFINE new == [buf |-> b, dim |-> d]
               rest == saved \ Free
    <3>2. saved' = rest \cup {new} BY <2>5, <3>1 DEF NewBuffer, Without
    <3>3. \A q \in rest : q.buf # b BY <3>1 DEF Live
    <3>4. new.buf = b OBVIOUS
    <3>5. IsFiniteSet(rest) /\ Cardinality(rest) <= 2 BY TwoInUse
    <3>6. \A q, r \in rest : q.buf = r.buf => q = r OBVIOUS
    <3> HIDE DEF new, rest
    <3>7. Cardinality(rest) \in Nat BY <3>5, FS_CardinalityType
    <3>8. /\ IsFiniteSet(saved')
          /\ Cardinality(saved') \in {Cardinality(rest), Cardinality(rest) + 1}
      BY <3>2, <3>5, FS_AddElement
    <3>9. \A q, r \in saved' : q.buf = r.buf => q = r BY <3>2, <3>3, <3>4, <3>6
    <3> QED BY <3>5, <3>7, <3>8, <3>9
  <2> QED BY <2>1, <2>3, <2>4, <2>5
<1>2. CASE FillPixels BY <1>2 DEF FillPixels
<1>3. CASE ReadFails BY <1>3 DEF ReadFails
<1>4. CASE enqueuePixels BY <1>4 DEF enqueuePixels
<1>5. CASE PostUpload BY <1>5 DEF PostUpload
<1>6. CASE StartUpload BY <1>6 DEF StartUpload
<1>7. CASE getLatestPixels BY <1>7 DEF getLatestPixels, IllegalState, Return
<1>8. CASE ShowPixels BY <1>8 DEF ShowPixels
<1>9. CASE ShowFails BY <1>9 DEF ShowFails
<1>10. CASE doneWithPixels BY <1>10 DEF doneWithPixels, IllegalState, Return
<1>11. CASE skipLatestPixels BY <1>11 DEF skipLatestPixels, IllegalState, Return
<1>12. CASE CloseView BY <1>12 DEF CloseView
<1>13. CASE UNCHANGED vars BY <1>13 DEF vars
<1> QED BY <1>1, <1>2, <1>3, <1>4, <1>5, <1>6, <1>7, <1>8, <1>9, <1>10, <1>11, <1>12,
       <1>13 DEF Next, Painter, Consumer

\* The frames stay in order.
LEMMA FramesStep ==
  ASSUME TypeOK, Threads, HeldUnused, FramesInOrder, [Next]_vars
  PROVE  FramesInOrder'
<1> USE DEF FramesInOrder, ContentOf, TypeOK, Threads, NeverIllegalState, HeldUnused,
           usesSameBuffer, Pixels, vars, sourceVars, painterVars, consumerVars, viewVars
<1>1. ASSUME NEW d \in Dims, getUnusedPixels(d) PROVE FramesInOrder'
  BY <1>1, NoneIsNone DEF getUnusedPixels, SamePixels, ReusedBuffer, NewBuffer,
     Without, Free, InUse, usesSameBuffer, Live
<1>2. CASE FillPixels BY <1>2, NoneIsNone DEF FillPixels
<1>3. CASE ReadFails BY <1>3, NoneIsNone DEF ReadFails
<1>4. CASE enqueuePixels BY <1>4, NoneIsNone DEF enqueuePixels
<1>5. CASE PostUpload BY <1>5, NoneIsNone DEF PostUpload
<1>6. CASE StartUpload BY <1>6, NoneIsNone DEF StartUpload
<1>7. CASE getLatestPixels
  BY <1>7, NoneIsNone DEF getLatestPixels, IllegalState, Return
<1>8. CASE ShowPixels BY <1>8, NoneIsNone DEF ShowPixels
<1>9. CASE ShowFails BY <1>9, NoneIsNone DEF ShowFails
<1>10. CASE doneWithPixels
  BY <1>10, NoneIsNone DEF doneWithPixels, IllegalState, Return
<1>11. CASE skipLatestPixels
  BY <1>11, NoneIsNone DEF skipLatestPixels, IllegalState, Return
<1>12. CASE CloseView BY <1>12, NoneIsNone DEF CloseView
<1>13. CASE UNCHANGED vars BY <1>13, NoneIsNone DEF vars
<1> QED BY <1>1, <1>2, <1>3, <1>4, <1>5, <1>6, <1>7, <1>8, <1>9, <1>10, <1>11, <1>12,
       <1>13 DEF Next, Painter, Consumer

\* The invariant holds initially ...
LEMMA InitSource == Init => SourceInv
<1> SUFFICES ASSUME Init PROVE SourceInv
  OBVIOUS
<1>1. TypeOK
  <2>1. capacity \in [Buffers -> Nat] /\ content \in [Buffers -> Nat] BY DEF Init
  <2>2. frame \in 0..MaxFrames BY MaxFramesNat DEF Init
  <2> QED BY <2>1, <2>2 DEF Init, TypeOK
<1>2. Threads BY DEF Init, Threads, NeverIllegalState, EnqueuedIsFetched
<1>3. HeldUnused BY DEF Init, HeldUnused
<1>4. SavedDistinct BY FS_EmptySet DEF Init, SavedDistinct, AtMostThree
<1>5. FramesInOrder BY DEF Init, FramesInOrder
<1> QED BY <1>1, <1>2, <1>3, <1>4, <1>5 DEF SourceInv

\* ... and every step of painter, consumer and view preserves it.
LEMMA SourceStep == SourceInv /\ [Next]_vars => SourceInv'
BY TypeStep, ThreadsStep, HeldStep, SavedStep, FramesStep DEF SourceInv

\* The class never throws, keeps at most three Pixels and leaves no frame in
\* its queue that nobody will fetch, for any number of buffers and frames.
THEOREM SourceSafe ==
  Spec => [](AtMostThree /\ NeverIllegalState /\ EnqueuedIsFetched)
<1>1. SourceInv => AtMostThree /\ NeverIllegalState /\ EnqueuedIsFetched
  BY DEF SourceInv, SavedDistinct, Threads
<1> QED BY <1>1, InitSource, SourceStep, PTL DEF Spec

\* The painter never writes into a buffer that waits or is being uploaded.
THEOREM WritesUnused == Spec => WritesUnusedOnly
<1> DEFINE Safe == \A b \in Buffers : content'[b] # content[b] =>
                     \A p \in {beingConsumed, enqueued} \ {None} : p.buf # b
<1>1. SourceInv /\ [Next]_vars => [Safe]_vars
  <2> SUFFICES ASSUME SourceInv, Next, NEW b \in Buffers, content'[b] # content[b]
               PROVE  \A p \in {beingConsumed, enqueued} \ {None} : p.buf # b
    OBVIOUS
  <2>1. content' = content \/ (rtpc = "fill" /\ b = held.buf)
    <3>1. content \in [Buffers -> Nat] BY DEF SourceInv, TypeOK
    <3> QED BY <3>1 DEF Next, Painter, Consumer, getUnusedPixels, FillPixels, ReadFails,
                        enqueuePixels, PostUpload, StartUpload, getLatestPixels, ShowPixels,
                        ShowFails, doneWithPixels, skipLatestPixels, CloseView, painterVars
  <2> QED BY <2>1 DEF SourceInv, Threads, HeldUnused, usesSameBuffer
<1> QED BY <1>1, InitSource, SourceStep, PTL DEF Spec, WritesUnusedOnly

\* Every step is a step of the mailbox, or leaves it alone.
LEMMA MailboxStep ==
  ASSUME SourceInv, [Next]_vars
  PROVE  (Mailbox!LFNext \/ UNCHANGED Mailbox!lfVars)
<1> USE DEF SourceInv, TypeOK, Pixels, Threads, NeverIllegalState, HeldUnused,
           usesSameBuffer, FramesInOrder, ContentOf, Mailbox!LFNext, Mailbox!Publish,
           Mailbox!Take, Mailbox!Show, Mailbox!Release, Mailbox!Skip, Mailbox!lfVars, vars,
           sourceVars, painterVars, consumerVars, viewVars
<1>1. ASSUME NEW d \in Dims, getUnusedPixels(d) PROVE (Mailbox!LFNext \/ UNCHANGED Mailbox!lfVars)
  BY <1>1, NoneIsNone DEF getUnusedPixels, SamePixels, ReusedBuffer, NewBuffer,
     Without, Free, InUse, usesSameBuffer, Live
<1>2. CASE FillPixels BY <1>2, NoneIsNone DEF FillPixels
<1>3. CASE ReadFails BY <1>3, NoneIsNone DEF ReadFails
<1>4. CASE enqueuePixels BY <1>4, NoneIsNone DEF enqueuePixels
<1>5. CASE PostUpload BY <1>5, NoneIsNone DEF PostUpload
<1>6. CASE StartUpload BY <1>6, NoneIsNone DEF StartUpload
<1>7. CASE getLatestPixels
  BY <1>7, NoneIsNone DEF getLatestPixels, IllegalState, Return
<1>8. CASE ShowPixels BY <1>8, NoneIsNone DEF ShowPixels
<1>9. CASE ShowFails BY <1>9, NoneIsNone DEF ShowFails
<1>10. CASE doneWithPixels
  BY <1>10, NoneIsNone DEF doneWithPixels, IllegalState, Return
<1>11. CASE skipLatestPixels
  BY <1>11, NoneIsNone DEF skipLatestPixels, IllegalState, Return
<1>12. CASE CloseView BY <1>12, NoneIsNone DEF CloseView
<1>13. CASE UNCHANGED vars BY <1>13, NoneIsNone DEF vars
<1> QED BY <1>1, <1>2, <1>3, <1>4, <1>5, <1>6, <1>7, <1>8, <1>9, <1>10, <1>11, <1>12,
       <1>13 DEF Next, Painter, Consumer

\* The source implements the mailbox for the latest frame: a frame that waits or
\* is being shown is never changed, and the screen never goes back.
THEOREM SourceIsLatestFrame == Spec => IsLatestFrame
<1>1. Init => Mailbox!LFInit BY DEF Init, Mailbox!LFInit, ContentOf
<1>2. SourceInv /\ [Next]_vars => [Mailbox!LFNext]_Mailbox!lfVars BY MailboxStep
<1> QED BY <1>1, <1>2, InitSource, SourceStep, PTL DEF Spec, IsLatestFrame, Mailbox!LFSpec

\* The class keeps all it is built to keep: types, three Pixels at most, no
\* exception and no frame left behind.
THEOREM SourceStaysConsistent == Spec => []SourceConsistent
<1>1. SourceInv => TypeOK BY DEF SourceInv
<1>2. TypeOK /\ AtMostThree /\ NeverIllegalState /\ EnqueuedIsFetched
        => SourceConsistent
  BY DEF SourceConsistent
<1> QED BY <1>1, <1>2, InitSource, SourceStep, SourceSafe, PTL DEF Spec
=============================================================================
