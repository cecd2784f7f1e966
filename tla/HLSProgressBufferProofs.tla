----------------------- MODULE HLSProgressBufferProofs -----------------------
(***************************************************************************)
(* The ring of caches of HLSProgressBuffer, proved for every length of the *)
(* ring and of the playlist, any number of seeks and any failures: blocks  *)
(* come in order, the writer owns its cache, and EOS comes last.           *)
(*                                                                         *)
(* The ring is described by what neighbouring caches hold: a full cache is *)
(* followed by the next segment, until the last cache that was claimed.    *)
(***************************************************************************)
EXTENDS HLSProgressBuffer, SequenceTheorems, TLAPS

Places == {"top", "segment", "push", "read", "chain", "eos", "end"}
          \cup InElement

\* TypeOK in parts.
SourceTypes ==
    /\ source_result \in FlowReturn /\ ret \in FlowReturn
    /\ pending_event \in {"NEWSEGMENT", "EOS", "UNKNOWN"}
    /\ source_task \in {"started", "paused", "stopped"}
    /\ spc \in Places
    /\ mediaFileIndex \in Nat /\ offset \in 0..SegmentSize
    /\ pending_event = "UNKNOWN" \/ spc = "push" =>
           mediaFileIndex \in 1..SegmentCount
    /\ spc \in {"chain", "write"} => offset > 0
RingTypes ==
    /\ cache \in [Slots -> Cache]
    /\ cache_size \in [Slots -> 0..SegmentSize]
    /\ cache_write_index \in Slots \cup {-1} /\ cache_read_index \in Slots
    /\ buffer \in 0..Total
ReaderTypes ==
    /\ srcresult \in FlowReturn /\ task \in {"started", "paused", "stopped"}
    /\ rpc \in {"top", "wait", "woken", "push", "end"}
    /\ next \in Nat /\ announced \in Nat
AppTypes ==
    /\ kpc \in {"idle", "flush", "empty", "pause", "paused", "lock",
                "resume", "deactivate", "join", "drain", "stop", "closed"}
    /\ seeks \in 0..MaxSeeks
Flags ==
    /\ cache_write_ready \in [Slots -> BOOLEAN]
    /\ send_new_segment \in BOOLEAN /\ is_flushing \in BOOLEAN
    /\ is_eos \in BOOLEAN /\ sinkFlushing \in BOOLEAN
    /\ srcFlushing \in BOOLEAN /\ ended \in BOOLEAN
    /\ overtaken \in BOOLEAN /\ failed \in BOOLEAN
Typed == SourceTypes /\ RingTypes /\ ReaderTypes /\ AppTypes /\ Flags

\* The open segment has no cache yet, or there is none.
Ahead == spc \in {"push", "restart", "announce", "prepare", "full", "wait",
                  "woken"}
         \/ pending_event = "EOS"

Open == kpc \in {"idle", "flush"}
Emptied == kpc \in {"pause", "paused", "lock", "resume"}

\* Where the source thread is says what it is about to push; it runs with a
\* result of OK until a seek stops it.
SourceFlow ==
    /\ spc \in {"segment", "push"} => pending_event = "NEWSEGMENT"
    /\ spc \in {"restart", "announce", "prepare", "full", "wait", "woken",
                "read", "chain", "write"} => pending_event = "UNKNOWN"
    /\ spc \in {"eos", "end_of_stream"} => pending_event = "EOS"
    /\ spc \in {"announce", "prepare", "full", "wait", "woken", "write"} =>
           ~is_eos
    /\ Ahead => offset = 0
    /\ source_result # "OK" =>
           SourceParked \/ kpc \in {"lock", "stop", "closed"}
    /\ kpc = "lock" => source_result # "OK"
    /\ kpc = "resume" =>
           SourceParked /\ source_result = "OK" /\ pending_event = "NEWSEGMENT"
    /\ pending_event = "EOS" /\ ~failed => mediaFileIndex > SegmentCount

\* The pads flush from the first event of a seek to its last.
Pads ==
    /\ srcFlushing <=> ~Open
    /\ kpc \in {"flush", "empty"} \/ Emptied => is_flushing /\ sinkFlushing
    /\ kpc = "empty" => announced = 0
    /\ ended => Open \/ Closing
    /\ Open /\ ended => srcresult # "OK"

\* A flushed ring stays empty, although a thread that the flush has overtaken
\* may claim a cache of it.
EmptyRing ==
    /\ cache_read_index = 0
    /\ \A i \in Slots : cache[i].data = <<>> /\ cache[i].read = 0
    /\ \/ cache_write_index = -1 /\ \A i \in Slots : cache_write_ready[i]
       \/ cache_write_index = 0 /\ ~cache_write_ready[0] /\ overtaken
Flushed ==
    Emptied =>
        /\ announced = 0 /\ EmptyRing
        /\ spc \in PastTheTest => overtaken /\ cache_write_index = -1
        /\ spc = "woken" => srcresult # "OK"
        /\ kpc \in {"lock", "resume"} => rpc # "push"
        /\ kpc \in {"lock", "resume"} /\ ~ReaderParked =>
               ~is_eos /\ spc \in {"announce", "prepare", "end", "top"}

\* The source thread will not come back before a seek.
Stopped ==
    pending_event = "UNKNOWN" /\ (\/ spc = "end" /\ ret # "OK"
                                  \/ spc = "top" /\ source_task # "started")

\* Until the first segment after a flush is announced, the ring is empty.
Unannounced ==
    Open /\ send_new_segment =>
        /\ announced = 0 /\ EmptyRing /\ rpc # "push"
        /\ pending_event = "UNKNOWN" =>
               spc \in {"restart", "announce"} \/ Stopped
        /\ is_eos => ReaderParked \/ pending_event = "EOS"
        /\ srcresult # "OK" => pending_event = "EOS"

\* Afterwards the reader goes on until a push fails or the stream has ended.
Announced ==
    Open /\ ~send_new_segment =>
        /\ announced > 0
        /\ is_eos => pending_event = "EOS"
        /\ srcresult # "OK" => rpc # "push" /\ (failed \/ pending_event = "EOS")

-----------------------------------------------------------------------------
(* The ring behind an announced segment.                                   *)

Held(i) == ~cache_write_ready[i]
Data(i) == cache[i].data
Hungry == spc \in {"full", "wait", "woken"}

\* The cache claimed last; a writer that waits for the next one has moved the
\* index already.
Last(i) == IF Hungry THEN Following(i) = cache_write_index
           ELSE i = cache_write_index

\* The blocks of the open segment in its cache.
Written == IF spc \in {"chain", "write"} THEN offset - 1 ELSE offset

\* What downstream will expect when the reader is back from its push.
Place == IF rpc = "push" THEN next + 1 ELSE next

SlotsFilled ==
    \A i \in Slots :
        IF Held(i)
        THEN /\ cache_size[i] = SegmentSize /\ Len(Data(i)) <= SegmentSize
             /\ cache[i].read <= Len(Data(i)) /\ cache[i].read < SegmentSize
             /\ i # cache_read_index => cache[i].read = 0
             /\ \A k \in 1..Len(Data(i)) : Data(i)[k] = Data(i)[1] + k - 1
        ELSE cache[i].read = Len(Data(i))

Linked ==
    /\ \A i \in Slots : Held(i) /\ ~Last(i) =>
           /\ Held(Following(i)) /\ Following(i) # cache_read_index
           /\ Len(Data(i)) = SegmentSize
           /\ Data(Following(i)) # <<>> =>
                  Data(Following(i))[1] = Data(i)[1] + SegmentSize
    /\ \A i \in Slots : Held(Following(i)) /\ Following(i) # cache_read_index =>
           Held(i) /\ ~Last(i)
    /\ \A i \in Slots : Last(i) => (Held(i) <=> Held(cache_read_index))
    /\ cache_write_index = -1 => ~Hungry /\ \A i \in Slots : ~Held(i)
    /\ ~Held(cache_read_index) =>
           cache_read_index = IF Hungry THEN cache_write_index
                              ELSE Following(cache_write_index)

\* The writer fills the cache at its index, behind the segment before.
WriterAt ==
    ~Stopped /\ ~Ahead =>
        /\ cache_write_index \in Slots
        /\ IF Held(cache_write_index)
           THEN /\ Len(Data(cache_write_index)) = Written
                /\ \A k \in 1..Written : Data(cache_write_index)[k] =
                                          FirstBlock(mediaFileIndex) + k - 1
           ELSE Written = SegmentSize
        /\ \A i \in Slots :
               Held(i) /\ ~Last(i) /\ Following(i) = cache_write_index =>
               Data(i)[1] + SegmentSize = FirstBlock(mediaFileIndex)
        /\ pending_event = "NEWSEGMENT" => offset = SegmentSize
WriterAhead ==
    ~Stopped /\ Ahead =>
        \A i \in Slots : Last(i) /\ Held(i) =>
            /\ Len(Data(i)) = SegmentSize
            /\ Data(i)[1] + SegmentSize = FirstBlock(mediaFileIndex)

\* The reader stands where downstream is.
ReaderAt ==
    LET r == cache_read_index
    IN  /\ rpc = "push" => buffer = next
        /\ Held(r) /\ Data(r) # <<>> => Place = Data(r)[1] + cache[r].read
        /\ Held(r) /\ ~Stopped /\ ~Ahead /\ r = cache_write_index =>
               Place = FirstBlock(mediaFileIndex) + cache[r].read
        /\ ~Held(r) /\ ~Stopped =>
               Place = IF Ahead THEN FirstBlock(mediaFileIndex)
                       ELSE FirstBlock(mediaFileIndex) + SegmentSize

Ordered == SlotsFilled /\ Linked /\ WriterAt /\ WriterAhead /\ ReaderAt

\* The overtaken thread has left an empty cache at the reader's turn, which
\* nobody will fill: nothing is pushed any more.
Blocked ==
    /\ overtaken /\ rpc # "push" /\ cache_write_index \in Slots
    /\ Held(cache_read_index) /\ Data(cache_read_index) = <<>>
    /\ cache[cache_read_index].read = 0
    /\ cache_write_index = cache_read_index => Ahead \/ Stopped

Delivering ==
    Open /\ ~send_new_segment /\ srcresult = "OK" => Ordered \/ Blocked

\* The writer that has passed its test, up to the flush of the ring.
Writing ==
    spc = "write" /\ ~overtaken /\ ~failed /\ (Open \/ kpc = "empty") =>
        /\ cache_write_index \in Slots /\ Held(cache_write_index)
        /\ cache_size[cache_write_index] = SegmentSize
        /\ cache[cache_write_index].read <= offset - 1
        /\ Data(cache_write_index) =
               [b \in 1..(offset - 1) |-> FirstBlock(mediaFileIndex) + b - 1]

EndLast == ended /\ Open /\ announced > 0 /\ ~overtaken /\ ~failed =>
               next > Total

IndInv == Typed /\ SourceFlow /\ Pads /\ Flushed /\ Unannounced /\ Announced
          /\ Delivering /\ Writing /\ EndLast

-----------------------------------------------------------------------------
(* The arithmetic of the ring and of the playlist.                         *)

LEMMA FollowingRange ==
    ASSUME NEW i \in Slots
    PROVE  /\ Following(i) = IF i = NUM_OF_CACHED_SEGMENTS - 1 THEN 0 ELSE i + 1
           /\ Following(i) \in Slots
<1> USE RingAssumption DEF Slots, Following
<1>1. CASE i = NUM_OF_CACHED_SEGMENTS - 1
  BY <1>1
<1>2. CASE i # NUM_OF_CACHED_SEGMENTS - 1
  <2>1. i + 1 \in 0..(NUM_OF_CACHED_SEGMENTS - 1)
    BY <1>2
  <2>2. QED
    BY <2>1, <1>2
<1>3. QED
  BY <1>1, <1>2

LEMMA FollowingFirst == Following(-1) = 0 /\ 0 \in Slots
BY RingAssumption DEF Following, Slots

\* A cache follows one cache only.
LEMMA FollowingInjective ==
    ASSUME NEW i \in Slots, NEW j \in Slots, Following(i) = Following(j)
    PROVE  i = j
BY FollowingRange, RingAssumption DEF Slots

LEMMA SegmentsAdjoin ==
    ASSUME NEW m \in Nat
    PROVE  /\ FirstBlock(m) \in Int
           /\ FirstBlock(m + 1) = FirstBlock(m) + SegmentSize
<1> DEFINE s == SegmentSize
<1>1. s \in Nat
  BY PlaylistAssumption
<1>2. (m - 1) * s \in Int /\ m * s = (m - 1) * s + s
  BY <1>1
<1>3. (m + 1) - 1 = m
  OBVIOUS
<1>4. QED
  BY <1>1, <1>2, <1>3 DEF FirstBlock

\* The blocks of the playlist's segments are those of the stream.
LEMMA BlocksInStream ==
    ASSUME NEW m \in 1..SegmentCount, NEW o \in 1..SegmentSize
    PROVE  FirstBlock(m) + o - 1 \in 1..Total /\ FirstBlock(m) \in Nat
<1> DEFINE s == SegmentSize
           d == SegmentCount - m
           e == m - 1
<1>1. s \in Nat /\ d \in Nat /\ e \in Nat /\ m \in Int
  BY PlaylistAssumption
<1>2. e * s \in Nat /\ d * s \in Nat
  BY <1>1
<1>3. SegmentCount = e + 1 + d
  BY PlaylistAssumption
<1>4. (e + 1 + d) * s = e * s + s + d * s
  BY <1>1
<1>5. Total = e * s + s + d * s
  BY <1>3, <1>4 DEF Total
<1>6. FirstBlock(m) = e * s + 1
  BY DEF FirstBlock
<1> HIDE DEF s, d, e
<1>7. o \in 1..s
  BY DEF s
<1>8. QED
  BY <1>1, <1>2, <1>5, <1>6, <1>7

LEMMA BehindTheStream ==
    ASSUME NEW m \in Nat, m > SegmentCount
    PROVE  FirstBlock(m) > Total /\ Total \in Nat
<1> DEFINE s == SegmentSize
           d == m - 1 - SegmentCount
<1>1. s \in Nat /\ d \in Nat /\ SegmentCount \in Nat
  BY PlaylistAssumption
<1>2. d * s \in Nat /\ SegmentCount * s \in Nat
  BY <1>1
<1>3. m - 1 = SegmentCount + d
  BY <1>1
<1>4. (SegmentCount + d) * s = SegmentCount * s + d * s
  BY <1>1
<1>5. FirstBlock(m) = SegmentCount * s + d * s + 1
  BY <1>3, <1>4 DEF FirstBlock
<1>6. Total = SegmentCount * s
  BY DEF Total
<1> HIDE DEF s, d
<1>7. QED
  BY <1>2, <1>5, <1>6

-----------------------------------------------------------------------------
(* The types.                                                              *)

LEMMA TypedInit == Init => Typed
<1> SUFFICES ASSUME Init PROVE Typed
  OBVIOUS
<1> USE RingAssumption, PlaylistAssumption, HlsBounds DEF Init
<1>1. SourceTypes
  BY DEF SourceInit, SourceTypes, FlowReturn, Places
<1>2. RingTypes
  <2>1. EmptyCache \in Cache
    BY EmptySeq DEF EmptyCache, Cache
  <2>2. Total \in Nat
    BY DEF Total
  <2>3. QED
    BY <2>1, <2>2 DEF RingTypes, Slots
<1>3. ReaderTypes
  BY DEF ReaderTypes, FlowReturn
<1>4. AppTypes
  BY DEF AppTypes
<1>5. Flags
  BY DEF Flags
<1>6. QED
  BY <1>1, <1>2, <1>3, <1>4, <1>5 DEF Typed

LEMMA TypedTypeOK == Typed => TypeOK
BY DEF Typed, TypeOK, SourceTypeOK, SourceTypes, RingTypes, ReaderTypes,
       AppTypes, Flags, Places

LEMMA SourceTypesStep == SourceTypes /\ SourceFlow /\ [Next]_vars =>
   SourceTypes'
<1> SUFFICES ASSUME SourceTypes, SourceFlow, [Next]_vars PROVE SourceTypes'
  OBVIOUS
<1> USE PlaylistAssumption
<1> USE DEF SourceTypes, Places, InElement, FlowReturn, sourceVars, ringVars,
   readerVars, padVars, connectionVars, flagVars, appVars, faultVars,
   downstreamVars
<1>1. CASE SourceSteps
  BY <1>1 DEF SourceSteps, SourceLoop, SourceLoopEnd
<1>2. CASE loadNextSegment
  BY <1>2 DEF loadNextSegment, SourceFlow
<1>3. CASE PushSegment
  BY <1>3 DEF PushSegment, SourceFlow
<1>4. CASE AnnounceSegment
  BY <1>4 DEF AnnounceSegment
<1>5. CASE PrepareCache
  BY <1>5 DEF PrepareCache, ClaimCache
<1>6. CASE WakeForCache
  BY <1>6 DEF WakeForCache, ClaimCache
<1>7. CASE ReadNextBlock
  BY <1>7 DEF ReadNextBlock, SourceFlow
<1>8. CASE ChainCheck
  BY <1>8 DEF ChainCheck
<1>9. CASE ChainWrite
  BY <1>9 DEF ChainWrite, SignalAdd
<1>10. CASE PushEos
  BY <1>10 DEF PushEos
<1>11. CASE ReceiveEos
  BY <1>11 DEF ReceiveEos, SignalAdd
<1>12. CASE ReaderLoop
  BY <1>12 DEF ReaderLoop, ReadBlock, SignalDel, cache_has_enough_data
<1>13. CASE CloseRing
  BY <1>13 DEF CloseRing, flush_data, SignalAdd, SignalDel
<1>14. CASE FlushRing
  BY <1>14 DEF FlushRing, flush_data, SignalAdd, SignalDel
<1>15. CASE StopSource
  BY <1>15 DEF StopSource, SourceGivesUp
<1>16. CASE SeekData
  BY <1>16 DEF SeekData, SourceSeeks, SourceParked, SourceFlow
<1>17. CASE FlushStop
  BY <1>17 DEF FlushStop, SourceRestarts
<1>18. CASE DeactivateSrc
  BY <1>18 DEF DeactivateSrc, SignalAdd, SignalDel
<1>19. CASE CloseSource
  BY <1>19 DEF CloseSource, SourceStops
<1>20. CASE Restart \/ PostFull \/ PushBlock \/ PauseAtError \/ FlushStart \/
   ForwardFlush \/ PauseReader \/ DeactivateSink \/ Closed \/ UNCHANGED vars
  BY <1>20 DEF vars, Restart, PostFull, PushBlock, PauseAtError, FlushStart,
     ForwardFlush, PauseReader, DeactivateSink, Closed
<1>21. QED
  BY <1>1, <1>2, <1>3, <1>4, <1>5, <1>6, <1>7, <1>8, <1>9, <1>10, <1>11,
     <1>12, <1>13, <1>14, <1>15, <1>16, <1>17, <1>18, <1>19, <1>20 DEF Next,
     Source, Reader, Begin, Proceed

LEMMA RingTypesStep == SourceTypes /\ RingTypes /\ SourceFlow /\ [Next]_vars
   => RingTypes'
<1> SUFFICES ASSUME SourceTypes, RingTypes, SourceFlow, [Next]_vars PROVE
   RingTypes'
  OBVIOUS
<1> USE DEF sourceVars, ringVars, readerVars, padVars, connectionVars,
   flagVars, appVars, faultVars, downstreamVars
<1>1. CASE PrepareCache
  <2>1. Following(cache_write_index) \in Slots
    BY FollowingRange, FollowingFirst DEF RingTypes
  <2>2. EmptyCache \in Cache
    BY EmptySeq DEF EmptyCache, Cache
  <2>3. QED
    BY <1>1, <2>1, <2>2, PlaylistAssumption DEF PrepareCache, ClaimCache,
       RingTypes
<1>2. CASE WakeForCache
  <2>1. EmptyCache \in Cache
    BY EmptySeq DEF EmptyCache, Cache
  <2>2. QED
    BY <1>2, <2>1, PlaylistAssumption DEF WakeForCache, ClaimCache, RingTypes
<1>3. CASE ChainWrite
  <2> DEFINE w == cache_write_index
             b == FirstBlock(mediaFileIndex) + offset - 1
  <2>1. CASE w \in Slots
    <3>1. b \in 1..Total
      BY <1>3, BlocksInStream DEF ChainWrite, SourceTypes, SourceFlow
    <3> HIDE DEF b
    <3>2. cache[w] \in Cache /\ cache[w].data \in Seq(1..Total)
      BY <2>1 DEF RingTypes, Cache
    <3>3. Append(cache[w].data, b) \in Seq(1..Total)
      BY <3>1, <3>2, AppendProperties
    <3>4. [cache[w] EXCEPT !.data = Append(cache[w].data, b)] \in Cache
      BY <3>2, <3>3 DEF Cache
    <3>5. cache' = [cache EXCEPT ![w] =
                         [cache[w] EXCEPT !.data = Append(cache[w].data, b)]]
      BY <1>3, <2>1 DEF ChainWrite, RingTypes, b
    <3>6. QED
      BY <1>3, <2>1, <3>4, <3>5 DEF ChainWrite, RingTypes
  <2>2. CASE w \notin Slots
    BY <1>3, <2>2 DEF ChainWrite, RingTypes
  <2>3. QED
    BY <2>1, <2>2
<1>4. CASE ReaderLoop
  <2> DEFINE r == cache_read_index
             c == cache[r]
  <2>1. CASE ReadBlock /\ cache_has_enough_data(c)
    <3>1. c \in Cache /\ c.data \in Seq(1..Total) /\ c.read \in Nat
          /\ Total \in Nat /\ r \in Slots
      BY PlaylistAssumption DEF RingTypes, Cache, Total
    <3>2. c.read < Len(c.data)
      BY <2>1 DEF cache_has_enough_data
    <3>3. c.data[c.read + 1] \in 1..Total
      <4>1. c.read + 1 \in 1..Len(c.data)
        BY <3>1, <3>2, LenProperties
      <4>2. QED
        BY <3>1, <4>1, ElementOfSeq
    <3>4. [c EXCEPT !.read = c.read + 1] \in Cache
      BY <3>1 DEF Cache
    <3>5. cache' = [cache EXCEPT ![r] = [c EXCEPT !.read = c.read + 1]]
      BY <2>1, <3>1 DEF ReadBlock, RingTypes
    <3>6. cache' \in [Slots -> Cache]
      BY <3>1, <3>4, <3>5 DEF RingTypes
    <3>7. buffer' \in 0..Total
      BY <2>1, <3>1, <3>3 DEF ReadBlock
    <3>8. cache_read_index' \in Slots
      BY <2>1, <3>1, FollowingRange DEF ReadBlock
    <3>9. QED
      BY <1>4, <3>6, <3>7, <3>8 DEF ReaderLoop, RingTypes
  <2>2. CASE UNCHANGED <<buffer, cache, cache_read_index>>
    BY <1>4, <2>2 DEF ReaderLoop, RingTypes
  <2>3. QED
    BY <1>4, <2>1, <2>2 DEF ReaderLoop
<1>5. CASE CloseRing
  <2>1. EmptyCache \in Cache
    BY EmptySeq DEF EmptyCache, Cache
  <2>2. QED
    BY <1>5, <2>1, FollowingFirst, PlaylistAssumption
       DEF CloseRing, flush_data, RingTypes
<1>6. CASE FlushRing
  <2>1. EmptyCache \in Cache
    BY EmptySeq DEF EmptyCache, Cache
  <2>2. QED
    BY <1>6, <2>1, FollowingFirst, PlaylistAssumption
       DEF FlushRing, flush_data, RingTypes
<1>7. CASE SourceSteps \/ loadNextSegment \/ PushSegment \/ Restart \/
   AnnounceSegment \/ PostFull \/ ReadNextBlock \/ ChainCheck \/ PushEos \/
   ReceiveEos \/ PushBlock \/ PauseAtError \/ FlushStart \/ ForwardFlush \/
   PauseReader \/ StopSource \/ SeekData \/ FlushStop \/ DeactivateSrc \/
   DeactivateSink \/ CloseSource \/ Closed \/ UNCHANGED vars
  BY <1>7 DEF vars, RingTypes, SourceSteps, SourceLoop, SourceLoopEnd,
     loadNextSegment, PushSegment, Restart, AnnounceSegment, PostFull,
     ReadNextBlock, ChainCheck, PushEos, ReceiveEos, SignalAdd, PushBlock,
     PauseAtError, FlushStart, ForwardFlush, PauseReader, StopSource,
     SourceGivesUp, SeekData, SourceSeeks, FlushStop, SourceRestarts,
     DeactivateSrc, SignalDel, DeactivateSink, CloseSource, SourceStops,
     Closed
<1>8. QED
  BY <1>1, <1>2, <1>3, <1>4, <1>5, <1>6, <1>7 DEF Next, Source, Reader, Begin,
     Proceed

LEMMA ReaderTypesStep == SourceTypes /\ RingTypes /\ ReaderTypes /\ SourceFlow
   /\ [Next]_vars => ReaderTypes'
<1> SUFFICES ASSUME SourceTypes, RingTypes, ReaderTypes, SourceFlow,
   [Next]_vars PROVE ReaderTypes'
  OBVIOUS
<1> USE DEF sourceVars, ringVars, readerVars, padVars, connectionVars,
   flagVars, appVars, faultVars, downstreamVars, ReaderTypes, FlowReturn
<1>1. CASE Restart
  BY <1>1 DEF Restart
<1>2. CASE AnnounceSegment
  <2>1. FirstBlock(mediaFileIndex) \in Nat
    BY <1>2, BlocksInStream, PlaylistAssumption
       DEF AnnounceSegment, SourceTypes, SourceFlow
  <2>2. QED
    BY <1>2, <2>1 DEF AnnounceSegment
<1>3. CASE ChainWrite
  BY <1>3 DEF ChainWrite, SignalAdd
<1>4. CASE ReceiveEos
  BY <1>4 DEF ReceiveEos, SignalAdd
<1>5. CASE ReaderLoop
  BY <1>5 DEF ReaderLoop, ReadBlock, SignalDel, cache_has_enough_data
<1>6. CASE PushBlock
  <2>1. buffer \in Nat
    BY PlaylistAssumption DEF RingTypes, Total
  <2>2. QED
    BY <1>6, <2>1 DEF PushBlock
<1>7. CASE PauseAtError
  BY <1>7 DEF PauseAtError
<1>8. CASE CloseRing
  BY <1>8 DEF CloseRing, flush_data, SignalAdd, SignalDel
<1>9. CASE FlushRing
  BY <1>9 DEF FlushRing, flush_data, SignalAdd, SignalDel
<1>10. CASE PauseReader
  BY <1>10 DEF PauseReader
<1>11. CASE FlushStop
  BY <1>11 DEF FlushStop, SourceRestarts
<1>12. CASE DeactivateSrc
  BY <1>12 DEF DeactivateSrc, SignalAdd, SignalDel
<1>13. CASE SourceSteps \/ loadNextSegment \/ PushSegment \/ PrepareCache \/
   PostFull \/ WakeForCache \/ ReadNextBlock \/ ChainCheck \/ PushEos \/
   FlushStart \/ ForwardFlush \/ StopSource \/ SeekData \/ DeactivateSink \/
   CloseSource \/ Closed \/ UNCHANGED vars
  BY <1>13 DEF vars, SourceSteps, SourceLoop, SourceLoopEnd, loadNextSegment,
     PushSegment, PrepareCache, ClaimCache, PostFull, WakeForCache,
     ReadNextBlock, ChainCheck, PushEos, FlushStart, ForwardFlush, StopSource,
     SourceGivesUp, SeekData, SourceSeeks, DeactivateSink, CloseSource,
     SourceStops, Closed
<1>14. QED
  BY <1>1, <1>2, <1>3, <1>4, <1>5, <1>6, <1>7, <1>8, <1>9, <1>10, <1>11,
     <1>12, <1>13 DEF Next, Source, Reader, Begin, Proceed

LEMMA AppTypesStep == AppTypes /\ [Next]_vars => AppTypes'
<1> SUFFICES ASSUME AppTypes, [Next]_vars PROVE AppTypes'
  OBVIOUS
<1> USE HlsBounds
<1> USE DEF sourceVars, ringVars, readerVars, padVars, connectionVars,
   flagVars, appVars, faultVars, downstreamVars, AppTypes
<1>1. CASE FlushStart
  BY <1>1 DEF FlushStart
<1>2. CASE CloseRing
  BY <1>2 DEF CloseRing, flush_data, SignalAdd, SignalDel
<1>3. CASE ForwardFlush
  BY <1>3 DEF ForwardFlush
<1>4. CASE FlushRing
  BY <1>4 DEF FlushRing, flush_data, SignalAdd, SignalDel
<1>5. CASE PauseReader
  BY <1>5 DEF PauseReader
<1>6. CASE StopSource
  BY <1>6 DEF StopSource, SourceGivesUp
<1>7. CASE SeekData
  BY <1>7 DEF SeekData, SourceSeeks
<1>8. CASE FlushStop
  BY <1>8 DEF FlushStop, SourceRestarts
<1>9. CASE DeactivateSrc
  BY <1>9 DEF DeactivateSrc, SignalAdd, SignalDel
<1>10. CASE DeactivateSink
  BY <1>10 DEF DeactivateSink
<1>11. CASE CloseSource
  BY <1>11 DEF CloseSource, SourceStops
<1>12. CASE Closed
  BY <1>12 DEF Closed
<1>13. CASE SourceSteps \/ loadNextSegment \/ PushSegment \/ Restart \/
   AnnounceSegment \/ PrepareCache \/ PostFull \/ WakeForCache \/
   ReadNextBlock \/ ChainCheck \/ ChainWrite \/ PushEos \/ ReceiveEos \/
   ReaderLoop \/ PushBlock \/ PauseAtError \/ UNCHANGED vars
  BY <1>13 DEF vars, SourceSteps, SourceLoop, SourceLoopEnd, loadNextSegment,
     PushSegment, Restart, AnnounceSegment, PrepareCache, ClaimCache,
     PostFull, WakeForCache, ReadNextBlock, ChainCheck, ChainWrite, SignalAdd,
     PushEos, ReceiveEos, ReaderLoop, ReadBlock, SignalDel,
     cache_has_enough_data, PushBlock, PauseAtError
<1>14. QED
  BY <1>1, <1>2, <1>3, <1>4, <1>5, <1>6, <1>7, <1>8, <1>9, <1>10, <1>11,
     <1>12, <1>13 DEF Next, Source, Reader, Begin, Proceed

LEMMA FlagsStep == Flags /\ [Next]_vars => Flags'
<1> SUFFICES ASSUME Flags, [Next]_vars PROVE Flags'
  OBVIOUS
<1> USE DEF sourceVars, ringVars, readerVars, padVars, connectionVars,
   flagVars, appVars, faultVars, downstreamVars, Flags
<1>1. CASE loadNextSegment
  BY <1>1 DEF loadNextSegment
<1>2. CASE Restart
  BY <1>2 DEF Restart
<1>3. CASE AnnounceSegment
  BY <1>3 DEF AnnounceSegment
<1>4. CASE PrepareCache
  BY <1>4 DEF PrepareCache, ClaimCache
<1>5. CASE WakeForCache
  BY <1>5 DEF WakeForCache, ClaimCache
<1>6. CASE ReadNextBlock
  BY <1>6 DEF ReadNextBlock
<1>7. CASE ReceiveEos
  BY <1>7 DEF ReceiveEos, SignalAdd
<1>8. CASE ReaderLoop
  BY <1>8 DEF ReaderLoop, ReadBlock, SignalDel, cache_has_enough_data
<1>9. CASE PushBlock
  BY <1>9 DEF PushBlock
<1>10. CASE FlushStart
  BY <1>10 DEF FlushStart
<1>11. CASE CloseRing
  BY <1>11 DEF CloseRing, flush_data, SignalAdd, SignalDel
<1>12. CASE ForwardFlush
  BY <1>12 DEF ForwardFlush
<1>13. CASE FlushRing
  BY <1>13 DEF FlushRing, flush_data, SignalAdd, SignalDel
<1>14. CASE SeekData
  BY <1>14 DEF SeekData, SourceSeeks
<1>15. CASE FlushStop
  BY <1>15 DEF FlushStop, SourceRestarts
<1>16. CASE DeactivateSink
  BY <1>16 DEF DeactivateSink
<1>17. CASE SourceSteps \/ PushSegment \/ PostFull \/ ChainCheck \/ ChainWrite
   \/ PushEos \/ PauseAtError \/ PauseReader \/ StopSource \/ DeactivateSrc \/
   CloseSource \/ Closed \/ UNCHANGED vars
  BY <1>17 DEF vars, SourceSteps, SourceLoop, SourceLoopEnd, PushSegment,
     PostFull, ChainCheck, ChainWrite, SignalAdd, PushEos, PauseAtError,
     PauseReader, StopSource, SourceGivesUp, DeactivateSrc, SignalDel,
     CloseSource, SourceStops, Closed
<1>18. QED
  BY <1>1, <1>2, <1>3, <1>4, <1>5, <1>6, <1>7, <1>8, <1>9, <1>10, <1>11,
     <1>12, <1>13, <1>14, <1>15, <1>16, <1>17 DEF Next, Source, Reader, Begin,
     Proceed

LEMMA TypedStep == Typed /\ SourceFlow /\ [Next]_vars => Typed'
BY SourceTypesStep, RingTypesStep, ReaderTypesStep, AppTypesStep, FlagsStep
   DEF Typed

-----------------------------------------------------------------------------
(* The threads' positions.                                                 *)

LEMMA SourceFlowInit == Init => SourceFlow
BY DEF Init, SourceInit, SourceFlow, Ahead

LEMMA PadsInit == Init => Pads
BY DEF Init, Pads, Open, Emptied, Closing

LEMMA SourceFlowStep == SourceTypes /\ SourceFlow /\ [Next]_vars =>
   SourceFlow'
<1> SUFFICES ASSUME SourceTypes, SourceFlow, [Next]_vars PROVE SourceFlow'
  OBVIOUS
<1> USE PlaylistAssumption
<1> USE DEF SourceTypes, SourceFlow, Ahead, SourceParked, Places, InElement,
   sourceVars, ringVars, readerVars, padVars, connectionVars, flagVars,
   appVars, faultVars, downstreamVars
<1>1. CASE SourceSteps
  BY <1>1 DEF SourceSteps, SourceLoop, SourceLoopEnd
<1>2. CASE loadNextSegment
  <2>1. CASE spc' = "push"
    BY <1>2, <2>1 DEF loadNextSegment
  <2>2. CASE spc' # "push"
    <3>1. ~failed' => ~(mediaFileIndex < SegmentCount)
      BY <1>2, <2>2 DEF loadNextSegment
    <3>2. pending_event' = "EOS" /\ ~failed' => mediaFileIndex' > SegmentCount
      BY <1>2, <3>1 DEF loadNextSegment
    <3>3. QED
      BY <1>2, <2>2, <3>2 DEF loadNextSegment
  <2>3. QED
    BY <2>1, <2>2
<1>3. CASE PushSegment
  BY <1>3 DEF PushSegment
<1>4. CASE Restart
  BY <1>4 DEF Restart
<1>5. CASE AnnounceSegment
  BY <1>5 DEF AnnounceSegment
<1>6. CASE PrepareCache
  BY <1>6 DEF PrepareCache, ClaimCache
<1>7. CASE PostFull
  BY <1>7 DEF PostFull
<1>8. CASE WakeForCache
  BY <1>8 DEF WakeForCache, ClaimCache
<1>9. CASE ReadNextBlock
  BY <1>9 DEF ReadNextBlock
<1>10. CASE ChainCheck
  BY <1>10 DEF ChainCheck
<1>11. CASE ChainWrite
  BY <1>11 DEF ChainWrite, SignalAdd
<1>12. CASE PushEos
  BY <1>12 DEF PushEos
<1>13. CASE ReceiveEos
  BY <1>13 DEF ReceiveEos, SignalAdd
<1>14. CASE ReaderLoop
  BY <1>14 DEF ReaderLoop, ReadBlock, SignalDel, cache_has_enough_data
<1>15. CASE PushBlock
  <2>1. failed => failed'
    BY <1>15 DEF PushBlock
  <2>2. QED
    BY <1>15, <2>1 DEF PushBlock
<1>16. CASE PauseAtError
  BY <1>16 DEF PauseAtError
<1>17. CASE FlushStart
  BY <1>17 DEF FlushStart
<1>18. CASE CloseRing
  BY <1>18 DEF CloseRing, flush_data, SignalAdd, SignalDel
<1>19. CASE ForwardFlush
  BY <1>19 DEF ForwardFlush
<1>20. CASE FlushRing
  BY <1>20 DEF FlushRing, flush_data, SignalAdd, SignalDel
<1>21. CASE PauseReader
  BY <1>21 DEF PauseReader
<1>22. CASE StopSource
  BY <1>22 DEF StopSource, SourceGivesUp
<1>23. CASE SeekData
  BY <1>23 DEF SeekData, SourceSeeks
<1>24. CASE FlushStop
  BY <1>24 DEF FlushStop, SourceRestarts
<1>25. CASE DeactivateSrc
  BY <1>25 DEF DeactivateSrc, SignalAdd, SignalDel
<1>26. CASE DeactivateSink
  BY <1>26 DEF DeactivateSink
<1>27. CASE CloseSource
  BY <1>27 DEF CloseSource, SourceStops
<1>28. CASE Closed
  BY <1>28 DEF Closed
<1>29. CASE UNCHANGED vars
  BY <1>29 DEF vars
<1>30. QED
  BY <1>1, <1>2, <1>3, <1>4, <1>5, <1>6, <1>7, <1>8, <1>9, <1>10, <1>11,
     <1>12, <1>13, <1>14, <1>15, <1>16, <1>17, <1>18, <1>19, <1>20, <1>21,
     <1>22, <1>23, <1>24, <1>25, <1>26, <1>27, <1>28, <1>29 DEF Next, Source,
     Reader, Begin, Proceed

LEMMA PadsStep == AppTypes /\ Flags /\ SourceFlow /\ Pads /\ Unannounced /\
   Announced /\ [Next]_vars => Pads'
<1> SUFFICES ASSUME AppTypes, Flags, SourceFlow, Pads, Unannounced, Announced,
   [Next]_vars PROVE Pads'
  OBVIOUS
<1> USE DEF Pads, Open, Emptied, Closing, AppTypes, sourceVars, ringVars,
   readerVars, padVars, connectionVars, flagVars, appVars, faultVars,
   downstreamVars
<1>1. CASE Restart
  BY <1>1 DEF Restart, SourceFlow, Unannounced, Announced
<1>2. CASE AnnounceSegment
  BY <1>2 DEF AnnounceSegment
<1>3. CASE ReaderLoop
  <2>1. ended' => ended \/ (is_eos /\ ~srcFlushing /\ srcresult' = "WRONG_STATE")
    BY <1>3 DEF ReaderLoop, Flags
  <2>2. ended /\ srcresult # "OK" => srcresult' # "OK"
    BY <1>3 DEF ReaderLoop
  <2>3. QED
    BY <1>3, <2>1, <2>2 DEF ReaderLoop
<1>4. CASE PushBlock
  BY <1>4 DEF PushBlock
<1>5. CASE FlushStart
  BY <1>5 DEF FlushStart
<1>6. CASE CloseRing
  BY <1>6 DEF CloseRing, flush_data, SignalAdd, SignalDel
<1>7. CASE ForwardFlush
  BY <1>7 DEF ForwardFlush
<1>8. CASE FlushRing
  BY <1>8 DEF FlushRing, flush_data, SignalAdd, SignalDel
<1>9. CASE PauseReader
  BY <1>9 DEF PauseReader
<1>10. CASE StopSource
  BY <1>10 DEF StopSource, SourceGivesUp
<1>11. CASE SeekData
  BY <1>11 DEF SeekData, SourceSeeks
<1>12. CASE FlushStop
  BY <1>12 DEF FlushStop, SourceRestarts
<1>13. CASE DeactivateSrc
  BY <1>13 DEF DeactivateSrc, SignalAdd, SignalDel
<1>14. CASE DeactivateSink
  BY <1>14 DEF DeactivateSink
<1>15. CASE CloseSource
  BY <1>15 DEF CloseSource, SourceStops
<1>16. CASE Closed
  BY <1>16 DEF Closed
<1>17. CASE SourceSteps \/ loadNextSegment \/ PushSegment \/ PrepareCache \/
   PostFull \/ WakeForCache \/ ReadNextBlock \/ ChainCheck \/ ChainWrite \/
   PushEos \/ ReceiveEos \/ PauseAtError \/ UNCHANGED vars
  BY <1>17 DEF vars, SourceSteps, SourceLoop, SourceLoopEnd, loadNextSegment,
     PushSegment, PrepareCache, ClaimCache, PostFull, WakeForCache,
     ReadNextBlock, ChainCheck, ChainWrite, SignalAdd, PushEos, ReceiveEos,
     PauseAtError
<1>18. QED
  BY <1>1, <1>2, <1>3, <1>4, <1>5, <1>6, <1>7, <1>8, <1>9, <1>10, <1>11,
     <1>12, <1>13, <1>14, <1>15, <1>16, <1>17 DEF Next, Source, Reader, Begin,
     Proceed

-----------------------------------------------------------------------------
(* The flushed ring.                                                       *)

LEMMA EmptyRingKept ==
    ASSUME EmptyRing, UNCHANGED <<ringVars, overtaken>>
    PROVE  EmptyRing'
BY DEF EmptyRing, ringVars

\* There is nothing to read in an empty ring.
LEMMA NothingToRead ==
    ASSUME EmptyRing, ReaderLoop
    PROVE  /\ UNCHANGED <<spc, buffer, ringVars>> /\ rpc' # "push"
           /\ srcresult' # srcresult => is_eos
<1>1. cache[cache_read_index].data = <<>> /\ cache[cache_read_index].read = 0
  BY FollowingFirst DEF EmptyRing
<1>2. ~cache_has_enough_data(cache[cache_read_index])
  BY <1>1 DEF cache_has_enough_data
<1>3. QED
  BY <1>2 DEF ReaderLoop, ringVars

LEMMA EmptyRingInit == Init => EmptyRing
BY DEF Init, EmptyRing, EmptyCache, Slots

LEMMA FlushedRingIsEmpty == flush_data => EmptyRing'
BY DEF flush_data, EmptyRing, EmptyCache, Slots

LEMMA FlushedInit == Init => Flushed
BY DEF Init, Flushed, Emptied

LEMMA UnannouncedInit == Init => Unannounced
BY EmptyRingInit DEF Init, SourceInit, Unannounced, ReaderParked

LEMMA FlushedStep == SourceTypes /\ RingTypes /\ ReaderTypes /\ AppTypes /\
   Flags /\ SourceFlow /\ Pads /\ Flushed /\ [Next]_vars => Flushed'
<1> SUFFICES ASSUME SourceTypes, RingTypes, ReaderTypes, AppTypes, Flags,
   SourceFlow, Pads, Flushed, [Next]_vars PROVE Flushed'
  OBVIOUS
<1> USE DEF Flushed, PastTheTest, Emptied, ReaderParked, sourceVars, ringVars,
   readerVars, padVars, connectionVars, flagVars, appVars, faultVars,
   downstreamVars
<1>1. CASE SourceSteps
  <2>1. EmptyRing => EmptyRing'
    BY <1>1, EmptyRingKept DEF SourceSteps
  <2>2. QED
    BY <1>1, <2>1 DEF SourceSteps, SourceLoop, SourceLoopEnd, SourceFlow,
       SourceParked
<1>2. CASE loadNextSegment
  <2>1. EmptyRing => EmptyRing'
    BY <1>2, EmptyRingKept DEF loadNextSegment
  <2>2. QED
    BY <1>2, <2>1 DEF loadNextSegment
<1>3. CASE PushSegment
  <2>1. EmptyRing => EmptyRing'
    BY <1>3, EmptyRingKept DEF PushSegment
  <2>2. QED
    BY <1>3, <2>1 DEF PushSegment, Pads
<1>4. CASE Restart
  <2>1. EmptyRing => EmptyRing'
    BY <1>4, EmptyRingKept DEF Restart
  <2>2. QED
    BY <1>4, <2>1 DEF Restart
<1>5. CASE AnnounceSegment
  <2>1. EmptyRing => EmptyRing'
    BY <1>5, EmptyRingKept DEF AnnounceSegment
  <2>2. QED
    BY <1>5, <2>1 DEF AnnounceSegment, Pads, Open
<1>6. CASE PrepareCache
  <2> SUFFICES ASSUME Emptied PROVE Flushed'
    BY <1>6 DEF PrepareCache
  <2>1. cache_write_index = -1 /\ overtaken /\ EmptyRing
        /\ \A i \in Slots : cache_write_ready[i]
    BY <1>6 DEF PrepareCache, EmptyRing
  <2>2. cache_write_index' = 0 /\ 0 \in Slots
        /\ ClaimCache(0)
    BY <1>6, <2>1, FollowingFirst DEF PrepareCache
  <2>3. spc' = "end" /\ cache' = [cache EXCEPT ![0] = EmptyCache]
        /\ cache_write_ready' = [cache_write_ready EXCEPT ![0] = FALSE]
    BY <2>1, <2>2 DEF ClaimCache
  <2>4. EmptyRing'
    BY <1>6, <2>1, <2>2, <2>3
       DEF PrepareCache, EmptyRing, EmptyCache, RingTypes, Flags
  <2>5. QED
    BY <1>6, <2>3, <2>4 DEF PrepareCache
<1>7. CASE PostFull
  <2>1. EmptyRing => EmptyRing'
    BY <1>7, EmptyRingKept DEF PostFull
  <2>2. QED
    BY <1>7, <2>1 DEF PostFull
<1>8. CASE WakeForCache
  <2> SUFFICES ASSUME Emptied PROVE Flushed'
    BY <1>8 DEF WakeForCache
  <2>1. spc' = "end" /\ UNCHANGED <<ringVars, overtaken>>
    BY <1>8 DEF WakeForCache
  <2>2. EmptyRing'
    BY <2>1, EmptyRingKept
  <2>3. QED
    BY <1>8, <2>1, <2>2 DEF WakeForCache
<1>9. CASE ReadNextBlock
  <2>1. EmptyRing => EmptyRing'
    BY <1>9, EmptyRingKept DEF ReadNextBlock
  <2>2. QED
    BY <1>9, <2>1 DEF ReadNextBlock
<1>10. CASE ChainCheck
  <2>1. EmptyRing => EmptyRing'
    BY <1>10, EmptyRingKept DEF ChainCheck
  <2>2. QED
    BY <1>10, <2>1 DEF ChainCheck, Pads
<1>11. CASE ChainWrite
  <2> SUFFICES ASSUME Emptied PROVE Flushed'
    BY <1>11 DEF ChainWrite
  <2>1. cache_write_index = -1
    BY <1>11 DEF ChainWrite
  <2>2. UNCHANGED <<ringVars, overtaken>>
    BY <1>11, <2>1 DEF ChainWrite, Slots
  <2>3. EmptyRing'
    BY <2>2, EmptyRingKept
  <2>4. QED
    BY <1>11, <2>3 DEF ChainWrite, SignalAdd
<1>12. CASE PushEos
  <2>1. EmptyRing => EmptyRing'
    BY <1>12, EmptyRingKept DEF PushEos
  <2>2. QED
    BY <1>12, <2>1 DEF PushEos
<1>13. CASE ReceiveEos
  <2>1. EmptyRing => EmptyRing'
    BY <1>13, EmptyRingKept DEF ReceiveEos
  <2>2. QED
    BY <1>13, <2>1 DEF ReceiveEos, SignalAdd
<1>14. CASE ReaderLoop
  <2> SUFFICES ASSUME Emptied PROVE Flushed'
    BY <1>14 DEF ReaderLoop
  <2>1. UNCHANGED <<spc, ringVars>> /\ rpc' # "push"
        /\ (srcresult' # srcresult => is_eos)
    BY <1>14, NothingToRead
  <2>2. UNCHANGED overtaken
    BY <1>14 DEF ReaderLoop
  <2>3. EmptyRing'
    BY <2>1, <2>2, EmptyRingKept
  <2>4. srcresult # "OK" => srcresult' # "OK"
    BY <1>14 DEF ReaderLoop
  <2>5. ReaderParked => ReaderParked'
    BY <1>14 DEF ReaderLoop
  <2>6. QED
    BY <1>14, <2>1, <2>3, <2>4 DEF ReaderLoop
<1>15. CASE PushBlock
  <2>1. EmptyRing => EmptyRing'
    BY <1>15, EmptyRingKept DEF PushBlock
  <2>2. QED
    BY <1>15, <2>1 DEF PushBlock
<1>16. CASE PauseAtError
  <2>1. EmptyRing => EmptyRing'
    BY <1>16, EmptyRingKept DEF PauseAtError
  <2>2. QED
    BY <1>16, <2>1 DEF PauseAtError
<1>17. CASE FlushStart
  BY <1>17 DEF FlushStart
<1>18. CASE CloseRing
  BY <1>18 DEF CloseRing, flush_data, SignalAdd, SignalDel
<1>19. CASE ForwardFlush
  BY <1>19 DEF ForwardFlush
<1>20. CASE FlushRing
  <2>1. EmptyRing'
    BY <1>20, FlushedRingIsEmpty DEF FlushRing
  <2>2. announced = 0
    BY <1>20 DEF FlushRing, Pads
  <2>3. QED
    BY <1>20, <2>1, <2>2 DEF FlushRing, flush_data, SignalDel
<1>21. CASE PauseReader
  <2>1. EmptyRing => EmptyRing'
    BY <1>21, EmptyRingKept DEF PauseReader
  <2>2. QED
    BY <1>21, <2>1 DEF PauseReader
<1>22. CASE StopSource
  <2>1. EmptyRing => EmptyRing'
    BY <1>22, EmptyRingKept DEF StopSource
  <2>2. QED
    BY <1>22, <2>1 DEF StopSource, SourceGivesUp
<1>23. CASE SeekData
  <2>1. EmptyRing => EmptyRing'
    BY <1>23, EmptyRingKept DEF SeekData
  <2>2. QED
    BY <1>23, <2>1 DEF SeekData, SourceSeeks, SourceParked
<1>24. CASE FlushStop
  <2>1. EmptyRing => EmptyRing'
    BY <1>24, EmptyRingKept DEF FlushStop
  <2>2. QED
    BY <1>24, <2>1 DEF FlushStop, SourceRestarts
<1>25. CASE DeactivateSrc
  <2>1. EmptyRing => EmptyRing'
    BY <1>25, EmptyRingKept DEF DeactivateSrc
  <2>2. QED
    BY <1>25, <2>1 DEF DeactivateSrc, SignalAdd, SignalDel
<1>26. CASE DeactivateSink
  BY <1>26 DEF DeactivateSink
<1>27. CASE CloseSource
  BY <1>27 DEF CloseSource, SourceStops
<1>28. CASE Closed
  BY <1>28 DEF Closed
<1>29. CASE UNCHANGED vars
  BY <1>29 DEF vars, EmptyRing
<1>30. QED
  BY <1>1, <1>2, <1>3, <1>4, <1>5, <1>6, <1>7, <1>8, <1>9, <1>10, <1>11,
     <1>12, <1>13, <1>14, <1>15, <1>16, <1>17, <1>18, <1>19, <1>20, <1>21,
     <1>22, <1>23, <1>24, <1>25, <1>26, <1>27, <1>28, <1>29 DEF Next, Source,
     Reader, Begin, Proceed

LEMMA UnannouncedStep == SourceTypes /\ ReaderTypes /\ AppTypes /\ Flags /\
   SourceFlow /\ Pads /\ Flushed /\ Unannounced /\ [Next]_vars => Unannounced'
<1> SUFFICES ASSUME SourceTypes, ReaderTypes, AppTypes, Flags, SourceFlow,
   Pads, Flushed, Unannounced, [Next]_vars PROVE Unannounced'
  OBVIOUS
<1> USE DEF Unannounced, Open, Stopped, ReaderParked, sourceVars, ringVars,
   readerVars, padVars, connectionVars, flagVars, appVars, faultVars,
   downstreamVars
<1>1. CASE SourceSteps
  <2>1. EmptyRing => EmptyRing'
    BY <1>1, EmptyRingKept DEF SourceSteps
  <2>2. QED
    BY <1>1, <2>1 DEF SourceSteps, SourceLoop, SourceLoopEnd, SourceFlow,
       SourceTypes, SourceParked
<1>2. CASE loadNextSegment
  <2>1. EmptyRing => EmptyRing'
    BY <1>2, EmptyRingKept DEF loadNextSegment
  <2>2. QED
    BY <1>2, <2>1 DEF loadNextSegment, SourceFlow, SourceTypes, SourceParked
<1>3. CASE PushSegment
  <2>1. EmptyRing => EmptyRing'
    BY <1>3, EmptyRingKept DEF PushSegment
  <2>2. QED
    BY <1>3, <2>1 DEF PushSegment, SourceFlow, SourceTypes, SourceParked
<1>4. CASE Restart
  <2>1. EmptyRing => EmptyRing'
    BY <1>4, EmptyRingKept DEF Restart
  <2>2. QED
    BY <1>4, <2>1 DEF Restart, SourceFlow, SourceTypes, SourceParked
<1>5. CASE AnnounceSegment
  <2>1. EmptyRing => EmptyRing'
    BY <1>5, EmptyRingKept DEF AnnounceSegment
  <2>2. QED
    BY <1>5, <2>1 DEF AnnounceSegment, SourceFlow, SourceTypes, SourceParked
<1>6. CASE PrepareCache
  <2>1. ~(Open /\ send_new_segment)
    BY <1>6 DEF PrepareCache, SourceFlow
  <2>2. QED
    BY <1>6, <2>1 DEF PrepareCache
<1>7. CASE PostFull
  <2>1. EmptyRing => EmptyRing'
    BY <1>7, EmptyRingKept DEF PostFull
  <2>2. QED
    BY <1>7, <2>1 DEF PostFull, SourceFlow, SourceTypes, SourceParked
<1>8. CASE WakeForCache
  <2>1. ~(Open /\ send_new_segment)
    BY <1>8 DEF WakeForCache, SourceFlow
  <2>2. QED
    BY <1>8, <2>1 DEF WakeForCache
<1>9. CASE ReadNextBlock
  <2>1. EmptyRing => EmptyRing'
    BY <1>9, EmptyRingKept DEF ReadNextBlock
  <2>2. QED
    BY <1>9, <2>1 DEF ReadNextBlock, SourceFlow, SourceTypes, SourceParked
<1>10. CASE ChainCheck
  <2>1. EmptyRing => EmptyRing'
    BY <1>10, EmptyRingKept DEF ChainCheck
  <2>2. QED
    BY <1>10, <2>1 DEF ChainCheck, SourceFlow, SourceTypes, SourceParked
<1>11. CASE ChainWrite
  <2>1. ~(Open /\ send_new_segment)
    BY <1>11 DEF ChainWrite, SourceFlow
  <2>2. QED
    BY <1>11, <2>1 DEF ChainWrite
<1>12. CASE PushEos
  <2>1. EmptyRing => EmptyRing'
    BY <1>12, EmptyRingKept DEF PushEos
  <2>2. QED
    BY <1>12, <2>1 DEF PushEos, SourceFlow, SourceTypes, SourceParked
<1>13. CASE ReceiveEos
  <2>1. EmptyRing => EmptyRing'
    BY <1>13, EmptyRingKept DEF ReceiveEos
  <2>2. QED
    BY <1>13, <2>1 DEF ReceiveEos, SignalAdd, SourceFlow, SourceTypes,
       SourceParked
<1>14. CASE ReaderLoop
  <2> SUFFICES ASSUME Open, send_new_segment PROVE Unannounced'
    BY <1>14 DEF ReaderLoop
  <2>1. UNCHANGED <<spc, ringVars>> /\ rpc' # "push"
        /\ (srcresult' # srcresult => is_eos)
    BY <1>14, NothingToRead
  <2>2. UNCHANGED overtaken
    BY <1>14 DEF ReaderLoop
  <2>3. EmptyRing'
    BY <2>1, <2>2, EmptyRingKept
  <2>4. ~ReaderParked \/ srcresult # "OK"
    BY <1>14 DEF ReaderLoop
  <2>5. QED
    BY <1>14, <2>1, <2>3, <2>4 DEF ReaderLoop
<1>15. CASE PushBlock
  <2>1. EmptyRing => EmptyRing'
    BY <1>15, EmptyRingKept DEF PushBlock
  <2>2. QED
    BY <1>15, <2>1 DEF PushBlock, SourceFlow, SourceTypes, SourceParked
<1>16. CASE PauseAtError
  <2>1. EmptyRing => EmptyRing'
    BY <1>16, EmptyRingKept DEF PauseAtError
  <2>2. QED
    BY <1>16, <2>1 DEF PauseAtError, ReaderTypes
<1>17. CASE FlushStart
  <2>1. EmptyRing => EmptyRing'
    BY <1>17, EmptyRingKept DEF FlushStart
  <2>2. QED
    BY <1>17, <2>1 DEF FlushStart
<1>18. CASE CloseRing
  BY <1>18 DEF CloseRing, flush_data, SignalAdd, SignalDel
<1>19. CASE ForwardFlush
  BY <1>19 DEF ForwardFlush
<1>20. CASE FlushRing
  BY <1>20 DEF FlushRing, flush_data, SignalAdd, SignalDel
<1>21. CASE PauseReader
  BY <1>21 DEF PauseReader
<1>22. CASE StopSource
  BY <1>22 DEF StopSource, SourceGivesUp
<1>23. CASE SeekData
  BY <1>23 DEF SeekData, SourceSeeks
<1>24. CASE FlushStop
  <2>1. EmptyRing => EmptyRing'
    BY <1>24, EmptyRingKept DEF FlushStop
  <2>2. QED
    BY <1>24, <2>1 DEF FlushStop, SourceRestarts, SourceFlow, SourceParked,
       Flushed, Emptied
<1>25. CASE DeactivateSrc
  BY <1>25 DEF DeactivateSrc, SignalAdd, SignalDel
<1>26. CASE DeactivateSink
  BY <1>26 DEF DeactivateSink
<1>27. CASE CloseSource
  BY <1>27 DEF CloseSource, SourceStops
<1>28. CASE Closed
  BY <1>28 DEF Closed
<1>29. CASE UNCHANGED vars
  BY <1>29 DEF vars, EmptyRing
<1>30. QED
  BY <1>1, <1>2, <1>3, <1>4, <1>5, <1>6, <1>7, <1>8, <1>9, <1>10, <1>11,
     <1>12, <1>13, <1>14, <1>15, <1>16, <1>17, <1>18, <1>19, <1>20, <1>21,
     <1>22, <1>23, <1>24, <1>25, <1>26, <1>27, <1>28, <1>29 DEF Next, Source,
     Reader, Begin, Proceed

-----------------------------------------------------------------------------
(* The ring behind an announced segment: what each step does to it.        *)

\* Steps that leave the ring alone and the writer's and the reader's place.
LEMMA OrderedKept ==
    ASSUME Ordered, UNCHANGED ringVars, Hungry' <=> Hungry, Place' = Place,
           rpc' = "push" => buffer' = next',
           ~Stopped' => /\ ~Stopped /\ (Ahead' <=> Ahead)
                        /\ mediaFileIndex' = mediaFileIndex
                        /\ ~Ahead => /\ Written' = Written
                                     /\ pending_event' = "NEWSEGMENT" =>
                                            offset' = SegmentSize
    PROVE  Ordered'
<1> USE DEF Ordered, ringVars, Held, Data
<1>1. SlotsFilled'
  BY DEF SlotsFilled
<1>2. \A i \in Slots : Last(i)' <=> Last(i)
  BY DEF Last
<1>3. Linked'
  BY <1>2 DEF Linked
<1>4. WriterAt'
  BY <1>2 DEF WriterAt
<1>5. WriterAhead'
  BY <1>2 DEF WriterAhead
<1>6. ReaderAt'
  BY DEF ReaderAt
<1>7. QED
  BY <1>1, <1>3, <1>4, <1>5, <1>6

LEMMA BlockedKept ==
    ASSUME Blocked, UNCHANGED <<ringVars, overtaken>>, rpc' # "push",
           Ahead \/ Stopped => Ahead' \/ Stopped'
    PROVE  Blocked'
BY DEF Blocked, ringVars, Held, Data

LEMMA DataTypes ==
    ASSUME RingTypes, NEW i \in Slots
    PROVE  /\ Data(i) \in Seq(1..Total) /\ cache[i].read \in Nat
           /\ Len(Data(i)) \in Nat /\ (Data(i) = <<>> <=> Len(Data(i)) = 0)
           /\ \A k \in 1..Len(Data(i)) : Data(i)[k] \in Int
           /\ Len(Data(i)) > 0 => Data(i)[1] \in Int
<1>1. cache[i] \in Cache
  BY DEF RingTypes
<1>2. Data(i) \in Seq(1..Total) /\ cache[i].read \in Nat
  BY <1>1 DEF Cache, Data
<1>3. Len(Data(i)) \in Nat /\ (Data(i) = <<>> <=> Len(Data(i)) = 0)
  BY <1>2, EmptySeq, LenProperties
<1>4. \A k \in 1..Len(Data(i)) : Data(i)[k] \in 1..Total
  BY <1>2, ElementOfSeq
<1>5. QED
  BY <1>2, <1>3, <1>4

\* While the writer has no cache for the open segment, every cache is full.
LEMMA LastFull ==
    ASSUME Typed, Ordered, SourceFlow, Ahead, ~Stopped, NEW i \in Slots, Held(i)
    PROVE  Len(Data(i)) = SegmentSize
BY DEF Ordered, Linked, WriterAhead

\* The connection goes on to the next segment: the last cache is full.
LEMMA NextSegment ==
    ASSUME Typed, Ordered, UNCHANGED ringVars, Place' = Place, rpc' = rpc,
           UNCHANGED <<buffer, next>>,
           ~Stopped, ~Ahead, pending_event = "NEWSEGMENT", spc = "segment",
           Ahead', ~Hungry', mediaFileIndex' = mediaFileIndex + 1
    PROVE  Ordered'
<1> USE DEF Ordered, ringVars, Held, Data
<1> DEFINE m == mediaFileIndex
<1>1. SlotsFilled'
  BY DEF SlotsFilled
<1>2. \A i \in Slots : Last(i)' <=> Last(i)
  BY DEF Last, Hungry
<1>3. Linked'
  BY <1>2 DEF Linked, Hungry
<1>4. m \in Nat /\ SegmentSize \in Nat \ {0}
  BY PlaylistAssumption DEF Typed, SourceTypes
<1>5. /\ FirstBlock(m) \in Int
      /\ FirstBlock(m)' = FirstBlock(m) + SegmentSize
  BY <1>4, SegmentsAdjoin DEF FirstBlock
<1>6. WriterAt'
  BY DEF WriterAt
<1>7. WriterAhead'
  <2> SUFFICES ASSUME NEW i \in Slots, Last(i), Held(i)
               PROVE  /\ Len(Data(i)) = SegmentSize
                      /\ Data(i)[1] + SegmentSize = FirstBlock(m)'
    BY <1>2 DEF WriterAhead
  <2>1. i = cache_write_index
    BY DEF Last, Hungry
  <2>2. Written = SegmentSize
    BY DEF WriterAt, Written
  <2>3. Len(Data(i)) = SegmentSize /\ Data(i)[1] = FirstBlock(m) + 1 - 1
    BY <2>1, <2>2, <1>4 DEF WriterAt
  <2>4. QED
    BY <2>3, <1>4, <1>5
<1>8. ReaderAt'
  <2>1. FirstBlock(m') = FirstBlock(m) + SegmentSize
    BY <1>5 DEF FirstBlock
  <2>2. QED
    BY <2>1 DEF ReaderAt
<1>9. QED
  BY <1>1, <1>3, <1>6, <1>7, <1>8

\* The writer appends a block to the cache it owns.
LEMMA BlockWritten ==
    ASSUME Typed, SourceFlow, Ordered, ChainWrite
    PROVE  Ordered'
<1> DEFINE w == cache_write_index
           m == mediaFileIndex
           b == FirstBlock(m) + offset - 1
<1> USE DEF Ordered
<1>1. /\ m \in Nat /\ SegmentSize \in Nat \ {0} /\ FirstBlock(m) \in Int
      /\ offset \in 1..SegmentSize
  BY PlaylistAssumption, SegmentsAdjoin
     DEF Typed, SourceTypes, ChainWrite
<1>2. pending_event = "UNKNOWN" /\ spc = "write" /\ ~Stopped /\ ~Ahead /\ ~Hungry
      /\ spc' = "end" /\ ~Ahead' /\ ~Hungry' /\ pending_event' = "UNKNOWN"
      /\ UNCHANGED <<cache_size, cache_write_ready, cache_write_index,
                     cache_read_index, offset, mediaFileIndex, buffer, next>>
      /\ Written = offset - 1 /\ Written' = offset
  BY DEF ChainWrite, SourceFlow, Stopped, Ahead, Hungry, Written,
         connectionVars, downstreamVars
<1>3. w \in Slots /\ Held(w) /\ Len(Data(w)) = offset - 1
      /\ \A k \in 1..(offset - 1) : Data(w)[k] = FirstBlock(m) + k - 1
  BY <1>1, <1>2 DEF WriterAt
<1>4. /\ Data(w)' = Append(Data(w), b) /\ cache'[w].read = cache[w].read
      /\ \A i \in Slots : i # w => cache'[i] = cache[i]
  BY <1>3 DEF ChainWrite, Data, Typed, RingTypes, Cache
<1>5. Data(w) \in Seq(1..Total) /\ cache[w].read \in Nat
  BY <1>3, DataTypes DEF Typed
<1>6. /\ Len(Data(w)') = offset
      /\ Data(w)' # <<>>
      /\ \A k \in 1..offset : Data(w)'[k] = FirstBlock(m) + k - 1
      /\ Data(w)'[1] = FirstBlock(m)
  <2> HIDE DEF b
  <2>1. b \in 1..Total
    BY <1>1, BlocksInStream DEF Typed, SourceTypes, SourceFlow, ChainWrite, b
  <2>2. /\ Len(Data(w)') = offset
        /\ \A k \in 1..(offset - 1) : Data(w)'[k] = Data(w)[k]
        /\ Data(w)'[offset] = b
    BY <1>1, <1>3, <1>4, <1>5, <2>1, AppendProperties
  <2>3. Data(w)' # <<>>
    BY <1>1, <2>2, EmptySeq
  <2>4. ASSUME NEW k \in 1..offset
        PROVE  Data(w)'[k] = FirstBlock(m) + k - 1
    <3>1. CASE k = offset
      BY <3>1, <2>2 DEF b
    <3>2. CASE k # offset
      BY <3>2, <1>1, <1>3, <2>2
    <3>3. QED
      BY <3>1, <3>2
  <2>5. QED
    BY <1>1, <2>2, <2>3, <2>4
<1>7. \A i \in Slots : (Held(i)' <=> Held(i)) /\ (Last(i)' <=> Last(i))
                       /\ (Last(i) <=> i = w)
  BY <1>2 DEF Held, Last
<1>8. \A i \in Slots : i # w => Data(i)' = Data(i)
  BY <1>4 DEF Data
<1>9. w' = w /\ m' = m
  BY <1>2
<1>10. Place' = Place /\ (rpc' = "push" <=> rpc = "push")
  BY <1>2 DEF Place, ChainWrite, SignalAdd
<1> HIDE DEF w, m, b
<1>11. SlotsFilled'
  <2> SUFFICES ASSUME NEW i \in Slots
      PROVE  (IF Held(i)
        THEN /\ cache_size[i] = SegmentSize /\ Len(Data(i)) <= SegmentSize
             /\ cache[i].read <= Len(Data(i)) /\ cache[i].read < SegmentSize
             /\ i # cache_read_index => cache[i].read = 0
             /\ \A k \in 1..Len(Data(i)) : Data(i)[k] = Data(i)[1] + k - 1
        ELSE cache[i].read = Len(Data(i)))'
    BY DEF SlotsFilled
  <2>1. CASE i = w
    <3>1. Held(i)' /\ Held(i)
      BY <2>1, <1>3, <1>7
    <3>2. cache_size'[i] = SegmentSize /\ Len(Data(i)') = offset
          /\ \A k \in 1..offset : Data(i)'[k] = FirstBlock(m) + k - 1
          /\ Data(i)'[1] = FirstBlock(m)
      BY <2>1, <3>1, <1>2, <1>6, <1>9 DEF SlotsFilled
    <3>3. cache'[i].read = cache[i].read /\ cache[i].read <= offset - 1
          /\ (i # cache_read_index' => cache[i].read = 0)
      BY <2>1, <3>1, <1>2, <1>3, <1>4 DEF SlotsFilled
    <3>4. QED
      BY <3>1, <3>2, <3>3, <2>1, <1>1, <1>5
  <2>2. CASE i # w
    BY <2>2, <1>2, <1>4, <1>7, <1>8 DEF SlotsFilled
  <2>3. QED
    BY <2>1, <2>2
<1>12. Linked'
  <2>1. \A i \in Slots : Held(i)' /\ ~Last(i)' =>
           /\ Held(Following(i))' /\ Following(i) # cache_read_index'
           /\ Len(Data(i)') = SegmentSize
           /\ Data(Following(i))' # <<>> =>
                  Data(Following(i))'[1] = Data(i)'[1] + SegmentSize
    <3> SUFFICES ASSUME NEW i \in Slots, Held(i), ~Last(i)
        PROVE /\ Held(Following(i))' /\ Following(i) # cache_read_index'
              /\ Len(Data(i)') = SegmentSize
              /\ Data(Following(i))' # <<>> =>
                     Data(Following(i))'[1] = Data(i)'[1] + SegmentSize
      BY <1>7
    <3>1. i # w /\ Following(i) \in Slots
      BY <1>7, FollowingRange
    <3>2. CASE Following(i) = w
      <4>1. Data(i)[1] + SegmentSize = FirstBlock(m)
        BY <3>2, <1>2 DEF WriterAt, w, m
      <4>2. QED
        BY <3>1, <3>2, <4>1, <1>2, <1>3, <1>6, <1>7, <1>8, <1>9 DEF Linked
    <3>3. CASE Following(i) # w
      BY <3>1, <3>3, <1>2, <1>7, <1>8 DEF Linked
    <3>4. QED
      BY <3>2, <3>3
  <2>2. QED
    BY <2>1, <1>2, <1>7, FollowingRange DEF Linked, Typed, RingTypes, Held
<1>13. WriterAt'
  <2>1. \A i \in Slots : Held(i) /\ ~Last(i) /\ Following(i) = w =>
               Data(i)'[1] + SegmentSize = FirstBlock(m)
    BY <1>2, <1>7, <1>8 DEF WriterAt, w, m
  <2>2. QED
    BY <2>1, <1>1, <1>2, <1>3, <1>6, <1>7, <1>9 DEF WriterAt, w, m
<1>14. WriterAhead'
  BY <1>2 DEF WriterAhead
<1>15. ReaderAt'
  <2>1. CASE cache_read_index = w
    BY <2>1, <1>1, <1>2, <1>3, <1>4, <1>5, <1>6, <1>7, <1>9, <1>10
       DEF ReaderAt, w, m
  <2>2. CASE cache_read_index # w
    BY <2>2, <1>2, <1>4, <1>7, <1>8, <1>9, <1>10
       DEF ReaderAt, w, m, Typed, RingTypes
  <2>3. QED
    BY <2>1, <2>2
<1>16. QED
  BY <1>11, <1>12, <1>13, <1>14, <1>15

\* A free cache is claimed for the segment that was opened.
LEMMA CacheClaimed ==
    ASSUME Typed, SourceFlow, Ordered, NEW t \in Slots, ~Held(t),
           Ahead, ~Stopped, pending_event = "UNKNOWN", spc' = "end",
           \A i \in Slots : Held(i) => (Last(i) <=> Following(i) = t),
           ~Held(cache_read_index) => cache_read_index = t,
           \A i \in Slots : Following(i) = t =>
                                (Held(i) <=> Held(cache_read_index)),
           cache_write_index' = t,
           cache' = [cache EXCEPT ![t] = EmptyCache],
           cache_size' = [cache_size EXCEPT ![t] = SegmentSize],
           cache_write_ready' = [cache_write_ready EXCEPT ![t] = FALSE],
           UNCHANGED <<cache_read_index, readerVars, connectionVars,
                       pending_event, next>>
    PROVE  Ordered'
<1> DEFINE r == cache_read_index
           m == mediaFileIndex
<1> USE DEF Ordered
<1>1. /\ m \in Nat /\ SegmentSize \in Nat \ {0} /\ FirstBlock(m) \in Int
      /\ offset = 0 /\ r \in Slots
  BY PlaylistAssumption, SegmentsAdjoin
     DEF Typed, SourceTypes, RingTypes, SourceFlow
<1>2. /\ ~Ahead' /\ ~Hungry' /\ pending_event' = "UNKNOWN" /\ Written' = 0
      /\ UNCHANGED <<cache_read_index, buffer, next, rpc, mediaFileIndex>>
      /\ Place' = Place
  BY <1>1 DEF Ahead, Hungry, Written, Place, connectionVars, readerVars
<1>3. /\ Data(t)' = <<>> /\ cache'[t].read = 0 /\ cache_size'[t] = SegmentSize
      /\ Held(t)'
      /\ \A i \in Slots : i # t => /\ cache'[i] = cache[i]
                                   /\ cache_size'[i] = cache_size[i]
  BY DEF Data, EmptyCache, Held, Typed, RingTypes, Flags
<1>4. \A i \in Slots : /\ i # t => (Held(i)' <=> Held(i)) /\ Data(i)' = Data(i)
                       /\ Last(i)' <=> i = t
  BY <1>2, <1>3 DEF Held, Data, Last, Typed, Flags
<1>5. Len(Data(t)') = 0
  BY <1>3, EmptySeq
<1>6. r' = r /\ m' = m
  BY <1>2
<1> HIDE DEF r, m
<1>7. SlotsFilled'
  <2> SUFFICES ASSUME NEW i \in Slots
      PROVE  (IF Held(i)
        THEN /\ cache_size[i] = SegmentSize /\ Len(Data(i)) <= SegmentSize
             /\ cache[i].read <= Len(Data(i)) /\ cache[i].read < SegmentSize
             /\ i # cache_read_index => cache[i].read = 0
             /\ \A k \in 1..Len(Data(i)) : Data(i)[k] = Data(i)[1] + k - 1
        ELSE cache[i].read = Len(Data(i)))'
    BY DEF SlotsFilled
  <2>1. CASE i = t
    BY <2>1, <1>1, <1>3, <1>5
  <2>2. CASE i # t
    BY <2>2, <1>2, <1>3, <1>4 DEF SlotsFilled
  <2>3. QED
    BY <2>1, <2>2
<1>8. Held(r) \/ r = t
  BY DEF r
<1>9. Held(r)'
  BY <1>1, <1>3, <1>4, <1>6, <1>8
<1>10. Linked'
  <2>1. ASSUME NEW i \in Slots, Held(i)', i # t
        PROVE  /\ Held(Following(i))' /\ Following(i) # r
               /\ Len(Data(i)') = SegmentSize
               /\ Data(Following(i))' # <<>> =>
                      Data(Following(i))'[1] = Data(i)'[1] + SegmentSize
    <3>1. Held(i) /\ Following(i) \in Slots /\ Data(i)' = Data(i)
      BY <2>1, <1>4, FollowingRange
    <3>2. Len(Data(i)) = SegmentSize
      BY <3>1, LastFull
    <3>3. CASE Following(i) = t
      <4>1. Held(r) /\ ~Held(t)
        BY <3>1, <3>3 DEF r
      <4>2. QED
        BY <3>1, <3>2, <3>3, <4>1, <1>3
    <3>4. CASE Following(i) # t
      <4>1. ~Last(i)
        BY <3>1, <3>4
      <4>2. Held(Following(i)) /\ Following(i) # r
            /\ (Data(Following(i)) # <<>> =>
                  Data(Following(i))[1] = Data(i)[1] + SegmentSize)
        BY <3>1, <4>1 DEF Linked, r
      <4>3. Held(Following(i))' /\ Data(Following(i))' = Data(Following(i))
        BY <3>1, <3>4, <4>2, <1>4
      <4>4. QED
        BY <3>1, <3>2, <4>2, <4>3
    <3>5. QED
      BY <3>3, <3>4
  <2>2. ASSUME NEW i \in Slots, Held(Following(i))', Following(i) # r
        PROVE  Held(i)' /\ i # t
    <3>1. Following(i) \in Slots
      BY FollowingRange
    <3>2. CASE Following(i) = t
      <4>1. Held(r)
        BY <2>2, <3>2, <1>8
      <4>2. Held(i)
        BY <3>2, <4>1 DEF r
      <4>3. QED
        BY <4>2, <1>4
    <3>3. CASE Following(i) # t
      <4>1. Held(Following(i))
        BY <2>2, <3>1, <3>3, <1>4
      <4>2. Held(i)
        BY <2>2, <4>1 DEF Linked, r
      <4>3. QED
        BY <4>2, <1>4
    <3>4. QED
      BY <3>2, <3>3
  <2>3. t # -1
    BY DEF Slots
  <2>4. QED
    BY <2>1, <2>2, <2>3, <1>2, <1>3, <1>4, <1>6, <1>9 DEF Linked, r
<1>11. WriterAt'
  <2>1. ASSUME NEW i \in Slots, Held(i)', i # t, Following(i) = t
        PROVE  Data(i)'[1] + SegmentSize = FirstBlock(m)
    <3>1. Held(i) /\ Last(i) /\ Data(i)' = Data(i)
      BY <2>1, <1>4
    <3>2. QED
      BY <3>1 DEF WriterAhead, m
  <2>2. QED
    BY <2>1, <1>2, <1>3, <1>4, <1>5, <1>6 DEF WriterAt, m
<1>12. WriterAhead'
  BY <1>2 DEF WriterAhead
<1>13. ReaderAt'
  <2>1. CASE r = t
    <3>1. Place = FirstBlock(m)
      BY <2>1 DEF ReaderAt, r, m
    <3>2. rpc' = "push" => buffer' = next'
      BY <1>2 DEF ReaderAt
    <3>3. QED
      BY <2>1, <3>1, <3>2, <1>1, <1>2, <1>3, <1>6, <1>9 DEF ReaderAt, r, m
  <2>2. CASE r # t
    <3>1. Held(r) /\ Data(r)' = Data(r) /\ cache'[r] = cache[r]
      BY <2>2, <1>1, <1>3, <1>4, <1>6, <1>8
    <3>2. QED
      BY <2>2, <3>1, <1>2, <1>6, <1>9 DEF ReaderAt, r, m
  <2>3. QED
    BY <2>1, <2>2
<1>14. QED
  BY <1>7, <1>10, <1>11, <1>12, <1>13

\* The reader takes the block that downstream expects; the last one of a
\* segment frees the cache.
LEMMA BlockRead ==
    ASSUME Typed, SourceFlow, Ordered, ReaderLoop, srcresult = "OK",
           cache_has_enough_data(cache[cache_read_index])
    PROVE  Ordered'
<1>0. PICK r \in Slots : r = cache_read_index
  BY DEF Typed, RingTypes
<1> DEFINE w == cache_write_index
           m == mediaFileIndex
           q == cache[r].read
<1> USE DEF Ordered
<1>1. /\ m \in Nat /\ SegmentSize \in Nat \ {0} /\ FirstBlock(m) \in Int
      /\ next \in Nat
  BY PlaylistAssumption, SegmentsAdjoin
     DEF Typed, SourceTypes, RingTypes, ReaderTypes
<1>2. ReadBlock /\ rpc' = "push" /\ rpc # "push"
      /\ UNCHANGED <<pending_event, source_task, ret, cache_size,
                     cache_write_index, mediaFileIndex, offset, next>>
  BY DEF ReaderLoop, connectionVars
<1>3. /\ Data(r) \in Seq(1..Total) /\ q \in Nat
      /\ Len(Data(r)) \in Nat /\ q < Len(Data(r)) /\ Data(r) # <<>>
      /\ Data(r)[1] \in Int
  BY <1>0, DataTypes DEF Typed, cache_has_enough_data, Data
<1>4. /\ Held(r) /\ cache_size[r] = SegmentSize /\ Len(Data(r)) <= SegmentSize
      /\ Data(r)[q + 1] = Data(r)[1] + q
  <2>1. Held(r)
    BY <1>3 DEF SlotsFilled
  <2>2. /\ cache_size[r] = SegmentSize /\ Len(Data(r)) <= SegmentSize
        /\ \A k \in 1..Len(Data(r)) : Data(r)[k] = Data(r)[1] + k - 1
    BY <2>1 DEF SlotsFilled
  <2>3. q + 1 \in 1..Len(Data(r))
    BY <1>3
  <2>4. Data(r)[q + 1] = Data(r)[1] + (q + 1) - 1
    BY <2>2, <2>3
  <2>5. QED
    BY <2>1, <2>2, <2>4, <1>3
<1>5. Place = next /\ Place' = next + 1 /\ next = Data(r)[1] + q
  BY <1>0, <1>2, <1>3, <1>4 DEF Place, ReaderAt
<1>6. /\ buffer' = next
      /\ Data(r)' = Data(r) /\ cache'[r].read = q + 1
      /\ \A i \in Slots : i # r => cache'[i] = cache[i] /\ Data(i)' = Data(i)
  <2>1. cache' = [cache EXCEPT ![r].read = q + 1]
    BY <1>0, <1>2 DEF ReadBlock
  <2>2. /\ cache'[r].data = cache[r].data /\ cache'[r].read = q + 1
        /\ \A i \in Slots : i # r => cache'[i] = cache[i]
    BY <2>1, <1>1 DEF Typed, RingTypes, Cache
  <2>3. buffer' = next
    BY <1>0, <1>2, <1>4, <1>5 DEF ReadBlock, Data
  <2>4. QED
    BY <2>2, <2>3 DEF Data
<1>7. /\ Hungry' <=> Hungry
      /\ Ahead' <=> Ahead
      /\ Stopped' <=> Stopped
      /\ Written' = Written
  BY <1>2 DEF ReadBlock, SignalDel, Hungry, Ahead, Stopped, Written
<1>8. \A i \in Slots : Last(i)' <=> Last(i)
  BY <1>2, <1>7 DEF Last
<1>9. UNCHANGED <<cache_size, w, m, next, offset, pending_event>>
  BY <1>2
<1> HIDE DEF q, w, m
<1>10. CASE q + 1 # SegmentSize
  <2>1. /\ cache_read_index' = r
        /\ \A i \in Slots : Held(i)' <=> Held(i)
    BY <1>0, <1>2, <1>4, <1>10 DEF ReadBlock, Held, q
  <2>2. \A i \in Slots : Data(i)' = Data(i)
    BY <1>6
  <2>3. SlotsFilled'
    <3> SUFFICES ASSUME NEW i \in Slots
        PROVE  (IF Held(i)
        THEN /\ cache_size[i] = SegmentSize /\ Len(Data(i)) <= SegmentSize
             /\ cache[i].read <= Len(Data(i)) /\ cache[i].read < SegmentSize
             /\ i # cache_read_index => cache[i].read = 0
             /\ \A k \in 1..Len(Data(i)) : Data(i)[k] = Data(i)[1] + k - 1
        ELSE cache[i].read = Len(Data(i)))'
      BY DEF SlotsFilled
    <3>1. CASE i = r
      BY <3>1, <2>1, <2>2, <1>0, <1>1, <1>3, <1>4, <1>6, <1>9, <1>10
         DEF SlotsFilled
    <3>2. CASE i # r
      BY <3>2, <2>1, <2>2, <1>0, <1>6, <1>9 DEF SlotsFilled
    <3>3. QED
      BY <3>1, <3>2
  <2>4. Linked'
    BY <2>1, <2>2, <1>0, <1>7, <1>8, <1>9, FollowingRange DEF Linked, w
  <2>5. WriterAt'
    BY <2>1, <2>2, <1>7, <1>8, <1>9 DEF WriterAt, w, m
  <2>6. WriterAhead'
    BY <2>1, <2>2, <1>7, <1>8, <1>9 DEF WriterAhead, w, m
  <2>7. ReaderAt'
    <3>1. Place' = Data(r)'[1] + cache'[r].read
      BY <1>1, <1>3, <1>5, <1>6
    <3>2. ~Stopped /\ ~Ahead /\ r = w => Place = FirstBlock(m) + q
      BY <1>0, <1>4 DEF ReaderAt, w, m, q
    <3>3. ~Stopped /\ ~Ahead /\ r = w => Place' = FirstBlock(m) + cache'[r].read
      BY <3>2, <1>1, <1>3, <1>5, <1>6
    <3>4. QED
      BY <3>1, <3>3, <2>1, <1>4, <1>6, <1>7, <1>9 DEF ReaderAt, w, m
  <2>8. QED
    BY <2>3, <2>4, <2>5, <2>6, <2>7
<1>11. CASE q + 1 = SegmentSize
  <2>1. /\ cache_read_index' = Following(r) /\ ~Held(r)'
        /\ \A i \in Slots : i # r => (Held(i)' <=> Held(i))
    BY <1>0, <1>2, <1>4, <1>11 DEF ReadBlock, Held, q, Typed, Flags
  <2>2. /\ \A i \in Slots : Data(i)' = Data(i)
        /\ Following(r) \in Slots /\ Len(Data(r)) = SegmentSize
    BY <1>1, <1>3, <1>4, <1>6, <1>11, FollowingRange
  <2>3. SlotsFilled'
    <3> SUFFICES ASSUME NEW i \in Slots
        PROVE  (IF Held(i)
        THEN /\ cache_size[i] = SegmentSize /\ Len(Data(i)) <= SegmentSize
             /\ cache[i].read <= Len(Data(i)) /\ cache[i].read < SegmentSize
             /\ i # cache_read_index => cache[i].read = 0
             /\ \A k \in 1..Len(Data(i)) : Data(i)[k] = Data(i)[1] + k - 1
        ELSE cache[i].read = Len(Data(i)))'
      BY DEF SlotsFilled
    <3>1. CASE i = r
      BY <3>1, <2>1, <2>2, <1>6, <1>11
    <3>2. CASE i # r
      BY <3>2, <2>1, <2>2, <1>0, <1>6, <1>9 DEF SlotsFilled
    <3>3. QED
      BY <3>1, <3>2
  <2>4. /\ Last(r) => ~Held(Following(r))'
        /\ ~Last(r) => Held(Following(r))' /\ Following(r) # r
    <3>1. CASE Last(r)
      <4>1. Held(Following(r)) => Following(r) = r
        BY <1>0, <3>1 DEF Linked
      <4>2. QED
        BY <3>1, <4>1, <2>1, <2>2
    <3>2. CASE ~Last(r)
      <4>1. Held(Following(r)) /\ Following(r) # r
        BY <1>0, <1>4, <3>2 DEF Linked
      <4>2. QED
        BY <3>2, <4>1, <2>1, <2>2
    <3>3. QED
      BY <3>1, <3>2
  <2>5. Linked'
    <3>1. ASSUME NEW i \in Slots, Held(i)', ~Last(i)
          PROVE  /\ Held(Following(i))' /\ Following(i) # Following(r)
                 /\ Len(Data(i)) = SegmentSize
                 /\ Data(Following(i)) # <<>> =>
                      Data(Following(i))[1] = Data(i)[1] + SegmentSize
      <4>1. i # r /\ Held(i) /\ Following(i) \in Slots
        BY <3>1, <2>1, FollowingRange
      <4>2. /\ Held(Following(i)) /\ Following(i) # r
            /\ Len(Data(i)) = SegmentSize
            /\ Data(Following(i)) # <<>> =>
                      Data(Following(i))[1] = Data(i)[1] + SegmentSize
        BY <3>1, <4>1, <1>0 DEF Linked
      <4>3. Following(i) # Following(r)
        BY <4>1, FollowingInjective
      <4>4. QED
        BY <4>1, <4>2, <4>3, <2>1
    <3>2. ASSUME NEW i \in Slots, Held(Following(i))', Following(i) # Following(r)
          PROVE  Held(i)' /\ ~Last(i)
      <4>1. i # r /\ Following(i) \in Slots /\ Following(i) # r
            /\ Held(Following(i))
        BY <3>2, <2>1, FollowingRange
      <4>2. Held(i) /\ ~Last(i)
        BY <4>1, <1>0 DEF Linked
      <4>3. QED
        BY <4>1, <4>2, <2>1
    <3>3. ASSUME NEW i \in Slots, Last(i)
          PROVE  Held(i)' <=> Held(Following(r))'
      <4>1. Held(i)
        BY <3>3, <1>0, <1>4 DEF Linked
      <4>2. CASE Last(r)
        <5>1. i = r
          BY <3>3, <4>2, FollowingInjective DEF Last
        <5>2. QED
          BY <4>2, <5>1, <2>1, <2>4
      <4>3. CASE ~Last(r)
        BY <3>3, <4>1, <4>3, <2>1, <2>4
      <4>4. QED
        BY <4>2, <4>3
    <3>4. w # -1
      BY <1>4 DEF Linked, w
    <3>5. ~Held(Following(r))' =>
            Following(r) = IF Hungry THEN w ELSE Following(w)
      BY <2>4 DEF Last, w
    <3>6. \A i \in Slots : Data(Following(i))' = Data(Following(i))
      BY <2>2, FollowingRange
    <3>7. QED
      BY <3>1, <3>2, <3>3, <3>4, <3>5, <3>6, <2>1, <2>2, <1>7, <1>8, <1>9
         DEF Linked, w
  <2>6. WriterAt'
    <3>1. ~Stopped /\ ~Ahead =>
            /\ w \in Slots
            /\ Held(w)' => Held(w)
            /\ Held(w) /\ ~Held(w)' => Written = SegmentSize
      BY <2>1, <2>2, <1>9 DEF WriterAt, w
    <3>2. \A i \in Slots : Held(i)' => Held(i)
      BY <2>1, <1>4
    <3>3. QED
      BY <3>1, <3>2, <2>2, <1>7, <1>8, <1>9 DEF WriterAt, w, m
  <2>7. WriterAhead'
    <3>1. \A i \in Slots : Held(i)' => Held(i)
      BY <2>1, <1>4
    <3>2. QED
      BY <3>1, <2>2, <1>7, <1>8, <1>9 DEF WriterAhead, w, m
  <2>8. ReaderAt'
    <3>0. Data(r)[1] \in Int /\ q \in Int
      BY <1>3
    <3> HIDE DEF q
    <3>1. Place' = Data(r)[1] + SegmentSize
      BY <1>5, <1>11, <3>0
    <3>2. CASE ~Last(r)
      <4> DEFINE f == Following(r)
      <4>1. f \in Slots /\ f # r /\ Held(f) /\ Held(f)' /\ Data(f)' = Data(f)
        BY <3>2, <2>1, <2>2, <2>4
      <4>2. cache'[f].read = 0
        BY <4>1, <1>0, <1>6 DEF SlotsFilled
      <4>3. Data(f) # <<>> => Data(f)[1] = Data(r)[1] + SegmentSize
        BY <3>2, <1>0, <1>4 DEF Linked
      <4>4. ~Stopped /\ ~Ahead /\ f = w => FirstBlock(m) = Data(r)[1] + SegmentSize
        BY <3>2, <1>4 DEF WriterAt, w, m
      <4> HIDE DEF f
      <4>5. cache_read_index' = f
        BY <2>1 DEF f
      <4>6. QED
        BY <3>1, <4>1, <4>2, <4>3, <4>4, <4>5, <1>1, <1>3, <1>6, <1>7, <1>9
           DEF ReaderAt, w, m
    <3>3. CASE Last(r)
      <4>1. ~Held(Following(r))'
        BY <3>3, <2>4
      <4>2. ~Stopped /\ Ahead => Data(r)[1] + SegmentSize = FirstBlock(m)
        BY <3>3, <1>4 DEF WriterAhead, m
      <4>3. ~Stopped /\ ~Ahead => Place = FirstBlock(m) + q
        <5>1. ~Ahead => r = w
          BY <3>3 DEF Last, Hungry, Ahead, w
        <5>2. QED
          BY <5>1, <1>0, <1>4 DEF ReaderAt, w, m, q
      <4>4. ~Stopped /\ ~Ahead => Place' = FirstBlock(m) + SegmentSize
        <5>1. FirstBlock(m) \in Int /\ next \in Int
          BY <1>1
        <5>2. QED
          BY <4>3, <5>1, <3>0, <1>5, <1>11
      <4>5. QED
        BY <3>1, <4>1, <4>2, <4>4, <2>1, <1>6, <1>7, <1>9 DEF ReaderAt, w, m
    <3>4. QED
      BY <3>2, <3>3
  <2>9. QED
    BY <2>3, <2>5, <2>6, <2>7, <2>8
<1>12. QED
  BY <1>10, <1>11

LEMMA AnnouncedInit == Init => Announced /\ Delivering
BY DEF Init, Announced, Delivering

LEMMA AnnouncedStep == SourceTypes /\ ReaderTypes /\ AppTypes /\ Flags /\
   SourceFlow /\ Pads /\ Unannounced /\ Announced /\ [Next]_vars => Announced'
<1> SUFFICES ASSUME SourceTypes, ReaderTypes, AppTypes, Flags, SourceFlow,
   Pads, Unannounced, Announced, [Next]_vars PROVE Announced'
  OBVIOUS
<1> USE DEF Announced, Open, sourceVars, ringVars, readerVars, padVars,
   connectionVars, flagVars, appVars, faultVars, downstreamVars
<1>1. CASE SourceSteps
  BY <1>1 DEF SourceSteps, SourceLoop, SourceLoopEnd
<1>2. CASE loadNextSegment
  <2>1. failed => failed'
    BY <1>2 DEF loadNextSegment
  <2>2. pending_event' = pending_event \/ pending_event' = "EOS"
    BY <1>2 DEF loadNextSegment
  <2>3. QED
    BY <1>2, <2>1, <2>2 DEF loadNextSegment
<1>3. CASE PushSegment
  BY <1>3 DEF PushSegment, SourceFlow
<1>4. CASE Restart
  BY <1>4 DEF Restart, SourceFlow
<1>5. CASE AnnounceSegment
  BY <1>5 DEF AnnounceSegment, Unannounced, Pads, SourceFlow
<1>6. CASE ReadNextBlock
  BY <1>6 DEF ReadNextBlock, SourceFlow
<1>7. CASE ChainWrite
  BY <1>7 DEF ChainWrite, SignalAdd
<1>8. CASE ReceiveEos
  BY <1>8 DEF ReceiveEos, SignalAdd, SourceFlow
<1>9. CASE ReaderLoop
  BY <1>9 DEF ReaderLoop, ReadBlock, SignalDel, cache_has_enough_data
<1>10. CASE PushBlock
  <2>1. failed => failed'
    BY <1>10 DEF PushBlock
  <2>2. Open => ~srcFlushing
    BY DEF Pads
  <2>3. srcresult' # srcresult => failed' \/ srcFlushing
    BY <1>10 DEF PushBlock
  <2>4. QED
    BY <1>10, <2>1, <2>2, <2>3 DEF PushBlock
<1>11. CASE FlushStart
  BY <1>11 DEF FlushStart
<1>12. CASE CloseRing
  BY <1>12 DEF CloseRing, flush_data, SignalAdd, SignalDel
<1>13. CASE ForwardFlush
  BY <1>13 DEF ForwardFlush
<1>14. CASE FlushRing
  BY <1>14 DEF FlushRing, flush_data, SignalAdd, SignalDel
<1>15. CASE PauseReader
  BY <1>15 DEF PauseReader
<1>16. CASE StopSource
  BY <1>16 DEF StopSource, SourceGivesUp
<1>17. CASE SeekData
  BY <1>17 DEF SeekData, SourceSeeks
<1>18. CASE FlushStop
  BY <1>18 DEF FlushStop, SourceRestarts
<1>19. CASE DeactivateSrc
  BY <1>19 DEF DeactivateSrc, SignalAdd, SignalDel
<1>20. CASE DeactivateSink
  BY <1>20 DEF DeactivateSink
<1>21. CASE CloseSource
  BY <1>21 DEF CloseSource, SourceStops
<1>22. CASE Closed
  BY <1>22 DEF Closed
<1>23. CASE PrepareCache \/ PostFull \/ WakeForCache \/ ChainCheck \/ PushEos
   \/ PauseAtError \/ UNCHANGED vars
  BY <1>23 DEF vars, PrepareCache, ClaimCache, PostFull, WakeForCache,
     ChainCheck, PushEos, PauseAtError
<1>24. QED
  BY <1>1, <1>2, <1>3, <1>4, <1>5, <1>6, <1>7, <1>8, <1>9, <1>10, <1>11,
     <1>12, <1>13, <1>14, <1>15, <1>16, <1>17, <1>18, <1>19, <1>20, <1>21,
     <1>22, <1>23 DEF Next, Source, Reader, Begin, Proceed

\* The cache at the writer's turn is not free: the writer has moved its index
\* or looked again, the caches are the same.
LEMMA SameLast ==
    ASSUME Typed, SourceFlow, Ordered, NEW t \in Slots, Held(t),
           Ahead, ~Stopped, Hungry', Ahead', ~Stopped',
           ~Held(cache_read_index) => cache_read_index = t,
           \A i \in Slots : Last(i)' <=> Last(i),
           cache_write_index' = t,
           UNCHANGED <<cache, cache_size, cache_write_ready, cache_read_index,
                       readerVars, connectionVars, pending_event, next>>
    PROVE  Ordered'
<1> USE DEF Ordered, Held, Data
<1>1. SlotsFilled'
  BY DEF SlotsFilled
<1>2. Held(cache_read_index) /\ t # -1
  BY DEF Slots
<1>3. Linked'
  BY <1>2 DEF Linked
<1>4. WriterAt' /\ WriterAhead'
  BY DEF WriterAt, WriterAhead, connectionVars
<1>5. ReaderAt'
  BY <1>2 DEF ReaderAt, Place, readerVars, connectionVars
<1>6. QED
  BY <1>1, <1>3, <1>4, <1>5

LEMMA DeliveringStep == Typed /\ SourceFlow /\ Pads /\ Unannounced /\
   Announced /\ Delivering /\ [Next]_vars => Delivering'
<1> SUFFICES ASSUME Typed, SourceFlow, Pads, Unannounced, Announced,
   Delivering, [Next]_vars PROVE Delivering'
  OBVIOUS
<1> USE DEF Open, sourceVars, ringVars, readerVars, padVars, connectionVars,
   flagVars, appVars, faultVars, downstreamVars
<1>1. CASE SourceSteps
  <2> SUFFICES ASSUME Open', ~send_new_segment', srcresult' = "OK"
               PROVE  Ordered' \/ Blocked'
    BY DEF Delivering
  <2>1. Open /\ ~send_new_segment /\ srcresult = "OK"
    BY <1>1 DEF SourceSteps
  <2>2. UNCHANGED <<ringVars, overtaken>>
    BY <1>1 DEF SourceSteps
  <2>3. CASE Ordered
    <3>1. /\ Hungry' <=> Hungry
          /\ ~Stopped' => /\ ~Stopped /\ (Ahead' <=> Ahead)
                          /\ mediaFileIndex' = mediaFileIndex
                          /\ ~Ahead => /\ Written' = Written
                                       /\ pending_event' = "NEWSEGMENT" =>
                                              offset' = SegmentSize
      BY <1>1, <2>1, <2>3
         DEF SourceSteps, SourceLoop, SourceLoopEnd, Hungry, Stopped, Ahead,
            Written,
             SourceFlow, Ordered, WriterAt, SourceParked, SourceTypes, Typed
    <3>2. Place' = Place /\ (rpc' = "push" => buffer' = next')
      BY <1>1, <2>1, <2>3 DEF SourceSteps, SourceLoop, SourceLoopEnd, Place,
         Ordered, ReaderAt
    <3>3. QED
      BY <2>2, <2>3, <3>1, <3>2, OrderedKept
  <2>4. CASE Blocked
    <3>1. rpc' # "push" /\ (Ahead \/ Stopped => Ahead' \/ Stopped')
      BY <1>1, <2>1, <2>4
         DEF SourceSteps, SourceLoop, SourceLoopEnd, Blocked, Ahead, Stopped,
            SourceFlow, SourceParked, SourceTypes, Typed
    <3>2. QED
      BY <2>2, <2>4, <3>1, BlockedKept
  <2>5. QED
    BY <2>1, <2>3, <2>4 DEF Delivering
<1>2. CASE loadNextSegment
  <2> SUFFICES ASSUME Open', ~send_new_segment', srcresult' = "OK"
               PROVE  Ordered' \/ Blocked'
    BY DEF Delivering
  <2>1. Open /\ ~send_new_segment /\ srcresult = "OK" /\ source_result = "OK"
        /\ UNCHANGED <<ringVars, overtaken, buffer, next, rpc>>
    BY <1>2 DEF loadNextSegment, SourceFlow, SourceParked
  <2>2. /\ spc = "segment" /\ pending_event = "NEWSEGMENT" /\ ~Stopped /\ ~Ahead
        /\ Ahead' /\ ~Hungry' /\ mediaFileIndex' = mediaFileIndex + 1
    BY <1>2, <2>1 DEF loadNextSegment, SourceFlow, Stopped, Ahead, Hungry
  <2>3. CASE Ordered
    <3>1. Place' = Place
      BY <2>1 DEF Place
    <3>2. QED
      BY <2>1, <2>2, <2>3, <3>1, NextSegment
  <2>4. CASE Blocked
    BY <2>1, <2>2, <2>4, BlockedKept DEF Blocked
  <2>5. QED
    BY <2>1, <2>3, <2>4 DEF Delivering
<1>3. CASE PushSegment
  <2> SUFFICES ASSUME Open', ~send_new_segment', srcresult' = "OK"
               PROVE  Ordered' \/ Blocked'
    BY DEF Delivering
  <2>1. Open /\ ~send_new_segment /\ srcresult = "OK"
    BY <1>3 DEF PushSegment
  <2>2. UNCHANGED <<ringVars, overtaken>>
    BY <1>3 DEF PushSegment
  <2>3. CASE Ordered
    <3>1. /\ Hungry' <=> Hungry
          /\ ~Stopped' => /\ ~Stopped /\ (Ahead' <=> Ahead)
                          /\ mediaFileIndex' = mediaFileIndex
                          /\ ~Ahead => /\ Written' = Written
                                       /\ pending_event' = "NEWSEGMENT" =>
                                              offset' = SegmentSize
      BY <1>3, <2>1, <2>3
         DEF PushSegment, Hungry, Stopped, Ahead, Written,
             SourceFlow, Ordered, WriterAt, SourceParked
    <3>2. Place' = Place /\ (rpc' = "push" => buffer' = next')
      BY <1>3, <2>1, <2>3 DEF PushSegment, Place, Ordered, ReaderAt
    <3>3. QED
      BY <2>2, <2>3, <3>1, <3>2, OrderedKept
  <2>4. CASE Blocked
    <3>1. rpc' # "push" /\ (Ahead \/ Stopped => Ahead' \/ Stopped')
      BY <1>3, <2>1, <2>4
         DEF PushSegment, Blocked, Ahead, Stopped, SourceFlow, SourceParked
    <3>2. QED
      BY <2>2, <2>4, <3>1, BlockedKept
  <2>5. QED
    BY <2>1, <2>3, <2>4 DEF Delivering
<1>4. CASE Restart
  <2> SUFFICES ASSUME Open', ~send_new_segment', srcresult' = "OK"
               PROVE  Ordered' \/ Blocked'
    BY DEF Delivering
  <2>1. Open /\ ~send_new_segment /\ srcresult = "OK"
    BY <1>4 DEF Restart, Announced, SourceFlow
  <2>2. UNCHANGED <<ringVars, overtaken>>
    BY <1>4 DEF Restart
  <2>3. CASE Ordered
    <3>1. /\ Hungry' <=> Hungry
          /\ ~Stopped' => /\ ~Stopped /\ (Ahead' <=> Ahead)
                          /\ mediaFileIndex' = mediaFileIndex
                          /\ ~Ahead => /\ Written' = Written
                                       /\ pending_event' = "NEWSEGMENT" =>
                                              offset' = SegmentSize
      BY <1>4, <2>1, <2>3
         DEF Restart, Hungry, Stopped, Ahead, Written,
             SourceFlow, Ordered, WriterAt
    <3>2. Place' = Place /\ (rpc' = "push" => buffer' = next')
      BY <1>4, <2>1, <2>3 DEF Restart, Place, Ordered, ReaderAt
    <3>3. QED
      BY <2>2, <2>3, <3>1, <3>2, OrderedKept
  <2>4. CASE Blocked
    <3>1. rpc' # "push" /\ (Ahead \/ Stopped => Ahead' \/ Stopped')
      BY <1>4, <2>1, <2>4
         DEF Restart, Blocked, Ahead, Stopped, SourceFlow
    <3>2. QED
      BY <2>2, <2>4, <3>1, BlockedKept
  <2>5. QED
    BY <2>1, <2>3, <2>4 DEF Delivering
<1>5. CASE AnnounceSegment
  <2> SUFFICES ASSUME Open', ~send_new_segment', srcresult' = "OK"
               PROVE  Ordered' \/ Blocked'
    BY DEF Delivering
  <2>1. /\ Open /\ srcresult = "OK" /\ UNCHANGED <<ringVars, overtaken, rpc, buffer>>
        /\ spc = "announce" /\ spc' = "prepare" /\ pending_event = "UNKNOWN"
        /\ UNCHANGED <<pending_event, mediaFileIndex, offset>>
    BY <1>5 DEF AnnounceSegment, SourceFlow
  <2>2. Ahead /\ Ahead' /\ ~Hungry /\ ~Hungry' /\ ~Stopped /\ ~Stopped'
    BY <2>1 DEF Ahead, Hungry, Stopped
  <2>3. CASE ~send_new_segment
    <3>1. next' = next /\ Place' = Place
      BY <1>5, <2>1, <2>3 DEF AnnounceSegment, Place
    <3>2. CASE Ordered
      BY <3>1, <3>2, <2>1, <2>2, OrderedKept DEF Ordered, ReaderAt
    <3>3. CASE Blocked
      BY <3>3, <2>1, <2>2, BlockedKept DEF Blocked
    <3>4. QED
      BY <2>1, <2>3, <3>2, <3>3 DEF Delivering
  <2>4. CASE send_new_segment
    <3>1. EmptyRing /\ rpc # "push" /\ next' = FirstBlock(mediaFileIndex)
      BY <1>5, <2>1, <2>4 DEF AnnounceSegment, Unannounced, Pads
    <3>2. EmptyRing'
      BY <2>1, <3>1, EmptyRingKept
    <3>3. CASE cache_write_index = 0 /\ ~cache_write_ready[0] /\ overtaken
      BY <3>1, <3>2, <3>3, <2>1, <2>2, FollowingFirst
         DEF EmptyRing, Blocked, Held, Data
    <3>4. CASE cache_write_index = -1 /\ \A i \in Slots : cache_write_ready[i]
      <4>1. /\ \A i \in Slots : ~Held(i)' /\ ~Last(i)'
            /\ cache_read_index' = 0 /\ cache_write_index' = -1
        BY <2>1, <2>2, <3>1, <3>4 DEF EmptyRing, Held, Last, Slots, ringVars
      <4>2. /\ Following(-1) = 0 /\ 0 \in Slots
            /\ \A i \in Slots : Following(i) \in Slots
        BY FollowingFirst, FollowingRange
      <4>3. SlotsFilled'
        BY <4>1, <3>2, EmptySeq DEF SlotsFilled, EmptyRing, Data
      <4>4. Linked'
        BY <4>1, <4>2, <2>2 DEF Linked
      <4>5. WriterAt' /\ WriterAhead'
        BY <4>1, <2>2 DEF WriterAt, WriterAhead
      <4>6. ReaderAt'
        BY <4>1, <4>2, <3>1, <2>1, <2>2 DEF ReaderAt, Place
      <4>7. QED
        BY <4>3, <4>4, <4>5, <4>6 DEF Ordered
    <3>5. QED
      BY <3>1, <3>3, <3>4 DEF EmptyRing
  <2>5. QED
    BY <2>3, <2>4
<1>6. CASE PrepareCache
  <2> SUFFICES ASSUME Open', ~send_new_segment', srcresult' = "OK"
               PROVE  Ordered' \/ Blocked'
    BY DEF Delivering
  <2>1. /\ Open /\ ~send_new_segment /\ srcresult = "OK"
        /\ UNCHANGED <<overtaken, cache_read_index, pending_event, readerVars,
                       connectionVars, next, source_task, source_result>>
        /\ spc = "prepare" /\ pending_event = "UNKNOWN"
    BY <1>6 DEF PrepareCache, SourceFlow
  <2>2. Ahead /\ ~Stopped /\ (Hungry <=> spc = "woken")
    BY <2>1 DEF Ahead, Stopped, Hungry
  <2>3. CASE Ordered \/ Blocked
    <3>1. PICK t \in Slots : /\ t = Following(cache_write_index)
                             /\ cache_write_index' = t /\ ClaimCache(t)
      BY <1>6, FollowingRange, FollowingFirst DEF PrepareCache, Typed,
         RingTypes
    <3>2. CASE Held(t)
      <4>1. spc' = "full" /\ UNCHANGED <<cache, cache_size, cache_write_ready, ret>>
        BY <2>1, <3>1, <3>2 DEF ClaimCache, Held
      <4>2. Hungry' /\ Ahead' /\ ~Stopped'
        BY <4>1 DEF Hungry, Ahead, Stopped
      <4>3. CASE Blocked
        BY <4>1, <4>2, <4>3, <3>1, <2>1
           DEF Blocked, Held, Data, readerVars
      <4>4. CASE Ordered
        <5>1. PICK w \in Slots : w = cache_write_index
          BY <3>2, <4>4 DEF Ordered, Linked, Typed, RingTypes
        <5>2. \A i \in Slots : Last(i)' <=> Last(i)
          BY <5>1, <4>2, <3>1, <2>1, <2>2, FollowingInjective DEF Last
        <5>3. ~Held(cache_read_index) => cache_read_index = t
          BY <2>1, <2>2, <3>1, <4>4 DEF Ordered, Linked
        <5>4. QED
          BY <5>1, <5>2, <5>3, <4>1, <4>2, <4>4, <3>1, <3>2, <2>1, <2>2,
             SameLast
      <4>5. QED
        BY <2>3, <4>3, <4>4
    <3>3. CASE ~Held(t)
      <4>1. /\ spc' = "end" /\ cache' = [cache EXCEPT ![t] = EmptyCache]
            /\ cache_size' = [cache_size EXCEPT ![t] = SegmentSize]
            /\ cache_write_ready' = [cache_write_ready EXCEPT ![t] = FALSE]
        BY <2>1, <3>1, <3>3 DEF ClaimCache, Held
      <4>2. CASE Blocked
        <5>1. t # cache_read_index
          BY <3>3, <4>2 DEF Blocked
        <5>2. QED
          BY <4>1, <4>2, <5>1, <3>1, <2>1 DEF Blocked, Held, Data, readerVars
      <4>3. CASE Ordered
        <5>1. \A i \in Slots : Held(i) => (Last(i) <=> Following(i) = t)
          <6>1. CASE cache_write_index = -1
            BY <6>1, <4>3 DEF Ordered, Linked
          <6>2. CASE cache_write_index # -1
            BY <6>2, <3>1, <2>1, <2>2, FollowingInjective
               DEF Last, Typed, RingTypes
          <6>3. QED
            BY <6>1, <6>2
        <5>2. ~Held(cache_read_index) => cache_read_index = t
          BY <2>1, <2>2, <3>1, <4>3 DEF Ordered, Linked
        <5>3. \A i \in Slots : Following(i) = t =>
                  (Held(i) <=> Held(cache_read_index))
          <6>1. CASE cache_write_index = -1
            BY <6>1, <4>3 DEF Ordered, Linked, Typed, RingTypes
          <6>2. CASE cache_write_index # -1
            BY <6>2, <3>1, <4>3, <2>1, <2>2, FollowingInjective
               DEF Last, Typed, RingTypes, Ordered, Linked
          <6>3. QED
            BY <6>1, <6>2
        <5>4. QED
          BY <2>1, <2>2, <3>1, <3>3, <4>1, <4>3, <5>1, <5>2, <5>3, CacheClaimed
      <4>4. QED
        BY <2>3, <4>2, <4>3
    <3>4. QED
      BY <3>2, <3>3
  <2>4. QED
    BY <2>1, <2>3 DEF Delivering
<1>7. CASE PostFull
  <2> SUFFICES ASSUME Open', ~send_new_segment', srcresult' = "OK"
               PROVE  Ordered' \/ Blocked'
    BY DEF Delivering
  <2>1. Open /\ ~send_new_segment /\ srcresult = "OK"
    BY <1>7 DEF PostFull
  <2>2. UNCHANGED <<ringVars, overtaken>>
    BY <1>7 DEF PostFull
  <2>3. CASE Ordered
    <3>1. /\ Hungry' <=> Hungry
          /\ ~Stopped' => /\ ~Stopped /\ (Ahead' <=> Ahead)
                          /\ mediaFileIndex' = mediaFileIndex
                          /\ ~Ahead => /\ Written' = Written
                                       /\ pending_event' = "NEWSEGMENT" =>
                                              offset' = SegmentSize
      BY <1>7, <2>1, <2>3
         DEF PostFull, Hungry, Stopped, Ahead, Written,
             SourceFlow, Ordered, WriterAt
    <3>2. Place' = Place /\ (rpc' = "push" => buffer' = next')
      BY <1>7, <2>1, <2>3 DEF PostFull, Place, Ordered, ReaderAt
    <3>3. QED
      BY <2>2, <2>3, <3>1, <3>2, OrderedKept
  <2>4. CASE Blocked
    <3>1. rpc' # "push" /\ (Ahead \/ Stopped => Ahead' \/ Stopped')
      BY <1>7, <2>1, <2>4
         DEF PostFull, Blocked, Ahead, Stopped, SourceFlow
    <3>2. QED
      BY <2>2, <2>4, <3>1, BlockedKept
  <2>5. QED
    BY <2>1, <2>3, <2>4 DEF Delivering
<1>8. CASE WakeForCache
  <2> SUFFICES ASSUME Open', ~send_new_segment', srcresult' = "OK"
               PROVE  Ordered' \/ Blocked'
    BY DEF Delivering
  <2>1. /\ Open /\ ~send_new_segment /\ srcresult = "OK"
        /\ UNCHANGED <<overtaken, cache_read_index, pending_event, readerVars,
                       connectionVars, next, source_task, source_result>>
        /\ spc = "woken" /\ pending_event = "UNKNOWN"
    BY <1>8 DEF WakeForCache, SourceFlow
  <2>2. Ahead /\ ~Stopped /\ (Hungry <=> spc = "woken")
    BY <2>1 DEF Ahead, Stopped, Hungry
  <2>3. CASE Ordered \/ Blocked
    <3>1. PICK t \in Slots : /\ t = cache_write_index
                             /\ cache_write_index' = t /\ ClaimCache(t)
      <4>1. cache_write_index \in Slots
        BY <2>1, <2>2, <2>3 DEF Blocked, Ordered, Linked, Typed, RingTypes
      <4>2. QED
        BY <1>8, <2>1, <4>1 DEF WakeForCache
    <3>2. CASE Held(t)
      <4>1. spc' = "full" /\ UNCHANGED <<cache, cache_size, cache_write_ready, ret>>
        BY <2>1, <3>1, <3>2 DEF ClaimCache, Held
      <4>2. Hungry' /\ Ahead' /\ ~Stopped'
        BY <4>1 DEF Hungry, Ahead, Stopped
      <4>3. CASE Blocked
        BY <4>1, <4>2, <4>3, <3>1, <2>1
           DEF Blocked, Held, Data, readerVars
      <4>4. CASE Ordered
        <5>1. \A i \in Slots : Last(i)' <=> Last(i)
          BY <4>2, <3>1, <2>1, <2>2 DEF Last
        <5>2. ~Held(cache_read_index) => cache_read_index = t
          BY <2>1, <2>2, <3>1, <4>4 DEF Ordered, Linked
        <5>3. QED
          BY <5>1, <5>2, <4>1, <4>2, <4>4, <3>1, <3>2, <2>1, <2>2, SameLast
      <4>5. QED
        BY <2>3, <4>3, <4>4
    <3>3. CASE ~Held(t)
      <4>1. /\ spc' = "end" /\ cache' = [cache EXCEPT ![t] = EmptyCache]
            /\ cache_size' = [cache_size EXCEPT ![t] = SegmentSize]
            /\ cache_write_ready' = [cache_write_ready EXCEPT ![t] = FALSE]
        BY <2>1, <3>1, <3>3 DEF ClaimCache, Held
      <4>2. CASE Blocked
        <5>1. t # cache_read_index
          BY <3>3, <4>2 DEF Blocked
        <5>2. QED
          BY <4>1, <4>2, <5>1, <3>1, <2>1 DEF Blocked, Held, Data, readerVars
      <4>3. CASE Ordered
        <5>1. \A i \in Slots : Held(i) => (Last(i) <=> Following(i) = t)
          BY <3>1, <2>1, <2>2 DEF Last
        <5>2. ~Held(cache_read_index) => cache_read_index = t
          BY <2>1, <2>2, <3>1, <4>3 DEF Ordered, Linked
        <5>3. \A i \in Slots : Following(i) = t =>
                  (Held(i) <=> Held(cache_read_index))
          BY <3>1, <4>3, <2>1, <2>2 DEF Last, Ordered, Linked
        <5>4. QED
          BY <2>1, <2>2, <3>1, <3>3, <4>1, <4>3, <5>1, <5>2, <5>3, CacheClaimed
      <4>4. QED
        BY <2>3, <4>2, <4>3
    <3>4. QED
      BY <3>2, <3>3
  <2>4. QED
    BY <2>1, <2>3 DEF Delivering
<1>9. CASE ReadNextBlock
  <2> SUFFICES ASSUME Open', ~send_new_segment', srcresult' = "OK"
               PROVE  Ordered' \/ Blocked'
    BY DEF Delivering
  <2>1. Open /\ ~send_new_segment /\ srcresult = "OK"
    BY <1>9 DEF ReadNextBlock
  <2>2. UNCHANGED <<ringVars, overtaken>>
    BY <1>9 DEF ReadNextBlock
  <2>3. CASE Ordered
    <3>1. /\ Hungry' <=> Hungry
          /\ ~Stopped' => /\ ~Stopped /\ (Ahead' <=> Ahead)
                          /\ mediaFileIndex' = mediaFileIndex
                          /\ ~Ahead => /\ Written' = Written
                                       /\ pending_event' = "NEWSEGMENT" =>
                                              offset' = SegmentSize
      BY <1>9, <2>1, <2>3
         DEF ReadNextBlock, Hungry, Stopped, Ahead, Written,
             SourceFlow, Ordered, WriterAt, Typed, SourceTypes
    <3>2. Place' = Place /\ (rpc' = "push" => buffer' = next')
      BY <1>9, <2>1, <2>3 DEF ReadNextBlock, Place, Ordered, ReaderAt
    <3>3. QED
      BY <2>2, <2>3, <3>1, <3>2, OrderedKept
  <2>4. CASE Blocked
    <3>1. rpc' # "push" /\ (Ahead \/ Stopped => Ahead' \/ Stopped')
      BY <1>9, <2>1, <2>4
         DEF ReadNextBlock, Blocked, Ahead, Stopped, SourceFlow, Typed,
            SourceTypes
    <3>2. QED
      BY <2>2, <2>4, <3>1, BlockedKept
  <2>5. QED
    BY <2>1, <2>3, <2>4 DEF Delivering
<1>10. CASE ChainCheck
  <2> SUFFICES ASSUME Open', ~send_new_segment', srcresult' = "OK"
               PROVE  Ordered' \/ Blocked'
    BY DEF Delivering
  <2>1. Open /\ ~send_new_segment /\ srcresult = "OK"
    BY <1>10 DEF ChainCheck
  <2>2. UNCHANGED <<ringVars, overtaken>>
    BY <1>10 DEF ChainCheck
  <2>3. CASE Ordered
    <3>1. /\ Hungry' <=> Hungry
          /\ ~Stopped' => /\ ~Stopped /\ (Ahead' <=> Ahead)
                          /\ mediaFileIndex' = mediaFileIndex
                          /\ ~Ahead => /\ Written' = Written
                                       /\ pending_event' = "NEWSEGMENT" =>
                                              offset' = SegmentSize
      BY <1>10, <2>1, <2>3
         DEF ChainCheck, Hungry, Stopped, Ahead, Written,
             SourceFlow, Ordered, WriterAt
    <3>2. Place' = Place /\ (rpc' = "push" => buffer' = next')
      BY <1>10, <2>1, <2>3 DEF ChainCheck, Place, Ordered, ReaderAt
    <3>3. QED
      BY <2>2, <2>3, <3>1, <3>2, OrderedKept
  <2>4. CASE Blocked
    <3>1. rpc' # "push" /\ (Ahead \/ Stopped => Ahead' \/ Stopped')
      BY <1>10, <2>1, <2>4
         DEF ChainCheck, Blocked, Ahead, Stopped, SourceFlow
    <3>2. QED
      BY <2>2, <2>4, <3>1, BlockedKept
  <2>5. QED
    BY <2>1, <2>3, <2>4 DEF Delivering
<1>11. CASE ChainWrite
  <2> SUFFICES ASSUME Open', ~send_new_segment', srcresult' = "OK"
               PROVE  Ordered' \/ Blocked'
    BY DEF Delivering
  <2>1. Open /\ ~send_new_segment /\ srcresult = "OK"
    BY <1>11 DEF ChainWrite
  <2>2. CASE Ordered
    BY <1>11, <2>2, BlockWritten
  <2>3. CASE Blocked
    <3>1. cache_write_index # cache_read_index
      BY <1>11, <2>3 DEF ChainWrite, Blocked, Ahead, Stopped, SourceFlow
    <3>2. cache'[cache_read_index] = cache[cache_read_index]
      BY <1>11, <3>1 DEF ChainWrite, Typed, RingTypes
    <3>3. UNCHANGED <<cache_write_ready, cache_write_index, cache_read_index,
                      overtaken>> /\ rpc' # "push"
      BY <1>11, <2>3 DEF ChainWrite, SignalAdd, Blocked
    <3>4. QED
      BY <2>3, <3>1, <3>2, <3>3 DEF Blocked, Held, Data
  <2>4. QED
    BY <2>1, <2>2, <2>3 DEF Delivering
<1>12. CASE PushEos
  <2> SUFFICES ASSUME Open', ~send_new_segment', srcresult' = "OK"
               PROVE  Ordered' \/ Blocked'
    BY DEF Delivering
  <2>1. Open /\ ~send_new_segment /\ srcresult = "OK"
    BY <1>12 DEF PushEos
  <2>2. UNCHANGED <<ringVars, overtaken>>
    BY <1>12 DEF PushEos
  <2>3. CASE Ordered
    <3>1. /\ Hungry' <=> Hungry
          /\ ~Stopped' => /\ ~Stopped /\ (Ahead' <=> Ahead)
                          /\ mediaFileIndex' = mediaFileIndex
                          /\ ~Ahead => /\ Written' = Written
                                       /\ pending_event' = "NEWSEGMENT" =>
                                              offset' = SegmentSize
      BY <1>12, <2>1, <2>3
         DEF PushEos, Hungry, Stopped, Ahead, Written,
             SourceFlow, Ordered, WriterAt
    <3>2. Place' = Place /\ (rpc' = "push" => buffer' = next')
      BY <1>12, <2>1, <2>3 DEF PushEos, Place, Ordered, ReaderAt
    <3>3. QED
      BY <2>2, <2>3, <3>1, <3>2, OrderedKept
  <2>4. CASE Blocked
    <3>1. rpc' # "push" /\ (Ahead \/ Stopped => Ahead' \/ Stopped')
      BY <1>12, <2>1, <2>4
         DEF PushEos, Blocked, Ahead, Stopped, SourceFlow
    <3>2. QED
      BY <2>2, <2>4, <3>1, BlockedKept
  <2>5. QED
    BY <2>1, <2>3, <2>4 DEF Delivering
<1>13. CASE ReceiveEos
  <2> SUFFICES ASSUME Open', ~send_new_segment', srcresult' = "OK"
               PROVE  Ordered' \/ Blocked'
    BY DEF Delivering
  <2>1. Open /\ ~send_new_segment /\ srcresult = "OK"
    BY <1>13 DEF ReceiveEos
  <2>2. UNCHANGED <<ringVars, overtaken>>
    BY <1>13 DEF ReceiveEos
  <2>3. CASE Ordered
    <3>1. /\ Hungry' <=> Hungry
          /\ ~Stopped' => /\ ~Stopped /\ (Ahead' <=> Ahead)
                          /\ mediaFileIndex' = mediaFileIndex
                          /\ ~Ahead => /\ Written' = Written
                                       /\ pending_event' = "NEWSEGMENT" =>
                                              offset' = SegmentSize
      BY <1>13, <2>1, <2>3
         DEF ReceiveEos, SignalAdd, Hungry, Stopped, Ahead, Written,
             SourceFlow, Ordered, WriterAt
    <3>2. Place' = Place /\ (rpc' = "push" => buffer' = next')
      BY <1>13, <2>1, <2>3 DEF ReceiveEos, SignalAdd, Place, Ordered, ReaderAt
    <3>3. QED
      BY <2>2, <2>3, <3>1, <3>2, OrderedKept
  <2>4. CASE Blocked
    <3>1. rpc' # "push" /\ (Ahead \/ Stopped => Ahead' \/ Stopped')
      BY <1>13, <2>1, <2>4
         DEF ReceiveEos, SignalAdd, Blocked, Ahead, Stopped, SourceFlow
    <3>2. QED
      BY <2>2, <2>4, <3>1, BlockedKept
  <2>5. QED
    BY <2>1, <2>3, <2>4 DEF Delivering
<1>14. CASE ReaderLoop
  <2> SUFFICES ASSUME Open', ~send_new_segment', srcresult' = "OK"
               PROVE  Ordered' \/ Blocked'
    BY DEF Delivering
  <2>1. Open /\ ~send_new_segment /\ srcresult = "OK" /\ rpc # "push"
        /\ UNCHANGED <<overtaken, cache_write_index, pending_event, source_task,
                       ret, mediaFileIndex, offset, next>>
    BY <1>14 DEF ReaderLoop
  <2>2. CASE cache_has_enough_data(cache[cache_read_index])
    <3>1. ~Blocked
      <4>1. cache[cache_read_index].data = <<>> /\ cache[cache_read_index].read = 0
            => FALSE
        BY <2>2 DEF cache_has_enough_data
      <4>2. QED
        BY <4>1 DEF Blocked, Data
    <3>2. Ordered
      BY <2>1, <3>1 DEF Delivering
    <3>3. QED
      BY <1>14, <2>1, <2>2, <3>2, BlockRead
  <2>3. CASE ~cache_has_enough_data(cache[cache_read_index])
    <3>1. UNCHANGED <<ringVars, spc>> /\ rpc' # "push"
      BY <1>14, <2>1, <2>3 DEF ReaderLoop
    <3>2. /\ Hungry' <=> Hungry
          /\ Ahead' <=> Ahead
          /\ Stopped' <=> Stopped
          /\ Written' = Written
      BY <2>1, <3>1 DEF Hungry, Ahead, Stopped, Written
    <3>3. Place' = Place
      BY <2>1, <3>1 DEF Place
    <3>4. CASE Ordered
      BY <2>1, <3>1, <3>2, <3>3, <3>4, OrderedKept DEF Ordered, WriterAt
    <3>5. CASE Blocked
      BY <2>1, <3>1, <3>2, <3>5, BlockedKept
    <3>6. QED
      BY <2>1, <3>4, <3>5 DEF Delivering
  <2>4. QED
    BY <2>2, <2>3
<1>15. CASE PushBlock
  <2> SUFFICES ASSUME Open', ~send_new_segment', srcresult' = "OK"
               PROVE  Ordered' \/ Blocked'
    BY DEF Delivering
  <2>1. Open /\ ~send_new_segment /\ srcresult = "OK"
    BY <1>15 DEF PushBlock
  <2>2. UNCHANGED <<ringVars, overtaken>>
    BY <1>15 DEF PushBlock
  <2>3. CASE Ordered
    <3>1. /\ Hungry' <=> Hungry
          /\ ~Stopped' => /\ ~Stopped /\ (Ahead' <=> Ahead)
                          /\ mediaFileIndex' = mediaFileIndex
                          /\ ~Ahead => /\ Written' = Written
                                       /\ pending_event' = "NEWSEGMENT" =>
                                              offset' = SegmentSize
      BY <1>15, <2>1, <2>3
         DEF PushBlock, Hungry, Stopped, Ahead, Written,
             SourceFlow, Ordered, WriterAt
    <3>2. Place' = Place /\ (rpc' = "push" => buffer' = next')
      BY <1>15, <2>1, <2>3 DEF PushBlock, Place, Ordered, ReaderAt
    <3>3. QED
      BY <2>2, <2>3, <3>1, <3>2, OrderedKept
  <2>4. CASE Blocked
    <3>1. rpc' # "push" /\ (Ahead \/ Stopped => Ahead' \/ Stopped')
      BY <1>15, <2>1, <2>4
         DEF PushBlock, Blocked, Ahead, Stopped, SourceFlow
    <3>2. QED
      BY <2>2, <2>4, <3>1, BlockedKept
  <2>5. QED
    BY <2>1, <2>3, <2>4 DEF Delivering
<1>16. CASE PauseAtError
  <2> SUFFICES ASSUME Open', ~send_new_segment', srcresult' = "OK"
               PROVE  Ordered' \/ Blocked'
    BY DEF Delivering
  <2>1. Open /\ ~send_new_segment /\ srcresult = "OK"
    BY <1>16 DEF PauseAtError
  <2>2. UNCHANGED <<ringVars, overtaken>>
    BY <1>16 DEF PauseAtError
  <2>3. CASE Ordered
    <3>1. /\ Hungry' <=> Hungry
          /\ ~Stopped' => /\ ~Stopped /\ (Ahead' <=> Ahead)
                          /\ mediaFileIndex' = mediaFileIndex
                          /\ ~Ahead => /\ Written' = Written
                                       /\ pending_event' = "NEWSEGMENT" =>
                                              offset' = SegmentSize
      BY <1>16, <2>1, <2>3
         DEF PauseAtError, Hungry, Stopped, Ahead, Written,
             SourceFlow, Ordered, WriterAt
    <3>2. Place' = Place /\ (rpc' = "push" => buffer' = next')
      BY <1>16, <2>1, <2>3 DEF PauseAtError, Place, Ordered, ReaderAt
    <3>3. QED
      BY <2>2, <2>3, <3>1, <3>2, OrderedKept
  <2>4. CASE Blocked
    <3>1. rpc' # "push" /\ (Ahead \/ Stopped => Ahead' \/ Stopped')
      BY <1>16, <2>1, <2>4
         DEF PauseAtError, Blocked, Ahead, Stopped, SourceFlow
    <3>2. QED
      BY <2>2, <2>4, <3>1, BlockedKept
  <2>5. QED
    BY <2>1, <2>3, <2>4 DEF Delivering
<1>17. CASE FlushStart
  <2> SUFFICES ASSUME Open', ~send_new_segment', srcresult' = "OK"
               PROVE  Ordered' \/ Blocked'
    BY DEF Delivering
  <2>1. Open /\ ~send_new_segment /\ srcresult = "OK"
    BY <1>17 DEF FlushStart
  <2>2. UNCHANGED <<ringVars, overtaken>>
    BY <1>17 DEF FlushStart
  <2>3. CASE Ordered
    <3>1. /\ Hungry' <=> Hungry
          /\ ~Stopped' => /\ ~Stopped /\ (Ahead' <=> Ahead)
                          /\ mediaFileIndex' = mediaFileIndex
                          /\ ~Ahead => /\ Written' = Written
                                       /\ pending_event' = "NEWSEGMENT" =>
                                              offset' = SegmentSize
      BY <1>17, <2>1, <2>3
         DEF FlushStart, Hungry, Stopped, Ahead, Written,
             SourceFlow, Ordered, WriterAt
    <3>2. Place' = Place /\ (rpc' = "push" => buffer' = next')
      BY <1>17, <2>1, <2>3 DEF FlushStart, Place, Ordered, ReaderAt
    <3>3. QED
      BY <2>2, <2>3, <3>1, <3>2, OrderedKept
  <2>4. CASE Blocked
    <3>1. rpc' # "push" /\ (Ahead \/ Stopped => Ahead' \/ Stopped')
      BY <1>17, <2>1, <2>4
         DEF FlushStart, Blocked, Ahead, Stopped, SourceFlow
    <3>2. QED
      BY <2>2, <2>4, <3>1, BlockedKept
  <2>5. QED
    BY <2>1, <2>3, <2>4 DEF Delivering
<1>18. CASE CloseRing
  BY <1>18 DEF CloseRing, Delivering
<1>19. CASE ForwardFlush
  BY <1>19 DEF ForwardFlush, Delivering
<1>20. CASE FlushRing
  BY <1>20 DEF FlushRing, Delivering
<1>21. CASE PauseReader
  BY <1>21 DEF PauseReader, Delivering
<1>22. CASE StopSource
  BY <1>22 DEF StopSource, Delivering
<1>23. CASE SeekData
  BY <1>23 DEF SeekData, Delivering
<1>24. CASE FlushStop
  BY <1>24 DEF FlushStop, Delivering
<1>25. CASE DeactivateSrc
  BY <1>25 DEF DeactivateSrc, Delivering
<1>26. CASE DeactivateSink
  BY <1>26 DEF DeactivateSink, Delivering
<1>27. CASE CloseSource
  BY <1>27 DEF CloseSource, Delivering
<1>28. CASE Closed
  BY <1>28 DEF Closed, Delivering
<1>29. CASE UNCHANGED vars
  <2> SUFFICES ASSUME Open', ~send_new_segment', srcresult' = "OK"
               PROVE  Ordered' \/ Blocked'
    BY DEF Delivering
  <2>1. Open /\ ~send_new_segment /\ srcresult = "OK"
    BY <1>29 DEF vars
  <2>2. UNCHANGED <<ringVars, overtaken>>
    BY <1>29 DEF vars
  <2>3. CASE Ordered
    <3>1. /\ Hungry' <=> Hungry
          /\ ~Stopped' => /\ ~Stopped /\ (Ahead' <=> Ahead)
                          /\ mediaFileIndex' = mediaFileIndex
                          /\ ~Ahead => /\ Written' = Written
                                       /\ pending_event' = "NEWSEGMENT" =>
                                              offset' = SegmentSize
      BY <1>29, <2>1, <2>3
         DEF vars, Hungry, Stopped, Ahead, Written,
             SourceFlow, Ordered, WriterAt
    <3>2. Place' = Place /\ (rpc' = "push" => buffer' = next')
      BY <1>29, <2>1, <2>3 DEF vars, Place, Ordered, ReaderAt
    <3>3. QED
      BY <2>2, <2>3, <3>1, <3>2, OrderedKept
  <2>4. CASE Blocked
    <3>1. rpc' # "push" /\ (Ahead \/ Stopped => Ahead' \/ Stopped')
      BY <1>29, <2>1, <2>4
         DEF vars, Blocked, Ahead, Stopped, SourceFlow
    <3>2. QED
      BY <2>2, <2>4, <3>1, BlockedKept
  <2>5. QED
    BY <2>1, <2>3, <2>4 DEF Delivering
<1>30. QED
  BY <1>1, <1>2, <1>3, <1>4, <1>5, <1>6, <1>7, <1>8, <1>9, <1>10, <1>11,
     <1>12, <1>13, <1>14, <1>15, <1>16, <1>17, <1>18, <1>19, <1>20, <1>21,
     <1>22, <1>23, <1>24, <1>25, <1>26, <1>27, <1>28, <1>29 DEF Next, Source,
     Reader, Begin, Proceed

-----------------------------------------------------------------------------
(* The writer's cache and the end of the stream.                           *)

LEMMA WritingInit == Init => Writing /\ EndLast
BY DEF Init, SourceInit, Writing, EndLast

LEMMA WritingStep == Typed /\ SourceFlow /\ Pads /\ Unannounced /\ Announced
   /\ Delivering /\ Writing /\ [Next]_vars => Writing'
<1> SUFFICES ASSUME Typed, SourceFlow, Pads, Unannounced, Announced,
   Delivering, Writing, [Next]_vars PROVE Writing'
  OBVIOUS
<1> USE DEF Open, sourceVars, ringVars, readerVars, padVars, connectionVars,
   flagVars, appVars, faultVars, downstreamVars
<1>1. CASE SourceSteps
  BY <1>1 DEF SourceSteps, SourceLoop, SourceLoopEnd, Writing
<1>2. CASE loadNextSegment
  BY <1>2 DEF loadNextSegment, Writing
<1>3. CASE PushSegment
  BY <1>3 DEF PushSegment, Writing
<1>4. CASE Restart
  BY <1>4 DEF Restart, Writing
<1>5. CASE AnnounceSegment
  BY <1>5 DEF AnnounceSegment, Writing
<1>6. CASE PrepareCache
  BY <1>6 DEF PrepareCache, ClaimCache, Writing
<1>7. CASE PostFull
  BY <1>7 DEF PostFull, Writing
<1>8. CASE WakeForCache
  BY <1>8 DEF WakeForCache, ClaimCache, Writing
<1>9. CASE ReadNextBlock
  BY <1>9 DEF ReadNextBlock, Writing
<1>10. CASE ChainCheck
  <2> DEFINE w == cache_write_index
             f == [b \in 1..(offset - 1) |-> FirstBlock(mediaFileIndex) + b - 1]
  <2> SUFFICES ASSUME spc' = "write", ~overtaken, ~failed, Open \/ kpc = "empty"
      PROVE /\ w \in Slots /\ Held(w) /\ cache_size[w] = SegmentSize
            /\ cache[w].read <= offset - 1
            /\ Data(w) = f
    BY <1>10 DEF ChainCheck, Writing, Held, Data
  <2>1. spc = "chain" /\ ~is_flushing /\ ~sinkFlushing /\ pending_event = "UNKNOWN"
    BY <1>10 DEF ChainCheck, SourceFlow
  <2>2. Open
    BY <2>1 DEF Pads
  <2>3. ~send_new_segment
    BY <2>1, <2>2 DEF Unannounced, Stopped
  <2>4. srcresult = "OK"
    BY <2>1, <2>2, <2>3 DEF Announced
  <2>5. Ordered
    BY <2>2, <2>3, <2>4 DEF Delivering, Blocked
  <2>6. ~Stopped /\ ~Ahead /\ Written = offset - 1
    BY <2>1 DEF Stopped, Ahead, Written
  <2>7. offset \in 1..SegmentSize /\ SegmentSize \in Nat
    BY <2>1, PlaylistAssumption DEF Typed, SourceTypes
  <2>8. /\ w \in Slots /\ Held(w) /\ Len(Data(w)) = offset - 1
        /\ \A k \in 1..(offset - 1) : Data(w)[k] =
                                          FirstBlock(mediaFileIndex) + k - 1
    BY <2>5, <2>6, <2>7 DEF Ordered, WriterAt
  <2>9. cache_size[w] = SegmentSize /\ cache[w].read <= offset - 1
    BY <2>5, <2>8 DEF Ordered, SlotsFilled
  <2>10. Data(w) \in Seq(1..Total)
    BY <2>8, DataTypes DEF Typed
  <2>11. Data(w) = [k \in 1..Len(Data(w)) |-> Data(w)[k]]
    BY <2>10, LenProperties
  <2>12. QED
    BY <2>8, <2>9, <2>11
<1>11. CASE ChainWrite
  BY <1>11 DEF ChainWrite, SignalAdd, Writing
<1>12. CASE PushEos
  BY <1>12 DEF PushEos, Writing
<1>13. CASE ReceiveEos
  BY <1>13 DEF ReceiveEos, SignalAdd, Writing
<1>14. CASE ReaderLoop
  <2> SUFFICES ASSUME spc' = "write", ~overtaken, ~failed, Open \/ kpc = "empty"
               PROVE  Writing'
    BY <1>14 DEF ReaderLoop, Writing
  <2> DEFINE w == cache_write_index
             r == cache_read_index
  <2>1. spc = "write"
    BY <1>14 DEF ReaderLoop, ReadBlock, SignalDel
  <2>2. /\ w \in Slots /\ Held(w) /\ cache_size[w] = SegmentSize
        /\ cache[w].read <= offset - 1
        /\ Data(w) =
               [b \in 1..(offset - 1) |-> FirstBlock(mediaFileIndex) + b - 1]
    BY <1>14, <2>1 DEF Writing, ReaderLoop
  <2>3. offset \in 1..SegmentSize /\ SegmentSize \in Nat
    BY <2>1, PlaylistAssumption DEF Typed, SourceTypes
  <2>4. Len(Data(w)) = offset - 1
    BY <2>2, <2>3
  <2>5. UNCHANGED <<cache_write_index, cache_size, mediaFileIndex, offset>>
    BY <1>14 DEF ReaderLoop
  <2>6. CASE UNCHANGED <<cache, cache_write_ready>>
    BY <2>2, <2>5, <2>6 DEF Writing, Held, Data
  <2>7. CASE ReadBlock /\ cache_has_enough_data(cache[r])
    <3>1. r \in Slots /\ cache[r] \in Cache
      BY DEF Typed, RingTypes
    <3>2. CASE r = w
      <4>1. cache[w].read < Len(Data(w)) /\ cache[w].read \in Nat
        BY <2>7, <3>1, <3>2 DEF cache_has_enough_data, Data, Cache
      <4>2. cache[w].read + 1 # cache_size[w] /\ cache[w].read + 1 <= offset - 1
        BY <2>2, <2>3, <2>4, <4>1
      <4>3. cache' = [cache EXCEPT ![w].read = cache[w].read + 1]
            /\ UNCHANGED cache_write_ready
        BY <2>7, <3>2, <4>2 DEF ReadBlock
      <4>4. cache'[w].read = cache[w].read + 1 /\ cache'[w].data = cache[w].data
        BY <2>2, <4>3 DEF Typed, RingTypes, Cache
      <4>5. QED
        BY <2>2, <2>5, <4>2, <4>3, <4>4 DEF Writing, Held, Data
    <3>3. CASE r # w
      <4>1. cache'[w] = cache[w] /\ (cache_write_ready'[w] <=> cache_write_ready[w])
        BY <2>2, <2>7, <3>1, <3>3 DEF ReadBlock, Typed, RingTypes, Flags
      <4>2. QED
        BY <2>2, <2>5, <4>1 DEF Writing, Held, Data
    <3>4. QED
      BY <3>2, <3>3
  <2>8. QED
    BY <1>14, <2>6, <2>7 DEF ReaderLoop
<1>15. CASE PushBlock
  <2>1. failed => failed'
    BY <1>15 DEF PushBlock
  <2>2. QED
    BY <1>15, <2>1 DEF PushBlock, Writing, Held, Data
<1>16. CASE PauseAtError
  BY <1>16 DEF PauseAtError, Writing, Held, Data
<1>17. CASE FlushStart
  BY <1>17 DEF FlushStart, Writing, Held, Data
<1>18. CASE CloseRing
  BY <1>18 DEF CloseRing, flush_data, SignalAdd, SignalDel, Writing
<1>19. CASE ForwardFlush
  BY <1>19 DEF ForwardFlush, Writing, Held, Data
<1>20. CASE FlushRing
  BY <1>20 DEF FlushRing, flush_data, SignalAdd, SignalDel, Writing
<1>21. CASE PauseReader
  BY <1>21 DEF PauseReader, Writing
<1>22. CASE StopSource
  BY <1>22 DEF StopSource, SourceGivesUp, Writing
<1>23. CASE SeekData
  BY <1>23 DEF SeekData, SourceSeeks, Writing
<1>24. CASE FlushStop
  BY <1>24 DEF FlushStop, SourceRestarts, Writing, SourceFlow, SourceParked
<1>25. CASE DeactivateSrc
  BY <1>25 DEF DeactivateSrc, SignalAdd, SignalDel, Writing
<1>26. CASE DeactivateSink
  BY <1>26 DEF DeactivateSink, Writing
<1>27. CASE CloseSource
  BY <1>27 DEF CloseSource, SourceStops, Writing
<1>28. CASE Closed
  BY <1>28 DEF Closed, Writing
<1>29. CASE UNCHANGED vars
  BY <1>29 DEF vars, Writing, Held, Data
<1>30. QED
  BY <1>1, <1>2, <1>3, <1>4, <1>5, <1>6, <1>7, <1>8, <1>9, <1>10, <1>11,
     <1>12, <1>13, <1>14, <1>15, <1>16, <1>17, <1>18, <1>19, <1>20, <1>21,
     <1>22, <1>23, <1>24, <1>25, <1>26, <1>27, <1>28, <1>29 DEF Next, Source,
     Reader, Begin, Proceed

LEMMA EndLastStep == Typed /\ SourceFlow /\ Pads /\ Unannounced /\ Announced
   /\ Delivering /\ EndLast /\ [Next]_vars => EndLast'
<1> SUFFICES ASSUME Typed, SourceFlow, Pads, Unannounced, Announced,
   Delivering, EndLast, [Next]_vars PROVE EndLast'
  OBVIOUS
<1> USE DEF EndLast, Open, sourceVars, ringVars, readerVars, padVars,
   connectionVars, flagVars, appVars, faultVars, downstreamVars
<1>1. CASE SourceSteps
  BY <1>1 DEF SourceSteps, SourceLoop, SourceLoopEnd
<1>2. CASE loadNextSegment
  <2>1. failed => failed'
    BY <1>2 DEF loadNextSegment
  <2>2. QED
    BY <1>2, <2>1 DEF loadNextSegment
<1>3. CASE PushSegment
  BY <1>3 DEF PushSegment
<1>4. CASE Restart
  BY <1>4 DEF Restart
<1>5. CASE AnnounceSegment
  BY <1>5 DEF AnnounceSegment, Unannounced, SourceFlow, Pads
<1>6. CASE ReadNextBlock
  BY <1>6 DEF ReadNextBlock
<1>7. CASE ReaderLoop
  <2> SUFFICES ASSUME ended', Open, announced > 0, ~overtaken, ~failed
               PROVE  next > Total
    BY <1>7 DEF ReaderLoop
  <2>1. CASE ended
    BY <2>1
  <2>2. CASE ~ended
    <3> DEFINE r == cache_read_index
    <3>1. is_eos /\ srcresult = "OK" /\ ~cache_has_enough_data(cache[r])
          /\ rpc # "push"
      BY <1>7, <2>2 DEF ReaderLoop
    <3>2. ~send_new_segment
      BY DEF Unannounced
    <3>3. pending_event = "EOS" /\ mediaFileIndex > SegmentCount /\ Ahead
          /\ ~Stopped
      BY <3>1, <3>2 DEF Announced, SourceFlow, Ahead, Stopped
    <3>4. Ordered
      BY <3>1, <3>2 DEF Delivering, Blocked
    <3>5. r \in Slots /\ SegmentSize \in Nat /\ mediaFileIndex \in Nat
      BY PlaylistAssumption DEF Typed, RingTypes, SourceTypes
    <3>6. ~Held(r)
      <4> SUFFICES ASSUME Held(r) PROVE FALSE
        OBVIOUS
      <4>1. Len(Data(r)) = SegmentSize
        BY <3>3, <3>4, <3>5, LastFull
      <4>2. cache[r].read < SegmentSize
        BY <3>4, <3>5 DEF Ordered, SlotsFilled
      <4>3. QED
        BY <3>1, <4>1, <4>2 DEF cache_has_enough_data, Data
    <3>7. next = FirstBlock(mediaFileIndex)
      BY <3>1, <3>3, <3>4, <3>6 DEF Ordered, ReaderAt, Place
    <3>8. QED
      BY <3>3, <3>5, <3>7, BehindTheStream
  <2>3. QED
    BY <2>1, <2>2
<1>8. CASE PushBlock
  <2>1. failed => failed'
    BY <1>8 DEF PushBlock
  <2>2. ended /\ Open /\ announced > 0 => next' = next
    <3> SUFFICES ASSUME ended, Open, announced > 0 PROVE FALSE
      OBVIOUS
    <3>1. srcresult # "OK"
      BY DEF Pads
    <3>2. ~send_new_segment
      BY DEF Unannounced
    <3>3. QED
      BY <1>8, <3>1, <3>2 DEF PushBlock, Announced
  <2>3. QED
    BY <1>8, <2>1, <2>2 DEF PushBlock
<1>9. CASE FlushStart
  BY <1>9 DEF FlushStart
<1>10. CASE CloseRing
  BY <1>10 DEF CloseRing, flush_data, SignalAdd, SignalDel
<1>11. CASE ForwardFlush
  BY <1>11 DEF ForwardFlush
<1>12. CASE FlushRing
  BY <1>12 DEF FlushRing, flush_data, SignalAdd, SignalDel
<1>13. CASE PauseReader
  BY <1>13 DEF PauseReader
<1>14. CASE StopSource
  BY <1>14 DEF StopSource, SourceGivesUp
<1>15. CASE SeekData
  BY <1>15 DEF SeekData, SourceSeeks
<1>16. CASE FlushStop
  BY <1>16 DEF FlushStop, SourceRestarts, Pads, Closing
<1>17. CASE DeactivateSrc
  BY <1>17 DEF DeactivateSrc, SignalAdd, SignalDel
<1>18. CASE DeactivateSink
  BY <1>18 DEF DeactivateSink
<1>19. CASE CloseSource
  BY <1>19 DEF CloseSource, SourceStops
<1>20. CASE Closed
  BY <1>20 DEF Closed
<1>21. CASE PrepareCache \/ PostFull \/ WakeForCache \/ ChainCheck \/
   ChainWrite \/ PushEos \/ ReceiveEos \/ PauseAtError \/ UNCHANGED vars
  BY <1>21 DEF vars, PrepareCache, ClaimCache, PostFull, WakeForCache,
     ChainCheck, ChainWrite, SignalAdd, PushEos, ReceiveEos, PauseAtError
<1>22. QED
  BY <1>1, <1>2, <1>3, <1>4, <1>5, <1>6, <1>7, <1>8, <1>9, <1>10, <1>11,
     <1>12, <1>13, <1>14, <1>15, <1>16, <1>17, <1>18, <1>19, <1>20, <1>21 DEF
     Next, Source, Reader, Begin, Proceed

-----------------------------------------------------------------------------
(* The theorems.                                                           *)

\* The ring of caches keeps to its invariant.
THEOREM Invariance == Spec => []IndInv
<1>1. Init => IndInv
  BY TypedInit, SourceFlowInit, PadsInit, FlushedInit, UnannouncedInit,
     AnnouncedInit, WritingInit DEF IndInv
<1>2. IndInv /\ [Next]_vars => IndInv'
  <2> SUFFICES ASSUME IndInv, [Next]_vars PROVE IndInv'
    OBVIOUS
  <2>1. Typed' /\ SourceFlow' /\ Pads'
    BY TypedStep, SourceFlowStep, PadsStep DEF IndInv, Typed
  <2>2. Flushed' /\ Unannounced' /\ Announced'
    BY FlushedStep, UnannouncedStep, AnnouncedStep DEF IndInv, Typed
  <2>3. Delivering' /\ Writing' /\ EndLast'
    BY DeliveringStep, WritingStep, EndLastStep DEF IndInv
  <2>4. QED
    BY <2>1, <2>2, <2>3 DEF IndInv
<1>3. QED
  BY <1>1, <1>2, PTL DEF Spec

\* RingConsistent, for every length of the ring and of the playlist, any number
\* of seeks and any failures: the writer owns the cache it writes to, and EOS
\* is behind the last block.
THEOREM RingStaysConsistent == Spec => []RingConsistent
<1>1. IndInv => RingConsistent
  <2> SUFFICES ASSUME IndInv PROVE RingConsistent
    OBVIOUS
  <2>1. TypeOK
    BY TypedTypeOK DEF IndInv
  <2>2. Closing \/ Open \/ Emptied \/ kpc = "empty"
    BY DEF IndInv, Typed, AppTypes, Closing, Open, Emptied
  <2>3. WritesOwnCache
    BY <2>2 DEF IndInv, WritesOwnCache, Writing, Flushed, PastTheTest, Held,
       Data
  <2>4. EosAtEnd
    BY <2>2 DEF IndInv, EosAtEnd, EndLast, Pads
  <2>5. QED
    BY <2>1, <2>3, <2>4 DEF RingConsistent
<1>2. QED
  BY <1>1, Invariance, PTL

\* A step of the ring is a step of the ordered stream: the announcement of a
\* segment, a block that is pushed, the flush that goes downstream.
LEMMA StepInOrder == IndInv /\ [Next]_vars => [OS!OSNext]_OS!osVars
<1> SUFFICES ASSUME IndInv, [Next]_vars PROVE [OS!OSNext]_OS!osVars
  OBVIOUS
<1> USE DEF OS!OSNext, OS!osVars
<1>1. CASE AnnounceSegment
  <2>1. FirstBlock(mediaFileIndex) \in Nat
    BY <1>1, BlocksInStream, PlaylistAssumption
       DEF AnnounceSegment, IndInv, Typed, SourceTypes, SourceFlow
  <2>2. QED
    BY <1>1, <2>1 DEF AnnounceSegment, OS!Announce
<1>2. CASE PushBlock
  <2>1. CASE next' = next
    BY <1>2, <2>1 DEF PushBlock
  <2>2. CASE next' # next
    <3>1. ~srcFlushing /\ rpc = "push" /\ next' = buffer + 1 /\ announced' = announced
      BY <1>2, <2>2 DEF PushBlock
    <3>2. Open
      BY <3>1 DEF IndInv, Pads
    <3>3. ~send_new_segment
      BY <3>1, <3>2 DEF IndInv, Unannounced
    <3>4. srcresult = "OK" /\ announced > 0
      BY <3>1, <3>2, <3>3 DEF IndInv, Announced
    <3>5. Ordered
      BY <3>1, <3>2, <3>3, <3>4 DEF IndInv, Delivering, Blocked
    <3>6. buffer = next
      BY <3>1, <3>5 DEF Ordered, ReaderAt
    <3>7. QED
      BY <3>1, <3>4, <3>6 DEF OS!Deliver
  <2>3. QED
    BY <2>1, <2>2
<1>3. CASE ForwardFlush
  BY <1>3 DEF ForwardFlush, OS!Flush

<1>4. CASE SourceSteps \/ loadNextSegment \/ PushSegment \/ Restart \/
   PrepareCache \/ PostFull \/ WakeForCache \/ ReadNextBlock \/ ChainCheck \/
   ChainWrite \/ PushEos \/ ReceiveEos \/ ReaderLoop \/ PauseAtError \/
   FlushStart \/ CloseRing \/ FlushRing \/ PauseReader \/ StopSource \/
   SeekData \/ FlushStop \/ DeactivateSrc \/ DeactivateSink \/ CloseSource \/
   Closed \/ UNCHANGED vars
  BY <1>4 DEF vars, downstreamVars, SourceSteps, loadNextSegment, PushSegment,
     Restart, PrepareCache, PostFull, WakeForCache, ReadNextBlock, ChainCheck,
     ChainWrite, PushEos, ReceiveEos, ReaderLoop, PauseAtError, FlushStart,
     CloseRing, FlushRing, PauseReader, StopSource, SeekData, FlushStop,
     DeactivateSrc, DeactivateSink, CloseSource, Closed
<1>5. QED
  BY <1>1, <1>2, <1>3, <1>4 DEF Next, Source, Reader, Begin, Proceed

\* InOrder, for every length of the ring and of the playlist, any number of
\* seeks and any failures: the reader hands the demuxer each block once and in
\* its place.
THEOREM BlocksComeInOrder == Spec => InOrder
<1>1. Init => OS!OSInit
  BY DEF Init, OS!OSInit
<1>2. QED
  BY <1>1, StepInOrder, Invariance, PTL DEF Spec, InOrder, OS!OSSpec
=============================================================================
