------------------------ MODULE ProgressBufferProofs ------------------------
(***************************************************************************)
(* The cache, its reader and the seeks of ProgressBuffer, proved for every *)
(* size of the content, every threshold and tolerance and any number of    *)
(* seeks.                                                                  *)
(*                                                                         *)
(* Each of the invariants below says one thing about the element; those    *)
(* further down rest on the ones before.                                   *)
(***************************************************************************)
EXTENDS ProgressBuffer, SequenceTheorems, TLAPS

Blocks == 0..(Size - 1)
Segments == [start : Positions, last_stop : Positions,
             stop : 0..Size \cup {-1}]

\* TypeOK in parts, with what its steps need: every block that is read,
\* written or sought is one of the content.
SourceTypes ==
    /\ SourceTypeOK({"top", "segment", "read", "chain", "eos", "end"})
    /\ setup \in Setups /\ position \in Positions
    /\ spc = "chain" => position < setup.available
CacheTypes ==
    /\ file \in Seq(Blocks) /\ write_position \in 0..Len(file)
    /\ read_position \in Nat /\ cache_read_offset \in Positions
    /\ sink_segment \in Segments /\ last_update \in Positions
    /\ buffer \in Blocks
StatusTypes ==
    /\ signal_limit \in 0..EOS_SIGNAL_LIMIT /\ srcresult \in FlowReturn
    /\ pending_src_event \in Pending
ReaderTypes ==
    /\ task \in {"none", "started", "paused", "stopped"}
    /\ rpc \in {"top", "wait", "woken", "push", "pushed"}
    /\ result \in FlowReturn /\ next \in Positions /\ announced \in Nat
PullTypes ==
    /\ range_start \in Positions \cup {NO_RANGE_REQUEST}
    /\ range_stop \in Positions \cup {NO_RANGE_REQUEST}
    /\ mpc \in {"none", "check", "wait", "notify", "ended"}
    /\ dpc \in {"none", "pull", "check", "pausing", "paused", "done", "error",
                "stopped"}
    /\ wanted \in Positions /\ got \in Positions \cup {-1}
    /\ dpc = "check" => wanted < MaxTarget
SeekTypes ==
    /\ kpc \in {"idle", "stop", "lock", "flush_stop", "source",
                "source_lock", "resume", "refused", "fall_back", "announce",
                "start", "join", "closed"}
    /\ target \in Positions /\ seeks \in 0..MaxSeeks
Flags ==
    /\ update \in BOOLEAN /\ eos \in BOOLEAN /\ unexpected \in BOOLEAN
    /\ instant_seek \in BOOLEAN /\ skip \in BOOLEAN
    /\ srcFlushing \in BOOLEAN /\ ended \in BOOLEAN
    /\ late \in BOOLEAN /\ failed \in BOOLEAN /\ refused \in BOOLEAN
Typed == SourceTypes /\ CacheTypes /\ StatusTypes /\ ReaderTypes /\ PullTypes
         /\ SeekTypes /\ Flags

\* Where the reader is in the content.
Place == cache_read_offset + read_position

\* Where the source thread is says what it is about to push.
SourceFlow ==
    /\ spc = "segment" => pending_event = "NEWSEGMENT"
    /\ spc \in {"read", "chain"} => pending_event = "UNKNOWN"
    /\ spc = "eos" => pending_event = "EOS"
    /\ spc \in {"segment", "read", "chain", "eos"} => ret = "OK"
    /\ spc # "top" => source_task # "paused"
    /\ pending_event = "EOS" => position >= setup.available
    /\ source_result # "OK" =>
           source_task # "started" \/ kpc = "source_lock"
    /\ kpc \in {"resume", "refused"} => SourceParked /\ source_result = "OK"

Seeking == {"flush_stop", "source", "source_lock", "resume", "refused",
            "fall_back", "announce", "start"}

\* Before the first block nothing was read or sought; the reader exists in
\* push mode, and is parked while a seek moves what it reads.
Modes ==
    /\ setup.pull =>
           /\ task = "none" /\ rpc = "top" /\ announced = 0 /\ next = 0
           /\ kpc \notin {"stop", "lock", "flush_stop", "fall_back", "announce",
                           "start"}
    /\ ~setup.pull => dpc = "none"
    /\ task = "none" /\ dpc = "none" =>
           /\ kpc = "idle" /\ seeks = 0 /\ target = 0
           /\ next = 0 /\ announced = 0 /\ rpc = "top" /\ ~srcFlushing
           /\ read_position = 0 /\ cache_read_offset = 0
           /\ pending_event = "NEWSEGMENT" => update
    /\ update =>
           /\ task = "none" /\ dpc = "none" /\ position = 0
           /\ write_position = 0 /\ ~eos /\ pending_event = "NEWSEGMENT"
    /\ kpc \in Seeking /\ ~setup.pull => ReaderParked
    /\ kpc \in {"stop", "lock", "flush_stop"} => srcFlushing
    /\ kpc \in {"flush_stop", "source", "source_lock"} /\ ~setup.pull => ~failed
    /\ kpc \in {"join", "closed"} => task \in {"none", "stopped"}
    /\ kpc = "closed" => ReaderParked /\ source_task = "stopped"
    /\ skip => rpc \in {"woken", "wait"}

\* A seek that falls back on the cache finds its target there.
FallsBack ==
    ~setup.pull /\ ~failed =>
        /\ kpc \in {"refused", "fall_back", "announce"} =>
              target >= cache_read_offset /\ pending_event # "NEWSEGMENT"
        /\ kpc = "announce" => Place = target

\* The cache holds what the segment says, and the source continues both.
CacheIsSegment ==
    ~refused /\ kpc # "closed" =>
        /\ Start = cache_read_offset /\ LastStop = Start + write_position
        /\ ~unexpected /\ pending_event # "NEWSEGMENT" => position = LastStop
EosPending == eos /\ ~refused => pending_event # "UNKNOWN"
ClosedSegment ==
    kpc = "closed" =>
        /\ Stop = -1 \/ Start = LastStop
        /\ spc \in {"segment", "read", "chain", "eos"} =>
               Stop = -1 /\ Start = LastStop
Run == CacheHoldsRun /\ CacheIsSegment /\ EosPending /\ ClosedSegment

\* The segment does not end before the data.
SegmentEnd ==
    kpc # "closed" /\ ~refused =>
        /\ update \/ LastStop <= Stop
        /\ ~unexpected =>
              /\ update \/ Stop >= setup.available
              /\ eos => LastStop >= setup.available
              /\ pending_event # "NEWSEGMENT" =>
                     LastStop = position \/ LastStop >= setup.available

\* The source stops for a seek or behind EOS.
EndsAtEos ==
    spc = "end" /\ ret # "OK" /\ ~unexpected /\ ~refused =>
        pending_event = "EOS" \/ kpc \in {"source_lock", "closed"}
PausedAtEos ==
    source_task = "paused" /\ ~unexpected /\ ~refused =>
        pending_event = "EOS" \/ kpc \in {"source_lock", "resume", "refused"}

\* The reader of push mode may read, or the source owes it a segment.
MayRead ==
    ~setup.pull =>
        \/ instant_seek \/ pending_event = "NEWSEGMENT" \/ refused
        \/ kpc \in {"flush_stop", "source", "source_lock", "refused",
                   "fall_back"}

\* Behind a complete download the reader has a block to read or EOS to send,
\* and the source that ended has woken it.  A reader that a seek has taken
\* beyond the end is astray until the next seek has stopped it.
Astray == target >= Size \/ kpc = "stop"
Complete ==
    setup.available = Size /\ ~unexpected /\ ~failed /\ ~refused
    /\ ~setup.pull
BlockLeft ==
    Complete =>
        \/ Place < Size
        \/ pending_src_event = Eos \/ ~instant_seek
        \/ (srcresult # "OK" \/ Astray) /\ rpc \notin {"push", "pushed"}
NotAsleep ==
    Complete /\ ~Astray /\ rpc = "wait" /\ pending_event = "EOS" =>
        spc = "eos" /\ ~eos

Finish == EndsAtEos /\ PausedAtEos /\ MayRead /\ BlockLeft /\ NotAsleep

\* A newsegment event that waits announces the place of the reader.
Undisturbed == ~setup.pull /\ ~failed /\ ~refused
SegmentAtReader ==
    Undisturbed /\ kpc # "announce" =>
        \A p \in Positions : pending_src_event = NewSegment(p) => p = Place

\* A seek in the cache is announced, unless it went behind the segment.
SeekAnnounced ==
    Undisturbed /\ kpc = "flush_stop" /\ instant_seek =>
        Place > Stop \/ \E p \in Positions : pending_src_event = NewSegment(p)

\* The reader that is about to read a block of the stream, or to push one:
\* its place in the cache is what downstream expects.
Announced == seeks = 0 \/ announced > 0
Reading ==
    /\ pending_src_event = None /\ instant_seek /\ ~skip /\ ~srcFlushing
    /\ IF rpc = "pushed" THEN result = "OK" ELSE srcresult = "OK"
ReadsNext ==
    Undisturbed /\ Reading /\ rpc # "push" /\ Place <= Stop /\ kpc # "announce" =>
        next = Place /\ Announced
PushesNext ==
    Undisturbed /\ rpc = "push" /\ ~srcFlushing =>
        /\ buffer = next /\ Announced
        /\ pending_src_event = None /\ instant_seek => Place = next + 1
Stream == SegmentAtReader /\ SeekAnnounced /\ ReadsNext /\ PushesNext

\* Once the seek has met the reader, only its own newsegment event waits or
\* is under way.
Target ==
    ~setup.pull /\ kpc \notin {"stop", "lock"} /\ ~late =>
        /\ \A p \in Positions :
               pending_src_event = NewSegment(p) => p = target
        /\ pending_event = "NEWSEGMENT" => position = target

IndInv == Typed /\ SourceFlow /\ Modes /\ FallsBack /\ Run /\ SegmentEnd /\ Finish
          /\ Stream /\ Target

-----------------------------------------------------------------------------
(* The types.                                                              *)

LEMMA TypedInit == Init => Typed
<1> SUFFICES ASSUME Init PROVE Typed
  OBVIOUS
<1> USE SizeAssumption, TargetAssumption, PbBounds DEF Init, Positions, Blocks
<1>1. SourceTypes
  BY DEF SourceInit, SourceTypes, SourceTypeOK, FlowReturn, Setups
<1>2. CacheTypes
  BY DEF CacheTypes, Segments
<1>3. StatusTypes
  BY DEF StatusTypes, EOS_SIGNAL_LIMIT, FlowReturn, Pending, None
<1>4. ReaderTypes
  BY DEF ReaderTypes, FlowReturn
<1>5. PullTypes
  BY DEF PullTypes, NO_RANGE_REQUEST
<1>6. SeekTypes
  BY DEF SeekTypes
<1>7. Flags
  BY DEF Flags
<1>8. QED
  BY <1>1, <1>2, <1>3, <1>4, <1>5, <1>6, <1>7 DEF Typed

LEMMA TypedTypeOK == Typed => TypeOK
<1> SUFFICES ASSUME Typed PROVE TypeOK
  OBVIOUS
<1> USE SizeAssumption, TargetAssumption DEF Typed, Positions, Blocks
<1>1. SourceTypeOK({"top", "segment", "read", "chain", "eos", "end"})
      /\ setup \in Setups /\ position \in Positions
  BY DEF SourceTypes
<1>2. /\ file \in Seq(Positions)
      /\ write_position \in 0..Len(file) /\ read_position \in Nat
      /\ cache_read_offset \in Positions /\ last_update \in Positions
      /\ Start \in Positions /\ LastStop \in Positions
      /\ Stop \in Positions \cup {-1}
      /\ buffer \in Positions
  BY DEF CacheTypes, Segments, Start, LastStop, Stop
<1>3. target \in Positions
  BY DEF SeekTypes
<1> HIDE DEF Positions, Blocks
<1>4. QED
  BY <1>1, <1>2, <1>3
     DEF TypeOK, StatusTypes, ReaderTypes, PullTypes, SeekTypes, Flags

LEMMA SourceTypesStep == SourceTypes /\ SeekTypes /\ [Next]_vars =>
   SourceTypes'
<1> SUFFICES ASSUME SourceTypes, SeekTypes, [Next]_vars PROVE SourceTypes'
  OBVIOUS
<1> USE SizeAssumption, TargetAssumption DEF Positions, Blocks
<1> USE DEF sourceVars, connectionVars, cacheVars, segmentVars, eosVars,
   statusVars, readerVars, rangeVars, demuxVars, appVars, downstreamVars,
   seekVars, SourceTypes, SourceTypeOK, FlowReturn
<1>1. CASE SourceSteps
  BY <1>1 DEF SourceSteps, SourceLoop, SourceLoopEnd
<1>2. CASE EnqueueSegment
  BY <1>2 DEF EnqueueSegment, TakeSegment, RefuseSegment, EmptySegment,
     RestartCache, send_position_message, SignalAdd, NoSignal
<1>3. CASE ReadNextBlock
  BY <1>3 DEF ReadNextBlock
<1>4. CASE chain
  BY <1>4 DEF chain, create_sourcepad, reset_eos, send_position_message,
     SignalAdd, NoSignal, cache_write_buffer, Setups
<1>5. CASE EnqueueEos
  BY <1>5 DEF EnqueueEos, Smaller, send_position_message, SignalAdd, NoSignal
<1>6. CASE StopSource
  BY <1>6 DEF StopSource, SourceGivesUp
<1>7. CASE SeekData
  BY <1>7 DEF SeekData, SourceSeeks, SourceParked, SegmentUnderWay, SeekTypes
<1>8. CASE RestartSource
  BY <1>8 DEF RestartSource, SourceRestarts
<1>9. CASE FallBack
  BY <1>9 DEF FallBack, cache_set_read_position
<1>10. CASE StartReader
  BY <1>10 DEF StartReader, AnnounceTarget
<1>11. CASE FlushData
  BY <1>11 DEF FlushData, SourceStops
<1>12. CASE ReaderLoop \/ PushBlock \/ StoreResult \/ Monitor \/ RangeReady \/
   getrange \/ DemuxGoesOn \/ FlushStart \/ DemuxSeeks \/ Deactivate \/
   StopReader \/ DecideSeek \/ FlushStop \/ UNCHANGED vars
  BY <1>12 DEF vars, ReaderLoop, ReaderStops, ReaderPauses, PushEvent,
     ReadBlock, cache_has_enough_data, PushBlock, StoreResult, Monitor,
     pending_eos, RangeReady, getrange, InCache, BlockAt, Smaller, reset_eos,
     cache_set_read_position, DemuxGoesOn, FlushStart, Targets, DemuxSeeks,
     Deactivate, SignalAdd, StopReader, DecideSeek, SeekInCache,
     AnnounceTarget, SegmentUnderWay, FlushStop
<1>13. QED
  BY <1>1, <1>2, <1>3, <1>4, <1>5, <1>6, <1>7, <1>8, <1>9, <1>10, <1>11, <1>12
     DEF Next, Source, Reader, Pull, Begin, Proceed

LEMMA CacheTypesStep == Typed /\ [Next]_vars => CacheTypes'
<1> SUFFICES ASSUME Typed, [Next]_vars PROVE CacheTypes'
  OBVIOUS
<1> USE SizeAssumption, TargetAssumption DEF Positions, Blocks
<1> USE DEF sourceVars, connectionVars, cacheVars, segmentVars, eosVars,
   statusVars, readerVars, rangeVars, demuxVars, appVars, downstreamVars,
   seekVars, Typed, CacheTypes, Segments, Start, LastStop, Stop
<1>1. CASE EnqueueSegment
  <2>1. UNCHANGED <<file, buffer>>
    BY <1>1 DEF EnqueueSegment, TakeSegment, RefuseSegment, EmptySegment, RestartCache
  <2>2. \/ UNCHANGED <<write_position, read_position, cache_read_offset>>
        \/ /\ write_position' = 0 /\ read_position' = 0
           /\ cache_read_offset' = position
    BY <1>1 DEF EnqueueSegment, TakeSegment, RefuseSegment, EmptySegment, RestartCache
  <2>3. \/ UNCHANGED segmentVars
        \/ /\ sink_segment' = [start |-> position, last_stop |-> position,
                               stop |-> Size]
           /\ last_update' \in {last_update, position}
    BY <1>1 DEF EnqueueSegment, TakeSegment, RefuseSegment, EmptySegment,
             send_position_message
  <2>4. position \in Positions /\ Size \in 0..Size
    BY DEF SourceTypes
  <2>5. sink_segment' \in Segments /\ last_update' \in Positions
    <3>1. CASE UNCHANGED segmentVars
      BY <3>1
    <3>2. CASE ~UNCHANGED segmentVars
      BY <2>3, <2>4, <3>2
    <3>3. QED
      BY <3>1, <3>2
  <2>6. /\ write_position' \in 0..Len(file') /\ read_position' \in Nat
        /\ cache_read_offset' \in Positions
    BY <2>1, <2>2, <2>4
  <2>7. QED
    BY <2>1, <2>5, <2>6
<1>2. CASE chain
  <2>1. position \in Blocks
    BY <1>2 DEF chain, SourceTypes, Setups
  <2>2. file' \in Seq(Blocks) /\ write_position' \in 0..Len(file')
    <3>1. CASE UNCHANGED <<file, write_position>>
      BY <3>1
    <3>2. CASE cache_write_buffer(position)
      <4>1. CASE write_position < Len(file)
        BY <2>1, <3>2, <4>1 DEF cache_write_buffer
      <4>2. CASE ~(write_position < Len(file))
        <5>1. file' = Append(file, position)
          BY <3>2, <4>2 DEF cache_write_buffer
        <5>2. file' \in Seq(Blocks) /\ Len(file') = Len(file) + 1
          BY <5>1, <2>1, AppendProperties
        <5>3. QED
          BY <3>2, <5>2 DEF cache_write_buffer
      <4>3. QED
        BY <4>1, <4>2
    <3>3. QED
      BY <1>2, <3>1, <3>2 DEF chain
  <2>3. sink_segment' \in Segments /\ last_update' \in Positions
    <3>1. CASE UNCHANGED segmentVars
      BY <3>1
    <3>2. CASE sink_segment' = [sink_segment EXCEPT !.last_stop = position + 1]
      <4> DEFINE after == position + 1
      <4>a. after \in Positions /\ sink_segment \in Segments
        BY <2>1
      <4>1. sink_segment' \in Segments /\ sink_segment'.last_stop = position + 1
        <5>1. sink_segment' = [sink_segment EXCEPT !.last_stop = after]
          BY <3>2
        <5> HIDE DEF after, Positions, CacheTypes, Typed
        <5>2. sink_segment' \in Segments /\ sink_segment'.last_stop = after
          BY <4>a, <5>1
        <5>3. QED
          BY <5>2 DEF after
      <4>2. last_update' \in {last_update, position + 1}
        BY <1>2, <3>2, <4>1 DEF chain, send_position_message
      <4>3. QED
        BY <2>1, <4>1, <4>2
    <3>3. QED
      BY <1>2, <3>1, <3>2 DEF chain
  <2>4. UNCHANGED <<read_position, cache_read_offset, buffer>>
    BY <1>2 DEF chain
  <2>5. QED
    BY <2>2, <2>3, <2>4
<1>3. CASE EnqueueEos
  <2>1. UNCHANGED <<file, write_position, read_position, cache_read_offset, buffer>>
    BY <1>3 DEF EnqueueEos
  <2>2. CASE UNCHANGED segmentVars
    BY <2>1, <2>2
  <2>3. CASE sink_segment' = [sink_segment EXCEPT !.stop = Smaller(Stop, LastStop)]
    <3>1. LastStop \in Positions /\ Stop \in 0..Size \cup {-1}
      OBVIOUS
    <3>2. Smaller(Stop, LastStop) \in 0..Size \cup {-1}
      BY <3>1 DEF Smaller
    <3>3. sink_segment' \in Segments /\ LastStop' = LastStop
      BY <2>3, <3>2
    <3>4. last_update' \in {last_update, LastStop}
      BY <1>3, <3>3 DEF EnqueueEos, send_position_message
    <3>5. QED
      BY <2>1, <3>1, <3>3, <3>4
  <2>4. QED
    BY <1>3, <2>2, <2>3 DEF EnqueueEos
<1>4. CASE ReaderLoop
  <2>1. UNCHANGED <<file, write_position, cache_read_offset, sink_segment,
                    last_update>>
    BY <1>4 DEF ReaderLoop
  <2>2. UNCHANGED <<read_position, buffer>> \/ (cache_has_enough_data /\ ReadBlock)
    BY <1>4 DEF ReaderLoop, ReaderStops, PushEvent
  <2>3. CASE cache_has_enough_data /\ ReadBlock
    <3>1. read_position' = read_position + 1 /\ buffer' = file[read_position + 1]
      BY <2>3 DEF ReadBlock
    <3>2. read_position + 1 \in 1..Len(file)
      BY <2>3 DEF cache_has_enough_data
    <3>3. QED
      BY <2>1, <3>1, <3>2
  <2>4. CASE UNCHANGED <<read_position, buffer>>
    BY <2>1, <2>4
  <2>5. QED
    BY <2>2, <2>3, <2>4
<1>5. CASE getrange
  <2>1. UNCHANGED <<file, write_position, cache_read_offset, sink_segment,
                    last_update, buffer>>
    BY <1>5 DEF getrange
  <2>2. read_position' \in {read_position, wanted, wanted + 1}
    BY <1>5 DEF getrange, cache_set_read_position
  <2>3. read_position' \in Nat
    BY <2>2 DEF PullTypes
  <2>4. QED
    BY <2>1, <2>3
<1>6. CASE DecideSeek
  BY <1>6 DEF DecideSeek, SeekInCache, AnnounceTarget, reset_eos,
     cache_set_read_position, SegmentUnderWay, SeekTypes
<1>7. CASE FallBack
  BY <1>7 DEF FallBack, cache_set_read_position, SeekTypes
<1>8. CASE FlushData
  BY <1>8 DEF FlushData, SourceStops
<1>9. CASE SourceSteps \/ ReadNextBlock \/ PushBlock \/ StoreResult \/ Monitor
   \/ RangeReady \/ DemuxGoesOn \/ FlushStart \/ DemuxSeeks \/ Deactivate \/
   StopReader \/ FlushStop \/ StopSource \/ SeekData \/ RestartSource \/
   StartReader \/ UNCHANGED vars
  BY <1>9 DEF vars, SourceSteps, SourceLoop, SourceLoopEnd, ReadNextBlock,
     PushBlock, StoreResult, ReaderPauses, Monitor, pending_eos, RangeReady,
     DemuxGoesOn, FlushStart, Targets, DemuxSeeks, Deactivate, SignalAdd,
     StopReader, FlushStop, StopSource, SourceGivesUp, SeekData, SourceSeeks,
     SourceParked, SegmentUnderWay, RestartSource, SourceRestarts,
     StartReader, AnnounceTarget
<1>10. QED
  BY <1>1, <1>2, <1>3, <1>4, <1>5, <1>6, <1>7, <1>8, <1>9 DEF Next, Source,
     Reader, Pull, Begin, Proceed

LEMMA StatusTypesStep == Typed /\ [Next]_vars => StatusTypes'
<1> SUFFICES ASSUME Typed, [Next]_vars PROVE StatusTypes'
  OBVIOUS
<1> USE SizeAssumption, TargetAssumption DEF Positions, Blocks
<1> USE DEF sourceVars, connectionVars, cacheVars, segmentVars, eosVars,
   statusVars, readerVars, rangeVars, demuxVars, appVars, downstreamVars,
   seekVars, Typed, StatusTypes, FlowReturn, Pending, NewSegment, None, Eos,
   EOS_SIGNAL_LIMIT
<1>1. CASE EnqueueSegment
  BY <1>1 DEF EnqueueSegment, TakeSegment, RefuseSegment, EmptySegment,
     RestartCache, send_position_message, SignalAdd, NoSignal, SourceTypes
<1>2. CASE chain
  BY <1>2 DEF chain, create_sourcepad, reset_eos, send_position_message,
     SignalAdd, NoSignal, cache_write_buffer
<1>3. CASE EnqueueEos
  BY <1>3 DEF EnqueueEos, Smaller, send_position_message, SignalAdd, NoSignal
<1>4. CASE ReaderLoop
  BY <1>4 DEF ReaderLoop, ReaderStops, ReaderPauses, PushEvent, ReadBlock,
     cache_has_enough_data
<1>5. CASE StoreResult
  BY <1>5 DEF StoreResult, ReaderPauses, ReaderTypes
<1>6. CASE Monitor
  BY <1>6 DEF Monitor, pending_eos
<1>7. CASE getrange
  BY <1>7 DEF getrange, InCache, BlockAt, Smaller, reset_eos,
     cache_set_read_position
<1>8. CASE Deactivate
  BY <1>8 DEF Deactivate, SignalAdd
<1>9. CASE StopReader
  BY <1>9 DEF StopReader, SignalAdd
<1>10. CASE DecideSeek
  BY <1>10 DEF DecideSeek, SeekInCache, AnnounceTarget, reset_eos,
     cache_set_read_position, SegmentUnderWay, SeekTypes
<1>11. CASE StartReader
  BY <1>11 DEF StartReader, AnnounceTarget, SeekTypes
<1>12. CASE FlushData
  BY <1>12 DEF FlushData, SourceStops
<1>13. CASE SourceSteps \/ ReadNextBlock \/ PushBlock \/ RangeReady \/
   DemuxGoesOn \/ FlushStart \/ DemuxSeeks \/ FlushStop \/ StopSource \/
   SeekData \/ RestartSource \/ FallBack \/ UNCHANGED vars
  BY <1>13 DEF vars, SourceSteps, SourceLoop, SourceLoopEnd, ReadNextBlock,
     PushBlock, RangeReady, DemuxGoesOn, FlushStart, Targets, DemuxSeeks,
     FlushStop, StopSource, SourceGivesUp, SeekData, SourceSeeks,
     SourceParked, SegmentUnderWay, RestartSource, SourceRestarts, FallBack,
     cache_set_read_position
<1>14. QED
  BY <1>1, <1>2, <1>3, <1>4, <1>5, <1>6, <1>7, <1>8, <1>9, <1>10, <1>11,
     <1>12, <1>13 DEF Next, Source, Reader, Pull, Begin, Proceed

LEMMA ReaderTypesStep == Typed /\ [Next]_vars => ReaderTypes'
<1> SUFFICES ASSUME Typed, [Next]_vars PROVE ReaderTypes'
  OBVIOUS
<1> USE SizeAssumption, TargetAssumption DEF Positions, Blocks
<1> USE DEF sourceVars, connectionVars, cacheVars, segmentVars, eosVars,
   statusVars, readerVars, rangeVars, demuxVars, appVars, downstreamVars,
   seekVars, Typed, ReaderTypes, FlowReturn
<1>1. CASE EnqueueSegment
  BY <1>1 DEF EnqueueSegment, TakeSegment, RefuseSegment, EmptySegment,
     RestartCache, send_position_message, SignalAdd, NoSignal
<1>2. CASE chain
  BY <1>2 DEF chain, create_sourcepad, reset_eos, send_position_message,
     SignalAdd, NoSignal, cache_write_buffer
<1>3. CASE EnqueueEos
  BY <1>3 DEF EnqueueEos, Smaller, send_position_message, SignalAdd, NoSignal
<1>4. CASE ReaderLoop
  BY <1>4 DEF ReaderLoop, ReaderStops, ReaderPauses, PushEvent, ReadBlock,
     cache_has_enough_data, StatusTypes, Pending, NewSegment, None, Eos
<1>5. CASE PushBlock
  BY <1>5 DEF PushBlock, CacheTypes
<1>6. CASE StoreResult
  BY <1>6 DEF StoreResult, ReaderPauses
<1>7. CASE FlushStart
  BY <1>7 DEF FlushStart, Targets
<1>8. CASE Deactivate
  BY <1>8 DEF Deactivate, SignalAdd
<1>9. CASE StopReader
  BY <1>9 DEF StopReader, SignalAdd
<1>10. CASE FlushStop
  BY <1>10 DEF FlushStop
<1>11. CASE RestartSource
  BY <1>11 DEF RestartSource, SourceRestarts
<1>12. CASE FallBack
  BY <1>12 DEF FallBack, cache_set_read_position
<1>13. CASE StartReader
  BY <1>13 DEF StartReader, AnnounceTarget
<1>14. CASE SourceSteps \/ ReadNextBlock \/ Monitor \/ RangeReady \/ getrange
   \/ DemuxGoesOn \/ DemuxSeeks \/ DecideSeek \/ StopSource \/ SeekData \/
   FlushData \/ UNCHANGED vars
  BY <1>14 DEF vars, SourceSteps, SourceLoop, SourceLoopEnd, ReadNextBlock,
     Monitor, pending_eos, RangeReady, getrange, InCache, BlockAt, Smaller,
     reset_eos, cache_set_read_position, DemuxGoesOn, DemuxSeeks, Targets,
     DecideSeek, SeekInCache, AnnounceTarget, SegmentUnderWay, StopSource,
     SourceGivesUp, SeekData, SourceSeeks, SourceParked, FlushData,
     SourceStops
<1>15. QED
  BY <1>1, <1>2, <1>3, <1>4, <1>5, <1>6, <1>7, <1>8, <1>9, <1>10, <1>11,
     <1>12, <1>13, <1>14 DEF Next, Source, Reader, Pull, Begin, Proceed

LEMMA PullTypesStep == Typed /\ [Next]_vars => PullTypes'
<1> SUFFICES ASSUME Typed, [Next]_vars PROVE PullTypes'
  OBVIOUS
<1> USE SizeAssumption, TargetAssumption, ThresholdAssumption DEF Positions, Blocks
<1> USE DEF sourceVars, connectionVars, cacheVars, segmentVars, eosVars,
   statusVars, readerVars, rangeVars, demuxVars, appVars, downstreamVars,
   seekVars, Typed, PullTypes, NO_RANGE_REQUEST
<1>1. CASE EnqueueSegment
  BY <1>1 DEF EnqueueSegment, TakeSegment, RefuseSegment, EmptySegment,
     RestartCache, send_position_message, SignalAdd, NoSignal
<1>2. CASE chain
  BY <1>2 DEF chain, create_sourcepad, reset_eos, send_position_message,
     SignalAdd, NoSignal, cache_write_buffer
<1>3. CASE EnqueueEos
  BY <1>3 DEF EnqueueEos, Smaller, send_position_message, SignalAdd, NoSignal
<1>4. CASE Monitor
  BY <1>4 DEF Monitor, pending_eos
<1>5. CASE RangeReady
  BY <1>5 DEF RangeReady
<1>6. CASE getrange
  <2> USE DEF CacheTypes, Segments, Start, LastStop, Stop
  <2>1. CASE Stop < wanted + 1
    <3>1. dpc' = "done" /\ UNCHANGED <<range_start, range_stop, mpc, wanted, got>>
      BY <1>6, <2>1 DEF getrange
    <3>2. QED
      BY <3>1
  <2>2. CASE Stop >= wanted + 1 /\ InCache(wanted)
    <3>0. got' = BlockAt(wanted) /\ dpc' \in {"error", "check"}
      BY <1>6, <2>2 DEF getrange
    <3>1. got' \in Positions \cup {-1} /\ dpc' \in {"error", "check"}
      BY <3>0 DEF BlockAt
    <3>2. UNCHANGED <<range_start, range_stop, mpc, wanted>>
      BY <1>6, <2>2 DEF getrange
    <3>3. wanted < MaxTarget
      BY <2>2 DEF InCache
    <3>4. QED
      BY <3>1, <3>2, <3>3
  <2>3. CASE Stop >= wanted + 1 /\ ~InCache(wanted)
    <3>0. \E bandwidth \in {0, Tolerance} :
             range_stop' \in {Smaller(Stop, wanted + 1 + bandwidth), range_stop}
      BY <1>6, <2>3 DEF getrange
    <3>1. range_stop' \in Positions \cup {NO_RANGE_REQUEST}
      <4>1. Stop \in Positions /\ Stop >= wanted + 1 /\ wanted \in Nat
        BY <2>3
      <4>2. PICK bandwidth \in {0, Tolerance} :
               range_stop' \in {Smaller(Stop, wanted + 1 + bandwidth), range_stop}
        BY <3>0
      <4>3. Smaller(Stop, wanted + 1 + bandwidth) \in Positions
        BY <4>1 DEF Smaller
      <4>4. QED
        BY <4>2, <4>3
    <3>2. /\ range_start' \in {wanted, range_start}
          /\ dpc' = "pausing" /\ UNCHANGED <<mpc, wanted, got>>
      BY <1>6, <2>3 DEF getrange
    <3>3. range_start' \in Positions \cup {NO_RANGE_REQUEST}
      BY <3>2
    <3>4. QED
      BY <3>1, <3>2, <3>3
  <2>4. QED
    BY <1>6, <2>1, <2>2, <2>3 DEF getrange
<1>7. CASE DemuxGoesOn
  BY <1>7 DEF DemuxGoesOn
<1>8. CASE DemuxSeeks
  BY <1>8 DEF DemuxSeeks, Targets
<1>9. CASE Deactivate
  BY <1>9 DEF Deactivate, SignalAdd
<1>10. CASE StopReader
  BY <1>10 DEF StopReader, SignalAdd
<1>11. CASE FlushData
  BY <1>11 DEF FlushData, SourceStops
<1>12. CASE SourceSteps \/ ReadNextBlock \/ ReaderLoop \/ PushBlock \/
   StoreResult \/ FlushStart \/ DecideSeek \/ FlushStop \/ StopSource \/
   SeekData \/ RestartSource \/ FallBack \/ StartReader \/ UNCHANGED vars
  BY <1>12 DEF vars, SourceSteps, SourceLoop, SourceLoopEnd, ReadNextBlock,
     ReaderLoop, ReaderStops, ReaderPauses, PushEvent, ReadBlock,
     cache_has_enough_data, PushBlock, StoreResult, FlushStart, Targets,
     DecideSeek, SeekInCache, AnnounceTarget, reset_eos,
     cache_set_read_position, SegmentUnderWay, FlushStop, StopSource,
     SourceGivesUp, SeekData, SourceSeeks, SourceParked, RestartSource,
     SourceRestarts, FallBack, StartReader
<1>13. QED
  BY <1>1, <1>2, <1>3, <1>4, <1>5, <1>6, <1>7, <1>8, <1>9, <1>10, <1>11, <1>12
     DEF Next, Source, Reader, Pull, Begin, Proceed

LEMMA SeekTypesStep == Typed /\ [Next]_vars => SeekTypes'
<1> SUFFICES ASSUME Typed, [Next]_vars PROVE SeekTypes'
  OBVIOUS
<1> USE SizeAssumption, TargetAssumption, PbBounds DEF Positions, Blocks
<1> USE DEF sourceVars, connectionVars, cacheVars, segmentVars, eosVars,
   statusVars, readerVars, rangeVars, demuxVars, appVars, downstreamVars,
   seekVars, Typed, SeekTypes
<1>1. CASE EnqueueSegment
  BY <1>1 DEF EnqueueSegment, TakeSegment, RefuseSegment, EmptySegment,
     RestartCache, send_position_message, SignalAdd, NoSignal, StatusTypes
<1>2. CASE getrange
  <2>1. CASE UNCHANGED <<kpc, target>>
    BY <1>2, <2>1 DEF getrange
  <2>2. CASE ~UNCHANGED <<kpc, target>>
    <3>1. kpc' \in {"source", "idle"} /\ target' = wanted /\ UNCHANGED seeks
      BY <1>2, <2>2 DEF getrange
    <3>2. QED
      BY <3>1 DEF PullTypes
  <2>3. QED
    BY <2>1, <2>2
<1>3. CASE FlushStart
  BY <1>3 DEF FlushStart, Targets
<1>4. CASE DemuxSeeks
  BY <1>4 DEF DemuxSeeks, Targets
<1>5. CASE Deactivate
  BY <1>5 DEF Deactivate, SignalAdd
<1>6. CASE StopReader
  BY <1>6 DEF StopReader, SignalAdd
<1>7. CASE DecideSeek
  BY <1>7 DEF DecideSeek, SeekInCache, AnnounceTarget, reset_eos,
     cache_set_read_position, SegmentUnderWay
<1>8. CASE FlushStop
  BY <1>8 DEF FlushStop
<1>9. CASE StopSource
  BY <1>9 DEF StopSource, SourceGivesUp
<1>10. CASE SeekData
  BY <1>10 DEF SeekData, SourceSeeks, SourceParked, SegmentUnderWay
<1>11. CASE RestartSource
  BY <1>11 DEF RestartSource, SourceRestarts
<1>12. CASE FallBack
  BY <1>12 DEF FallBack, cache_set_read_position
<1>13. CASE StartReader
  BY <1>13 DEF StartReader, AnnounceTarget
<1>14. CASE FlushData
  BY <1>14 DEF FlushData, SourceStops
<1>15. CASE SourceSteps \/ ReadNextBlock \/ chain \/ EnqueueEos \/ ReaderLoop
   \/ PushBlock \/ StoreResult \/ Monitor \/ RangeReady \/ DemuxGoesOn \/
   UNCHANGED vars
  BY <1>15 DEF vars, SourceSteps, SourceLoop, SourceLoopEnd, ReadNextBlock,
     chain, create_sourcepad, reset_eos, send_position_message, SignalAdd,
     NoSignal, cache_write_buffer, EnqueueEos, Smaller, ReaderLoop,
     ReaderStops, ReaderPauses, PushEvent, ReadBlock, cache_has_enough_data,
     PushBlock, StoreResult, Monitor, pending_eos, RangeReady, DemuxGoesOn
<1>16. QED
  BY <1>1, <1>2, <1>3, <1>4, <1>5, <1>6, <1>7, <1>8, <1>9, <1>10, <1>11,
     <1>12, <1>13, <1>14, <1>15 DEF Next, Source, Reader, Pull, Begin, Proceed

LEMMA FlagsStep == Flags /\ [Next]_vars => Flags'
<1> SUFFICES ASSUME Flags, [Next]_vars PROVE Flags'
  OBVIOUS
<1> USE DEF sourceVars, connectionVars, cacheVars, segmentVars, eosVars,
   statusVars, readerVars, rangeVars, demuxVars, appVars, downstreamVars,
   seekVars, Flags
<1>1. CASE EnqueueSegment
  BY <1>1 DEF EnqueueSegment, TakeSegment, RefuseSegment, EmptySegment,
     RestartCache, send_position_message, SignalAdd, NoSignal
<1>2. CASE chain
  BY <1>2 DEF chain, create_sourcepad, reset_eos, send_position_message,
     SignalAdd, NoSignal, cache_write_buffer
<1>3. CASE EnqueueEos
  BY <1>3 DEF EnqueueEos, Smaller, send_position_message, SignalAdd, NoSignal
<1>4. CASE ReaderLoop
  BY <1>4 DEF ReaderLoop, ReaderStops, ReaderPauses, PushEvent, ReadBlock,
     cache_has_enough_data
<1>5. CASE PushBlock
  BY <1>5 DEF PushBlock
<1>6. CASE StoreResult
  BY <1>6 DEF StoreResult, ReaderPauses
<1>7. CASE getrange
  <2>1. UNCHANGED <<update, unexpected, instant_seek, skip, srcFlushing, ended,
                    late, failed, refused>>
    BY <1>7 DEF getrange
  <2>2. CASE UNCHANGED eos
    BY <2>1, <2>2
  <2>3. CASE reset_eos
    BY <2>1, <2>3 DEF reset_eos
  <2>4. QED
    BY <1>7, <2>2, <2>3 DEF getrange
<1>8. CASE FlushStart
  BY <1>8 DEF FlushStart, Targets
<1>9. CASE Deactivate
  BY <1>9 DEF Deactivate, SignalAdd
<1>10. CASE DecideSeek
  BY <1>10 DEF DecideSeek, SeekInCache, AnnounceTarget, reset_eos,
     cache_set_read_position, SegmentUnderWay
<1>11. CASE FlushStop
  BY <1>11 DEF FlushStop
<1>12. CASE SeekData
  <2>1. failed' \in BOOLEAN
    <3>1. CASE failed' = (target < cache_read_offset \/ SegmentUnderWay)
      BY <3>1
    <3>2. CASE UNCHANGED failed
      BY <3>2
    <3>3. QED
      BY <1>12, <3>1, <3>2 DEF SeekData
  <2>2. QED
    BY <1>12, <2>1 DEF SeekData
<1>13. CASE FallBack
  BY <1>13 DEF FallBack, cache_set_read_position
<1>14. CASE SourceSteps \/ ReadNextBlock \/ Monitor \/ RangeReady \/
   DemuxGoesOn \/ DemuxSeeks \/ StopReader \/ StopSource \/ RestartSource \/
   StartReader \/ FlushData \/ UNCHANGED vars
  BY <1>14 DEF vars, SourceSteps, SourceLoop, SourceLoopEnd, ReadNextBlock,
     Monitor, pending_eos, RangeReady, DemuxGoesOn, DemuxSeeks, Targets,
     StopReader, SignalAdd, StopSource, SourceGivesUp, RestartSource,
     SourceRestarts, StartReader, AnnounceTarget, FlushData, SourceStops
<1>15. QED
  BY <1>1, <1>2, <1>3, <1>4, <1>5, <1>6, <1>7, <1>8, <1>9, <1>10, <1>11,
     <1>12, <1>13, <1>14 DEF Next, Source, Reader, Pull, Begin, Proceed

LEMMA TypedStep == Typed /\ [Next]_vars => Typed'
  BY SourceTypesStep, CacheTypesStep, StatusTypesStep, ReaderTypesStep,
     PullTypesStep, SeekTypesStep, FlagsStep DEF Typed

-----------------------------------------------------------------------------
(* The source thread, the modes and the parked reader.                      *)

LEMMA SourceFlowStep == Typed /\ SourceFlow /\ [Next]_vars => SourceFlow'
<1> SUFFICES ASSUME Typed, SourceFlow, [Next]_vars PROVE SourceFlow'
  OBVIOUS
<1> USE SizeAssumption, TargetAssumption DEF Positions, Blocks, Setups
<1> USE DEF sourceVars, connectionVars, cacheVars, segmentVars, eosVars,
   statusVars, readerVars, rangeVars, demuxVars, appVars, downstreamVars,
   seekVars, Typed, SourceFlow, SourceTypes, SourceParked
<1>1. CASE SourceSteps
  <2>1. CASE SourceLoop
    <3>1. CASE source_result # "OK"
      BY <1>1, <2>1, <3>1 DEF SourceSteps, SourceLoop
    <3>2. CASE source_result = "OK"
      <4>1. \/ spc' = "segment" /\ pending_event = "NEWSEGMENT"
            \/ spc' = "eos" /\ pending_event = "EOS"
            \/ spc' = "read" /\ pending_event = "UNKNOWN"
        BY <2>1, <3>2 DEF SourceLoop, SourceTypeOK
      <4>2. QED
        BY <1>1, <2>1, <3>2, <4>1 DEF SourceSteps, SourceLoop
    <3>3. QED
      BY <3>1, <3>2
  <2>2. CASE SourceLoopEnd
    BY <1>1, <2>2 DEF SourceSteps, SourceLoopEnd
  <2>3. QED
    BY <1>1, <2>1, <2>2 DEF SourceSteps
<1>2. CASE EnqueueSegment
  BY <1>2 DEF EnqueueSegment, TakeSegment, RefuseSegment, EmptySegment,
     RestartCache, send_position_message, SignalAdd, NoSignal
<1>3. CASE ReadNextBlock
  BY <1>3 DEF ReadNextBlock, SourceTypeOK
<1>4. CASE chain
  BY <1>4 DEF chain, create_sourcepad, reset_eos, send_position_message,
     SignalAdd, NoSignal, cache_write_buffer
<1>5. CASE EnqueueEos
  BY <1>5 DEF EnqueueEos, Smaller, send_position_message, SignalAdd, NoSignal
<1>6. CASE getrange
  BY <1>6 DEF getrange, InCache, BlockAt, Smaller, reset_eos,
     cache_set_read_position
<1>7. CASE FlushStart
  BY <1>7 DEF FlushStart, Targets
<1>8. CASE DemuxSeeks
  BY <1>8 DEF DemuxSeeks, Targets
<1>9. CASE Deactivate
  BY <1>9 DEF Deactivate, SignalAdd
<1>10. CASE StopReader
  BY <1>10 DEF StopReader, SignalAdd
<1>11. CASE DecideSeek
  BY <1>11 DEF DecideSeek, SeekInCache, AnnounceTarget, reset_eos,
     cache_set_read_position, SegmentUnderWay
<1>12. CASE FlushStop
  BY <1>12 DEF FlushStop
<1>13. CASE StopSource
  BY <1>13 DEF StopSource, SourceGivesUp
<1>14. CASE SeekData
  BY <1>14 DEF SeekData, SourceSeeks, SourceParked, SegmentUnderWay, SeekTypes
<1>15. CASE RestartSource
  BY <1>15 DEF RestartSource, SourceRestarts
<1>16. CASE FallBack
  BY <1>16 DEF FallBack, cache_set_read_position
<1>17. CASE StartReader
  BY <1>17 DEF StartReader, AnnounceTarget
<1>18. CASE FlushData
  BY <1>18 DEF FlushData, SourceStops
<1>19. CASE ReaderLoop \/ PushBlock \/ StoreResult \/ Monitor \/ RangeReady \/
   DemuxGoesOn \/ UNCHANGED vars
  BY <1>19 DEF vars, ReaderLoop, ReaderStops, ReaderPauses, PushEvent,
     ReadBlock, cache_has_enough_data, PushBlock, StoreResult, Monitor,
     pending_eos, RangeReady, DemuxGoesOn
<1>20. QED
  BY <1>1, <1>2, <1>3, <1>4, <1>5, <1>6, <1>7, <1>8, <1>9, <1>10, <1>11,
     <1>12, <1>13, <1>14, <1>15, <1>16, <1>17, <1>18, <1>19 DEF Next, Source,
     Reader, Pull, Begin, Proceed

LEMMA ModesStep == Typed /\ SourceFlow /\ Modes /\ [Next]_vars => Modes'
<1> SUFFICES ASSUME Typed, SourceFlow, Modes, [Next]_vars PROVE Modes'
  OBVIOUS
<1> USE DEF sourceVars, connectionVars, cacheVars, segmentVars, eosVars,
   statusVars, readerVars, rangeVars, demuxVars, appVars, downstreamVars,
   seekVars, Modes, Seeking, ReaderParked
<1>1. CASE SourceSteps
  BY <1>1 DEF SourceSteps, SourceLoop, SourceLoopEnd
<1>2. CASE EnqueueSegment
  BY <1>2 DEF EnqueueSegment, TakeSegment, RefuseSegment, EmptySegment,
     RestartCache, send_position_message, SignalAdd, NoSignal, SourceFlow
<1>3. CASE ReadNextBlock
  BY <1>3 DEF ReadNextBlock, SourceFlow
<1>4. CASE chain
  BY <1>4 DEF chain, create_sourcepad, reset_eos, send_position_message,
     SignalAdd, NoSignal, cache_write_buffer, SourceFlow
<1>5. CASE EnqueueEos
  BY <1>5 DEF EnqueueEos, Smaller, send_position_message, SignalAdd, NoSignal,
     SourceFlow
<1>6. CASE ReaderLoop
  BY <1>6 DEF ReaderLoop, ReaderStops, ReaderPauses, PushEvent, ReadBlock,
     cache_has_enough_data
<1>7. CASE PushBlock
  BY <1>7 DEF PushBlock
<1>8. CASE StoreResult
  BY <1>8 DEF StoreResult, ReaderPauses
<1>9. CASE RangeReady
  BY <1>9 DEF RangeReady
<1>10. CASE getrange
  BY <1>10 DEF getrange, InCache, BlockAt, Smaller, reset_eos,
     cache_set_read_position
<1>11. CASE DemuxGoesOn
  BY <1>11 DEF DemuxGoesOn
<1>12. CASE FlushStart
  BY <1>12 DEF FlushStart, Targets
<1>13. CASE DemuxSeeks
  BY <1>13 DEF DemuxSeeks, Targets
<1>14. CASE Deactivate
  BY <1>14 DEF Deactivate, SignalAdd
<1>15. CASE StopReader
  BY <1>15 DEF StopReader, SignalAdd
<1>16. CASE DecideSeek
  BY <1>16 DEF DecideSeek, SeekInCache, AnnounceTarget, reset_eos,
     cache_set_read_position, SegmentUnderWay
<1>17. CASE FlushStop
  BY <1>17 DEF FlushStop
<1>18. CASE StopSource
  BY <1>18 DEF StopSource, SourceGivesUp
<1>19. CASE SeekData
  BY <1>19 DEF SeekData, SourceSeeks, SourceParked, SegmentUnderWay
<1>20. CASE RestartSource
  BY <1>20 DEF RestartSource, SourceRestarts
<1>21. CASE FallBack
  BY <1>21 DEF FallBack, cache_set_read_position
<1>22. CASE StartReader
  BY <1>22 DEF StartReader, AnnounceTarget
<1>23. CASE FlushData
  BY <1>23 DEF FlushData, SourceStops
<1>24. CASE Monitor \/ UNCHANGED vars
  BY <1>24 DEF vars, Monitor, pending_eos
<1>25. QED
  BY <1>1, <1>2, <1>3, <1>4, <1>5, <1>6, <1>7, <1>8, <1>9, <1>10, <1>11,
     <1>12, <1>13, <1>14, <1>15, <1>16, <1>17, <1>18, <1>19, <1>20, <1>21,
     <1>22, <1>23, <1>24 DEF Next, Source, Reader, Pull, Begin, Proceed

\* A seek in the cache puts the reader where its target lies.
LEMMA PlaceOfTarget ==
  ASSUME Typed, cache_set_read_position(target - cache_read_offset),
         target >= cache_read_offset
  PROVE  target = cache_read_offset + read_position'
<1>1. target \in Int /\ cache_read_offset \in Int
  BY SizeAssumption, TargetAssumption DEF Typed, CacheTypes, SeekTypes, Positions, Blocks
<1>2. read_position' = target - cache_read_offset
  BY <1>1 DEF cache_set_read_position
<1>3. QED
  BY <1>1, <1>2

LEMMA FallsBackStep == Typed /\ SourceFlow /\ Modes /\ FallsBack /\
   [Next]_vars => FallsBack'
<1> SUFFICES ASSUME Typed, SourceFlow, Modes, FallsBack, [Next]_vars PROVE
   FallsBack'
  OBVIOUS
<1> USE DEF sourceVars, connectionVars, cacheVars, segmentVars, eosVars,
   statusVars, readerVars, rangeVars, demuxVars, appVars, downstreamVars,
   seekVars, FallsBack, Place
<1>1. CASE SourceSteps
  BY <1>1 DEF SourceSteps, SourceLoop, SourceLoopEnd
<1>2. CASE EnqueueSegment
  BY <1>2 DEF EnqueueSegment, TakeSegment, RefuseSegment, EmptySegment,
     RestartCache, send_position_message, SignalAdd, NoSignal, SourceFlow
<1>3. CASE ReadNextBlock
  BY <1>3 DEF ReadNextBlock
<1>4. CASE chain
  BY <1>4 DEF chain, create_sourcepad, reset_eos, send_position_message,
     SignalAdd, NoSignal, cache_write_buffer
<1>5. CASE EnqueueEos
  BY <1>5 DEF EnqueueEos, Smaller, send_position_message, SignalAdd, NoSignal
<1>6. CASE ReaderLoop
  BY <1>6 DEF ReaderLoop, ReaderStops, ReaderPauses, PushEvent, ReadBlock,
     cache_has_enough_data, Modes, Seeking, ReaderParked
<1>7. CASE getrange
  BY <1>7 DEF getrange, InCache, BlockAt, Smaller, reset_eos,
     cache_set_read_position, Modes
<1>8. CASE FlushStart
  BY <1>8 DEF FlushStart, Targets
<1>9. CASE DemuxSeeks
  BY <1>9 DEF DemuxSeeks, Targets
<1>10. CASE Deactivate
  BY <1>10 DEF Deactivate, SignalAdd
<1>11. CASE StopReader
  BY <1>11 DEF StopReader, SignalAdd
<1>12. CASE DecideSeek
  BY <1>12 DEF DecideSeek, SeekInCache, AnnounceTarget, reset_eos,
     cache_set_read_position, SegmentUnderWay
<1>13. CASE FlushStop
  BY <1>13 DEF FlushStop
<1>14. CASE StopSource
  BY <1>14 DEF StopSource, SourceGivesUp
<1>15. CASE SeekData
  <2>1. kpc' # "announce" /\ UNCHANGED <<setup, target, cache_read_offset>>
    BY <1>15 DEF SeekData
  <2>2. CASE kpc' = "resume"
    BY <2>2
  <2>3. CASE /\ SourceSeeks(FALSE)
             /\ failed' = (target < cache_read_offset \/ SegmentUnderWay)
    <3> SUFFICES ASSUME ~failed'
                 PROVE  target >= cache_read_offset /\ pending_event' # "NEWSEGMENT"
      BY <2>1
    <3>1. ~(target < cache_read_offset) /\ pending_event # "NEWSEGMENT"
      BY <2>3 DEF SegmentUnderWay
    <3>2. QED
      BY <2>3, <3>1, SizeAssumption, TargetAssumption
         DEF SourceSeeks, Typed, SeekTypes, CacheTypes, Positions
  <2>4. QED
    BY <1>15, <2>2, <2>3 DEF SeekData
<1>16. CASE RestartSource
  BY <1>16 DEF RestartSource, SourceRestarts
<1>17. CASE FallBack
  <2> SUFFICES ASSUME ~setup.pull, ~failed PROVE FallsBack'
    BY <1>17 DEF FallBack
  <2>1. target >= cache_read_offset /\ pending_event # "NEWSEGMENT"
    BY <1>17 DEF FallBack
  <2>2. target = cache_read_offset + read_position'
    BY <1>17, <2>1, PlaceOfTarget DEF FallBack
  <2>3. UNCHANGED <<target, cache_read_offset, pending_event>>
    BY <1>17 DEF FallBack
  <2>4. QED
    BY <2>1, <2>2, <2>3
<1>18. CASE StartReader
  BY <1>18 DEF StartReader, AnnounceTarget
<1>19. CASE FlushData
  BY <1>19 DEF FlushData, SourceStops
<1>20. CASE PushBlock \/ StoreResult \/ Monitor \/ RangeReady \/ DemuxGoesOn
   \/ UNCHANGED vars
  BY <1>20 DEF vars, PushBlock, StoreResult, ReaderPauses, Monitor,
     pending_eos, RangeReady, DemuxGoesOn
<1>21. QED
  BY <1>1, <1>2, <1>3, <1>4, <1>5, <1>6, <1>7, <1>8, <1>9, <1>10, <1>11,
     <1>12, <1>13, <1>14, <1>15, <1>16, <1>17, <1>18, <1>19, <1>20 DEF Next,
     Source, Reader, Pull, Begin, Proceed

-----------------------------------------------------------------------------
(* The cache and the segment.                                              *)

\* A block that is written goes behind the run; what lies before stays.
LEMMA WriteExtends ==
  ASSUME CacheTypes, NEW b \in Blocks, cache_write_buffer(b)
  PROVE  /\ write_position' = write_position + 1
         /\ file'[write_position + 1] = b
         /\ \A i \in 1..write_position : file'[i] = file[i]
<1> USE DEF CacheTypes, cache_write_buffer
<1>1. CASE write_position < Len(file)
  BY <1>1
<1>2. CASE ~(write_position < Len(file))
  <2>1. write_position = Len(file) /\ file' = Append(file, b)
    BY <1>2
  <2>2. QED
    BY <2>1, AppendProperties
<1>3. QED
  BY <1>1, <1>2

\* A newsegment event is taken, or the source goes on without one.
LEMMA SegmentTaken ==
  ASSUME EnqueueSegment, Typed
  PROVE  \/ /\ TakeSegment /\ ~eos /\ position < Size
            /\ refused' = (refused /\ rpc = "push")
         \/ (RefuseSegment \/ EmptySegment) /\ refused'
<1>1. position \in Int /\ Size \in Int
  BY SizeAssumption, TargetAssumption DEF Typed, SourceTypes, Positions
<1>2. CASE ~eos /\ position < Size
  <2>1. ~(position >= Size) /\ ~(position > Size)
    BY <1>1, <1>2
  <2>2. refused' = (eos \/ position >= Size \/ (refused /\ rpc = "push"))
    BY DEF EnqueueSegment
  <2>3. refused' = (refused /\ rpc = "push")
    BY <1>2, <2>1, <2>2, Zenon
  <2>4. QED
    BY <1>2, <2>1, <2>3 DEF EnqueueSegment
<1>3. CASE eos \/ ~(position < Size)
  <2>1. eos \/ position >= Size
    BY <1>1, <1>3
  <2>2. refused' = (eos \/ position >= Size \/ (refused /\ rpc = "push"))
    BY DEF EnqueueSegment
  <2>3. refused'
    BY <2>1, <2>2, Zenon
  <2>4. RefuseSegment \/ EmptySegment
    BY <1>3 DEF EnqueueSegment
  <2>5. QED
    BY <2>3, <2>4
<1>4. QED
  BY <1>2, <1>3

\* The chain function finds the segment open at the position of its block.
LEMMA BlockInSegment == Typed /\ SourceFlow /\ Modes /\ SegmentEnd => MustNeverHappen
<1> SUFFICES ASSUME Typed, SourceFlow, Modes, SegmentEnd,
                    spc = "chain", ~eos, ~unexpected, ~refused, kpc # "closed"
             PROVE  position < Stop
  BY DEF MustNeverHappen
<1>1. position < setup.available
  BY DEF Typed, SourceTypes
<1>2. ~update
  BY DEF SourceFlow, Modes
<1>3. QED
  BY <1>1, <1>2, SizeAssumption, TargetAssumption
     DEF SegmentEnd, Typed, SourceTypes, CacheTypes, Segments, Stop, Positions,
         Setups

LEMMA EosPendingStep == SourceFlow /\ Modes /\ EosPending /\ [Next]_vars =>
   EosPending'
<1> SUFFICES ASSUME SourceFlow, Modes, EosPending, [Next]_vars PROVE
   EosPending'
  OBVIOUS
<1> USE DEF sourceVars, connectionVars, cacheVars, segmentVars, eosVars,
   statusVars, readerVars, rangeVars, demuxVars, appVars, downstreamVars,
   seekVars, EosPending
<1>1. CASE EnqueueSegment
  BY <1>1 DEF EnqueueSegment, TakeSegment, RefuseSegment, EmptySegment,
     RestartCache, send_position_message, SignalAdd, NoSignal
<1>2. CASE ReadNextBlock
  BY <1>2 DEF ReadNextBlock
<1>3. CASE chain
  BY <1>3 DEF chain, create_sourcepad, reset_eos, send_position_message,
     SignalAdd, NoSignal, cache_write_buffer, SourceFlow
<1>4. CASE EnqueueEos
  BY <1>4 DEF EnqueueEos, Smaller, send_position_message, SignalAdd, NoSignal,
     SourceFlow
<1>5. CASE getrange
  BY <1>5 DEF getrange, InCache, BlockAt, Smaller, reset_eos,
     cache_set_read_position
<1>6. CASE DecideSeek
  BY <1>6 DEF DecideSeek, SeekInCache, AnnounceTarget, reset_eos,
     cache_set_read_position, SegmentUnderWay
<1>7. CASE SeekData
  BY <1>7 DEF SeekData, SourceSeeks, SourceParked, SegmentUnderWay
<1>8. CASE SourceSteps \/ ReaderLoop \/ PushBlock \/ StoreResult \/ Monitor \/
   RangeReady \/ DemuxGoesOn \/ FlushStart \/ DemuxSeeks \/ Deactivate \/
   StopReader \/ FlushStop \/ StopSource \/ RestartSource \/ FallBack \/
   StartReader \/ FlushData \/ UNCHANGED vars
  BY <1>8 DEF vars, SourceSteps, SourceLoop, SourceLoopEnd, ReaderLoop,
     ReaderStops, ReaderPauses, PushEvent, ReadBlock, cache_has_enough_data,
     PushBlock, StoreResult, Monitor, pending_eos, RangeReady, DemuxGoesOn,
     FlushStart, Targets, DemuxSeeks, Deactivate, SignalAdd, StopReader,
     FlushStop, StopSource, SourceGivesUp, RestartSource, SourceRestarts,
     FallBack, cache_set_read_position, StartReader, AnnounceTarget,
     FlushData, SourceStops
<1>9. QED
  BY <1>1, <1>2, <1>3, <1>4, <1>5, <1>6, <1>7, <1>8 DEF Next, Source, Reader,
     Pull, Begin, Proceed

LEMMA ClosedSegmentStep == Typed /\ Modes /\ ClosedSegment /\ [Next]_vars =>
   ClosedSegment'
<1> SUFFICES ASSUME Typed, Modes, ClosedSegment, [Next]_vars PROVE
   ClosedSegment'
  OBVIOUS
<1> USE SizeAssumption, TargetAssumption
<1> USE DEF sourceVars, connectionVars, cacheVars, segmentVars, eosVars,
   statusVars, readerVars, rangeVars, demuxVars, appVars, downstreamVars,
   seekVars, ClosedSegment, Start, LastStop, Stop
<1>1. CASE SourceSteps
  BY <1>1 DEF SourceSteps, SourceLoop, SourceLoopEnd, Modes
<1>2. CASE EnqueueSegment
  BY <1>2 DEF EnqueueSegment, TakeSegment, RefuseSegment, EmptySegment,
     RestartCache, send_position_message, SignalAdd, NoSignal
<1>3. CASE ReadNextBlock
  BY <1>3 DEF ReadNextBlock
<1>4. CASE chain
  BY <1>4 DEF chain, create_sourcepad, reset_eos, send_position_message,
     SignalAdd, NoSignal, cache_write_buffer, Modes, Typed, CacheTypes,
     SourceTypes, Segments, Positions
<1>5. CASE EnqueueEos
  BY <1>5 DEF EnqueueEos, Smaller, send_position_message, SignalAdd, NoSignal,
     Typed, CacheTypes, Segments
<1>6. CASE getrange
  BY <1>6 DEF getrange, InCache, BlockAt, Smaller, reset_eos,
     cache_set_read_position
<1>7. CASE FlushStart
  BY <1>7 DEF FlushStart, Targets
<1>8. CASE DemuxSeeks
  BY <1>8 DEF DemuxSeeks, Targets
<1>9. CASE Deactivate
  BY <1>9 DEF Deactivate, SignalAdd
<1>10. CASE StopReader
  BY <1>10 DEF StopReader, SignalAdd
<1>11. CASE DecideSeek
  BY <1>11 DEF DecideSeek, SeekInCache, AnnounceTarget, reset_eos,
     cache_set_read_position, SegmentUnderWay
<1>12. CASE FlushStop
  BY <1>12 DEF FlushStop
<1>13. CASE StopSource
  BY <1>13 DEF StopSource, SourceGivesUp
<1>14. CASE SeekData
  BY <1>14 DEF SeekData, SourceSeeks, SourceParked, SegmentUnderWay
<1>15. CASE RestartSource
  BY <1>15 DEF RestartSource, SourceRestarts
<1>16. CASE FallBack
  BY <1>16 DEF FallBack, cache_set_read_position
<1>17. CASE StartReader
  BY <1>17 DEF StartReader, AnnounceTarget
<1>18. CASE FlushData
  BY <1>18 DEF FlushData, SourceStops
<1>19. CASE ReaderLoop \/ PushBlock \/ StoreResult \/ Monitor \/ RangeReady \/
   DemuxGoesOn \/ UNCHANGED vars
  BY <1>19 DEF vars, ReaderLoop, ReaderStops, ReaderPauses, PushEvent,
     ReadBlock, cache_has_enough_data, PushBlock, StoreResult, Monitor,
     pending_eos, RangeReady, DemuxGoesOn
<1>20. QED
  BY <1>1, <1>2, <1>3, <1>4, <1>5, <1>6, <1>7, <1>8, <1>9, <1>10, <1>11,
     <1>12, <1>13, <1>14, <1>15, <1>16, <1>17, <1>18, <1>19 DEF Next, Source,
     Reader, Pull, Begin, Proceed

LEMMA CacheIsSegmentStep == Typed /\ SourceFlow /\ Modes /\ Run /\ SegmentEnd
   /\ [Next]_vars => CacheIsSegment'
<1> SUFFICES ASSUME Typed, SourceFlow, Modes, Run, SegmentEnd, [Next]_vars
   PROVE CacheIsSegment'
  OBVIOUS
<1> USE SizeAssumption, TargetAssumption
<1> USE DEF sourceVars, connectionVars, cacheVars, segmentVars, eosVars,
   statusVars, readerVars, rangeVars, demuxVars, appVars, downstreamVars,
   seekVars, Run
<1>1. CASE SourceSteps
  BY <1>1 DEF SourceSteps, SourceLoop, SourceLoopEnd, CacheIsSegment, Start,
     LastStop
<1>2. CASE EnqueueSegment
  <2>1. CASE (RefuseSegment \/ EmptySegment) /\ refused'
    BY <2>1 DEF CacheIsSegment
  <2>2. CASE TakeSegment /\ ~eos /\ position < Size
    <3>1. cache_read_offset' = position /\ write_position' = 0
      BY <2>2 DEF TakeSegment, RestartCache, Modes
    <3>2. Start' = position /\ LastStop' = position
      BY <2>2 DEF TakeSegment, Start, LastStop
    <3>3. position' = position /\ position \in Nat
      BY <1>2 DEF EnqueueSegment, Typed, SourceTypes, Positions
    <3>4. QED
      BY <3>1, <3>2, <3>3 DEF CacheIsSegment
  <2>3. QED
    BY <1>2, <2>1, <2>2, SegmentTaken
<1>3. CASE ReadNextBlock
  BY <1>3 DEF ReadNextBlock, CacheIsSegment, Start, LastStop, SourceFlow
<1>4. CASE chain
  <2>1. CASE eos \/ unexpected
    BY <1>4, <2>1 DEF chain, SourceFlow, EosPending, CacheIsSegment, Start, LastStop
  <2>2. CASE ~eos /\ ~unexpected
    <3> SUFFICES ASSUME ~refused, kpc # "closed" PROVE CacheIsSegment'
      BY <1>4 DEF chain, CacheIsSegment
    <3>1. position < Stop /\ position \in Blocks
      BY <1>4, <2>2, BlockInSegment
         DEF MustNeverHappen, chain, Typed, SourceTypes, Setups, Positions, Blocks
    <3>2. /\ sink_segment' = [sink_segment EXCEPT !.last_stop = position + 1]
          /\ cache_write_buffer(position) /\ position' = position + 1
          /\ UNCHANGED cache_read_offset
      <4>1. ~(Stop < position + 1)
        BY <3>1 DEF Typed, CacheTypes, Segments, Stop, Positions, Blocks
      <4>2. QED
        BY <1>4, <2>2, <4>1 DEF chain
    <3>3. /\ LastStop' = position + 1 /\ UNCHANGED Start
          /\ write_position' = write_position + 1
      BY <3>2 DEF Typed, CacheTypes, Segments, Start, LastStop, cache_write_buffer
    <3>4. position = Start + write_position
      BY <1>4, <2>2 DEF CacheIsSegment, chain, SourceFlow
    <3>5. QED
      BY <1>4, <3>2, <3>3, <3>4
         DEF CacheIsSegment, chain, Typed, CacheTypes, SourceTypes, Segments,
             Start, Positions, Blocks
  <2>3. QED
    BY <2>1, <2>2
<1>5. CASE EnqueueEos
  BY <1>5 DEF EnqueueEos, Smaller, send_position_message, SignalAdd, NoSignal,
     CacheIsSegment, Start, LastStop, Typed, CacheTypes, Segments
<1>6. CASE ReaderLoop
  BY <1>6 DEF ReaderLoop, ReaderStops, ReaderPauses, PushEvent, ReadBlock,
     cache_has_enough_data, CacheIsSegment, Start, LastStop
<1>7. CASE PushBlock
  BY <1>7 DEF PushBlock, CacheIsSegment, Start, LastStop
<1>8. CASE StoreResult
  BY <1>8 DEF StoreResult, ReaderPauses, CacheIsSegment, Start, LastStop
<1>9. CASE Monitor
  BY <1>9 DEF Monitor, pending_eos, CacheIsSegment, Start, LastStop
<1>10. CASE RangeReady
  BY <1>10 DEF RangeReady, CacheIsSegment, Start, LastStop
<1>11. CASE getrange
  BY <1>11 DEF getrange, InCache, BlockAt, Smaller, reset_eos,
     cache_set_read_position, CacheIsSegment, Start, LastStop
<1>12. CASE DemuxGoesOn
  BY <1>12 DEF DemuxGoesOn, CacheIsSegment, Start, LastStop
<1>13. CASE FlushStart
  BY <1>13 DEF FlushStart, Targets, CacheIsSegment, Start, LastStop
<1>14. CASE DemuxSeeks
  BY <1>14 DEF DemuxSeeks, Targets, CacheIsSegment, Start, LastStop
<1>15. CASE Deactivate
  BY <1>15 DEF Deactivate, SignalAdd, CacheIsSegment, Start, LastStop
<1>16. CASE StopReader
  BY <1>16 DEF StopReader, SignalAdd, CacheIsSegment, Start, LastStop
<1>17. CASE DecideSeek
  BY <1>17 DEF DecideSeek, SeekInCache, AnnounceTarget, reset_eos,
     cache_set_read_position, SegmentUnderWay, CacheIsSegment, Start, LastStop
<1>18. CASE FlushStop
  BY <1>18 DEF FlushStop, CacheIsSegment, Start, LastStop
<1>19. CASE StopSource
  BY <1>19 DEF StopSource, SourceGivesUp, CacheIsSegment, Start, LastStop
<1>20. CASE SeekData
  BY <1>20 DEF SeekData, SourceSeeks, SourceParked, SegmentUnderWay,
     CacheIsSegment, Start, LastStop
<1>21. CASE RestartSource
  BY <1>21 DEF RestartSource, SourceRestarts, CacheIsSegment, Start, LastStop
<1>22. CASE FallBack
  BY <1>22 DEF FallBack, cache_set_read_position, CacheIsSegment, Start,
     LastStop
<1>23. CASE StartReader
  BY <1>23 DEF StartReader, AnnounceTarget, CacheIsSegment, Start, LastStop
<1>24. CASE FlushData
  BY <1>24 DEF FlushData, SourceStops, CacheIsSegment
<1>25. CASE UNCHANGED vars
  BY <1>25 DEF vars, CacheIsSegment, Start, LastStop
<1>26. QED
  BY <1>1, <1>2, <1>3, <1>4, <1>5, <1>6, <1>7, <1>8, <1>9, <1>10, <1>11,
     <1>12, <1>13, <1>14, <1>15, <1>16, <1>17, <1>18, <1>19, <1>20, <1>21,
     <1>22, <1>23, <1>24, <1>25 DEF Next, Source, Reader, Pull, Begin, Proceed

LEMMA CacheHoldsRunStep == Typed /\ SourceFlow /\ Modes /\ Run /\ SegmentEnd
   /\ [Next]_vars => CacheHoldsRun'
<1> SUFFICES ASSUME Typed, SourceFlow, Modes, Run, SegmentEnd, [Next]_vars
   PROVE CacheHoldsRun'
  OBVIOUS
<1> USE SizeAssumption, TargetAssumption
<1> USE DEF sourceVars, connectionVars, cacheVars, segmentVars, eosVars,
   statusVars, readerVars, rangeVars, demuxVars, appVars, downstreamVars,
   seekVars, Run
<1>1. CASE SourceSteps
  BY <1>1 DEF SourceSteps, SourceLoop, SourceLoopEnd, CacheHoldsRun
<1>2. CASE EnqueueSegment
  <2>1. CASE (RefuseSegment \/ EmptySegment) /\ refused'
    BY <2>1 DEF CacheHoldsRun
  <2>2. CASE TakeSegment /\ ~eos /\ position < Size
    <3>1. write_position' = 0
      BY <2>2 DEF TakeSegment, RestartCache, Modes
    <3>2. QED
      BY <3>1 DEF CacheHoldsRun
  <2>3. QED
    BY <1>2, <2>1, <2>2, SegmentTaken
<1>3. CASE ReadNextBlock
  BY <1>3 DEF ReadNextBlock, CacheHoldsRun
<1>4. CASE chain
  <2>1. CASE UNCHANGED <<write_position, file>>
    BY <1>4, <2>1 DEF chain, CacheHoldsRun
  <2>2. CASE cache_write_buffer(position) /\ ~eos /\ ~unexpected /\ kpc # "closed"
    <3> SUFFICES ASSUME ~refused, NEW i \in 1..write_position'
                 PROVE  file'[i] = cache_read_offset + i - 1
      BY <1>4 DEF chain, CacheHoldsRun
    <3>1. position = cache_read_offset + write_position
      BY <1>4, <2>2 DEF CacheIsSegment, chain, SourceFlow
    <3>2. /\ write_position' = write_position + 1
          /\ file'[write_position + 1] = position
          /\ \A k \in 1..write_position : file'[k] = file[k]
      BY <1>4, <2>2, WriteExtends
         DEF Typed, SourceTypes, chain, Setups, Positions, Blocks
    <3>3. QED
      BY <3>1, <3>2 DEF CacheHoldsRun, Typed, CacheTypes, Positions
  <2>3. ~eos /\ ~unexpected /\ kpc = "closed" => UNCHANGED <<write_position, file>>
    <3> SUFFICES ASSUME ~eos, ~unexpected, kpc = "closed"
                 PROVE  UNCHANGED <<write_position, file>>
      OBVIOUS
    <3>1. Stop < position + 1
      BY <1>4 DEF ClosedSegment, chain, Typed, SourceTypes, Positions
    <3>2. QED
      BY <1>4, <3>1 DEF chain
  <2>4. QED
    BY <1>4, <2>1, <2>2, <2>3 DEF chain
<1>5. CASE EnqueueEos
  BY <1>5 DEF EnqueueEos, Smaller, send_position_message, SignalAdd, NoSignal,
     CacheHoldsRun
<1>6. CASE ReaderLoop
  BY <1>6 DEF ReaderLoop, ReaderStops, ReaderPauses, PushEvent, ReadBlock,
     cache_has_enough_data, CacheHoldsRun
<1>7. CASE getrange
  BY <1>7 DEF getrange, InCache, BlockAt, Smaller, reset_eos,
     cache_set_read_position, CacheHoldsRun
<1>8. CASE DecideSeek
  BY <1>8 DEF DecideSeek, SeekInCache, AnnounceTarget, reset_eos,
     cache_set_read_position, SegmentUnderWay, CacheHoldsRun
<1>9. CASE SeekData
  BY <1>9 DEF SeekData, SourceSeeks, SourceParked, SegmentUnderWay,
     CacheHoldsRun
<1>10. CASE FlushData
  BY <1>10 DEF FlushData, SourceStops, CacheHoldsRun
<1>11. CASE PushBlock \/ StoreResult \/ Monitor \/ RangeReady \/ DemuxGoesOn
   \/ FlushStart \/ DemuxSeeks \/ Deactivate \/ StopReader \/ FlushStop \/
   StopSource \/ RestartSource \/ FallBack \/ StartReader \/ UNCHANGED vars
  BY <1>11 DEF vars, CacheHoldsRun, PushBlock, StoreResult, ReaderPauses,
     Monitor, pending_eos, RangeReady, DemuxGoesOn, FlushStart, Targets,
     DemuxSeeks, Deactivate, SignalAdd, StopReader, FlushStop, StopSource,
     SourceGivesUp, RestartSource, SourceRestarts, FallBack,
     cache_set_read_position, StartReader, AnnounceTarget
<1>12. QED
  BY <1>1, <1>2, <1>3, <1>4, <1>5, <1>6, <1>7, <1>8, <1>9, <1>10, <1>11 DEF
     Next, Source, Reader, Pull, Begin, Proceed

LEMMA SegmentEndStep == Typed /\ SourceFlow /\ Modes /\ Run /\ SegmentEnd /\
   [Next]_vars => SegmentEnd'
<1> SUFFICES ASSUME Typed, SourceFlow, Modes, Run, SegmentEnd, [Next]_vars
   PROVE SegmentEnd'
  OBVIOUS
<1> USE SizeAssumption, TargetAssumption
<1> USE DEF sourceVars, connectionVars, cacheVars, segmentVars, eosVars,
   statusVars, readerVars, rangeVars, demuxVars, appVars, downstreamVars,
   seekVars, SegmentEnd
<1>1. CASE SourceSteps
  BY <1>1 DEF SourceSteps, SourceLoop, SourceLoopEnd, LastStop, Stop
<1>2. CASE EnqueueSegment
  <2>1. CASE (RefuseSegment \/ EmptySegment) /\ refused'
    BY <2>1
  <2>2. CASE TakeSegment /\ ~eos /\ position < Size
    <3>1. LastStop' = position /\ Stop' = Size /\ ~unexpected'
      BY <2>2 DEF TakeSegment, LastStop, Stop
    <3>2. position' = position /\ ~eos' /\ UNCHANGED setup
      BY <1>2, <2>2 DEF EnqueueSegment
    <3>3. QED
      BY <2>2, <3>1, <3>2 DEF Typed, SourceTypes, Setups, Positions
  <2>3. QED
    BY <1>2, <2>1, <2>2, SegmentTaken
<1>3. CASE ReadNextBlock
  BY <1>3 DEF ReadNextBlock, LastStop, Stop, SourceFlow
<1>4. CASE chain
  <2>1. CASE eos \/ unexpected
    BY <1>4, <2>1 DEF chain, Start, LastStop, Stop
  <2>2. CASE ~eos /\ ~unexpected
    <3> SUFFICES ASSUME kpc # "closed", ~refused PROVE SegmentEnd'
      BY <1>4 DEF chain
    <3>1. sink_segment' = [sink_segment EXCEPT !.last_stop = position + 1]
      BY <1>4, <2>2 DEF chain
    <3>2. LastStop' = position + 1 /\ UNCHANGED Stop
      BY <3>1 DEF Typed, CacheTypes, Segments, LastStop, Stop
    <3>3. ~eos'
      BY <1>4, <2>2 DEF chain, create_sourcepad, reset_eos
    <3>4. position' = position + 1 /\ UNCHANGED <<update, setup, unexpected>>
      BY <1>4, <2>2 DEF chain, create_sourcepad
    <3>5. position < Stop
      BY <1>4, <2>2, BlockInSegment DEF MustNeverHappen, chain
    <3>6. position + 1 <= Stop
      BY <3>5 DEF Typed, SourceTypes, CacheTypes, Segments, Stop, Positions
    <3>7. QED
      BY <3>2, <3>3, <3>4, <3>6
  <2>3. QED
    BY <2>1, <2>2
<1>5. CASE EnqueueEos
  <2>1. CASE eos
    BY <1>5, <2>1 DEF EnqueueEos, Start, LastStop, Stop
  <2>2. CASE ~eos
    <3> SUFFICES ASSUME kpc # "closed", ~refused PROVE SegmentEnd'
      BY <1>5 DEF EnqueueEos
    <3>1. LastStop <= Stop
      BY <1>5 DEF EnqueueEos, SourceFlow, Modes
    <3>2. LastStop' = LastStop /\ Stop' = Smaller(Stop, LastStop)
      BY <1>5, <2>2 DEF EnqueueEos, LastStop, Stop, Typed, CacheTypes, Segments
    <3>3. Stop' = LastStop
      BY <3>1, <3>2 DEF Smaller, Typed, CacheTypes, Segments, LastStop, Stop, Positions
    <3>4. ~unexpected => LastStop >= setup.available
      BY <1>5 DEF EnqueueEos, SourceFlow
    <3>5. UNCHANGED <<position, update, setup, unexpected, pending_event>>
      BY <1>5 DEF EnqueueEos
    <3>6. LastStop \in Int
      BY DEF Typed, CacheTypes, Segments, LastStop, Positions
    <3>7. QED
      BY <3>2, <3>3, <3>4, <3>5, <3>6
  <2>3. QED
    BY <2>1, <2>2
<1>6. CASE ReaderLoop
  BY <1>6 DEF ReaderLoop, ReaderStops, ReaderPauses, PushEvent, ReadBlock,
     cache_has_enough_data, LastStop, Stop
<1>7. CASE PushBlock
  BY <1>7 DEF PushBlock, LastStop, Stop
<1>8. CASE StoreResult
  BY <1>8 DEF StoreResult, ReaderPauses, LastStop, Stop
<1>9. CASE Monitor
  BY <1>9 DEF Monitor, pending_eos, LastStop, Stop
<1>10. CASE RangeReady
  BY <1>10 DEF RangeReady, LastStop, Stop
<1>11. CASE getrange
  BY <1>11 DEF getrange, InCache, BlockAt, Smaller, reset_eos,
     cache_set_read_position, LastStop, Stop
<1>12. CASE DemuxGoesOn
  BY <1>12 DEF DemuxGoesOn, LastStop, Stop
<1>13. CASE FlushStart
  BY <1>13 DEF FlushStart, Targets, LastStop, Stop
<1>14. CASE DemuxSeeks
  BY <1>14 DEF DemuxSeeks, Targets, LastStop, Stop
<1>15. CASE Deactivate
  BY <1>15 DEF Deactivate, SignalAdd, LastStop, Stop
<1>16. CASE StopReader
  BY <1>16 DEF StopReader, SignalAdd, LastStop, Stop
<1>17. CASE DecideSeek
  BY <1>17 DEF DecideSeek, SeekInCache, AnnounceTarget, reset_eos,
     cache_set_read_position, SegmentUnderWay, LastStop, Stop
<1>18. CASE FlushStop
  BY <1>18 DEF FlushStop, LastStop, Stop
<1>19. CASE StopSource
  BY <1>19 DEF StopSource, SourceGivesUp, LastStop, Stop
<1>20. CASE SeekData
  <2>1. UNCHANGED <<sink_segment, setup, eos, unexpected, refused>>
    BY <1>20 DEF SeekData
  <2>2. kpc # "closed" /\ ~update
    BY <1>20 DEF SeekData, Modes
  <2>3. \/ pending_event' = "NEWSEGMENT"
        \/ UNCHANGED <<pending_event, position>>
    BY <1>20 DEF SeekData, SourceSeeks
  <2>4. QED
    BY <2>1, <2>2, <2>3 DEF LastStop, Stop
<1>21. CASE RestartSource
  BY <1>21 DEF RestartSource, SourceRestarts, LastStop, Stop
<1>22. CASE FallBack
  BY <1>22 DEF FallBack, cache_set_read_position, LastStop, Stop
<1>23. CASE StartReader
  BY <1>23 DEF StartReader, AnnounceTarget, LastStop, Stop
<1>24. CASE FlushData
  BY <1>24 DEF FlushData, SourceStops, LastStop, Stop
<1>25. CASE UNCHANGED vars
  BY <1>25 DEF vars, LastStop, Stop
<1>26. QED
  BY <1>1, <1>2, <1>3, <1>4, <1>5, <1>6, <1>7, <1>8, <1>9, <1>10, <1>11,
     <1>12, <1>13, <1>14, <1>15, <1>16, <1>17, <1>18, <1>19, <1>20, <1>21,
     <1>22, <1>23, <1>24, <1>25 DEF Next, Source, Reader, Pull, Begin, Proceed

LEMMA RunStep ==
    Typed /\ SourceFlow /\ Modes /\ Run /\ SegmentEnd /\ [Next]_vars => Run'
  BY EosPendingStep, ClosedSegmentStep, CacheIsSegmentStep, CacheHoldsRunStep
     DEF Run

-----------------------------------------------------------------------------
(* The newsegment event that follows a seek.                               *)

\* The events that wait for the reader are told apart.
LEMMA Events ==
  /\ None # Eos
  /\ \A p : NewSegment(p) # None /\ NewSegment(p) # Eos /\ NewSegment(p)[2] = p
  /\ \A p, q : NewSegment(p) = NewSegment(q) => p = q
  BY DEF None, Eos, NewSegment

LEMMA TargetStep == Typed /\ SourceFlow /\ Modes /\ Target /\ [Next]_vars =>
   Target'
<1> SUFFICES ASSUME Typed, SourceFlow, Modes, Target, [Next]_vars PROVE
   Target'
  OBVIOUS
<1> USE Events
<1> USE DEF sourceVars, connectionVars, cacheVars, segmentVars, eosVars,
   statusVars, readerVars, rangeVars, demuxVars, appVars, downstreamVars,
   seekVars, Target
<1>1. CASE EnqueueSegment
  BY <1>1 DEF EnqueueSegment, TakeSegment, RefuseSegment, EmptySegment,
     RestartCache, send_position_message, SignalAdd, NoSignal, SourceFlow
<1>2. CASE ReadNextBlock
  BY <1>2 DEF ReadNextBlock
<1>3. CASE chain
  <2>1. pending_src_event' \in {pending_src_event, None}
    BY <1>3 DEF chain, create_sourcepad, reset_eos
  <2>2. UNCHANGED <<setup, kpc, late, target, pending_event>>
    BY <1>3 DEF chain
  <2>3. pending_event # "NEWSEGMENT"
    BY <1>3 DEF chain, SourceFlow
  <2>4. QED
    BY <2>1, <2>2, <2>3
<1>4. CASE EnqueueEos
  BY <1>4 DEF EnqueueEos, Smaller, send_position_message, SignalAdd, NoSignal
<1>5. CASE ReaderLoop
  <2>1. pending_src_event' \in {pending_src_event, None, Eos}
    BY <1>5 DEF ReaderLoop, ReaderStops, PushEvent, ReadBlock
  <2>2. UNCHANGED <<setup, kpc, late, target, position, pending_event>>
    BY <1>5 DEF ReaderLoop
  <2>3. QED
    BY <2>1, <2>2
<1>6. CASE PushBlock
  BY <1>6 DEF PushBlock
<1>7. CASE StoreResult
  BY <1>7 DEF StoreResult, ReaderPauses
<1>8. CASE getrange
  BY <1>8 DEF getrange, InCache, BlockAt, Smaller, reset_eos,
     cache_set_read_position, Modes
<1>9. CASE FlushStart
  BY <1>9 DEF FlushStart, Targets
<1>10. CASE DemuxSeeks
  BY <1>10 DEF DemuxSeeks, Targets
<1>11. CASE Deactivate
  BY <1>11 DEF Deactivate, SignalAdd
<1>12. CASE StopReader
  BY <1>12 DEF StopReader, SignalAdd
<1>13. CASE DecideSeek
  BY <1>13 DEF DecideSeek, SeekInCache, AnnounceTarget, reset_eos,
     cache_set_read_position, SegmentUnderWay
<1>14. CASE FlushStop
  BY <1>14 DEF FlushStop
<1>15. CASE StopSource
  BY <1>15 DEF StopSource, SourceGivesUp
<1>16. CASE SeekData
  BY <1>16 DEF SeekData, SourceSeeks, SourceParked, SegmentUnderWay
<1>17. CASE RestartSource
  BY <1>17 DEF RestartSource, SourceRestarts
<1>18. CASE FallBack
  BY <1>18 DEF FallBack, cache_set_read_position
<1>19. CASE StartReader
  BY <1>19 DEF StartReader, AnnounceTarget
<1>20. CASE FlushData
  BY <1>20 DEF FlushData, SourceStops
<1>21. CASE SourceSteps \/ Monitor \/ RangeReady \/ DemuxGoesOn \/ UNCHANGED
   vars
  BY <1>21 DEF vars, SourceSteps, SourceLoop, SourceLoopEnd, Monitor,
     pending_eos, RangeReady, DemuxGoesOn
<1>22. QED
  BY <1>1, <1>2, <1>3, <1>4, <1>5, <1>6, <1>7, <1>8, <1>9, <1>10, <1>11,
     <1>12, <1>13, <1>14, <1>15, <1>16, <1>17, <1>18, <1>19, <1>20, <1>21 DEF
     Next, Source, Reader, Pull, Begin, Proceed

-----------------------------------------------------------------------------
(* The stream that downstream gets.                                        *)

LEMMA SeekAnnouncedStep == Typed /\ SourceFlow /\ Modes /\ FallsBack /\ Run /\
   SegmentEnd /\ Stream /\ [Next]_vars => SeekAnnounced'
<1> SUFFICES ASSUME Typed, SourceFlow, Modes, FallsBack, Run, SegmentEnd,
   Stream, [Next]_vars PROVE SeekAnnounced'
  OBVIOUS
<1> USE SizeAssumption, TargetAssumption
<1> USE DEF Stream, sourceVars, connectionVars, cacheVars, segmentVars, eosVars,
   statusVars, readerVars, rangeVars, demuxVars, appVars, downstreamVars,
   seekVars, SeekAnnounced, Undisturbed, Place, Stop
<1>1. CASE SourceSteps
  BY <1>1 DEF SourceSteps, SourceLoop, SourceLoopEnd
<1>2. CASE EnqueueSegment
  <2>1. CASE TakeSegment
    <3>1. pending_src_event' = NewSegment(position) /\ position \in Positions
      BY <2>1 DEF TakeSegment, Typed, SourceTypes
    <3>2. QED
      BY <3>1
  <2>2. CASE refused'
    BY <2>2
  <2>3. QED
    BY <1>2, <2>1, <2>2, SegmentTaken
<1>3. CASE ReadNextBlock
  BY <1>3 DEF ReadNextBlock
<1>4. CASE chain
  <2> SUFFICES ASSUME kpc = "flush_stop" PROVE SeekAnnounced'
    BY <1>4 DEF chain
  <2>1. UNCHANGED <<kpc, setup, failed, refused, instant_seek,
                    cache_read_offset, read_position>>
    BY <1>4 DEF chain
  <2>2. UNCHANGED pending_src_event
    BY <1>4 DEF chain, Modes
  <2>3. UNCHANGED Stop
    BY <1>4 DEF chain, Typed, CacheTypes, Segments
  <2>4. QED
    BY <2>1, <2>2, <2>3 DEF Stream
<1>5. CASE EnqueueEos
  <2>1. UNCHANGED <<kpc, setup, failed, refused, instant_seek,
                    cache_read_offset, read_position, pending_src_event>>
    BY <1>5 DEF EnqueueEos
  <2>2. Stop \in Int /\ LastStop \in Int /\ Place \in Int /\ sink_segment \in Segments
    BY DEF Typed, CacheTypes, Segments, LastStop, Positions
  <2>3. Stop' \in {Stop, Smaller(Stop, LastStop)}
    BY <1>5, <2>2 DEF EnqueueEos, Segments
  <2> HIDE DEF Stop, Place
  <2>4. Place > Stop => Place > Stop'
    BY <2>2, <2>3 DEF Smaller
  <2>5. Place' = Place
    BY <2>1 DEF Place
  <2>6. QED
    BY <2>1, <2>4, <2>5 DEF Stream
<1>6. CASE ReaderLoop
  BY <1>6 DEF ReaderLoop, ReaderStops, ReaderPauses, PushEvent, ReadBlock,
     cache_has_enough_data, Modes, Seeking, ReaderParked
<1>7. CASE PushBlock
  BY <1>7 DEF PushBlock
<1>8. CASE StoreResult
  BY <1>8 DEF StoreResult, ReaderPauses
<1>9. CASE getrange
  BY <1>9 DEF getrange, InCache, BlockAt, Smaller, reset_eos,
     cache_set_read_position, Modes
<1>10. CASE FlushStart
  BY <1>10 DEF FlushStart, Targets
<1>11. CASE DemuxSeeks
  BY <1>11 DEF DemuxSeeks, Targets
<1>12. CASE Deactivate
  BY <1>12 DEF Deactivate, SignalAdd
<1>13. CASE StopReader
  BY <1>13 DEF StopReader, SignalAdd
<1>14. CASE DecideSeek
  <2> SUFFICES ASSUME instant_seek', ~refused PROVE SeekAnnounced'
    BY <1>14 DEF DecideSeek
  <2>1. /\ cache_set_read_position(target - cache_read_offset) /\ target >= Start
        /\ AnnounceTarget
    BY <1>14 DEF DecideSeek, SeekInCache
  <2>2. Start = cache_read_offset
    BY <1>14 DEF DecideSeek, Run, CacheIsSegment
  <2>3. target = cache_read_offset + read_position'
    BY <2>1, <2>2, PlaceOfTarget
  <2>4. UNCHANGED <<cache_read_offset, sink_segment>> /\ target \in Positions
    BY <1>14 DEF DecideSeek, Typed, SeekTypes
  <2>5. QED
    BY <2>1, <2>3, <2>4 DEF AnnounceTarget
<1>15. CASE FlushStop
  BY <1>15 DEF FlushStop
<1>16. CASE StopSource
  BY <1>16 DEF StopSource, SourceGivesUp
<1>17. CASE SeekData
  BY <1>17 DEF SeekData, SourceSeeks, SourceParked, SegmentUnderWay
<1>18. CASE RestartSource
  BY <1>18 DEF RestartSource, SourceRestarts
<1>19. CASE FallBack
  BY <1>19 DEF FallBack, cache_set_read_position
<1>20. CASE StartReader
  BY <1>20 DEF StartReader, AnnounceTarget
<1>21. CASE FlushData
  BY <1>21 DEF FlushData, SourceStops
<1>22. CASE Monitor \/ RangeReady \/ DemuxGoesOn \/ UNCHANGED vars
  BY <1>22 DEF vars, Stream, Monitor, pending_eos, RangeReady, DemuxGoesOn
<1>23. QED
  BY <1>1, <1>2, <1>3, <1>4, <1>5, <1>6, <1>7, <1>8, <1>9, <1>10, <1>11,
     <1>12, <1>13, <1>14, <1>15, <1>16, <1>17, <1>18, <1>19, <1>20, <1>21,
     <1>22 DEF Next, Source, Reader, Pull, Begin, Proceed

LEMMA SegmentAtReaderStep == Typed /\ SourceFlow /\ Modes /\ FallsBack /\ Run
   /\ SegmentEnd /\ Stream /\ [Next]_vars => SegmentAtReader'
<1> SUFFICES ASSUME Typed, SourceFlow, Modes, FallsBack, Run, SegmentEnd,
   Stream, [Next]_vars PROVE SegmentAtReader'
  OBVIOUS
<1> USE Events
<1> USE DEF sourceVars, connectionVars, cacheVars, segmentVars, eosVars,
   statusVars, readerVars, rangeVars, demuxVars, appVars, downstreamVars,
   seekVars, Stream, SegmentAtReader, Undisturbed, Place
<1>1. CASE SourceSteps
  BY <1>1 DEF SourceSteps, SourceLoop, SourceLoopEnd
<1>2. CASE EnqueueSegment
  <2>1. CASE TakeSegment
    <3>1. cache_read_offset' = position /\ read_position' = 0
      BY <2>1 DEF TakeSegment, RestartCache, Modes
    <3>2. pending_src_event' = NewSegment(position) /\ position \in Nat
      BY <2>1 DEF TakeSegment, Typed, SourceTypes, Positions
    <3>3. position = cache_read_offset' + read_position'
      BY <3>1, <3>2
    <3>4. QED
      BY <3>2, <3>3
  <2>2. CASE refused'
    BY <2>2
  <2>3. QED
    BY <1>2, <2>1, <2>2, SegmentTaken
<1>3. CASE ReadNextBlock
  BY <1>3 DEF ReadNextBlock
<1>4. CASE chain
  <2>1. pending_src_event' \in {pending_src_event, None}
    BY <1>4 DEF chain, create_sourcepad, reset_eos
  <2>2. UNCHANGED <<setup, failed, refused, kpc, cache_read_offset, read_position>>
    BY <1>4 DEF chain
  <2>3. QED
    BY <2>1, <2>2
<1>5. CASE EnqueueEos
  BY <1>5 DEF EnqueueEos, Smaller, send_position_message, SignalAdd, NoSignal
<1>6. CASE ReaderLoop
  <2>1. \/ pending_src_event' \in {None, Eos}
        \/ UNCHANGED <<pending_src_event, read_position>>
    BY <1>6 DEF ReaderLoop, ReaderStops, PushEvent, ReadBlock
  <2>2. UNCHANGED <<setup, failed, refused, kpc, cache_read_offset>>
    BY <1>6 DEF ReaderLoop
  <2>3. QED
    BY <2>1, <2>2
<1>7. CASE PushBlock
  BY <1>7 DEF PushBlock
<1>8. CASE StoreResult
  BY <1>8 DEF StoreResult, ReaderPauses
<1>9. CASE getrange
  BY <1>9 DEF getrange, InCache, BlockAt, Smaller, reset_eos,
     cache_set_read_position, Modes
<1>10. CASE FlushStart
  BY <1>10 DEF FlushStart, Targets
<1>11. CASE DemuxSeeks
  BY <1>11 DEF DemuxSeeks, Targets
<1>12. CASE Deactivate
  BY <1>12 DEF Deactivate, SignalAdd
<1>13. CASE StopReader
  BY <1>13 DEF StopReader, SignalAdd
<1>14. CASE DecideSeek
  <2> SUFFICES ASSUME ~setup.pull, ~refused, NEW p \in Positions,
                      pending_src_event' = NewSegment(p)
               PROVE  p = cache_read_offset + read_position'
    BY <1>14 DEF DecideSeek
  <2>1. /\ AnnounceTarget /\ target >= Start
        /\ cache_set_read_position(target - cache_read_offset)
    BY <1>14 DEF DecideSeek, SeekInCache, reset_eos
  <2>2. Start = cache_read_offset
    BY <1>14 DEF DecideSeek, Run, CacheIsSegment
  <2>3. p = target
    BY <2>1 DEF AnnounceTarget
  <2>4. target = cache_read_offset + read_position'
    BY <2>1, <2>2, PlaceOfTarget
  <2>5. QED
    BY <2>3, <2>4
<1>15. CASE FlushStop
  BY <1>15 DEF FlushStop
<1>16. CASE StopSource
  BY <1>16 DEF StopSource, SourceGivesUp
<1>17. CASE SeekData
  BY <1>17 DEF SeekData, SourceSeeks, SourceParked, SegmentUnderWay, Modes
<1>18. CASE RestartSource
  BY <1>18 DEF RestartSource, SourceRestarts
<1>19. CASE FallBack
  BY <1>19 DEF FallBack, cache_set_read_position
<1>20. CASE StartReader
  <2>1. CASE kpc = "start"
    BY <1>20, <2>1 DEF StartReader
  <2>2. CASE kpc = "announce"
    <3> SUFFICES ASSUME ~setup.pull, ~failed, ~refused, NEW p \in Positions,
                        pending_src_event' = NewSegment(p)
                 PROVE  p = cache_read_offset' + read_position'
      BY <1>20 DEF StartReader
    <3>1. p = target
      BY <1>20, <2>2 DEF StartReader, AnnounceTarget
    <3>2. target = cache_read_offset + read_position
      BY <2>2 DEF FallsBack
    <3>3. QED
      BY <1>20, <3>1, <3>2 DEF StartReader
  <2>3. QED
    BY <1>20, <2>1, <2>2 DEF StartReader
<1>21. CASE FlushData
  BY <1>21 DEF FlushData, SourceStops
<1>22. CASE Monitor \/ RangeReady \/ DemuxGoesOn \/ UNCHANGED vars
  BY <1>22 DEF vars, Monitor, pending_eos, RangeReady, DemuxGoesOn
<1>23. QED
  BY <1>1, <1>2, <1>3, <1>4, <1>5, <1>6, <1>7, <1>8, <1>9, <1>10, <1>11,
     <1>12, <1>13, <1>14, <1>15, <1>16, <1>17, <1>18, <1>19, <1>20, <1>21,
     <1>22 DEF Next, Source, Reader, Pull, Begin, Proceed

LEMMA ReadsNextStep == Typed /\ SourceFlow /\ Modes /\ FallsBack /\ Run /\
   SegmentEnd /\ Stream /\ [Next]_vars => ReadsNext'
<1> SUFFICES ASSUME Typed, SourceFlow, Modes, FallsBack, Run, SegmentEnd,
   Stream, [Next]_vars PROVE ReadsNext'
  OBVIOUS
<1> USE Events, SizeAssumption, TargetAssumption
<1> USE DEF sourceVars, connectionVars, cacheVars, segmentVars, eosVars,
   statusVars, readerVars, rangeVars, demuxVars, appVars, downstreamVars,
   seekVars, Stream, ReadsNext, Undisturbed, Reading, Announced, Place
<1>1. CASE SourceSteps
  BY <1>1 DEF SourceSteps, SourceLoop, SourceLoopEnd, Stop
<1>2. CASE EnqueueSegment
  <2>1. CASE TakeSegment
    BY <2>1 DEF TakeSegment
  <2>2. CASE refused'
    BY <2>2
  <2>3. QED
    BY <1>2, <2>1, <2>2, SegmentTaken
<1>3. CASE ReadNextBlock
  BY <1>3 DEF ReadNextBlock, Stop
<1>4. CASE chain
  <2>1. CASE task = "none" /\ dpc = "none"
    <3>1. next = 0 /\ cache_read_offset = 0 /\ read_position = 0 /\ seeks = 0
      BY <2>1 DEF Modes
    <3>2. UNCHANGED <<next, cache_read_offset, read_position, seeks>>
      BY <1>4 DEF chain
    <3>3. QED
      BY <3>1, <3>2
  <2>2. CASE ~(task = "none" /\ dpc = "none")
    <3>1. UNCHANGED <<setup, failed, refused, kpc, pending_src_event,
                      instant_seek, skip, srcFlushing, result, srcresult, next,
                      seeks, announced, cache_read_offset, read_position>>
      BY <1>4, <2>2 DEF chain
    <3>2. \/ UNCHANGED rpc
          \/ rpc = "wait" /\ rpc' = "woken"
      BY <1>4, <2>2 DEF chain, NoSignal, send_position_message, SignalAdd
    <3>3. UNCHANGED Stop
      BY <1>4 DEF chain, Typed, CacheTypes, Segments, Stop
    <3>4. QED
      BY <3>1, <3>2, <3>3
  <2>3. QED
    BY <2>1, <2>2
<1>5. CASE EnqueueEos
  <2>1. UNCHANGED <<setup, failed, refused, kpc, pending_src_event,
                    instant_seek, skip, srcFlushing, result, srcresult, next,
                    seeks, announced, cache_read_offset, read_position>>
    BY <1>5 DEF EnqueueEos
  <2>2. \/ UNCHANGED rpc
        \/ rpc = "wait" /\ rpc' = "woken"
    BY <1>5 DEF EnqueueEos, NoSignal, send_position_message, SignalAdd
  <2>3. Stop \in Int /\ LastStop \in Int /\ Place \in Int /\ sink_segment \in Segments
    BY DEF Typed, CacheTypes, Segments, LastStop, Stop, Positions
  <2>4. Stop' \in {Stop, Smaller(Stop, LastStop)}
    BY <1>5, <2>3 DEF EnqueueEos, Segments, Stop
  <2> HIDE DEF Place
  <2>5. Place <= Stop' => Place <= Stop
    BY <2>3, <2>4 DEF Smaller
  <2>6. Place' = Place
    BY <2>1 DEF Place
  <2>7. QED
    BY <2>1, <2>2, <2>5, <2>6
<1>6. CASE ReaderLoop
  <2>0. UNCHANGED <<sink_segment, kpc>>
    BY <1>6 DEF ReaderLoop
  <2>1. CASE srcresult # "OK" /\ ReaderStops
    BY <1>6, <2>1 DEF ReaderLoop, ReaderStops, ReaderPauses
  <2>2. CASE srcresult = "OK" /\ pending_src_event # None /\ PushEvent
    <3>1. CASE pending_src_event = Eos
      BY <1>6, <2>2, <3>1 DEF ReaderLoop, PushEvent, ReaderPauses
    <3>2. CASE pending_src_event # Eos
      <4> SUFFICES ASSUME Undisturbed, ~srcFlushing, kpc # "announce"
                   PROVE  next' = cache_read_offset + read_position
                          /\ announced' > 0
        BY <1>6, <2>2 DEF ReaderLoop, PushEvent
      <4>1. PICK p \in Positions : pending_src_event = NewSegment(p)
        BY <2>2, <3>2 DEF Typed, StatusTypes, Pending
      <4>2. next' = p /\ announced' = announced + 1
        BY <2>2, <3>2, <4>1 DEF PushEvent
      <4>3. p = cache_read_offset + read_position
        BY <4>1 DEF SegmentAtReader
      <4>4. QED
        BY <4>2, <4>3 DEF Typed, ReaderTypes
    <3>3. QED
      BY <3>1, <3>2
  <2>3. CASE ReadBlock
    BY <1>6, <2>3 DEF ReaderLoop, ReadBlock
  <2>4. CASE /\ srcresult = "OK" /\ rpc' = "wait"
             /\ UNCHANGED <<read_position, pending_src_event, skip, srcresult,
                            downstreamVars>>
    BY <1>6, <2>0, <2>4 DEF ReaderLoop, Stop
  <2>5. QED
    BY <1>6, <2>1, <2>2, <2>3, <2>4 DEF ReaderLoop
<1>7. CASE PushBlock
  <2>1. CASE next' = buffer + 1 /\ rpc' = "pushed" /\ ~srcFlushing
    <3> SUFFICES ASSUME Undisturbed, pending_src_event = None, instant_seek
                 PROVE  buffer + 1 = cache_read_offset + read_position
                        /\ Announced
      BY <1>7, <2>1 DEF PushBlock
    <3>1. /\ buffer = next /\ Announced
          /\ cache_read_offset + read_position = next + 1
      BY <1>7, <2>1 DEF PushBlock, PushesNext
    <3>2. QED
      BY <3>1
  <2>2. CASE srcFlushing \/ skip'
    BY <1>7, <2>2 DEF PushBlock
  <2>3. QED
    BY <1>7, <2>1, <2>2 DEF PushBlock
<1>8. CASE StoreResult
  BY <1>8 DEF StoreResult, ReaderPauses, Stop
<1>9. CASE Monitor
  BY <1>9 DEF Monitor, pending_eos, Stop
<1>10. CASE RangeReady
  BY <1>10 DEF RangeReady, Stop
<1>11. CASE getrange
  BY <1>11 DEF getrange, InCache, BlockAt, Smaller, reset_eos,
     cache_set_read_position, Modes
<1>12. CASE DemuxGoesOn
  BY <1>12 DEF DemuxGoesOn, Stop
<1>13. CASE FlushStart
  BY <1>13 DEF FlushStart, Targets, Stop
<1>14. CASE DemuxSeeks
  BY <1>14 DEF DemuxSeeks, Targets, Modes
<1>15. CASE Deactivate
  BY <1>15 DEF Deactivate, SignalAdd, Stop
<1>16. CASE StopReader
  BY <1>16 DEF StopReader, SignalAdd, Modes
<1>17. CASE DecideSeek
  BY <1>17 DEF DecideSeek, SeekInCache, AnnounceTarget, reset_eos,
     cache_set_read_position, SegmentUnderWay, Modes
<1>18. CASE FlushStop
  <2>1. CASE instant_seek
    <3>1. kpc' = "idle" /\ UNCHANGED <<sink_segment, cache_read_offset,
                                       read_position, pending_src_event>>
      BY <1>18, <2>1 DEF FlushStop
    <3>2. Undisturbed => Place > Stop \/ pending_src_event # None
      BY <1>18, <2>1 DEF FlushStop, SeekAnnounced
    <3>3. Place \in Int /\ Stop \in Int
      BY DEF Typed, CacheTypes, Segments, Stop, Positions
    <3>4. UNCHANGED <<Place, Stop, setup, failed, refused>>
      BY <1>18, <3>1 DEF FlushStop, Stop
    <3> HIDE DEF Place
    <3>5. QED
      BY <3>1, <3>2, <3>3, <3>4
  <2>2. CASE ~instant_seek
    BY <1>18, <2>2 DEF FlushStop
  <2>3. QED
    BY <2>1, <2>2
<1>19. CASE StopSource
  BY <1>19 DEF StopSource, SourceGivesUp, Stop
<1>20. CASE SeekData
  BY <1>20 DEF SeekData, SourceSeeks, SourceParked, SegmentUnderWay, Modes,
     Stop
<1>21. CASE RestartSource
  BY <1>21 DEF RestartSource, SourceRestarts, Stop
<1>22. CASE FallBack
  BY <1>22 DEF FallBack, cache_set_read_position
<1>23. CASE StartReader
  <2>1. CASE kpc = "start"
    BY <1>23, <2>1 DEF StartReader, Stop
  <2>2. CASE kpc = "announce"
    <3> SUFFICES ASSUME ~setup.pull, ~failed, ~refused,
                        pending_src_event' = None, Place <= Stop
                 PROVE  FALSE
      BY <1>23, <2>2 DEF StartReader, Stop
    <3>1. target > Stop
      BY <1>23, <2>2 DEF StartReader, AnnounceTarget
    <3>2. target = Place
      BY <2>2 DEF FallsBack
    <3>3. Place \in Int /\ Stop \in Int
      BY DEF Typed, CacheTypes, Segments, Stop, Positions
    <3> HIDE DEF Place
    <3>4. QED
      BY <3>1, <3>2, <3>3
  <2>3. QED
    BY <1>23, <2>1, <2>2 DEF StartReader
<1>24. CASE FlushData
  BY <1>24 DEF FlushData, SourceStops, ReaderParked
<1>25. CASE UNCHANGED vars
  BY <1>25 DEF vars, Stop
<1>26. QED
  BY <1>1, <1>2, <1>3, <1>4, <1>5, <1>6, <1>7, <1>8, <1>9, <1>10, <1>11,
     <1>12, <1>13, <1>14, <1>15, <1>16, <1>17, <1>18, <1>19, <1>20, <1>21,
     <1>22, <1>23, <1>24, <1>25 DEF Next, Source, Reader, Pull, Begin, Proceed

LEMMA PushesNextStep == Typed /\ SourceFlow /\ Modes /\ FallsBack /\ Run /\
   SegmentEnd /\ Stream /\ [Next]_vars => PushesNext'
<1> SUFFICES ASSUME Typed, SourceFlow, Modes, FallsBack, Run, SegmentEnd,
   Stream, [Next]_vars PROVE PushesNext'
  OBVIOUS
<1> USE Events, SizeAssumption, TargetAssumption
<1> USE DEF sourceVars, connectionVars, cacheVars, segmentVars, eosVars,
   statusVars, readerVars, rangeVars, demuxVars, appVars, downstreamVars,
   seekVars, Stream, PushesNext, Undisturbed, Announced, Place
<1>1. CASE SourceSteps
  BY <1>1 DEF SourceSteps, SourceLoop, SourceLoopEnd
<1>2. CASE EnqueueSegment
  <2>1. CASE TakeSegment /\ refused' = (refused /\ rpc = "push")
    <3>1. pending_src_event' # None
      BY <2>1 DEF TakeSegment
    <3>2. rpc' = "push" => rpc = "push"
      BY <2>1 DEF TakeSegment, send_position_message, SignalAdd, NoSignal
    <3>3. UNCHANGED <<setup, failed, srcFlushing, buffer, next, seeks, announced>>
      BY <1>2 DEF EnqueueSegment
    <3>4. QED
      BY <2>1, <3>1, <3>2, <3>3
  <2>2. CASE refused'
    BY <2>2
  <2>3. QED
    BY <1>2, <2>1, <2>2, SegmentTaken
<1>3. CASE ReadNextBlock
  BY <1>3 DEF ReadNextBlock
<1>4. CASE chain
  <2>1. CASE task = "none" /\ dpc = "none"
    BY <1>4, <2>1 DEF chain, Modes, create_sourcepad, NoSignal
  <2>2. CASE ~(task = "none" /\ dpc = "none")
    <3>1. UNCHANGED <<setup, failed, refused, pending_src_event, instant_seek,
                      srcFlushing, buffer, next, seeks, announced,
                      cache_read_offset, read_position>>
      BY <1>4, <2>2 DEF chain
    <3>2. rpc' = "push" => rpc = "push"
      BY <1>4, <2>2 DEF chain, NoSignal, send_position_message, SignalAdd
    <3>3. QED
      BY <3>1, <3>2
  <2>3. QED
    BY <2>1, <2>2
<1>5. CASE EnqueueEos
  BY <1>5 DEF EnqueueEos, Smaller, send_position_message, SignalAdd, NoSignal
<1>6. CASE ReaderLoop
  <2>1. CASE ReadBlock /\ srcresult = "OK" /\ pending_src_event = None
             /\ instant_seek /\ cache_has_enough_data
    <3> SUFFICES ASSUME Undisturbed, ~skip, ~srcFlushing
                 PROVE  /\ buffer' = next /\ Announced
                        /\ cache_read_offset + read_position' = next + 1
      BY <1>6, <2>1 DEF ReaderLoop, ReadBlock
    <3>1. kpc \notin {"announce", "closed"} /\ ~update
      BY <1>6 DEF ReaderLoop, Modes, Seeking, ReaderParked
    <3>2. /\ read_position \in Nat /\ write_position \in Nat
          /\ cache_read_offset \in Nat /\ Stop \in Int
      BY DEF Typed, CacheTypes, Segments, Stop, Positions
    <3>3. cache_read_offset + write_position <= Stop
      BY <3>1 DEF Run, CacheIsSegment, SegmentEnd
    <3>4. cache_read_offset + read_position <= Stop
      <4>1. read_position < write_position
        BY <2>1 DEF cache_has_enough_data
      <4>2. QED
        BY <3>2, <3>3, <4>1
    <3>5. next = cache_read_offset + read_position /\ Announced
      BY <1>6, <2>1, <3>1, <3>4 DEF ReaderLoop, ReadsNext, Reading
    <3>6. read_position + 1 \in 1..write_position
      BY <2>1, <3>2 DEF cache_has_enough_data
    <3>7. file[read_position + 1] = cache_read_offset + (read_position + 1) - 1
      BY <3>6 DEF Run, CacheHoldsRun
    <3>8. buffer' = file[read_position + 1] /\ read_position' = read_position + 1
      BY <2>1 DEF ReadBlock
    <3>9. QED
      BY <3>2, <3>5, <3>7, <3>8
  <2>2. CASE rpc' # "push"
    BY <2>2
  <2>3. QED
    BY <1>6, <2>1, <2>2 DEF ReaderLoop, ReaderStops, ReaderPauses, PushEvent
<1>7. CASE PushBlock
  BY <1>7 DEF PushBlock
<1>8. CASE StoreResult
  BY <1>8 DEF StoreResult, ReaderPauses
<1>9. CASE Monitor
  BY <1>9 DEF Monitor, pending_eos
<1>10. CASE RangeReady
  BY <1>10 DEF RangeReady
<1>11. CASE getrange
  BY <1>11 DEF getrange, InCache, BlockAt, Smaller, reset_eos,
     cache_set_read_position, Modes
<1>12. CASE DemuxGoesOn
  BY <1>12 DEF DemuxGoesOn
<1>13. CASE FlushStart
  BY <1>13 DEF FlushStart, Targets
<1>14. CASE DemuxSeeks
  BY <1>14 DEF DemuxSeeks, Targets, Modes
<1>15. CASE Deactivate
  BY <1>15 DEF Deactivate, SignalAdd
<1>16. CASE StopReader
  BY <1>16 DEF StopReader, SignalAdd
<1>17. CASE DecideSeek
  BY <1>17 DEF DecideSeek, SeekInCache, AnnounceTarget, reset_eos,
     cache_set_read_position, SegmentUnderWay, Modes, ReaderParked
<1>18. CASE FlushStop
  BY <1>18 DEF FlushStop, Modes, Seeking, ReaderParked
<1>19. CASE StopSource
  BY <1>19 DEF StopSource, SourceGivesUp
<1>20. CASE SeekData
  BY <1>20 DEF SeekData, SourceSeeks, SourceParked, SegmentUnderWay, Modes,
     Seeking, ReaderParked
<1>21. CASE RestartSource
  BY <1>21 DEF RestartSource, SourceRestarts
<1>22. CASE FallBack
  BY <1>22 DEF FallBack, cache_set_read_position, Modes, Seeking, ReaderParked
<1>23. CASE StartReader
  BY <1>23 DEF StartReader, AnnounceTarget, Modes, Seeking, ReaderParked
<1>24. CASE FlushData
  BY <1>24 DEF FlushData, SourceStops, ReaderParked
<1>25. CASE UNCHANGED vars
  BY <1>25 DEF vars
<1>26. QED
  BY <1>1, <1>2, <1>3, <1>4, <1>5, <1>6, <1>7, <1>8, <1>9, <1>10, <1>11,
     <1>12, <1>13, <1>14, <1>15, <1>16, <1>17, <1>18, <1>19, <1>20, <1>21,
     <1>22, <1>23, <1>24, <1>25 DEF Next, Source, Reader, Pull, Begin, Proceed

LEMMA StreamStep ==
    /\ Typed /\ SourceFlow /\ Modes /\ FallsBack /\ Run /\ SegmentEnd /\ Stream
    /\ [Next]_vars
    => Stream'
  BY SeekAnnouncedStep, SegmentAtReaderStep, ReadsNextStep, PushesNextStep
     DEF Stream

-----------------------------------------------------------------------------
(* The end of a complete download.                                         *)

LEMMA EndsAtEosStep == Typed /\ SourceFlow /\ Modes /\ FallsBack /\ Run /\
   SegmentEnd /\ Finish /\ [Next]_vars => EndsAtEos'
<1> SUFFICES ASSUME Typed, SourceFlow, Modes, FallsBack, Run, SegmentEnd,
   Finish, [Next]_vars PROVE EndsAtEos'
  OBVIOUS
<1> USE DEF SourceParked
<1> USE DEF sourceVars, connectionVars, cacheVars, segmentVars, eosVars,
   statusVars, readerVars, rangeVars, demuxVars, appVars, downstreamVars,
   seekVars, Finish, EndsAtEos, SourceFlow
<1>1. CASE SourceSteps
  BY <1>1 DEF SourceSteps, SourceLoop, SourceLoopEnd
<1>2. CASE EnqueueSegment
  <2>1. CASE TakeSegment
    BY <1>2, <2>1 DEF EnqueueSegment, TakeSegment
  <2>2. CASE refused'
    BY <2>2
  <2>3. QED
    BY <1>2, <2>1, <2>2, SegmentTaken
<1>3. CASE ReadNextBlock
  BY <1>3 DEF ReadNextBlock
<1>4. CASE chain
  <2> SUFFICES ASSUME ~unexpected, ~refused, kpc # "closed" PROVE UNCHANGED ret
    BY <1>4 DEF chain
  <2>1. ~eos
    BY <1>4 DEF chain, Run, EosPending
  <2>2. position < Stop /\ spc = "chain"
    BY <1>4, <2>1, BlockInSegment DEF MustNeverHappen, chain, SourceFlow
  <2>3. ~(Stop < position + 1)
    BY <2>2, SizeAssumption, TargetAssumption
       DEF Typed, SourceTypes, CacheTypes, Segments, Stop, Positions
  <2>4. QED
    BY <1>4, <2>1, <2>3 DEF chain
<1>5. CASE EnqueueEos
  BY <1>5 DEF EnqueueEos, Smaller, send_position_message, SignalAdd, NoSignal
<1>6. CASE ReaderLoop
  BY <1>6 DEF ReaderLoop, ReaderStops, ReaderPauses, PushEvent, ReadBlock,
     cache_has_enough_data
<1>7. CASE getrange
  BY <1>7 DEF getrange, InCache, BlockAt, Smaller, reset_eos,
     cache_set_read_position
<1>8. CASE FlushStart
  BY <1>8 DEF FlushStart, Targets
<1>9. CASE DemuxSeeks
  BY <1>9 DEF DemuxSeeks, Targets
<1>10. CASE Deactivate
  BY <1>10 DEF Deactivate, SignalAdd
<1>11. CASE StopReader
  BY <1>11 DEF StopReader, SignalAdd
<1>12. CASE DecideSeek
  BY <1>12 DEF DecideSeek, SeekInCache, AnnounceTarget, reset_eos,
     cache_set_read_position, SegmentUnderWay
<1>13. CASE FlushStop
  BY <1>13 DEF FlushStop
<1>14. CASE StopSource
  BY <1>14 DEF StopSource, SourceGivesUp
<1>15. CASE SeekData
  BY <1>15 DEF SeekData, SourceSeeks, SourceParked, SegmentUnderWay
<1>16. CASE RestartSource
  BY <1>16 DEF RestartSource, SourceRestarts
<1>17. CASE FallBack
  BY <1>17 DEF FallBack, cache_set_read_position
<1>18. CASE StartReader
  BY <1>18 DEF StartReader, AnnounceTarget
<1>19. CASE FlushData
  BY <1>19 DEF FlushData, SourceStops
<1>20. CASE PushBlock \/ StoreResult \/ Monitor \/ RangeReady \/ DemuxGoesOn
   \/ UNCHANGED vars
  BY <1>20 DEF vars, PushBlock, StoreResult, ReaderPauses, Monitor,
     pending_eos, RangeReady, DemuxGoesOn
<1>21. QED
  BY <1>1, <1>2, <1>3, <1>4, <1>5, <1>6, <1>7, <1>8, <1>9, <1>10, <1>11,
     <1>12, <1>13, <1>14, <1>15, <1>16, <1>17, <1>18, <1>19, <1>20 DEF Next,
     Source, Reader, Pull, Begin, Proceed

LEMMA PausedAtEosStep == Typed /\ SourceFlow /\ Modes /\ FallsBack /\ Run /\
   SegmentEnd /\ Finish /\ [Next]_vars => PausedAtEos'
<1> SUFFICES ASSUME Typed, SourceFlow, Modes, FallsBack, Run, SegmentEnd,
   Finish, [Next]_vars PROVE PausedAtEos'
  OBVIOUS
<1> USE DEF SourceParked
<1> USE DEF sourceVars, connectionVars, cacheVars, segmentVars, eosVars,
   statusVars, readerVars, rangeVars, demuxVars, appVars, downstreamVars,
   seekVars, Finish, PausedAtEos, SourceFlow
<1>1. CASE SourceSteps
  <2>1. CASE SourceLoop
    BY <1>1, <2>1 DEF SourceSteps, SourceLoop
  <2>2. CASE SourceLoopEnd
    BY <1>1, <2>2 DEF SourceSteps, SourceLoopEnd, EndsAtEos, Modes
  <2>3. QED
    BY <1>1, <2>1, <2>2 DEF SourceSteps
<1>2. CASE EnqueueSegment
  BY <1>2 DEF EnqueueSegment, TakeSegment, RefuseSegment, EmptySegment,
     RestartCache, send_position_message, SignalAdd, NoSignal
<1>3. CASE ReadNextBlock
  BY <1>3 DEF ReadNextBlock
<1>4. CASE chain
  BY <1>4 DEF chain, create_sourcepad, reset_eos, send_position_message,
     SignalAdd, NoSignal, cache_write_buffer
<1>5. CASE EnqueueEos
  BY <1>5 DEF EnqueueEos, Smaller, send_position_message, SignalAdd, NoSignal
<1>6. CASE ReaderLoop
  BY <1>6 DEF ReaderLoop, ReaderStops, ReaderPauses, PushEvent, ReadBlock,
     cache_has_enough_data
<1>7. CASE getrange
  BY <1>7 DEF getrange, InCache, BlockAt, Smaller, reset_eos,
     cache_set_read_position
<1>8. CASE FlushStart
  BY <1>8 DEF FlushStart, Targets
<1>9. CASE DemuxSeeks
  BY <1>9 DEF DemuxSeeks, Targets
<1>10. CASE Deactivate
  BY <1>10 DEF Deactivate, SignalAdd
<1>11. CASE StopReader
  BY <1>11 DEF StopReader, SignalAdd
<1>12. CASE DecideSeek
  BY <1>12 DEF DecideSeek, SeekInCache, AnnounceTarget, reset_eos,
     cache_set_read_position, SegmentUnderWay
<1>13. CASE FlushStop
  BY <1>13 DEF FlushStop
<1>14. CASE StopSource
  BY <1>14 DEF StopSource, SourceGivesUp
<1>15. CASE SeekData
  BY <1>15 DEF SeekData, SourceSeeks, SourceParked, SegmentUnderWay
<1>16. CASE RestartSource
  BY <1>16 DEF RestartSource, SourceRestarts
<1>17. CASE FallBack
  BY <1>17 DEF FallBack, cache_set_read_position
<1>18. CASE StartReader
  BY <1>18 DEF StartReader, AnnounceTarget
<1>19. CASE FlushData
  BY <1>19 DEF FlushData, SourceStops
<1>20. CASE PushBlock \/ StoreResult \/ Monitor \/ RangeReady \/ DemuxGoesOn
   \/ UNCHANGED vars
  BY <1>20 DEF vars, PushBlock, StoreResult, ReaderPauses, Monitor,
     pending_eos, RangeReady, DemuxGoesOn
<1>21. QED
  BY <1>1, <1>2, <1>3, <1>4, <1>5, <1>6, <1>7, <1>8, <1>9, <1>10, <1>11,
     <1>12, <1>13, <1>14, <1>15, <1>16, <1>17, <1>18, <1>19, <1>20 DEF Next,
     Source, Reader, Pull, Begin, Proceed

LEMMA MayReadStep == Typed /\ SourceFlow /\ Modes /\ MayRead /\ [Next]_vars =>
   MayRead'
<1> SUFFICES ASSUME Typed, SourceFlow, Modes, MayRead, [Next]_vars PROVE
   MayRead'
  OBVIOUS
<1> USE DEF sourceVars, connectionVars, cacheVars, segmentVars, eosVars,
   statusVars, readerVars, rangeVars, demuxVars, appVars, downstreamVars,
   seekVars, MayRead, SourceFlow
<1>1. CASE EnqueueSegment
  <2>1. CASE TakeSegment
    BY <2>1 DEF TakeSegment
  <2>2. CASE refused'
    BY <2>2
  <2>3. QED
    BY <1>1, <2>1, <2>2, SegmentTaken
<1>2. CASE ReadNextBlock
  BY <1>2 DEF ReadNextBlock
<1>3. CASE chain
  BY <1>3 DEF chain, create_sourcepad, reset_eos, send_position_message,
     SignalAdd, NoSignal, cache_write_buffer
<1>4. CASE EnqueueEos
  BY <1>4 DEF EnqueueEos, Smaller, send_position_message, SignalAdd, NoSignal
<1>5. CASE ReaderLoop
  BY <1>5 DEF ReaderLoop, ReaderStops, ReaderPauses, PushEvent, ReadBlock,
     cache_has_enough_data
<1>6. CASE getrange
  BY <1>6 DEF getrange, InCache, BlockAt, Smaller, reset_eos,
     cache_set_read_position, Modes
<1>7. CASE FlushStart
  BY <1>7 DEF FlushStart, Targets
<1>8. CASE DemuxSeeks
  BY <1>8 DEF DemuxSeeks, Targets
<1>9. CASE Deactivate
  BY <1>9 DEF Deactivate, SignalAdd
<1>10. CASE StopReader
  BY <1>10 DEF StopReader, SignalAdd
<1>11. CASE DecideSeek
  BY <1>11 DEF DecideSeek, SeekInCache, AnnounceTarget, reset_eos,
     cache_set_read_position, SegmentUnderWay
<1>12. CASE FlushStop
  BY <1>12 DEF FlushStop
<1>13. CASE StopSource
  BY <1>13 DEF StopSource, SourceGivesUp
<1>14. CASE SeekData
  BY <1>14 DEF SeekData, SourceSeeks, SourceParked, SegmentUnderWay
<1>15. CASE RestartSource
  BY <1>15 DEF RestartSource, SourceRestarts
<1>16. CASE FallBack
  BY <1>16 DEF FallBack, cache_set_read_position
<1>17. CASE StartReader
  BY <1>17 DEF StartReader, AnnounceTarget
<1>18. CASE FlushData
  BY <1>18 DEF FlushData, SourceStops
<1>19. CASE SourceSteps \/ PushBlock \/ StoreResult \/ Monitor \/ RangeReady
   \/ DemuxGoesOn \/ UNCHANGED vars
  BY <1>19 DEF vars, SourceSteps, SourceLoop, SourceLoopEnd, PushBlock,
     StoreResult, ReaderPauses, Monitor, pending_eos, RangeReady, DemuxGoesOn
<1>20. QED
  BY <1>1, <1>2, <1>3, <1>4, <1>5, <1>6, <1>7, <1>8, <1>9, <1>10, <1>11,
     <1>12, <1>13, <1>14, <1>15, <1>16, <1>17, <1>18, <1>19 DEF Next, Source,
     Reader, Pull, Begin, Proceed

LEMMA BlockLeftStep == Typed /\ SourceFlow /\ Modes /\ FallsBack /\ Run /\
   SegmentEnd /\ Finish /\ [Next]_vars => BlockLeft'
<1> SUFFICES ASSUME Typed, SourceFlow, Modes, FallsBack, Run, SegmentEnd,
   Finish, [Next]_vars PROVE BlockLeft'
  OBVIOUS
<1> USE Events, SizeAssumption, TargetAssumption
<1> USE DEF sourceVars, connectionVars, cacheVars, segmentVars, eosVars,
   statusVars, readerVars, rangeVars, demuxVars, appVars, downstreamVars,
   seekVars, Finish, BlockLeft, Complete, Astray, Place
<1>1. CASE EnqueueSegment
  <2>1. CASE TakeSegment /\ position < Size
    <3>1. cache_read_offset' = position /\ read_position' = 0
      BY <2>1 DEF TakeSegment, RestartCache, Modes
    <3>2. position \in Nat
      BY DEF Typed, SourceTypes, Positions
    <3>3. cache_read_offset' + read_position' < Size
      BY <2>1, <3>1, <3>2
    <3>4. QED
      BY <3>3
  <2>2. CASE refused'
    BY <2>2
  <2>3. QED
    BY <1>1, <2>1, <2>2, SegmentTaken
<1>2. CASE chain
  <2>1. CASE task = "none" /\ dpc = "none"
    <3>1. cache_read_offset' = 0 /\ read_position' = 0
      BY <1>2, <2>1 DEF chain, Modes
    <3>2. cache_read_offset' + read_position' < Size
      BY <3>1, SizeAssumption, TargetAssumption
    <3>3. QED
      BY <3>2
  <2>2. CASE ~(task = "none" /\ dpc = "none")
    <3>1. UNCHANGED <<setup, failed, refused, unexpected, pending_src_event,
                      instant_seek, srcresult, cache_read_offset,
                      read_position, target, kpc>>
      BY <1>2, <2>2 DEF chain
    <3>2. rpc' \in {"push", "pushed"} => rpc' = rpc
      BY <1>2, <2>2 DEF chain, NoSignal, send_position_message, SignalAdd
    <3>3. QED
      BY <3>1, <3>2
  <2>3. QED
    BY <2>1, <2>2
<1>3. CASE EnqueueEos
  BY <1>3 DEF EnqueueEos, Smaller, send_position_message, SignalAdd, NoSignal
<1>4. CASE ReaderLoop
  <2>1. CASE srcresult # "OK" /\ ReaderStops
    BY <1>4, <2>1 DEF ReaderLoop, ReaderStops, ReaderPauses
  <2>2. CASE srcresult = "OK" /\ pending_src_event # None /\ PushEvent
    <3>1. CASE pending_src_event = Eos
      BY <1>4, <2>2, <3>1 DEF ReaderLoop, PushEvent, ReaderPauses
    <3>2. CASE pending_src_event # Eos
      BY <1>4, <2>2, <3>2 DEF ReaderLoop, PushEvent
    <3>3. QED
      BY <3>1, <3>2
  <2>3. CASE cache_has_enough_data /\ ReadBlock
    <3> SUFFICES ASSUME ~refused, ~unexpected, setup.available = Size,
                        read_position + 1 + cache_read_offset # Stop
                 PROVE  cache_read_offset + read_position' < Size
      BY <1>4, <2>3 DEF ReaderLoop, ReadBlock
    <3>1. kpc # "closed" /\ ~update
      BY <1>4 DEF ReaderLoop, Modes, ReaderParked
    <3>2. /\ read_position \in Nat /\ write_position \in Nat
          /\ cache_read_offset \in Nat /\ Stop \in 0..Size \cup {-1}
      BY DEF Typed, CacheTypes, Segments, Stop, Positions
    <3>3. cache_read_offset + write_position <= Stop
      BY <3>1 DEF Run, CacheIsSegment, SegmentEnd
    <3>4. read_position < write_position /\ read_position' = read_position + 1
      BY <2>3 DEF cache_has_enough_data, ReadBlock
    <3>5. QED
      BY <3>2, <3>3, <3>4
  <2>4. CASE /\ srcresult = "OK" /\ rpc' = "wait"
             /\ UNCHANGED <<read_position, pending_src_event, srcresult, unexpected>>
    BY <1>4, <2>4 DEF ReaderLoop
  <2>5. QED
    BY <1>4, <2>1, <2>2, <2>3, <2>4 DEF ReaderLoop
<1>5. CASE PushBlock
  BY <1>5 DEF PushBlock
<1>6. CASE StoreResult
  BY <1>6 DEF StoreResult, ReaderPauses
<1>7. CASE getrange
  BY <1>7 DEF getrange, InCache, BlockAt, Smaller, reset_eos,
     cache_set_read_position, Modes
<1>8. CASE FlushStart
  BY <1>8 DEF FlushStart, Targets
<1>9. CASE DemuxSeeks
  BY <1>9 DEF DemuxSeeks, Targets
<1>10. CASE Deactivate
  BY <1>10 DEF Deactivate, SignalAdd
<1>11. CASE StopReader
  BY <1>11 DEF StopReader, SignalAdd
<1>12. CASE DecideSeek
  <2>1. rpc' = "top" /\ target' = target
    BY <1>12 DEF DecideSeek, ReaderParked
  <2>2. CASE ~(target < Size)
    <3>1. target >= Size
      BY <2>2 DEF Typed, SeekTypes, Positions
    <3>2. QED
      BY <2>1, <3>1
  <2>3. CASE target < Size
    <3> SUFFICES ASSUME ~refused, instant_seek'
                 PROVE  cache_read_offset' + read_position' < Size
      BY <1>12 DEF DecideSeek
    <3>1. cache_set_read_position(target - cache_read_offset) /\ target >= Start
      BY <1>12 DEF DecideSeek, SeekInCache
    <3>2. Start = cache_read_offset
      BY <1>12 DEF DecideSeek, Run, CacheIsSegment
    <3>3. target = cache_read_offset + read_position' /\ UNCHANGED cache_read_offset
      BY <1>12, <3>1, <3>2, PlaceOfTarget DEF DecideSeek
    <3>4. QED
      BY <2>3, <3>3
  <2>4. QED
    BY <2>2, <2>3
<1>13. CASE FlushStop
  BY <1>13 DEF FlushStop, Modes, Seeking, ReaderParked
<1>14. CASE StopSource
  BY <1>14 DEF StopSource, SourceGivesUp, Modes, Seeking, ReaderParked
<1>15. CASE SeekData
  BY <1>15 DEF SeekData, SourceSeeks, SourceParked, SegmentUnderWay, Modes
<1>16. CASE RestartSource
  BY <1>16 DEF RestartSource, SourceRestarts, Modes, Seeking, ReaderParked
<1>17. CASE FallBack
  <2> SUFFICES ASSUME ~setup.pull, ~failed PROVE BlockLeft'
    BY <1>17 DEF FallBack
  <2>1. rpc' = "top" /\ target' = target
    BY <1>17 DEF FallBack, Modes, Seeking, ReaderParked
  <2>2. CASE ~(target < Size)
    <3>1. target >= Size
      BY <2>2 DEF Typed, SeekTypes, Positions
    <3>2. QED
      BY <2>1, <3>1
  <2>3. CASE target < Size
    <3>1. target >= cache_read_offset
      BY <1>17 DEF FallBack, FallsBack
    <3>2. target = cache_read_offset + read_position' /\ UNCHANGED cache_read_offset
      BY <1>17, <3>1, PlaceOfTarget DEF FallBack
    <3>3. QED
      BY <2>3, <3>2
  <2>4. QED
    BY <2>2, <2>3
<1>18. CASE StartReader
  <2>1. CASE kpc = "start"
    BY <1>18, <2>1 DEF StartReader
  <2>2. CASE kpc = "announce"
    <3> SUFFICES ASSUME ~setup.pull, ~failed PROVE BlockLeft'
      BY <1>18 DEF StartReader
    <3>1. rpc' = "top" /\ target' = target
      BY <1>18 DEF StartReader, Modes, Seeking, ReaderParked
    <3>2. cache_read_offset' + read_position' = target
      BY <1>18, <2>2 DEF StartReader, FallsBack
    <3>3. target < Size \/ target >= Size
      BY DEF Typed, SeekTypes, Positions
    <3>4. QED
      BY <3>1, <3>2, <3>3
  <2>3. QED
    BY <1>18, <2>1, <2>2 DEF StartReader
<1>19. CASE FlushData
  BY <1>19 DEF FlushData, SourceStops, ReaderParked
<1>20. CASE SourceSteps \/ ReadNextBlock \/ Monitor \/ RangeReady \/
   DemuxGoesOn \/ UNCHANGED vars
  BY <1>20 DEF vars, SourceSteps, SourceLoop, SourceLoopEnd, ReadNextBlock,
     Monitor, pending_eos, RangeReady, DemuxGoesOn
<1>21. QED
  BY <1>1, <1>2, <1>3, <1>4, <1>5, <1>6, <1>7, <1>8, <1>9, <1>10, <1>11,
     <1>12, <1>13, <1>14, <1>15, <1>16, <1>17, <1>18, <1>19, <1>20 DEF Next,
     Source, Reader, Pull, Begin, Proceed

LEMMA NotAsleepStep == Typed /\ SourceFlow /\ Modes /\ FallsBack /\ Run /\
   SegmentEnd /\ Finish /\ [Next]_vars => NotAsleep'
<1> SUFFICES ASSUME Typed, SourceFlow, Modes, FallsBack, Run, SegmentEnd,
   Finish, [Next]_vars PROVE NotAsleep'
  OBVIOUS
<1> USE Events
<1> USE DEF sourceVars, connectionVars, cacheVars, segmentVars, eosVars,
   statusVars, readerVars, rangeVars, demuxVars, appVars, downstreamVars,
   seekVars, Finish, NotAsleep, Complete, Astray
<1>1. CASE SourceSteps
  BY <1>1 DEF SourceSteps, SourceLoop, SourceLoopEnd
<1>2. CASE EnqueueSegment
  BY <1>2 DEF EnqueueSegment, TakeSegment, RefuseSegment, EmptySegment,
     RestartCache, send_position_message, SignalAdd, NoSignal
<1>3. CASE ReadNextBlock
  BY <1>3 DEF ReadNextBlock, SourceFlow, Run, EosPending
<1>4. CASE chain
  BY <1>4 DEF chain, create_sourcepad, reset_eos, send_position_message,
     SignalAdd, NoSignal, cache_write_buffer, SourceFlow
<1>5. CASE EnqueueEos
  BY <1>5 DEF EnqueueEos, Smaller, send_position_message, SignalAdd, NoSignal
<1>6. CASE ReaderLoop
  <2> SUFFICES ASSUME Complete, ~Astray, rpc' = "wait", pending_event = "EOS"
               PROVE  FALSE
    BY <1>6 DEF ReaderLoop, ReaderStops, ReaderPauses, PushEvent, ReadBlock
  <2>1. /\ srcresult = "OK" /\ pending_src_event = None
        /\ ~(instant_seek /\ cache_has_enough_data) /\ rpc \in {"top", "woken"}
    BY <1>6 DEF ReaderLoop, ReaderStops, ReaderPauses, PushEvent, ReadBlock
  <2>2. ~ReaderParked /\ kpc # "closed"
    BY <1>6 DEF ReaderLoop, ReaderParked, Modes
  <2>3. instant_seek
    BY <2>2 DEF MayRead, Modes, Seeking
  <2>4. cache_read_offset + read_position < Size
    BY <2>1, <2>3 DEF BlockLeft, Place
  <2>5. position = cache_read_offset + write_position /\ position >= Size
    BY <2>2 DEF Run, CacheIsSegment, SourceFlow
  <2>6. read_position < write_position
    <3> HIDE DEF Complete
    <3>1. read_position \in Int /\ write_position \in Int
          /\ cache_read_offset \in Int /\ position \in Int
      BY SizeAssumption, TargetAssumption DEF Typed, SourceTypes, CacheTypes, Positions
    <3>2. QED
      BY <2>4, <2>5, <3>1, SizeAssumption, TargetAssumption
  <2>7. QED
    BY <2>1, <2>3, <2>6 DEF cache_has_enough_data
<1>7. CASE PushBlock
  BY <1>7 DEF PushBlock
<1>8. CASE StoreResult
  BY <1>8 DEF StoreResult, ReaderPauses
<1>9. CASE getrange
  BY <1>9 DEF getrange, InCache, BlockAt, Smaller, reset_eos,
     cache_set_read_position, Modes
<1>10. CASE FlushStart
  BY <1>10 DEF FlushStart, Targets
<1>11. CASE DemuxSeeks
  BY <1>11 DEF DemuxSeeks, Targets
<1>12. CASE Deactivate
  BY <1>12 DEF Deactivate, SignalAdd
<1>13. CASE StopReader
  BY <1>13 DEF StopReader, SignalAdd
<1>14. CASE DecideSeek
  BY <1>14 DEF DecideSeek, SeekInCache, AnnounceTarget, reset_eos,
     cache_set_read_position, SegmentUnderWay, ReaderParked
<1>15. CASE FlushStop
  BY <1>15 DEF FlushStop, Modes, Seeking, ReaderParked
<1>16. CASE StopSource
  BY <1>16 DEF StopSource, SourceGivesUp, Modes, Seeking, ReaderParked
<1>17. CASE SeekData
  BY <1>17 DEF SeekData, SourceSeeks, SourceParked, SegmentUnderWay, Modes,
     Seeking, ReaderParked
<1>18. CASE RestartSource
  BY <1>18 DEF RestartSource, SourceRestarts, Modes, Seeking, ReaderParked
<1>19. CASE FallBack
  BY <1>19 DEF FallBack, cache_set_read_position, Modes, Seeking, ReaderParked
<1>20. CASE StartReader
  BY <1>20 DEF StartReader, AnnounceTarget, Modes, Seeking, ReaderParked
<1>21. CASE FlushData
  BY <1>21 DEF FlushData, SourceStops
<1>22. CASE Monitor \/ RangeReady \/ DemuxGoesOn \/ UNCHANGED vars
  BY <1>22 DEF vars, Monitor, pending_eos, RangeReady, DemuxGoesOn
<1>23. QED
  BY <1>1, <1>2, <1>3, <1>4, <1>5, <1>6, <1>7, <1>8, <1>9, <1>10, <1>11,
     <1>12, <1>13, <1>14, <1>15, <1>16, <1>17, <1>18, <1>19, <1>20, <1>21,
     <1>22 DEF Next, Source, Reader, Pull, Begin, Proceed

LEMMA FinishStep ==
    /\ Typed /\ SourceFlow /\ Modes /\ FallsBack /\ Run /\ SegmentEnd /\ Finish
    /\ [Next]_vars
    => Finish'
  BY EndsAtEosStep, PausedAtEosStep, MayReadStep, BlockLeftStep, NotAsleepStep
     DEF Finish

-----------------------------------------------------------------------------
(* The theorems.                                                           *)

LEMMA InvInit == Init => IndInv
<1> SUFFICES ASSUME Init PROVE IndInv
  OBVIOUS
<1> USE SizeAssumption, TargetAssumption DEF Init, SourceInit, Start, LastStop, Stop
<1>1. Typed
  BY TypedInit
<1>2. SourceFlow
  BY DEF SourceFlow
<1>3. Modes
  BY DEF Modes, Seeking
<1>4. Run
  BY DEF Run, CacheHoldsRun, CacheIsSegment, EosPending, ClosedSegment
<1>5. SegmentEnd
  BY DEF SegmentEnd
<1>6. Finish
  BY DEF Finish, EndsAtEos, PausedAtEos, MayRead, BlockLeft, NotAsleep, Place
<1>7. Stream
  BY Events DEF Stream, SegmentAtReader, SeekAnnounced, ReadsNext, Reading,
                PushesNext, Place
<1>8. Target
  BY Events DEF Target
<1>9. FallsBack
  BY DEF FallsBack
<1>10. QED
  BY <1>1, <1>2, <1>3, <1>4, <1>5, <1>6, <1>7, <1>8, <1>9 DEF IndInv

LEMMA InvStep == IndInv /\ [Next]_vars => IndInv'
  BY TypedStep, SourceFlowStep, ModesStep, FallsBackStep, RunStep,
     SegmentEndStep, FinishStep, StreamStep, TargetStep DEF IndInv

\* The invariants of this module hold in every reachable state.
THEOREM Invariance == Spec => []IndInv
  BY InvInit, InvStep, PTL DEF Spec

LEMMA RangeInCache == IndInv => RangeHasData
<1> SUFFICES ASSUME IndInv, NEW p \in 0..(Size - 1), InCache(p), Stop >= p + 1,
                    cache_read_offset = 0, ~refused
             PROVE  BlockAt(p) = p
  BY DEF RangeHasData
<1>1. kpc # "closed"
  BY SizeAssumption, TargetAssumption
     DEF IndInv, Run, ClosedSegment, InCache, Typed, CacheTypes, Segments, Start,
         LastStop, Positions
<1>2. p + 1 \in 1..write_position
  BY <1>1, SizeAssumption, TargetAssumption
     DEF IndInv, Run, CacheIsSegment, InCache, Typed, CacheTypes, Segments, Start,
         LastStop, Positions
<1>3. file[p + 1] = p
  BY <1>2, SizeAssumption, TargetAssumption DEF IndInv, Run, CacheHoldsRun
<1>4. QED
  BY <1>2, <1>3, SizeAssumption, TargetAssumption DEF BlockAt, IndInv, Typed, CacheTypes

LEMMA DownloadFinished == IndInv => CompleteIsFinished
<1> SUFFICES ASSUME IndInv, rpc = "wait", source_task = "paused",
                    kpc # "stop", ~(target >= Size),
                    ~(setup.available < Size), ~unexpected, ~failed, ~refused
             PROVE  FALSE
  BY DEF CompleteIsFinished, ReaderStarves
<1>1. Complete
  <2>1. setup.available = Size
    BY SizeAssumption, TargetAssumption DEF IndInv, Typed, SourceTypes, Setups
  <2>2. ~setup.pull
    BY DEF IndInv, Modes
  <2>3. QED
    BY <2>1, <2>2 DEF Complete
<1>2. pending_event = "EOS"
  BY <1>1 DEF IndInv, Finish, PausedAtEos, Modes, Seeking, ReaderParked, Complete
<1>3. spc = "eos"
  BY <1>1, <1>2 DEF IndInv, Finish, NotAsleep, Astray
<1>4. QED
  BY <1>3 DEF IndInv, SourceFlow

\* For every content, every bound on seeks and their targets and every
\* behaviour of the demuxer the cache holds the run that is downloaded and no
\* block lies behind the segment, unless the buffer refused the newsegment
\* event; a range that getrange takes for cached is there as long as the cache
\* begins at 0; and a reader waits behind an ended download only after a short
\* download, UNEXPECTED, a refused seek or newsegment event, or a seek to the
\* end or beyond.
THEOREM CacheStaysConsistent == Spec => []CacheConsistent
<1>1. IndInv => CacheConsistent
  <2>1. IndInv => TypeOK /\ CacheHoldsRun /\ MustNeverHappen
    BY TypedTypeOK, BlockInSegment DEF IndInv, Run
  <2>2. QED
    BY <2>1, RangeInCache, DownloadFinished DEF CacheConsistent
<1>2. QED
  BY <1>1, Invariance, PTL

LEMMA StreamKept ==
  IndInv /\ [Next]_vars =>
      [OS!OSNext \/ failed \/ refused]_<<next, announced, seeks>>
<1> SUFFICES ASSUME IndInv, [Next]_vars, ~failed, ~refused,
                    ~UNCHANGED <<next, announced, seeks>>
             PROVE  OS!OSNext
  OBVIOUS
<1> USE DEF OS!OSNext
<1> DEFINE ann == IF seeks = 0 THEN announced + 1 ELSE announced
<1>t. /\ next \in Nat /\ announced \in Nat /\ seeks \in Nat /\ buffer \in Nat
      /\ next' \in Nat
  <2>1. Typed /\ Typed'
    BY TypedStep DEF IndInv
  <2>2. QED
    BY <2>1, SizeAssumption, TargetAssumption, PbBounds
       DEF Typed, ReaderTypes, SeekTypes, CacheTypes, Positions, Blocks
<1>1. CASE ReaderLoop
  <2>1. announced' = announced + 1 /\ UNCHANGED seeks
    BY <1>1 DEF ReaderLoop, ReaderStops, PushEvent, ReadBlock, downstreamVars,
                appVars
  <2>2. ann' = ann + 1
    BY <2>1, <1>t
  <2>3. QED
    BY <2>2, <1>t DEF OS!Announce
<1>2. CASE PushBlock
  <2>1. ~srcFlushing /\ next' = buffer + 1 /\ UNCHANGED <<announced, seeks>>
    BY <1>2 DEF PushBlock, appVars
  <2>2. ~setup.pull
    BY <1>2 DEF PushBlock, IndInv, Modes
  <2>3. buffer = next /\ Announced
    BY <1>2, <2>1, <2>2
       DEF PushBlock, IndInv, Stream, PushesNext, Undisturbed
  <2>4. ann > 0 /\ UNCHANGED ann
    BY <2>1, <2>3, <1>t DEF Announced
  <2>5. QED
    BY <2>1, <2>3, <2>4 DEF OS!Deliver
<1>3. CASE FlushStart
  <2>1. announced' = 0 /\ seeks' = seeks + 1 /\ UNCHANGED next
    BY <1>3 DEF FlushStart
  <2>2. ann' = 0
    BY <2>1, <1>t
  <2>3. QED
    BY <2>1, <2>2 DEF OS!Flush
<1>4. CASE DemuxSeeks
  <2>1. seeks' = seeks + 1 /\ UNCHANGED <<next, announced>>
    BY <1>4 DEF DemuxSeeks, downstreamVars
  <2>2. announced = 0
    BY <1>4 DEF DemuxSeeks, IndInv, Modes
  <2>3. ann' = 0
    BY <2>1, <2>2, <1>t
  <2>4. QED
    BY <2>1, <2>3 DEF OS!Flush
<1>5. CASE Source \/ StoreResult \/ Pull \/ Deactivate \/ Proceed \/ UNCHANGED vars
  <2>1. UNCHANGED <<next, announced, seeks>>
    BY <1>5 DEF Source, SourceSteps, EnqueueSegment, ReadNextBlock, chain,
                EnqueueEos, StoreResult, Pull, Monitor, RangeReady, getrange,
                DemuxGoesOn, Deactivate, Proceed, StopReader, DecideSeek,
                FlushStop, StopSource, SeekData, RestartSource,
                FallBack, StartReader, FlushData, vars,
                downstreamVars, appVars
  <2>2. QED
    BY <2>1
<1>6. QED
  BY <1>1, <1>2, <1>3, <1>4, <1>5 DEF Next, Reader, Begin

\* Whatever the application seeks and the server answers, a demuxer in push
\* mode gets the blocks as OrderedStream promises.  Excepted is what follows a
\* seek that the server refused, for a target before the cache or with an
\* earlier newsegment event under way (`failed'), and what follows a newsegment
\* event that the buffer refused (`refused').
THEOREM BlocksComeInOrder == Spec => InOrder
  BY Invariance, StreamKept, PTL DEF Spec, InOrder

LEMMA AnnouncesTarget ==
  IndInv /\ [Next]_vars =>
      [announced = 0 /\ announced' = 1 => next' = target \/ late]_vars
<1> SUFFICES ASSUME IndInv, [Next]_vars, announced = 0, announced' = 1, ~late
             PROVE  next' = target
  OBVIOUS
<1>1. ReaderLoop
  BY DEF Next, Source, SourceSteps, EnqueueSegment, ReadNextBlock, chain,
         EnqueueEos, Reader, PushBlock, StoreResult, Pull, Monitor, RangeReady,
         getrange, DemuxGoesOn, Begin, FlushStart, DemuxSeeks, Deactivate,
         Proceed, StopReader, DecideSeek, FlushStop, StopSource, SeekData,
         RestartSource, FallBack, StartReader, FlushData, vars, downstreamVars
<1>2. /\ pending_src_event # None /\ pending_src_event # Eos /\ ~srcFlushing
      /\ next' = pending_src_event[2]
  BY <1>1 DEF ReaderLoop, ReaderStops, PushEvent, ReadBlock, downstreamVars
<1>3. PICK p \in Positions : pending_src_event = NewSegment(p)
  BY <1>2 DEF IndInv, Typed, StatusTypes, Pending
<1>4. ~setup.pull /\ kpc \notin {"stop", "lock"}
  BY <1>1, <1>2 DEF IndInv, Modes, ReaderLoop
<1>5. QED
  BY <1>2, <1>3, <1>4, Events DEF IndInv, Target

\* However seeks follow one another, the first newsegment event after a flush
\* is the one of the last seek, but for the one that SeekWins excepts.
THEOREM LastSeekWins == Spec => SeekWins
  BY Invariance, AnnouncesTarget, PTL DEF Spec, SeekWins
=============================================================================
