------------------------- MODULE HLSProgressBuffer -------------------------
(***************************************************************************)
(* hlsprogressbuffer between javasource and the demuxer: the source thread *)
(* writes HTTP Live Streaming segments into a ring of caches, the reader   *)
(* task of the source pad pushes their blocks downstream, and the          *)
(* application thread seeks (a flush from javasource) or closes the        *)
(* pipeline (PAUSED to READY).  The playlist is not live.                  *)
(*                                                                         *)
(* A step is what one thread does while it holds `lock', or one group of   *)
(* unlocked reads and writes.  A block is what one read of a cache yields; *)
(* blocks are numbered through all segments.                               *)
(***************************************************************************)
EXTENDS JavaSource, Sequences

CONSTANTS
    NUM_OF_CACHED_SEGMENTS,
    SegmentCount,    \* segments of the playlist
    SegmentSize,     \* blocks in a segment
    MaxSeeks,        \* bound on the seeks of the application
    MayFail          \* reads, openings and pushes downstream may fail

ASSUME RingAssumption == NUM_OF_CACHED_SEGMENTS \in Nat \ {0}
ASSUME PlaylistAssumption ==
    SegmentCount \in Nat \ {0} /\ SegmentSize \in Nat \ {0}
ASSUME HlsBounds == MaxSeeks \in Nat /\ MayFail \in BOOLEAN

VARIABLES
    cache, cache_size, cache_write_ready,
    cache_write_index, cache_read_index,
    send_new_segment, is_flushing, is_eos, srcresult,
    task, rpc, buffer,        \* the reader: its task, position and block
    sinkFlushing, srcFlushing,\* FLUSHING of the links before and behind
    mediaFileIndex, offset,   \* the connection: open segment, blocks read
    kpc, seeks,               \* the application thread and its seeks so far
    next, announced, ended,   \* downstream: next block, newsegments, EOS
    overtaken,                \* the last flush overtook the source thread
    failed                    \* a read, an opening or a push failed since

ringVars == <<cache, cache_size, cache_write_ready, cache_write_index,
              cache_read_index>>
readerVars == <<task, rpc, buffer>>
padVars == <<sinkFlushing, srcFlushing>>
connectionVars == <<mediaFileIndex, offset>>
flagVars == <<send_new_segment, is_flushing, is_eos, srcresult>>
appVars == <<kpc, seeks>>
faultVars == <<overtaken, failed>>
downstreamVars == <<next, announced, ended>>
vars == <<sourceVars, ringVars, flagVars, readerVars, padVars,
          connectionVars, appVars, downstreamVars, faultVars>>

Slots == 0..(NUM_OF_CACHED_SEGMENTS - 1)
Following(i) == (i + 1) % NUM_OF_CACHED_SEGMENTS
Total == SegmentCount * SegmentSize
FirstBlock(s) == (s - 1) * SegmentSize + 1

EmptyCache == [data |-> <<>>, read |-> 0]
cache_has_enough_data(c) == c.read < Len(c.data)

Init ==
    /\ SourceInit
    /\ cache = [i \in Slots |-> EmptyCache]
    /\ cache_size = [i \in Slots |-> 0]
    /\ cache_write_ready = [i \in Slots |-> TRUE]
    /\ cache_write_index = -1 /\ cache_read_index = 0
    /\ send_new_segment = TRUE /\ is_flushing = FALSE /\ is_eos = FALSE
    /\ srcresult = "OK" /\ task = "started" /\ rpc = "top" /\ buffer = 0
    /\ sinkFlushing = FALSE /\ srcFlushing = FALSE
    /\ mediaFileIndex = 0 /\ offset = 0
    /\ kpc = "idle" /\ seeks = 0
    /\ next = 0 /\ announced = 0 /\ ended = FALSE
    /\ overtaken = FALSE /\ failed = FALSE

\* Mutant: nothing tells the writer that a cache is free.
NoSignalDel == spc' = spc

\* g_cond_signal wakes the only thread that can wait for the condition.
SignalAdd == rpc' = IF rpc = "wait" THEN "woken" ELSE rpc
SignalDel == spc' = IF spc = "wait" THEN "woken" ELSE spc

-----------------------------------------------------------------------------
(* The source thread.                                                      *)

\* The connection opens the next segment; -1 at the end of the playlist, or
\* when the segment cannot be opened, makes the loop go on with EOS.
loadNextSegment ==
    /\ spc = "segment"
    /\ mediaFileIndex' = mediaFileIndex + 1
    /\ offset' = 0
    /\ \/ /\ mediaFileIndex < SegmentCount
          /\ spc' = "push" /\ UNCHANGED <<pending_event, failed>>
       \/ /\ mediaFileIndex >= SegmentCount \/ MayFail
          /\ failed' = (failed \/ mediaFileIndex < SegmentCount)
          /\ IF source_result = "WRONG_STATE"
             THEN spc' = "end" /\ UNCHANGED pending_event
             ELSE spc' = "eos" /\ pending_event' = "EOS"
    /\ UNCHANGED <<source_result, source_task, ret, ringVars, flagVars,
                   readerVars, padVars, appVars, downstreamVars, overtaken>>

\* The newsegment event is pushed: javasource gives up after a seek began,
\* a flushing pad refuses the event, the handler drops it when srcresult is
\* not OK.
PushSegment ==
    /\ spc = "push"
    /\ IF source_result = "WRONG_STATE"
       THEN spc' = "end" /\ UNCHANGED <<pending_event, ret>>
       ELSE /\ pending_event' = "UNKNOWN"
            /\ ret' = IF sinkFlushing THEN "WRONG_STATE" ELSE ret
            /\ spc' = IF sinkFlushing \/ srcresult # "OK" THEN "end"
                      ELSE "restart"
    /\ UNCHANGED <<source_result, source_task, ringVars, flagVars,
                   readerVars, padVars, connectionVars, appVars,
                   downstreamVars, faultVars>>

\* A segment after EOS restarts the reader.  None of this is locked.
Restart ==
    /\ spc = "restart"
    /\ spc' = "announce"
    /\ IF is_eos
       THEN is_eos' = FALSE /\ srcresult' = "OK" /\ task' = "started"
       ELSE UNCHANGED <<is_eos, srcresult, task>>
    /\ UNCHANGED <<source_result, pending_event, source_task, ret, ringVars,
                   send_new_segment, is_flushing, rpc, buffer, padVars,
                   connectionVars, appVars, downstreamVars, faultVars>>

\* The first segment after a flush is announced downstream.
AnnounceSegment ==
    /\ spc = "announce"
    /\ spc' = "prepare"
    /\ send_new_segment' = FALSE
    /\ IF send_new_segment /\ ~srcFlushing
       THEN announced' = announced + 1 /\ next' = FirstBlock(mediaFileIndex)
       ELSE UNCHANGED <<announced, next>>
    /\ ret' = IF send_new_segment /\ srcFlushing THEN "WRONG_STATE" ELSE ret
    /\ UNCHANGED <<source_result, pending_event, source_task, ringVars,
                   is_flushing, is_eos, srcresult, readerVars, padVars,
                   connectionVars, appVars, ended, faultVars>>

-----------------------------------------------------------------------------
\* Mutant: the positions of the cache are not set back.
ClaimCacheAsItIs(i) ==
    IF srcresult = "OK" /\ ~cache_write_ready[i]
    THEN /\ spc' = "full"
         /\ UNCHANGED <<cache, cache_size, cache_write_ready, ret>>
    ELSE /\ spc' = "end"
         /\ cache_size' = [cache_size EXCEPT ![i] = SegmentSize]
         /\ cache_write_ready' = [cache_write_ready EXCEPT ![i] = FALSE]
         /\ UNCHANGED <<cache, ret>>

\* The head of the loop that waits for a free cache: it is entered with the
\* index of the cache to write.
ClaimCache(i) ==
    IF srcresult = "OK" /\ ~cache_write_ready[i]
    THEN /\ spc' = "full"
         /\ UNCHANGED <<cache, cache_size, cache_write_ready, ret>>
    ELSE /\ spc' = "end"
         /\ cache_size' = [cache_size EXCEPT ![i] = SegmentSize]
         /\ cache_write_ready' = [cache_write_ready EXCEPT ![i] = FALSE]
         /\ cache' = [cache EXCEPT ![i] = EmptyCache]
         /\ UNCHANGED ret

PrepareCache ==
    /\ spc = "prepare"
    /\ cache_write_index' = Following(cache_write_index)
    /\ ClaimCache(Following(cache_write_index))
    /\ UNCHANGED <<source_result, pending_event, source_task,
                   cache_read_index, flagVars, readerVars, padVars,
                   connectionVars, appVars, downstreamVars, faultVars>>

\* The FULL message is posted without the lock; the wait for del_cond that
\* follows does not look at srcresult again.
PostFull ==
    /\ spc = "full"
    /\ spc' = "wait"
    /\ UNCHANGED <<source_result, pending_event, source_task, ret, ringVars,
                   flagVars, readerVars, padVars, connectionVars, appVars,
                   downstreamVars, faultVars>>

WakeForCache ==
    /\ spc = "woken"
    /\ IF srcresult # "OK"
       THEN spc' = "end" /\ ret' = "OK"
            /\ UNCHANGED <<cache, cache_size, cache_write_ready>>
       ELSE ClaimCache(cache_write_index)
    /\ UNCHANGED <<source_result, pending_event, source_task,
                   cache_write_index, cache_read_index, flagVars, readerVars,
                   padVars, connectionVars, appVars, downstreamVars,
                   faultVars>>

-----------------------------------------------------------------------------
\* readNextBlock: a block, the end of the segment, or an error.
ReadNextBlock ==
    /\ spc = "read"
    /\ \/ /\ offset < SegmentSize
          /\ offset' = offset + 1
          /\ spc' = "chain"
          /\ UNCHANGED <<pending_event, ret, failed>>
       \/ /\ offset = SegmentSize
          /\ pending_event' = "NEWSEGMENT"
          /\ spc' = "segment"
          /\ UNCHANGED <<offset, ret, failed>>
       \/ /\ MayFail /\ failed' = TRUE
          /\ ret' = "WRONG_STATE"
          /\ spc' = "end"
          /\ UNCHANGED <<offset, pending_event>>
    /\ UNCHANGED <<source_result, source_task, ringVars, flagVars,
                   readerVars, padVars, mediaFileIndex, appVars,
                   downstreamVars, overtaken>>

\* hls_progress_buffer_chain looks at its flags without the lock ...
ChainCheck ==
    /\ spc = "chain"
    /\ IF sinkFlushing \/ is_flushing \/ is_eos
       THEN spc' = "end" /\ ret' = "WRONG_STATE"
       ELSE spc' = "write" /\ UNCHANGED ret
    /\ UNCHANGED <<source_result, pending_event, source_task, ringVars,
                   flagVars, readerVars, padVars, connectionVars, appVars,
                   downstreamVars, faultVars>>

\* ... and writes the block with it.  After a flush the index is -1 and the
\* "cache" is the memory in front of the array: no cache is written.
ChainWrite ==
    /\ spc = "write"
    /\ spc' = "end"
    /\ IF cache_write_index \in Slots
       THEN cache' = [cache EXCEPT ![cache_write_index].data =
                        Append(@, FirstBlock(mediaFileIndex) + offset - 1)]
       ELSE UNCHANGED cache
    /\ SignalAdd
    /\ UNCHANGED <<source_result, pending_event, source_task, ret,
                   cache_size, cache_write_ready, cache_write_index,
                   cache_read_index, flagVars, task, buffer, padVars,
                   connectionVars, appVars, downstreamVars, faultVars>>

PushEos ==
    /\ spc = "eos"
    /\ ret' = "UNEXPECTED"
    /\ spc' = IF sinkFlushing THEN "end" ELSE "end_of_stream"
    /\ UNCHANGED <<source_result, pending_event, source_task, ringVars,
                   flagVars, readerVars, padVars, connectionVars, appVars,
                   downstreamVars, faultVars>>

\* Mutant: the reader that waits for data is not told of the end.
ReceiveEosSilently ==
    /\ spc = "end_of_stream"
    /\ spc' = "end"
    /\ is_eos' = TRUE
    /\ UNCHANGED <<source_result, pending_event, source_task, ret, ringVars,
                   send_new_segment, is_flushing, srcresult, readerVars,
                   padVars, connectionVars, appVars, downstreamVars,
                   faultVars>>

\* hls_progress_buffer_sink_event for EOS.
ReceiveEos ==
    /\ spc = "end_of_stream"
    /\ spc' = "end"
    /\ is_eos' = TRUE
    /\ SignalAdd
    /\ UNCHANGED <<source_result, pending_event, source_task, ret, ringVars,
                   send_new_segment, is_flushing, srcresult, task, buffer,
                   padVars, connectionVars, appVars, downstreamVars,
                   faultVars>>

SourceSteps ==
    /\ SourceLoop \/ SourceLoopEnd
    /\ UNCHANGED <<ringVars, flagVars, readerVars, padVars, connectionVars,
                   appVars, downstreamVars, faultVars>>

Source ==
    \/ SourceSteps \/ loadNextSegment \/ PushSegment \/ Restart
    \/ AnnounceSegment \/ PrepareCache \/ PostFull \/ WakeForCache
    \/ ReadNextBlock \/ ChainCheck \/ ChainWrite \/ PushEos \/ ReceiveEos

-----------------------------------------------------------------------------
(* The reader: hls_progress_buffer_loop.                                   *)

\* A block is read; the last one of a segment frees its cache.
ReadBlock ==
    LET i == cache_read_index
        c == cache[i]
    IN  /\ buffer' = c.data[c.read + 1]
        /\ cache' = [cache EXCEPT ![i].read = @ + 1]
        /\ IF c.read + 1 = cache_size[i]
           THEN /\ cache_write_ready' = [cache_write_ready EXCEPT ![i] = TRUE]
                /\ cache_read_index' = Following(i)
                /\ SignalDel
           ELSE UNCHANGED <<cache_write_ready, cache_read_index, spc>>

\* The iteration up to the push: it waits for data, reads a block, or ends
\* the stream when the source is done and the cache at its turn is empty.
ReaderLoop ==
    /\ (rpc = "top" /\ task = "started") \/ rpc = "woken"
    /\ \/ /\ srcresult # "OK"
          /\ rpc' = "end"
          /\ UNCHANGED <<spc, buffer, cache, cache_write_ready,
                         cache_read_index, srcresult, ended>>
       \/ /\ srcresult = "OK"
          /\ cache_has_enough_data(cache[cache_read_index])
          /\ ReadBlock
          /\ rpc' = "push"
          /\ UNCHANGED <<srcresult, ended>>
       \/ /\ srcresult = "OK"
          /\ ~cache_has_enough_data(cache[cache_read_index])
          /\ rpc' = IF is_eos THEN "end" ELSE "wait"
          /\ srcresult' = IF is_eos THEN "WRONG_STATE" ELSE srcresult
          /\ ended' = (ended \/ (is_eos /\ ~srcFlushing))
          /\ UNCHANGED <<spc, buffer, cache, cache_write_ready,
                         cache_read_index>>
    /\ UNCHANGED <<source_result, pending_event, source_task, ret,
                   cache_size, cache_write_index, send_new_segment,
                   is_flushing, is_eos, task, padVars, connectionVars,
                   appVars, next, announced, faultVars>>

\* gst_pad_push and the merge of its result into srcresult.
PushBlock ==
    /\ rpc = "push"
    /\ \/ /\ ~srcFlushing
          /\ next' = buffer + 1
          /\ rpc' = IF srcresult = "OK" THEN "top" ELSE "end"
          /\ UNCHANGED <<srcresult, failed>>
       \/ /\ srcFlushing \/ MayFail
          /\ srcresult' = IF srcFlushing THEN "WRONG_STATE" ELSE "ERROR"
          /\ failed' = (failed \/ ~srcFlushing)
          /\ rpc' = "end"
          /\ UNCHANGED next
    /\ UNCHANGED <<sourceVars, ringVars, send_new_segment, is_flushing,
                   is_eos, task, buffer, padVars, connectionVars, appVars,
                   announced, ended, overtaken>>

\* An iteration that did not end with OK pauses its own task, unless a
\* flush will do that.
PauseAtError ==
    /\ rpc = "end"
    /\ rpc' = "top"
    /\ task' = IF ~is_flushing /\ task = "started" THEN "paused" ELSE task
    /\ UNCHANGED <<sourceVars, ringVars, flagVars, buffer, padVars,
                   connectionVars, appVars, downstreamVars, faultVars>>

Reader == ReaderLoop \/ PushBlock \/ PauseAtError

\* The STREAM_LOCK of the reader's pad is free.
ReaderParked == rpc = "top" /\ task # "started"

-----------------------------------------------------------------------------
(* The application thread: a flushing seek and the way down to READY.      *)

\* A flush that comes while the source thread is here finds it behind the
\* test that would have stopped it.
PastTheTest == {"restart", "announce", "prepare", "full", "write"}

\* hls_progress_buffer_flush_data
flush_data ==
    /\ srcresult' = "WRONG_STATE"
    /\ SignalAdd
    /\ SignalDel
    /\ cache_write_index' = -1
    /\ cache_read_index' = 0
    /\ cache' = [i \in Slots |-> EmptyCache]
    /\ cache_size' = [i \in Slots |-> 0]
    /\ cache_write_ready' = [i \in Slots |-> TRUE]
    /\ overtaken' = (spc \in PastTheTest)
    /\ UNCHANGED <<source_result, pending_event, source_task, ret, task,
                   buffer>>

\* java_source_perform_seek pushes FLUSH_START: the pads refuse data, then
\* is_flushing is set ...
FlushStart ==
    /\ kpc = "idle" /\ seeks < MaxSeeks
    /\ seeks' = seeks + 1
    /\ kpc' = "flush"
    /\ sinkFlushing' = TRUE
    /\ is_flushing' = TRUE
    /\ UNCHANGED <<sourceVars, ringVars, send_new_segment, is_eos, srcresult,
                   readerVars, srcFlushing, connectionVars, downstreamVars,
                   faultVars>>

\* ... the event goes on downstream ...
ForwardFlush ==
    /\ kpc = "flush" /\ kpc' = "empty"
    /\ srcFlushing' = TRUE
    /\ announced' = 0 /\ ended' = FALSE
    /\ UNCHANGED <<sourceVars, ringVars, flagVars, readerVars, sinkFlushing,
                   connectionVars, seeks, next, faultVars>>

\* ... the ring is emptied ...
FlushRing ==
    /\ kpc = "empty" /\ kpc' = "pause"
    /\ flush_data
    /\ UNCHANGED <<send_new_segment, is_flushing, is_eos, padVars,
                   connectionVars, seeks, downstreamVars, failed>>

\* ... and the reader is paused: the caller waits for it to park.
PauseReader ==
    /\ kpc = "pause" /\ kpc' = "paused"
    /\ task' = "paused"
    /\ UNCHANGED <<sourceVars, ringVars, flagVars, rpc, buffer, padVars,
                   connectionVars, seeks, downstreamVars, faultVars>>

\* Back in java_source_perform_seek.
StopSource ==
    /\ kpc = "paused" /\ ReaderParked
    /\ kpc' = "lock"
    /\ SourceGivesUp
    /\ UNCHANGED <<ringVars, flagVars, readerVars, padVars, connectionVars,
                   seeks, downstreamVars, faultVars>>

\* Playlist.seek: the start of segment s; the duration itself is accepted
\* without a change of the media file that comes next.
SeekData ==
    /\ kpc = "lock" /\ kpc' = "resume"
    /\ SourceSeeks(TRUE)
    /\ \/ \E s \in 1..SegmentCount : mediaFileIndex' = s - 1
       \/ UNCHANGED mediaFileIndex
    /\ failed' = FALSE
    /\ UNCHANGED <<ringVars, flagVars, readerVars, padVars, offset, seeks,
                   downstreamVars, overtaken>>

\* Mutant: the next segment is not announced again.
FlushStopOnly ==
    /\ kpc = "resume" /\ kpc' = "idle"
    /\ sinkFlushing' = FALSE /\ srcFlushing' = FALSE
    /\ is_flushing' = FALSE
    /\ srcresult' = "OK"
    /\ task' = IF ~is_eos THEN "started" ELSE task
    /\ SourceRestarts
    /\ UNCHANGED <<ringVars, send_new_segment, is_eos, rpc, buffer,
                   connectionVars, seeks, downstreamVars, faultVars>>

\* FLUSH_STOP, and the source task starts again.
FlushStop ==
    /\ kpc = "resume" /\ kpc' = "idle"
    /\ sinkFlushing' = FALSE /\ srcFlushing' = FALSE
    /\ send_new_segment' = TRUE
    /\ is_flushing' = FALSE
    /\ srcresult' = "OK"
    /\ task' = IF ~is_eos THEN "started" ELSE task
    /\ SourceRestarts
    /\ UNCHANGED <<ringVars, is_eos, rpc, buffer, connectionVars, seeks,
                   downstreamVars, faultVars>>

\* PAUSED to READY: downstream is inactive already, the ring is emptied ...
CloseRing ==
    /\ kpc = "idle" /\ kpc' = "deactivate"
    /\ srcFlushing' = TRUE
    /\ flush_data
    /\ UNCHANGED <<send_new_segment, is_flushing, is_eos, sinkFlushing,
                   connectionVars, seeks, downstreamVars, failed>>

\* ... activatepush_src(FALSE) stops the reader ...
DeactivateSrc ==
    /\ kpc = "deactivate" /\ kpc' = "join"
    /\ srcresult' = "WRONG_STATE"
    /\ task' = "stopped"
    /\ SignalAdd /\ SignalDel
    /\ UNCHANGED <<source_result, pending_event, source_task, ret, ringVars,
                   send_new_segment, is_flushing, is_eos, buffer, padVars,
                   connectionVars, seeks, downstreamVars, faultVars>>

\* ... the sink pad refuses data and waits for the thread inside ...
DeactivateSink ==
    /\ kpc = "join" /\ ReaderParked
    /\ kpc' = "drain"
    /\ sinkFlushing' = TRUE
    /\ UNCHANGED <<sourceVars, ringVars, flagVars, readerVars, srcFlushing,
                   connectionVars, seeks, downstreamVars, faultVars>>

InElement == {"restart", "announce", "prepare", "full", "wait", "woken",
              "write", "end_of_stream"}

\* ... and the source task is stopped.
CloseSource ==
    /\ kpc = "drain" /\ spc \notin InElement
    /\ kpc' = "stop"
    /\ SourceStops
    /\ UNCHANGED <<ringVars, flagVars, readerVars, padVars, connectionVars,
                   seeks, downstreamVars, faultVars>>

Closed ==
    /\ kpc = "stop" /\ SourceParked
    /\ kpc' = "closed"
    /\ UNCHANGED <<sourceVars, ringVars, flagVars, readerVars, padVars,
                   connectionVars, seeks, downstreamVars, faultVars>>

Begin == FlushStart \/ CloseRing
Proceed ==
    \/ ForwardFlush \/ FlushRing \/ PauseReader \/ StopSource \/ SeekData
    \/ FlushStop \/ DeactivateSrc \/ DeactivateSink \/ CloseSource \/ Closed

Next == Source \/ Reader \/ Begin \/ Proceed

Spec == Init /\ [][Next]_vars

\* Each thread goes on while it can; nothing makes the application seek.
Fairness == WF_vars(Source) /\ WF_vars(Reader) /\ WF_vars(Proceed)
FairSpec == Spec /\ Fairness

-----------------------------------------------------------------------------
Cache == [data : Seq(1..Total), read : Nat]

\* The element's fields, the threads and the connection keep their types.
TypeOK ==
    /\ SourceTypeOK({"top", "segment", "push", "read", "chain", "eos", "end"}
                    \cup InElement)
    /\ cache \in [Slots -> Cache]
    /\ cache_size \in [Slots -> 0..SegmentSize]
    /\ cache_write_ready \in [Slots -> BOOLEAN]
    /\ cache_write_index \in Slots \cup {-1} /\ cache_read_index \in Slots
    /\ send_new_segment \in BOOLEAN /\ is_flushing \in BOOLEAN
    /\ is_eos \in BOOLEAN /\ srcresult \in FlowReturn
    /\ task \in {"started", "paused", "stopped"}
    /\ rpc \in {"top", "wait", "woken", "push", "end"} /\ buffer \in 0..Total
    /\ sinkFlushing \in BOOLEAN /\ srcFlushing \in BOOLEAN
    /\ mediaFileIndex \in Nat /\ offset \in 0..SegmentSize
    /\ kpc \in {"idle", "flush", "empty", "pause", "paused", "lock",
                "resume", "deactivate", "join", "drain", "stop", "closed"}
    /\ seeks \in 0..MaxSeeks
    /\ next \in Nat /\ announced \in Nat /\ ended \in BOOLEAN
    /\ overtaken \in BOOLEAN /\ failed \in BOOLEAN

Closing == kpc \in {"deactivate", "join", "drain", "stop", "closed"}

\* Where the source thread is about to write a block it owns the cache at
\* the write index, and that cache holds just the earlier blocks of the
\* segment being read.  Excepted are a flush that overtook the thread
\* between the unlocked test and the write, a pipeline being closed, and a
\* reader that stopped at an error.
WritesOwnCache ==
    spc = "write" /\ ~overtaken /\ ~Closing /\ ~failed =>
        /\ cache_write_index \in Slots
        /\ ~cache_write_ready[cache_write_index]
        /\ cache[cache_write_index].data =
             [b \in 1..(offset - 1) |-> FirstBlock(mediaFileIndex) + b - 1]

\* In a run that was announced, downstream sees EOS only behind the last
\* block, although the reader takes an empty cache at its turn for the end
\* once is_eos is set.
EosAtEnd ==
    ended /\ announced > 0 /\ ~overtaken /\ ~Closing /\ ~failed => next > Total

\* The ring in one invariant: typed fields, a writer that owns its cache, and
\* an end of stream only behind the last block.
RingConsistent == TypeOK /\ WritesOwnCache /\ EosAtEnd

\* The demuxer gets the blocks in order, announced after every flush, through
\* any race of writer, reader, seek and close.
OS == INSTANCE OrderedStream WITH expected <- next
InOrder == OS!OSSpec

\* A seek, or a close, ends; the flush must get both threads out of their
\* waits.  Excepted is a flush that overtook the source thread.
CallsReturn == kpc # "idle" ~> kpc \in {"idle", "closed"} \/ overtaken

\* The writer waits for a free cache, the reader for data: the signal for
\* the last free cache came while the FULL message was posted.
BothWait == spc = "wait" /\ rpc = "wait"

\* A seek to the duration after the source has sent EOS: FLUSH_STOP leaves
\* the reader paused for the next segment, and there is none.
ReaderForgotten == is_eos /\ ReaderParked /\ srcresult = "OK"

\* A stream that is left alone after the last seek is delivered to its end,
\* but for lost signals and a reader that nothing starts.
EosIsReached ==
    <>[](/\ kpc = "idle" /\ ~overtaken /\ ~failed
         /\ ~BothWait /\ ~ReaderForgotten) => <>[]ended

\* Every seek ends.
SeekReturns == kpc = "flush" ~> kpc = "idle"
=============================================================================
