--------------------------- MODULE ProgressBuffer ---------------------------
(***************************************************************************)
(* progressbuffer between javasource and a demuxer: the source thread      *)
(* writes what it downloads into one cache file; the demuxer gets it in    *)
(* push mode from the task of the source pad, in pull mode by asking for   *)
(* ranges and being told by a monitor thread when to ask again.  The       *)
(* application seeks, in the cache or at the source, and closes.           *)
(*                                                                         *)
(* A step is what one thread does while it holds `lock', or one group of   *)
(* unlocked actions.  Positions count blocks, block p lies at position p.  *)
(***************************************************************************)
EXTENDS JavaSource, Sequences

CONSTANTS
    Size,        \* the content length the server states
    Threshold,   \* progress that is worth a message
    Tolerance,   \* bandwidth * wait_tolerance, once bandwidth is known
    MaxSeeks,    \* bound on the seeks of the application
    MaxTarget,   \* bound on their targets, which may lie beyond the end
    MayEnd       \* the demuxer may answer a buffer with UNEXPECTED

ASSUME SizeAssumption == Size \in Nat \ {0}
ASSUME ThresholdAssumption == Threshold \in Nat /\ Tolerance \in Nat
ASSUME PbBounds == MaxSeeks \in Nat /\ MayEnd \in BOOLEAN
ASSUME TargetAssumption == MaxTarget \in Nat /\ MaxTarget >= Size

VARIABLES
    setup,               \* the connection and the demuxer, fixed at the start
    position,            \* of javasource and its connection
    update,              \* the next newsegment event updates the segment
    file, write_position, read_position, cache_read_offset,
    sink_segment, last_update,
    eos, signal_limit, unexpected, srcresult, instant_seek,
    pending_src_event,   \* <<>>, <<"EOS">> or <<"NEWSEGMENT", start>>
    task, rpc, skip, buffer, result,          \* the reader of push mode
    range_start, range_stop, mpc,             \* the monitor of pull mode
    dpc, wanted, got,                         \* the demuxer of pull mode
    kpc, target, seeks,                       \* the seeking thread
    srcFlushing, next, announced, ended,      \* downstream
    late, failed, refused                     \* what went wrong with seeks

connectionVars == <<setup, position, update>>
cacheVars == <<file, write_position, read_position, cache_read_offset>>
segmentVars == <<sink_segment, last_update>>
eosVars == <<eos, signal_limit>>
statusVars == <<unexpected, srcresult, instant_seek, pending_src_event>>
readerVars == <<task, rpc, skip, buffer, result>>
rangeVars == <<range_start, range_stop>>
demuxVars == <<dpc, wanted, got>>
appVars == <<kpc, target, seeks>>
downstreamVars == <<srcFlushing, next, announced, ended>>
seekVars == <<late, failed, refused>>
vars == <<sourceVars, connectionVars, cacheVars, segmentVars, eosVars,
          statusVars, readerVars, rangeVars, mpc, demuxVars, appVars,
          downstreamVars, seekVars>>

NO_RANGE_REQUEST == -1
EOS_SIGNAL_LIMIT == 1
None == <<>>
Eos == <<"EOS">>
NewSegment(p) == <<"NEWSEGMENT", p>>

\* Seeks convert a time to bytes by the average rate, without clamping.
Targets == 0..MaxTarget

\* The server may send less than it stated; the demuxer chooses push or pull
\* mode.
Setups == [available : {Size, Size - 1}, pull : BOOLEAN]

Init ==
    /\ SourceInit
    /\ setup \in Setups
    /\ position = 0 /\ update = TRUE
    /\ file = <<>> /\ write_position = 0 /\ read_position = 0
    /\ cache_read_offset = 0
    /\ sink_segment = [start |-> 0, last_stop |-> 0, stop |-> -1]
    /\ last_update = 0
    /\ eos = FALSE /\ signal_limit = EOS_SIGNAL_LIMIT
    /\ unexpected = FALSE /\ srcresult = "OK" /\ instant_seek = FALSE
    /\ pending_src_event = None
    /\ task = "none" /\ rpc = "top" /\ skip = FALSE /\ buffer = 0
    /\ result = "OK"
    /\ range_start = NO_RANGE_REQUEST /\ range_stop = NO_RANGE_REQUEST
    /\ mpc = "none" /\ dpc = "none" /\ wanted = 0 /\ got = 0
    /\ kpc = "idle" /\ target = 0 /\ seeks = 0
    /\ srcFlushing = FALSE /\ next = 0 /\ announced = 0 /\ ended = FALSE
    /\ late = FALSE /\ failed = FALSE /\ refused = FALSE

Smaller(m, n) == IF m < n THEN m ELSE n

Start == sink_segment.start
LastStop == sink_segment.last_stop
Stop == sink_segment.stop

-----------------------------------------------------------------------------
(* The cache file.                                                         *)

cache_has_enough_data == read_position < write_position

\* The block goes where the write handle stands; what lies behind stays.
cache_write_buffer(b) ==
    /\ file' = IF write_position < Len(file)
               THEN [file EXCEPT ![write_position + 1] = b]
               ELSE Append(file, b)
    /\ write_position' = write_position + 1

\* A negative position is refused by lseek.
cache_set_read_position(p) ==
    read_position' = IF p >= 0 THEN p ELSE read_position

\* g_cond_signal(add_cond): the reader waits in push mode, the monitor in
\* pull mode.
SignalAdd ==
    /\ rpc' = IF rpc = "wait" THEN "woken" ELSE rpc
    /\ mpc' = IF mpc = "wait" THEN "check" ELSE mpc
NoSignal == UNCHANGED <<rpc, mpc>>

\* send_position_message: often enough, or mandatory, and then a signal.
send_position_message(mandatory) ==
    LET position_now == sink_segment'.last_stop
    IN  IF mandatory \/ position_now - last_update > Threshold
        THEN last_update' = position_now /\ SignalAdd
        ELSE UNCHANGED last_update /\ NoSignal

\* Mutant: the event that waits is kept.
reset_eos_only ==
    /\ eos' = FALSE
    /\ signal_limit' = EOS_SIGNAL_LIMIT
    /\ UNCHANGED pending_src_event

reset_eos ==
    /\ eos' = FALSE
    /\ signal_limit' = EOS_SIGNAL_LIMIT
    /\ pending_src_event' = None

-----------------------------------------------------------------------------
(* The source thread: sink_event and chain, with what they enqueue.        *)

\* Mutant: the write handle stays where it was.
RestartReading ==
    /\ read_position' = 0
    /\ cache_read_offset' = position
    /\ UNCHANGED <<file, write_position>>

\* The cache is used again from its beginning, for what begins at position.
RestartCache ==
    /\ write_position' = 0 /\ read_position' = 0
    /\ cache_read_offset' = position
    /\ UNCHANGED file

\* The first newsegment event finds a new cache, one after a seek sets the
\* cache back to its beginning.
TakeSegment ==
    /\ IF update THEN UNCHANGED cacheVars ELSE RestartCache
    /\ sink_segment' = [start |-> position, last_stop |-> position,
                        stop |-> Size]
    /\ unexpected' = FALSE
    /\ pending_src_event' = NewSegment(position)
    /\ instant_seek' = TRUE
    /\ send_position_message(TRUE)
    /\ UNCHANGED <<srcresult, ret>>

\* After EOS a newsegment event is refused.  A segment that starts behind its
\* stop is not even made where GStreamer's own checks are compiled in.
RefuseSegment ==
    /\ ret' = "WRONG_STATE"
    /\ NoSignal
    /\ UNCHANGED <<cacheVars, segmentVars, statusVars>>

\* An empty segment is an error, which sink_event does not report.
EmptySegment ==
    /\ unexpected' = FALSE
    /\ NoSignal
    /\ UNCHANGED <<cacheVars, segmentVars, srcresult, instant_seek,
                   pending_src_event, ret>>

EnqueueSegment ==
    /\ spc = "segment" /\ spc' = "end"
    /\ pending_event' = "UNKNOWN"
    /\ update' = FALSE
    /\ refused' = (eos \/ position >= Size \/ (refused /\ rpc = "push"))
    /\ \/ ~eos /\ position < Size /\ TakeSegment
       \/ (eos \/ position > Size) /\ RefuseSegment
       \/ ~eos /\ position >= Size /\ EmptySegment
    /\ UNCHANGED <<source_result, source_task, setup, position, eosVars,
                   task, skip, buffer, result, rangeVars, demuxVars, appVars,
                   downstreamVars, late, failed>>

\* readNextBlock: a block, or the end of what the server sends.
ReadNextBlock ==
    /\ spc = "read"
    /\ IF position < setup.available
       THEN spc' = "chain" /\ UNCHANGED pending_event
       ELSE spc' = "eos" /\ pending_event' = "EOS"
    /\ UNCHANGED <<source_result, source_task, ret, connectionVars,
                   cacheVars, segmentVars, eosVars, statusVars, readerVars,
                   rangeVars, mpc, demuxVars, appVars, downstreamVars,
                   seekVars>>

\* progress_buffer_create_sourcepad activates the pad: reset_eos drops the
\* newsegment event that waits, and the reader or the monitor starts.
create_sourcepad ==
    /\ reset_eos
    /\ UNCHANGED <<unexpected, srcresult>>
    /\ IF setup.pull
       THEN mpc' = "check" /\ dpc' = "pull" /\ UNCHANGED <<task, rpc>>
       ELSE task' = "started" /\ UNCHANGED <<mpc, dpc, rpc>>

chain ==
    /\ spc = "chain" /\ spc' = "end"
    /\ position' = position + 1
    /\ IF eos \/ unexpected
       THEN /\ ret' = "UNEXPECTED"
            /\ NoSignal
            /\ UNCHANGED <<cacheVars, segmentVars, task, dpc, eosVars,
                           statusVars>>
       ELSE /\ sink_segment' = [sink_segment EXCEPT !.last_stop = position + 1]
            /\ IF Stop < position + 1
               THEN ret' = "ERROR" /\ UNCHANGED <<file, write_position>>
               ELSE cache_write_buffer(position) /\ UNCHANGED ret
            /\ IF task = "none" /\ dpc = "none"
               THEN /\ last_update' = IF position + 1 - last_update > Threshold
                                    THEN position + 1 ELSE last_update
                    /\ create_sourcepad
               ELSE /\ send_position_message(FALSE)
                    /\ UNCHANGED <<task, dpc, eosVars, unexpected, srcresult,
                                   pending_src_event>>
            /\ UNCHANGED <<read_position, cache_read_offset, instant_seek>>
    /\ UNCHANGED <<source_result, pending_event, source_task, setup, update,
                   skip, buffer, result, rangeVars, wanted, got, appVars,
                   downstreamVars, seekVars>>

\* EOS ends the segment where the data ended.
EnqueueEos ==
    /\ spc = "eos" /\ spc' = "end"
    /\ ret' = "UNEXPECTED"
    /\ IF eos
       THEN NoSignal /\ UNCHANGED <<eos, segmentVars>>
       ELSE /\ eos' = TRUE
            /\ sink_segment' = [sink_segment EXCEPT !.stop = Smaller(Stop, LastStop)]
            /\ send_position_message(TRUE)
    /\ UNCHANGED <<source_result, pending_event, source_task, connectionVars,
                   cacheVars, signal_limit, statusVars, task, skip, buffer,
                   result, rangeVars, demuxVars, appVars, downstreamVars,
                   seekVars>>

SourceSteps ==
    /\ SourceLoop \/ SourceLoopEnd
    /\ UNCHANGED <<connectionVars, cacheVars, segmentVars, eosVars,
                   statusVars, readerVars, rangeVars, mpc, demuxVars,
                   appVars, downstreamVars, seekVars>>

Source == SourceSteps \/ EnqueueSegment \/ ReadNextBlock \/ chain \/ EnqueueEos

-----------------------------------------------------------------------------
(* Push mode: progress_buffer_loop.                                        *)

\* The task pauses itself after an iteration that did not end with OK.
ReaderPauses ==
    /\ rpc' = "top"
    /\ skip' = FALSE
    /\ task' = IF task = "started" THEN "paused" ELSE task

\* A block is read.  The last one of the segment leaves EOS to be sent; in
\* skip mode the block is dropped.
ReadBlock ==
    LET after == read_position + 1 + cache_read_offset
    IN  /\ read_position' = read_position + 1
        /\ buffer' = file[read_position + 1]
        /\ pending_src_event' = IF after = Stop THEN Eos ELSE None
        /\ rpc' = IF skip THEN "woken" ELSE "push"
        /\ UNCHANGED <<task, skip, srcresult, unexpected, downstreamVars>>

\* The event that waits is sent; EOS ends the task.
PushEvent ==
    /\ pending_src_event' = None
    /\ IF pending_src_event = Eos
       THEN /\ srcresult' = "UNEXPECTED"
            /\ ended' = (ended \/ ~srcFlushing)
            /\ ReaderPauses
            /\ UNCHANGED <<next, announced>>
       ELSE /\ IF srcFlushing
               THEN UNCHANGED <<next, announced>>
               ELSE next' = pending_src_event[2] /\ announced' = announced + 1
            /\ rpc' = "top" /\ skip' = FALSE
            /\ UNCHANGED <<srcresult, task, ended>>
    /\ UNCHANGED <<read_position, buffer, unexpected, srcFlushing>>

\* The loop was told to stop; a loop in skip mode does not pause.
ReaderStops ==
    /\ unexpected' = (unexpected \/ skip)
    /\ IF skip THEN rpc' = "top" /\ skip' = FALSE /\ UNCHANGED task
       ELSE ReaderPauses
    /\ UNCHANGED <<read_position, buffer, srcresult, pending_src_event,
                   downstreamVars>>

ReaderLoop ==
    /\ (rpc = "top" /\ task = "started") \/ rpc = "woken"
    /\ \/ srcresult # "OK" /\ ReaderStops
       \/ srcresult = "OK" /\ pending_src_event # None /\ PushEvent
       \/ /\ srcresult = "OK" /\ pending_src_event = None
          /\ IF instant_seek /\ cache_has_enough_data
             THEN ReadBlock
             ELSE /\ rpc' = "wait"
                  /\ UNCHANGED <<read_position, buffer, pending_src_event,
                                 task, skip, srcresult, unexpected,
                                 downstreamVars>>
    /\ UNCHANGED <<sourceVars, connectionVars, file, write_position,
                   cache_read_offset, segmentVars, eosVars, instant_seek,
                   result, rangeVars, mpc, demuxVars, appVars, seekVars>>

\* gst_pad_push
PushBlock ==
    /\ rpc = "push"
    /\ \/ /\ ~srcFlushing
          /\ next' = buffer + 1
          /\ rpc' = "pushed" /\ result' = "OK" /\ UNCHANGED skip
       \/ /\ srcFlushing
          /\ rpc' = "pushed" /\ result' = "WRONG_STATE"
          /\ UNCHANGED <<next, skip>>
       \/ /\ MayEnd /\ ~srcFlushing
          /\ next' = buffer + 1
          /\ rpc' = "woken" /\ skip' = TRUE /\ UNCHANGED result
    /\ UNCHANGED <<sourceVars, connectionVars, cacheVars, segmentVars,
                   eosVars, statusVars, task, buffer, rangeVars, mpc,
                   demuxVars, appVars, srcFlushing, announced, ended,
                   seekVars>>

\* The result of the push replaces whatever srcresult is by now.
StoreResult ==
    /\ rpc = "pushed"
    /\ srcresult' = result
    /\ IF result = "OK" THEN rpc' = "top" /\ UNCHANGED <<skip, task>>
       ELSE ReaderPauses
    /\ UNCHANGED <<sourceVars, connectionVars, cacheVars, segmentVars,
                   eosVars, unexpected, instant_seek, pending_src_event,
                   buffer, result, rangeVars, mpc, demuxVars, appVars,
                   downstreamVars, seekVars>>

Reader == ReaderLoop \/ PushBlock \/ StoreResult

ReaderParked == rpc = "top" /\ task # "started"

-----------------------------------------------------------------------------
(* Pull mode: getrange, the monitor and the demuxer.                       *)

ValidRange == range_start # NO_RANGE_REQUEST \/ range_stop # NO_RANGE_REQUEST
pending_range_start == range_start # NO_RANGE_REQUEST /\ Start > range_start
pending_range_stop == range_stop # NO_RANGE_REQUEST /\ LastStop < range_stop
\* Mutant: the last notification is kept back.
pending_eos_again == eos /\ signal_limit > 1

\* pending_eos also uses up one notification.
pending_eos == eos /\ signal_limit > 0

\* progress_buffer_range_monitor: it waits for the range or for EOS, and
\* ends when there is nothing to tell.
Monitor ==
    /\ mpc = "check"
    /\ signal_limit' = IF srcresult = "OK" /\ pending_eos
                       THEN signal_limit - 1 ELSE signal_limit
    /\ IF /\ srcresult = "OK" /\ ~pending_eos
          /\ pending_range_start \/ pending_range_stop \/ ~ValidRange
       THEN mpc' = "wait" /\ UNCHANGED rangeVars
       ELSE IF srcresult = "OK" /\ ValidRange
       THEN /\ mpc' = "notify"
            /\ range_start' = NO_RANGE_REQUEST
            /\ range_stop' = NO_RANGE_REQUEST
       ELSE mpc' = "ended" /\ UNCHANGED rangeVars
    /\ UNCHANGED <<sourceVars, connectionVars, cacheVars, segmentVars, eos,
                   statusVars, readerVars, demuxVars, appVars,
                   downstreamVars, seekVars>>

\* FX_EVENT_RANGE_READY is serialized: it gets through when the task of the
\* demuxer is paused, and starts it again.
RangeReady ==
    /\ mpc = "notify" /\ dpc \in {"paused", "done", "error"}
    /\ mpc' = "check" /\ dpc' = "pull"
    /\ UNCHANGED <<sourceVars, connectionVars, cacheVars, segmentVars,
                   eosVars, statusVars, readerVars, rangeVars, wanted, got,
                   appVars, downstreamVars, seekVars>>

InCache(p) == Start <= p /\ LastStop >= p + 1

\* cache_read_buffer_from_position: the block is looked up at the place of
\* its position, wherever the cache begins.
BlockAt(p) == IF p < Len(file) THEN file[p + 1] ELSE -1

\* progress_buffer_getrange for one block at `wanted', called by the task of
\* the demuxer.  A range that is not there is noted for the monitor; one far
\* away makes the source seek.
getrange ==
    LET end == wanted + 1
        beforeStart == Start > wanted
    IN  /\ dpc = "pull" /\ kpc = "idle"
        /\ \/ /\ Stop < end
              /\ dpc' = "done"
              /\ UNCHANGED <<read_position, wanted, got, rangeVars, eosVars,
                             pending_src_event, kpc, target>>
           \/ /\ Stop >= end /\ InCache(wanted)
              /\ got' = BlockAt(wanted)
              /\ cache_set_read_position(IF got' = -1 THEN wanted ELSE end)
              /\ dpc' = IF got' = -1 THEN "error" ELSE "check"
              /\ UNCHANGED <<wanted, rangeVars, eosVars, pending_src_event,
                             kpc, target>>
           \/ /\ Stop >= end /\ ~InCache(wanted)
              /\ dpc' = "pausing"
              /\ range_start' = IF beforeStart THEN wanted ELSE range_start
              /\ IF beforeStart THEN reset_eos
                 ELSE UNCHANGED <<eosVars, pending_src_event>>
              /\ \E bandwidth \in {0, Tolerance} :
                   LET seeking == IF LastStop < end
                                  THEN bandwidth > 0 /\ end - LastStop > bandwidth
                                  ELSE beforeStart
                   IN  /\ kpc' = IF seeking THEN "source" ELSE "idle"
                       /\ range_stop' = IF LastStop < end
                                        THEN Smaller(Stop, end + bandwidth)
                                        ELSE range_stop
              /\ target' = wanted
              /\ UNCHANGED <<read_position, wanted, got>>
        /\ UNCHANGED <<sourceVars, connectionVars, file, write_position,
                       cache_read_offset, segmentVars, unexpected, srcresult,
                       instant_seek, readerVars, mpc, seeks, downstreamVars,
                       seekVars>>

\* The demuxer's task uses the block, or pauses after a range that was not
\* there.
DemuxGoesOn ==
    /\ \/ dpc = "check" /\ dpc' = "pull" /\ wanted' = wanted + 1
       \/ dpc = "pausing" /\ kpc = "idle" /\ dpc' = "paused" /\ UNCHANGED wanted
    /\ UNCHANGED <<sourceVars, connectionVars, cacheVars, segmentVars,
                   eosVars, statusVars, readerVars, rangeVars, mpc, got,
                   appVars, downstreamVars, seekVars>>

\* A seek of the application in pull mode: the demuxer's task goes on
\* elsewhere.
DemuxSeeks ==
    /\ dpc \in {"pull", "paused", "done", "error"}
    /\ kpc = "idle" /\ seeks < MaxSeeks /\ seeks' = seeks + 1
    /\ wanted' \in Targets
    /\ dpc' = "pull"
    /\ UNCHANGED <<sourceVars, connectionVars, cacheVars, segmentVars,
                   eosVars, statusVars, readerVars, rangeVars, mpc, got, kpc,
                   target, downstreamVars, seekVars>>

Pull == Monitor \/ RangeReady \/ getrange \/ DemuxGoesOn

-----------------------------------------------------------------------------
(* The seeking thread: progress_buffer_perform_push_seek, the seek of      *)
(* javasource that it or getrange asks for, and the way to READY.          *)

FlushStart ==
    /\ kpc = "idle" /\ task \notin {"none", "stopped"} /\ seeks < MaxSeeks
    /\ kpc' = "stop" /\ seeks' = seeks + 1
    /\ target' \in Targets
    /\ srcFlushing' = TRUE /\ announced' = 0 /\ ended' = FALSE
    /\ UNCHANGED <<sourceVars, connectionVars, cacheVars, segmentVars,
                   eosVars, statusVars, readerVars, rangeVars, mpc,
                   demuxVars, next, seekVars>>

\* Mutant: nobody wakes the reader.
StopReaderSilently ==
    /\ kpc = "stop" /\ kpc' = "lock"
    /\ srcresult' = "WRONG_STATE"
    /\ NoSignal
    /\ UNCHANGED <<sourceVars, connectionVars, cacheVars, segmentVars,
                   eosVars, unexpected, instant_seek, pending_src_event,
                   task, skip, buffer, result, rangeVars, demuxVars, target,
                   seeks, downstreamVars, seekVars>>

\* The reader is told to stop, and woken.
StopReader ==
    /\ kpc = "stop" /\ kpc' = "lock"
    /\ srcresult' = "WRONG_STATE"
    /\ SignalAdd
    /\ UNCHANGED <<sourceVars, connectionVars, cacheVars, segmentVars,
                   eosVars, unexpected, instant_seek, pending_src_event,
                   task, skip, buffer, result, rangeVars, demuxVars, target,
                   seeks, downstreamVars, seekVars>>

\* Mutant: the seek is not announced.
SeekInCacheSilently ==
    /\ cache_set_read_position(target - cache_read_offset)
    /\ UNCHANGED <<eosVars, pending_src_event>>

\* The newsegment event for the target; there is none for a target behind
\* the segment where GStreamer's own checks are compiled in.
AnnounceTarget ==
    \/ pending_src_event' = NewSegment(target)
    \/ target > Stop /\ pending_src_event' = None

\* The reader starts where the target lies in the cache.
SeekInCache ==
    /\ cache_set_read_position(target - cache_read_offset)
    /\ AnnounceTarget
    /\ UNCHANGED eosVars

\* A newsegment event of an earlier seek is still to come from the source.
SegmentUnderWay == pending_event = "NEWSEGMENT"

\* With the STREAM_LOCK of the reader: a target in the cache, or near its
\* end, is reached in the cache.
DecideSeek ==
    /\ kpc = "lock" /\ ReaderParked /\ kpc' = "flush_stop"
    /\ srcresult' = "OK"
    /\ \E bandwidth \in {0, Tolerance} :
         instant_seek' = (target >= Start /\ target - LastStop <= bandwidth)
    /\ IF instant_seek' THEN SeekInCache
       ELSE reset_eos /\ UNCHANGED read_position
    /\ late' = SegmentUnderWay /\ failed' = FALSE
    /\ UNCHANGED <<sourceVars, connectionVars, file, write_position,
                   cache_read_offset, segmentVars, unexpected, readerVars,
                   rangeVars, mpc, demuxVars, target, seeks, downstreamVars,
                   refused>>

\* Without the lock: for other targets the source seeks, unless instant_seek
\* was set meanwhile.
FlushStop ==
    /\ kpc = "flush_stop"
    /\ srcFlushing' = FALSE
    /\ IF instant_seek THEN kpc' = "idle" /\ task' = "started"
       ELSE kpc' = "source" /\ UNCHANGED task
    /\ UNCHANGED <<sourceVars, connectionVars, cacheVars, segmentVars,
                   eosVars, statusVars, rpc, skip, buffer, result, rangeVars,
                   mpc, demuxVars, target, seeks, next, announced, ended,
                   seekVars>>

\* java_source_perform_seek without flush.
StopSource ==
    /\ kpc = "source" /\ kpc' = "source_lock"
    /\ SourceGivesUp
    /\ UNCHANGED <<connectionVars, cacheVars, segmentVars, eosVars,
                   statusVars, readerVars, rangeVars, mpc, demuxVars, target,
                   seeks, downstreamVars, seekVars>>

\* URIConnectionHolder.seek moves the connection, or fails and leaves it.
SeekData ==
    /\ kpc = "source_lock"
    /\ \/ /\ SourceSeeks(TRUE) /\ kpc' = "resume"
          /\ position' = target /\ update' = FALSE
          /\ late' = (late /\ pending_src_event # None)
          /\ UNCHANGED failed
       \/ /\ SourceSeeks(FALSE) /\ kpc' = "refused"
          /\ failed' = (target < cache_read_offset \/ SegmentUnderWay)
          /\ UNCHANGED <<position, update, late>>
    /\ UNCHANGED <<setup, cacheVars, segmentVars, eosVars, statusVars,
                   readerVars, rangeVars, mpc, demuxVars, target, seeks,
                   downstreamVars, refused>>

\* The source's task starts again.  Pull mode ignores a refused seek.
RestartSource ==
    /\ kpc \in {"resume", "refused"}
    /\ kpc' = IF setup.pull THEN "idle"
              ELSE IF kpc = "resume" THEN "start" ELSE "fall_back"
    /\ SourceRestarts
    /\ UNCHANGED <<connectionVars, cacheVars, segmentVars, eosVars,
                   statusVars, readerVars, rangeVars, mpc, demuxVars, target,
                   seeks, downstreamVars, seekVars>>

\* After a refused seek push mode goes on in the cache, without the lock and
\* with the source at work.
FallBack ==
    /\ kpc = "fall_back" /\ kpc' = "announce"
    /\ instant_seek' = TRUE
    /\ cache_set_read_position(target - cache_read_offset)
    /\ UNCHANGED <<sourceVars, connectionVars, file, write_position,
                   cache_read_offset, segmentVars, eosVars, unexpected,
                   srcresult, pending_src_event, readerVars, rangeVars, mpc,
                   demuxVars, target, seeks, downstreamVars, seekVars>>

\* Mutant: the reader's task is not started again.
LeaveReaderPaused ==
    /\ kpc \in {"start", "announce"} /\ kpc' = "idle"
    /\ IF kpc = "announce" THEN AnnounceTarget ELSE UNCHANGED pending_src_event
    /\ UNCHANGED <<sourceVars, connectionVars, cacheVars, segmentVars,
                   eosVars, unexpected, srcresult, instant_seek, readerVars,
                   rangeVars, mpc, demuxVars, target, seeks, downstreamVars,
                   seekVars>>

StartReader ==
    /\ kpc \in {"start", "announce"} /\ kpc' = "idle"
    /\ IF kpc = "announce" THEN AnnounceTarget ELSE UNCHANGED pending_src_event
    /\ task' = "started"
    /\ UNCHANGED <<sourceVars, connectionVars, cacheVars, segmentVars,
                   eosVars, unexpected, srcresult, instant_seek, rpc, skip,
                   buffer, result, rangeVars, mpc, demuxVars, target, seeks,
                   downstreamVars, seekVars>>

\* PAUSED to READY: the pads are deactivated and the threads joined, with
\* the source the last; then the data is flushed.
Deactivate ==
    /\ kpc = "idle" /\ kpc' = "join"
    /\ task # "none" \/ dpc \in {"pull", "paused", "done", "error"}
    /\ srcFlushing' = TRUE
    /\ srcresult' = "WRONG_STATE"
    /\ task' = IF task = "none" THEN task ELSE "stopped"
    /\ dpc' = IF dpc = "none" THEN dpc ELSE "stopped"
    /\ SignalAdd
    /\ UNCHANGED <<sourceVars, connectionVars, cacheVars, segmentVars,
                   eosVars, unexpected, instant_seek, pending_src_event,
                   skip, buffer, result, rangeVars, wanted, got, target,
                   seeks, next, announced, ended, seekVars>>

FlushData ==
    /\ kpc = "join" /\ kpc' = "closed"
    /\ ReaderParked /\ mpc \in {"none", "ended", "notify"}
    /\ mpc' = IF mpc = "notify" THEN "ended" ELSE mpc
    /\ srcresult' = "WRONG_STATE"
    /\ pending_src_event' = None
    /\ sink_segment' = [start |-> 0, last_stop |-> 0, stop |-> -1]
    /\ last_update' = 0
    /\ range_start' = NO_RANGE_REQUEST /\ range_stop' = NO_RANGE_REQUEST
    /\ SourceStops
    /\ UNCHANGED <<connectionVars, cacheVars, eosVars, unexpected,
                   instant_seek, readerVars, demuxVars, target, seeks,
                   downstreamVars, seekVars>>

Begin == FlushStart \/ DemuxSeeks \/ Deactivate
Proceed ==
    \/ StopReader \/ DecideSeek \/ FlushStop \/ StopSource \/ SeekData
    \/ RestartSource \/ FallBack \/ StartReader \/ FlushData

Next == Source \/ Reader \/ Pull \/ Begin \/ Proceed

Spec == Init /\ [][Next]_vars

Fairness ==
    /\ WF_vars(Source) /\ WF_vars(Reader) /\ WF_vars(Monitor \/ RangeReady)
    /\ WF_vars(getrange \/ DemuxGoesOn) /\ WF_vars(Proceed)
FairSpec == Spec /\ Fairness
-----------------------------------------------------------------------------
Positions == 0..MaxTarget
Pending == {None, Eos} \cup {NewSegment(p) : p \in Positions}

\* The element's fields, the threads and the connection keep their types.
TypeOK ==
    /\ SourceTypeOK({"top", "segment", "read", "chain", "eos", "end"})
    /\ setup \in Setups /\ position \in Positions /\ update \in BOOLEAN
    /\ file \in Seq(Positions)
    /\ write_position \in 0..Len(file) /\ read_position \in Nat
    /\ cache_read_offset \in Positions
    /\ Start \in Positions /\ LastStop \in Positions
    /\ Stop \in Positions \cup {-1} /\ last_update \in Positions
    /\ eos \in BOOLEAN /\ signal_limit \in 0..EOS_SIGNAL_LIMIT
    /\ unexpected \in BOOLEAN /\ srcresult \in FlowReturn
    /\ instant_seek \in BOOLEAN /\ pending_src_event \in Pending
    /\ task \in {"none", "started", "paused", "stopped"}
    /\ rpc \in {"top", "wait", "woken", "push", "pushed"}
    /\ skip \in BOOLEAN /\ buffer \in Positions /\ result \in FlowReturn
    /\ range_start \in Positions \cup {NO_RANGE_REQUEST}
    /\ range_stop \in Positions \cup {NO_RANGE_REQUEST}
    /\ mpc \in {"none", "check", "wait", "notify", "ended"}
    /\ dpc \in {"none", "pull", "check", "pausing", "paused", "done", "error",
                "stopped"}
    /\ wanted \in Positions /\ got \in Positions \cup {-1}
    /\ kpc \in {"idle", "stop", "lock", "flush_stop", "source",
                "source_lock", "resume", "refused", "fall_back", "announce",
                "start", "join", "closed"}
    /\ target \in Positions /\ seeks \in 0..MaxSeeks
    /\ srcFlushing \in BOOLEAN /\ next \in Positions /\ announced \in Nat
    /\ ended \in BOOLEAN
    /\ late \in BOOLEAN /\ failed \in BOOLEAN /\ refused \in BOOLEAN

\* The blocks before write_position are those of the run that the source
\* downloads, each at its place.  Excepted is a source whose newsegment
\* event met an EOS of before its seek, or began at the end of the media,
\* until a later one restarts the cache and no block of the old one is about
\* to be pushed.
CacheHoldsRun ==
    ~refused =>
        \A i \in 1..write_position : file[i] = cache_read_offset + i - 1

\* The chain function never gets a block behind the end of the segment:
\* "This must never happen."  A closed element has no segment.  Excepted is a
\* source whose newsegment event the buffer did not take: the segment is then
\* still the one of before.
MustNeverHappen ==
    spc = "chain" /\ ~eos /\ ~unexpected /\ ~refused /\ kpc # "closed" =>
        position < Stop

\* A range that getrange takes for cached is: the demuxer finds the block it
\* asks for at the place of its position.  Excepted is a cache that does not
\* begin at 0.
RangeHasData ==
    \A p \in 0..(Size - 1) :
        InCache(p) /\ Stop >= p + 1 /\ cache_read_offset = 0 /\ ~refused =>
            BlockAt(p) = p

\* The demuxer in push mode gets the blocks in order, announced after each
\* flush.  Excepted are seeks that the server refused, for a target before
\* the beginning of the cache or while the newsegment event of an earlier seek
\* was under way (`failed'), and what is read behind a newsegment event that
\* the buffer did not take, because it met the EOS of before its seek or began
\* at the end of the media (`refused').
OS == INSTANCE OrderedStream WITH
        expected <- next,
        announced <- IF seeks = 0 THEN announced + 1 ELSE announced
InOrder == [][OS!OSNext \/ failed \/ refused]_<<next, announced, seeks>>

\* The first newsegment event after a seek is the one of that seek.  Excepted
\* is one that an earlier seek left under way in the source and that met the
\* seek before its own connection was moved.
SeekWins == [][announced = 0 /\ announced' = 1 => next' = target \/ late]_vars

\* The reader waits for data and the source has stopped to send any.
ReaderStarves == rpc = "wait" /\ source_task = "paused"

\* That happens only behind a download that ended before the stated size, a
\* push that was answered with UNEXPECTED, a refused seek or newsegment event,
\* or a seek to the end of the media or beyond it, until the next seek has
\* stopped the reader: the reader of a complete download finds EOS to send
\* instead.
CompleteIsFinished ==
    ReaderStarves /\ kpc # "stop" =>
        \/ setup.available < Size \/ unexpected \/ failed \/ refused
        \/ target >= Size

\* The cache and its users in one invariant: typed fields, a cache that holds
\* the run being downloaded, no block behind the segment, ranges with their
\* data, and no reader left waiting behind a complete download.
CacheConsistent ==
    TypeOK /\ CacheHoldsRun /\ MustNeverHappen /\ RangeHasData
    /\ CompleteIsFinished

\* The reader came out of a push, whose result replaced the srcresult that
\* told it to stop, and waits again.
StopForgotten == ReaderStarves /\ srcresult = "OK"

\* A seek, or a close, ends: it gets the reader and the monitor out of any
\* wait.  Excepted is a stop that the reader forgot.
CallsReturn == kpc # "idle" ~> kpc \in {"idle", "closed"} \/ StopForgotten

\* Left alone after the last seek, the demuxer in push mode gets EOS.
EosDelivered ==
    <>[](kpc = "idle" /\ ~setup.pull /\ ~ReaderStarves) => <>[]ended

\* In pull mode the demuxer that paused for a range that was not there is
\* told to ask again.  Excepted is a monitor that met EOS when no range was
\* asked for and ended.
RangeAnswered == dpc = "paused" ~> dpc # "paused" \/ mpc = "ended"
=============================================================================
