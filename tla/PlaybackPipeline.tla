-------------------------- MODULE PlaybackPipeline --------------------------
(***************************************************************************)
(* CGstAudioPlaybackPipeline: the player's state machine.                  *)
(*                                                                         *)
(* The player keeps a state of its own (Unknown, Ready, Playing, Paused,   *)
(* Stopped, Stalled, Finished, Error) beside the state of the GStreamer    *)
(* pipeline.  Calls of the application (Play, Pause, Stop, Seek, SetRate)  *)
(* and of the media pulse thread (Finish) only ask the pipeline for a      *)
(* state and leave a note, m_PlayerPendingState; the answer is a message   *)
(* on the bus, and the main loop thread interprets it with the note in     *)
(* UpdatePlayerState.  The same thread pauses the pipeline when the        *)
(* download falls behind and resumes it when enough data has come.         *)
(*                                                                         *)
(* m_StateLock guards every single access, not the calls as a whole: one   *)
(* action below is one locked section, or one gst_element_set_state.       *)
(*                                                                         *)
(* External: the GStreamer pipeline (gst, time, played) and the download   *)
(* behind the progress buffers (pos, complete), as the code uses them.     *)
(***************************************************************************)
EXTENDS BusCallbackContent, Integers, Sequences

CONSTANTS
    HLSModes,       \* the values of GetHLSModeEnabled to explore
    Duration,       \* length of the media, in blocks
    ResumeDelta,    \* m_dResumeDeltaTime, in blocks
    CacheSize,      \* blocks the HLS buffer holds before it is FULL
    Calls,          \* the calls the application makes
    MaxCalls,       \* how many calls are made
    MaxUnderruns,   \* how often the reader runs out of data
    MaxFaults,      \* how many fatal errors GStreamer reports
    WithDispose     \* the media is deleted at some time

ASSUME DurationAssumption == Duration \in Nat \ {0} /\ CacheSize \in Nat \ {0}
ASSUME CallsAssumption ==
    Calls \subseteq {"play", "pause", "stop", "seek", "rate0", "rate1", "finish"}
ASSUME BoundsAssumption ==
    /\ HLSModes \subseteq BOOLEAN /\ ResumeDelta \in Nat
    /\ MaxCalls \in Nat /\ MaxUnderruns \in Nat /\ MaxFaults \in Nat

VARIABLES
    m_PlayerState, m_PlayerPendingState, m_bSeekInvoked, m_StallOnPause,
    m_fRate, m_bResumePlayOnNonzeroRate, m_BufferPosition,
    m_bLastProgressValueEOS, m_bHLSPBFull, m_bHLSModeEnabled,
    gst,        \* the GStreamer pipeline: its state, pending and target state
    messages,   \* the bus
    msg,        \* the message being handled
    pos,        \* blocks downloaded
    complete,   \* the source has ended
    full,       \* the HLS source waits for a free segment
    time,       \* blocks rendered
    played,     \* the sinks have posted EOS
    pc,         \* where each thread is
    then,       \* where it continues after a nested call
    resume,     \* SetRate's local variable
    calls, underruns, faults,   \* bounds
    asked,      \* the last call that has begun; a seek counts when it is
                \* to restart a finished player
    crossed     \* how calls and messages have crossed so far (see Crossings)

player == <<m_PlayerState, m_PlayerPendingState, m_bSeekInvoked,
            m_StallOnPause>>
rate == <<m_fRate, m_bResumePlayOnNonzeroRate, resume>>
buffer == <<m_BufferPosition, m_bLastProgressValueEOS, m_bHLSPBFull>>
source == <<pos, complete, full, time, played, underruns>>
count == <<calls, faults, asked>>
threads == <<pc, then, msg>>
mvars == <<player, rate, buffer, m_bHLSModeEnabled, gst, messages, source,
           threads, count, crossed>>
vars == <<dvars, mvars>>

PlayerStates == {"Unknown", "Ready", "Playing", "Paused", "Stopped", "Stalled",
                 "Finished", "Error"}
GstStates == {"NULL", "READY", "PAUSED", "PLAYING"}
Threads == {"app", "pulse", "bus"}
Steps == {"idle", "play", "setPlaying", "pauseTest", "pauseMark", "stopTest",
          "stopMark", "internalPause", "setPaused", "finishTest", "seekTest",
          "seekPipeline", "seekResume", "rateZero", "rateStore", "rateSeek",
          "stall", "update", "done"}
Messages ==
    [type : {"STATE"}, old : GstStates, new : GstStates]
    \cup [type : {"PROGRESS"}, pos : 0..Duration, eos : BOOLEAN]
    \cup [type : {"EOS", "ERROR", "UNDERRUN", "HLS_STALL", "HLS_RESUME",
                  "HLS_EOS", "HLS_FULL", "HLS_NOT_FULL"}]
\* Calls and messages cross in these ways, which the code does not allow
\* for; the properties say what holds as long as they have not:
\*   resume  the bus thread resumes a player that has been paused or stopped
\*           since it decided to
\*   pause   a stalled player is declared paused while its pipeline resumes
\*           (see PlayAhead)
\*   stall   the bus thread suspends a pipeline that is not playing any more
\*   finish  the pulse thread does
\*   note    a note is left which no message will answer, or play is asked
\*           of a pipeline that has not answered one
\*   eos     the end of the stream is handled after a seek or a pause
\*   refused a call returns because of the state the player is still in: a
\*           play or pause finds it Finished though a seek has restarted the
\*           pipeline or a stop paused it, a pause or stop finds it Paused
\*           or Stopped though the pipeline plays
\*   error   a call starts the pipeline again that an error has torn down
\*   stale   an older change of state is taken for the answer to a note or
\*           for the stall that has been asked for (see AnswerAhead)
\*   kept    a Finished player hears that its pipeline has paused and keeps
\*           its note, which turns a later stall into a pause
Crossings == {"resume", "pause", "stall", "finish", "note", "eos", "refused",
              "stale", "kept", "error"}

NoMessage == [type |-> "NONE"]

TypeOK ==
    /\ DisposeTypeOK
    /\ m_PlayerState \in PlayerStates
    /\ m_PlayerPendingState \in {"Unknown", "Paused", "Stopped"}
    /\ m_bSeekInvoked \in BOOLEAN
    /\ m_StallOnPause \in BOOLEAN
    /\ m_fRate \in {0, 1}
    /\ m_bResumePlayOnNonzeroRate \in BOOLEAN
    /\ m_BufferPosition \in 0..Duration
    /\ m_bLastProgressValueEOS \in BOOLEAN
    /\ m_bHLSPBFull \in BOOLEAN
    /\ m_bHLSModeEnabled \in HLSModes
    /\ gst \in [state : GstStates, pending : GstStates \cup {"VOID"},
                target : GstStates]
    /\ messages \in Seq(Messages)
    /\ msg \in Messages \cup {NoMessage}
    /\ pos \in 0..Duration
    /\ complete \in BOOLEAN
    /\ full \in BOOLEAN
    /\ time \in 0..Duration
    /\ played \in BOOLEAN
    /\ pc \in [Threads -> Steps]
    /\ then \in [Threads -> Steps]
    /\ resume \in BOOLEAN
    /\ calls \in 0..MaxCalls
    /\ underruns \in 0..MaxUnderruns
    /\ faults \in 0..MaxFaults
    /\ asked \in Calls \cup {"none", "seek"}
    /\ crossed \subseteq Crossings

\* Init of the class: the watch is attached and the pipeline told to pause,
\* which is to complete asynchronously.
Init ==
    /\ DisposeInit
    /\ m_PlayerState = "Unknown"
    /\ m_PlayerPendingState = "Unknown"
    /\ m_bSeekInvoked = FALSE
    /\ m_StallOnPause = FALSE
    /\ m_fRate = 1
    /\ m_bResumePlayOnNonzeroRate = FALSE
    /\ m_BufferPosition = 0
    /\ m_bLastProgressValueEOS = FALSE
    /\ m_bHLSPBFull = FALSE
    /\ m_bHLSModeEnabled \in HLSModes
    /\ gst = [state |-> "READY", pending |-> "PAUSED", target |-> "PAUSED"]
    /\ messages = <<>>
    /\ msg = NoMessage
    /\ pos = 0 /\ complete = FALSE /\ full = FALSE
    /\ time = 0 /\ played = FALSE
    /\ pc = [t \in Threads |-> "idle"]
    /\ then = [t \in Threads |-> IF t = "bus" THEN "done" ELSE "idle"]
    /\ resume = FALSE
    /\ calls = 0 /\ underruns = 0 /\ faults = 0
    /\ asked = "none" /\ crossed = {}

-----------------------------------------------------------------------------
(* The GStreamer pipeline.  A change of state is asynchronous (pending is  *)
(* not VOID) until the sinks hold a buffer; meanwhile a new request only   *)
(* replaces the target.  Messages with a further pending state are left    *)
(* out: BusCallback ignores them.                                          *)

StateChanged(old, new) == [type |-> "STATE", old |-> old, new |-> new]
Message(type) == [type |-> type]

\* The bus is flushing while the pipeline is in NULL.
Post(ms) == messages' = IF gst.state = "NULL" THEN messages ELSE messages \o ms

\* gst_element_set_state(PLAYING)
RequestPlaying ==
    \/ /\ gst.pending # "VOID"
       /\ gst' = [gst EXCEPT !.pending = "PLAYING", !.target = "PLAYING"]
       /\ UNCHANGED messages
    \/ /\ gst.pending = "VOID" /\ gst.state = "PAUSED"
       /\ gst' = [gst EXCEPT !.state = "PLAYING", !.target = "PLAYING"]
       /\ Post(<<StateChanged("PAUSED", "PLAYING")>>)
    \/ /\ gst.pending = "VOID" /\ gst.state = "PLAYING"
       /\ UNCHANGED <<gst, messages>>
    \/ /\ gst.pending = "VOID" /\ gst.state = "NULL"
       /\ gst' = [state |-> "READY", pending |-> "PLAYING",
                  target |-> "PLAYING"]
       /\ UNCHANGED messages

\* gst_element_set_state(PAUSED): a sink that holds no buffer pauses
\* asynchronously.
RequestPaused ==
    \/ /\ gst.pending # "VOID"
       /\ gst' = [gst EXCEPT !.pending = "PAUSED", !.target = "PAUSED"]
       /\ UNCHANGED messages
    \/ /\ gst.pending = "VOID" /\ gst.state = "PAUSED"
       /\ UNCHANGED <<gst, messages>>
    \/ /\ gst.pending = "VOID" /\ gst.state = "PLAYING"
       /\ \/ /\ gst' = [gst EXCEPT !.state = "PAUSED", !.target = "PAUSED"]
             /\ Post(<<StateChanged("PLAYING", "PAUSED")>>)
          \/ /\ gst' = [gst EXCEPT !.pending = "PAUSED", !.target = "PAUSED"]
             /\ UNCHANGED messages
    \/ /\ gst.pending = "VOID" /\ gst.state = "NULL"
       /\ gst' = [state |-> "READY", pending |-> "PAUSED",
                  target |-> "PAUSED"]
       /\ UNCHANGED messages

\* gst_element_set_state(NULL) flushes the bus.
NullPipeline == [state |-> "NULL", pending |-> "VOID", target |-> "NULL"]

\* The sinks have got a buffer, or the end of the stream.
AsyncDone ==
    /\ gst.pending # "VOID"
    /\ time < pos \/ complete
    /\ gst' = [gst EXCEPT !.state = gst.target, !.pending = "VOID"]
    /\ Post(IF gst.target = "PAUSED"
              THEN <<StateChanged(gst.state, "PAUSED")>>
              ELSE <<StateChanged("PAUSED", "PLAYING")>>)
    /\ UNCHANGED <<dvars, player, rate, buffer, m_bHLSModeEnabled, source, threads,
                   count, crossed>>

\* A flushing seek: the pipeline loses its state and prerolls again.  The
\* HLS buffer is emptied and loaded again from the new position; it does
\* not say so on the bus.
FlushingSeek ==
    /\ gst' = IF gst.pending # "VOID" THEN gst
              ELSE [gst EXCEPT !.state = "PAUSED", !.pending = "PAUSED"]
    /\ time' = 0
    /\ played' = FALSE
    /\ IF m_bHLSModeEnabled
         THEN pos' = 0 /\ complete' = FALSE /\ full' = FALSE
         ELSE UNCHANGED <<pos, complete, full>>
    /\ UNCHANGED <<messages, underruns>>

IsPlaying == gst.state = "PLAYING" /\ gst.pending = "VOID"

\* A block is rendered; in HLS mode it frees its segment.
Render ==
    /\ IsPlaying
    /\ time < pos
    /\ time' = time + 1
    /\ full' = FALSE
    /\ IF m_bHLSModeEnabled THEN Post(<<Message("HLS_NOT_FULL")>>)
                            ELSE UNCHANGED messages
    /\ UNCHANGED <<dvars, player, rate, buffer, m_bHLSModeEnabled, gst, pos,
                   complete, played, underruns, threads, count, crossed>>

\* The sinks reach the end of the stream.
EndOfStream ==
    /\ IsPlaying
    /\ complete /\ time = pos /\ ~played
    /\ played' = TRUE
    /\ Post(<<Message("EOS")>>)
    /\ UNCHANGED <<dvars, player, rate, buffer, m_bHLSModeEnabled, gst, pos,
                   complete, full, time, underruns, threads, count, crossed>>

\* The download delivers a block, fills the HLS buffer, or ends.
Download ==
    /\ gst.state # "NULL"
    /\ \/ /\ pos < Duration
          /\ ~(m_bHLSModeEnabled /\ pos - time >= CacheSize)
          /\ pos' = pos + 1
          /\ Post(<<IF m_bHLSModeEnabled THEN Message("HLS_RESUME")
                    ELSE [type |-> "PROGRESS", pos |-> pos + 1,
                          eos |-> FALSE]>>)
          /\ UNCHANGED <<complete, full>>
       \/ /\ m_bHLSModeEnabled /\ pos < Duration
          /\ pos - time >= CacheSize /\ ~full
          /\ full' = TRUE
          /\ Post(<<Message("HLS_FULL")>>)
          /\ UNCHANGED <<pos, complete>>
       \/ /\ pos = Duration /\ ~complete
          /\ complete' = TRUE
          /\ Post(<<IF m_bHLSModeEnabled THEN Message("HLS_EOS")
                    ELSE [type |-> "PROGRESS", pos |-> pos, eos |-> TRUE]>>)
          /\ UNCHANGED <<pos, full>>
    /\ UNCHANGED <<dvars, player, rate, buffer, m_bHLSModeEnabled, gst, time,
                   played, underruns, threads, count, crossed>>

\* The reader has taken everything downloaded so far.
Underrun ==
    /\ gst.state # "NULL"
    /\ underruns < MaxUnderruns
    /\ ~complete
    /\ underruns' = underruns + 1
    /\ Post(<<Message(IF m_bHLSModeEnabled THEN "HLS_STALL" ELSE "UNDERRUN")>>)
    /\ UNCHANGED <<dvars, player, rate, buffer, m_bHLSModeEnabled, gst, pos,
                   complete, full, time, played, threads, count, crossed>>

\* GStreamer reports a fatal error.
Fault ==
    /\ gst.state # "NULL"
    /\ faults < MaxFaults
    /\ faults' = faults + 1
    /\ Post(<<Message("ERROR")>>)
    /\ UNCHANGED <<dvars, player, rate, buffer, m_bHLSModeEnabled, gst, source,
                   threads, calls, asked, crossed>>

Pipeline == AsyncDone \/ Render \/ EndOfStream \/ Download \/ Underrun \/ Fault

-----------------------------------------------------------------------------
(* Threads: a step goes on, calls a nested function, or returns.           *)

Goto(t, step) == pc' = [pc EXCEPT ![t] = step] /\ UNCHANGED <<then, msg>>

Enter(t, step, cont) ==
    /\ pc' = [pc EXCEPT ![t] = step]
    /\ then' = [then EXCEPT ![t] = cont]
    /\ UNCHANGED msg

Return(t) ==
    /\ pc' = [pc EXCEPT ![t] = then[t]]
    /\ then' = [then EXCEPT ![t] = IF t = "bus" THEN "done" ELSE "idle"]
    /\ UNCHANGED msg

Cross(how, when) ==
    crossed' = IF when THEN crossed \cup {how} ELSE crossed

\* What the calls of the application and of the pulse leave alone.
KeepRest == UNCHANGED <<dvars, buffer, m_bHLSModeEnabled, count>>
KeepMedia == KeepRest /\ UNCHANGED crossed
KeepStream == UNCHANGED <<gst, messages, source>>

\* A pipeline in NULL has no streaming threads; setting its state starts them.
Restarts == IF gst.state = "NULL" THEN PipelineRestarts ELSE UNCHANGED dvars

NothingAsked == m_PlayerPendingState \notin {"Paused", "Stopped"}

-----------------------------------------------------------------------------
(* Play.                                                                   *)

\* A player that believes it is playing looks whether the pipeline is.
ReadyToPlay ==
    \/ m_PlayerState \notin {"Finished", "Error", "Playing"}
    \/ /\ m_PlayerState = "Playing"
       /\ gst.state = "PAUSED" \/ gst.pending = "PAUSED"

Play(t) ==
    /\ pc[t] = "play"
    /\ IF ReadyToPlay /\ m_fRate # 0 THEN Goto(t, "setPlaying") ELSE Return(t)
    /\ m_bResumePlayOnNonzeroRate' =
           (m_bResumePlayOnNonzeroRate \/ (ReadyToPlay /\ m_fRate = 0))
    /\ Cross("refused", m_PlayerState = "Finished" /\ ~NothingAsked)
    /\ UNCHANGED <<player, m_fRate, resume>>
    /\ KeepRest /\ KeepStream

SetPlaying(t) ==
    /\ pc[t] = "setPlaying"
    /\ RequestPlaying
    /\ Return(t)
    /\ Restarts
    /\ IF gst.state = "NULL" THEN Cross("error", TRUE)
       ELSE IF t = "bus"
         THEN Cross("resume", \/ m_PlayerState \notin {"Stalled", "Playing"}
                              \/ ~NothingAsked)
         ELSE Cross("note", gst.pending # "VOID" /\ ~NothingAsked)
    /\ UNCHANGED <<player, rate, source, buffer, m_bHLSModeEnabled, count>>

-----------------------------------------------------------------------------
(* Pause, Stop, Finish.                                                    *)

\* The player is to hear yet that the pipeline plays.
PlayAhead ==
    \/ gst.target = "PLAYING"
    \/ /\ pc["bus"] # "done"
       /\ msg.type = "STATE" /\ msg.new = "PLAYING"
    \/ \E i \in DOMAIN messages :
          messages[i].type = "STATE" /\ messages[i].new = "PLAYING"

PauseTest(t) ==
    /\ pc[t] = "pauseTest"
    /\ IF m_PlayerState \in {"Paused", "Error"} THEN Return(t)
                                              ELSE Goto(t, "pauseMark")
    /\ Cross("refused", m_PlayerState = "Paused" /\ PlayAhead)
    /\ UNCHANGED <<player, rate>>
    /\ KeepRest /\ KeepStream

\* A stopped or stalled pipeline is paused already.
PauseMark(t) ==
    /\ pc[t] = "pauseMark"
    /\ IF m_PlayerState \in {"Stopped", "Stalled"}
         THEN /\ m_PlayerState' = "Paused"
              /\ Cross("pause", PlayAhead)
              /\ UNCHANGED m_PlayerPendingState
              /\ Return(t)
         ELSE /\ m_PlayerPendingState' = "Paused"
              /\ Cross("note", m_PlayerState \in {"Ready", "Paused"})
              /\ UNCHANGED m_PlayerState
              /\ Goto(t, "internalPause")
    /\ UNCHANGED <<m_bSeekInvoked, m_StallOnPause, rate>>
    /\ KeepRest /\ KeepStream

StopTest(t) ==
    /\ pc[t] = "stopTest"
    /\ IF m_PlayerState \in {"Stopped", "Error"} \/ m_fRate = 0
         THEN Return(t) ELSE Goto(t, "stopMark")
    /\ m_bResumePlayOnNonzeroRate' =
           /\ m_bResumePlayOnNonzeroRate
           /\ m_PlayerState \in {"Stopped", "Error"} \/ m_fRate # 0
    /\ Cross("refused", m_PlayerState = "Stopped" /\ PlayAhead)
    /\ UNCHANGED <<player, m_fRate, resume>>
    /\ KeepRest /\ KeepStream

StopMark(t) ==
    /\ pc[t] = "stopMark"
    /\ m_PlayerPendingState' = "Stopped"
    /\ Cross("note", m_PlayerState \in {"Ready", "Stopped"})
    /\ Goto(t, "internalPause")
    /\ UNCHANGED <<m_PlayerState, m_bSeekInvoked, m_StallOnPause, rate>>
    /\ KeepRest /\ KeepStream

FinishTest(t) ==
    /\ pc[t] = "finishTest"
    /\ IF m_PlayerState = "Playing" THEN Goto(t, "internalPause") ELSE Return(t)
    /\ UNCHANGED <<player, rate>>
    /\ KeepMedia /\ KeepStream

InternalPause(t) ==
    /\ pc[t] = "internalPause"
    /\ LET ready == /\ \/ m_PlayerState # "Finished" \/ m_bSeekInvoked
                       \/ m_PlayerPendingState = "Stopped"
                    /\ m_PlayerState # "Error"
       IN  /\ IF ready /\ m_fRate # 0 THEN Goto(t, "setPaused") ELSE Return(t)
           /\ m_bResumePlayOnNonzeroRate' =
                  (m_bResumePlayOnNonzeroRate /\ ~(ready /\ m_fRate = 0))
           /\ Cross("refused", ~ready /\ ~NothingAsked)
    /\ m_bSeekInvoked' = FALSE
    /\ UNCHANGED <<m_PlayerState, m_PlayerPendingState, m_StallOnPause, m_fRate,
                   resume>>
    /\ KeepRest /\ KeepStream

SetPaused(t) ==
    /\ pc[t] = "setPaused"
    /\ RequestPaused
    /\ Return(t)
    /\ Restarts
    /\ IF gst.state = "NULL" THEN Cross("error", TRUE)
       ELSE IF t = "bus" THEN Cross("stall", ~IsPlaying)
                         ELSE Cross("finish", t = "pulse" /\ ~IsPlaying)
    /\ UNCHANGED <<player, rate, source, buffer, m_bHLSModeEnabled, count>>

\* The change of state fails, which GStreamer also reports on the bus: Pause
\* and Stop take their note back, and Java abandons the call.
PauseFails(t) ==
    /\ pc[t] = "setPaused"
    /\ faults < MaxFaults
    /\ gst.state # "NULL"
    /\ faults' = faults + 1
    /\ Post(<<Message("ERROR")>>)
    /\ IF t = "app"
         THEN /\ m_PlayerPendingState' = "Unknown"
              /\ Enter(t, "idle", "idle")
         ELSE /\ UNCHANGED m_PlayerPendingState
              /\ Return(t)
    /\ UNCHANGED <<dvars, m_PlayerState, m_bSeekInvoked, m_StallOnPause, rate,
                   buffer, m_bHLSModeEnabled, gst, source, calls, asked,
                   crossed>>

-----------------------------------------------------------------------------
(* Seek and SetRate.                                                       *)

SeekTest(t) ==
    /\ pc[t] = "seekTest"
    /\ m_bSeekInvoked' = (m_bSeekInvoked \/ m_PlayerState = "Finished")
    /\ IF m_PlayerState \in {"Unknown", "Error"} THEN Return(t)
                                               ELSE Goto(t, "seekPipeline")
    /\ UNCHANGED <<m_PlayerState, m_PlayerPendingState, m_StallOnPause, rate>>
    /\ KeepMedia /\ KeepStream

\* GStreamer refuses a rate of zero, and a pipeline that is not prerolled.
CanSeek == gst.state \in {"PAUSED", "PLAYING"}

SeekPipeline(t) ==
    /\ pc[t] = "seekPipeline"
    /\ IF CanSeek /\ m_fRate # 0
         THEN FlushingSeek /\ Goto(t, "seekResume")
         ELSE KeepStream /\ Return(t)
    /\ asked' = IF m_PlayerState = "Finished" /\ asked # "stop" THEN "seek"
                ELSE asked
    /\ UNCHANGED <<dvars, player, rate, buffer, m_bHLSModeEnabled, calls,
                   faults, crossed>>

\* Mutant: a stop is not respected.
SeekResumeAlways(t) ==
    /\ pc[t] = "seekResume"
    /\ IF m_PlayerState = "Finished"
         THEN Goto(t, "setPlaying") ELSE Return(t)
    /\ UNCHANGED <<player, rate>>
    /\ KeepMedia /\ KeepStream

SeekResume(t) ==
    /\ pc[t] = "seekResume"
    /\ IF m_PlayerState = "Finished" /\ m_PlayerPendingState # "Stopped"
         THEN Goto(t, "setPlaying") ELSE Return(t)
    /\ UNCHANGED <<player, rate>>
    /\ KeepMedia /\ KeepStream

\* SetRate(0) pauses and remembers whether the media was playing.
RateZero(t) ==
    /\ pc[t] = "rateZero"
    /\ IF m_PlayerState = "Error" \/ m_fRate = 0
         THEN Return(t) /\ UNCHANGED resume
         ELSE /\ resume' = (gst.state = "PLAYING" \/ m_PlayerState = "Stalled")
              /\ Enter(t, "pauseTest", "rateStore")
    /\ UNCHANGED <<player, m_fRate, m_bResumePlayOnNonzeroRate>>
    /\ KeepMedia /\ KeepStream

RateStore(t) ==
    /\ pc[t] = "rateStore"
    /\ m_fRate' = 0
    /\ m_bResumePlayOnNonzeroRate' = resume
    /\ Return(t)
    /\ UNCHANGED <<player, resume>>
    /\ KeepMedia /\ KeepStream

\* SetRate to a rate that is not zero.  m_fRate is assigned before it is
\* compared with zero, so the Play that follows is never reached.
RateSeek(t) ==
    /\ pc[t] = "rateSeek"
    /\ IF m_PlayerState = "Error" \/ m_fRate = 1
         THEN UNCHANGED m_fRate /\ KeepStream
         ELSE /\ m_fRate' = 1
              /\ IF CanSeek THEN FlushingSeek ELSE KeepStream
    /\ Return(t)
    /\ UNCHANGED <<player, m_bResumePlayOnNonzeroRate, resume>>
    /\ KeepMedia

-----------------------------------------------------------------------------
(* Who makes the calls.  MediaPlayer passes none on before the player is   *)
(* Ready, nor once it is disposed of.  Java's stop is Stop, then Seek to   *)
(* the start time.                                                         *)

FirstStep(c) ==
    CASE c = "play" -> "play" [] c = "pause" -> "pauseTest"
      [] c = "stop" -> "stopTest" [] c = "seek" -> "seekTest"
      [] c = "rate0" -> "rateZero" [] c = "rate1" -> "rateSeek"

Call(c) ==
    /\ pc["app"] = "idle"
    /\ m_PlayerState # "Unknown"
    /\ dispose = "idle"
    /\ calls < MaxCalls
    /\ calls' = calls + 1
    /\ asked' = IF c = "seek" THEN asked ELSE c
    /\ Enter("app", FirstStep(c), IF c = "stop" THEN "seekTest" ELSE "idle")
    /\ UNCHANGED <<dvars, player, rate, buffer, m_bHLSModeEnabled, faults,
                   crossed>>
    /\ KeepStream

\* The media pulse thread finds the stop time reached.
StopTimeReached ==
    /\ pc["pulse"] = "idle"
    /\ m_PlayerState = "Playing"
    /\ dispose = "idle"
    /\ calls < MaxCalls /\ "finish" \in Calls
    /\ calls' = calls + 1
    /\ asked' = "finish"
    /\ Goto("pulse", "finishTest")
    /\ UNCHANGED <<dvars, player, rate, buffer, m_bHLSModeEnabled, faults,
                   crossed>>
    /\ KeepStream

\* One step of a call, on whichever thread.
CallStep(t) ==
    \/ Play(t) \/ SetPlaying(t) \/ PauseTest(t) \/ PauseMark(t)
    \/ StopTest(t) \/ StopMark(t) \/ FinishTest(t) \/ InternalPause(t)
    \/ SetPaused(t) \/ SeekTest(t) \/ SeekPipeline(t) \/ SeekResume(t)
    \/ RateZero(t) \/ RateStore(t) \/ RateSeek(t)

-----------------------------------------------------------------------------
(* BusCallback, on the main loop thread.                                   *)

TakeMessage ==
    /\ Dispatch
    /\ messages # <<>>
    /\ msg' = Head(messages)
    /\ messages' = Tail(messages)
    /\ UNCHANGED <<player, rate, buffer, m_bHLSModeEnabled, gst, source, pc,
                   then, count, crossed>>

Handling(type) == bus = "handling" /\ pc["bus"] = "idle" /\ msg.type = type

KeepBus == UNCHANGED <<dvars, m_bHLSModeEnabled, count, crossed>>

\* Mutant: a pipeline that returns to the state it had is ignored.
ConcernsChanges ==
    \/ msg.old # msg.new /\ m_PlayerState # "Unknown"
    \/ /\ m_PlayerState = "Unknown"
       /\ msg.old \in {"READY", "PAUSED"} /\ msg.new = "PAUSED"

\* Which changes of the pipeline's state concern the player.
Concerns ==
    \/ msg.old # msg.new /\ m_PlayerState # "Unknown"
    \/ /\ ~NothingAsked \/ m_StallOnPause
       /\ msg.old = "PAUSED" /\ msg.new = "PAUSED"
    \/ /\ m_PlayerState = "Unknown"
       /\ msg.old \in {"READY", "PAUSED"} /\ msg.new = "PAUSED"

\* UpdateBufferPosition is called here with the position known already.
HandleStateChanged ==
    /\ Handling("STATE")
    /\ IF ~Concerns THEN Goto("bus", "done")
       ELSE IF /\ msg.new = "PAUSED" /\ m_bLastProgressValueEOS
               /\ ~m_bHLSModeEnabled
               /\ m_PlayerState = "Stalled" /\ NothingAsked
         THEN Enter("bus", "play", "update")
         ELSE Goto("bus", "update")
    /\ UNCHANGED <<player, rate, buffer>>
    /\ KeepBus /\ KeepStream

\* What a pause of the pipeline means to a player that was playing.
PauseMeans(otherwise) ==
    IF m_PlayerPendingState = "Stopped" THEN "Stopped"
    ELSE IF m_PlayerPendingState = "Paused" THEN "Paused"
    ELSE IF m_StallOnPause THEN "Stalled" ELSE otherwise

\* The switch of UpdatePlayerState.
NewPlayerState ==
    LET change == <<msg.old, msg.new>>
        paused == msg.old = "PAUSED"
        state  == m_PlayerState
    IN  CASE state = "Unknown" /\ msg.new = "PAUSED" -> "Ready"
          [] state = "Ready" /\ change = <<"PAUSED", "PLAYING">> -> "Playing"
          [] state = "Playing" /\ change = <<"PLAYING", "PAUSED">> ->
                PauseMeans("Finished")
          [] state = "Playing" /\ change = <<"PAUSED", "PAUSED">> ->
                PauseMeans("Playing")
          [] state = "Paused" /\ paused /\ m_PlayerPendingState = "Stopped" ->
                "Stopped"
          [] state = "Stopped" /\ change = <<"PAUSED", "PAUSED">>
                /\ m_PlayerPendingState = "Paused" -> "Paused"
          [] /\ \/ state = "Paused" /\ m_PlayerPendingState # "Stopped"
                \/ state = "Stopped"
             /\ change = <<"PAUSED", "PLAYING">> -> "Playing"
          [] state = "Stalled" /\ change = <<"PAUSED", "PLAYING">> -> "Playing"
          [] state = "Stalled" /\ change = <<"PAUSED", "PAUSED">>
                /\ ~NothingAsked -> m_PlayerPendingState
          [] state = "Finished" /\ msg.new = "PAUSED"
                /\ m_PlayerPendingState = "Stopped" -> "Stopped"
          [] state = "Finished" /\ change = <<"PAUSED", "PLAYING">> -> "Playing"
          [] state = "Finished" /\ change = <<"PAUSED", "PAUSED">>
                /\ m_PlayerPendingState # "Stopped" -> "Paused"
          [] OTHER -> state

\* The answer to a note is still to come: the pipeline has not been told, is
\* changing its state, or has posted a later message.
AnswerAhead ==
    \/ pc["app"] \in {"internalPause", "setPaused"}
    \/ gst.pending # "VOID"
    \/ \E i \in DOMAIN messages : messages[i].type = "STATE"

\* How the change of state being handled is misread.
Misread ==
    {how \in {"stale", "kept"} :
       \/ /\ how = "stale" /\ AnswerAhead
          /\ ~NothingAsked \/ (m_StallOnPause /\ ~m_StallOnPause')
       \/ /\ how = "kept" /\ m_PlayerState = "Finished"
          /\ m_PlayerPendingState = "Paused" /\ msg.new = "PAUSED"}

\* Mutant: a stall is not ended when no more data is to come.
UpdatePlayerStateOnly ==
    /\ bus = "handling" /\ pc["bus"] = "update"
    /\ LET new     == NewPlayerState
           changed == new # m_PlayerState
           wake    == FALSE
       IN  /\ m_PlayerState' = new
           /\ m_PlayerPendingState' =
                  IF \/ changed /\ new = "Stopped"
                     \/ /\ changed /\ new = m_PlayerPendingState
                        /\ m_PlayerState # "Finished"
                    THEN "Unknown" ELSE m_PlayerPendingState
           /\ m_StallOnPause' =
                  (m_StallOnPause /\ ~(/\ m_PlayerState = "Playing"
                                      /\ new \in {"Stopped", "Stalled", "Paused"}))
           /\ m_bSeekInvoked' =
                  (m_bSeekInvoked /\ ~(m_PlayerState = "Finished" /\ changed))
           /\ m_bResumePlayOnNonzeroRate' =
                  (m_bResumePlayOnNonzeroRate \/ (wake /\ m_fRate = 0))
           /\ IF wake /\ m_fRate # 0 THEN RequestPlaying
                                     ELSE UNCHANGED <<gst, messages>>
    /\ Goto("bus", "done")
    /\ crossed' = crossed \cup Misread
    /\ UNCHANGED <<dvars, m_fRate, resume, buffer, m_bHLSModeEnabled, source,
                   count>>

\* UpdatePlayerState, and the Play that SetPlayerState adds when a stall
\* begins though no more data is to come.
UpdatePlayerState ==
    /\ bus = "handling" /\ pc["bus"] = "update"
    /\ LET new     == NewPlayerState
           changed == new # m_PlayerState
           wake    == /\ changed /\ new = "Stalled"
                      /\ m_bLastProgressValueEOS \/ m_bHLSPBFull
       IN  /\ m_PlayerState' = new
           /\ m_PlayerPendingState' =
                  IF \/ changed /\ new = "Stopped"
                     \/ /\ changed /\ new = m_PlayerPendingState
                        /\ m_PlayerState # "Finished"
                    THEN "Unknown" ELSE m_PlayerPendingState
           /\ m_StallOnPause' =
                  (m_StallOnPause /\ ~(/\ m_PlayerState = "Playing"
                                      /\ new \in {"Stopped", "Stalled", "Paused"}))
           /\ m_bSeekInvoked' =
                  (m_bSeekInvoked /\ ~(m_PlayerState = "Finished" /\ changed))
           /\ m_bResumePlayOnNonzeroRate' =
                  (m_bResumePlayOnNonzeroRate \/ (wake /\ m_fRate = 0))
           /\ IF wake /\ m_fRate # 0 THEN RequestPlaying
                                     ELSE UNCHANGED <<gst, messages>>
    /\ Goto("bus", "done")
    /\ crossed' = crossed \cup Misread
    /\ UNCHANGED <<dvars, m_fRate, resume, buffer, m_bHLSModeEnabled, source,
                   count>>

\* EOS leaves the player Finished; the pipeline goes on PLAYING.
HandleEOS ==
    /\ Handling("EOS")
    /\ m_PlayerState' = "Finished"
    /\ m_bLastProgressValueEOS' =
           /\ m_bLastProgressValueEOS
           /\ m_PlayerState = "Finished" \/ ~m_bHLSModeEnabled
    /\ Goto("bus", "done")
    /\ Cross("eos", ~played \/ ~IsPlaying \/ ~NothingAsked)
    /\ UNCHANGED <<dvars, m_PlayerPendingState, m_bSeekInvoked, m_StallOnPause,
                   rate, m_BufferPosition, m_bHLSPBFull, m_bHLSModeEnabled,
                   count>>
    /\ KeepStream

\* A fatal error: the pipeline is torn down once, with the lock held.
HandleError ==
    /\ Handling("ERROR")
    /\ IF m_PlayerState = "Error"
         THEN Goto("bus", "done") /\ UNCHANGED dvars
         ELSE ErrorStops /\ UNCHANGED threads
    /\ UNCHANGED <<player, rate, buffer, m_bHLSModeEnabled, count, crossed>>
    /\ KeepStream

TornDown ==
    /\ ErrorStopped
    /\ gst' = NullPipeline
    /\ messages' = <<>>
    /\ m_PlayerState' = "Error"
    /\ Goto("bus", "done")
    /\ UNCHANGED <<m_PlayerPendingState, m_bSeekInvoked, m_StallOnPause, rate,
                   buffer, m_bHLSModeEnabled, source, count, crossed>>

\* UpdateBufferPosition
HandleProgress ==
    /\ Handling("PROGRESS")
    /\ m_BufferPosition' = msg.pos
    /\ m_bLastProgressValueEOS' = msg.eos
    /\ IF /\ m_PlayerState = "Stalled" /\ NothingAsked
          /\ msg.pos - time > ResumeDelta \/ msg.eos
         THEN Goto("bus", "play") ELSE Goto("bus", "done")
    /\ UNCHANGED <<player, rate, m_bHLSPBFull>>
    /\ KeepBus /\ KeepStream

\* BufferUnderrun and HLSBufferStall, up to the decision to suspend.
HandleUnderrun ==
    /\ \/ /\ Handling("UNDERRUN")
          /\ IF /\ m_PlayerState \notin {"Stalled", "Ready", "Error", "Finished"}
                /\ m_BufferPosition > 0
                /\ gst.state = "PLAYING" /\ gst.pending # "PAUSED"
                /\ ~m_bLastProgressValueEOS
               THEN Goto("bus", "stall") ELSE Goto("bus", "done")
       \/ /\ Handling("HLS_STALL")
          /\ IF /\ m_PlayerState = "Playing"
                /\ IsPlaying
                /\ ~m_bLastProgressValueEOS /\ ~m_bHLSPBFull
               THEN Goto("bus", "stall") ELSE Goto("bus", "done")
    /\ UNCHANGED <<player, rate, buffer>>
    /\ KeepBus /\ KeepStream

Stall ==
    /\ pc["bus"] = "stall"
    /\ m_StallOnPause' = TRUE
    /\ Goto("bus", "internalPause")
    /\ UNCHANGED <<m_PlayerState, m_PlayerPendingState, m_bSeekInvoked, rate,
                   buffer>>
    /\ KeepBus /\ KeepStream

\* HLSBufferResume, and the FULL and NOT_FULL messages.
HandleHLSBuffer ==
    /\ \E type \in {"HLS_RESUME", "HLS_EOS", "HLS_FULL", "HLS_NOT_FULL"} :
          /\ Handling(type)
          /\ m_bHLSPBFull' = (type = "HLS_FULL"
                              \/ (m_bHLSPBFull /\ type # "HLS_NOT_FULL"))
          /\ m_bLastProgressValueEOS' =
                 (m_bLastProgressValueEOS \/ type = "HLS_EOS")
          /\ IF /\ type # "HLS_NOT_FULL"
                /\ NothingAsked
                /\ \/ m_PlayerState = "Stalled"
                   \/ m_bLastProgressValueEOS' /\ m_PlayerState = "Playing"
               THEN Goto("bus", "play") ELSE Goto("bus", "done")
    /\ UNCHANGED <<player, rate, m_BufferPosition>>
    /\ KeepBus /\ KeepStream

HandlerDone ==
    /\ HandlerReturns
    /\ pc["bus"] = "done"
    /\ pc' = [pc EXCEPT !["bus"] = "idle"]
    /\ msg' = NoMessage
    /\ UNCHANGED <<player, rate, buffer, m_bHLSModeEnabled, then, count, crossed>>
    /\ KeepStream

Bus ==
    \/ TakeMessage
    \/ (BusCallback \/ DropReference \/ BusCallbackDestroyNotify
           \/ FreeMeHere) /\ UNCHANGED mvars
    \/ HandleStateChanged \/ UpdatePlayerState \/ HandleEOS \/ HandleError
    \/ TornDown \/ HandleProgress \/ HandleUnderrun \/ Stall
    \/ HandleHLSBuffer \/ CallStep("bus") \/ HandlerDone

-----------------------------------------------------------------------------
(* Teardown, and the specification.                                        *)

Dispose ==
    \/ /\ CallDispose
       /\ WithDispose
       /\ pc["app"] = "idle" /\ pc["pulse"] = "idle"
       /\ UNCHANGED mvars
    \/ /\ StopPipeline
       /\ gst' = NullPipeline
       /\ messages' = <<>>
       /\ UNCHANGED <<player, rate, buffer, m_bHLSModeEnabled, source, threads,
                      count, crossed>>
    \/ /\ \/ MarkDisposeInProgress \/ EnterDisposeLock \/ DestroySource
          \/ FinishDispose \/ FreeContent \/ DeletePipeline
       /\ UNCHANGED mvars

\* Pads appear while the pipeline prerolls.
Pads ==
    /\ \/ PadAdded /\ gst.state = "READY"
       \/ OnParserSrcPadAdded \/ PadLinked
    /\ UNCHANGED mvars

App == (\E c \in Calls \ {"finish"} : Call(c)) \/ CallStep("app")
Pulse == StopTimeReached \/ CallStep("pulse")

Next ==
    \/ Pipeline \/ App \/ Pulse \/ (\E t \in Threads : PauseFails(t))
    \/ Bus \/ Dispose \/ Pads

Spec == Init /\ [][Next]_vars

\* The main loop, the threads inside a call, the streaming threads and the
\* download go on; calls, underruns and faults need not come.
FairSpec ==
    /\ Spec
    /\ WF_vars(Bus)
    /\ WF_vars(CallStep("app")) /\ WF_vars(CallStep("pulse"))
    /\ WF_vars(AsyncDone) /\ WF_vars(Render \/ EndOfStream) /\ WF_vars(Download)
    /\ WF_vars(OnParserSrcPadAdded /\ UNCHANGED mvars)
    /\ WF_vars(PadLinked /\ UNCHANGED mvars)
    /\ WF_vars(Dispose /\ dispose # "idle")

-----------------------------------------------------------------------------
(* Properties.                                                             *)

\* Nothing is under way: what is so now stays so until somebody calls.
Settled ==
    /\ messages = <<>> /\ bus = "idle" /\ dispose = "idle"
    /\ pc["app"] = "idle" /\ pc["pulse"] = "idle"
    /\ gst.pending = "VOID"

\* Once everything has settled the player's state and the pipeline's agree.
StatesAgree ==
    Settled /\ crossed \subseteq {"eos", "refused", "pause", "stall", "kept"} =>
      CASE m_PlayerState = "Playing" -> gst.state = "PLAYING"
        [] m_PlayerState \in {"Ready", "Paused", "Stopped", "Stalled"} ->
              gst.state = "PAUSED"
        [] OTHER -> TRUE

\* Typed fields, and states that agree once everything has settled.
PlayerConsistent == TypeOK /\ StatesAgree

\* Once everything has settled, what is heard is what the last call asked
\* for: a paused or stopped player is silent, a playing one plays unless it
\* waits for data or has reached the end.
LastCallWins ==
    Settled =>
      CASE asked \in {"pause", "stop"} ->
             \/ gst.state # "PLAYING"
             \/ crossed \ {"stall", "finish"} # {}
        [] asked = "play" ->
             \/ gst.state = "PLAYING"
             \/ m_PlayerState \in {"Stalled", "Finished", "Error"}
             \/ m_fRate = 0
             \/ crossed # {}
        [] OTHER -> TRUE

\* A stall ends: the main loop resumes the pipeline when data has come, or
\* when no more is to come, unless the media is deleted or a fatal error
\* meets a new pad.
StallEnds ==
    m_PlayerState = "Stalled" ~>
        m_PlayerState # "Stalled" \/ dispose # "idle" \/ ErrorMeetsPads

\* Dispose returns once it has been called, unless it waits for its lock
\* (line 355) behind the fatal error that meets a new pad: the handler stops
\* the pipeline with m_DisposeLock held (line 1169), the pad callback waits for
\* that lock, and all three threads hang.
DisposeReturns ==
    dispose # "idle" ~> dispose = "done" \/ (dispose = "called" /\ ErrorMeetsPads)

\* The record is not leaked: when Dispose has returned it has been freed, or
\* the bus thread still gets to do it.
ContentFreed == dispose = "done" ~> freed = 1

\* The teardown comes to its end on both threads: but for that deadlock the
\* call returns, and the record goes.
DisposeEnds == DisposeReturns /\ ContentFreed

\* The pipeline that Dispose has stopped is not started again before it is
\* released (line 400): no handler that was at work when Dispose was called, no
\* call that crossed it and no late message asks it for another state.
StoppedForGood ==
    dispose \notin {"idle", "called", "stopping"} =>
        gst = NullPipeline /\ messages = <<>>

\* The main loop, which all players share, gets back from every message but
\* for a fatal error that meets a new pad.
MainLoopGoesOn == bus # "idle" ~> bus \in {"idle", "gone"} \/ ErrorMeetsPads
=============================================================================
