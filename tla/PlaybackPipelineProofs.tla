----------------------- MODULE PlaybackPipelineProofs -----------------------
(***************************************************************************)
(* The player follows the dispose protocol whatever it plays: any length   *)
(* of media, any calls, any number of underruns and faults.  Its teardown  *)
(* is therefore as safe as the protocol.                                   *)
(*                                                                         *)
(* The second part shows that the player's state and the pipeline's agree  *)
(* once everything has settled.  The argument follows the messages the     *)
(* player has not heard of yet: they lead, one change after the other,     *)
(* from what it believes to where the pipeline is.                         *)
(*                                                                         *)
(* The third part, from "Whose call wins" on, shows that the last call     *)
(* decides what is heard.  A pause is kept because nobody starts a         *)
(* pipeline that is to be silent; a play because every note is answered    *)
(* before the call, and whoever suspends the pipeline after it says so.    *)
(***************************************************************************)
EXTENDS PlaybackPipeline, BusCallbackContentProofs

LEMMA PipelineKeepsRecord == Pipeline => UNCHANGED dvars
  BY DEF Pipeline, AsyncDone, Render, EndOfStream, Download, Underrun, Fault

LEMMA RestartsProtocol == Restarts => PadStep \/ UNCHANGED dvars
  BY DEF Restarts, PadStep

\* A call changes the record only when it starts a pipeline again that an
\* error has stopped.
LEMMA CallKeepsProtocol ==
  ASSUME NEW t \in Threads, CallStep(t)
  PROVE  PadStep \/ UNCHANGED dvars
<1> USE DEF KeepMedia, KeepRest
<1>1. CASE Play(t)
  BY <1>1 DEF Play
<1>2. CASE SetPlaying(t)
  BY <1>2, RestartsProtocol DEF SetPlaying
<1>3. CASE PauseTest(t)
  BY <1>3 DEF PauseTest
<1>4. CASE PauseMark(t)
  BY <1>4 DEF PauseMark
<1>5. CASE StopTest(t)
  BY <1>5 DEF StopTest
<1>6. CASE StopMark(t)
  BY <1>6 DEF StopMark
<1>7. CASE FinishTest(t)
  BY <1>7 DEF FinishTest
<1>8. CASE InternalPause(t)
  BY <1>8 DEF InternalPause
<1>9. CASE SetPaused(t)
  BY <1>9, RestartsProtocol DEF SetPaused
<1>10. CASE SeekTest(t)
  BY <1>10 DEF SeekTest
<1>11. CASE SeekPipeline(t)
  BY <1>11 DEF SeekPipeline
<1>12. CASE SeekResume(t)
  BY <1>12 DEF SeekResume
<1>13. CASE RateZero(t)
  BY <1>13 DEF RateZero
<1>14. CASE RateStore(t)
  BY <1>14 DEF RateStore
<1>15. CASE RateSeek(t)
  BY <1>15 DEF RateSeek
<1>16. QED
  BY <1>1, <1>2, <1>3, <1>4, <1>5, <1>6, <1>7, <1>8, <1>9, <1>10, <1>11,
     <1>12, <1>13, <1>14, <1>15 DEF CallStep

LEMMA BusKeepsProtocol == Bus => BusStep \/ PadStep \/ UNCHANGED dvars
<1> SUFFICES ASSUME Bus PROVE BusStep \/ PadStep \/ UNCHANGED dvars
  OBVIOUS
<1>1. CASE TakeMessage
  BY <1>1 DEF TakeMessage, BusStep
<1>2. CASE BusCallback \/ DropReference \/ BusCallbackDestroyNotify \/ FreeMeHere
  BY <1>2 DEF BusStep
<1>3. CASE HandleStateChanged \/ HandleProgress \/ HandleUnderrun \/ Stall
           \/ HandleHLSBuffer
  BY <1>3 DEF HandleStateChanged, HandleProgress, HandleUnderrun, Stall,
              HandleHLSBuffer, KeepBus
<1>4. CASE UpdatePlayerState \/ HandleEOS
  BY <1>4 DEF UpdatePlayerState, HandleEOS
<1>5. CASE HandleError
  BY <1>5 DEF HandleError, BusStep
<1>6. CASE TornDown
  BY <1>6 DEF TornDown, BusStep
<1>7. CASE CallStep("bus")
  BY <1>7, CallKeepsProtocol DEF Threads
<1>8. CASE HandlerDone
  BY <1>8 DEF HandlerDone, BusStep
<1>9. QED
  BY <1>1, <1>2, <1>3, <1>4, <1>5, <1>6, <1>7, <1>8 DEF Bus

LEMMA StepKeepsProtocol == [Next]_vars => [DisposeNext]_dvars
<1> SUFFICES ASSUME [Next]_vars PROVE DisposeNext \/ UNCHANGED dvars
  OBVIOUS
<1> USE DEF DisposeNext
<1>1. CASE Pipeline
  BY <1>1, PipelineKeepsRecord
<1>2. CASE App
  <2>1. ASSUME NEW c \in Calls \ {"finish"}, Call(c) PROVE UNCHANGED dvars
    BY <2>1 DEF Call
  <2>2. CASE CallStep("app")
    BY <2>2, CallKeepsProtocol DEF Threads
  <2>3. QED
    BY <1>2, <2>1, <2>2 DEF App
<1>3. CASE Pulse
  <2>1. CASE StopTimeReached
    BY <2>1 DEF StopTimeReached
  <2>2. CASE CallStep("pulse")
    BY <2>2, CallKeepsProtocol DEF Threads
  <2>3. QED
    BY <1>3, <2>1, <2>2 DEF Pulse
<1>4. CASE \E t \in Threads : PauseFails(t)
  BY <1>4 DEF PauseFails
<1>5. CASE Bus
  BY <1>5, BusKeepsProtocol
<1>6. CASE Dispose
  BY <1>6 DEF Dispose, DisposeStep
<1>7. CASE Pads
  BY <1>7 DEF Pads, PadStep
<1>8. CASE UNCHANGED vars
  BY <1>8 DEF vars
<1>9. QED
  BY <1>1, <1>2, <1>3, <1>4, <1>5, <1>6, <1>7, <1>8 DEF Next

\* Every behaviour of the player is one of the dispose protocol: no call, no
\* message and no fault touches the record, its lock or its flags otherwise.
THEOREM PlayerFollowsProtocol == Spec => DisposeProtocol
<1>1. Init => DisposeInit
  BY DEF Init
<1>2. QED
  BY <1>1, StepKeepsProtocol, PTL DEF Spec, DisposeProtocol

\* The player's record is freed once, when nobody needs it any more, and the
\* player is not deleted under a handler that works on it.
THEOREM PlayerRecordSafe == Spec => []RecordSafe
  BY PlayerFollowsProtocol, RecordIsSafe, PTL

-----------------------------------------------------------------------------
(* What the player and the pipeline know of each other.                    *)

\* Nobody deletes the media, and every note is answered by its own message.
Plain ==
    /\ dispose = "idle"
    /\ \A how \in {"resume", "note", "stale", "error"} : how \notin crossed

\* Nothing has crossed that the states depend on.
Calm == Plain /\ "finish" \notin crossed

\* Nothing has crossed that decides whether a pause is kept,
Soft == Plain /\ crossed \subseteq {"stall", "finish"}

\* or that decides whether the media plays.
Pure == Plain /\ crossed = {}

\* A fatal error has been reported; the player will be told, or has been.
Broken ==
    \/ m_PlayerState = "Error"
    \/ msg.type = "ERROR"
    \/ \E i \in 1..Len(messages) : messages[i].type = "ERROR"

\* What the player has not heard of yet: the message being handled, numbered
\* 0, then those in the queue.
News == 0..Len(messages)
After == Len(messages) + 1
talk ==
    [i \in News |-> IF i > 0 THEN messages[i]
                    ELSE IF pc["bus"] = "done" THEN NoMessage ELSE msg]

Still == {"Ready", "Paused", "Stopped", "Stalled"}

\* A player in state s can believe the pipeline in state x.
Fits(s, x) ==
    /\ s = "Playing" => x = "PLAYING"
    /\ s \in Still => x = "PAUSED"

\* None of the messages before number k tells of a change.
First(f, k) == \A i \in 0..(k - 1) : f[i].type # "STATE"

\* Number j is the last one before number k that tells of a change.
Before(f, j, k) ==
    f[j].type = "STATE" /\ \A i \in (j + 1)..(k - 1) : f[i].type # "STATE"

\* When the player comes to message k it will believe the pipeline in
\* state x, or in no state.
Believed(f, s, k, x) ==
    /\ First(f, k) => Fits(s, x)
    /\ \A j \in 0..(k - 1) : Before(f, j, k) => f[j].new = x

\* The player comes to message k as it was created.
Untold(f, s, k) ==
    /\ s = "Unknown"
    /\ \A i \in 0..(k - 1) : f[i].type \notin {"STATE", "EOS"}

Noted == m_PlayerPendingState \in {"Paused", "Stopped"}
Excused == Noted \/ m_StallOnPause
AppPauses == pc["app"] \in {"internalPause", "setPaused"}

\* Where the threads can be, and what they hold.
Control ==
    /\ pc["bus"] \in {"idle", "play", "setPlaying", "stall", "internalPause",
                      "setPaused", "update", "done"}
    /\ pc["app"] \notin {"finishTest", "stall", "update", "done"}
    /\ pc["pulse"] \in {"idle", "finishTest", "internalPause", "setPaused"}
    /\ then["app"] \in {"idle", "seekTest", "rateStore"}
    /\ then["pulse"] = "idle"
    /\ then["bus"] \in {"done", "update"}
    /\ then["bus"] = "update" =>
          msg.type = "STATE" /\ pc["bus"] \in {"play", "setPlaying"}
    /\ msg.type = "STATE" =>
          \/ pc["bus"] \in {"idle", "update", "done"}
          \/ pc["bus"] \in {"play", "setPlaying"} /\ then["bus"] = "update"
    /\ pc["bus"] = "update" => msg.type = "STATE"
    /\ msg.type = "ERROR" => pc["bus"] \in {"idle", "done"}
    /\ pc["app"] \in {"stopTest", "stopMark"} => then["app"] = "seekTest"
    /\ pc["app"] = "stopMark" => m_fRate # 0
    /\ pc["app"] # "idle" => m_PlayerState # "Unknown"
    /\ Noted => m_PlayerState # "Unknown"

\* The bus thread suspends the pipeline for a stall only.
Stalling == pc["bus"] \in {"internalPause", "setPaused"} => m_StallOnPause

\* A change of state under way has an end.
Changing ==
    IF gst.state = "NULL" THEN gst.pending = "VOID"
                          ELSE gst.target \in {"PAUSED", "PLAYING"}

\* The bus thread between two messages.
BusIdle ==
    /\ bus # "handling" => pc["bus"] = "idle"
    /\ bus = "stopping" => msg.type = "ERROR"
    /\ dispose = "idle" /\ bus \in {"idle", "returning"} => msg = NoMessage

\* An error has torn the pipeline down, and nothing comes any more.
Errors ==
    Plain =>
      /\ m_PlayerState = "Error" =>
            /\ gst.state = "NULL" /\ messages = <<>>
            /\ msg.type \in {"ERROR", "NONE"}
      /\ gst.state = "NULL" => m_PlayerState = "Error"
      /\ msg.type = "ERROR" /\ pc["bus"] = "done" => m_PlayerState = "Error"

\* A pipeline that changes nothing is where it was told to be.
Target ==
    gst.pending = "VOID" =>
        gst.state \in {"PAUSED", "PLAYING"} /\ gst.target = gst.state

\* The player does not hear anything before the pipeline has prerolled.
Birth ==
    /\ gst.state = "READY" => Untold(talk, m_PlayerState, After)
    /\ \A k \in News : talk[k].type = "STATE" /\ talk[k].old = "READY" =>
          Untold(talk, m_PlayerState, k)

\* The last message tells the state the pipeline is in.
LastTells ==
    gst.pending = "VOID" \/ gst.state = "PLAYING" =>
        Believed(talk, m_PlayerState, After, gst.state)

\* Each message begins where the one before it ends,
Changes == {<<"READY", "PAUSED">>, <<"PAUSED", "PLAYING">>,
            <<"PLAYING", "PAUSED">>, <<"PAUSED", "PAUSED">>}
Chain ==
    \A k \in News : talk[k].type = "STATE" =>
      /\ <<talk[k].old, talk[k].new>> \in Changes
      /\ talk[k].old = "PLAYING" => Believed(talk, m_PlayerState, k, "PLAYING")

\* but for a pipeline that prerolls after a seek: it plays, or a note says
\* why it is to pause.
Repeats ==
    \A k \in News :
      talk[k].type = "STATE" /\ talk[k].old = "PAUSED" /\ talk[k].new = "PAUSED" =>
        Excused \/ Believed(talk, m_PlayerState, k, "PAUSED")

Preroll ==
    gst.pending # "VOID" /\ gst.state = "PAUSED" /\ gst.target = "PAUSED" =>
        Excused \/ Believed(talk, m_PlayerState, After, "PAUSED")

\* A note is there until its answer has come,
NoteHeld ==
    /\ AppPauses => Noted
    /\ m_PlayerPendingState = "Stopped" =>
          /\ m_PlayerState \in {"Playing", "Paused", "Stalled", "Finished"}
          /\ AppPauses => then["app"] = "seekTest" /\ m_fRate # 0

\* and the answer to Stop's is on its way, or the seek that follows asks for
\* one.
TwoTell ==
    \E j, k \in News :
        j < k /\ talk[j].type = "STATE" /\ talk[k].type = "STATE"
Answered ==
    \/ gst.pending # "VOID" /\ gst.target = "PAUSED"
    \/ TwoTell
    \/ gst.pending = "VOID" /\ gst.state = "PAUSED" /\ ~First(talk, After)
Seeking ==
    /\ gst.pending = "VOID" /\ gst.state = "PAUSED"
    /\ pc["app"] \in {"seekTest", "seekPipeline"} /\ m_fRate # 0
AnswerComes == m_PlayerPendingState = "Stopped" => AppPauses \/ Answered \/ Seeking

Notes == NoteHeld /\ AnswerComes

Story ==
    Calm /\ ~Broken =>
        /\ Target /\ Birth /\ LastTells /\ Chain /\ Repeats /\ Preroll
        /\ Notes

IndInv ==
    /\ TypeOK /\ DisposeInv
    /\ Control /\ Stalling /\ Changing /\ BusIdle /\ Errors
    /\ Story

-----------------------------------------------------------------------------
(* The steps, one by one.                                                  *)

BusMoves ==
    /\ BusCallback \/ DropReference \/ BusCallbackDestroyNotify \/ FreeMeHere
    /\ UNCHANGED mvars

ThreadStep(t) ==
    \/ Play(t) \/ SetPlaying(t) \/ PauseTest(t) \/ PauseMark(t)
    \/ StopTest(t) \/ StopMark(t) \/ FinishTest(t) \/ InternalPause(t)
    \/ SetPaused(t) \/ SeekTest(t) \/ SeekPipeline(t) \/ SeekResume(t)
    \/ RateZero(t) \/ RateStore(t) \/ RateSeek(t) \/ PauseFails(t)

LEMMA NextCases ==
  ASSUME [Next]_vars
  PROVE  \/ AsyncDone \/ Render \/ EndOfStream \/ Download \/ Underrun \/ Fault
         \/ \E c \in Calls \ {"finish"} : Call(c)
         \/ StopTimeReached
         \/ \E t \in Threads : ThreadStep(t)
         \/ TakeMessage \/ BusMoves \/ HandleStateChanged \/ UpdatePlayerState
         \/ HandleEOS \/ HandleError \/ TornDown \/ HandleProgress
         \/ HandleUnderrun \/ Stall \/ HandleHLSBuffer \/ HandlerDone
         \/ Dispose \/ Pads \/ UNCHANGED vars
<1>1. "app" \in Threads /\ "pulse" \in Threads /\ "bus" \in Threads
  BY DEF Threads
<1>2. ASSUME NEW t \in Threads, CallStep(t)
      PROVE  \E u \in Threads : ThreadStep(u)
  BY <1>2, Zenon DEF CallStep, ThreadStep
<1>3. ASSUME NEW t \in Threads, PauseFails(t)
      PROVE  \E u \in Threads : ThreadStep(u)
  BY <1>3, Zenon DEF ThreadStep
<1>4. QED
  BY <1>1, <1>2, <1>3, Zenon
     DEF Next, Pipeline, App, Pulse, Bus, BusMoves

-----------------------------------------------------------------------------
(* Types.                                                                  *)

PlayerType ==
    /\ m_PlayerState \in PlayerStates
    /\ m_PlayerPendingState \in {"Unknown", "Paused", "Stopped"}
    /\ m_fRate \in {0, 1}

FlagType ==
    /\ m_bSeekInvoked \in BOOLEAN
    /\ m_StallOnPause \in BOOLEAN
    /\ m_bResumePlayOnNonzeroRate \in BOOLEAN
    /\ m_bLastProgressValueEOS \in BOOLEAN
    /\ m_bHLSPBFull \in BOOLEAN
    /\ complete \in BOOLEAN
    /\ full \in BOOLEAN
    /\ played \in BOOLEAN
    /\ resume \in BOOLEAN

GstType ==
    [state : GstStates, pending : GstStates \cup {"VOID"}, target : GstStates]

StreamType ==
    /\ m_BufferPosition \in 0..Duration
    /\ pos \in 0..Duration
    /\ time \in 0..Duration
    /\ m_bHLSModeEnabled \in HLSModes
    /\ gst \in GstType

MessageType == messages \in Seq(Messages) /\ msg \in Messages \cup {NoMessage}

ThreadType == pc \in [Threads -> Steps] /\ then \in [Threads -> Steps]

CountType ==
    /\ calls \in 0..MaxCalls
    /\ underruns \in 0..MaxUnderruns
    /\ faults \in 0..MaxFaults
    /\ asked \in Calls \cup {"none", "seek"}
    /\ crossed \subseteq Crossings

LEMMA TypeParts ==
  TypeOK <=> /\ DisposeTypeOK /\ PlayerType /\ FlagType /\ StreamType
             /\ MessageType /\ ThreadType /\ CountType
  BY Zenon DEF TypeOK, PlayerType, FlagType, StreamType, GstType, MessageType,
               ThreadType, CountType

\* UpdatePlayerState moves the player to one of its states, never back to
\* Unknown.
LEMMA NewStateType ==
  ASSUME PlayerType
  PROVE  /\ NewPlayerState \in PlayerStates
         /\ m_PlayerState # "Unknown" => NewPlayerState # "Unknown"
<1> USE DEF PlayerType, NewPlayerState, PauseMeans, NothingAsked, PlayerStates
<1>1. CASE m_PlayerState \in {"Unknown", "Ready"}
  BY <1>1
<1>2. CASE m_PlayerState = "Playing"
  BY <1>2
<1>3. CASE m_PlayerState \in {"Paused", "Stopped"}
  BY <1>3
<1>4. CASE m_PlayerState = "Stalled"
  BY <1>4
<1>5. CASE m_PlayerState = "Finished"
  BY <1>5
<1>6. CASE m_PlayerState = "Error"
  BY <1>6
<1>7. QED
  BY <1>1, <1>2, <1>3, <1>4, <1>5, <1>6

LEMMA PlayerTypeKept == PlayerType /\ [Next]_vars => PlayerType'
<1> SUFFICES ASSUME PlayerType, [Next]_vars PROVE PlayerType'
  OBVIOUS
<1> USE DEF player, rate, buffer, source, count, threads
<1>1. ASSUME NEW t \in Threads, PauseMark(t) PROVE PlayerType'
  BY <1>1 DEF PauseMark, Goto, Return, Cross, KeepRest, KeepStream,
     PlayerType, PlayerStates
<1>2. ASSUME NEW t \in Threads, StopMark(t) PROVE PlayerType'
  BY <1>2 DEF StopMark, Goto, Cross, KeepRest, KeepStream, PlayerType,
     PlayerStates
<1>3. ASSUME NEW t \in Threads, RateStore(t) PROVE PlayerType'
  BY <1>3 DEF RateStore, Return, KeepMedia, KeepRest, KeepStream, PlayerType
<1>4. ASSUME NEW t \in Threads, RateSeek(t) PROVE PlayerType'
  BY <1>4 DEF RateSeek, Return, KeepMedia, KeepRest, KeepStream, FlushingSeek,
     PlayerType
<1>5. ASSUME NEW t \in Threads, PauseFails(t) PROVE PlayerType'
  BY <1>5 DEF PauseFails, Enter, Return, Post, Message, PlayerType
<1>6. CASE UpdatePlayerState
  <2>1. m_PlayerState' \in PlayerStates
    BY <1>6, NewStateType DEF UpdatePlayerState
  <2>2. m_PlayerPendingState' \in {"Unknown", "Paused", "Stopped"}
    BY <1>6 DEF UpdatePlayerState, PlayerType
  <2>3. QED
    BY <1>6, <2>1, <2>2 DEF UpdatePlayerState, PlayerType
<1>7. CASE HandleEOS
  BY <1>7 DEF HandleEOS, Handling, Goto, Cross, KeepStream, PlayerType,
     PlayerStates
<1>8. CASE TornDown
  BY <1>8 DEF TornDown, Goto, PlayerType, PlayerStates
<1>9. ASSUME NEW t \in Threads, Play(t) \/ SetPlaying(t) \/ PauseTest(t) \/
   StopTest(t) \/ FinishTest(t) \/ InternalPause(t) \/ SetPaused(t) \/
   SeekTest(t) \/ SeekPipeline(t) \/ SeekResume(t) \/ RateZero(t) PROVE
   PlayerType'
  BY <1>9 DEF Play, Goto, Return, Cross, KeepRest, KeepStream, SetPlaying,
     PauseTest, StopTest, FinishTest, KeepMedia, InternalPause, SetPaused,
     SeekTest, SeekPipeline, FlushingSeek, SeekResume, RateZero, Enter,
     PlayerType
<1>10. CASE AsyncDone \/ Render \/ EndOfStream \/ Download \/ Underrun \/
   Fault \/ StopTimeReached \/ TakeMessage \/ BusMoves \/ HandleStateChanged
   \/ HandleError \/ HandleProgress \/ HandleUnderrun \/ Stall \/
   HandleHLSBuffer \/ HandlerDone \/ Dispose \/ Pads \/ UNCHANGED vars
  BY <1>10 DEF vars, mvars, AsyncDone, Render, Post, Message, EndOfStream,
     Download, Underrun, Fault, StopTimeReached, Goto, KeepStream,
     TakeMessage, BusMoves, BusCallback, DropReference,
     BusCallbackDestroyNotify, FreeMeHere, HandleStateChanged, Handling,
     Enter, KeepBus, HandleError, HandleProgress, HandleUnderrun, Stall,
     HandleHLSBuffer, HandlerDone, Dispose, Pads, PlayerType
<1>11. ASSUME NEW c \in Calls \ {"finish"}, Call(c) PROVE PlayerType'
  BY <1>11 DEF Call, FirstStep, Enter, KeepStream, PlayerType
<1>12. QED
  BY <1>1, <1>2, <1>3, <1>4, <1>5, <1>6, <1>7, <1>8, <1>9, <1>10, <1>11,
     NextCases DEF ThreadStep

LEMMA ThreadTypeKept == ThreadType /\ [Next]_vars => ThreadType'
<1> SUFFICES ASSUME ThreadType, [Next]_vars PROVE ThreadType'
  OBVIOUS
<1> USE DEF player, rate, buffer, source, count, threads
<1>1. ASSUME NEW c \in Calls \ {"finish"}, Call(c) PROVE ThreadType'
  <2>1. FirstStep(c) \in Steps
    BY <1>1, CallsAssumption DEF FirstStep, Steps
  <2>2. QED
    BY <1>1, <2>1 DEF Call, Enter, ThreadType, Threads, Steps
<1>2. CASE StopTimeReached
  BY <1>2 DEF StopTimeReached, Goto, KeepStream, ThreadType, Threads, Steps
<1>3. ASSUME NEW t \in Threads, Play(t) PROVE ThreadType'
  BY <1>3 DEF Play, Goto, Return, Cross, KeepRest, KeepStream, ThreadType,
     Threads, Steps
<1>4. ASSUME NEW t \in Threads, SetPlaying(t) PROVE ThreadType'
  BY <1>4 DEF SetPlaying, Return, Cross, ThreadType, Threads, Steps
<1>5. ASSUME NEW t \in Threads, PauseTest(t) PROVE ThreadType'
  BY <1>5 DEF PauseTest, Goto, Return, Cross, KeepRest, KeepStream,
     ThreadType, Threads, Steps
<1>6. ASSUME NEW t \in Threads, PauseMark(t) PROVE ThreadType'
  BY <1>6 DEF PauseMark, Goto, Return, Cross, KeepRest, KeepStream,
     ThreadType, Threads, Steps
<1>7. ASSUME NEW t \in Threads, StopTest(t) PROVE ThreadType'
  BY <1>7 DEF StopTest, Goto, Return, Cross, KeepRest, KeepStream, ThreadType,
     Threads, Steps
<1>8. ASSUME NEW t \in Threads, StopMark(t) PROVE ThreadType'
  BY <1>8 DEF StopMark, Goto, Cross, KeepRest, KeepStream, ThreadType,
     Threads, Steps
<1>9. ASSUME NEW t \in Threads, FinishTest(t) PROVE ThreadType'
  BY <1>9 DEF FinishTest, Goto, Return, KeepMedia, KeepRest, KeepStream,
     ThreadType, Threads, Steps
<1>10. ASSUME NEW t \in Threads, InternalPause(t) PROVE ThreadType'
  BY <1>10 DEF InternalPause, Goto, Return, Cross, KeepRest, KeepStream,
     ThreadType, Threads, Steps
<1>11. ASSUME NEW t \in Threads, SetPaused(t) PROVE ThreadType'
  BY <1>11 DEF SetPaused, Return, Cross, ThreadType, Threads, Steps
<1>12. ASSUME NEW t \in Threads, SeekTest(t) PROVE ThreadType'
  BY <1>12 DEF SeekTest, Goto, Return, KeepMedia, KeepRest, KeepStream,
     ThreadType, Threads, Steps
<1>13. ASSUME NEW t \in Threads, SeekPipeline(t) PROVE ThreadType'
  BY <1>13 DEF SeekPipeline, Goto, Return, KeepStream, FlushingSeek,
     ThreadType, Threads, Steps
<1>14. ASSUME NEW t \in Threads, SeekResume(t) PROVE ThreadType'
  BY <1>14 DEF SeekResume, Goto, Return, KeepMedia, KeepRest, KeepStream,
     ThreadType, Threads, Steps
<1>15. ASSUME NEW t \in Threads, RateZero(t) PROVE ThreadType'
  BY <1>15 DEF RateZero, Enter, Return, KeepMedia, KeepRest, KeepStream,
     ThreadType, Threads, Steps
<1>16. ASSUME NEW t \in Threads, RateStore(t) PROVE ThreadType'
  BY <1>16 DEF RateStore, Return, KeepMedia, KeepRest, KeepStream, ThreadType,
     Threads, Steps
<1>17. ASSUME NEW t \in Threads, RateSeek(t) PROVE ThreadType'
  BY <1>17 DEF RateSeek, Return, KeepMedia, KeepRest, KeepStream,
     FlushingSeek, ThreadType, Threads, Steps
<1>18. ASSUME NEW t \in Threads, PauseFails(t) PROVE ThreadType'
  BY <1>18 DEF PauseFails, Enter, Return, Post, Message, ThreadType, Threads,
     Steps
<1>19. CASE HandleStateChanged
  BY <1>19 DEF HandleStateChanged, Handling, Goto, Enter, KeepBus, KeepStream,
     ThreadType, Threads, Steps
<1>20. CASE UpdatePlayerState
  BY <1>20 DEF UpdatePlayerState, Goto, Misread, ThreadType, Threads, Steps
<1>21. CASE HandleEOS
  BY <1>21 DEF HandleEOS, Handling, Goto, Cross, KeepStream, ThreadType,
     Threads, Steps
<1>22. CASE HandleError
  BY <1>22 DEF HandleError, Handling, Goto, KeepStream, ThreadType, Threads,
     Steps
<1>23. CASE TornDown
  BY <1>23 DEF TornDown, Goto, ThreadType, Threads, Steps
<1>24. CASE HandleProgress
  BY <1>24 DEF HandleProgress, Handling, Goto, KeepBus, KeepStream,
     ThreadType, Threads, Steps
<1>25. CASE HandleUnderrun
  BY <1>25 DEF HandleUnderrun, Handling, Goto, KeepBus, KeepStream,
     ThreadType, Threads, Steps
<1>26. CASE Stall
  BY <1>26 DEF Stall, Goto, KeepBus, KeepStream, ThreadType, Threads, Steps
<1>27. CASE HandleHLSBuffer
  BY <1>27 DEF HandleHLSBuffer, Handling, Goto, KeepBus, KeepStream,
     ThreadType, Threads, Steps
<1>28. CASE HandlerDone
  BY <1>28 DEF HandlerDone, KeepStream, ThreadType, Threads, Steps
<1>29. CASE AsyncDone \/ Render \/ EndOfStream \/ Download \/ Underrun \/
   Fault \/ TakeMessage \/ BusMoves \/ Dispose \/ Pads \/ UNCHANGED vars
  BY <1>29 DEF vars, mvars, AsyncDone, Render, Post, Message, EndOfStream,
     Download, Underrun, Fault, TakeMessage, BusMoves, BusCallback,
     DropReference, BusCallbackDestroyNotify, FreeMeHere, Dispose, Pads,
     ThreadType
<1>30. QED
  BY <1>1, <1>2, <1>3, <1>4, <1>5, <1>6, <1>7, <1>8, <1>9, <1>10, <1>11,
     <1>12, <1>13, <1>14, <1>15, <1>16, <1>17, <1>18, <1>19, <1>20, <1>21,
     <1>22, <1>23, <1>24, <1>25, <1>26, <1>27, <1>28, <1>29, NextCases DEF
     ThreadStep

LEMMA FlagTypeKept == FlagType /\ StreamType /\ MessageType /\ [Next]_vars =>
   FlagType'
<1> SUFFICES ASSUME FlagType, StreamType, MessageType, [Next]_vars PROVE
   FlagType'
  OBVIOUS
<1> USE DEF player, rate, buffer, source, count, threads
<1>1. CASE Render
  BY <1>1 DEF Render, Post, Message, FlagType
<1>2. CASE EndOfStream
  BY <1>2 DEF EndOfStream, Post, Message, FlagType
<1>3. CASE Download
  BY <1>3 DEF Download, Post, Message, FlagType
<1>4. ASSUME NEW t \in Threads, Play(t) PROVE FlagType'
  <2>1. m_bResumePlayOnNonzeroRate' \in BOOLEAN
    BY <1>4, Zenon DEF Play
  <2>2. QED
    BY <1>4, <2>1 DEF Play, KeepRest, KeepStream, FlagType
<1>5. ASSUME NEW t \in Threads, StopTest(t) PROVE FlagType'
  <2>1. m_bResumePlayOnNonzeroRate' \in BOOLEAN
    BY <1>5, Zenon DEF StopTest
  <2>2. QED
    BY <1>5, <2>1 DEF StopTest, KeepRest, KeepStream, FlagType
<1>6. ASSUME NEW t \in Threads, InternalPause(t) PROVE FlagType'
  <2>1. m_bResumePlayOnNonzeroRate' \in BOOLEAN
    BY <1>6, Zenon DEF InternalPause
  <2>2. QED
    BY <1>6, <2>1 DEF InternalPause, KeepRest, KeepStream, FlagType
<1>7. ASSUME NEW t \in Threads, SeekTest(t) PROVE FlagType'
  <2>1. m_bSeekInvoked' \in BOOLEAN
    BY <1>7, Zenon DEF SeekTest
  <2>2. QED
    BY <1>7, <2>1 DEF SeekTest, KeepMedia, KeepRest, KeepStream, FlagType
<1>8. ASSUME NEW t \in Threads, SeekPipeline(t) PROVE FlagType'
  BY <1>8 DEF SeekPipeline, Goto, Return, KeepStream, FlushingSeek, FlagType
<1>9. ASSUME NEW t \in Threads, RateZero(t) PROVE FlagType'
  <2>1. resume' \in BOOLEAN
    BY <1>9, Zenon DEF RateZero, FlagType
  <2>2. QED
    BY <1>9, <2>1 DEF RateZero, KeepMedia, KeepRest, KeepStream, FlagType
<1>10. ASSUME NEW t \in Threads, RateStore(t) PROVE FlagType'
  BY <1>10 DEF RateStore, Return, KeepMedia, KeepRest, KeepStream, FlagType
<1>11. ASSUME NEW t \in Threads, RateSeek(t) PROVE FlagType'
  BY <1>11 DEF RateSeek, Return, KeepMedia, KeepRest, KeepStream,
     FlushingSeek, FlagType
<1>12. CASE UpdatePlayerState
  <2>1. /\ m_StallOnPause' \in BOOLEAN
        /\ m_bSeekInvoked' \in BOOLEAN
        /\ m_bResumePlayOnNonzeroRate' \in BOOLEAN
    BY <1>12, Zenon DEF UpdatePlayerState
  <2>2. QED
    BY <1>12, <2>1 DEF UpdatePlayerState, FlagType
<1>13. CASE HandleEOS
  <2>1. m_bLastProgressValueEOS' \in BOOLEAN
    BY <1>13, Zenon DEF HandleEOS
  <2>2. QED
    BY <1>13, <2>1 DEF HandleEOS, KeepStream, FlagType
<1>14. CASE HandleProgress
  <2>1. m_bLastProgressValueEOS' \in BOOLEAN
    BY <1>14 DEF HandleProgress, Handling, MessageType, Messages, NoMessage
  <2>2. QED
    BY <1>14, <2>1 DEF HandleProgress, KeepBus, KeepStream, FlagType
<1>15. CASE Stall
  BY <1>15 DEF Stall, Goto, KeepBus, KeepStream, FlagType
<1>16. CASE HandleHLSBuffer
  <2>1. m_bHLSPBFull' \in BOOLEAN /\ m_bLastProgressValueEOS' \in BOOLEAN
    BY <1>16, Zenon DEF HandleHLSBuffer
  <2>2. QED
    BY <1>16, <2>1 DEF HandleHLSBuffer, KeepBus, KeepStream, FlagType
<1>17. ASSUME NEW t \in Threads, SetPlaying(t) \/ PauseTest(t) \/ PauseMark(t)
   \/ StopMark(t) \/ FinishTest(t) \/ SetPaused(t) \/ SeekResume(t) \/
   PauseFails(t) PROVE FlagType'
  BY <1>17 DEF SetPlaying, Return, Cross, PauseTest, Goto, KeepRest,
     KeepStream, PauseMark, StopMark, FinishTest, KeepMedia, SetPaused,
     SeekResume, PauseFails, Enter, Post, Message, FlagType
<1>18. CASE AsyncDone \/ Underrun \/ Fault \/ StopTimeReached \/ TakeMessage
   \/ BusMoves \/ HandleStateChanged \/ HandleError \/ TornDown \/
   HandleUnderrun \/ HandlerDone \/ Dispose \/ Pads \/ UNCHANGED vars
  BY <1>18 DEF vars, mvars, AsyncDone, Underrun, Post, Message, Fault,
     StopTimeReached, Goto, KeepStream, TakeMessage, BusMoves, BusCallback,
     DropReference, BusCallbackDestroyNotify, FreeMeHere, HandleStateChanged,
     Handling, Enter, KeepBus, HandleError, TornDown, HandleUnderrun,
     HandlerDone, Dispose, Pads, FlagType
<1>19. ASSUME NEW c \in Calls \ {"finish"}, Call(c) PROVE FlagType'
  BY <1>19 DEF Call, FirstStep, Enter, KeepStream, FlagType
<1>20. QED
  BY <1>1, <1>2, <1>3, <1>4, <1>5, <1>6, <1>7, <1>8, <1>9, <1>10, <1>11,
     <1>12, <1>13, <1>14, <1>15, <1>16, <1>17, <1>18, <1>19, NextCases DEF
     ThreadStep

LEMMA GstUpdates ==
  ASSUME NEW g \in GstType, NEW s \in GstStates, NEW p \in GstStates \cup {"VOID"},
         NEW x \in GstStates
  PROVE  /\ [g EXCEPT !.pending = p, !.target = x] \in GstType
         /\ [g EXCEPT !.state = s, !.target = x] \in GstType
         /\ [g EXCEPT !.state = s, !.pending = p] \in GstType
         /\ [state |-> s, pending |-> p, target |-> x] \in GstType
         /\ g.state \in GstStates /\ g.target \in GstStates
  BY DEF GstType

LEMMA GstNames ==
  /\ "NULL" \in GstStates /\ "READY" \in GstStates /\ "PAUSED" \in GstStates
  /\ "PLAYING" \in GstStates /\ GstStates \subseteq GstStates \cup {"VOID"}
  /\ "VOID" \in GstStates \cup {"VOID"}
  BY DEF GstStates

LEMMA RequestTypes ==
  ASSUME gst \in GstType, RequestPlaying \/ RequestPaused
  PROVE  gst' \in GstType
<1>1. /\ [gst EXCEPT !.pending = "PLAYING", !.target = "PLAYING"] \in GstType
      /\ [gst EXCEPT !.state = "PLAYING", !.target = "PLAYING"] \in GstType
      /\ [state |-> "READY", pending |-> "PLAYING", target |-> "PLAYING"]
            \in GstType
      /\ [gst EXCEPT !.pending = "PAUSED", !.target = "PAUSED"] \in GstType
      /\ [gst EXCEPT !.state = "PAUSED", !.target = "PAUSED"] \in GstType
      /\ [state |-> "READY", pending |-> "PAUSED", target |-> "PAUSED"]
            \in GstType
  BY DEF GstType, GstStates
<1>2. QED
  BY <1>1 DEF RequestPlaying, RequestPaused

LEMMA SeekTypes ==
  ASSUME gst \in GstType, FlushingSeek
  PROVE  gst' \in GstType
  BY GstNames, GstUpdates, Zenon DEF FlushingSeek

LEMMA StreamTypeKept == StreamType /\ FlagType /\ MessageType /\ [Next]_vars
   => StreamType'
<1> SUFFICES ASSUME StreamType, FlagType, MessageType, [Next]_vars PROVE
   StreamType'
  OBVIOUS
<1> USE DEF player, rate, buffer, source, count, threads
<1>1. CASE AsyncDone
  <2>1. gst' \in GstType
    BY <1>1, GstNames, GstUpdates, Zenon DEF AsyncDone, StreamType
  <2>2. QED
    BY <1>1, <2>1 DEF AsyncDone, StreamType
<1>2. CASE Render
  BY <1>2, DurationAssumption DEF Render, Post, Message, StreamType, FlagType
<1>3. CASE EndOfStream
  BY <1>3, DurationAssumption DEF EndOfStream, Post, Message, StreamType
<1>4. CASE Download
  BY <1>4, DurationAssumption DEF Download, Post, Message, StreamType,
     FlagType
<1>5. ASSUME NEW t \in Threads, SetPlaying(t) PROVE StreamType'
  BY <1>5, RequestTypes DEF SetPlaying, StreamType
<1>6. ASSUME NEW t \in Threads, SetPaused(t) PROVE StreamType'
  BY <1>6, RequestTypes DEF SetPaused, StreamType
<1>7. ASSUME NEW t \in Threads, SeekPipeline(t) PROVE StreamType'
  <2>1. gst' \in GstType
    BY <1>7, SeekTypes DEF SeekPipeline, KeepStream, StreamType
  <2>2. QED
    BY <1>7, <2>1, DurationAssumption
       DEF SeekPipeline, KeepStream, FlushingSeek, StreamType
<1>8. ASSUME NEW t \in Threads, RateSeek(t) PROVE StreamType'
  <2>1. gst' \in GstType
    BY <1>8, SeekTypes DEF RateSeek, KeepStream, StreamType
  <2>2. QED
    BY <1>8, <2>1, DurationAssumption
       DEF RateSeek, KeepMedia, KeepRest, KeepStream, FlushingSeek,
           StreamType
<1>9. CASE UpdatePlayerState
  BY <1>9, RequestTypes DEF UpdatePlayerState, StreamType
<1>10. CASE TornDown
  BY <1>10, DurationAssumption DEF TornDown, Goto, StreamType, NullPipeline,
     GstType, GstStates
<1>11. CASE HandleProgress
  <2>1. m_BufferPosition' \in 0..Duration
    BY <1>11 DEF HandleProgress, Handling, MessageType, Messages, NoMessage
  <2>2. QED
    BY <1>11, <2>1 DEF HandleProgress, KeepBus, KeepStream, StreamType
<1>12. CASE Dispose
  BY <1>12, DurationAssumption DEF Dispose, StreamType, NullPipeline, GstType,
     GstStates, mvars
<1>13. ASSUME NEW t \in Threads, Play(t) \/ PauseTest(t) \/ PauseMark(t) \/
   StopTest(t) \/ StopMark(t) \/ FinishTest(t) \/ InternalPause(t) \/
   SeekTest(t) \/ SeekResume(t) \/ RateZero(t) \/ RateStore(t) \/
   PauseFails(t) PROVE StreamType'
  BY <1>13, DurationAssumption DEF Play, Goto, Return, Cross, KeepRest,
     KeepStream, PauseTest, PauseMark, StopTest, StopMark, FinishTest,
     KeepMedia, InternalPause, SeekTest, SeekResume, RateZero, Enter,
     RateStore, PauseFails, Post, Message, StreamType
<1>14. CASE Underrun \/ Fault \/ StopTimeReached \/ TakeMessage \/ BusMoves \/
   HandleStateChanged \/ HandleEOS \/ HandleError \/ HandleUnderrun \/ Stall
   \/ HandleHLSBuffer \/ HandlerDone \/ Pads \/ UNCHANGED vars
  BY <1>14, DurationAssumption DEF vars, mvars, Underrun, Post, Message,
     Fault, StopTimeReached, Goto, KeepStream, TakeMessage, BusMoves,
     BusCallback, DropReference, BusCallbackDestroyNotify, FreeMeHere,
     HandleStateChanged, Handling, Enter, KeepBus, HandleEOS, Cross,
     HandleError, HandleUnderrun, Stall, HandleHLSBuffer, HandlerDone, Pads,
     StreamType
<1>15. ASSUME NEW c \in Calls \ {"finish"}, Call(c) PROVE StreamType'
  BY <1>15, DurationAssumption DEF Call, FirstStep, Enter, KeepStream,
     StreamType
<1>16. QED
  BY <1>1, <1>2, <1>3, <1>4, <1>5, <1>6, <1>7, <1>8, <1>9, <1>10, <1>11,
     <1>12, <1>13, <1>14, <1>15, NextCases DEF ThreadStep

LEMMA CountTypeKept == CountType /\ [Next]_vars => CountType'
<1> SUFFICES ASSUME CountType, [Next]_vars PROVE CountType'
  OBVIOUS
<1> USE DEF player, rate, buffer, source, count, threads
<1>1. CASE Underrun
  BY <1>1, BoundsAssumption DEF Underrun, Post, Message, CountType, Crossings
<1>2. CASE Fault
  BY <1>2, BoundsAssumption DEF Fault, Post, Message, CountType, Crossings
<1>3. ASSUME NEW c \in Calls \ {"finish"}, Call(c) PROVE CountType'
  BY <1>3, BoundsAssumption DEF Call, FirstStep, Enter, KeepStream, CountType,
     Crossings
<1>4. CASE StopTimeReached
  BY <1>4, BoundsAssumption DEF StopTimeReached, Goto, KeepStream, CountType,
     Crossings
<1>5. ASSUME NEW t \in Threads, Play(t) PROVE CountType'
  BY <1>5, BoundsAssumption DEF Play, Goto, Return, Cross, KeepRest,
     KeepStream, CountType, Crossings
<1>6. ASSUME NEW t \in Threads, SetPlaying(t) PROVE CountType'
  BY <1>6, BoundsAssumption DEF SetPlaying, Return, Cross, CountType,
     Crossings
<1>7. ASSUME NEW t \in Threads, PauseTest(t) PROVE CountType'
  BY <1>7, BoundsAssumption DEF PauseTest, Goto, Return, Cross, KeepRest,
     KeepStream, CountType, Crossings
<1>8. ASSUME NEW t \in Threads, PauseMark(t) PROVE CountType'
  BY <1>8, BoundsAssumption DEF PauseMark, Goto, Return, Cross, KeepRest,
     KeepStream, CountType, Crossings
<1>9. ASSUME NEW t \in Threads, StopTest(t) PROVE CountType'
  BY <1>9, BoundsAssumption DEF StopTest, Goto, Return, Cross, KeepRest,
     KeepStream, CountType, Crossings
<1>10. ASSUME NEW t \in Threads, StopMark(t) PROVE CountType'
  BY <1>10, BoundsAssumption DEF StopMark, Goto, Cross, KeepRest, KeepStream,
     CountType, Crossings
<1>11. ASSUME NEW t \in Threads, FinishTest(t) PROVE CountType'
  BY <1>11, BoundsAssumption DEF FinishTest, Goto, Return, KeepMedia,
     KeepRest, KeepStream, CountType, Crossings
<1>12. ASSUME NEW t \in Threads, InternalPause(t) PROVE CountType'
  BY <1>12, BoundsAssumption DEF InternalPause, Goto, Return, Cross, KeepRest,
     KeepStream, CountType, Crossings
<1>13. ASSUME NEW t \in Threads, SetPaused(t) PROVE CountType'
  BY <1>13, BoundsAssumption DEF SetPaused, Return, Cross, CountType,
     Crossings
<1>14. ASSUME NEW t \in Threads, SeekTest(t) PROVE CountType'
  BY <1>14, BoundsAssumption DEF SeekTest, Goto, Return, KeepMedia, KeepRest,
     KeepStream, CountType, Crossings
<1>15. ASSUME NEW t \in Threads, SeekPipeline(t) PROVE CountType'
  BY <1>15, BoundsAssumption DEF SeekPipeline, Goto, Return, KeepStream,
     FlushingSeek, CountType, Crossings
<1>16. ASSUME NEW t \in Threads, SeekResume(t) PROVE CountType'
  BY <1>16, BoundsAssumption DEF SeekResume, Goto, Return, KeepMedia,
     KeepRest, KeepStream, CountType, Crossings
<1>17. ASSUME NEW t \in Threads, RateZero(t) PROVE CountType'
  BY <1>17, BoundsAssumption DEF RateZero, Enter, Return, KeepMedia, KeepRest,
     KeepStream, CountType, Crossings
<1>18. ASSUME NEW t \in Threads, RateStore(t) PROVE CountType'
  BY <1>18, BoundsAssumption DEF RateStore, Return, KeepMedia, KeepRest,
     KeepStream, CountType, Crossings
<1>19. ASSUME NEW t \in Threads, RateSeek(t) PROVE CountType'
  BY <1>19, BoundsAssumption DEF RateSeek, Return, KeepMedia, KeepRest,
     KeepStream, FlushingSeek, CountType, Crossings
<1>20. ASSUME NEW t \in Threads, PauseFails(t) PROVE CountType'
  BY <1>20, BoundsAssumption DEF PauseFails, Enter, Return, Post, Message,
     CountType, Crossings
<1>21. CASE UpdatePlayerState
  BY <1>21, BoundsAssumption DEF UpdatePlayerState, Goto, Misread, CountType,
     Crossings
<1>22. CASE HandleEOS
  BY <1>22, BoundsAssumption DEF HandleEOS, Handling, Goto, Cross, KeepStream,
     CountType, Crossings
<1>23. CASE AsyncDone \/ Render \/ EndOfStream \/ Download \/ TakeMessage \/
   BusMoves \/ HandleStateChanged \/ HandleError \/ TornDown \/ HandleProgress
   \/ HandleUnderrun \/ Stall \/ HandleHLSBuffer \/ HandlerDone \/ Dispose \/
   Pads \/ UNCHANGED vars
  BY <1>23, BoundsAssumption DEF vars, mvars, AsyncDone, Render, Post,
     Message, EndOfStream, Download, TakeMessage, BusMoves, BusCallback,
     DropReference, BusCallbackDestroyNotify, FreeMeHere, HandleStateChanged,
     Handling, Goto, Enter, KeepBus, KeepStream, HandleError, TornDown,
     HandleProgress, HandleUnderrun, Stall, HandleHLSBuffer, HandlerDone,
     Dispose, Pads, CountType
<1>24. QED
  BY <1>1, <1>2, <1>3, <1>4, <1>5, <1>6, <1>7, <1>8, <1>9, <1>10, <1>11,
     <1>12, <1>13, <1>14, <1>15, <1>16, <1>17, <1>18, <1>19, <1>20, <1>21,
     <1>22, <1>23, NextCases DEF ThreadStep

\* What Post adds to the bus.
LEMMA PostOne ==
  ASSUME MessageType, NEW m \in Messages, Post(<<m>>)
  PROVE  /\ messages' \in Seq(Messages)
         /\ gst.state # "NULL" => messages' = Append(messages, m)
  BY DEF MessageType, Post

LEMMA RequestMessages ==
  ASSUME MessageType, RequestPlaying \/ RequestPaused
  PROVE  messages' \in Seq(Messages)
<1>1. /\ StateChanged("PAUSED", "PLAYING") \in Messages
      /\ StateChanged("PLAYING", "PAUSED") \in Messages
  BY DEF StateChanged, Messages, GstStates
<1>2. QED
  BY <1>1, PostOne DEF RequestPlaying, RequestPaused, MessageType

LEMMA MessageTypeKept == StreamType /\ MessageType /\ [Next]_vars =>
   MessageType'
<1> SUFFICES ASSUME StreamType, MessageType, [Next]_vars PROVE MessageType'
  OBVIOUS
<1> USE DEF player, rate, buffer, source, count, threads
<1>1. CASE AsyncDone
  <2>1. /\ StateChanged("PAUSED", "PLAYING") \in Messages
        /\ StateChanged(gst.state, "PAUSED") \in Messages
    BY DEF StateChanged, Messages, GstStates, GstType, StreamType
  <2>2. QED
    BY <1>1, <2>1, PostOne DEF AsyncDone, MessageType
<1>2. CASE Render
  <2>1. Message("HLS_NOT_FULL") \in Messages
    BY <1>2 DEF Message, Messages
  <2>2. QED
    BY <1>2, <2>1, PostOne DEF Render, MessageType
<1>3. CASE EndOfStream
  <2>1. Message("EOS") \in Messages
    BY <1>3 DEF Message, Messages
  <2>2. QED
    BY <1>3, <2>1, PostOne DEF EndOfStream, MessageType
<1>4. CASE Download
  <2>1. /\ Message("HLS_RESUME") \in Messages /\ Message("HLS_FULL") \in Messages
        /\ Message("HLS_EOS") \in Messages
        /\ [type |-> "PROGRESS", pos |-> pos, eos |-> TRUE] \in Messages
    BY DEF Message, Messages, StreamType
  <2>2. pos < Duration =>
           [type |-> "PROGRESS", pos |-> pos + 1, eos |-> FALSE] \in Messages
    BY DurationAssumption DEF Messages, StreamType
  <2>3. QED
    BY <1>4, <2>1, <2>2, PostOne DEF Download, MessageType
<1>5. CASE Underrun
  <2>1. Message("HLS_STALL") \in Messages /\ Message("UNDERRUN") \in Messages
    BY DEF Message, Messages
  <2>2. QED
    BY <1>5, <2>1, PostOne DEF Underrun, MessageType
<1>6. CASE Fault
  <2>1. Message("ERROR") \in Messages
    BY <1>6 DEF Message, Messages
  <2>2. QED
    BY <1>6, <2>1, PostOne DEF Fault, MessageType
<1>7. ASSUME NEW t \in Threads, SetPlaying(t) PROVE MessageType'
  BY <1>7, RequestMessages DEF SetPlaying, Return, MessageType
<1>8. ASSUME NEW t \in Threads, SetPaused(t) PROVE MessageType'
  BY <1>8, RequestMessages DEF SetPaused, Return, MessageType
<1>9. ASSUME NEW t \in Threads, SeekPipeline(t) PROVE MessageType'
  BY <1>9 DEF SeekPipeline, Goto, Return, KeepStream, FlushingSeek,
     MessageType
<1>10. ASSUME NEW t \in Threads, RateSeek(t) PROVE MessageType'
  BY <1>10 DEF RateSeek, Return, KeepMedia, KeepRest, KeepStream,
     FlushingSeek, MessageType
<1>11. ASSUME NEW t \in Threads, PauseFails(t) PROVE MessageType'
  <2>1. Message("ERROR") \in Messages
    BY DEF Message, Messages
  <2>2. QED
    BY <1>11, <2>1, PostOne DEF PauseFails, Enter, Return, MessageType
<1>12. CASE TakeMessage
  BY <1>12 DEF TakeMessage, MessageType
<1>13. CASE UpdatePlayerState
  BY <1>13, RequestMessages DEF UpdatePlayerState, Goto, MessageType
<1>14. CASE TornDown
  BY <1>14 DEF TornDown, Goto, MessageType
<1>15. CASE HandlerDone
  BY <1>15 DEF HandlerDone, KeepStream, MessageType
<1>16. CASE Dispose
  <2>1. <<>> \in Seq(Messages)
    OBVIOUS
  <2>2. msg' = msg
    BY <1>16 DEF Dispose, mvars
  <2>3. messages' = <<>> \/ messages' = messages
    BY <1>16 DEF Dispose, mvars
  <2>4. QED
    BY <2>1, <2>2, <2>3 DEF MessageType
<1>17. ASSUME NEW t \in Threads, Play(t) \/ PauseTest(t) \/ PauseMark(t) \/
   StopTest(t) \/ StopMark(t) \/ FinishTest(t) \/ InternalPause(t) \/
   SeekTest(t) \/ SeekResume(t) \/ RateZero(t) \/ RateStore(t) PROVE
   MessageType'
  BY <1>17 DEF Play, Goto, Return, Cross, KeepRest, KeepStream, PauseTest,
     PauseMark, StopTest, StopMark, FinishTest, KeepMedia, InternalPause,
     SeekTest, SeekResume, RateZero, Enter, RateStore, MessageType
<1>18. CASE StopTimeReached \/ BusMoves \/ HandleStateChanged \/ HandleEOS \/
   HandleError \/ HandleProgress \/ HandleUnderrun \/ Stall \/ HandleHLSBuffer
   \/ Pads \/ UNCHANGED vars
  BY <1>18 DEF vars, mvars, StopTimeReached, Goto, KeepStream, BusMoves,
     BusCallback, DropReference, BusCallbackDestroyNotify, FreeMeHere,
     HandleStateChanged, Handling, Enter, KeepBus, HandleEOS, Cross,
     HandleError, HandleProgress, HandleUnderrun, Stall, HandleHLSBuffer,
     Pads, MessageType
<1>19. ASSUME NEW c \in Calls \ {"finish"}, Call(c) PROVE MessageType'
  BY <1>19 DEF Call, FirstStep, Enter, KeepStream, MessageType
<1>20. QED
  BY <1>1, <1>2, <1>3, <1>4, <1>5, <1>6, <1>7, <1>8, <1>9, <1>10, <1>11,
     <1>12, <1>13, <1>14, <1>15, <1>16, <1>17, <1>18, <1>19, NextCases DEF
     ThreadStep

LEMMA TypesKept == TypeOK /\ DisposeInv /\ [Next]_vars => TypeOK' /\ DisposeInv'
<1> SUFFICES ASSUME TypeOK, DisposeInv, [Next]_vars PROVE TypeOK' /\ DisposeInv'
  OBVIOUS
<1>1. DisposeInv'
  BY StepKeepsProtocol, DisposeInvNext
<1>2. DisposeTypeOK'
  BY <1>1 DEF DisposeInv
<1>3. /\ PlayerType' /\ FlagType' /\ StreamType' /\ MessageType' /\ ThreadType'
      /\ CountType'
  BY TypeParts, PlayerTypeKept, FlagTypeKept, StreamTypeKept, MessageTypeKept,
     ThreadTypeKept, CountTypeKept
<1>4. QED
  BY <1>1, <1>2, <1>3, Zenon
     DEF TypeOK, PlayerType, FlagType, StreamType, GstType, MessageType,
         ThreadType, CountType

-----------------------------------------------------------------------------
(* The threads.                                                            *)

LEMMA ControlKept == ThreadType /\ PlayerType /\ Control /\ BusIdle /\
   [Next]_vars => Control'
<1> SUFFICES ASSUME ThreadType, PlayerType, Control, BusIdle, [Next]_vars
   PROVE Control'
  OBVIOUS
<1> USE DEF player, rate, buffer, source, count, threads
<1>1. ASSUME NEW c \in Calls \ {"finish"}, Call(c) PROVE Control'
  <2>1. FirstStep(c) \in {"play", "pauseTest", "stopTest", "seekTest", "rateZero",
                          "rateSeek"}
        /\ (FirstStep(c) = "stopTest" => c = "stop")
    BY <1>1, CallsAssumption DEF FirstStep
  <2>2. QED
    BY <1>1, <2>1 DEF Call, Enter, Control, Noted, ThreadType, Threads
<1>2. CASE StopTimeReached
  BY <1>2 DEF StopTimeReached, Goto, KeepStream, Control, Noted, ThreadType,
     PlayerType, Threads, Steps, NoMessage, PlayerStates
<1>3. ASSUME NEW t \in Threads, Play(t) PROVE Control'
  BY <1>3 DEF Play, Goto, Return, Cross, KeepRest, KeepStream, Control, Noted,
     ThreadType, PlayerType, Threads, Steps, NoMessage, PlayerStates
<1>4. ASSUME NEW t \in Threads, SetPlaying(t) PROVE Control'
  BY <1>4 DEF SetPlaying, Return, Cross, Control, Noted, ThreadType,
     PlayerType, Threads, Steps, NoMessage, PlayerStates
<1>5. ASSUME NEW t \in Threads, PauseTest(t) PROVE Control'
  BY <1>5 DEF PauseTest, Goto, Return, Cross, KeepRest, KeepStream, Control,
     Noted, ThreadType, PlayerType, Threads, Steps, NoMessage, PlayerStates
<1>6. ASSUME NEW t \in Threads, PauseMark(t) PROVE Control'
  BY <1>6 DEF PauseMark, Goto, Return, Cross, KeepRest, KeepStream, Control,
     Noted, ThreadType, PlayerType, Threads, Steps, NoMessage, PlayerStates
<1>7. ASSUME NEW t \in Threads, StopTest(t) PROVE Control'
  BY <1>7 DEF StopTest, Goto, Return, Cross, KeepRest, KeepStream, Control,
     Noted, ThreadType, PlayerType, Threads, Steps, NoMessage, PlayerStates
<1>8. ASSUME NEW t \in Threads, StopMark(t) PROVE Control'
  BY <1>8 DEF StopMark, Goto, Cross, KeepRest, KeepStream, Control, Noted,
     ThreadType, PlayerType, Threads, Steps, NoMessage, PlayerStates
<1>9. ASSUME NEW t \in Threads, FinishTest(t) PROVE Control'
  BY <1>9 DEF FinishTest, Goto, Return, KeepMedia, KeepRest, KeepStream,
     Control, Noted, ThreadType, PlayerType, Threads, Steps, NoMessage,
     PlayerStates
<1>10. ASSUME NEW t \in Threads, InternalPause(t) PROVE Control'
  BY <1>10 DEF InternalPause, Goto, Return, Cross, KeepRest, KeepStream,
     Control, Noted, ThreadType, PlayerType, Threads, Steps, NoMessage,
     PlayerStates
<1>11. ASSUME NEW t \in Threads, SetPaused(t) PROVE Control'
  BY <1>11 DEF SetPaused, Return, Cross, Control, Noted, ThreadType,
     PlayerType, Threads, Steps, NoMessage, PlayerStates
<1>12. ASSUME NEW t \in Threads, SeekTest(t) PROVE Control'
  BY <1>12 DEF SeekTest, Goto, Return, KeepMedia, KeepRest, KeepStream,
     Control, Noted, ThreadType, PlayerType, Threads, Steps, NoMessage,
     PlayerStates
<1>13. ASSUME NEW t \in Threads, SeekPipeline(t) PROVE Control'
  BY <1>13 DEF SeekPipeline, Goto, Return, KeepStream, FlushingSeek, Control,
     Noted, ThreadType, PlayerType, Threads, Steps, NoMessage, PlayerStates
<1>14. ASSUME NEW t \in Threads, SeekResume(t) PROVE Control'
  BY <1>14 DEF SeekResume, Goto, Return, KeepMedia, KeepRest, KeepStream,
     Control, Noted, ThreadType, PlayerType, Threads, Steps, NoMessage,
     PlayerStates
<1>15. ASSUME NEW t \in Threads, RateZero(t) PROVE Control'
  BY <1>15 DEF RateZero, Enter, Return, KeepMedia, KeepRest, KeepStream,
     Control, Noted, ThreadType, PlayerType, Threads, Steps, NoMessage,
     PlayerStates
<1>16. ASSUME NEW t \in Threads, RateStore(t) PROVE Control'
  BY <1>16 DEF RateStore, Return, KeepMedia, KeepRest, KeepStream, Control,
     Noted, ThreadType, PlayerType, Threads, Steps, NoMessage, PlayerStates
<1>17. ASSUME NEW t \in Threads, RateSeek(t) PROVE Control'
  BY <1>17 DEF RateSeek, Return, KeepMedia, KeepRest, KeepStream,
     FlushingSeek, Control, Noted, ThreadType, PlayerType, Threads, Steps,
     NoMessage, PlayerStates
<1>18. ASSUME NEW t \in Threads, PauseFails(t) PROVE Control'
  BY <1>18 DEF PauseFails, Enter, Return, Post, Message, Control, Noted,
     ThreadType, PlayerType, Threads, Steps, NoMessage, PlayerStates
<1>19. CASE TakeMessage
  BY <1>19 DEF TakeMessage, Control, Noted, ThreadType, PlayerType, Threads,
     Steps, NoMessage, PlayerStates, BusIdle, Dispatch
<1>20. CASE HandleStateChanged
  BY <1>20 DEF HandleStateChanged, Handling, Goto, Enter, KeepBus, KeepStream,
     Control, Noted, ThreadType, PlayerType, Threads, Steps, NoMessage,
     PlayerStates
<1>21. CASE UpdatePlayerState
  <2>1. m_PlayerState # "Unknown" => m_PlayerState' # "Unknown"
    BY <1>21, NewStateType DEF UpdatePlayerState
  <2>2. Noted' => Noted
    BY <1>21 DEF UpdatePlayerState, Noted
  <2>3. QED
    BY <1>21, <2>1, <2>2 DEF UpdatePlayerState, Goto, Control, ThreadType,
       Threads
<1>22. CASE HandleEOS
  BY <1>22 DEF HandleEOS, Handling, Goto, Cross, KeepStream, Control, Noted,
     ThreadType, PlayerType, Threads, Steps, NoMessage, PlayerStates
<1>23. CASE HandleError
  BY <1>23 DEF HandleError, Handling, Goto, KeepStream, Control, Noted,
     ThreadType, PlayerType, Threads, Steps, NoMessage, PlayerStates,
     ErrorStops
<1>24. CASE TornDown
  BY <1>24 DEF TornDown, Goto, Control, Noted, ThreadType, PlayerType,
     Threads, Steps, NoMessage, PlayerStates, BusIdle, ErrorStopped
<1>25. CASE HandleProgress
  BY <1>25 DEF HandleProgress, Handling, Goto, KeepBus, KeepStream, Control,
     Noted, ThreadType, PlayerType, Threads, Steps, NoMessage, PlayerStates
<1>26. CASE HandleUnderrun
  BY <1>26 DEF HandleUnderrun, Handling, Goto, KeepBus, KeepStream, Control,
     Noted, ThreadType, PlayerType, Threads, Steps, NoMessage, PlayerStates
<1>27. CASE Stall
  BY <1>27 DEF Stall, Goto, KeepBus, KeepStream, Control, Noted, ThreadType,
     PlayerType, Threads, Steps, NoMessage, PlayerStates
<1>28. CASE HandleHLSBuffer
  BY <1>28 DEF HandleHLSBuffer, Handling, Goto, KeepBus, KeepStream, Control,
     Noted, ThreadType, PlayerType, Threads, Steps, NoMessage, PlayerStates
<1>29. CASE HandlerDone
  BY <1>29 DEF HandlerDone, KeepStream, Control, Noted, ThreadType,
     PlayerType, Threads, Steps, NoMessage, PlayerStates
<1>30. CASE Dispose
  BY <1>30 DEF Dispose, Control, Noted, mvars
<1>31. CASE AsyncDone \/ Render \/ EndOfStream \/ Download \/ Underrun \/
   Fault \/ BusMoves \/ Pads \/ UNCHANGED vars
  BY <1>31 DEF vars, mvars, AsyncDone, Render, Post, Message, EndOfStream,
     Download, Underrun, Fault, BusMoves, BusCallback, DropReference,
     BusCallbackDestroyNotify, FreeMeHere, Pads, Control, Noted
<1>32. QED
  BY <1>1, <1>2, <1>3, <1>4, <1>5, <1>6, <1>7, <1>8, <1>9, <1>10, <1>11,
     <1>12, <1>13, <1>14, <1>15, <1>16, <1>17, <1>18, <1>19, <1>20, <1>21,
     <1>22, <1>23, <1>24, <1>25, <1>26, <1>27, <1>28, <1>29, <1>30, <1>31,
     NextCases DEF ThreadStep

LEMMA BusIdleKept == ThreadType /\ Control /\ DisposeInv /\ BusIdle /\
   [Next]_vars => BusIdle'
<1> SUFFICES ASSUME ThreadType, Control, DisposeInv, BusIdle, [Next]_vars
   PROVE BusIdle'
  OBVIOUS
<1> USE DEF player, rate, buffer, source, count, threads, dvars, flags
<1>1. ASSUME NEW c \in Calls \ {"finish"}, Call(c) PROVE BusIdle'
  BY <1>1 DEF Call, FirstStep, Enter, KeepStream, BusIdle, ThreadType,
     Threads, Control
<1>2. CASE StopTimeReached
  BY <1>2 DEF StopTimeReached, Goto, KeepStream, BusIdle, ThreadType, Threads,
     Control
<1>3. ASSUME NEW t \in Threads, Play(t) PROVE BusIdle'
  BY <1>3 DEF Play, Goto, Return, Cross, KeepRest, KeepStream, BusIdle,
     ThreadType, Threads, Control
<1>4. ASSUME NEW t \in Threads, SetPlaying(t) PROVE BusIdle'
  BY <1>4 DEF SetPlaying, Return, Cross, BusIdle, ThreadType, Threads,
     Control, Restarts, PipelineRestarts
<1>5. ASSUME NEW t \in Threads, PauseTest(t) PROVE BusIdle'
  BY <1>5 DEF PauseTest, Goto, Return, Cross, KeepRest, KeepStream, BusIdle,
     ThreadType, Threads, Control
<1>6. ASSUME NEW t \in Threads, PauseMark(t) PROVE BusIdle'
  BY <1>6 DEF PauseMark, Goto, Return, Cross, KeepRest, KeepStream, BusIdle,
     ThreadType, Threads, Control
<1>7. ASSUME NEW t \in Threads, StopTest(t) PROVE BusIdle'
  BY <1>7 DEF StopTest, Goto, Return, Cross, KeepRest, KeepStream, BusIdle,
     ThreadType, Threads, Control
<1>8. ASSUME NEW t \in Threads, StopMark(t) PROVE BusIdle'
  BY <1>8 DEF StopMark, Goto, Cross, KeepRest, KeepStream, BusIdle,
     ThreadType, Threads, Control
<1>9. ASSUME NEW t \in Threads, FinishTest(t) PROVE BusIdle'
  BY <1>9 DEF FinishTest, Goto, Return, KeepMedia, KeepRest, KeepStream,
     BusIdle, ThreadType, Threads, Control
<1>10. ASSUME NEW t \in Threads, InternalPause(t) PROVE BusIdle'
  BY <1>10 DEF InternalPause, Goto, Return, Cross, KeepRest, KeepStream,
     BusIdle, ThreadType, Threads, Control
<1>11. ASSUME NEW t \in Threads, SetPaused(t) PROVE BusIdle'
  BY <1>11 DEF SetPaused, Return, Cross, BusIdle, ThreadType, Threads,
     Control, Restarts, PipelineRestarts
<1>12. ASSUME NEW t \in Threads, SeekTest(t) PROVE BusIdle'
  BY <1>12 DEF SeekTest, Goto, Return, KeepMedia, KeepRest, KeepStream,
     BusIdle, ThreadType, Threads, Control
<1>13. ASSUME NEW t \in Threads, SeekPipeline(t) PROVE BusIdle'
  BY <1>13 DEF SeekPipeline, Goto, Return, KeepStream, FlushingSeek, BusIdle,
     ThreadType, Threads, Control
<1>14. ASSUME NEW t \in Threads, SeekResume(t) PROVE BusIdle'
  BY <1>14 DEF SeekResume, Goto, Return, KeepMedia, KeepRest, KeepStream,
     BusIdle, ThreadType, Threads, Control
<1>15. ASSUME NEW t \in Threads, RateZero(t) PROVE BusIdle'
  BY <1>15 DEF RateZero, Enter, Return, KeepMedia, KeepRest, KeepStream,
     BusIdle, ThreadType, Threads, Control
<1>16. ASSUME NEW t \in Threads, RateStore(t) PROVE BusIdle'
  BY <1>16 DEF RateStore, Return, KeepMedia, KeepRest, KeepStream, BusIdle,
     ThreadType, Threads, Control
<1>17. ASSUME NEW t \in Threads, RateSeek(t) PROVE BusIdle'
  BY <1>17 DEF RateSeek, Return, KeepMedia, KeepRest, KeepStream,
     FlushingSeek, BusIdle, ThreadType, Threads, Control
<1>18. ASSUME NEW t \in Threads, PauseFails(t) PROVE BusIdle'
  BY <1>18 DEF PauseFails, Enter, Return, Post, Message, BusIdle, ThreadType,
     Threads, Control
<1>19. CASE TakeMessage
  BY <1>19 DEF TakeMessage, BusIdle, ThreadType, Threads, Control, Dispatch
<1>20. CASE BusMoves
  BY <1>20 DEF BusMoves, BusCallback, DropReference, BusCallbackDestroyNotify,
     FreeMeHere, BusIdle, mvars, DisposeInv, Closing, Watching
<1>21. CASE HandleStateChanged
  BY <1>21 DEF HandleStateChanged, Handling, Goto, Enter, KeepBus, KeepStream,
     BusIdle, ThreadType, Threads, Control
<1>22. CASE UpdatePlayerState
  BY <1>22 DEF UpdatePlayerState, Goto, Misread, BusIdle, ThreadType, Threads,
     Control
<1>23. CASE HandleEOS
  BY <1>23 DEF HandleEOS, Handling, Goto, Cross, KeepStream, BusIdle,
     ThreadType, Threads, Control
<1>24. CASE HandleError
  BY <1>24 DEF HandleError, Handling, Goto, KeepStream, BusIdle, ThreadType,
     Threads, Control, ErrorStops
<1>25. CASE TornDown
  BY <1>25 DEF TornDown, Goto, BusIdle, ThreadType, Threads, Control,
     ErrorStopped
<1>26. CASE HandleProgress
  BY <1>26 DEF HandleProgress, Handling, Goto, KeepBus, KeepStream, BusIdle,
     ThreadType, Threads, Control
<1>27. CASE HandleUnderrun
  BY <1>27 DEF HandleUnderrun, Handling, Goto, KeepBus, KeepStream, BusIdle,
     ThreadType, Threads, Control
<1>28. CASE Stall
  BY <1>28 DEF Stall, Goto, KeepBus, KeepStream, BusIdle, ThreadType, Threads,
     Control
<1>29. CASE HandleHLSBuffer
  BY <1>29 DEF HandleHLSBuffer, Handling, Goto, KeepBus, KeepStream, BusIdle,
     ThreadType, Threads, Control
<1>30. CASE HandlerDone
  BY <1>30 DEF HandlerDone, KeepStream, BusIdle, ThreadType, Threads, Control,
     HandlerReturns
<1>31. CASE Dispose
  BY <1>31 DEF Dispose, BusIdle, mvars, DisposeStep, CallDispose,
     MarkDisposeInProgress, StopPipeline, EnterDisposeLock, DestroySource,
     FinishDispose, FreeContent, DeletePipeline, DisposeInv, Watching
<1>32. CASE Pads
  BY <1>32 DEF Pads, BusIdle, mvars, PadAdded, OnParserSrcPadAdded, PadLinked
<1>33. CASE AsyncDone \/ Render \/ EndOfStream \/ Download \/ Underrun \/
   Fault \/ UNCHANGED vars
  BY <1>33 DEF vars, mvars, AsyncDone, Render, Post, Message, EndOfStream,
     Download, Underrun, Fault, BusIdle
<1>34. QED
  BY <1>1, <1>2, <1>3, <1>4, <1>5, <1>6, <1>7, <1>8, <1>9, <1>10, <1>11,
     <1>12, <1>13, <1>14, <1>15, <1>16, <1>17, <1>18, <1>19, <1>20, <1>21,
     <1>22, <1>23, <1>24, <1>25, <1>26, <1>27, <1>28, <1>29, <1>30, <1>31,
     <1>32, <1>33, NextCases DEF ThreadStep

LEMMA StallingKept == ThreadType /\ FlagType /\ Control /\ BusIdle /\ Stalling
   /\ [Next]_vars => Stalling'
<1> SUFFICES ASSUME ThreadType, FlagType, Control, BusIdle, Stalling,
   [Next]_vars PROVE Stalling'
  OBVIOUS
<1> USE DEF player, rate, buffer, source, count, threads
<1>1. ASSUME NEW c \in Calls \ {"finish"}, Call(c) PROVE Stalling'
  BY <1>1 DEF Call, FirstStep, Enter, KeepStream, Stalling, ThreadType,
     Threads, FlagType, Control
<1>2. CASE StopTimeReached
  BY <1>2 DEF StopTimeReached, Goto, KeepStream, Stalling, ThreadType,
     Threads, FlagType, Control
<1>3. ASSUME NEW t \in Threads, Play(t) PROVE Stalling'
  BY <1>3 DEF Play, Goto, Return, Cross, KeepRest, KeepStream, Stalling,
     ThreadType, Threads, FlagType, Control
<1>4. ASSUME NEW t \in Threads, SetPlaying(t) PROVE Stalling'
  BY <1>4 DEF SetPlaying, Return, Cross, Stalling, ThreadType, Threads,
     FlagType, Control
<1>5. ASSUME NEW t \in Threads, PauseTest(t) PROVE Stalling'
  BY <1>5 DEF PauseTest, Goto, Return, Cross, KeepRest, KeepStream, Stalling,
     ThreadType, Threads, FlagType, Control
<1>6. ASSUME NEW t \in Threads, PauseMark(t) PROVE Stalling'
  BY <1>6 DEF PauseMark, Goto, Return, Cross, KeepRest, KeepStream, Stalling,
     ThreadType, Threads, FlagType, Control
<1>7. ASSUME NEW t \in Threads, StopTest(t) PROVE Stalling'
  BY <1>7 DEF StopTest, Goto, Return, Cross, KeepRest, KeepStream, Stalling,
     ThreadType, Threads, FlagType, Control
<1>8. ASSUME NEW t \in Threads, StopMark(t) PROVE Stalling'
  BY <1>8 DEF StopMark, Goto, Cross, KeepRest, KeepStream, Stalling,
     ThreadType, Threads, FlagType, Control
<1>9. ASSUME NEW t \in Threads, FinishTest(t) PROVE Stalling'
  BY <1>9 DEF FinishTest, Goto, Return, KeepMedia, KeepRest, KeepStream,
     Stalling, ThreadType, Threads, FlagType, Control
<1>10. ASSUME NEW t \in Threads, InternalPause(t) PROVE Stalling'
  BY <1>10 DEF InternalPause, Goto, Return, Cross, KeepRest, KeepStream,
     Stalling, ThreadType, Threads, FlagType, Control
<1>11. ASSUME NEW t \in Threads, SetPaused(t) PROVE Stalling'
  BY <1>11 DEF SetPaused, Return, Cross, Stalling, ThreadType, Threads,
     FlagType, Control
<1>12. ASSUME NEW t \in Threads, SeekTest(t) PROVE Stalling'
  BY <1>12 DEF SeekTest, Goto, Return, KeepMedia, KeepRest, KeepStream,
     Stalling, ThreadType, Threads, FlagType, Control
<1>13. ASSUME NEW t \in Threads, SeekPipeline(t) PROVE Stalling'
  BY <1>13 DEF SeekPipeline, Goto, Return, KeepStream, FlushingSeek, Stalling,
     ThreadType, Threads, FlagType, Control
<1>14. ASSUME NEW t \in Threads, SeekResume(t) PROVE Stalling'
  BY <1>14 DEF SeekResume, Goto, Return, KeepMedia, KeepRest, KeepStream,
     Stalling, ThreadType, Threads, FlagType, Control
<1>15. ASSUME NEW t \in Threads, RateZero(t) PROVE Stalling'
  BY <1>15 DEF RateZero, Enter, Return, KeepMedia, KeepRest, KeepStream,
     Stalling, ThreadType, Threads, FlagType, Control
<1>16. ASSUME NEW t \in Threads, RateStore(t) PROVE Stalling'
  BY <1>16 DEF RateStore, Return, KeepMedia, KeepRest, KeepStream, Stalling,
     ThreadType, Threads, FlagType, Control
<1>17. ASSUME NEW t \in Threads, RateSeek(t) PROVE Stalling'
  BY <1>17 DEF RateSeek, Return, KeepMedia, KeepRest, KeepStream,
     FlushingSeek, Stalling, ThreadType, Threads, FlagType, Control
<1>18. ASSUME NEW t \in Threads, PauseFails(t) PROVE Stalling'
  BY <1>18 DEF PauseFails, Enter, Return, Post, Message, Stalling, ThreadType,
     Threads, FlagType, Control
<1>19. CASE HandleStateChanged
  BY <1>19 DEF HandleStateChanged, Handling, Goto, Enter, KeepBus, KeepStream,
     Stalling, ThreadType, Threads, FlagType, Control
<1>20. CASE UpdatePlayerState
  BY <1>20 DEF UpdatePlayerState, Goto, Misread, Stalling, ThreadType,
     Threads, FlagType, Control
<1>21. CASE HandleEOS
  BY <1>21 DEF HandleEOS, Handling, Goto, Cross, KeepStream, Stalling,
     ThreadType, Threads, FlagType, Control
<1>22. CASE HandleError
  BY <1>22 DEF HandleError, Handling, Goto, KeepStream, Stalling, ThreadType,
     Threads, FlagType, Control
<1>23. CASE TornDown
  BY <1>23 DEF TornDown, Goto, Stalling, ThreadType, Threads, FlagType,
     Control
<1>24. CASE HandleProgress
  BY <1>24 DEF HandleProgress, Handling, Goto, KeepBus, KeepStream, Stalling,
     ThreadType, Threads, FlagType, Control
<1>25. CASE HandleUnderrun
  BY <1>25 DEF HandleUnderrun, Handling, Goto, KeepBus, KeepStream, Stalling,
     ThreadType, Threads, FlagType, Control
<1>26. CASE Stall
  BY <1>26 DEF Stall, Goto, KeepBus, KeepStream, Stalling, ThreadType,
     Threads, FlagType, Control
<1>27. CASE HandleHLSBuffer
  BY <1>27 DEF HandleHLSBuffer, Handling, Goto, KeepBus, KeepStream, Stalling,
     ThreadType, Threads, FlagType, Control
<1>28. CASE HandlerDone
  BY <1>28 DEF HandlerDone, KeepStream, Stalling, ThreadType, Threads,
     FlagType, Control
<1>29. CASE AsyncDone \/ Render \/ EndOfStream \/ Download \/ Underrun \/
   Fault \/ TakeMessage \/ BusMoves \/ Dispose \/ Pads \/ UNCHANGED vars
  BY <1>29 DEF vars, mvars, AsyncDone, Render, Post, Message, EndOfStream,
     Download, Underrun, Fault, TakeMessage, BusMoves, BusCallback,
     DropReference, BusCallbackDestroyNotify, FreeMeHere, Dispose, Pads,
     Stalling, mvars
<1>30. QED
  BY <1>1, <1>2, <1>3, <1>4, <1>5, <1>6, <1>7, <1>8, <1>9, <1>10, <1>11,
     <1>12, <1>13, <1>14, <1>15, <1>16, <1>17, <1>18, <1>19, <1>20, <1>21,
     <1>22, <1>23, <1>24, <1>25, <1>26, <1>27, <1>28, <1>29, NextCases DEF
     ThreadStep

LEMMA GstFields ==
  ASSUME NEW g \in GstType, NEW a, NEW b
  PROVE  /\ [g EXCEPT !.pending = a, !.target = b].state = g.state
         /\ [g EXCEPT !.pending = a, !.target = b].pending = a
         /\ [g EXCEPT !.pending = a, !.target = b].target = b
         /\ [g EXCEPT !.state = a, !.target = b].state = a
         /\ [g EXCEPT !.state = a, !.target = b].pending = g.pending
         /\ [g EXCEPT !.state = a, !.target = b].target = b
         /\ [g EXCEPT !.state = a, !.pending = b].state = a
         /\ [g EXCEPT !.state = a, !.pending = b].pending = b
         /\ [g EXCEPT !.state = a, !.pending = b].target = g.target
  BY DEF GstType

\* What the two requests do, field by field.
PlayingEffect ==
    \/ /\ gst.pending # "VOID" /\ messages' = messages
       /\ gst'.state = gst.state /\ gst'.pending = "PLAYING"
       /\ gst'.target = "PLAYING"
    \/ /\ gst.pending = "VOID" /\ gst.state = "PAUSED"
       /\ gst'.state = "PLAYING" /\ gst'.pending = "VOID"
       /\ gst'.target = "PLAYING"
       /\ Post(<<StateChanged("PAUSED", "PLAYING")>>)
    \/ /\ gst.pending = "VOID" /\ gst.state = "PLAYING"
       /\ gst' = gst /\ messages' = messages
    \/ /\ gst.state = "NULL"
       /\ gst'.state = "READY" /\ gst'.target = "PLAYING"

PausedEffect ==
    \/ /\ gst.pending # "VOID" /\ messages' = messages
       /\ gst'.state = gst.state /\ gst'.pending = "PAUSED"
       /\ gst'.target = "PAUSED"
    \/ /\ gst.pending = "VOID" /\ gst.state = "PAUSED"
       /\ gst' = gst /\ messages' = messages
    \/ /\ gst.pending = "VOID" /\ gst.state = "PLAYING"
       /\ gst'.state = "PAUSED" /\ gst'.pending = "VOID"
       /\ gst'.target = "PAUSED"
       /\ Post(<<StateChanged("PLAYING", "PAUSED")>>)
    \/ /\ gst.pending = "VOID" /\ gst.state = "PLAYING" /\ messages' = messages
       /\ gst'.state = gst.state /\ gst'.pending = "PAUSED"
       /\ gst'.target = "PAUSED"
    \/ /\ gst.state = "NULL"
       /\ gst'.state = "READY" /\ gst'.target = "PAUSED"

LEMMA RequestEffects ==
  ASSUME gst \in GstType
  PROVE  (RequestPlaying => PlayingEffect) /\ (RequestPaused => PausedEffect)
<1> DEFINE Waits(x) == [gst EXCEPT !.pending = x, !.target = x]
           Is(x) == [gst EXCEPT !.state = x, !.target = x]
           Starts(x) == [state |-> "READY", pending |-> x, target |-> x]
<1>1. ASSUME NEW x
      PROVE  /\ Waits(x).state = gst.state /\ Waits(x).pending = x
             /\ Waits(x).target = x
             /\ Is(x).state = x /\ Is(x).pending = gst.pending /\ Is(x).target = x
             /\ Starts(x).state = "READY" /\ Starts(x).target = x
  BY GstFields
<1>2. ASSUME RequestPlaying PROVE PlayingEffect
  <2>1. \/ gst.pending # "VOID" /\ gst' = Waits("PLAYING") /\ messages' = messages
        \/ /\ gst.pending = "VOID" /\ gst.state = "PAUSED" /\ gst' = Is("PLAYING")
           /\ Post(<<StateChanged("PAUSED", "PLAYING")>>)
        \/ /\ gst.pending = "VOID" /\ gst.state = "PLAYING"
           /\ gst' = gst /\ messages' = messages
        \/ gst.state = "NULL" /\ gst' = Starts("PLAYING")
    BY <1>2, Zenon DEF RequestPlaying
  <2> HIDE DEF Waits, Is, Starts
  <2>2. QED
    BY <1>1, <2>1 DEF PlayingEffect
<1>3. ASSUME RequestPaused PROVE PausedEffect
  <2>1. \/ gst.pending # "VOID" /\ gst' = Waits("PAUSED") /\ messages' = messages
        \/ /\ gst.pending = "VOID" /\ gst.state = "PAUSED"
           /\ gst' = gst /\ messages' = messages
        \/ /\ gst.pending = "VOID" /\ gst.state = "PLAYING" /\ gst' = Is("PAUSED")
           /\ Post(<<StateChanged("PLAYING", "PAUSED")>>)
        \/ /\ gst.pending = "VOID" /\ gst.state = "PLAYING"
           /\ gst' = Waits("PAUSED") /\ messages' = messages
        \/ gst.state = "NULL" /\ gst' = Starts("PAUSED")
    BY <1>3, Zenon DEF RequestPaused
  <2> HIDE DEF Waits, Is, Starts
  <2>2. QED
    BY <1>1, <2>1 DEF PausedEffect
<1>4. QED
  BY <1>2, <1>3

LEMMA RequestsChanging ==
  ASSUME gst \in GstType, Changing, RequestPlaying \/ RequestPaused
  PROVE  Changing'
<1>1. CASE PlayingEffect
  BY <1>1 DEF PlayingEffect, Changing
<1>2. CASE PausedEffect
  BY <1>2 DEF PausedEffect, Changing
<1>3. QED
  BY <1>1, <1>2, RequestEffects

LEMMA SeekChanging ==
  ASSUME gst \in GstType, Changing, FlushingSeek, CanSeek
  PROVE  Changing'
  BY DEF Changing, GstType, GstStates, FlushingSeek, CanSeek

LEMMA ChangingKept == StreamType /\ Changing /\ [Next]_vars => Changing'
<1> SUFFICES ASSUME StreamType, Changing, [Next]_vars PROVE Changing'
  OBVIOUS
<1> USE DEF player, rate, buffer, source, count, threads
<1>1. CASE AsyncDone
  BY <1>1 DEF AsyncDone, Changing, StreamType, GstType, GstStates
<1>2. ASSUME NEW t \in Threads, SetPlaying(t) PROVE Changing'
  BY <1>2, RequestsChanging DEF SetPlaying, StreamType
<1>3. ASSUME NEW t \in Threads, SetPaused(t) PROVE Changing'
  BY <1>3, RequestsChanging DEF SetPaused, StreamType
<1>4. ASSUME NEW t \in Threads, SeekPipeline(t) PROVE Changing'
  BY <1>4, SeekChanging DEF SeekPipeline, KeepStream, StreamType, Changing
<1>5. ASSUME NEW t \in Threads, RateSeek(t) PROVE Changing'
  BY <1>5, SeekChanging DEF RateSeek, KeepStream, StreamType, Changing
<1>6. CASE UpdatePlayerState
  BY <1>6, RequestsChanging DEF UpdatePlayerState, StreamType, Changing
<1>7. CASE TornDown
  BY <1>7 DEF TornDown, Goto, Changing, NullPipeline
<1>8. CASE Dispose
  BY <1>8 DEF Dispose, Changing, NullPipeline, mvars
<1>9. ASSUME NEW t \in Threads, Play(t) \/ PauseTest(t) \/ PauseMark(t) \/
   StopTest(t) \/ StopMark(t) \/ FinishTest(t) \/ InternalPause(t) \/
   SeekTest(t) \/ SeekResume(t) \/ RateZero(t) \/ RateStore(t) \/
   PauseFails(t) PROVE Changing'
  BY <1>9 DEF Play, Goto, Return, Cross, KeepRest, KeepStream, PauseTest,
     PauseMark, StopTest, StopMark, FinishTest, KeepMedia, InternalPause,
     SeekTest, SeekResume, RateZero, Enter, RateStore, PauseFails, Post,
     Message, Changing, mvars
<1>10. CASE Render \/ EndOfStream \/ Download \/ Underrun \/ Fault \/
   StopTimeReached \/ TakeMessage \/ BusMoves \/ HandleStateChanged \/
   HandleEOS \/ HandleError \/ HandleProgress \/ HandleUnderrun \/ Stall \/
   HandleHLSBuffer \/ HandlerDone \/ Pads \/ UNCHANGED vars
  BY <1>10 DEF vars, mvars, Render, Post, Message, EndOfStream, Download,
     Underrun, Fault, StopTimeReached, Goto, KeepStream, TakeMessage,
     BusMoves, BusCallback, DropReference, BusCallbackDestroyNotify,
     FreeMeHere, HandleStateChanged, Handling, Enter, KeepBus, HandleEOS,
     Cross, HandleError, HandleProgress, HandleUnderrun, Stall,
     HandleHLSBuffer, HandlerDone, Pads, Changing, mvars
<1>11. ASSUME NEW c \in Calls \ {"finish"}, Call(c) PROVE Changing'
  BY <1>11 DEF Call, FirstStep, Enter, KeepStream, Changing, mvars
<1>12. QED
  BY <1>1, <1>2, <1>3, <1>4, <1>5, <1>6, <1>7, <1>8, <1>9, <1>10, <1>11,
     NextCases DEF ThreadStep

-----------------------------------------------------------------------------
(* Errors.                                                                 *)

LEMMA CrossedGrows == CountType /\ [Next]_vars => crossed \subseteq crossed'
<1> SUFFICES ASSUME CountType, [Next]_vars PROVE crossed \subseteq crossed'
  OBVIOUS
<1> USE DEF player, rate, buffer, source, count, threads
<1>1. ASSUME NEW t \in Threads, Play(t) PROVE crossed \subseteq crossed'
  BY <1>1 DEF Play, Goto, Return, Cross, KeepRest, KeepStream
<1>2. ASSUME NEW t \in Threads, SetPlaying(t) PROVE crossed \subseteq crossed'
  BY <1>2 DEF SetPlaying, Return, Cross
<1>3. ASSUME NEW t \in Threads, PauseTest(t) PROVE crossed \subseteq crossed'
  BY <1>3 DEF PauseTest, Goto, Return, Cross, KeepRest, KeepStream
<1>4. ASSUME NEW t \in Threads, PauseMark(t) PROVE crossed \subseteq crossed'
  BY <1>4 DEF PauseMark, Goto, Return, Cross, KeepRest, KeepStream
<1>5. ASSUME NEW t \in Threads, StopTest(t) PROVE crossed \subseteq crossed'
  BY <1>5 DEF StopTest, Goto, Return, Cross, KeepRest, KeepStream
<1>6. ASSUME NEW t \in Threads, StopMark(t) PROVE crossed \subseteq crossed'
  BY <1>6 DEF StopMark, Goto, Cross, KeepRest, KeepStream
<1>7. ASSUME NEW t \in Threads, FinishTest(t) PROVE crossed \subseteq crossed'
  BY <1>7 DEF FinishTest, Goto, Return, KeepMedia, KeepRest, KeepStream
<1>8. ASSUME NEW t \in Threads, InternalPause(t) PROVE crossed \subseteq
   crossed'
  BY <1>8 DEF InternalPause, Goto, Return, Cross, KeepRest, KeepStream
<1>9. ASSUME NEW t \in Threads, SetPaused(t) PROVE crossed \subseteq crossed'
  BY <1>9 DEF SetPaused, Return, Cross
<1>10. ASSUME NEW t \in Threads, SeekTest(t) PROVE crossed \subseteq crossed'
  BY <1>10 DEF SeekTest, Goto, Return, KeepMedia, KeepRest, KeepStream
<1>11. ASSUME NEW t \in Threads, SeekPipeline(t) PROVE crossed \subseteq
   crossed'
  BY <1>11 DEF SeekPipeline, Goto, Return, KeepStream, FlushingSeek
<1>12. ASSUME NEW t \in Threads, SeekResume(t) PROVE crossed \subseteq
   crossed'
  BY <1>12 DEF SeekResume, Goto, Return, KeepMedia, KeepRest, KeepStream
<1>13. ASSUME NEW t \in Threads, RateZero(t) PROVE crossed \subseteq crossed'
  BY <1>13 DEF RateZero, Enter, Return, KeepMedia, KeepRest, KeepStream
<1>14. ASSUME NEW t \in Threads, RateStore(t) PROVE crossed \subseteq crossed'
  BY <1>14 DEF RateStore, Return, KeepMedia, KeepRest, KeepStream
<1>15. ASSUME NEW t \in Threads, RateSeek(t) PROVE crossed \subseteq crossed'
  BY <1>15 DEF RateSeek, Return, KeepMedia, KeepRest, KeepStream, FlushingSeek
<1>16. ASSUME NEW t \in Threads, PauseFails(t) PROVE crossed \subseteq
   crossed'
  BY <1>16 DEF PauseFails, Enter, Return, Post, Message
<1>17. CASE AsyncDone \/ Render \/ EndOfStream \/ Download \/ Underrun \/
   Fault \/ StopTimeReached \/ TakeMessage \/ BusMoves \/ HandleStateChanged
   \/ UpdatePlayerState \/ HandleEOS \/ HandleError \/ TornDown \/
   HandleProgress \/ HandleUnderrun \/ Stall \/ HandleHLSBuffer \/ HandlerDone
   \/ Dispose \/ Pads \/ UNCHANGED vars
  BY <1>17 DEF vars, mvars, AsyncDone, Render, Post, Message, EndOfStream,
     Download, Underrun, Fault, StopTimeReached, Goto, KeepStream,
     TakeMessage, BusMoves, BusCallback, DropReference,
     BusCallbackDestroyNotify, FreeMeHere, HandleStateChanged, Handling,
     Enter, KeepBus, UpdatePlayerState, Misread, HandleEOS, Cross,
     HandleError, TornDown, HandleProgress, HandleUnderrun, Stall,
     HandleHLSBuffer, HandlerDone, Dispose, Pads, mvars
<1>18. ASSUME NEW c \in Calls \ {"finish"}, Call(c) PROVE crossed \subseteq
   crossed'
  BY <1>18 DEF Call, FirstStep, Enter, KeepStream, mvars
<1>19. QED
  BY <1>1, <1>2, <1>3, <1>4, <1>5, <1>6, <1>7, <1>8, <1>9, <1>10, <1>11,
     <1>12, <1>13, <1>14, <1>15, <1>16, <1>17, <1>18, NextCases DEF ThreadStep

\* What has crossed stays so, and a dispose that has begun goes on.
LEMMA CalmBefore ==
  ASSUME CountType, [Next]_vars, Plain'
  PROVE  /\ Plain /\ (Calm' => Calm) /\ (Soft' => Soft) /\ (Pure' => Pure)
<1>1. dispose = "idle"
  <2>1. dispose' = "idle"
    BY DEF Plain
  <2>2. CASE DisposeNext
    BY <2>1, <2>2
       DEF DisposeNext, DisposeStep, BusStep, PadStep, CallDispose,
           MarkDisposeInProgress,
           StopPipeline, EnterDisposeLock, DestroySource, FinishDispose,
           FreeContent, DeletePipeline, Dispatch, BusCallback, ErrorStops,
           ErrorStopped, HandlerReturns, DropReference, BusCallbackDestroyNotify,
           FreeMeHere, PadAdded, OnParserSrcPadAdded, PadLinked, PipelineRestarts
  <2>3. QED
    BY <2>1, <2>2, StepKeepsProtocol DEF dvars
<1>2. QED
  BY <1>1, CrossedGrows DEF Plain, Calm, Soft, Pure

LEMMA SameErrors ==
  ASSUME Plain' => Plain, Errors, UNCHANGED <<m_PlayerState, gst, messages, msg>>,
         msg.type = "ERROR" /\ pc'["bus"] = "done" =>
            m_PlayerState = "Error" \/ pc["bus"] = "done"
  PROVE  Errors'
  BY DEF Errors

LEMMA ErrorsKept == StreamType /\ CountType /\ PlayerType /\ ThreadType /\
   Control /\ Changing /\ BusIdle /\ Errors /\ [Next]_vars => Errors'
<1> SUFFICES ASSUME StreamType, CountType, PlayerType, ThreadType, Control,
   Changing, BusIdle, Errors, [Next]_vars PROVE Errors'
  OBVIOUS
<1> USE DEF player, rate, buffer, source, count, threads
<1>calm. Plain' => Plain
  BY CalmBefore
<1>1. CASE AsyncDone
  <2>1. gst.state # "NULL" /\ gst'.state # "NULL"
    BY <1>1, GstFields DEF AsyncDone, Changing, StreamType
  <2>2. QED
    BY <1>calm, <1>1, <2>1 DEF AsyncDone, Errors
<1>2. CASE Render
  <2>1. gst.state # "NULL" /\ UNCHANGED <<m_PlayerState, gst, msg, pc>>
    BY <1>2 DEF Render, IsPlaying
  <2>2. QED
    BY <1>calm, <2>1 DEF Errors
<1>3. CASE EndOfStream
  <2>1. gst.state # "NULL" /\ UNCHANGED <<m_PlayerState, gst, msg, pc>>
    BY <1>3 DEF EndOfStream, IsPlaying
  <2>2. QED
    BY <1>calm, <2>1 DEF Errors
<1>4. CASE Download
  <2>1. gst.state # "NULL" /\ UNCHANGED <<m_PlayerState, gst, msg, pc>>
    BY <1>4 DEF Download, IsPlaying
  <2>2. QED
    BY <1>calm, <2>1 DEF Errors
<1>5. CASE Underrun
  <2>1. gst.state # "NULL" /\ UNCHANGED <<m_PlayerState, gst, msg, pc>>
    BY <1>5 DEF Underrun, IsPlaying
  <2>2. QED
    BY <1>calm, <2>1 DEF Errors
<1>6. CASE Fault
  <2>1. gst.state # "NULL" /\ UNCHANGED <<m_PlayerState, gst, msg, pc>>
    BY <1>6 DEF Fault, IsPlaying
  <2>2. QED
    BY <1>calm, <2>1 DEF Errors
<1>7. ASSUME NEW c \in Calls \ {"finish"}, Call(c) PROVE Errors'
  BY <1>7, <1>calm DEF Call, FirstStep, Enter, KeepStream, Errors, ThreadType,
     Threads, Control
<1>8. CASE StopTimeReached
  BY <1>8, <1>calm DEF StopTimeReached, Goto, KeepStream, Errors, ThreadType,
     Threads, Control
<1>9. ASSUME NEW t \in Threads, Play(t) PROVE Errors'
  <2>1. UNCHANGED <<m_PlayerState, gst, messages, msg>>
    BY <1>9 DEF Play, Goto, Return, Cross, KeepRest, KeepStream
  <2>2. pc'["bus"] = "done" => pc["bus"] = "done" \/ msg.type # "ERROR"
    BY <1>9 DEF Play, Goto, Return, Cross, KeepRest, KeepStream, Control,
       ThreadType, Threads
  <2>3. QED
    BY <1>calm, <2>1, <2>2, SameErrors
<1>10. ASSUME NEW t \in Threads, SetPlaying(t) PROVE Errors'
  <2>1. CASE gst.state = "NULL"
    BY <1>10, <2>1 DEF SetPlaying, Cross, Errors, Plain
  <2>2. CASE gst.state # "NULL"
    <3>1. PlayingEffect
      BY <1>10, RequestEffects DEF SetPlaying, StreamType
    <3>2. gst'.state # "NULL"
      BY <2>2, <3>1 DEF PlayingEffect
    <3>3. pc'["bus"] = "done" => pc["bus"] = "done" \/ msg.type # "ERROR"
      BY <1>10 DEF SetPlaying, Return, Control, ThreadType, Threads
    <3>4. UNCHANGED <<m_PlayerState, msg>>
      BY <1>10 DEF SetPlaying, Return
    <3>5. QED
      BY <1>calm, <2>2, <3>2, <3>3, <3>4 DEF Errors
  <2>3. QED
    BY <2>1, <2>2
<1>11. ASSUME NEW t \in Threads, PauseTest(t) PROVE Errors'
  <2>1. UNCHANGED <<m_PlayerState, gst, messages, msg>>
    BY <1>11 DEF PauseTest, Goto, Return, Cross, KeepRest, KeepStream
  <2>2. pc'["bus"] = "done" => pc["bus"] = "done" \/ msg.type # "ERROR"
    BY <1>11 DEF PauseTest, Goto, Return, Cross, KeepRest, KeepStream, Control,
       ThreadType, Threads
  <2>3. QED
    BY <1>calm, <2>1, <2>2, SameErrors
<1>12. ASSUME NEW t \in Threads, PauseMark(t) PROVE Errors'
  BY <1>12, <1>calm DEF PauseMark, Goto, Return, Cross, KeepRest, KeepStream,
     Errors, ThreadType, Threads, Control
<1>13. ASSUME NEW t \in Threads, StopTest(t) PROVE Errors'
  <2>1. UNCHANGED <<m_PlayerState, gst, messages, msg>>
    BY <1>13 DEF StopTest, Goto, Return, Cross, KeepRest, KeepStream
  <2>2. pc'["bus"] = "done" => pc["bus"] = "done" \/ msg.type # "ERROR"
    BY <1>13 DEF StopTest, Goto, Return, Cross, KeepRest, KeepStream, Control,
       ThreadType, Threads
  <2>3. QED
    BY <1>calm, <2>1, <2>2, SameErrors
<1>14. ASSUME NEW t \in Threads, StopMark(t) PROVE Errors'
  <2>1. UNCHANGED <<m_PlayerState, gst, messages, msg>>
    BY <1>14 DEF StopMark, Goto, Cross, KeepRest, KeepStream
  <2>2. pc'["bus"] = "done" => pc["bus"] = "done" \/ msg.type # "ERROR"
    BY <1>14 DEF StopMark, Goto, Cross, KeepRest, KeepStream, Control,
       ThreadType, Threads
  <2>3. QED
    BY <1>calm, <2>1, <2>2, SameErrors
<1>15. ASSUME NEW t \in Threads, FinishTest(t) PROVE Errors'
  <2>1. UNCHANGED <<m_PlayerState, gst, messages, msg>>
    BY <1>15 DEF FinishTest, Goto, Return, KeepMedia, KeepRest, KeepStream
  <2>2. pc'["bus"] = "done" => pc["bus"] = "done" \/ msg.type # "ERROR"
    BY <1>15 DEF FinishTest, Goto, Return, KeepMedia, KeepRest, KeepStream,
       Control, ThreadType, Threads
  <2>3. QED
    BY <1>calm, <2>1, <2>2, SameErrors
<1>16. ASSUME NEW t \in Threads, InternalPause(t) PROVE Errors'
  <2>1. UNCHANGED <<m_PlayerState, gst, messages, msg>>
    BY <1>16 DEF InternalPause, Goto, Return, Cross, KeepRest, KeepStream
  <2>2. pc'["bus"] = "done" => pc["bus"] = "done" \/ msg.type # "ERROR"
    BY <1>16 DEF InternalPause, Goto, Return, Cross, KeepRest, KeepStream,
       Control, ThreadType, Threads
  <2>3. QED
    BY <1>calm, <2>1, <2>2, SameErrors
<1>17. ASSUME NEW t \in Threads, SetPaused(t) PROVE Errors'
  <2>1. CASE gst.state = "NULL"
    BY <1>17, <2>1 DEF SetPaused, Cross, Errors, Plain
  <2>2. CASE gst.state # "NULL"
    <3>1. PausedEffect
      BY <1>17, RequestEffects DEF SetPaused, StreamType
    <3>2. gst'.state # "NULL"
      BY <2>2, <3>1 DEF PausedEffect
    <3>3. pc'["bus"] = "done" => pc["bus"] = "done" \/ msg.type # "ERROR"
      BY <1>17 DEF SetPaused, Return, Control, ThreadType, Threads
    <3>4. UNCHANGED <<m_PlayerState, msg>>
      BY <1>17 DEF SetPaused, Return
    <3>5. QED
      BY <1>calm, <2>2, <3>2, <3>3, <3>4 DEF Errors
  <2>3. QED
    BY <2>1, <2>2
<1>18. ASSUME NEW t \in Threads, SeekTest(t) PROVE Errors'
  <2>1. UNCHANGED <<m_PlayerState, gst, messages, msg>>
    BY <1>18 DEF SeekTest, Goto, Return, KeepMedia, KeepRest, KeepStream
  <2>2. pc'["bus"] = "done" => pc["bus"] = "done" \/ msg.type # "ERROR"
    BY <1>18 DEF SeekTest, Goto, Return, KeepMedia, KeepRest, KeepStream,
       Control, ThreadType, Threads
  <2>3. QED
    BY <1>calm, <2>1, <2>2, SameErrors
<1>19. ASSUME NEW t \in Threads, SeekPipeline(t) PROVE Errors'
  <2>1. UNCHANGED <<m_PlayerState, msg, messages>>
    BY <1>19 DEF SeekPipeline, FlushingSeek, KeepStream, Goto, Return
  <2>2. pc'["bus"] = "done" => pc["bus"] = "done" \/ msg.type # "ERROR"
    BY <1>19 DEF SeekPipeline, Goto, Return, Control, ThreadType, Threads
  <2>3. gst'.state = "NULL" <=> gst.state = "NULL"
    BY <1>19 DEF SeekPipeline, FlushingSeek, CanSeek, KeepStream, StreamType,
       GstType
  <2>4. QED
    BY <1>calm, <2>1, <2>2, <2>3 DEF Errors
<1>20. ASSUME NEW t \in Threads, SeekResume(t) PROVE Errors'
  <2>1. UNCHANGED <<m_PlayerState, gst, messages, msg>>
    BY <1>20 DEF SeekResume, Goto, Return, KeepMedia, KeepRest, KeepStream
  <2>2. pc'["bus"] = "done" => pc["bus"] = "done" \/ msg.type # "ERROR"
    BY <1>20 DEF SeekResume, Goto, Return, KeepMedia, KeepRest, KeepStream,
       Control, ThreadType, Threads
  <2>3. QED
    BY <1>calm, <2>1, <2>2, SameErrors
<1>21. ASSUME NEW t \in Threads, RateZero(t) PROVE Errors'
  <2>1. UNCHANGED <<m_PlayerState, gst, messages, msg>>
    BY <1>21 DEF RateZero, Enter, Return, KeepMedia, KeepRest, KeepStream
  <2>2. pc'["bus"] = "done" => pc["bus"] = "done" \/ msg.type # "ERROR"
    BY <1>21 DEF RateZero, Enter, Return, KeepMedia, KeepRest, KeepStream,
       Control, ThreadType, Threads
  <2>3. QED
    BY <1>calm, <2>1, <2>2, SameErrors
<1>22. ASSUME NEW t \in Threads, RateStore(t) PROVE Errors'
  <2>1. UNCHANGED <<m_PlayerState, gst, messages, msg>>
    BY <1>22 DEF RateStore, Return, KeepMedia, KeepRest, KeepStream
  <2>2. pc'["bus"] = "done" => pc["bus"] = "done" \/ msg.type # "ERROR"
    BY <1>22 DEF RateStore, Return, KeepMedia, KeepRest, KeepStream, Control,
       ThreadType, Threads
  <2>3. QED
    BY <1>calm, <2>1, <2>2, SameErrors
<1>23. ASSUME NEW t \in Threads, RateSeek(t) PROVE Errors'
  <2>1. UNCHANGED <<m_PlayerState, msg, messages>>
    BY <1>23 DEF RateSeek, FlushingSeek, KeepStream, Goto, Return
  <2>2. pc'["bus"] = "done" => pc["bus"] = "done" \/ msg.type # "ERROR"
    BY <1>23 DEF RateSeek, Goto, Return, Control, ThreadType, Threads
  <2>3. gst'.state = "NULL" <=> gst.state = "NULL"
    BY <1>23 DEF RateSeek, FlushingSeek, CanSeek, KeepStream, StreamType,
       GstType
  <2>4. QED
    BY <1>calm, <2>1, <2>2, <2>3 DEF Errors
<1>24. ASSUME NEW t \in Threads, PauseFails(t) PROVE Errors'
  <2>1. gst.state # "NULL" /\ UNCHANGED <<m_PlayerState, gst, msg>>
    BY <1>24 DEF PauseFails, Enter, Return
  <2>2. pc'["bus"] = "done" => pc["bus"] = "done" \/ msg.type # "ERROR"
    BY <1>24 DEF PauseFails, Enter, Return, Control, ThreadType, Threads
  <2>3. QED
    BY <1>calm, <2>1, <2>2 DEF Errors
<1>25. CASE TakeMessage
  BY <1>25, <1>calm DEF TakeMessage, Errors, ThreadType, Threads, Control,
     Dispatch, BusIdle
<1>26. CASE HandleStateChanged
  BY <1>26, <1>calm DEF HandleStateChanged, Handling, Goto, Enter, KeepBus,
     KeepStream, Errors, ThreadType, Threads, Control
<1>27. CASE UpdatePlayerState
  <2>1. msg.type = "STATE" /\ msg' = msg
    BY <1>27 DEF UpdatePlayerState, Goto, Control
  <2>2. m_PlayerState # "Error" => m_PlayerState' # "Error"
    BY <1>27 DEF UpdatePlayerState, NewPlayerState, PauseMeans, PlayerType,
       PlayerStates
  <2>3. gst.state # "NULL" => gst'.state # "NULL"
    <3>1. PlayingEffect \/ gst' = gst
      BY <1>27, RequestEffects DEF UpdatePlayerState, StreamType
    <3>2. QED
      BY <3>1 DEF PlayingEffect
  <2>4. QED
    BY <1>calm, <2>1, <2>2, <2>3 DEF Errors
<1>28. CASE HandleEOS
  BY <1>28, <1>calm DEF HandleEOS, Handling, Goto, Cross, KeepStream, Errors,
     ThreadType, Threads, Control
<1>29. CASE HandleError
  BY <1>29, <1>calm DEF HandleError, Handling, Goto, KeepStream, Errors,
     ThreadType, Threads, Control, ErrorStops
<1>30. CASE TornDown
  BY <1>30, <1>calm DEF TornDown, Goto, Errors, ThreadType, Threads, Control,
     NullPipeline, ErrorStopped, BusIdle
<1>31. CASE HandleProgress
  BY <1>31, <1>calm DEF HandleProgress, Handling, Goto, KeepBus, KeepStream,
     Errors, ThreadType, Threads, Control
<1>32. CASE HandleUnderrun
  BY <1>32, <1>calm DEF HandleUnderrun, Handling, Goto, KeepBus, KeepStream,
     Errors, ThreadType, Threads, Control
<1>33. CASE Stall
  BY <1>33, <1>calm DEF Stall, Goto, KeepBus, KeepStream, Errors, ThreadType,
     Threads, Control
<1>34. CASE HandleHLSBuffer
  BY <1>34, <1>calm DEF HandleHLSBuffer, Handling, Goto, KeepBus, KeepStream,
     Errors, ThreadType, Threads, Control
<1>35. CASE HandlerDone
  BY <1>35, <1>calm DEF HandlerDone, KeepStream, Errors, ThreadType, Threads,
     Control, HandlerReturns, NoMessage
<1>36. CASE Dispose
  <2>1. CASE UNCHANGED mvars
    BY <2>1, <1>calm DEF mvars, Errors
  <2>2. CASE StopPipeline
    BY <2>2 DEF StopPipeline, Errors, Plain
  <2>3. QED
    BY <1>36, <2>1, <2>2 DEF Dispose
<1>37. CASE BusMoves \/ Pads \/ UNCHANGED vars
  BY <1>37, <1>calm DEF vars, mvars, BusMoves, BusCallback, DropReference,
     BusCallbackDestroyNotify, FreeMeHere, Pads, Errors, mvars
<1>38. QED
  BY <1>1, <1>2, <1>3, <1>4, <1>5, <1>6, <1>7, <1>8, <1>9, <1>10, <1>11,
     <1>12, <1>13, <1>14, <1>15, <1>16, <1>17, <1>18, <1>19, <1>20, <1>21,
     <1>22, <1>23, <1>24, <1>25, <1>26, <1>27, <1>28, <1>29, <1>30, <1>31,
     <1>32, <1>33, <1>34, <1>35, <1>36, <1>37, NextCases DEF ThreadStep

-----------------------------------------------------------------------------
(* What the player comes to believe.  f and g are lists of messages, s and *)
(* r states of the player.                                                 *)

\* f and g tell the same changes up to number n.
Agree(f, g, n) ==
    \A i \in 0..n : /\ f[i].type = "STATE" <=> g[i].type = "STATE"
                    /\ f[i].type = "STATE" => g[i] = f[i]

LEMMA BelievedAgrees ==
  ASSUME NEW f, NEW g, NEW s, NEW r, NEW x, NEW k \in Nat, Agree(f, g, k - 1),
         Fits(s, x) => Fits(r, x), Believed(f, s, k, x)
  PROVE  Believed(g, r, k, x)
<1>1. First(g, k) => First(f, k)
  BY DEF First, Agree
<1>2. ASSUME NEW j \in 0..(k - 1), Before(g, j, k) PROVE g[j].new = x
  <2>1. Before(f, j, k) /\ g[j] = f[j]
    BY <1>2 DEF Before, Agree
  <2>2. QED
    BY <2>1 DEF Believed
<1>3. QED
  BY <1>1, <1>2 DEF Believed

\* The first message has been handled.
LEMMA BelievedPopped ==
  ASSUME NEW f, NEW g, NEW s, NEW r, NEW x, NEW k \in Nat \ {0},
         f[0].type = "STATE", g[0].type # "STATE",
         \A i \in 1..(k - 1) : g[i] = f[i],
         Fits(r, f[0].new), Believed(f, s, k, x)
  PROVE  Believed(g, r, k, x)
<1>1. First(g, k) => Fits(r, x)
  <2>1. First(g, k) => Before(f, 0, k)
    BY DEF First, Before
  <2>2. Before(f, 0, k) => f[0].new = x
    BY DEF Believed
  <2>3. QED
    BY <2>1, <2>2
<1>2. ASSUME NEW j \in 0..(k - 1), Before(g, j, k) PROVE g[j].new = x
  <2>1. j # 0
    BY <1>2 DEF Before
  <2>2. Before(f, j, k) /\ g[j] = f[j]
    BY <1>2, <2>1 DEF Before
  <2>3. QED
    BY <2>2 DEF Believed
<1>3. QED
  BY <1>1, <1>2 DEF Believed

\* The first message of the queue is taken; nothing was being handled.
LEMMA BelievedTaken ==
  ASSUME NEW f, NEW g, NEW s, NEW x, NEW k \in Nat, f[0].type # "STATE",
         \A i \in 0..(k - 1) : g[i] = f[i + 1],
         Believed(f, s, k + 1, x)
  PROVE  Believed(g, s, k, x)
<1>1. First(g, k) => First(f, k + 1)
  <2>1. ASSUME First(g, k), NEW i \in 0..k PROVE f[i].type # "STATE"
    <3>1. CASE i = 0
      BY <3>1
    <3>2. CASE i # 0
      <4>1. i - 1 \in 0..(k - 1) /\ (i - 1) + 1 = i
        BY <3>2
      <4>2. g[i - 1] = f[(i - 1) + 1] /\ g[i - 1].type # "STATE"
        BY <2>1, <4>1 DEF First
      <4>3. QED
        BY <4>1, <4>2
    <3>3. QED
      BY <3>1, <3>2
  <2>2. (k + 1) - 1 = k
    OBVIOUS
  <2>3. QED
    BY <2>1, <2>2 DEF First
<1>2. ASSUME NEW j \in 0..(k - 1), Before(g, j, k) PROVE g[j].new = x
  <2>1. f[j + 1].type = "STATE" /\ g[j] = f[j + 1]
    BY <1>2 DEF Before
  <2>2. ASSUME NEW i \in ((j + 1) + 1)..((k + 1) - 1) PROVE f[i].type # "STATE"
    <3>1. i - 1 \in (j + 1)..(k - 1) /\ i - 1 \in 0..(k - 1) /\ (i - 1) + 1 = i
      OBVIOUS
    <3>2. g[i - 1] = f[(i - 1) + 1] /\ g[i - 1].type # "STATE"
      BY <1>2, <3>1 DEF Before
    <3>3. QED
      BY <3>1, <3>2
  <2>3. Before(f, j + 1, k + 1) /\ j + 1 \in 0..((k + 1) - 1)
    BY <2>1, <2>2 DEF Before
  <2>4. QED
    BY <2>1, <2>3 DEF Believed
<1>3. QED
  BY <1>1, <1>2 DEF Believed

LEMMA BelievedNoMore ==
  ASSUME NEW f, NEW s, NEW x, NEW k \in Nat, f[k].type # "STATE",
         Believed(f, s, k, x)
  PROVE  Believed(f, s, k + 1, x)
<1>1. First(f, k + 1) => First(f, k)
  BY DEF First
<1>2. ASSUME NEW j \in 0..((k + 1) - 1), Before(f, j, k + 1) PROVE f[j].new = x
  <2>1. j \in 0..(k - 1) /\ Before(f, j, k)
    BY <1>2 DEF Before
  <2>2. QED
    BY <2>1 DEF Believed
<1>3. QED
  BY <1>1, <1>2 DEF Believed

LEMMA BelievedTold ==
  ASSUME NEW f, NEW s, NEW k \in Nat, f[k].type = "STATE"
  PROVE  Believed(f, s, k + 1, f[k].new)
<1>1. ~First(f, k + 1)
  BY DEF First
<1>2. ASSUME NEW j \in 0..((k + 1) - 1), Before(f, j, k + 1) PROVE j = k
  BY <1>2 DEF Before
<1>3. QED
  BY <1>1, <1>2 DEF Believed

LEMMA BelievedStart ==
  ASSUME NEW f, NEW s, NEW x
  PROVE  Believed(f, s, 0, x) <=> Fits(s, x)
  BY DEF Believed, First

-----------------------------------------------------------------------------
(* How a step changes what is told.                                        *)

\* The queue does not change, or a message follows that tells no change,
Silent ==
    \/ messages' = messages
    \/ \E m \in Messages : /\ m.type # "STATE"
                           /\ gst.state = "READY" => m.type # "EOS"
                           /\ messages' = Append(messages, m)

\* or one that does.
Spoken(o, n) == messages' = Append(messages, StateChanged(o, n))
Grows == Silent \/ \E o, n \in GstStates : Spoken(o, n)

\* The message being handled,
HeadKept ==
    /\ talk[0].type = "STATE" <=> talk'[0].type = "STATE"
    /\ talk[0].type = "STATE" => talk'[0] = talk[0]

\* or handled by now.
Popped ==
    /\ talk[0].type = "STATE" /\ talk'[0].type # "STATE"
    /\ Fits(m_PlayerState', talk[0].new)

FitsKept == \A x \in {"PAUSED", "PLAYING"} :
                Fits(m_PlayerState, x) => Fits(m_PlayerState', x)

HeadMoves == (HeadKept /\ FitsKept) \/ Popped

LEMMA TalkTypes ==
  ASSUME MessageType
  PROVE  /\ Len(messages) \in Nat /\ After \in Nat /\ After - 1 = Len(messages)
         /\ 0 \in News
         /\ talk[0] = IF pc["bus"] = "done" THEN NoMessage ELSE msg
         /\ \A i \in 1..Len(messages) :
               i \in News /\ talk[i] = messages[i] /\ messages[i] \in Messages
<1>1. Len(messages) \in Nat
  BY DEF MessageType
<1>2. \A i \in 1..Len(messages) : messages[i] \in Messages
  BY DEF MessageType
<1>3. QED
  BY <1>1, <1>2 DEF After, News, talk

LEMMA GrowsKeeps ==
  ASSUME MessageType, MessageType', Grows
  PROVE  /\ \A i \in 1..Len(messages) : talk'[i] = talk[i]
         /\ Len(messages') \in {Len(messages), Len(messages) + 1}
         /\ After' \in {After, After + 1} /\ News' = 0..Len(messages')
         /\ Silent => \A i \in 1..Len(messages') :
                         i <= Len(messages) \/ talk'[i].type # "STATE"
         /\ \A o, n \in GstStates : Spoken(o, n) =>
               /\ Len(messages') = Len(messages) + 1
               /\ talk'[Len(messages) + 1] = StateChanged(o, n)
<1>1. Len(messages) \in Nat /\ Len(messages') \in Nat
  BY DEF MessageType
<1>2. ASSUME NEW m, messages' = Append(messages, m)
      PROVE  /\ Len(messages') = Len(messages) + 1
             /\ \A i \in 1..Len(messages) : messages'[i] = messages[i]
             /\ messages'[Len(messages) + 1] = m
  BY <1>2 DEF MessageType
<1>3. \A i \in 1..Len(messages') : talk'[i] = messages'[i]
  BY <1>1 DEF talk, News
<1>4. \A i \in 1..Len(messages) : talk[i] = messages[i]
  BY <1>1 DEF talk, News
<1>5. /\ Len(messages') \in {Len(messages), Len(messages) + 1}
      /\ \A i \in 1..Len(messages) : messages'[i] = messages[i]
  BY <1>2 DEF Grows, Silent, Spoken
<1>6. Silent => \A i \in 1..Len(messages') :
                   i <= Len(messages) \/ messages'[i].type # "STATE"
  <2>1. CASE messages' = messages
    BY <2>1, <1>1
  <2>2. ASSUME NEW m \in Messages, m.type # "STATE",
               messages' = Append(messages, m)
        PROVE  \A i \in 1..Len(messages') :
                  i <= Len(messages) \/ messages'[i].type # "STATE"
    BY <1>1, <1>2, <2>2
  <2>3. QED
    BY <2>1, <2>2 DEF Silent
<1>7. \A o, n \in GstStates : Spoken(o, n) =>
         /\ Len(messages') = Len(messages) + 1
         /\ messages'[Len(messages) + 1] = StateChanged(o, n)
  BY <1>2 DEF Spoken
<1>8. QED
  BY <1>1, <1>3, <1>4, <1>5, <1>6, <1>7 DEF After, News

\* A step that lets the queue grow lets stand what the player will believe.
LEMMA BelievedKept ==
  ASSUME MessageType, MessageType', Grows, HeadMoves,
         NEW k \in 1..After, NEW x \in {"PAUSED", "PLAYING"},
         Believed(talk, m_PlayerState, k, x)
  PROVE  Believed(talk', m_PlayerState', k, x)
<1>1. k \in Nat \ {0} /\ \A i \in 1..(k - 1) : talk'[i] = talk[i]
  BY TalkTypes, GrowsKeeps
<1>2. CASE HeadKept /\ FitsKept
  <2>1. Agree(talk, talk', k - 1)
    BY <1>1, <1>2 DEF Agree, HeadKept
  <2>2. QED
    BY <1>1, <1>2, <2>1, BelievedAgrees DEF FitsKept
<1>3. CASE Popped
  BY <1>1, <1>3, BelievedPopped DEF Popped
<1>4. QED
  BY <1>2, <1>3 DEF HeadMoves

LEMMA BelievedAfter ==
  ASSUME MessageType, MessageType', Silent, HeadMoves,
         NEW x \in {"PAUSED", "PLAYING"},
         Believed(talk, m_PlayerState, After, x)
  PROVE  Believed(talk', m_PlayerState', After', x)
<1>1. After \in 1..After /\ After \in Nat /\ Len(messages) \in Nat
  BY TalkTypes DEF After
<1>2. Grows
  BY DEF Grows
<1>3. Believed(talk', m_PlayerState', After, x)
  BY <1>1, <1>2, BelievedKept
<1>4. CASE Len(messages') = Len(messages)
  BY <1>3, <1>4 DEF After
<1>5. CASE Len(messages') = Len(messages) + 1
  <2>1. After' = After + 1 /\ After \in 1..Len(messages') /\ ~(After <= Len(messages))
    BY <1>1, <1>5 DEF After
  <2>2. talk'[After].type # "STATE"
    BY <1>2, <2>1, GrowsKeeps
  <2>3. QED
    BY <1>1, <1>3, <2>1, <2>2, BelievedNoMore
<1>6. QED
  BY <1>2, <1>4, <1>5, GrowsKeeps

LEMMA BelievedSpoken ==
  ASSUME MessageType, MessageType', NEW o \in GstStates, NEW n \in GstStates,
         Spoken(o, n)
  PROVE  Believed(talk', m_PlayerState', After', n)
<1>1. /\ Len(messages) + 1 = After /\ After' = After + 1 /\ After \in Nat
      /\ talk'[After] = StateChanged(o, n)
  BY GrowsKeeps, TalkTypes DEF Grows, After
<1>2. talk'[After].type = "STATE" /\ talk'[After].new = n
  BY <1>1 DEF StateChanged
<1>3. QED
  BY <1>1, <1>2, BelievedTold

LEMMA LastTellsKept ==
  ASSUME MessageType, MessageType', HeadMoves, LastTells,
         \/ gst'.pending # "VOID" /\ gst'.state # "PLAYING"
         \/ /\ Silent /\ gst'.state = gst.state
            /\ gst.state \in {"PAUSED", "PLAYING"}
            /\ gst.pending = "VOID" \/ gst.state = "PLAYING"
         \/ \E o \in GstStates : gst'.state \in GstStates /\ Spoken(o, gst'.state)
  PROVE  LastTells'
<1>1. CASE gst'.pending # "VOID" /\ gst'.state # "PLAYING"
  BY <1>1 DEF LastTells
<1>2. CASE /\ Silent /\ gst'.state = gst.state
           /\ gst.state \in {"PAUSED", "PLAYING"}
           /\ gst.pending = "VOID" \/ gst.state = "PLAYING"
  <2>1. Believed(talk, m_PlayerState, After, gst.state)
    BY <1>2 DEF LastTells
  <2>2. Believed(talk', m_PlayerState', After', gst'.state)
    BY <1>2, <2>1, BelievedAfter
  <2>3. QED
    BY <2>2 DEF LastTells
<1>3. ASSUME NEW o \in GstStates, gst'.state \in GstStates, Spoken(o, gst'.state)
      PROVE  LastTells'
  <2>1. Believed(talk', m_PlayerState', After', gst'.state)
    BY <1>3, BelievedSpoken
  <2>2. QED
    BY <2>1 DEF LastTells
<1>4. QED
  BY <1>1, <1>2, <1>3

LEMMA ChainKept ==
  ASSUME MessageType, MessageType', HeadMoves, Chain,
         \/ Silent
         \/ \E o, n \in GstStates :
               /\ Spoken(o, n) /\ <<o, n>> \in Changes
               /\ o = "PLAYING" => Believed(talk, m_PlayerState, After, "PLAYING")
  PROVE  Chain'
<1> DEFINE Fine(f, s, k) ==
      f[k].type = "STATE" =>
        /\ <<f[k].old, f[k].new>> \in Changes
        /\ f[k].old = "PLAYING" => Believed(f, s, k, "PLAYING")
<1>1. Grows /\ Len(messages) \in Nat /\ After = Len(messages) + 1
  BY TalkTypes DEF Grows, After
<1>2. ASSUME NEW k \in 1..Len(messages) PROVE Fine(talk', m_PlayerState', k)
  <2>1. talk'[k] = talk[k] /\ k \in News /\ k \in 1..After
    BY <1>1, GrowsKeeps, TalkTypes
  <2>2. Believed(talk, m_PlayerState, k, "PLAYING") =>
           Believed(talk', m_PlayerState', k, "PLAYING")
    BY <1>1, <2>1, BelievedKept
  <2>3. QED
    BY <2>1, <2>2 DEF Chain
<1>3. Fine(talk', m_PlayerState', 0)
  <2>1. CASE talk'[0].type # "STATE"
    BY <2>1
  <2>2. CASE talk'[0].type = "STATE"
    <3>1. talk'[0] = talk[0] /\ FitsKept /\ 0 \in News
      BY <2>2, TalkTypes DEF HeadMoves, HeadKept, Popped
    <3>2. Believed(talk, m_PlayerState, 0, "PLAYING") =>
             Believed(talk', m_PlayerState', 0, "PLAYING")
      BY <3>1, BelievedStart DEF FitsKept
    <3>3. QED
      BY <3>1, <3>2 DEF Chain
  <2>3. QED
    BY <2>1, <2>2
<1>4. CASE Silent
  <2>1. \A k \in 1..Len(messages') : Fine(talk', m_PlayerState', k)
    BY <1>1, <1>2, <1>4, GrowsKeeps
  <2>2. QED
    BY <1>1, <1>3, <2>1, GrowsKeeps DEF Chain
<1>5. ASSUME NEW o \in GstStates, NEW n \in GstStates, Spoken(o, n),
             <<o, n>> \in Changes,
             o = "PLAYING" => Believed(talk, m_PlayerState, After, "PLAYING")
      PROVE  Chain'
  <2>1. /\ Len(messages') = After /\ talk'[After] = StateChanged(o, n)
        /\ News' = 0..After /\ After \in 1..After
    BY <1>1, <1>5, GrowsKeeps, TalkTypes
  <2>2. o = "PLAYING" => Believed(talk', m_PlayerState', After, "PLAYING")
    BY <1>1, <1>5, <2>1, BelievedKept
  <2>3. Fine(talk', m_PlayerState', After)
    BY <1>5, <2>1, <2>2 DEF StateChanged
  <2>4. QED
    BY <1>1, <1>2, <1>3, <2>1, <2>3 DEF Chain
<1>6. QED
  BY <1>4, <1>5

LEMMA RepeatsKept ==
  ASSUME MessageType, MessageType', HeadMoves, Repeats, Excused => Excused',
         \/ Silent
         \/ \E o, n \in GstStates :
               /\ Spoken(o, n)
               /\ o = "PAUSED" /\ n = "PAUSED" =>
                     Excused' \/ Believed(talk, m_PlayerState, After, "PAUSED")
  PROVE  Repeats'
<1> DEFINE Again(f, k) ==
      f[k].type = "STATE" /\ f[k].old = "PAUSED" /\ f[k].new = "PAUSED"
<1>1. Grows /\ Len(messages) \in Nat /\ After = Len(messages) + 1
  BY TalkTypes DEF Grows, After
<1>2. ASSUME NEW k \in 1..Len(messages), Again(talk', k)
      PROVE  Excused' \/ Believed(talk', m_PlayerState', k, "PAUSED")
  <2>1. talk'[k] = talk[k] /\ k \in News /\ k \in 1..After
    BY <1>1, GrowsKeeps, TalkTypes
  <2>2. Believed(talk, m_PlayerState, k, "PAUSED") =>
           Believed(talk', m_PlayerState', k, "PAUSED")
    BY <1>1, <2>1, BelievedKept
  <2>3. QED
    BY <1>2, <2>1, <2>2 DEF Repeats
<1>3. ASSUME Again(talk', 0)
      PROVE  Excused' \/ Believed(talk', m_PlayerState', 0, "PAUSED")
  <2>1. talk'[0] = talk[0] /\ FitsKept /\ 0 \in News
    BY <1>3, TalkTypes DEF HeadMoves, HeadKept, Popped
  <2>2. Believed(talk, m_PlayerState, 0, "PAUSED") =>
           Believed(talk', m_PlayerState', 0, "PAUSED")
    BY <2>1, BelievedStart DEF FitsKept
  <2>3. QED
    BY <1>3, <2>1, <2>2 DEF Repeats
<1>4. CASE Silent
  <2>1. \A k \in 1..Len(messages') : Again(talk', k) =>
           Excused' \/ Believed(talk', m_PlayerState', k, "PAUSED")
    BY <1>1, <1>2, <1>4, GrowsKeeps
  <2>2. QED
    BY <1>1, <1>3, <2>1, GrowsKeeps DEF Repeats
<1>5. ASSUME NEW o \in GstStates, NEW n \in GstStates, Spoken(o, n),
             o = "PAUSED" /\ n = "PAUSED" =>
                Excused' \/ Believed(talk, m_PlayerState, After, "PAUSED")
      PROVE  Repeats'
  <2>1. /\ Len(messages') = After /\ talk'[After] = StateChanged(o, n)
        /\ News' = 0..After /\ After \in 1..After
    BY <1>1, <1>5, GrowsKeeps, TalkTypes
  <2>2. Believed(talk, m_PlayerState, After, "PAUSED") =>
           Believed(talk', m_PlayerState', After, "PAUSED")
    BY <1>1, <2>1, BelievedKept
  <2>3. Again(talk', After) =>
           Excused' \/ Believed(talk', m_PlayerState', After, "PAUSED")
    BY <1>5, <2>1, <2>2 DEF StateChanged
  <2>4. QED
    BY <1>1, <1>2, <1>3, <2>1, <2>3 DEF Repeats
<1>6. QED
  BY <1>4, <1>5

LEMMA PrerollKept ==
  ASSUME MessageType, MessageType', HeadMoves,
         \/ ~(gst'.pending # "VOID" /\ gst'.state = "PAUSED"
                /\ gst'.target = "PAUSED")
         \/ Excused'
         \/ Silent /\ Believed(talk, m_PlayerState, After, "PAUSED")
  PROVE  Preroll'
<1>1. Silent /\ Believed(talk, m_PlayerState, After, "PAUSED") =>
         Believed(talk', m_PlayerState', After', "PAUSED")
  BY BelievedAfter
<1>2. QED
  BY <1>1 DEF Preroll

-----------------------------------------------------------------------------
(* What the pipeline does, and what it tells.                              *)

Quiet == gst' = gst /\ Silent

CompleteEffect ==
    /\ gst.pending # "VOID"
    /\ gst'.state = gst.target /\ gst'.pending = "VOID" /\ gst'.target = gst.target
    /\ IF gst.target = "PAUSED" THEN Spoken(gst.state, "PAUSED")
                                ELSE Spoken("PAUSED", "PLAYING")

SeekEffect ==
    /\ messages' = messages
    /\ \/ gst.pending # "VOID" /\ gst' = gst
       \/ /\ gst.pending = "VOID" /\ gst'.state = "PAUSED"
          /\ gst'.pending = "PAUSED" /\ gst'.target = gst.target

\* A pause is asked of a pipeline that plays, or for a reason.
PauseEffect == PausedEffect /\ (IsPlaying \/ Excused)

\* The pipeline is not told to play while it prerolls for a note.
PlayEffect == PlayingEffect /\ (gst.pending = "VOID" \/ ~Noted)

Effect == Quiet \/ CompleteEffect \/ PlayEffect \/ PauseEffect \/ SeekEffect

\* The same whoever asks.
AnyEffect ==
    Quiet \/ CompleteEffect \/ PlayingEffect \/ PausedEffect \/ SeekEffect

LEMMA Speaks ==
  ASSUME MessageType, gst.state # "NULL", NEW o \in GstStates, NEW n \in GstStates,
         Post(<<StateChanged(o, n)>>)
  PROVE  Spoken(o, n)
<1>1. StateChanged(o, n) \in Messages
  BY DEF StateChanged, Messages
<1>2. QED
  BY <1>1, PostOne DEF Spoken

LEMMA TargetKept ==
  ASSUME StreamType, Changing, Changing', gst.state # "NULL", Target, AnyEffect
  PROVE  Target'
<1> USE DEF Target, Changing
<1>1. CASE Quiet
  BY <1>1 DEF Quiet
<1>2. CASE CompleteEffect
  BY <1>2 DEF CompleteEffect
<1>3. CASE PlayingEffect
  BY <1>3 DEF PlayingEffect
<1>4. CASE PausedEffect
  BY <1>4 DEF PausedEffect
<1>5. CASE SeekEffect
  BY <1>5 DEF SeekEffect
<1>6. QED
  BY <1>1, <1>2, <1>3, <1>4, <1>5 DEF AnyEffect

LEMMA LastTellsGoesOn ==
  ASSUME StreamType, MessageType, MessageType', Changing, gst.state # "NULL",
         Target, Effect, HeadMoves, LastTells
  PROVE  LastTells'
<1> USE DEF Target, Changing
<1>1. messages' = messages => Silent
  BY DEF Silent
<1>2. CASE Quiet
  BY <1>2, LastTellsKept DEF Quiet
<1>3. CASE CompleteEffect
  <2>1. gst.state \in GstStates
    BY DEF StreamType, GstType
  <2>2. CASE gst.target = "PAUSED"
    BY <1>3, <2>1, <2>2, GstNames, LastTellsKept DEF CompleteEffect
  <2>3. CASE gst.target = "PLAYING"
    BY <1>3, <2>3, GstNames, LastTellsKept DEF CompleteEffect
  <2>4. QED
    BY <2>2, <2>3
<1>4. CASE PlayingEffect
  <2>1. CASE Post(<<StateChanged("PAUSED", "PLAYING")>>) /\ gst'.state = "PLAYING"
    BY <2>1, GstNames, Speaks, LastTellsKept
  <2>2. CASE messages' = messages /\ gst'.state = gst.state
             /\ (gst'.pending = gst.pending \/ gst'.pending # "VOID")
    BY <1>1, <2>2, LastTellsKept
  <2>3. QED
    BY <1>4, <2>1, <2>2 DEF PlayingEffect
<1>5. CASE PauseEffect
  <2>1. CASE Post(<<StateChanged("PLAYING", "PAUSED")>>) /\ gst'.state = "PAUSED"
    BY <2>1, GstNames, Speaks, LastTellsKept
  <2>2. CASE messages' = messages /\ gst'.state = gst.state
             /\ (gst'.pending = gst.pending \/ gst'.pending # "VOID")
    BY <1>1, <2>2, LastTellsKept
  <2>3. QED
    BY <1>5, <2>1, <2>2 DEF PauseEffect, PausedEffect
<1>6. CASE SeekEffect
  BY <1>1, <1>6, LastTellsKept DEF SeekEffect
<1>7. QED
  BY <1>2, <1>3, <1>4, <1>5, <1>6 DEF Effect, PlayEffect

LEMMA ChainGoesOn ==
  ASSUME StreamType, MessageType, MessageType', Changing, gst.state # "NULL",
         Effect, HeadMoves, LastTells, Chain
  PROVE  Chain'
<1>1. messages' = messages => Silent
  BY DEF Silent
<1>2. gst.state = "PLAYING" => Believed(talk, m_PlayerState, After, "PLAYING")
  BY DEF LastTells
<1>3. CASE Silent
  BY <1>3, ChainKept
<1>4. CASE Spoken("PAUSED", "PLAYING")
  BY <1>4, GstNames, ChainKept DEF Changes
<1>5. CASE Spoken(gst.state, "PAUSED")
  <2>1. gst.state \in {"READY", "PAUSED", "PLAYING"}
    BY DEF StreamType, GstType, GstStates
  <2>2. <<gst.state, "PAUSED">> \in Changes /\ gst.state \in GstStates
    BY <2>1 DEF Changes, GstStates
  <2>3. QED
    BY <1>2, <1>5, <2>2, GstNames, ChainKept
<1>6. QED
  <2>1. CASE Quiet \/ SeekEffect
    BY <1>1, <1>3, <2>1 DEF Quiet, SeekEffect
  <2>2. CASE CompleteEffect
    BY <1>4, <1>5, <2>2 DEF CompleteEffect
  <2>3. CASE PlayingEffect
    BY <1>1, <1>3, <1>4, <2>3, GstNames, Speaks DEF PlayingEffect
  <2>4. CASE PauseEffect
    BY <1>1, <1>3, <1>5, <2>4, GstNames, Speaks DEF PauseEffect, PausedEffect
  <2>5. QED
    BY <2>1, <2>2, <2>3, <2>4 DEF Effect, PlayEffect

LEMMA RepeatsGoesOn ==
  ASSUME StreamType, MessageType, MessageType', gst.state # "NULL", Changing,
         Effect, HeadMoves, Repeats, Preroll, Excused => Excused'
  PROVE  Repeats'
<1>1. messages' = messages => Silent
  BY DEF Silent
<1>2. CASE Silent
  BY <1>2, RepeatsKept
<1>3. ASSUME NEW o \in GstStates, NEW n \in GstStates, Spoken(o, n),
             o # "PAUSED" \/ n # "PAUSED"
      PROVE  Repeats'
  BY <1>3, RepeatsKept
<1>4. CASE CompleteEffect
  <2>1. CASE gst.target = "PAUSED" /\ gst.state = "PAUSED"
    <3>1. Excused' \/ Believed(talk, m_PlayerState, After, "PAUSED")
      BY <1>4, <2>1 DEF CompleteEffect, Preroll
    <3>2. QED
      BY <1>4, <2>1, <3>1, GstNames, RepeatsKept DEF CompleteEffect
  <2>2. CASE gst.target = "PAUSED" /\ gst.state # "PAUSED"
    BY <1>3, <1>4, <2>2, GstNames DEF CompleteEffect, StreamType, GstType
  <2>3. CASE gst.target # "PAUSED"
    BY <1>3, <1>4, <2>3, GstNames DEF CompleteEffect
  <2>4. QED
    BY <2>1, <2>2, <2>3
<1>5. CASE Quiet \/ SeekEffect
  BY <1>1, <1>2, <1>5 DEF Quiet, SeekEffect
<1>6. CASE PlayingEffect
  BY <1>1, <1>2, <1>3, <1>6, GstNames, Speaks DEF PlayingEffect
<1>7. CASE PauseEffect
  BY <1>1, <1>2, <1>3, <1>7, GstNames, Speaks DEF PauseEffect, PausedEffect
<1>8. QED
  BY <1>4, <1>5, <1>6, <1>7 DEF Effect, PlayEffect

LEMMA PrerollGoesOn ==
  ASSUME StreamType, MessageType, MessageType', gst.state # "NULL", Target,
         Effect, HeadMoves, LastTells, Preroll, Excused => Excused'
  PROVE  Preroll'
<1>1. messages' = messages => Silent
  BY DEF Silent
<1>2. CASE Quiet
  BY <1>2, PrerollKept DEF Quiet, Preroll
<1>3. CASE CompleteEffect
  BY <1>3, PrerollKept DEF CompleteEffect
<1>4. CASE PlayingEffect
  BY <1>4, PrerollKept DEF PlayingEffect, Target
<1>5. CASE PauseEffect
  <2>1. CASE gst.pending = "VOID" /\ gst.state = "PAUSED"
    BY <1>5, <2>1, PrerollKept DEF PauseEffect, PausedEffect
  <2>2. CASE gst.pending = "VOID" /\ gst.state = "PLAYING"
    BY <1>5, <2>2, PrerollKept DEF PauseEffect, PausedEffect
  <2>3. CASE gst.pending # "VOID"
    BY <1>5, <2>3, PrerollKept DEF PauseEffect, IsPlaying
  <2>4. QED
    BY <2>1, <2>2, <2>3 DEF Target
<1>6. CASE SeekEffect
  <2>1. CASE gst.pending # "VOID"
    BY <1>1, <1>6, <2>1, PrerollKept DEF SeekEffect, Preroll
  <2>2. CASE gst.pending = "VOID"
    BY <1>1, <1>6, <2>2, PrerollKept DEF SeekEffect, Target, LastTells
  <2>3. QED
    BY <2>1, <2>2
<1>7. QED
  BY <1>2, <1>3, <1>4, <1>5, <1>6 DEF Effect, PlayEffect

-----------------------------------------------------------------------------
(* What the single steps do to it.                                         *)

\* The message being handled is done with.
Handled ==
    /\ UpdatePlayerState \/ (HandleStateChanged /\ ~Concerns)
    /\ talk[0].type = "STATE" /\ talk'[0].type # "STATE"

LEMMA HeadCases == MessageType /\ MessageType' /\ ThreadType /\ Control /\
   BusIdle /\ [Next]_vars => HeadKept \/ TakeMessage \/ Handled
<1> SUFFICES ASSUME MessageType, MessageType', ThreadType, Control, BusIdle,
   [Next]_vars PROVE HeadKept \/ TakeMessage \/ Handled
  OBVIOUS
<1> USE DEF player, rate, buffer, source, count, threads
<1>head. /\ talk[0] = IF pc["bus"] = "done" THEN NoMessage ELSE msg
         /\ talk'[0] = IF pc'["bus"] = "done" THEN NoMessage ELSE msg'
  <2>1. Len(messages) \in Nat /\ Len(messages') \in Nat
    BY DEF MessageType
  <2>2. QED
    BY <2>1 DEF talk, News
<1>1. CASE AsyncDone
  BY <1>1, <1>head DEF AsyncDone, HeadKept, Control, ThreadType, Threads,
     NoMessage
<1>2. CASE Render
  BY <1>2, <1>head DEF Render, Post, Message, HeadKept, Control, ThreadType,
     Threads, NoMessage
<1>3. CASE EndOfStream
  BY <1>3, <1>head DEF EndOfStream, Post, Message, HeadKept, Control,
     ThreadType, Threads, NoMessage
<1>4. CASE Download
  BY <1>4, <1>head DEF Download, Post, Message, HeadKept, Control, ThreadType,
     Threads, NoMessage
<1>5. CASE Underrun
  BY <1>5, <1>head DEF Underrun, Post, Message, HeadKept, Control, ThreadType,
     Threads, NoMessage
<1>6. CASE Fault
  BY <1>6, <1>head DEF Fault, Post, Message, HeadKept, Control, ThreadType,
     Threads, NoMessage
<1>7. ASSUME NEW c \in Calls \ {"finish"}, Call(c) PROVE HeadKept \/
   TakeMessage \/ Handled
  BY <1>7, <1>head DEF Call, FirstStep, Enter, KeepStream, HeadKept, Control,
     ThreadType, Threads, NoMessage
<1>8. CASE StopTimeReached
  BY <1>8, <1>head DEF StopTimeReached, Goto, KeepStream, HeadKept, Control,
     ThreadType, Threads, NoMessage
<1>9. ASSUME NEW t \in Threads, Play(t) PROVE HeadKept \/ TakeMessage \/
   Handled
  BY <1>9, <1>head DEF Play, Goto, Return, Cross, KeepRest, KeepStream,
     HeadKept, Control, ThreadType, Threads, NoMessage
<1>10. ASSUME NEW t \in Threads, SetPlaying(t) PROVE HeadKept \/ TakeMessage
   \/ Handled
  BY <1>10, <1>head DEF SetPlaying, Return, Cross, HeadKept, Control,
     ThreadType, Threads, NoMessage
<1>11. ASSUME NEW t \in Threads, PauseTest(t) PROVE HeadKept \/ TakeMessage \/
   Handled
  BY <1>11, <1>head DEF PauseTest, Goto, Return, Cross, KeepRest, KeepStream,
     HeadKept, Control, ThreadType, Threads, NoMessage
<1>12. ASSUME NEW t \in Threads, PauseMark(t) PROVE HeadKept \/ TakeMessage \/
   Handled
  BY <1>12, <1>head DEF PauseMark, Goto, Return, Cross, KeepRest, KeepStream,
     HeadKept, Control, ThreadType, Threads, NoMessage
<1>13. ASSUME NEW t \in Threads, StopTest(t) PROVE HeadKept \/ TakeMessage \/
   Handled
  BY <1>13, <1>head DEF StopTest, Goto, Return, Cross, KeepRest, KeepStream,
     HeadKept, Control, ThreadType, Threads, NoMessage
<1>14. ASSUME NEW t \in Threads, StopMark(t) PROVE HeadKept \/ TakeMessage \/
   Handled
  BY <1>14, <1>head DEF StopMark, Goto, Cross, KeepRest, KeepStream, HeadKept,
     Control, ThreadType, Threads, NoMessage
<1>15. ASSUME NEW t \in Threads, FinishTest(t) PROVE HeadKept \/ TakeMessage
   \/ Handled
  BY <1>15, <1>head DEF FinishTest, Goto, Return, KeepMedia, KeepRest,
     KeepStream, HeadKept, Control, ThreadType, Threads, NoMessage
<1>16. ASSUME NEW t \in Threads, InternalPause(t) PROVE HeadKept \/
   TakeMessage \/ Handled
  BY <1>16, <1>head DEF InternalPause, Goto, Return, Cross, KeepRest,
     KeepStream, HeadKept, Control, ThreadType, Threads, NoMessage
<1>17. ASSUME NEW t \in Threads, SetPaused(t) PROVE HeadKept \/ TakeMessage \/
   Handled
  BY <1>17, <1>head DEF SetPaused, Return, Cross, HeadKept, Control,
     ThreadType, Threads, NoMessage
<1>18. ASSUME NEW t \in Threads, SeekTest(t) PROVE HeadKept \/ TakeMessage \/
   Handled
  BY <1>18, <1>head DEF SeekTest, Goto, Return, KeepMedia, KeepRest,
     KeepStream, HeadKept, Control, ThreadType, Threads, NoMessage
<1>19. ASSUME NEW t \in Threads, SeekPipeline(t) PROVE HeadKept \/ TakeMessage
   \/ Handled
  BY <1>19, <1>head DEF SeekPipeline, Goto, Return, KeepStream, FlushingSeek,
     HeadKept, Control, ThreadType, Threads, NoMessage
<1>20. ASSUME NEW t \in Threads, SeekResume(t) PROVE HeadKept \/ TakeMessage
   \/ Handled
  BY <1>20, <1>head DEF SeekResume, Goto, Return, KeepMedia, KeepRest,
     KeepStream, HeadKept, Control, ThreadType, Threads, NoMessage
<1>21. ASSUME NEW t \in Threads, RateZero(t) PROVE HeadKept \/ TakeMessage \/
   Handled
  BY <1>21, <1>head DEF RateZero, Enter, Return, KeepMedia, KeepRest,
     KeepStream, HeadKept, Control, ThreadType, Threads, NoMessage
<1>22. ASSUME NEW t \in Threads, RateStore(t) PROVE HeadKept \/ TakeMessage \/
   Handled
  BY <1>22, <1>head DEF RateStore, Return, KeepMedia, KeepRest, KeepStream,
     HeadKept, Control, ThreadType, Threads, NoMessage
<1>23. ASSUME NEW t \in Threads, RateSeek(t) PROVE HeadKept \/ TakeMessage \/
   Handled
  BY <1>23, <1>head DEF RateSeek, Return, KeepMedia, KeepRest, KeepStream,
     FlushingSeek, HeadKept, Control, ThreadType, Threads, NoMessage
<1>24. ASSUME NEW t \in Threads, PauseFails(t) PROVE HeadKept \/ TakeMessage
   \/ Handled
  BY <1>24, <1>head DEF PauseFails, Enter, Return, Post, Message, HeadKept,
     Control, ThreadType, Threads, NoMessage
<1>25. CASE TakeMessage
  BY <1>25
<1>26. CASE BusMoves
  BY <1>26, <1>head DEF BusMoves, BusCallback, DropReference,
     BusCallbackDestroyNotify, FreeMeHere, HeadKept, mvars
<1>27. CASE HandleStateChanged
  <2>1. CASE Concerns
    BY <1>27, <2>1, <1>head DEF HandleStateChanged, Handling, Goto, Enter,
       HeadKept,
       ThreadType, Threads, NoMessage
  <2>2. CASE ~Concerns
    BY <1>27, <2>2, <1>head DEF HandleStateChanged, Handling, Goto, Handled,
       ThreadType, Threads, NoMessage
  <2>3. QED
    BY <2>1, <2>2
<1>28. CASE UpdatePlayerState
  <2>1. talk[0].type = "STATE" /\ talk'[0].type # "STATE"
    BY <1>28, <1>head DEF UpdatePlayerState, Goto, Control, ThreadType, Threads,
       NoMessage
  <2>2. Handled
    BY <1>28, <2>1, Zenon DEF Handled
  <2>3. QED
    BY <2>2
<1>29. CASE HandleEOS
  BY <1>29, <1>head DEF HandleEOS, Handling, Goto, Cross, KeepStream,
     HeadKept, Control, ThreadType, Threads, NoMessage
<1>30. CASE HandleError
  BY <1>30, <1>head DEF HandleError, Handling, Goto, KeepStream, HeadKept,
     Control, ThreadType, Threads, NoMessage, ErrorStops
<1>31. CASE TornDown
  BY <1>31, <1>head DEF TornDown, Goto, HeadKept, Control, ThreadType,
     Threads, NoMessage, BusIdle, ErrorStopped
<1>32. CASE HandleProgress
  BY <1>32, <1>head DEF HandleProgress, Handling, Goto, KeepBus, KeepStream,
     HeadKept, Control, ThreadType, Threads, NoMessage
<1>33. CASE HandleUnderrun
  BY <1>33, <1>head DEF HandleUnderrun, Handling, Goto, KeepBus, KeepStream,
     HeadKept, Control, ThreadType, Threads, NoMessage
<1>34. CASE Stall
  BY <1>34, <1>head DEF Stall, Goto, KeepBus, KeepStream, HeadKept, Control,
     ThreadType, Threads, NoMessage
<1>35. CASE HandleHLSBuffer
  BY <1>35, <1>head DEF HandleHLSBuffer, Handling, Goto, KeepBus, KeepStream,
     HeadKept, Control, ThreadType, Threads, NoMessage
<1>36. CASE HandlerDone
  BY <1>36, <1>head DEF HandlerDone, KeepStream, HeadKept, Control,
     ThreadType, Threads, NoMessage
<1>37. CASE Dispose
  BY <1>37, <1>head DEF Dispose, HeadKept, mvars
<1>38. CASE Pads
  BY <1>38, <1>head DEF Pads, HeadKept, mvars
<1>39. CASE UNCHANGED vars
  BY <1>39, <1>head DEF vars, mvars, HeadKept
<1>40. QED
  BY <1>1, <1>2, <1>3, <1>4, <1>5, <1>6, <1>7, <1>8, <1>9, <1>10, <1>11,
     <1>12, <1>13, <1>14, <1>15, <1>16, <1>17, <1>18, <1>19, <1>20, <1>21,
     <1>22, <1>23, <1>24, <1>25, <1>26, <1>27, <1>28, <1>29, <1>30, <1>31,
     <1>32, <1>33, <1>34, <1>35, <1>36, <1>37, <1>38, <1>39, NextCases DEF
     ThreadStep

LEMMA FitsCases == PlayerType /\ [Next]_vars => FitsKept \/ UpdatePlayerState
   \/ TornDown
<1> SUFFICES ASSUME PlayerType, [Next]_vars PROVE FitsKept \/
   UpdatePlayerState \/ TornDown
  OBVIOUS
<1> USE DEF player, rate, buffer, source, count, threads
<1>1. ASSUME NEW t \in Threads, PauseMark(t) PROVE FitsKept \/
   UpdatePlayerState \/ TornDown
  BY <1>1 DEF PauseMark, Goto, Return, Cross, KeepRest, KeepStream, FitsKept,
     Fits, Still
<1>2. CASE UpdatePlayerState
  BY <1>2
<1>3. CASE HandleEOS
  BY <1>3 DEF HandleEOS, Handling, Goto, Cross, KeepStream, FitsKept, Fits,
     Still
<1>4. CASE TornDown
  BY <1>4
<1>5. ASSUME NEW t \in Threads, Play(t) \/ SetPlaying(t) \/ PauseTest(t) \/
   StopTest(t) \/ StopMark(t) \/ FinishTest(t) \/ InternalPause(t) \/
   SetPaused(t) \/ SeekTest(t) \/ SeekPipeline(t) \/ SeekResume(t) \/
   RateZero(t) \/ RateStore(t) \/ RateSeek(t) \/ PauseFails(t) PROVE FitsKept
   \/ UpdatePlayerState \/ TornDown
  BY <1>5 DEF Play, Goto, Return, Cross, KeepRest, KeepStream, SetPlaying,
     PauseTest, StopTest, StopMark, FinishTest, KeepMedia, InternalPause,
     SetPaused, SeekTest, SeekPipeline, FlushingSeek, SeekResume, RateZero,
     Enter, RateStore, RateSeek, PauseFails, Post, Message, FitsKept, mvars
<1>6. CASE AsyncDone \/ Render \/ EndOfStream \/ Download \/ Underrun \/ Fault
   \/ StopTimeReached \/ TakeMessage \/ BusMoves \/ HandleStateChanged \/
   HandleError \/ HandleProgress \/ HandleUnderrun \/ Stall \/ HandleHLSBuffer
   \/ HandlerDone \/ Dispose \/ Pads \/ UNCHANGED vars
  BY <1>6 DEF vars, mvars, AsyncDone, Render, Post, Message, EndOfStream,
     Download, Underrun, Fault, StopTimeReached, Goto, KeepStream,
     TakeMessage, BusMoves, BusCallback, DropReference,
     BusCallbackDestroyNotify, FreeMeHere, HandleStateChanged, Handling,
     Enter, KeepBus, HandleError, HandleProgress, HandleUnderrun, Stall,
     HandleHLSBuffer, HandlerDone, Dispose, Pads, FitsKept, mvars
<1>7. ASSUME NEW c \in Calls \ {"finish"}, Call(c) PROVE FitsKept \/
   UpdatePlayerState \/ TornDown
  BY <1>7 DEF Call, FirstStep, Enter, KeepStream, FitsKept, mvars
<1>8. QED
  BY <1>1, <1>2, <1>3, <1>4, <1>5, <1>6, <1>7, NextCases DEF ThreadStep

LEMMA ExcuseCases == PlayerType /\ FlagType /\ [Next]_vars => (Excused =>
   Excused') \/ UpdatePlayerState \/ (\E u \in Threads : PauseFails(u))
<1> SUFFICES ASSUME PlayerType, FlagType, [Next]_vars PROVE (Excused =>
   Excused') \/ UpdatePlayerState \/ (\E u \in Threads : PauseFails(u))
  OBVIOUS
<1> USE DEF player, rate, buffer, source, count, threads
<1>1. ASSUME NEW t \in Threads, PauseMark(t) PROVE (Excused => Excused') \/
   UpdatePlayerState \/ (\E u \in Threads : PauseFails(u))
  BY <1>1 DEF PauseMark, Goto, Return, Cross, KeepRest, KeepStream, Excused,
     Noted
<1>2. ASSUME NEW t \in Threads, StopMark(t) PROVE (Excused => Excused') \/
   UpdatePlayerState \/ (\E u \in Threads : PauseFails(u))
  BY <1>2 DEF StopMark, Goto, Cross, KeepRest, KeepStream, Excused, Noted
<1>3. ASSUME NEW t \in Threads, PauseFails(t) PROVE (Excused => Excused') \/
   UpdatePlayerState \/ (\E u \in Threads : PauseFails(u))
  BY <1>3
<1>4. CASE UpdatePlayerState
  BY <1>4
<1>5. CASE Stall
  BY <1>5 DEF Stall, Goto, KeepBus, KeepStream, Excused, Noted
<1>6. ASSUME NEW t \in Threads, Play(t) \/ SetPlaying(t) \/ PauseTest(t) \/
   StopTest(t) \/ FinishTest(t) \/ InternalPause(t) \/ SetPaused(t) \/
   SeekTest(t) \/ SeekPipeline(t) \/ SeekResume(t) \/ RateZero(t) \/
   RateStore(t) \/ RateSeek(t) PROVE (Excused => Excused') \/
   UpdatePlayerState \/ (\E u \in Threads : PauseFails(u))
  BY <1>6 DEF Play, Goto, Return, Cross, KeepRest, KeepStream, SetPlaying,
     PauseTest, StopTest, FinishTest, KeepMedia, InternalPause, SetPaused,
     SeekTest, SeekPipeline, FlushingSeek, SeekResume, RateZero, Enter,
     RateStore, RateSeek, Excused, Noted, mvars
<1>7. CASE AsyncDone \/ Render \/ EndOfStream \/ Download \/ Underrun \/ Fault
   \/ StopTimeReached \/ TakeMessage \/ BusMoves \/ HandleStateChanged \/
   HandleEOS \/ HandleError \/ TornDown \/ HandleProgress \/ HandleUnderrun \/
   HandleHLSBuffer \/ HandlerDone \/ Dispose \/ Pads \/ UNCHANGED vars
  BY <1>7 DEF vars, mvars, AsyncDone, Render, Post, Message, EndOfStream,
     Download, Underrun, Fault, StopTimeReached, Goto, KeepStream,
     TakeMessage, BusMoves, BusCallback, DropReference,
     BusCallbackDestroyNotify, FreeMeHere, HandleStateChanged, Handling,
     Enter, KeepBus, HandleEOS, Cross, HandleError, TornDown, HandleProgress,
     HandleUnderrun, HandleHLSBuffer, HandlerDone, Dispose, Pads, Excused,
     Noted, mvars
<1>8. ASSUME NEW c \in Calls \ {"finish"}, Call(c) PROVE (Excused => Excused')
   \/ UpdatePlayerState \/ (\E u \in Threads : PauseFails(u))
  BY <1>8 DEF Call, FirstStep, Enter, KeepStream, Excused, Noted, mvars
<1>9. QED
  BY <1>1, <1>2, <1>3, <1>4, <1>5, <1>6, <1>7, <1>8, NextCases DEF ThreadStep

LEMMA PostSilent ==
  ASSUME MessageType, NEW m \in Messages, m.type # "STATE",
         gst.state = "READY" => m.type # "EOS", Post(<<m>>)
  PROVE  Silent
  BY PostOne DEF Post, Silent

LEMMA UpdateEffect ==
  ASSUME StreamType, UpdatePlayerState
  PROVE  Quiet \/ PlayEffect
<1>1. CASE UNCHANGED <<gst, messages>>
  BY <1>1 DEF Quiet, Silent
<1>2. CASE RequestPlaying /\ ~UNCHANGED <<gst, messages>>
  <2>1. NewPlayerState = "Stalled" /\ m_PlayerState # "Stalled"
    BY <1>2 DEF UpdatePlayerState
  <2>2. ~Noted
    BY <2>1 DEF NewPlayerState, PauseMeans, NothingAsked, Noted
  <2>3. QED
    BY <1>2, <2>2, RequestEffects DEF PlayEffect, StreamType
<1>3. QED
  BY <1>1, <1>2 DEF UpdatePlayerState

\* Who causes which effect.
Kind ==
    \/ Quiet
    \/ AsyncDone /\ CompleteEffect
    \/ UpdatePlayerState /\ PlayEffect
    \/ \E u \in Threads :
          \/ SetPlaying(u) /\ PlayingEffect
          \/ SetPaused(u) /\ PausedEffect
          \/ (SeekPipeline(u) \/ RateSeek(u)) /\ SeekEffect

LEMMA KindCases == MessageType /\ StreamType /\ Plain' /\ gst.state # "NULL"
   /\ [Next]_vars => Kind \/ TakeMessage \/ TornDown
<1> SUFFICES ASSUME MessageType, StreamType, Plain', gst.state # "NULL",
   [Next]_vars PROVE Kind \/ TakeMessage \/ TornDown
  OBVIOUS
<1> USE DEF player, rate, buffer, source, count, threads
<1>same. messages' = messages => Silent
  BY DEF Silent
<1>1. CASE AsyncDone
  <2>1. gst.state \in GstStates /\ gst.target \in GstStates
    BY DEF StreamType, GstType
  <2>2. CASE gst.target = "PAUSED"
    BY <1>1, <2>1, <2>2, GstNames, Speaks, GstFields
       DEF AsyncDone, CompleteEffect, Kind, StreamType
  <2>3. CASE gst.target # "PAUSED"
    BY <1>1, <2>1, <2>3, GstNames, Speaks, GstFields
       DEF AsyncDone, CompleteEffect, Kind, StreamType
  <2>4. QED
    BY <2>2, <2>3
<1>2. CASE Render
  <2>1. /\ Message("HLS_NOT_FULL") \in Messages /\ Message("HLS_NOT_FULL").type # "STATE"
        /\ gst.state = "READY" => Message("HLS_NOT_FULL").type # "EOS"
    BY <1>2 DEF Message, Messages, Render, IsPlaying
  <2>2. Silent
    BY <1>2, <1>same, <2>1, PostSilent DEF Render
  <2>3. QED
    BY <1>2, <2>2 DEF Render, Kind, Quiet
<1>3. CASE EndOfStream
  <2>1. /\ Message("EOS") \in Messages /\ Message("EOS").type # "STATE"
        /\ gst.state = "READY" => Message("EOS").type # "EOS"
    BY <1>3 DEF Message, Messages, EndOfStream, IsPlaying
  <2>2. Silent
    BY <1>3, <1>same, <2>1, PostSilent DEF EndOfStream
  <2>3. QED
    BY <1>3, <2>2 DEF EndOfStream, Kind, Quiet
<1>4. CASE Download
  <2>1. ASSUME NEW x \in {"HLS_RESUME", "HLS_FULL", "HLS_EOS"}
        PROVE  /\ Message(x) \in Messages /\ Message(x).type # "STATE"
               /\ Message(x).type # "EOS"
    BY DEF Message, Messages
  <2>2. ASSUME NEW p \in 0..Duration, NEW e \in BOOLEAN
        PROVE  /\ [type |-> "PROGRESS", pos |-> p, eos |-> e] \in Messages
               /\ [type |-> "PROGRESS", pos |-> p, eos |-> e].type
                     \notin {"STATE", "EOS"}
    BY DEF Messages
  <2>3. pos \in 0..Duration /\ (pos < Duration => pos + 1 \in 0..Duration)
    BY DurationAssumption DEF StreamType
  <2>4. CASE m_bHLSModeEnabled
    BY <1>4, <2>1, <2>4, PostSilent DEF Download, Kind, Quiet
  <2>5. CASE ~m_bHLSModeEnabled
    BY <1>4, <2>2, <2>3, <2>5, PostSilent DEF Download, Kind, Quiet
  <2>6. QED
    BY <2>4, <2>5
<1>5. CASE Underrun
  <2>1. ASSUME NEW x \in {"HLS_STALL", "UNDERRUN"}
        PROVE  /\ Message(x) \in Messages /\ Message(x).type # "STATE"
               /\ Message(x).type # "EOS"
    BY DEF Message, Messages
  <2>2. Silent
    BY <1>5, <2>1, PostSilent DEF Underrun
  <2>3. QED
    BY <1>5, <2>2 DEF Underrun, Kind, Quiet
<1>6. CASE Fault
  <2>1. /\ Message("ERROR") \in Messages /\ Message("ERROR").type # "STATE"
        /\ gst.state = "READY" => Message("ERROR").type # "EOS"
    BY <1>6 DEF Message, Messages, Fault, IsPlaying
  <2>2. Silent
    BY <1>6, <1>same, <2>1, PostSilent DEF Fault
  <2>3. QED
    BY <1>6, <2>2 DEF Fault, Kind, Quiet
<1>7. ASSUME NEW t \in Threads, SetPlaying(t) PROVE Kind \/ TakeMessage \/
   TornDown
  <2>1. PlayingEffect
    BY <1>7, RequestEffects DEF SetPlaying, StreamType
  <2>2. QED
    BY <1>7, <2>1 DEF Kind
<1>8. ASSUME NEW t \in Threads, SetPaused(t) PROVE Kind \/ TakeMessage \/
   TornDown
  <2>1. PausedEffect
    BY <1>8, RequestEffects DEF SetPaused, StreamType
  <2>2. QED
    BY <1>8, <2>1 DEF Kind
<1>9. ASSUME NEW t \in Threads, SeekPipeline(t) PROVE Kind \/ TakeMessage \/
   TornDown
  <2>1. CASE FlushingSeek
    <3>1. SeekEffect
      BY <2>1, GstFields DEF FlushingSeek, SeekEffect, StreamType
    <3>2. QED
      BY <1>9, <3>1 DEF Kind
  <2>2. CASE KeepStream
    BY <1>same, <2>2 DEF KeepStream, Kind, Quiet
  <2>3. QED
    BY <1>9, <2>1, <2>2 DEF SeekPipeline
<1>10. ASSUME NEW t \in Threads, RateSeek(t) PROVE Kind \/ TakeMessage \/
   TornDown
  <2>1. CASE FlushingSeek
    <3>1. SeekEffect
      BY <2>1, GstFields DEF FlushingSeek, SeekEffect, StreamType
    <3>2. QED
      BY <1>10, <3>1 DEF Kind
  <2>2. CASE KeepStream
    BY <1>same, <2>2 DEF KeepStream, Kind, Quiet
  <2>3. QED
    BY <1>10, <2>1, <2>2 DEF RateSeek
<1>11. ASSUME NEW t \in Threads, PauseFails(t) PROVE Kind \/ TakeMessage \/
   TornDown
  <2>1. /\ Message("ERROR") \in Messages /\ Message("ERROR").type # "STATE"
        /\ gst.state = "READY" => Message("ERROR").type # "EOS"
    BY <1>11 DEF Message, Messages, PauseFails, IsPlaying
  <2>2. Silent
    BY <1>11, <1>same, <2>1, PostSilent DEF PauseFails
  <2>3. QED
    BY <1>11, <2>2 DEF PauseFails, Kind, Quiet
<1>12. CASE TakeMessage
  BY <1>12
<1>13. CASE UpdatePlayerState
  BY <1>13, UpdateEffect DEF Kind
<1>14. CASE TornDown
  BY <1>14
<1>15. CASE Dispose
  <2>1. CASE UNCHANGED mvars
    BY <1>same, <2>1 DEF mvars, Kind, Quiet
  <2>2. CASE StopPipeline
    BY <2>2 DEF StopPipeline, Plain
  <2>3. QED
    BY <1>15, <2>1, <2>2 DEF Dispose
<1>16. ASSUME NEW t \in Threads, Play(t) \/ PauseTest(t) \/ PauseMark(t) \/
   StopTest(t) \/ StopMark(t) \/ FinishTest(t) \/ InternalPause(t) \/
   SeekTest(t) \/ SeekResume(t) \/ RateZero(t) \/ RateStore(t) PROVE Kind \/
   TakeMessage \/ TornDown
  BY <1>16, <1>same DEF Play, Goto, Return, Cross, KeepRest, KeepStream,
     PauseTest, PauseMark, StopTest, StopMark, FinishTest, KeepMedia,
     InternalPause, SeekTest, SeekResume, RateZero, Enter, RateStore, Kind,
     Quiet, mvars
<1>17. CASE StopTimeReached \/ BusMoves \/ HandleStateChanged \/ HandleEOS \/
   HandleError \/ HandleProgress \/ HandleUnderrun \/ Stall \/ HandleHLSBuffer
   \/ HandlerDone \/ Pads \/ UNCHANGED vars
  BY <1>17, <1>same DEF vars, mvars, StopTimeReached, Goto, KeepStream,
     BusMoves, BusCallback, DropReference, BusCallbackDestroyNotify,
     FreeMeHere, HandleStateChanged, Handling, Enter, KeepBus, HandleEOS,
     Cross, HandleError, HandleProgress, HandleUnderrun, Stall,
     HandleHLSBuffer, HandlerDone, Pads, Kind, Quiet, mvars
<1>18. ASSUME NEW c \in Calls \ {"finish"}, Call(c) PROVE Kind \/ TakeMessage
   \/ TornDown
  BY <1>18, <1>same DEF Call, FirstStep, Enter, KeepStream, Kind, Quiet, mvars
<1>19. QED
  BY <1>1, <1>2, <1>3, <1>4, <1>5, <1>6, <1>7, <1>8, <1>9, <1>10, <1>11,
     <1>12, <1>13, <1>14, <1>15, <1>16, <1>17, <1>18, NextCases DEF ThreadStep

LEMMA EffectCases ==
  ASSUME MessageType, StreamType, ThreadType, Control, Stalling, Calm', Plain',
         AppPauses => Noted, gst.state # "NULL", [Next]_vars
  PROVE  Effect \/ TakeMessage \/ TornDown
<1> USE DEF Effect
<1>1. ASSUME NEW t \in Threads, SetPlaying(t), PlayingEffect PROVE PlayEffect
  <2>1. gst.pending = "VOID" \/ ~Noted
    BY <1>1 DEF SetPlaying, Cross, Plain, NothingAsked, Noted
  <2>2. QED
    BY <1>1, <2>1 DEF PlayEffect
<1>2. ASSUME NEW t \in Threads, SetPaused(t), PausedEffect PROVE PauseEffect
  <2>1. IsPlaying \/ Excused
    <3>1. CASE t = "app"
      BY <1>2, <3>1 DEF SetPaused, AppPauses, Excused
    <3>2. CASE t = "bus"
      BY <1>2, <3>2 DEF SetPaused, Stalling, Excused
    <3>3. CASE t = "pulse"
      BY <1>2, <3>3 DEF SetPaused, Cross, Calm
    <3>4. QED
      BY <3>1, <3>2, <3>3 DEF Threads
  <2>2. QED
    BY <1>2, <2>1 DEF PauseEffect
<1>3. QED
  BY <1>1, <1>2, KindCases DEF Kind

-----------------------------------------------------------------------------
(* An error that has been reported is not forgotten.                       *)

QueueKept ==
    \A i \in 1..Len(messages) :
        i \in 1..Len(messages') /\ messages'[i] = messages[i]

LEMMA PostKeeps ==
  ASSUME MessageType, NEW m, Post(<<m>>)
  PROVE  QueueKept
<1>1. messages \o <<m>> = Append(messages, m)
  BY DEF MessageType
<1>2. /\ Len(Append(messages, m)) = Len(messages) + 1 /\ Len(messages) \in Nat
      /\ \A i \in 1..Len(messages) : Append(messages, m)[i] = messages[i]
  BY DEF MessageType
<1>3. messages' = messages \/ messages' = Append(messages, m)
  BY <1>1 DEF Post
<1>4. QED
  BY <1>2, <1>3 DEF QueueKept

LEMMA QueueCases == MessageType /\ StreamType /\ [Next]_vars => QueueKept \/
   TakeMessage \/ TornDown \/ dispose # "idle" \/ gst.state = "NULL"
<1> SUFFICES ASSUME MessageType, StreamType, [Next]_vars PROVE QueueKept \/
   TakeMessage \/ TornDown \/ dispose # "idle" \/ gst.state = "NULL"
  OBVIOUS
<1> USE DEF player, rate, buffer, source, count, threads
<1>same. messages' = messages => QueueKept
  BY DEF QueueKept
<1>1. CASE AsyncDone
  BY <1>1, PostKeeps DEF AsyncDone
<1>2. CASE Render
  BY <1>2, PostKeeps, <1>same DEF Render
<1>3. CASE EndOfStream
  BY <1>3, PostKeeps, <1>same DEF EndOfStream
<1>4. CASE Download
  BY <1>4, PostKeeps, <1>same DEF Download
<1>5. CASE Underrun
  BY <1>5, PostKeeps, <1>same DEF Underrun
<1>6. CASE Fault
  BY <1>6, PostKeeps, <1>same DEF Fault
<1>7. ASSUME NEW t \in Threads, SetPlaying(t) PROVE QueueKept \/ TakeMessage
   \/ TornDown \/ dispose # "idle" \/ gst.state = "NULL"
  BY <1>7, RequestEffects, PostKeeps, <1>same DEF SetPlaying, StreamType,
     PlayingEffect, PausedEffect
<1>8. ASSUME NEW t \in Threads, SetPaused(t) PROVE QueueKept \/ TakeMessage \/
   TornDown \/ dispose # "idle" \/ gst.state = "NULL"
  BY <1>8, RequestEffects, PostKeeps, <1>same DEF SetPaused, StreamType,
     PlayingEffect, PausedEffect
<1>9. ASSUME NEW t \in Threads, SeekPipeline(t) PROVE QueueKept \/ TakeMessage
   \/ TornDown \/ dispose # "idle" \/ gst.state = "NULL"
  BY <1>9, PostKeeps, <1>same DEF SeekPipeline, FlushingSeek, KeepStream
<1>10. ASSUME NEW t \in Threads, RateSeek(t) PROVE QueueKept \/ TakeMessage \/
   TornDown \/ dispose # "idle" \/ gst.state = "NULL"
  BY <1>10, PostKeeps, <1>same DEF RateSeek, FlushingSeek, KeepStream
<1>11. ASSUME NEW t \in Threads, PauseFails(t) PROVE QueueKept \/ TakeMessage
   \/ TornDown \/ dispose # "idle" \/ gst.state = "NULL"
  BY <1>11, PostKeeps, <1>same DEF PauseFails
<1>12. CASE TakeMessage
  BY <1>12
<1>13. CASE UpdatePlayerState
  BY <1>13, RequestEffects, PostKeeps, <1>same DEF UpdatePlayerState,
     StreamType, PlayingEffect, PausedEffect
<1>14. CASE TornDown
  BY <1>14
<1>15. CASE Dispose
  BY <1>15, PostKeeps, <1>same DEF Dispose, StopPipeline, mvars
<1>16. ASSUME NEW t \in Threads, Play(t) \/ PauseTest(t) \/ PauseMark(t) \/
   StopTest(t) \/ StopMark(t) \/ FinishTest(t) \/ InternalPause(t) \/
   SeekTest(t) \/ SeekResume(t) \/ RateZero(t) \/ RateStore(t) PROVE QueueKept
   \/ TakeMessage \/ TornDown \/ dispose # "idle" \/ gst.state = "NULL"
  BY <1>16, <1>same DEF Play, Goto, Return, Cross, KeepRest, KeepStream,
     PauseTest, PauseMark, StopTest, StopMark, FinishTest, KeepMedia,
     InternalPause, SeekTest, SeekResume, RateZero, Enter, RateStore, mvars
<1>17. CASE StopTimeReached \/ BusMoves \/ HandleStateChanged \/ HandleEOS \/
   HandleError \/ HandleProgress \/ HandleUnderrun \/ Stall \/ HandleHLSBuffer
   \/ HandlerDone \/ Pads \/ UNCHANGED vars
  BY <1>17, <1>same DEF vars, mvars, StopTimeReached, Goto, KeepStream,
     BusMoves, BusCallback, DropReference, BusCallbackDestroyNotify,
     FreeMeHere, HandleStateChanged, Handling, Enter, KeepBus, HandleEOS,
     Cross, HandleError, HandleProgress, HandleUnderrun, Stall,
     HandleHLSBuffer, HandlerDone, Pads, mvars
<1>18. ASSUME NEW c \in Calls \ {"finish"}, Call(c) PROVE QueueKept \/
   TakeMessage \/ TornDown \/ dispose # "idle" \/ gst.state = "NULL"
  BY <1>18, <1>same DEF Call, FirstStep, Enter, KeepStream, mvars
<1>19. QED
  BY <1>1, <1>2, <1>3, <1>4, <1>5, <1>6, <1>7, <1>8, <1>9, <1>10, <1>11,
     <1>12, <1>13, <1>14, <1>15, <1>16, <1>17, <1>18, NextCases DEF ThreadStep

LEMMA ErrorStaysState == PlayerType /\ Control /\ BusIdle /\ Errors /\ Plain
   /\ m_PlayerState = "Error" /\ [Next]_vars => m_PlayerState' = "Error"
<1> SUFFICES ASSUME PlayerType, Control, BusIdle, Errors, Plain, m_PlayerState
   = "Error", [Next]_vars PROVE m_PlayerState' = "Error"
  OBVIOUS
<1> USE DEF player, rate, buffer, source, count, threads
<1>1. ASSUME NEW t \in Threads, PauseMark(t) PROVE m_PlayerState' = "Error"
  BY <1>1 DEF PauseMark, Goto, Return, Cross, KeepRest, KeepStream
<1>2. CASE UpdatePlayerState
  BY <1>2 DEF UpdatePlayerState, Goto, Misread, NewPlayerState
<1>3. CASE HandleEOS
  BY <1>3 DEF HandleEOS, Handling, Goto, Cross, KeepStream, Errors
<1>4. CASE TornDown
  BY <1>4 DEF TornDown, Goto
<1>5. ASSUME NEW t \in Threads, Play(t) \/ SetPlaying(t) \/ PauseTest(t) \/
   StopTest(t) \/ StopMark(t) \/ FinishTest(t) \/ InternalPause(t) \/
   SetPaused(t) \/ SeekTest(t) \/ SeekPipeline(t) \/ SeekResume(t) \/
   RateZero(t) \/ RateStore(t) \/ RateSeek(t) \/ PauseFails(t) PROVE
   m_PlayerState' = "Error"
  BY <1>5 DEF Play, Goto, Return, Cross, KeepRest, KeepStream, SetPlaying,
     PauseTest, StopTest, StopMark, FinishTest, KeepMedia, InternalPause,
     SetPaused, SeekTest, SeekPipeline, FlushingSeek, SeekResume, RateZero,
     Enter, RateStore, RateSeek, PauseFails, Post, Message, mvars
<1>6. CASE AsyncDone \/ Render \/ EndOfStream \/ Download \/ Underrun \/ Fault
   \/ StopTimeReached \/ TakeMessage \/ BusMoves \/ HandleStateChanged \/
   HandleError \/ HandleProgress \/ HandleUnderrun \/ Stall \/ HandleHLSBuffer
   \/ HandlerDone \/ Dispose \/ Pads \/ UNCHANGED vars
  BY <1>6 DEF vars, mvars, AsyncDone, Render, Post, Message, EndOfStream,
     Download, Underrun, Fault, StopTimeReached, Goto, KeepStream,
     TakeMessage, BusMoves, BusCallback, DropReference,
     BusCallbackDestroyNotify, FreeMeHere, HandleStateChanged, Handling,
     Enter, KeepBus, HandleError, HandleProgress, HandleUnderrun, Stall,
     HandleHLSBuffer, HandlerDone, Dispose, Pads, mvars
<1>7. ASSUME NEW c \in Calls \ {"finish"}, Call(c) PROVE m_PlayerState' =
   "Error"
  BY <1>7 DEF Call, FirstStep, Enter, KeepStream, mvars
<1>8. QED
  BY <1>1, <1>2, <1>3, <1>4, <1>5, <1>6, <1>7, NextCases DEF ThreadStep

LEMMA ErrorStaysMessage == ThreadType /\ MessageType /\ Control /\ BusIdle /\
   Errors /\ Plain /\ msg.type = "ERROR" /\ [Next]_vars => msg'.type = "ERROR"
   \/ m_PlayerState' = "Error"
<1> SUFFICES ASSUME ThreadType, MessageType, Control, BusIdle, Errors, Plain,
   msg.type = "ERROR", [Next]_vars PROVE msg'.type = "ERROR" \/ m_PlayerState'
   = "Error"
  OBVIOUS
<1> USE DEF player, rate, buffer, source, count, threads
<1>1. CASE TakeMessage
  BY <1>1 DEF TakeMessage, BusIdle, Dispatch, Plain, NoMessage
<1>2. CASE HandlerDone
  BY <1>2 DEF HandlerDone, KeepStream, Errors
<1>3. ASSUME NEW t \in Threads, Play(t) \/ SetPlaying(t) \/ PauseTest(t) \/
   PauseMark(t) \/ StopTest(t) \/ StopMark(t) \/ FinishTest(t) \/
   InternalPause(t) \/ SetPaused(t) \/ SeekTest(t) \/ SeekPipeline(t) \/
   SeekResume(t) \/ RateZero(t) \/ RateStore(t) \/ RateSeek(t) \/
   PauseFails(t) PROVE msg'.type = "ERROR" \/ m_PlayerState' = "Error"
  BY <1>3 DEF Play, Goto, Return, Cross, KeepRest, KeepStream, SetPlaying,
     PauseTest, PauseMark, StopTest, StopMark, FinishTest, KeepMedia,
     InternalPause, SetPaused, SeekTest, SeekPipeline, FlushingSeek,
     SeekResume, RateZero, Enter, RateStore, RateSeek, PauseFails, Post,
     Message, mvars
<1>4. CASE AsyncDone \/ Render \/ EndOfStream \/ Download \/ Underrun \/ Fault
   \/ StopTimeReached \/ BusMoves \/ HandleStateChanged \/ UpdatePlayerState
   \/ HandleEOS \/ HandleError \/ TornDown \/ HandleProgress \/ HandleUnderrun
   \/ Stall \/ HandleHLSBuffer \/ Dispose \/ Pads \/ UNCHANGED vars
  BY <1>4 DEF vars, mvars, AsyncDone, Render, Post, Message, EndOfStream,
     Download, Underrun, Fault, StopTimeReached, Goto, KeepStream, BusMoves,
     BusCallback, DropReference, BusCallbackDestroyNotify, FreeMeHere,
     HandleStateChanged, Handling, Enter, KeepBus, UpdatePlayerState, Misread,
     HandleEOS, Cross, HandleError, TornDown, HandleProgress, HandleUnderrun,
     Stall, HandleHLSBuffer, Dispose, Pads, mvars
<1>5. ASSUME NEW c \in Calls \ {"finish"}, Call(c) PROVE msg'.type = "ERROR"
   \/ m_PlayerState' = "Error"
  BY <1>5 DEF Call, FirstStep, Enter, KeepStream, mvars
<1>6. QED
  BY <1>1, <1>2, <1>3, <1>4, <1>5, NextCases DEF ThreadStep

LEMMA BrokenKept ==
  ASSUME PlayerType, ThreadType, MessageType, StreamType, CountType, Control,
         BusIdle, Errors, [Next]_vars, Plain', Broken
  PROVE  Broken'
<1>1. Plain
  BY CalmBefore
<1>2. CASE m_PlayerState = "Error"
  BY <1>1, <1>2, ErrorStaysState DEF Broken
<1>3. CASE msg.type = "ERROR"
  BY <1>1, <1>3, ErrorStaysMessage DEF Broken
<1>4. ASSUME NEW i \in 1..Len(messages), messages[i].type = "ERROR",
             m_PlayerState # "Error"
      PROVE  Broken'
  <2>1. gst.state # "NULL" /\ dispose = "idle"
    BY <1>1, <1>4 DEF Errors, Plain
  <2>2. CASE QueueKept
    BY <1>4, <2>2 DEF QueueKept, Broken
  <2>3. CASE TakeMessage
    <3>1. CASE i = 1
      BY <1>4, <2>3, <3>1 DEF TakeMessage, Broken, MessageType
    <3>2. CASE i # 1
      <4>1. /\ i - 1 \in 1..Len(Tail(messages))
            /\ Tail(messages)[i - 1] = messages[i]
        BY <1>4, <2>3, <3>2 DEF TakeMessage, MessageType
      <4>2. QED
        BY <1>4, <2>3, <4>1 DEF TakeMessage, Broken
    <3>3. QED
      BY <3>1, <3>2
  <2>4. CASE TornDown
    BY <2>4 DEF TornDown, Broken
  <2>5. QED
    BY <2>1, <2>2, <2>3, <2>4, QueueCases
<1>5. QED
  BY <1>2, <1>3, <1>4 DEF Broken

-----------------------------------------------------------------------------
(* The first preroll.                                                      *)

LEMMA HeadFades == MessageType /\ MessageType' /\ ThreadType /\ Control /\
   BusIdle /\ [Next]_vars => talk'[0] \in {talk[0], NoMessage} \/ TakeMessage
<1> SUFFICES ASSUME MessageType, MessageType', ThreadType, Control, BusIdle,
   [Next]_vars PROVE talk'[0] \in {talk[0], NoMessage} \/ TakeMessage
  OBVIOUS
<1> USE DEF player, rate, buffer, source, count, threads
<1>head. /\ talk[0] = IF pc["bus"] = "done" THEN NoMessage ELSE msg
         /\ talk'[0] = IF pc'["bus"] = "done" THEN NoMessage ELSE msg'
  <2>1. Len(messages) \in Nat /\ Len(messages') \in Nat
    BY DEF MessageType
  <2>2. QED
    BY <2>1 DEF talk, News
<1>1. CASE AsyncDone
  BY <1>1, <1>head DEF AsyncDone, Control, ThreadType, Threads
<1>2. CASE Render
  BY <1>2, <1>head DEF Render, Post, Message, Control, ThreadType, Threads
<1>3. CASE EndOfStream
  BY <1>3, <1>head DEF EndOfStream, Post, Message, Control, ThreadType,
     Threads
<1>4. CASE Download
  BY <1>4, <1>head DEF Download, Post, Message, Control, ThreadType, Threads
<1>5. CASE Underrun
  BY <1>5, <1>head DEF Underrun, Post, Message, Control, ThreadType, Threads
<1>6. CASE Fault
  BY <1>6, <1>head DEF Fault, Post, Message, Control, ThreadType, Threads
<1>7. ASSUME NEW c \in Calls \ {"finish"}, Call(c) PROVE talk'[0] \in
   {talk[0], NoMessage} \/ TakeMessage
  BY <1>7, <1>head DEF Call, FirstStep, Enter, KeepStream, Control,
     ThreadType, Threads
<1>8. CASE StopTimeReached
  BY <1>8, <1>head DEF StopTimeReached, Goto, KeepStream, Control, ThreadType,
     Threads
<1>9. ASSUME NEW t \in Threads, Play(t) PROVE talk'[0] \in {talk[0],
   NoMessage} \/ TakeMessage
  BY <1>9, <1>head DEF Play, Goto, Return, Cross, KeepRest, KeepStream,
     Control, ThreadType, Threads
<1>10. ASSUME NEW t \in Threads, SetPlaying(t) PROVE talk'[0] \in {talk[0],
   NoMessage} \/ TakeMessage
  BY <1>10, <1>head DEF SetPlaying, Return, Cross, Control, ThreadType,
     Threads
<1>11. ASSUME NEW t \in Threads, PauseTest(t) PROVE talk'[0] \in {talk[0],
   NoMessage} \/ TakeMessage
  BY <1>11, <1>head DEF PauseTest, Goto, Return, Cross, KeepRest, KeepStream,
     Control, ThreadType, Threads
<1>12. ASSUME NEW t \in Threads, PauseMark(t) PROVE talk'[0] \in {talk[0],
   NoMessage} \/ TakeMessage
  BY <1>12, <1>head DEF PauseMark, Goto, Return, Cross, KeepRest, KeepStream,
     Control, ThreadType, Threads
<1>13. ASSUME NEW t \in Threads, StopTest(t) PROVE talk'[0] \in {talk[0],
   NoMessage} \/ TakeMessage
  BY <1>13, <1>head DEF StopTest, Goto, Return, Cross, KeepRest, KeepStream,
     Control, ThreadType, Threads
<1>14. ASSUME NEW t \in Threads, StopMark(t) PROVE talk'[0] \in {talk[0],
   NoMessage} \/ TakeMessage
  BY <1>14, <1>head DEF StopMark, Goto, Cross, KeepRest, KeepStream, Control,
     ThreadType, Threads
<1>15. ASSUME NEW t \in Threads, FinishTest(t) PROVE talk'[0] \in {talk[0],
   NoMessage} \/ TakeMessage
  BY <1>15, <1>head DEF FinishTest, Goto, Return, KeepMedia, KeepRest,
     KeepStream, Control, ThreadType, Threads
<1>16. ASSUME NEW t \in Threads, InternalPause(t) PROVE talk'[0] \in {talk[0],
   NoMessage} \/ TakeMessage
  BY <1>16, <1>head DEF InternalPause, Goto, Return, Cross, KeepRest,
     KeepStream, Control, ThreadType, Threads
<1>17. ASSUME NEW t \in Threads, SetPaused(t) PROVE talk'[0] \in {talk[0],
   NoMessage} \/ TakeMessage
  BY <1>17, <1>head DEF SetPaused, Return, Cross, Control, ThreadType, Threads
<1>18. ASSUME NEW t \in Threads, SeekTest(t) PROVE talk'[0] \in {talk[0],
   NoMessage} \/ TakeMessage
  BY <1>18, <1>head DEF SeekTest, Goto, Return, KeepMedia, KeepRest,
     KeepStream, Control, ThreadType, Threads
<1>19. ASSUME NEW t \in Threads, SeekPipeline(t) PROVE talk'[0] \in {talk[0],
   NoMessage} \/ TakeMessage
  BY <1>19, <1>head DEF SeekPipeline, Goto, Return, KeepStream, FlushingSeek,
     Control, ThreadType, Threads
<1>20. ASSUME NEW t \in Threads, SeekResume(t) PROVE talk'[0] \in {talk[0],
   NoMessage} \/ TakeMessage
  BY <1>20, <1>head DEF SeekResume, Goto, Return, KeepMedia, KeepRest,
     KeepStream, Control, ThreadType, Threads
<1>21. ASSUME NEW t \in Threads, RateZero(t) PROVE talk'[0] \in {talk[0],
   NoMessage} \/ TakeMessage
  BY <1>21, <1>head DEF RateZero, Enter, Return, KeepMedia, KeepRest,
     KeepStream, Control, ThreadType, Threads
<1>22. ASSUME NEW t \in Threads, RateStore(t) PROVE talk'[0] \in {talk[0],
   NoMessage} \/ TakeMessage
  BY <1>22, <1>head DEF RateStore, Return, KeepMedia, KeepRest, KeepStream,
     Control, ThreadType, Threads
<1>23. ASSUME NEW t \in Threads, RateSeek(t) PROVE talk'[0] \in {talk[0],
   NoMessage} \/ TakeMessage
  BY <1>23, <1>head DEF RateSeek, Return, KeepMedia, KeepRest, KeepStream,
     FlushingSeek, Control, ThreadType, Threads
<1>24. ASSUME NEW t \in Threads, PauseFails(t) PROVE talk'[0] \in {talk[0],
   NoMessage} \/ TakeMessage
  BY <1>24, <1>head DEF PauseFails, Enter, Return, Post, Message, Control,
     ThreadType, Threads
<1>25. CASE TakeMessage
  BY <1>25
<1>26. CASE BusMoves
  BY <1>26, <1>head DEF BusMoves, BusCallback, DropReference,
     BusCallbackDestroyNotify, FreeMeHere, mvars
<1>27. CASE HandleStateChanged
  BY <1>27, <1>head DEF HandleStateChanged, Handling, Goto, Enter, KeepBus,
     KeepStream, Control, ThreadType, Threads
<1>28. CASE UpdatePlayerState
  BY <1>28, <1>head DEF UpdatePlayerState, Goto, Misread, Control, ThreadType,
     Threads
<1>29. CASE HandleEOS
  BY <1>29, <1>head DEF HandleEOS, Handling, Goto, Cross, KeepStream, Control,
     ThreadType, Threads
<1>30. CASE HandleError
  BY <1>30, <1>head DEF HandleError, Handling, Goto, KeepStream, Control,
     ThreadType, Threads
<1>31. CASE TornDown
  BY <1>31, <1>head DEF TornDown, Goto, Control, ThreadType, Threads
<1>32. CASE HandleProgress
  BY <1>32, <1>head DEF HandleProgress, Handling, Goto, KeepBus, KeepStream,
     Control, ThreadType, Threads
<1>33. CASE HandleUnderrun
  BY <1>33, <1>head DEF HandleUnderrun, Handling, Goto, KeepBus, KeepStream,
     Control, ThreadType, Threads
<1>34. CASE Stall
  BY <1>34, <1>head DEF Stall, Goto, KeepBus, KeepStream, Control, ThreadType,
     Threads
<1>35. CASE HandleHLSBuffer
  BY <1>35, <1>head DEF HandleHLSBuffer, Handling, Goto, KeepBus, KeepStream,
     Control, ThreadType, Threads
<1>36. CASE HandlerDone
  BY <1>36, <1>head DEF HandlerDone, KeepStream, Control, ThreadType, Threads
<1>37. CASE Dispose
  BY <1>37, <1>head DEF Dispose, mvars
<1>38. CASE Pads
  BY <1>38, <1>head DEF Pads, mvars
<1>39. CASE UNCHANGED vars
  BY <1>39, <1>head DEF vars, mvars
<1>40. QED
  BY <1>1, <1>2, <1>3, <1>4, <1>5, <1>6, <1>7, <1>8, <1>9, <1>10, <1>11,
     <1>12, <1>13, <1>14, <1>15, <1>16, <1>17, <1>18, <1>19, <1>20, <1>21,
     <1>22, <1>23, <1>24, <1>25, <1>26, <1>27, <1>28, <1>29, <1>30, <1>31,
     <1>32, <1>33, <1>34, <1>35, <1>36, <1>37, <1>38, <1>39, NextCases DEF
     ThreadStep

LEMMA LeavesUnknown == MessageType /\ MessageType' /\ ThreadType /\ Control /\
   BusIdle /\ [Next]_vars => m_PlayerState' = m_PlayerState \/ m_PlayerState #
   "Unknown" \/ TornDown \/ (talk[0].type \in {"STATE", "EOS"} /\ talk'[0] =
   NoMessage)
<1> SUFFICES ASSUME MessageType, MessageType', ThreadType, Control, BusIdle,
   [Next]_vars PROVE m_PlayerState' = m_PlayerState \/ m_PlayerState #
   "Unknown" \/ TornDown \/ (talk[0].type \in {"STATE", "EOS"} /\ talk'[0] =
   NoMessage)
  OBVIOUS
<1> USE DEF player, rate, buffer, source, count, threads
<1>head. /\ talk[0] = IF pc["bus"] = "done" THEN NoMessage ELSE msg
         /\ talk'[0] = IF pc'["bus"] = "done" THEN NoMessage ELSE msg'
  <2>1. Len(messages) \in Nat /\ Len(messages') \in Nat
    BY DEF MessageType
  <2>2. QED
    BY <2>1 DEF talk, News
<1>1. ASSUME NEW t \in Threads, PauseMark(t) PROVE m_PlayerState' =
   m_PlayerState \/ m_PlayerState # "Unknown" \/ TornDown \/ (talk[0].type \in
   {"STATE", "EOS"} /\ talk'[0] = NoMessage)
  BY <1>1, <1>head DEF PauseMark, Goto, Return, Cross, KeepRest, KeepStream
<1>2. CASE UpdatePlayerState
  BY <1>2, <1>head DEF UpdatePlayerState, Goto, Misread, Control, ThreadType,
     Threads
<1>3. CASE HandleEOS
  BY <1>3, <1>head DEF HandleEOS, Handling, Goto, Cross, KeepStream, Control,
     ThreadType, Threads
<1>4. CASE TornDown
  BY <1>4
<1>5. ASSUME NEW t \in Threads, Play(t) \/ SetPlaying(t) \/ PauseTest(t) \/
   StopTest(t) \/ StopMark(t) \/ FinishTest(t) \/ InternalPause(t) \/
   SetPaused(t) \/ SeekTest(t) \/ SeekPipeline(t) \/ SeekResume(t) \/
   RateZero(t) \/ RateStore(t) \/ RateSeek(t) \/ PauseFails(t) PROVE
   m_PlayerState' = m_PlayerState \/ m_PlayerState # "Unknown" \/ TornDown \/
   (talk[0].type \in {"STATE", "EOS"} /\ talk'[0] = NoMessage)
  BY <1>5, <1>head DEF Play, Goto, Return, Cross, KeepRest, KeepStream,
     SetPlaying, PauseTest, StopTest, StopMark, FinishTest, KeepMedia,
     InternalPause, SetPaused, SeekTest, SeekPipeline, FlushingSeek,
     SeekResume, RateZero, Enter, RateStore, RateSeek, PauseFails, Post,
     Message, mvars
<1>6. CASE AsyncDone \/ Render \/ EndOfStream \/ Download \/ Underrun \/ Fault
   \/ StopTimeReached \/ TakeMessage \/ BusMoves \/ HandleStateChanged \/
   HandleError \/ HandleProgress \/ HandleUnderrun \/ Stall \/ HandleHLSBuffer
   \/ HandlerDone \/ Dispose \/ Pads \/ UNCHANGED vars
  BY <1>6, <1>head DEF vars, mvars, AsyncDone, Render, Post, Message,
     EndOfStream, Download, Underrun, Fault, StopTimeReached, Goto,
     KeepStream, TakeMessage, BusMoves, BusCallback, DropReference,
     BusCallbackDestroyNotify, FreeMeHere, HandleStateChanged, Handling,
     Enter, KeepBus, HandleError, HandleProgress, HandleUnderrun, Stall,
     HandleHLSBuffer, HandlerDone, Dispose, Pads, mvars
<1>7. ASSUME NEW c \in Calls \ {"finish"}, Call(c) PROVE m_PlayerState' =
   m_PlayerState \/ m_PlayerState # "Unknown" \/ TornDown \/ (talk[0].type \in
   {"STATE", "EOS"} /\ talk'[0] = NoMessage)
  BY <1>7, <1>head DEF Call, FirstStep, Enter, KeepStream, mvars
<1>8. QED
  BY <1>1, <1>2, <1>3, <1>4, <1>5, <1>6, <1>7, NextCases DEF ThreadStep

LEMMA UntoldKept ==
  ASSUME MessageType, MessageType', Grows, talk'[0] \in {talk[0], NoMessage},
         \/ m_PlayerState' = m_PlayerState \/ m_PlayerState # "Unknown"
         \/ talk[0].type \in {"STATE", "EOS"},
         NEW k \in 1..After, Untold(talk, m_PlayerState, k)
  PROVE  Untold(talk', m_PlayerState', k)
<1>1. k \in Nat \ {0} /\ \A i \in 1..(k - 1) : talk'[i] = talk[i]
  BY TalkTypes, GrowsKeeps
<1>2. talk[0].type \notin {"STATE", "EOS"} /\ m_PlayerState = "Unknown"
  BY <1>1 DEF Untold
<1>3. talk'[0].type \notin {"STATE", "EOS"}
  BY <1>2 DEF NoMessage
<1>4. QED
  BY <1>1, <1>2, <1>3 DEF Untold

LEMMA EffectSpeech ==
  ASSUME StreamType, MessageType, gst.state # "NULL", Effect
  PROVE  /\ Silent \/ Spoken("PAUSED", "PLAYING") \/ Spoken(gst.state, "PAUSED")
         /\ Grows
<1>1. messages' = messages => Silent
  BY DEF Silent
<1>2. gst.state \in GstStates
  BY DEF StreamType, GstType
<1>3. Silent \/ Spoken("PAUSED", "PLAYING") \/ Spoken(gst.state, "PAUSED")
  BY <1>1, GstNames, Speaks
     DEF Effect, Quiet, CompleteEffect, PlayEffect, PlayingEffect, PauseEffect,
         PausedEffect, SeekEffect
<1>4. QED
  BY <1>2, <1>3, GstNames DEF Grows

LEMMA EffectReady ==
  ASSUME StreamType, Changing, gst.state # "NULL", Effect, gst'.state = "READY"
  PROVE  gst.state = "READY" /\ Silent
<1>1. messages' = messages => Silent
  BY DEF Silent
<1>2. QED
  BY <1>1 DEF Effect, Quiet, CompleteEffect, PlayEffect, PlayingEffect,
     PauseEffect,
              PausedEffect, SeekEffect, Changing

LEMMA BirthKept ==
  ASSUME StreamType, MessageType, MessageType', Changing, gst.state # "NULL",
         Effect, talk'[0] \in {talk[0], NoMessage},
         \/ m_PlayerState' = m_PlayerState \/ m_PlayerState # "Unknown"
         \/ talk[0].type \in {"STATE", "EOS"} /\ talk'[0] = NoMessage,
         Birth
  PROVE  Birth'
<1>1. /\ Grows /\ Len(messages) \in Nat /\ After = Len(messages) + 1
      /\ News = 0..Len(messages)
  BY EffectSpeech, TalkTypes DEF After, News
<1>2. ASSUME NEW k \in 1..After, Untold(talk, m_PlayerState, k)
      PROVE  Untold(talk', m_PlayerState', k)
  BY <1>1, <1>2, UntoldKept
<1>3. ASSUME gst'.state = "READY" PROVE Untold(talk', m_PlayerState', After')
  <2>1. Silent /\ Untold(talk, m_PlayerState, After) /\ After \in 1..After
    BY <1>1, <1>3, EffectReady DEF Birth
  <2>2. Untold(talk', m_PlayerState', After)
    BY <1>2, <2>1
  <2>3. CASE messages' = messages
    BY <2>2, <2>3 DEF After
  <2>4. ASSUME NEW m \in Messages, m.type # "STATE",
               gst.state = "READY" => m.type # "EOS",
               messages' = Append(messages, m)
        PROVE  Untold(talk', m_PlayerState', After')
    <3>1. Len(messages') = After /\ messages'[After] = m /\ After' = After + 1
      BY <1>1, <2>4 DEF MessageType, After
    <3>2. talk'[After] = m
      BY <1>1, <3>1 DEF talk, News
    <3>3. m.type \notin {"STATE", "EOS"}
      BY <1>3, <2>4, EffectReady
    <3>4. QED
      BY <1>1, <2>2, <3>1, <3>2, <3>3 DEF Untold
  <2>5. QED
    BY <2>1, <2>3, <2>4 DEF Silent
<1>4. ASSUME NEW k \in News', talk'[k].type = "STATE", talk'[k].old = "READY"
      PROVE  Untold(talk', m_PlayerState', k)
  <2>1. CASE k = 0
    <3>1. talk'[0] = talk[0] /\ talk'[0] # NoMessage /\ 0 \in News
      BY <1>1, <1>4, <2>1 DEF NoMessage
    <3>2. m_PlayerState = "Unknown"
      BY <1>4, <2>1, <3>1 DEF Birth, Untold
    <3>3. m_PlayerState' = "Unknown"
      BY <3>1, <3>2
    <3>4. QED
      BY <2>1, <3>3 DEF Untold
  <2>2. CASE k \in 1..Len(messages)
    <3>1. talk'[k] = talk[k] /\ k \in News /\ k \in 1..After
      BY <1>1, <2>2, GrowsKeeps
    <3>2. QED
      BY <1>2, <1>4, <3>1 DEF Birth
  <2>3. CASE k # 0 /\ k \notin 1..Len(messages)
    <3>1. k = After /\ k \in 1..Len(messages') /\ ~(k <= Len(messages))
      BY <1>1, <1>4, <2>3, GrowsKeeps DEF News
    <3>2. ~Silent
      BY <1>1, <1>4, <3>1, GrowsKeeps
    <3>3. ~Spoken("PAUSED", "PLAYING")
      <4>1. Spoken("PAUSED", "PLAYING") =>
               talk'[k] = StateChanged("PAUSED", "PLAYING")
        BY <1>1, <3>1, GstNames, GrowsKeeps
      <4>2. QED
        BY <1>4, <4>1 DEF StateChanged
    <3>4. Spoken(gst.state, "PAUSED") /\ gst.state \in GstStates
      BY <3>2, <3>3, EffectSpeech DEF StreamType, GstType
    <3>5. talk'[k] = StateChanged(gst.state, "PAUSED")
      BY <1>1, <3>1, <3>4, GstNames, GrowsKeeps
    <3>6. gst.state = "READY"
      BY <1>4, <3>5 DEF StateChanged
    <3>7. QED
      BY <1>1, <1>2, <3>1, <3>6 DEF Birth
  <2>4. QED
    BY <1>1, <1>4, <2>1, <2>2, <2>3
<1>5. QED
  BY <1>3, <1>4 DEF Birth

-----------------------------------------------------------------------------
(* The bus thread takes a message.                                         *)

LEMMA TakeFacts ==
  ASSUME MessageType, MessageType', BusIdle, Plain, TakeMessage
  PROVE  /\ Len(messages) \in Nat /\ Len(messages') \in Nat
         /\ Len(messages) = Len(messages') + 1 /\ After = After' + 1
         /\ After' \in Nat /\ News' = 0..Len(messages')
         /\ talk[0].type # "STATE"
         /\ \A i \in 0..Len(messages') : i + 1 \in News /\ talk'[i] = talk[i + 1]
<1>1. pc["bus"] = "idle" /\ pc' = pc /\ msg = NoMessage /\ dispose = "idle"
  BY DEF TakeMessage, Dispatch, BusIdle, Plain
<1>2. /\ Len(messages) \in Nat /\ Len(messages') \in Nat
      /\ Len(messages) = Len(messages') + 1 /\ msg' = messages[1]
      /\ \A i \in 1..Len(messages') : messages'[i] = messages[i + 1]
  BY DEF TakeMessage, MessageType
<1>3. talk[0].type # "STATE"
  BY <1>1, <1>2 DEF talk, News, NoMessage
<1>4. ASSUME NEW i \in 0..Len(messages')
      PROVE  i + 1 \in News /\ talk'[i] = talk[i + 1]
  <2>1. i + 1 \in News /\ i \in News' /\ i + 1 > 0
    BY <1>2 DEF News
  <2>2. talk[i + 1] = messages[i + 1]
    BY <2>1 DEF talk
  <2>3. talk'[i] = IF i > 0 THEN messages'[i] ELSE msg'
    BY <1>1, <2>1 DEF talk
  <2>4. QED
    BY <1>2, <2>1, <2>2, <2>3
<1>5. QED
  BY <1>2, <1>3, <1>4 DEF After, News

LEMMA TakeBelieved ==
  ASSUME MessageType, MessageType', BusIdle, Plain, TakeMessage,
         NEW k \in 0..After', NEW x, Believed(talk, m_PlayerState, k + 1, x)
  PROVE  Believed(talk', m_PlayerState', k, x)
<1>1. /\ k \in Nat /\ talk[0].type # "STATE"
      /\ \A i \in 0..(k - 1) : talk'[i] = talk[i + 1]
  BY TakeFacts DEF After
<1>2. m_PlayerState' = m_PlayerState
  BY DEF TakeMessage, player
<1>3. QED
  BY <1>1, <1>2, BelievedTaken

LEMMA TakeUntold ==
  ASSUME MessageType, MessageType', BusIdle, Plain, TakeMessage,
         NEW k \in 0..After', Untold(talk, m_PlayerState, k + 1)
  PROVE  Untold(talk', m_PlayerState', k)
<1>1. /\ k \in Nat /\ \A i \in 0..(k - 1) : talk'[i] = talk[i + 1]
  BY TakeFacts DEF After
<1>2. m_PlayerState' = m_PlayerState
  BY DEF TakeMessage, player
<1>3. QED
  BY <1>1, <1>2 DEF Untold

LEMMA TakeStory ==
  ASSUME MessageType, MessageType', BusIdle, Plain, TakeMessage,
         Target, Birth, LastTells, Chain, Repeats, Preroll, Notes
  PROVE  Target' /\ Birth' /\ LastTells' /\ Chain' /\ Repeats' /\ Preroll' /\ Notes'
<1>1. UNCHANGED <<m_PlayerState, m_PlayerPendingState, m_StallOnPause, m_fRate,
                  gst, pc, then>>
  BY DEF TakeMessage, player, rate
<1>2. (Excused' <=> Excused) /\ (AppPauses' <=> AppPauses) /\ (Noted' <=> Noted)
  BY <1>1 DEF Excused, AppPauses, Noted
<1>3. /\ After = After' + 1 /\ After' \in 0..After' /\ News' = 0..Len(messages')
      /\ \A i \in News' : /\ i \in 0..After' /\ i + 1 \in News
                          /\ talk'[i] = talk[i + 1] /\ i \in Nat
      /\ Len(messages') \in Nat
  BY TakeFacts DEF After
<1>4. Target'
  BY <1>1 DEF Target
<1>5. Birth'
  <2>1. gst'.state = "READY" => Untold(talk', m_PlayerState', After')
    BY <1>1, <1>3, TakeUntold DEF Birth
  <2>2. ASSUME NEW k \in News', talk'[k].type = "STATE", talk'[k].old = "READY"
        PROVE  Untold(talk', m_PlayerState', k)
    <3>1. Untold(talk, m_PlayerState, k + 1)
      BY <1>3, <2>2 DEF Birth
    <3>2. QED
      BY <1>3, <3>1, TakeUntold
  <2>3. QED
    BY <2>1, <2>2 DEF Birth
<1>6. LastTells'
  BY <1>1, <1>3, TakeBelieved DEF LastTells
<1>7. Chain'
  <2>1. ASSUME NEW k \in News', talk'[k].type = "STATE"
        PROVE  /\ <<talk'[k].old, talk'[k].new>> \in Changes
               /\ talk'[k].old = "PLAYING" =>
                     Believed(talk', m_PlayerState', k, "PLAYING")
    <3>1. /\ <<talk'[k].old, talk'[k].new>> \in Changes
          /\ talk'[k].old = "PLAYING" =>
                Believed(talk, m_PlayerState, k + 1, "PLAYING")
      BY <1>3, <2>1 DEF Chain
    <3>2. QED
      BY <1>3, <3>1, TakeBelieved
  <2>2. QED
    BY <2>1 DEF Chain
<1>8. Repeats'
  <2>1. ASSUME NEW k \in News', talk'[k].type = "STATE", talk'[k].old = "PAUSED",
               talk'[k].new = "PAUSED"
        PROVE  Excused' \/ Believed(talk', m_PlayerState', k, "PAUSED")
    <3>1. Excused \/ Believed(talk, m_PlayerState, k + 1, "PAUSED")
      BY <1>3, <2>1 DEF Repeats
    <3>2. QED
      BY <1>2, <1>3, <3>1, TakeBelieved
  <2>2. QED
    BY <2>1 DEF Repeats
<1>9. Preroll'
  BY <1>1, <1>2, <1>3, TakeBelieved DEF Preroll
<1>10. NoteHeld'
  BY <1>1, <1>2 DEF Notes, NoteHeld
<1>11. Answered => Answered'
  <2>1. TwoTell => TwoTell'
    <3>1. ASSUME NEW j \in News, NEW k \in News, j < k, talk[j].type = "STATE",
                 talk[k].type = "STATE"
          PROVE  TwoTell'
      <4>1. j # 0 /\ k # 0
        BY <3>1, TakeFacts DEF News
      <4>2. /\ j - 1 \in News' /\ k - 1 \in News' /\ j - 1 < k - 1
            /\ (j - 1) + 1 = j /\ (k - 1) + 1 = k
        BY <3>1, <4>1, TakeFacts DEF News
      <4>3. talk'[j - 1] = talk[j] /\ talk'[k - 1] = talk[k]
        BY <1>3, <4>2
      <4>4. QED
        BY <3>1, <4>2, <4>3 DEF TwoTell
    <3>2. QED
      BY <3>1 DEF TwoTell
  <2>2. First(talk', After') => First(talk, After)
    <3>1. ASSUME First(talk', After'), NEW i \in 0..(After - 1)
          PROVE  talk[i].type # "STATE"
      <4>1. CASE i = 0
        BY <4>1, TakeFacts
      <4>2. CASE i # 0
        <5>1. i - 1 \in News' /\ i - 1 \in 0..(After' - 1) /\ (i - 1) + 1 = i
          BY <1>3, <4>2 DEF After
        <5>2. talk'[i - 1] = talk[i] /\ talk'[i - 1].type # "STATE"
          BY <1>3, <3>1, <5>1 DEF First
        <5>3. QED
          BY <5>2
      <4>3. QED
        BY <4>1, <4>2
    <3>2. QED
      BY <3>1 DEF First
  <2>3. QED
    BY <1>1, <2>1, <2>2 DEF Answered
<1>12. AnswerComes'
  BY <1>1, <1>2, <1>11 DEF Notes, AnswerComes, Seeking
<1>13. QED
  BY <1>4, <1>5, <1>6, <1>7, <1>8, <1>9, <1>10, <1>12 DEF Notes

-----------------------------------------------------------------------------
(* The player hears of a change.                                           *)

LEMMA HandledHead ==
  ASSUME MessageType, Control, UpdatePlayerState \/ HandleStateChanged
  PROVE  /\ talk[0] = msg /\ msg.type = "STATE" /\ 0 \in News
         /\ Len(messages) \in Nat
<1>1. msg.type = "STATE" /\ pc["bus"] \in {"idle", "update"}
  BY DEF UpdatePlayerState, HandleStateChanged, Handling, Control
<1>2. QED
  BY <1>1, TalkTypes

\* A change that does not concern the player is none to it.
LEMMA IgnoredFits ==
  ASSUME PlayerType, MessageType, Control, HandleStateChanged, ~Concerns,
         Chain, Repeats
  PROVE  Fits(m_PlayerState', msg.new)
<1>1. m_PlayerState' = m_PlayerState
  BY DEF HandleStateChanged, player
<1>2. CASE m_PlayerState = "Unknown"
  BY <1>1, <1>2 DEF Fits, Still
<1>3. CASE m_PlayerState # "Unknown"
  <2>1. msg.old = msg.new
    BY <1>3 DEF Concerns
  <2>2. <<msg.old, msg.new>> \in Changes
    BY HandledHead DEF Chain
  <2>3. msg.old = "PAUSED" /\ msg.new = "PAUSED"
    BY <2>1, <2>2 DEF Changes
  <2>4. ~Excused
    BY <2>3 DEF Concerns, NothingAsked, Excused, Noted
  <2>5. Believed(talk, m_PlayerState, 0, "PAUSED")
    BY <2>3, <2>4, HandledHead DEF Repeats
  <2>6. QED
    BY <1>1, <2>3, <2>5, BelievedStart
<1>4. QED
  BY <1>2, <1>3

\* A note or a stall is not taken off while its answer is still to come.
LEMMA NotAhead ==
  ASSUME MessageType, UpdatePlayerState, Plain', ~NothingAsked \/
         (m_StallOnPause /\ ~m_StallOnPause')
  PROVE  /\ ~AppPauses /\ gst.pending = "VOID"
         /\ \A i \in 1..Len(messages) : talk[i].type # "STATE"
<1>1. ~AnswerAhead
  BY DEF UpdatePlayerState, Misread, Plain
<1>2. DOMAIN messages = 1..Len(messages)
  BY DEF MessageType
<1>3. QED
  BY <1>1, <1>2, TalkTypes DEF AnswerAhead, AppPauses

\* What a change means, when the player comes to hear of it.
LEMMA HeardChange ==
  ASSUME MessageType, Control, UpdatePlayerState, Birth, Chain, Repeats
  PROVE  \/ msg.old = "READY" /\ msg.new = "PAUSED" /\ m_PlayerState = "Unknown"
         \/ msg.old = "PAUSED" /\ msg.new = "PLAYING"
         \/ /\ msg.old = "PLAYING" /\ msg.new = "PAUSED"
            /\ Fits(m_PlayerState, "PLAYING")
         \/ /\ msg.old = "PAUSED" /\ msg.new = "PAUSED"
            /\ Excused \/ Fits(m_PlayerState, "PAUSED")
<1>1. /\ <<msg.old, msg.new>> \in Changes
      /\ msg.old = "PLAYING" => Believed(talk, m_PlayerState, 0, "PLAYING")
  BY HandledHead DEF Chain
<1>2. msg.old = "READY" => Untold(talk, m_PlayerState, 0)
  BY HandledHead DEF Birth
<1>3. msg.old = "PAUSED" /\ msg.new = "PAUSED" =>
         Excused \/ Believed(talk, m_PlayerState, 0, "PAUSED")
  BY HandledHead DEF Repeats
<1>4. QED
  BY <1>1, <1>2, <1>3, BelievedStart DEF Changes, Untold

\* The note of Stop is answered by a pause, and taken off.
LEMMA StopAnswered ==
  ASSUME PlayerType, MessageType, Control, UpdatePlayerState, Plain',
         m_PlayerPendingState = "Stopped",
         Target, Birth, LastTells, Chain, Repeats, Notes
  PROVE  /\ m_PlayerState' = "Stopped" /\ m_PlayerPendingState' = "Unknown"
         /\ msg.new = "PAUSED"
<1>1. /\ ~AppPauses /\ gst.pending = "VOID"
      /\ \A i \in 1..Len(messages) : talk[i].type # "STATE"
  BY NotAhead DEF NothingAsked
<1>2. ~TwoTell
  BY <1>1, HandledHead DEF TwoTell, News
<1>3. gst.state = "PAUSED"
  BY <1>1, <1>2 DEF Notes, AnswerComes, Answered, Seeking
<1>4. msg.new = "PAUSED"
  <2>1. Believed(talk, m_PlayerState, After, "PAUSED")
    BY <1>1, <1>3 DEF LastTells
  <2>2. Before(talk, 0, After) /\ 0 \in 0..(After - 1)
    BY <1>1, HandledHead DEF Before, After
  <2>3. talk[0].new = "PAUSED"
    BY <2>1, <2>2 DEF Believed
  <2>4. QED
    BY <2>3, HandledHead
<1>5. m_PlayerState \in {"Playing", "Paused", "Stalled", "Finished"}
  BY DEF Notes, NoteHeld
<1>6. \/ msg.old = "PLAYING" /\ m_PlayerState \in {"Playing", "Finished"}
      \/ msg.old = "PAUSED"
  BY <1>4, <1>5, HeardChange DEF Fits, Still
<1>7. NewPlayerState = "Stopped"
  BY <1>4, <1>5, <1>6 DEF NewPlayerState, PauseMeans, NothingAsked
<1>8. QED
  BY <1>4, <1>5, <1>7 DEF UpdatePlayerState

\* The player believes what it has heard.
LEMMA UpdateFits ==
  ASSUME PlayerType, MessageType, Control, UpdatePlayerState, Plain',
         m_PlayerState # "Error",
         Target, Birth, LastTells, Chain, Repeats, Notes
  PROVE  Fits(m_PlayerState', msg.new)
<1>1. m_PlayerState' = NewPlayerState
  BY DEF UpdatePlayerState
<1>2. CASE m_PlayerPendingState = "Stopped"
  BY <1>2, StopAnswered DEF Fits, Still
<1>3. CASE m_PlayerPendingState # "Stopped"
  <2> USE DEF NewPlayerState, PauseMeans, NothingAsked, Fits, Still
  <2>1. CASE msg.old = "READY" /\ msg.new = "PAUSED" /\ m_PlayerState = "Unknown"
    BY <1>1, <2>1
  <2>2. CASE msg.old = "PAUSED" /\ msg.new = "PLAYING"
    BY <1>1, <1>3, <2>2 DEF PlayerType, PlayerStates
  <2>3. CASE msg.old = "PLAYING" /\ msg.new = "PAUSED" /\ Fits(m_PlayerState, "PLAYING")
    BY <1>1, <1>3, <2>3 DEF PlayerType, PlayerStates
  <2>4. CASE msg.old = "PAUSED" /\ msg.new = "PAUSED"
             /\ (Excused \/ Fits(m_PlayerState, "PAUSED"))
    BY <1>1, <1>3, <2>4 DEF PlayerType, PlayerStates, Excused, Noted
  <2>5. QED
    BY <2>1, <2>2, <2>3, <2>4, HeardChange
<1>4. QED
  BY <1>2, <1>3

LEMMA UpdateStory ==
  ASSUME PlayerType, FlagType, StreamType, MessageType, MessageType', ThreadType,
         Control, BusIdle, Changing, UpdatePlayerState, Plain', gst.state # "NULL",
         HeadMoves, Target, Birth, LastTells, Chain, Repeats, Preroll, Notes
  PROVE  Repeats' /\ Preroll'
<1>1. Effect
  BY UpdateEffect DEF Effect
<1>2. CASE Excused => Excused'
  BY <1>1, <1>2, RepeatsGoesOn, PrerollGoesOn
<1>3. CASE Excused /\ ~Excused'
  <2>1. /\ gst.pending = "VOID"
        /\ \A i \in 1..Len(messages) : talk[i].type # "STATE"
    <3>1. ~NothingAsked \/ (m_StallOnPause /\ ~m_StallOnPause')
      BY <1>3 DEF Excused, Noted, NothingAsked
    <3>2. QED
      BY <3>1, NotAhead
  <2>2. gst'.pending = "VOID"
    BY <2>1, UpdateEffect DEF Quiet, PlayEffect, PlayingEffect
  <2>3. Silent \/ Spoken("PAUSED", "PLAYING")
    BY <2>1, UpdateEffect, GstNames, Speaks
       DEF Quiet, PlayEffect, PlayingEffect, Silent
  <2>4. talk'[0].type # "STATE"
    BY HandledHead, TalkTypes, MessageType'
       DEF UpdatePlayerState, Goto, ThreadType, Threads, talk, News, NoMessage,
           MessageType
  <2>5. Grows /\ Len(messages) \in Nat
    BY <2>3, GstNames, TalkTypes DEF Grows
  <2>6. ASSUME NEW k \in News', talk'[k].type = "STATE"
        PROVE  talk'[k].new # "PAUSED"
    <3>1. k \in 1..Len(messages') /\ ~(k <= Len(messages))
      BY <2>1, <2>4, <2>5, <2>6, GrowsKeeps DEF News
    <3>2. ~Silent
      BY <2>5, <2>6, <3>1, GrowsKeeps
    <3>3. k = Len(messages) + 1 /\ talk'[k] = StateChanged("PAUSED", "PLAYING")
      BY <2>3, <2>5, <3>1, <3>2, GstNames, GrowsKeeps
    <3>4. QED
      BY <3>3 DEF StateChanged
  <2>7. QED
    BY <2>2, <2>6 DEF Repeats, Preroll
<1>4. QED
  BY <1>2, <1>3

LEMMA UpdateNotes ==
  ASSUME PlayerType, MessageType, Control, UpdatePlayerState, Plain',
         Target, Birth, LastTells, Chain, Repeats, Notes
  PROVE  Notes'
<1>1. m_PlayerPendingState' # "Stopped"
  <2>1. CASE m_PlayerPendingState = "Stopped"
    BY <2>1, StopAnswered
  <2>2. CASE m_PlayerPendingState # "Stopped"
    BY <2>2 DEF UpdatePlayerState
  <2>3. QED
    BY <2>1, <2>2
<1>2. ~AppPauses
  BY NotAhead DEF Notes, NoteHeld, Noted, NothingAsked
<1>3. ~AppPauses'
  BY <1>2 DEF UpdatePlayerState, Goto, AppPauses
<1>4. QED
  BY <1>1, <1>3 DEF Notes, NoteHeld, AnswerComes

-----------------------------------------------------------------------------
(* Notes.                                                                  *)

LEMMA NoteHeldKept == PlayerType /\ ThreadType /\ Control /\ Plain' /\
   m_PlayerState # "Error" /\ NoteHeld /\ [Next]_vars => NoteHeld' \/
   UpdatePlayerState \/ TornDown
<1> SUFFICES ASSUME PlayerType, ThreadType, Control, Plain', m_PlayerState #
   "Error", NoteHeld, [Next]_vars PROVE NoteHeld' \/ UpdatePlayerState \/
   TornDown
  OBVIOUS
<1> USE DEF player, rate, buffer, source, count, threads
<1>1. ASSUME NEW c \in Calls \ {"finish"}, Call(c) PROVE NoteHeld' \/
   UpdatePlayerState \/ TornDown
  <2>1. FirstStep(c) \notin {"internalPause", "setPaused"}
    BY <1>1, CallsAssumption DEF FirstStep
  <2>2. QED
    BY <1>1, <2>1 DEF Call, Enter, NoteHeld, AppPauses, Noted, ThreadType,
       Threads
<1>2. CASE StopTimeReached
  BY <1>2 DEF StopTimeReached, Goto, KeepStream, NoteHeld, AppPauses, Noted,
     Control, ThreadType, Threads
<1>3. ASSUME NEW t \in Threads, Play(t) PROVE NoteHeld' \/ UpdatePlayerState
   \/ TornDown
  BY <1>3 DEF Play, Goto, Return, Cross, KeepRest, KeepStream, NoteHeld,
     AppPauses, Noted, Control, ThreadType, Threads
<1>4. ASSUME NEW t \in Threads, SetPlaying(t) PROVE NoteHeld' \/
   UpdatePlayerState \/ TornDown
  BY <1>4 DEF SetPlaying, Return, Cross, NoteHeld, AppPauses, Noted, Control,
     ThreadType, Threads
<1>5. ASSUME NEW t \in Threads, PauseTest(t) PROVE NoteHeld' \/
   UpdatePlayerState \/ TornDown
  BY <1>5 DEF PauseTest, Goto, Return, Cross, KeepRest, KeepStream, NoteHeld,
     AppPauses, Noted, Control, ThreadType, Threads
<1>6. ASSUME NEW t \in Threads, PauseMark(t) PROVE NoteHeld' \/
   UpdatePlayerState \/ TornDown
  BY <1>6 DEF PauseMark, Goto, Return, Cross, KeepRest, KeepStream, NoteHeld,
     AppPauses, Noted, Control, ThreadType, Threads
<1>7. ASSUME NEW t \in Threads, StopTest(t) PROVE NoteHeld' \/
   UpdatePlayerState \/ TornDown
  BY <1>7 DEF StopTest, Goto, Return, Cross, KeepRest, KeepStream, NoteHeld,
     AppPauses, Noted, Control, ThreadType, Threads
<1>8. ASSUME NEW t \in Threads, StopMark(t) PROVE NoteHeld' \/
   UpdatePlayerState \/ TornDown
  <2>1. t = "app" /\ then["app"] = "seekTest" /\ m_fRate # 0
    BY <1>8 DEF StopMark, Control, Threads
  <2>2. m_PlayerState \in {"Playing", "Paused", "Stalled", "Finished"}
    BY <1>8, <2>1 DEF StopMark, Cross, Plain, Control, PlayerType, PlayerStates
  <2>3. QED
    BY <1>8, <2>1, <2>2 DEF StopMark, Goto, NoteHeld, AppPauses, Noted,
       ThreadType
<1>9. ASSUME NEW t \in Threads, FinishTest(t) PROVE NoteHeld' \/
   UpdatePlayerState \/ TornDown
  BY <1>9 DEF FinishTest, Goto, Return, KeepMedia, KeepRest, KeepStream,
     NoteHeld, AppPauses, Noted, Control, ThreadType, Threads
<1>10. ASSUME NEW t \in Threads, InternalPause(t) PROVE NoteHeld' \/
   UpdatePlayerState \/ TornDown
  BY <1>10 DEF InternalPause, Goto, Return, Cross, KeepRest, KeepStream,
     NoteHeld, AppPauses, Noted, Control, ThreadType, Threads
<1>11. ASSUME NEW t \in Threads, SetPaused(t) PROVE NoteHeld' \/
   UpdatePlayerState \/ TornDown
  BY <1>11 DEF SetPaused, Return, Cross, NoteHeld, AppPauses, Noted, Control,
     ThreadType, Threads
<1>12. ASSUME NEW t \in Threads, SeekTest(t) PROVE NoteHeld' \/
   UpdatePlayerState \/ TornDown
  BY <1>12 DEF SeekTest, Goto, Return, KeepMedia, KeepRest, KeepStream,
     NoteHeld, AppPauses, Noted, Control, ThreadType, Threads
<1>13. ASSUME NEW t \in Threads, SeekPipeline(t) PROVE NoteHeld' \/
   UpdatePlayerState \/ TornDown
  BY <1>13 DEF SeekPipeline, Goto, Return, KeepStream, FlushingSeek, NoteHeld,
     AppPauses, Noted, Control, ThreadType, Threads
<1>14. ASSUME NEW t \in Threads, SeekResume(t) PROVE NoteHeld' \/
   UpdatePlayerState \/ TornDown
  BY <1>14 DEF SeekResume, Goto, Return, KeepMedia, KeepRest, KeepStream,
     NoteHeld, AppPauses, Noted, Control, ThreadType, Threads
<1>15. ASSUME NEW t \in Threads, RateZero(t) PROVE NoteHeld' \/
   UpdatePlayerState \/ TornDown
  BY <1>15 DEF RateZero, Enter, Return, KeepMedia, KeepRest, KeepStream,
     NoteHeld, AppPauses, Noted, Control, ThreadType, Threads
<1>16. ASSUME NEW t \in Threads, RateStore(t) PROVE NoteHeld' \/
   UpdatePlayerState \/ TornDown
  BY <1>16 DEF RateStore, Return, KeepMedia, KeepRest, KeepStream, NoteHeld,
     AppPauses, Noted, Control, ThreadType, Threads
<1>17. ASSUME NEW t \in Threads, RateSeek(t) PROVE NoteHeld' \/
   UpdatePlayerState \/ TornDown
  BY <1>17 DEF RateSeek, Return, KeepMedia, KeepRest, KeepStream,
     FlushingSeek, NoteHeld, AppPauses, Noted, Control, ThreadType, Threads
<1>18. ASSUME NEW t \in Threads, PauseFails(t) PROVE NoteHeld' \/
   UpdatePlayerState \/ TornDown
  BY <1>18 DEF PauseFails, Enter, Return, Post, Message, NoteHeld, AppPauses,
     Noted, Control, ThreadType, Threads
<1>19. CASE HandleStateChanged
  BY <1>19 DEF HandleStateChanged, Handling, Goto, Enter, KeepBus, KeepStream,
     NoteHeld, AppPauses, Noted, Control, ThreadType, Threads
<1>20. CASE UpdatePlayerState
  BY <1>20
<1>21. CASE HandleEOS
  BY <1>21 DEF HandleEOS, Handling, Goto, Cross, KeepStream, NoteHeld,
     AppPauses, Noted, Control, ThreadType, Threads
<1>22. CASE HandleError
  BY <1>22 DEF HandleError, Handling, Goto, KeepStream, NoteHeld, AppPauses,
     Noted, Control, ThreadType, Threads
<1>23. CASE TornDown
  BY <1>23
<1>24. CASE HandleProgress
  BY <1>24 DEF HandleProgress, Handling, Goto, KeepBus, KeepStream, NoteHeld,
     AppPauses, Noted, Control, ThreadType, Threads
<1>25. CASE HandleUnderrun
  BY <1>25 DEF HandleUnderrun, Handling, Goto, KeepBus, KeepStream, NoteHeld,
     AppPauses, Noted, Control, ThreadType, Threads
<1>26. CASE Stall
  BY <1>26 DEF Stall, Goto, KeepBus, KeepStream, NoteHeld, AppPauses, Noted,
     Control, ThreadType, Threads
<1>27. CASE HandleHLSBuffer
  BY <1>27 DEF HandleHLSBuffer, Handling, Goto, KeepBus, KeepStream, NoteHeld,
     AppPauses, Noted, Control, ThreadType, Threads
<1>28. CASE HandlerDone
  BY <1>28 DEF HandlerDone, KeepStream, NoteHeld, AppPauses, Noted, Control,
     ThreadType, Threads
<1>29. CASE AsyncDone \/ Render \/ EndOfStream \/ Download \/ Underrun \/
   Fault \/ TakeMessage \/ BusMoves \/ Dispose \/ Pads \/ UNCHANGED vars
  BY <1>29 DEF vars, mvars, AsyncDone, Render, Post, Message, EndOfStream,
     Download, Underrun, Fault, TakeMessage, BusMoves, BusCallback,
     DropReference, BusCallbackDestroyNotify, FreeMeHere, Dispose, Pads,
     NoteHeld, AppPauses, Noted, mvars
<1>30. QED
  BY <1>1, <1>2, <1>3, <1>4, <1>5, <1>6, <1>7, <1>8, <1>9, <1>10, <1>11,
     <1>12, <1>13, <1>14, <1>15, <1>16, <1>17, <1>18, <1>19, <1>20, <1>21,
     <1>22, <1>23, <1>24, <1>25, <1>26, <1>27, <1>28, <1>29, NextCases DEF
     ThreadStep

LEMMA TellsKept ==
  ASSUME MessageType, MessageType', Grows, HeadKept
  PROVE  /\ TwoTell => TwoTell'
         /\ First(talk', After') => First(talk, After)
<1>1. /\ Len(messages) \in Nat /\ News = 0..Len(messages)
      /\ After = Len(messages) + 1 /\ News' = 0..Len(messages')
      /\ After' = Len(messages') + 1
      /\ Len(messages') \in {Len(messages), Len(messages) + 1}
  BY GrowsKeeps, TalkTypes DEF News, After
<1>2. ASSUME NEW i \in News, talk[i].type = "STATE"
      PROVE  i \in News' /\ talk'[i].type = "STATE"
  <2>1. CASE i = 0
    BY <1>1, <1>2, <2>1 DEF HeadKept
  <2>2. CASE i # 0
    BY <1>1, <1>2, <2>2, GrowsKeeps
  <2>3. QED
    BY <2>1, <2>2
<1>3. TwoTell => TwoTell'
  BY <1>2 DEF TwoTell
<1>4. First(talk', After') => First(talk, After)
  BY <1>1, <1>2 DEF First
<1>5. QED
  BY <1>3, <1>4

LEMMA TellsMore ==
  ASSUME MessageType, MessageType', HeadKept,
         NEW o \in GstStates, NEW n \in GstStates, Spoken(o, n)
  PROVE  /\ ~First(talk', After')
         /\ ~First(talk, After) => TwoTell'
<1>1. /\ Len(messages) \in Nat /\ News = 0..Len(messages) /\ Grows
      /\ After = Len(messages) + 1 /\ News' = 0..After
      /\ After' = After + 1 /\ talk'[After] = StateChanged(o, n)
  BY GrowsKeeps, TalkTypes DEF News, After, Grows
<1>2. talk'[After].type = "STATE"
  BY <1>1 DEF StateChanged
<1>3. ~First(talk', After')
  BY <1>1, <1>2 DEF First
<1>4. ASSUME NEW i \in 0..(After - 1), talk[i].type = "STATE"
      PROVE  TwoTell'
  <2>1. talk'[i].type = "STATE"
    <3>1. CASE i = 0
      BY <1>4, <3>1 DEF HeadKept
    <3>2. CASE i # 0
      BY <1>1, <1>4, <3>2, GrowsKeeps
    <3>3. QED
      BY <3>1, <3>2
  <2>2. i \in News' /\ After \in News' /\ i < After
    BY <1>1, <1>4
  <2>3. QED
    BY <1>2, <2>1, <2>2 DEF TwoTell
<1>5. QED
  BY <1>3, <1>4 DEF First

\* An answer on its way stays so, unless the pipeline is told to play instead.
LEMMA AnsweredKept ==
  ASSUME StreamType, MessageType, MessageType', Changing, gst.state # "NULL",
         Target, HeadKept, Effect, Noted, Answered
  PROVE  Answered'
<1>1. Grows
  BY EffectSpeech
<1>2. TwoTell => TwoTell' /\ (First(talk', After') => First(talk, After))
  BY <1>1, TellsKept
<1>3. CASE TwoTell
  BY <1>2, <1>3 DEF Answered
<1>4. First(talk', After') => First(talk, After)
  BY <1>1, TellsKept
<1>5. CASE Quiet
  BY <1>3, <1>4, <1>5 DEF Quiet, Answered
<1>6. CASE CompleteEffect
  <2>1. CASE gst.target = "PAUSED"
    <3>1. Spoken(gst.state, "PAUSED") /\ gst.state \in GstStates
      BY <1>6, <2>1 DEF CompleteEffect, StreamType, GstType
    <3>2. ~First(talk', After')
      BY <3>1, GstNames, TellsMore
    <3>3. QED
      BY <1>6, <2>1, <3>2 DEF CompleteEffect, Answered
  <2>2. CASE gst.target # "PAUSED"
    BY <1>3, <1>6, <2>2 DEF CompleteEffect, Answered
  <2>3. QED
    BY <2>1, <2>2
<1>7. CASE PlayEffect
  <2>1. CASE gst.state = "PAUSED" /\ ~TwoTell
    <3>1. Spoken("PAUSED", "PLAYING") /\ ~First(talk, After)
      BY <1>7, <2>1, GstNames, Speaks DEF PlayEffect, PlayingEffect, Answered
    <3>2. TwoTell'
      BY <3>1, GstNames, TellsMore
    <3>3. QED
      BY <3>2 DEF Answered
  <2>2. CASE gst.state # "PAUSED"
    BY <1>3, <1>7, <2>2 DEF PlayEffect, Answered
  <2>3. QED
    BY <1>3, <2>1, <2>2
<1>8. CASE PauseEffect
  BY <1>3, <1>4, <1>8 DEF PauseEffect, PausedEffect, Answered
<1>9. CASE SeekEffect
  BY <1>3, <1>4, <1>9 DEF SeekEffect, Answered, Target
<1>10. QED
  BY <1>5, <1>6, <1>7, <1>8, <1>9 DEF Effect

LEMMA AnswerSteps == PlayerType /\ ThreadType /\ Control /\ Plain' /\
   m_PlayerState # "Error" /\ gst.state # "NULL" /\ StreamType /\ Target /\
   NoteHeld /\ m_PlayerPendingState' = "Stopped" /\ (AppPauses \/ Seeking) /\
   [Next]_vars => AppPauses' \/ Seeking' \/ Answered' \/ UpdatePlayerState \/
   TakeMessage \/ TornDown \/ (\E u \in Threads : PauseFails(u))
<1> SUFFICES ASSUME PlayerType, ThreadType, Control, Plain', m_PlayerState #
   "Error", gst.state # "NULL", StreamType, Target, NoteHeld,
   m_PlayerPendingState' = "Stopped", (AppPauses \/ Seeking), [Next]_vars
   PROVE AppPauses' \/ Seeking' \/ Answered' \/ UpdatePlayerState \/
   TakeMessage \/ TornDown \/ (\E u \in Threads : PauseFails(u))
  OBVIOUS
<1> USE DEF player, rate, buffer, source, count, threads
<1>1. CASE AsyncDone
  BY <1>1 DEF AsyncDone, AppPauses, Seeking
<1>2. CASE Render
  <2>1. pc'["app"] = pc["app"] /\ m_fRate' = m_fRate
    BY <1>2 DEF Render, Post, Message, Control, ThreadType, Threads, mvars
  <2>2. gst' = gst
    BY <1>2 DEF Render, Post, Message, mvars
  <2>3. QED
    BY <2>1, <2>2 DEF AppPauses, Seeking
<1>3. CASE EndOfStream
  <2>1. pc'["app"] = pc["app"] /\ m_fRate' = m_fRate
    BY <1>3 DEF EndOfStream, Post, Message, Control, ThreadType, Threads, mvars
  <2>2. gst' = gst
    BY <1>3 DEF EndOfStream, Post, Message, mvars
  <2>3. QED
    BY <2>1, <2>2 DEF AppPauses, Seeking
<1>4. CASE Download
  <2>1. pc'["app"] = pc["app"] /\ m_fRate' = m_fRate
    BY <1>4 DEF Download, Post, Message, Control, ThreadType, Threads, mvars
  <2>2. gst' = gst
    BY <1>4 DEF Download, Post, Message, mvars
  <2>3. QED
    BY <2>1, <2>2 DEF AppPauses, Seeking
<1>5. CASE Underrun
  <2>1. pc'["app"] = pc["app"] /\ m_fRate' = m_fRate
    BY <1>5 DEF Underrun, Post, Message, Control, ThreadType, Threads, mvars
  <2>2. gst' = gst
    BY <1>5 DEF Underrun, Post, Message, mvars
  <2>3. QED
    BY <2>1, <2>2 DEF AppPauses, Seeking
<1>6. CASE Fault
  <2>1. pc'["app"] = pc["app"] /\ m_fRate' = m_fRate
    BY <1>6 DEF Fault, Post, Message, Control, ThreadType, Threads, mvars
  <2>2. gst' = gst
    BY <1>6 DEF Fault, Post, Message, mvars
  <2>3. QED
    BY <2>1, <2>2 DEF AppPauses, Seeking
<1>7. ASSUME NEW c \in Calls \ {"finish"}, Call(c) PROVE AppPauses' \/
   Seeking' \/ Answered' \/ UpdatePlayerState \/ TakeMessage \/ TornDown \/
   (\E u \in Threads : PauseFails(u))
  BY <1>7 DEF Call, AppPauses, Seeking
<1>8. CASE StopTimeReached
  <2>1. pc'["app"] = pc["app"] /\ m_fRate' = m_fRate
    BY <1>8 DEF StopTimeReached, Goto, KeepStream, Control, ThreadType,
       Threads, mvars
  <2>2. gst' = gst
    BY <1>8 DEF StopTimeReached, Goto, KeepStream, mvars
  <2>3. QED
    BY <2>1, <2>2 DEF AppPauses, Seeking
<1>9. ASSUME NEW t \in Threads, Play(t) PROVE AppPauses' \/ Seeking' \/
   Answered' \/ UpdatePlayerState \/ TakeMessage \/ TornDown \/ (\E u \in
   Threads : PauseFails(u))
  <2>1. gst' = gst /\ m_fRate' = m_fRate
    BY <1>9 DEF Play, Goto, Return, Cross, KeepRest, KeepStream
  <2>2. CASE t = "app"
    BY <1>9, <2>1, <2>2 DEF Play, Goto, Return, Cross, KeepRest, KeepStream,
       AppPauses, Seeking, ThreadType, Threads, NoteHeld, Control
  <2>3. CASE t # "app"
    BY <1>9, <2>1, <2>3 DEF Play, Goto, Return, Cross, KeepRest, KeepStream,
       AppPauses, Seeking, ThreadType, Threads
  <2>4. QED
    BY <2>2, <2>3
<1>10. ASSUME NEW t \in Threads, SetPlaying(t) PROVE AppPauses' \/ Seeking' \/
   Answered' \/ UpdatePlayerState \/ TakeMessage \/ TornDown \/ (\E u \in
   Threads : PauseFails(u))
  <2>1. m_PlayerPendingState = "Stopped"
    BY <1>10 DEF SetPlaying, player
  <2>2. CASE t = "app"
    BY <1>10, <2>2 DEF SetPlaying, AppPauses, Seeking
  <2>3. CASE t # "app"
    BY <1>10, <2>1, <2>3 DEF SetPlaying, Cross, Plain, NothingAsked, Control,
       Threads
  <2>4. QED
    BY <2>2, <2>3
<1>11. ASSUME NEW t \in Threads, PauseTest(t) PROVE AppPauses' \/ Seeking' \/
   Answered' \/ UpdatePlayerState \/ TakeMessage \/ TornDown \/ (\E u \in
   Threads : PauseFails(u))
  <2>1. gst' = gst /\ m_fRate' = m_fRate
    BY <1>11 DEF PauseTest, Goto, Return, Cross, KeepRest, KeepStream
  <2>2. CASE t = "app"
    BY <1>11, <2>1, <2>2 DEF PauseTest, Goto, Return, Cross, KeepRest,
       KeepStream, AppPauses, Seeking, ThreadType, Threads, NoteHeld, Control
  <2>3. CASE t # "app"
    BY <1>11, <2>1, <2>3 DEF PauseTest, Goto, Return, Cross, KeepRest,
       KeepStream, AppPauses, Seeking, ThreadType, Threads
  <2>4. QED
    BY <2>2, <2>3
<1>12. ASSUME NEW t \in Threads, PauseMark(t) PROVE AppPauses' \/ Seeking' \/
   Answered' \/ UpdatePlayerState \/ TakeMessage \/ TornDown \/ (\E u \in
   Threads : PauseFails(u))
  <2>1. gst' = gst /\ m_fRate' = m_fRate
    BY <1>12 DEF PauseMark, KeepStream, rate
  <2>2. t = "app" => ~AppPauses /\ ~Seeking
    BY <1>12 DEF PauseMark, AppPauses, Seeking
  <2>3. t # "app" => pc'["app"] = pc["app"]
    BY <1>12 DEF PauseMark, Goto, Return, ThreadType, Threads
  <2>4. QED
    BY <2>1, <2>2, <2>3 DEF AppPauses, Seeking
<1>13. ASSUME NEW t \in Threads, StopTest(t) PROVE AppPauses' \/ Seeking' \/
   Answered' \/ UpdatePlayerState \/ TakeMessage \/ TornDown \/ (\E u \in
   Threads : PauseFails(u))
  <2>1. gst' = gst /\ m_fRate' = m_fRate
    BY <1>13 DEF StopTest, Goto, Return, Cross, KeepRest, KeepStream
  <2>2. CASE t = "app"
    BY <1>13, <2>1, <2>2 DEF StopTest, Goto, Return, Cross, KeepRest,
       KeepStream, AppPauses, Seeking, ThreadType, Threads, NoteHeld, Control
  <2>3. CASE t # "app"
    BY <1>13, <2>1, <2>3 DEF StopTest, Goto, Return, Cross, KeepRest,
       KeepStream, AppPauses, Seeking, ThreadType, Threads
  <2>4. QED
    BY <2>2, <2>3
<1>14. ASSUME NEW t \in Threads, StopMark(t) PROVE AppPauses' \/ Seeking' \/
   Answered' \/ UpdatePlayerState \/ TakeMessage \/ TornDown \/ (\E u \in
   Threads : PauseFails(u))
  BY <1>14 DEF StopMark, Goto, AppPauses, Control, ThreadType, Threads
<1>15. ASSUME NEW t \in Threads, FinishTest(t) PROVE AppPauses' \/ Seeking' \/
   Answered' \/ UpdatePlayerState \/ TakeMessage \/ TornDown \/ (\E u \in
   Threads : PauseFails(u))
  <2>1. gst' = gst /\ m_fRate' = m_fRate
    BY <1>15 DEF FinishTest, Goto, Return, KeepMedia, KeepRest, KeepStream
  <2>2. CASE t = "app"
    BY <1>15, <2>1, <2>2 DEF FinishTest, Goto, Return, KeepMedia, KeepRest,
       KeepStream, AppPauses, Seeking, ThreadType, Threads, NoteHeld, Control
  <2>3. CASE t # "app"
    BY <1>15, <2>1, <2>3 DEF FinishTest, Goto, Return, KeepMedia, KeepRest,
       KeepStream, AppPauses, Seeking, ThreadType, Threads
  <2>4. QED
    BY <2>2, <2>3
<1>16. ASSUME NEW t \in Threads, InternalPause(t) PROVE AppPauses' \/ Seeking'
   \/ Answered' \/ UpdatePlayerState \/ TakeMessage \/ TornDown \/ (\E u \in
   Threads : PauseFails(u))
  <2>1. gst' = gst /\ m_fRate' = m_fRate /\ m_PlayerPendingState = "Stopped"
    BY <1>16 DEF InternalPause, KeepStream
  <2>2. CASE t = "app"
    <3>1. m_fRate # 0
      BY <1>16, <2>1, <2>2 DEF InternalPause, NoteHeld, AppPauses
    <3>2. pc'["app"] = "setPaused"
      BY <1>16, <2>1, <2>2, <3>1 DEF InternalPause, Goto, ThreadType
    <3>3. QED
      BY <3>2 DEF AppPauses
  <2>3. CASE t # "app"
    BY <1>16, <2>1, <2>3
       DEF InternalPause, Goto, Return, AppPauses, Seeking, ThreadType, Threads
  <2>4. QED
    BY <2>2, <2>3
<1>17. ASSUME NEW t \in Threads, SetPaused(t) PROVE AppPauses' \/ Seeking' \/
   Answered' \/ UpdatePlayerState \/ TakeMessage \/ TornDown \/ (\E u \in
   Threads : PauseFails(u))
  <2>1. m_fRate' = m_fRate /\ m_PlayerPendingState = "Stopped"
    BY <1>17 DEF SetPaused, rate, player
  <2>2. CASE t = "app"
    <3>1. PausedEffect
      BY <1>17, RequestEffects DEF SetPaused, StreamType
    <3>2. then["app"] = "seekTest" /\ m_fRate # 0
      BY <1>17, <2>1, <2>2 DEF SetPaused, NoteHeld, AppPauses
    <3>3. pc'["app"] = "seekTest"
      BY <1>17, <2>2, <3>2 DEF SetPaused, Return, ThreadType
    <3>4. CASE gst.pending = "VOID" /\ gst.state = "PAUSED"
      BY <2>1, <3>1, <3>2, <3>3, <3>4 DEF PausedEffect, Seeking
    <3>5. CASE gst'.pending = "PAUSED" /\ gst'.target = "PAUSED"
      BY <3>5 DEF Answered
    <3>6. CASE gst'.state = "PAUSED" /\ gst'.pending = "VOID"
      BY <2>1, <3>2, <3>3, <3>6 DEF Seeking
    <3>7. QED
      BY <3>1, <3>4, <3>5, <3>6 DEF PausedEffect, Target
  <2>3. CASE t # "app"
    <3>1. pc'["app"] = pc["app"]
      BY <1>17, <2>3 DEF SetPaused, Return, ThreadType, Threads
    <3>2. CASE AppPauses
      BY <3>1, <3>2 DEF AppPauses
    <3>3. CASE Seeking
      <4>1. PausedEffect
        BY <1>17, RequestEffects DEF SetPaused, StreamType
      <4>2. gst' = gst
        BY <3>3, <4>1 DEF PausedEffect, Seeking
      <4>3. QED
        BY <2>1, <3>1, <3>3, <4>2 DEF Seeking
    <3>4. QED
      BY <3>2, <3>3
  <2>4. QED
    BY <2>2, <2>3
<1>18. ASSUME NEW t \in Threads, SeekTest(t) PROVE AppPauses' \/ Seeking' \/
   Answered' \/ UpdatePlayerState \/ TakeMessage \/ TornDown \/ (\E u \in
   Threads : PauseFails(u))
  <2>1. gst' = gst /\ m_fRate' = m_fRate
    BY <1>18 DEF SeekTest, Goto, Return, KeepMedia, KeepRest, KeepStream
  <2>2. CASE t = "app"
    BY <1>18, <2>1, <2>2 DEF SeekTest, Goto, Return, KeepMedia, KeepRest,
       KeepStream, AppPauses, Seeking, ThreadType, Threads, NoteHeld, Control
  <2>3. CASE t # "app"
    BY <1>18, <2>1, <2>3 DEF SeekTest, Goto, Return, KeepMedia, KeepRest,
       KeepStream, AppPauses, Seeking, ThreadType, Threads
  <2>4. QED
    BY <2>2, <2>3
<1>19. ASSUME NEW t \in Threads, SeekPipeline(t) PROVE AppPauses' \/ Seeking'
   \/ Answered' \/ UpdatePlayerState \/ TakeMessage \/ TornDown \/ (\E u \in
   Threads : PauseFails(u))
  <2>1. t = "app" /\ ~AppPauses
    BY <1>19 DEF SeekPipeline, Control, Threads, AppPauses
  <2>2. Seeking
    BY <2>1
  <2>3. FlushingSeek
    BY <1>19, <2>2 DEF SeekPipeline, Seeking, CanSeek
  <2>4. gst'.pending = "PAUSED" /\ gst'.target = gst.target
    BY <2>2, <2>3, GstFields DEF FlushingSeek, Seeking, StreamType
  <2>5. QED
    BY <2>2, <2>4 DEF Answered, Seeking, Target
<1>20. ASSUME NEW t \in Threads, SeekResume(t) PROVE AppPauses' \/ Seeking' \/
   Answered' \/ UpdatePlayerState \/ TakeMessage \/ TornDown \/ (\E u \in
   Threads : PauseFails(u))
  <2>1. gst' = gst /\ m_fRate' = m_fRate
    BY <1>20 DEF SeekResume, Goto, Return, KeepMedia, KeepRest, KeepStream
  <2>2. CASE t = "app"
    BY <1>20, <2>1, <2>2 DEF SeekResume, Goto, Return, KeepMedia, KeepRest,
       KeepStream, AppPauses, Seeking, ThreadType, Threads, NoteHeld, Control
  <2>3. CASE t # "app"
    BY <1>20, <2>1, <2>3 DEF SeekResume, Goto, Return, KeepMedia, KeepRest,
       KeepStream, AppPauses, Seeking, ThreadType, Threads
  <2>4. QED
    BY <2>2, <2>3
<1>21. ASSUME NEW t \in Threads, RateZero(t) PROVE AppPauses' \/ Seeking' \/
   Answered' \/ UpdatePlayerState \/ TakeMessage \/ TornDown \/ (\E u \in
   Threads : PauseFails(u))
  <2>1. gst' = gst /\ m_fRate' = m_fRate
    BY <1>21 DEF RateZero, Enter, Return, KeepMedia, KeepRest, KeepStream
  <2>2. CASE t = "app"
    BY <1>21, <2>1, <2>2 DEF RateZero, Enter, Return, KeepMedia, KeepRest,
       KeepStream, AppPauses, Seeking, ThreadType, Threads, NoteHeld, Control
  <2>3. CASE t # "app"
    BY <1>21, <2>1, <2>3 DEF RateZero, Enter, Return, KeepMedia, KeepRest,
       KeepStream, AppPauses, Seeking, ThreadType, Threads
  <2>4. QED
    BY <2>2, <2>3
<1>22. ASSUME NEW t \in Threads, RateStore(t) PROVE AppPauses' \/ Seeking' \/
   Answered' \/ UpdatePlayerState \/ TakeMessage \/ TornDown \/ (\E u \in
   Threads : PauseFails(u))
  BY <1>22 DEF RateStore, Control, Threads, AppPauses, Seeking
<1>23. ASSUME NEW t \in Threads, RateSeek(t) PROVE AppPauses' \/ Seeking' \/
   Answered' \/ UpdatePlayerState \/ TakeMessage \/ TornDown \/ (\E u \in
   Threads : PauseFails(u))
  BY <1>23 DEF RateSeek, Control, Threads, AppPauses, Seeking
<1>24. ASSUME NEW t \in Threads, PauseFails(t) PROVE AppPauses' \/ Seeking' \/
   Answered' \/ UpdatePlayerState \/ TakeMessage \/ TornDown \/ (\E u \in
   Threads : PauseFails(u))
  BY <1>24
<1>25. CASE TakeMessage
  BY <1>25
<1>26. CASE BusMoves
  <2>1. pc'["app"] = pc["app"] /\ m_fRate' = m_fRate
    BY <1>26 DEF BusMoves, BusCallback, DropReference,
       BusCallbackDestroyNotify, FreeMeHere, Control, ThreadType, Threads,
       mvars
  <2>2. gst' = gst
    BY <1>26 DEF BusMoves, BusCallback, DropReference,
       BusCallbackDestroyNotify, FreeMeHere, mvars
  <2>3. QED
    BY <2>1, <2>2 DEF AppPauses, Seeking
<1>27. CASE HandleStateChanged
  <2>1. pc'["app"] = pc["app"] /\ m_fRate' = m_fRate
    BY <1>27 DEF HandleStateChanged, Handling, Goto, Enter, KeepBus,
       KeepStream, Control, ThreadType, Threads, mvars
  <2>2. gst' = gst
    BY <1>27 DEF HandleStateChanged, Handling, Goto, Enter, KeepBus,
       KeepStream, mvars
  <2>3. QED
    BY <2>1, <2>2 DEF AppPauses, Seeking
<1>28. CASE UpdatePlayerState
  BY <1>28
<1>29. CASE HandleEOS
  <2>1. pc'["app"] = pc["app"] /\ m_fRate' = m_fRate
    BY <1>29 DEF HandleEOS, Handling, Goto, Cross, KeepStream, Control,
       ThreadType, Threads, mvars
  <2>2. gst' = gst
    BY <1>29 DEF HandleEOS, Handling, Goto, Cross, KeepStream, mvars
  <2>3. QED
    BY <2>1, <2>2 DEF AppPauses, Seeking
<1>30. CASE HandleError
  <2>1. pc'["app"] = pc["app"] /\ m_fRate' = m_fRate
    BY <1>30 DEF HandleError, Handling, Goto, KeepStream, Control, ThreadType,
       Threads, mvars
  <2>2. gst' = gst
    BY <1>30 DEF HandleError, Handling, Goto, KeepStream, mvars
  <2>3. QED
    BY <2>1, <2>2 DEF AppPauses, Seeking
<1>31. CASE TornDown
  BY <1>31
<1>32. CASE HandleProgress
  <2>1. pc'["app"] = pc["app"] /\ m_fRate' = m_fRate
    BY <1>32 DEF HandleProgress, Handling, Goto, KeepBus, KeepStream, Control,
       ThreadType, Threads, mvars
  <2>2. gst' = gst
    BY <1>32 DEF HandleProgress, Handling, Goto, KeepBus, KeepStream, mvars
  <2>3. QED
    BY <2>1, <2>2 DEF AppPauses, Seeking
<1>33. CASE HandleUnderrun
  <2>1. pc'["app"] = pc["app"] /\ m_fRate' = m_fRate
    BY <1>33 DEF HandleUnderrun, Handling, Goto, KeepBus, KeepStream, Control,
       ThreadType, Threads, mvars
  <2>2. gst' = gst
    BY <1>33 DEF HandleUnderrun, Handling, Goto, KeepBus, KeepStream, mvars
  <2>3. QED
    BY <2>1, <2>2 DEF AppPauses, Seeking
<1>34. CASE Stall
  <2>1. pc'["app"] = pc["app"] /\ m_fRate' = m_fRate
    BY <1>34 DEF Stall, Goto, KeepBus, KeepStream, Control, ThreadType,
       Threads, mvars
  <2>2. gst' = gst
    BY <1>34 DEF Stall, Goto, KeepBus, KeepStream, mvars
  <2>3. QED
    BY <2>1, <2>2 DEF AppPauses, Seeking
<1>35. CASE HandleHLSBuffer
  <2>1. pc'["app"] = pc["app"] /\ m_fRate' = m_fRate
    BY <1>35 DEF HandleHLSBuffer, Handling, Goto, KeepBus, KeepStream, Control,
       ThreadType, Threads, mvars
  <2>2. gst' = gst
    BY <1>35 DEF HandleHLSBuffer, Handling, Goto, KeepBus, KeepStream, mvars
  <2>3. QED
    BY <2>1, <2>2 DEF AppPauses, Seeking
<1>36. CASE HandlerDone
  <2>1. pc'["app"] = pc["app"] /\ m_fRate' = m_fRate
    BY <1>36 DEF HandlerDone, KeepStream, Control, ThreadType, Threads, mvars
  <2>2. gst' = gst
    BY <1>36 DEF HandlerDone, KeepStream, mvars
  <2>3. QED
    BY <2>1, <2>2 DEF AppPauses, Seeking
<1>37. CASE Dispose
  <2>1. CASE UNCHANGED mvars
    BY <2>1 DEF mvars, AppPauses, Seeking
  <2>2. CASE StopPipeline
    BY <2>2 DEF StopPipeline, Plain
  <2>3. QED
    BY <1>37, <2>1, <2>2 DEF Dispose
<1>38. CASE Pads
  <2>1. pc'["app"] = pc["app"] /\ m_fRate' = m_fRate
    BY <1>38 DEF Pads, Control, ThreadType, Threads, mvars
  <2>2. gst' = gst
    BY <1>38 DEF Pads, mvars
  <2>3. QED
    BY <2>1, <2>2 DEF AppPauses, Seeking
<1>39. CASE UNCHANGED vars
  BY <1>39 DEF vars, mvars, mvars, AppPauses, Seeking
<1>40. QED
  BY <1>1, <1>2, <1>3, <1>4, <1>5, <1>6, <1>7, <1>8, <1>9, <1>10, <1>11,
     <1>12, <1>13, <1>14, <1>15, <1>16, <1>17, <1>18, <1>19, <1>20, <1>21,
     <1>22, <1>23, <1>24, <1>25, <1>26, <1>27, <1>28, <1>29, <1>30, <1>31,
     <1>32, <1>33, <1>34, <1>35, <1>36, <1>37, <1>38, <1>39, NextCases DEF
     ThreadStep

\* A pause that fails is reported as a fatal error.
LEMMA FailureBreaks ==
  ASSUME MessageType, NEW u \in Threads, PauseFails(u)
  PROVE  Broken'
<1>1. Message("ERROR") \in Messages /\ Message("ERROR").type = "ERROR"
  BY DEF Message, Messages
<1>2. messages' = Append(messages, Message("ERROR"))
  BY <1>1, PostOne DEF PauseFails
<1>3. /\ Len(messages) + 1 \in 1..Len(messages')
      /\ messages'[Len(messages) + 1] = Message("ERROR")
  BY <1>2 DEF MessageType
<1>4. QED
  BY <1>1, <1>3 DEF Broken

\* Only Stop leaves the note to stop, and then asks for a pause.
LEMMA NoteComes == ThreadType /\ Control /\ [Next]_vars =>
   (m_PlayerPendingState' = "Stopped" => m_PlayerPendingState = "Stopped" \/
   AppPauses')
<1> SUFFICES ASSUME ThreadType, Control, [Next]_vars PROVE
   (m_PlayerPendingState' = "Stopped" => m_PlayerPendingState = "Stopped" \/
   AppPauses')
  OBVIOUS
<1> USE DEF player, rate, buffer, source, count, threads
<1>1. ASSUME NEW t \in Threads, StopMark(t) PROVE (m_PlayerPendingState' =
   "Stopped" => m_PlayerPendingState = "Stopped" \/ AppPauses')
  <2>1. t = "app"
    BY <1>1 DEF StopMark, Control, Threads
  <2>2. QED
    BY <1>1, <2>1 DEF StopMark, Goto, AppPauses, ThreadType
<1>2. ASSUME NEW t \in Threads, Play(t) \/ SetPlaying(t) \/ PauseTest(t) \/
   PauseMark(t) \/ StopTest(t) \/ FinishTest(t) \/ InternalPause(t) \/
   SetPaused(t) \/ SeekTest(t) \/ SeekPipeline(t) \/ SeekResume(t) \/
   RateZero(t) \/ RateStore(t) \/ RateSeek(t) \/ PauseFails(t) PROVE
   (m_PlayerPendingState' = "Stopped" => m_PlayerPendingState = "Stopped" \/
   AppPauses')
  BY <1>2 DEF Play, Goto, Return, Cross, KeepRest, KeepStream, SetPlaying,
     PauseTest, PauseMark, StopTest, FinishTest, KeepMedia, InternalPause,
     SetPaused, SeekTest, SeekPipeline, FlushingSeek, SeekResume, RateZero,
     Enter, RateStore, RateSeek, PauseFails, Post, Message, mvars
<1>3. CASE AsyncDone \/ Render \/ EndOfStream \/ Download \/ Underrun \/ Fault
   \/ StopTimeReached \/ TakeMessage \/ BusMoves \/ HandleStateChanged \/
   UpdatePlayerState \/ HandleEOS \/ HandleError \/ TornDown \/ HandleProgress
   \/ HandleUnderrun \/ Stall \/ HandleHLSBuffer \/ HandlerDone \/ Dispose \/
   Pads \/ UNCHANGED vars
  BY <1>3 DEF vars, mvars, AsyncDone, Render, Post, Message, EndOfStream,
     Download, Underrun, Fault, StopTimeReached, Goto, KeepStream,
     TakeMessage, BusMoves, BusCallback, DropReference,
     BusCallbackDestroyNotify, FreeMeHere, HandleStateChanged, Handling,
     Enter, KeepBus, UpdatePlayerState, Misread, HandleEOS, Cross,
     HandleError, TornDown, HandleProgress, HandleUnderrun, Stall,
     HandleHLSBuffer, HandlerDone, Dispose, Pads, mvars
<1>4. ASSUME NEW c \in Calls \ {"finish"}, Call(c) PROVE
   (m_PlayerPendingState' = "Stopped" => m_PlayerPendingState = "Stopped" \/
   AppPauses')
  BY <1>4 DEF Call, FirstStep, Enter, KeepStream, mvars
<1>5. QED
  BY <1>1, <1>2, <1>3, <1>4, NextCases DEF ThreadStep

-----------------------------------------------------------------------------
(* The invariant.                                                          *)

\* The message has been handled.
LEMMA HeardPopped ==
  ASSUME MessageType, MessageType', ThreadType, Control,
         UpdatePlayerState \/ (HandleStateChanged /\ ~Concerns)
  PROVE  talk[0].type = "STATE" /\ talk'[0].type # "STATE" /\ talk[0] = msg
<1>1. pc'["bus"] = "done"
  BY DEF UpdatePlayerState, HandleStateChanged, Goto, ThreadType, Threads
<1>2. talk'[0] = IF pc'["bus"] = "done" THEN NoMessage ELSE msg'
  <2>1. Len(messages') \in Nat
    BY DEF MessageType
  <2>2. QED
    BY <2>1 DEF talk, News
<1>3. QED
  BY <1>1, <1>2, HandledHead DEF NoMessage

\* What is told of the pipeline stays right while the head moves.
LEMMA TellingKept ==
  ASSUME StreamType, MessageType, MessageType', ThreadType, Control, BusIdle,
         Changing, Changing', [Next]_vars, ~TakeMessage, ~TornDown,
         gst.state # "NULL", Effect, HeadMoves, Target, Birth, LastTells, Chain
  PROVE  Target' /\ Birth' /\ LastTells' /\ Chain'
<1>1. Target'
  BY TargetKept DEF Effect, AnyEffect, PlayEffect, PauseEffect
<1>2. LastTells'
  BY LastTellsGoesOn
<1>3. Chain'
  BY ChainGoesOn
<1>4. talk'[0] \in {talk[0], NoMessage}
  BY HeadFades
<1>5. \/ m_PlayerState' = m_PlayerState \/ m_PlayerState # "Unknown"
      \/ talk[0].type \in {"STATE", "EOS"} /\ talk'[0] = NoMessage
  BY LeavesUnknown
<1>6. Birth'
  BY <1>4, <1>5, BirthKept
<1>7. QED
  BY <1>1, <1>2, <1>3, <1>6

\* The answer to Stop's note is not lost.
LEMMA AnswerComesKept ==
  ASSUME PlayerType, ThreadType, StreamType, MessageType, MessageType',
         Control, Changing, Plain', m_PlayerState # "Error",
         gst.state # "NULL", [Next]_vars, Effect, HeadKept, Target, Notes,
         ~UpdatePlayerState, ~TakeMessage, ~TornDown,
         ~\E u \in Threads : PauseFails(u)
  PROVE  AnswerComes'
<1> SUFFICES ASSUME m_PlayerPendingState' = "Stopped"
             PROVE  AppPauses' \/ Answered' \/ Seeking'
  BY DEF AnswerComes
<1>1. m_PlayerPendingState = "Stopped" \/ AppPauses'
  BY NoteComes
<1>2. CASE m_PlayerPendingState = "Stopped"
  <2>1. NoteHeld /\ (AppPauses \/ Seeking \/ Answered)
    BY <1>2 DEF Notes, AnswerComes
  <2>2. CASE AppPauses \/ Seeking
    BY <2>1, <2>2, AnswerSteps
  <2>3. CASE Answered
    BY <1>2, <2>3, AnsweredKept DEF Noted
  <2>4. QED
    BY <2>1, <2>2, <2>3
<1>3. QED
  BY <1>1, <1>2

LEMMA StoryKept ==
  ASSUME PlayerType, FlagType, StreamType, MessageType, MessageType', ThreadType,
         CountType, Control, Stalling, Changing, Changing', BusIdle, Errors,
         Story, [Next]_vars
  PROVE  Story'
<1> DEFINE Tale == /\ Target /\ Birth /\ LastTells /\ Chain /\ Repeats /\ Preroll
                   /\ Notes
<1> SUFFICES ASSUME Calm', Plain', ~Broken' PROVE Tale'
  BY DEF Story, Calm
<1>1. Plain /\ Calm /\ ~Broken
  BY CalmBefore, BrokenKept
<1>2. Target /\ Birth /\ LastTells /\ Chain /\ Repeats /\ Preroll /\ Notes
  BY <1>1 DEF Story
<1>3. m_PlayerState # "Error" /\ gst.state # "NULL"
  BY <1>1 DEF Broken, Errors
<1>4. ~TornDown /\ ~\E u \in Threads : PauseFails(u)
  BY FailureBreaks DEF TornDown, Broken
<1>5. NoteHeld /\ (AppPauses => Noted)
  BY <1>2 DEF Notes, NoteHeld
<1>6. Effect \/ TakeMessage
  BY <1>3, <1>4, <1>5, EffectCases
<1>7. NoteHeld' \/ UpdatePlayerState
  BY <1>3, <1>4, <1>5, NoteHeldKept
<1>8. CASE TakeMessage
  BY <1>1, <1>2, <1>8, TakeStory
<1>9. CASE UpdatePlayerState /\ ~TakeMessage
  <2>1. HeadMoves
    BY <1>2, <1>3, <1>9, HeardPopped, UpdateFits DEF HeadMoves, Popped
  <2>2. Target' /\ Birth' /\ LastTells' /\ Chain'
    BY <1>2, <1>3, <1>4, <1>6, <1>9, <2>1, TellingKept
  <2>3. Repeats' /\ Preroll'
    BY <1>2, <1>3, <1>9, <2>1, UpdateStory
  <2>4. Notes'
    BY <1>2, <1>9, UpdateNotes
  <2>5. QED
    BY <2>2, <2>3, <2>4
<1>10. CASE HandleStateChanged /\ ~Concerns /\ ~TakeMessage /\ ~UpdatePlayerState
  <2>1. HeadMoves
    BY <1>2, <1>10, HeardPopped, IgnoredFits DEF HeadMoves, Popped
  <2>2. Target' /\ Birth' /\ LastTells' /\ Chain'
    BY <1>2, <1>3, <1>4, <1>6, <1>10, <2>1, TellingKept
  <2>3. UNCHANGED <<m_PlayerPendingState, m_StallOnPause>>
    BY <1>10 DEF HandleStateChanged, player
  <2>4. Excused => Excused'
    BY <2>3 DEF Excused, Noted
  <2>5. Repeats' /\ Preroll'
    BY <1>2, <1>3, <1>6, <1>10, <2>1, <2>4, RepeatsGoesOn, PrerollGoesOn
  <2>6. m_PlayerPendingState # "Stopped"
    <3>1. <<msg.old, msg.new>> \in Changes
      BY <1>2, <1>10, HandledHead DEF Chain
    <3>2. m_PlayerPendingState = "Stopped" => m_PlayerState # "Unknown"
      BY <1>5 DEF NoteHeld
    <3>3. QED
      BY <1>10, <3>1, <3>2 DEF Concerns, NothingAsked, Changes
  <2>7. Notes'
    BY <1>7, <1>10, <2>3, <2>6 DEF Notes, AnswerComes
  <2>8. QED
    BY <2>2, <2>5, <2>7
<1>11. CASE /\ ~TakeMessage /\ ~UpdatePlayerState
            /\ ~(HandleStateChanged /\ ~Concerns)
  <2>1. HeadKept
    BY <1>11, HeadCases DEF Handled
  <2>2. HeadMoves
    BY <1>4, <1>11, <2>1, FitsCases DEF HeadMoves
  <2>3. Target' /\ Birth' /\ LastTells' /\ Chain'
    BY <1>2, <1>3, <1>4, <1>6, <1>11, <2>2, TellingKept
  <2>4. Excused => Excused'
    BY <1>4, <1>11, ExcuseCases
  <2>5. Repeats' /\ Preroll'
    BY <1>2, <1>3, <1>6, <1>11, <2>2, <2>4, RepeatsGoesOn, PrerollGoesOn
  <2>6. AnswerComes'
    BY <1>2, <1>3, <1>4, <1>6, <1>11, <2>1, AnswerComesKept
  <2>7. QED
    BY <1>7, <1>11, <2>3, <2>5, <2>6 DEF Notes
<1>12. QED
  BY <1>8, <1>9, <1>10, <1>11

LEMMA InvInit == Init => IndInv
<1> SUFFICES ASSUME Init PROVE IndInv
  OBVIOUS
<1> USE DEF Init
<1>1. DisposeInv /\ DisposeTypeOK
  BY DisposeInvInit DEF DisposeInv
<1>2. PlayerType /\ FlagType
  BY DurationAssumption, BoundsAssumption DEF PlayerType, FlagType, PlayerStates
<1>3. StreamType
  BY DurationAssumption, BoundsAssumption DEF StreamType, GstType, GstStates
<1>4. MessageType /\ ThreadType
  BY DEF MessageType, ThreadType, Threads, Steps
<1>5. CountType
  BY BoundsAssumption DEF CountType
<1>6. TypeOK
  BY <1>1, <1>2, <1>3, <1>4, <1>5, TypeParts
<1>7. pc["bus"] = "idle" /\ pc["app"] = "idle" /\ pc["pulse"] = "idle"
      /\ then["bus"] = "done" /\ then["app"] = "idle" /\ then["pulse"] = "idle"
  BY DEF Threads
<1>8. Control /\ Stalling /\ Changing
  BY <1>7 DEF Control, Stalling, Changing, NoMessage, Noted
<1>9. BusIdle /\ Errors
  BY <1>7 DEF BusIdle, Errors, NoMessage, DisposeInit
<1>10. /\ Len(messages) = 0 /\ After = 1 /\ News = {0} /\ talk[0] = NoMessage
       /\ talk[0].type = "NONE" /\ 0..(After - 1) = {0}
  BY <1>7 DEF After, News, talk, NoMessage
<1>11. Story
  <2>1. Untold(talk, m_PlayerState, After)
    BY <1>10 DEF Untold
  <2>2. Target /\ Birth /\ LastTells /\ Chain /\ Repeats /\ Preroll
    BY <1>10, <2>1 DEF Target, Birth, LastTells, Chain, Repeats, Preroll
  <2>3. Notes
    BY <1>7 DEF Notes, NoteHeld, AnswerComes, AppPauses, Noted
  <2>4. QED
    BY <2>2, <2>3 DEF Story
<1>12. QED
  BY <1>1, <1>6, <1>8, <1>9, <1>11 DEF IndInv

LEMMA InvNext == IndInv /\ [Next]_vars => IndInv'
<1> SUFFICES ASSUME IndInv, [Next]_vars PROVE IndInv'
  OBVIOUS
<1>1. /\ TypeOK /\ DisposeInv /\ Control /\ Stalling /\ Changing /\ BusIdle
      /\ Errors /\ Story
  BY DEF IndInv
<1>2. /\ PlayerType /\ FlagType /\ StreamType /\ MessageType /\ ThreadType
      /\ CountType
  BY <1>1, TypeParts
<1>3. TypeOK' /\ DisposeInv'
  BY <1>1, TypesKept
<1>4. MessageType'
  BY <1>2, MessageTypeKept
<1>5. Control' /\ Stalling'
  BY <1>1, <1>2, ControlKept, StallingKept
<1>6. Changing'
  BY <1>1, <1>2, ChangingKept
<1>7. BusIdle' /\ Errors'
  BY <1>1, <1>2, BusIdleKept, ErrorsKept
<1>8. Story'
  BY <1>1, <1>2, <1>4, <1>6, StoryKept
<1>9. QED
  BY <1>3, <1>5, <1>6, <1>7, <1>8 DEF IndInv

\* The player knows where the pipeline is going: whatever calls, messages,
\* underruns and faults have interleaved, the changes of state it has not
\* heard of lead from the state BusCallback has recorded to the one
\* GStreamer is in, unless a fatal error is on its way.
THEOREM Invariance == Spec => []IndInv
<1>1. QED
  BY InvInit, InvNext, PTL DEF Spec

LEMMA InvAgrees == IndInv => PlayerConsistent
<1> SUFFICES ASSUME IndInv PROVE TypeOK /\ StatesAgree
  BY DEF PlayerConsistent
<1>1. /\ TypeOK /\ BusIdle /\ Story /\ Errors
  BY DEF IndInv
<1> SUFFICES ASSUME Settled,
                    crossed \subseteq {"eos", "refused", "pause", "stall", "kept"}
             PROVE  Fits(m_PlayerState, gst.state)
  BY <1>1 DEF StatesAgree, Fits, Still
<1>2. Calm
  BY DEF Calm, Plain, Settled
<1>3. /\ msg = NoMessage /\ messages = <<>> /\ gst.pending = "VOID"
      /\ bus = "idle"
  BY <1>1 DEF BusIdle, Settled
<1>4. MessageType
  BY <1>1, TypeParts
<1>5. CASE Broken
  BY <1>3, <1>5 DEF Broken, NoMessage, Fits, Still
<1>6. CASE ~Broken
  <2>1. Believed(talk, m_PlayerState, After, gst.state)
    BY <1>1, <1>2, <1>3, <1>6 DEF Story, LastTells
  <2>2. After = 1 /\ talk[0] = NoMessage
    BY <1>3, <1>4, TalkTypes DEF After
  <2>3. First(talk, After)
    BY <2>2 DEF First, NoMessage
  <2>4. QED
    BY <2>1, <2>3 DEF Believed
<1>7. QED
  BY <1>5, <1>6

\* Once every call has returned and the main loop has handled all messages,
\* the state BusCallback has recorded is the one the GStreamer pipeline is in:
\* a Playing player plays, and a Ready, Paused, Stopped or Stalled one is
\* paused.  It holds for any media, any number of calls of the application
\* and of the pulse thread, of underruns and of fatal errors, as long as
\* calls and messages have crossed in no other way than those StatesAgree
\* names (eos, refused, pause, stall, kept).
THEOREM StatesAgreeWhenSettled == Spec => []PlayerConsistent
  BY Invariance, InvAgrees, PTL

-----------------------------------------------------------------------------
(* Whose call wins.  What is told of the pipeline matters in these ways.   *)

TellsPlay(f, k) == f[k].type = "STATE" /\ f[k].new = "PLAYING"
TellsEnd(f, k) ==
    f[k].type = "STATE" /\ f[k].old = "PLAYING" /\ f[k].new = "PAUSED"
TellsAgain(f, k) ==
    f[k].type = "STATE" /\ f[k].old = "PAUSED" /\ f[k].new = "PAUSED"

Told == \E k \in News : talk[k].type = "STATE"
PlayTold == \E k \in News : TellsPlay(talk, k)
EndTold == \E k \in News : TellsEnd(talk, k)

\* Every start the player is to hear of has ended,
PlaysEnd ==
    \A j \in News : TellsPlay(talk, j) =>
        \E k \in News : j < k /\ TellsEnd(talk, k)

\* and every preroll is followed by a start.
AgainPlays ==
    \A j \in News : TellsAgain(talk, j) =>
        \E k \in News : j < k /\ TellsPlay(talk, k)

LastTold(x) == \A j \in News : Before(talk, j, After) => talk[j].new = x

\* Where the application's thread is in the call that was made last.
Pausing == {"pauseTest", "pauseMark", "stopTest", "stopMark", "internalPause",
            "setPaused"}
InSeek == {"seekTest", "seekPipeline", "seekResume", "setPlaying"}
CallSteps ==
    /\ pc["app"] \in {"setPlaying", "seekResume", "rateStore", "setPaused"} =>
          m_fRate # 0
    /\ then["app"] = "rateStore" =>
          /\ m_fRate # 0
          /\ pc["app"] \in {"pauseTest", "pauseMark", "internalPause", "setPaused"}
    /\ then["app"] = "seekTest" =>
          pc["app"] \in {"stopTest", "stopMark", "internalPause", "setPaused"}
    /\ asked = "play" => pc["app"] \in {"idle", "play"} \cup InSeek
    /\ asked = "pause" =>
          /\ pc["app"] \in {"idle", "pauseTest", "pauseMark", "internalPause",
                            "setPaused"} \cup InSeek
          /\ then["app"] = "idle"
    /\ asked = "stop" =>
          /\ pc["app"] \in {"idle", "stopTest", "stopMark", "internalPause",
                            "setPaused"} \cup InSeek
          /\ AppPauses => then["app"] = "seekTest"
    /\ m_PlayerState = "Unknown" => asked = "none"

\* A player that has reached its end does not stall.
StallStep == pc["bus"] = "stall" => m_PlayerState # "Finished"

\* A pipeline told to pause does not change to PLAYING.
Aim == gst.pending \in {"VOID", "PAUSED"} \/ gst.target = "PLAYING"

LastNews == gst.pending = "VOID" \/ gst.state = "PLAYING" => LastTold(gst.state)

\* The note of Pause is left with a player that plays or has reached its end.
PauseNoted ==
    m_PlayerPendingState = "Paused" => m_PlayerState \in {"Playing", "Finished"}

\* The media is to be silent: nobody has told the pipeline to play, and the
\* player knows, or a note says so.
Hushed ==
    \/ m_fRate = 0 \/ pc["app"] = "rateStore"
    \/ asked \in {"pause", "stop"} /\ pc["app"] \notin Pausing
Hush ==
    Hushed =>
      /\ gst.target # "PLAYING"
      /\ Noted \/ (m_PlayerState \in {"Paused", "Stopped"} /\ ~PlayTold)

\* The seek that Java's stop ends with, or that follows a pause, does not
\* start the pipeline.
NoStart ==
    /\ asked = "stop" =>
          /\ AppPauses => m_PlayerPendingState = "Stopped"
          /\ pc["app"] \notin Pausing /\ m_fRate # 0 /\ m_PlayerState = "Finished" =>
                m_PlayerPendingState = "Stopped"
    /\ asked = "pause" /\ pc["app"] = "seekResume" => m_PlayerState # "Finished"
    /\ asked \in {"pause", "stop"} => pc["app"] # "setPlaying"

PauseStory ==
    Soft /\ ~Broken =>
        Target /\ LastNews /\ NoteHeld /\ PauseNoted /\ Hush /\ NoStart

\* The message a note waits for will be taken for a stale one.
Doomed == TwoTell \/ (Told /\ gst.pending # "VOID")

\* The answer to Pause's note is on its way,
PauseComes ==
    /\ m_PlayerPendingState = "Paused" /\ m_PlayerState # "Finished"
    /\ ~AppPauses \/ m_fRate = 0
    => Answered

\* and something is when a seek starts a finished player that has a note.
SeekComes ==
    /\ pc["app"] \in {"seekResume", "setPlaying"}
    /\ Noted /\ m_PlayerState = "Finished"
    => Told \/ gst.pending # "VOID"

\* Whoever has left a note has paused the pipeline.
NotePauses == Noted /\ ~AppPauses => gst.target # "PLAYING" \/ Doomed

\* The application waits for the media to play.
Wants == asked = "play" /\ pc["app"] \notin {"play", "setPlaying"} /\ m_fRate # 0
NotePlays == Wants /\ Noted => Doomed

\* The pipeline stops playing when the change under way completes.
Ending == gst.pending # "VOID" /\ gst.state = "PLAYING"
StartsLast == ~Noted => gst.target = "PLAYING" \/ Ending \/ PlaysEnd
PlayIsLast == gst.state = "PLAYING" => AgainPlays

\* A finished player that prerolls after a stall is started again by the
\* seek that made it.
Restarting == pc["app"] \in {"seekResume", "setPlaying"} /\ asked # "play"
PrerollPlays ==
    m_PlayerState = "Finished" /\ m_StallOnPause /\ ~Noted =>
      /\ \/ AgainPlays
         \/ Restarting /\ gst.pending = "VOID" /\ gst.state = "PAUSED"
      /\ gst.pending # "VOID" /\ gst.state = "PAUSED" /\ gst.target = "PAUSED" =>
            Restarting

\* A preroll is handled for a reason.
Reasoned ==
    /\ pc["bus"] = "update" \/ then["bus"] = "update"
    /\ msg.old = "PAUSED" /\ msg.new = "PAUSED"
    => Excused \/ m_PlayerState = "Unknown"

\* The media plays as it was asked to, is about to stop for want of data, or
\* the player knows that it has.
PlayWins ==
    Wants /\ ~Noted =>
        \/ gst.target = "PLAYING" \/ Ending \/ EndTold
        \/ m_PlayerState \in {"Stalled", "Finished"}

PlayStory ==
    Pure /\ ~Broken =>
      /\ PauseComes /\ SeekComes /\ NotePauses /\ NotePlays /\ StartsLast
      /\ PlayIsLast /\ PrerollPlays /\ Reasoned /\ PlayWins

CallInv == CallSteps /\ StallStep /\ Aim /\ PauseStory /\ PlayStory

-----------------------------------------------------------------------------
(* How a step changes what is told.                                        *)

\* Nothing new is told,
NewsSame ==
    /\ Told' <=> Told
    /\ PlayTold' <=> PlayTold
    /\ EndTold' <=> EndTold
    /\ TwoTell' <=> TwoTell
    /\ PlaysEnd' <=> PlaysEnd
    /\ AgainPlays' <=> AgainPlays
    /\ \A x \in GstStates : LastTold(x) => LastTold(x)'

\* a change is,
NewsAdds(o, n) ==
    /\ Told'
    /\ PlayTold' <=> PlayTold \/ n = "PLAYING"
    /\ EndTold' <=> EndTold \/ (o = "PLAYING" /\ n = "PAUSED")
    /\ TwoTell' <=> TwoTell \/ Told
    /\ n # "PLAYING" => (PlaysEnd => PlaysEnd')
    /\ o = "PLAYING" /\ n = "PAUSED" => PlaysEnd'
    /\ ~(o = "PAUSED" /\ n = "PAUSED") => (AgainPlays => AgainPlays')
    /\ n = "PLAYING" => AgainPlays'
    /\ LastTold(n)'

\* or the player has heard of one.
NewsDrops ==
    /\ Told' <=> TwoTell
    /\ PlayTold' => PlayTold
    /\ EndTold => EndTold' \/ TellsEnd(talk, 0)
    /\ PlaysEnd =>
          PlaysEnd' /\ (TellsPlay(talk, 0) \/ PlayTold' => EndTold')
    /\ AgainPlays => AgainPlays' /\ (TellsAgain(talk, 0) => PlayTold')
    /\ \A x \in GstStates : LastTold(x) => LastTold(x)'

LEMMA TalkSame ==
  ASSUME MessageType, MessageType', HeadKept, Silent
  PROVE  NewsSame
<1>1. /\ Len(messages) \in Nat /\ Len(messages') \in Nat
      /\ News = 0..Len(messages) /\ News' = 0..Len(messages')
      /\ After - 1 = Len(messages) /\ After' - 1 = Len(messages')
      /\ Len(messages) <= Len(messages') /\ Grows
  BY GrowsKeeps, TalkTypes DEF News, After, Grows
<1>2. ASSUME NEW k \in News'
      PROVE  talk'[k].type = "STATE" <=> k \in News /\ talk[k].type = "STATE"
  <2>1. CASE k = 0
    BY <1>1, <2>1 DEF HeadKept
  <2>2. CASE k # 0 /\ k \in News
    BY <1>1, <2>2, GrowsKeeps
  <2>3. CASE k \notin News
    BY <1>1, <1>2, <2>3, GrowsKeeps
  <2>4. QED
    BY <2>1, <2>2, <2>3
<1>3. ASSUME NEW k \in News
      PROVE  k \in News' /\ (talk[k].type = "STATE" => talk'[k] = talk[k])
  <2>1. CASE k = 0
    BY <1>1, <2>1 DEF HeadKept
  <2>2. CASE k # 0
    BY <1>1, <2>2, GrowsKeeps
  <2>3. QED
    BY <2>1, <2>2
<1>4. Told' <=> Told
  BY <1>2, <1>3 DEF Told
<1>5. PlayTold' <=> PlayTold
  BY <1>2, <1>3 DEF PlayTold, TellsPlay
<1>6. EndTold' <=> EndTold
  BY <1>2, <1>3 DEF EndTold, TellsEnd
<1>7. TwoTell' <=> TwoTell
  BY <1>2, <1>3 DEF TwoTell
<1>8. PlaysEnd' <=> PlaysEnd
  BY <1>2, <1>3 DEF PlaysEnd, TellsPlay, TellsEnd
<1>9. AgainPlays' <=> AgainPlays
  BY <1>2, <1>3 DEF AgainPlays, TellsPlay, TellsAgain
<1>10. ASSUME NEW x \in GstStates, LastTold(x) PROVE LastTold(x)'
  <2> SUFFICES ASSUME NEW j \in News', Before(talk', j, After')
               PROVE  talk'[j].new = x
    BY DEF LastTold
  <2>1. j \in News /\ talk[j].type = "STATE" /\ talk'[j] = talk[j]
    BY <1>2, <1>3 DEF Before
  <2>2. ASSUME NEW i \in (j + 1)..(After - 1) PROVE talk[i].type # "STATE"
    <3>1. i \in News /\ i \in (j + 1)..(After' - 1) /\ i \in News'
      BY <1>1, <2>1
    <3>2. QED
      BY <1>2, <3>1 DEF Before
  <2>3. QED
    BY <1>10, <2>1, <2>2 DEF LastTold, Before
<1>11. QED
  BY <1>4, <1>5, <1>6, <1>7, <1>8, <1>9, <1>10 DEF NewsSame

\* The last change told is the last one said.
LEMMA SpokenLast ==
  ASSUME MessageType, MessageType', NEW o \in GstStates, NEW n \in GstStates,
         Spoken(o, n)
  PROVE  /\ LastTold(n)' /\ Told'
         /\ n = "PLAYING" => AgainPlays'
         /\ o = "PLAYING" /\ n = "PAUSED" => PlaysEnd'
<1>0. /\ Len(messages) \in Nat /\ After = Len(messages) + 1
      /\ News' = 0..After /\ After' = After + 1
      /\ talk'[After] = StateChanged(o, n)
  BY GrowsKeeps, TalkTypes DEF News, After, Grows
<1>1. /\ Len(messages) \in Nat /\ After = Len(messages) + 1
      /\ News' = 0..After /\ After' = After + 1 /\ After \in News'
      /\ talk'[After].type = "STATE" /\ talk'[After].old = o
      /\ talk'[After].new = n
  BY <1>0 DEF StateChanged
<1>2. Told'
  BY <1>1 DEF Told
<1>3. LastTold(n)'
  <2> SUFFICES ASSUME NEW j \in News', Before(talk', j, After')
               PROVE  talk'[j].new = n
    BY DEF LastTold
  <2>1. j = After
    BY <1>1 DEF Before
  <2>2. QED
    BY <1>1, <2>1
<1>4. ASSUME n = "PLAYING" PROVE AgainPlays'
  <2> SUFFICES ASSUME NEW j \in News', TellsAgain(talk', j)
               PROVE  \E k \in News' : j < k /\ TellsPlay(talk', k)
    BY DEF AgainPlays
  <2>1. j < After /\ TellsPlay(talk', After)
    BY <1>1, <1>4 DEF TellsAgain, TellsPlay
  <2>2. QED
    BY <1>1, <2>1
<1>5. ASSUME o = "PLAYING", n = "PAUSED" PROVE PlaysEnd'
  <2> SUFFICES ASSUME NEW j \in News', TellsPlay(talk', j)
               PROVE  \E k \in News' : j < k /\ TellsEnd(talk', k)
    BY DEF PlaysEnd
  <2>1. j < After /\ TellsEnd(talk', After)
    BY <1>1, <1>5 DEF TellsEnd, TellsPlay
  <2>2. QED
    BY <1>1, <2>1
<1>6. QED
  BY <1>2, <1>3, <1>4, <1>5

LEMMA TalkAdds ==
  ASSUME MessageType, MessageType', HeadKept, NEW o \in GstStates,
         NEW n \in GstStates, Spoken(o, n)
  PROVE  NewsAdds(o, n)
<1>0. /\ Len(messages) \in Nat /\ After = Len(messages) + 1
      /\ News = 0..Len(messages) /\ Grows
      /\ News' = 0..After /\ After' = After + 1
      /\ talk'[After] = StateChanged(o, n)
  BY GrowsKeeps, TalkTypes DEF News, After, Grows
<1>1. /\ Len(messages) \in Nat /\ After = Len(messages) + 1
      /\ News = 0..Len(messages)
      /\ News' = 0..After /\ After' = After + 1 /\ After \in News'
      /\ talk'[After].type = "STATE" /\ talk'[After].old = o
      /\ talk'[After].new = n /\ Grows
  BY <1>0 DEF StateChanged
<1>2. ASSUME NEW k \in News
      PROVE  /\ k \in News' /\ k < After
             /\ talk[k].type = "STATE" <=> talk'[k].type = "STATE"
             /\ talk[k].type = "STATE" => talk'[k] = talk[k]
  <2>1. CASE k = 0
    BY <1>1, <2>1 DEF HeadKept
  <2>2. CASE k # 0
    BY <1>1, <2>2, GrowsKeeps
  <2>3. QED
    BY <2>1, <2>2
<1>3. \A k \in News' : k \in News \/ k = After
  BY <1>1
<1>4. PlayTold' <=> PlayTold \/ n = "PLAYING"
  BY <1>1, <1>2, <1>3 DEF PlayTold, TellsPlay
<1>5. EndTold' <=> EndTold \/ (o = "PLAYING" /\ n = "PAUSED")
  BY <1>1, <1>2, <1>3 DEF EndTold, TellsEnd
<1>6. TwoTell' <=> TwoTell \/ Told
  <2>1. TwoTell => TwoTell'
    BY <1>2 DEF TwoTell
  <2>2. Told => TwoTell'
    BY <1>1, <1>2 DEF TwoTell, Told
  <2>3. TwoTell' => TwoTell \/ Told
    BY <1>2, <1>3 DEF TwoTell, Told, News
  <2>4. QED
    BY <2>1, <2>2, <2>3
<1>7. n # "PLAYING" => (PlaysEnd => PlaysEnd')
  BY <1>1, <1>2, <1>3 DEF PlaysEnd, TellsPlay, TellsEnd
<1>8. ~(o = "PAUSED" /\ n = "PAUSED") => (AgainPlays => AgainPlays')
  BY <1>1, <1>2, <1>3 DEF AgainPlays, TellsPlay, TellsAgain
<1>9. QED
  BY <1>4, <1>5, <1>6, <1>7, <1>8, SpokenLast DEF NewsAdds

LEMMA TalkTaken ==
  ASSUME MessageType, MessageType', BusIdle, Plain, TakeMessage
  PROVE  NewsSame
<1>1. /\ Len(messages) \in Nat /\ Len(messages') \in Nat
      /\ Len(messages) = Len(messages') + 1
      /\ News = 0..Len(messages) /\ News' = 0..Len(messages')
      /\ After - 1 = Len(messages) /\ After' - 1 = Len(messages')
      /\ talk[0].type # "STATE"
  BY TakeFacts, TalkTypes DEF News, After
<1>2. ASSUME NEW k \in News'
      PROVE  k \in Int /\ k + 1 \in News /\ talk'[k] = talk[k + 1]
  BY <1>1, TakeFacts
<1>3. ASSUME NEW k \in News, talk[k].type = "STATE"
      PROVE  k \in Int /\ k - 1 \in News' /\ talk'[k - 1] = talk[k]
  <2>1. k # 0 /\ k \in Int /\ k - 1 \in News'
    BY <1>1, <1>3
  <2>2. talk'[k - 1] = talk[k - 1 + 1] /\ k - 1 + 1 = k
    BY <1>2, <2>1
  <2>3. QED
    BY <2>1, <2>2
<1>4. Told' <=> Told
  BY <1>2, <1>3 DEF Told
<1>5. PlayTold' <=> PlayTold
  BY <1>2, <1>3 DEF PlayTold, TellsPlay
<1>6. EndTold' <=> EndTold
  BY <1>2, <1>3 DEF EndTold, TellsEnd
<1>7. TwoTell' <=> TwoTell
  <2>1. TwoTell => TwoTell'
    <3> SUFFICES ASSUME NEW j \in News, NEW k \in News, j < k,
                        talk[j].type = "STATE", talk[k].type = "STATE"
                 PROVE  TwoTell'
      BY DEF TwoTell
    <3>1. j - 1 \in News' /\ k - 1 \in News' /\ j - 1 < k - 1
      BY <1>3
    <3>2. QED
      BY <1>3, <3>1 DEF TwoTell
  <2>2. TwoTell' => TwoTell
    <3> SUFFICES ASSUME NEW j \in News', NEW k \in News', j < k,
                        talk'[j].type = "STATE", talk'[k].type = "STATE"
                 PROVE  TwoTell
      BY DEF TwoTell
    <3>1. j + 1 \in News /\ k + 1 \in News /\ j + 1 < k + 1
      BY <1>2
    <3>2. QED
      BY <1>2, <3>1 DEF TwoTell
  <2>3. QED
    BY <2>1, <2>2
<1>8. PlaysEnd' <=> PlaysEnd
  <2>1. ASSUME PlaysEnd, NEW j \in News', TellsPlay(talk', j)
        PROVE  \E k \in News' : j < k /\ TellsEnd(talk', k)
    <3>1. j + 1 \in News /\ TellsPlay(talk, j + 1)
      BY <1>2, <2>1 DEF TellsPlay
    <3>2. PICK k \in News : j + 1 < k /\ TellsEnd(talk, k)
      BY <2>1, <3>1 DEF PlaysEnd
    <3>3. k - 1 \in News' /\ j < k - 1 /\ TellsEnd(talk', k - 1)
      BY <1>2, <1>3, <3>2 DEF TellsEnd
    <3>4. QED
      BY <3>3
  <2>2. ASSUME PlaysEnd', NEW j \in News, TellsPlay(talk, j)
        PROVE  \E k \in News : j < k /\ TellsEnd(talk, k)
    <3>1. j - 1 \in News' /\ TellsPlay(talk', j - 1)
      BY <1>3, <2>2 DEF TellsPlay
    <3>2. PICK k \in News' : j - 1 < k /\ TellsEnd(talk', k)
      BY <2>2, <3>1 DEF PlaysEnd
    <3>3. k + 1 \in News /\ j < k + 1 /\ TellsEnd(talk, k + 1)
      BY <1>2, <1>3, <2>2, <3>2 DEF TellsEnd, TellsPlay
    <3>4. QED
      BY <3>3
  <2>3. QED
    BY <2>1, <2>2 DEF PlaysEnd
<1>9. AgainPlays' <=> AgainPlays
  <2>1. ASSUME AgainPlays, NEW j \in News', TellsAgain(talk', j)
        PROVE  \E k \in News' : j < k /\ TellsPlay(talk', k)
    <3>1. j + 1 \in News /\ TellsAgain(talk, j + 1)
      BY <1>2, <2>1 DEF TellsAgain
    <3>2. PICK k \in News : j + 1 < k /\ TellsPlay(talk, k)
      BY <2>1, <3>1 DEF AgainPlays
    <3>3. k - 1 \in News' /\ j < k - 1 /\ TellsPlay(talk', k - 1)
      BY <1>2, <1>3, <3>2 DEF TellsPlay
    <3>4. QED
      BY <3>3
  <2>2. ASSUME AgainPlays', NEW j \in News, TellsAgain(talk, j)
        PROVE  \E k \in News : j < k /\ TellsPlay(talk, k)
    <3>1. j - 1 \in News' /\ TellsAgain(talk', j - 1)
      BY <1>3, <2>2 DEF TellsAgain
    <3>2. PICK k \in News' : j - 1 < k /\ TellsPlay(talk', k)
      BY <2>2, <3>1 DEF AgainPlays
    <3>3. k + 1 \in News /\ j < k + 1 /\ TellsPlay(talk, k + 1)
      BY <1>2, <1>3, <2>2, <3>2 DEF TellsPlay, TellsAgain
    <3>4. QED
      BY <3>3
  <2>3. QED
    BY <2>1, <2>2 DEF AgainPlays
<1>10. ASSUME NEW x \in GstStates, LastTold(x) PROVE LastTold(x)'
  <2> SUFFICES ASSUME NEW j \in News', Before(talk', j, After')
               PROVE  talk'[j].new = x
    BY DEF LastTold
  <2>1. j + 1 \in News /\ talk[j + 1].type = "STATE" /\ talk'[j] = talk[j + 1]
    BY <1>2 DEF Before
  <2>2. ASSUME NEW i \in (j + 1 + 1)..(After - 1) PROVE talk[i].type # "STATE"
    <3>1. i - 1 \in News' /\ i - 1 \in (j + 1)..(After' - 1) /\ i - 1 + 1 = i
      BY <1>1, <1>2
    <3>2. QED
      BY <1>2, <3>1 DEF Before
  <2>3. QED
    BY <1>10, <2>1, <2>2 DEF LastTold, Before
<1>11. QED
  BY <1>4, <1>5, <1>6, <1>7, <1>8, <1>9, <1>10 DEF NewsSame

LEMMA TalkDrops ==
  ASSUME MessageType, MessageType', Silent, talk[0].type = "STATE",
         talk'[0].type # "STATE"
  PROVE  NewsDrops
<1>1. /\ Len(messages) \in Nat /\ Len(messages') \in Nat
      /\ News = 0..Len(messages) /\ News' = 0..Len(messages')
      /\ After - 1 = Len(messages) /\ After' - 1 = Len(messages')
      /\ Len(messages) <= Len(messages') /\ Grows /\ 0 \in News
  BY GrowsKeeps, TalkTypes DEF News, After, Grows
<1>2. ASSUME NEW k \in News', talk'[k].type = "STATE"
      PROVE  k \in News /\ 0 < k /\ talk'[k] = talk[k]
  <2>1. k # 0 /\ k \in 1..Len(messages')
    BY <1>1, <1>2
  <2>2. k <= Len(messages)
    BY <1>1, <1>2, <2>1, GrowsKeeps
  <2>3. QED
    BY <1>1, <2>1, <2>2, GrowsKeeps
<1>3. ASSUME NEW k \in News, 0 < k
      PROVE  k \in News' /\ talk'[k] = talk[k]
  BY <1>1, <1>3, GrowsKeeps
<1>4. Told' <=> TwoTell
  <2>1. Told' => TwoTell
    BY <1>1, <1>2 DEF Told, TwoTell
  <2>2. TwoTell => Told'
    <3> SUFFICES ASSUME NEW j \in News, NEW k \in News, j < k,
                        talk[k].type = "STATE"
                 PROVE  Told'
      BY DEF TwoTell
    <3>1. 0 < k
      BY <1>1
    <3>2. QED
      BY <1>3, <3>1 DEF Told
  <2>3. QED
    BY <2>1, <2>2
<1>5. PlayTold' => PlayTold
  BY <1>2 DEF PlayTold, TellsPlay
<1>6. EndTold => EndTold' \/ TellsEnd(talk, 0)
  <2> SUFFICES ASSUME NEW k \in News, TellsEnd(talk, k), k # 0 PROVE EndTold'
    BY DEF EndTold
  <2>1. 0 < k
    BY <1>1
  <2>2. QED
    BY <1>3, <2>1 DEF EndTold, TellsEnd
<1>7. ASSUME PlaysEnd, NEW j \in News, TellsPlay(talk, j)
      PROVE  \E k \in News' : j < k /\ TellsEnd(talk', k)
  <2>1. PICK k \in News : j < k /\ TellsEnd(talk, k)
    BY <1>7 DEF PlaysEnd
  <2>2. 0 < k
    BY <1>1, <2>1
  <2>3. QED
    BY <1>3, <2>1, <2>2 DEF TellsEnd
<1>8. ASSUME NEW j \in News', TellsPlay(talk', j)
      PROVE  j \in News /\ TellsPlay(talk, j)
  BY <1>2, <1>8 DEF TellsPlay
<1>9. PlaysEnd => PlaysEnd' /\ (TellsPlay(talk, 0) \/ PlayTold' => EndTold')
  BY <1>1, <1>7, <1>8 DEF PlaysEnd, EndTold, PlayTold
<1>10. ASSUME AgainPlays, NEW j \in News, TellsAgain(talk, j)
       PROVE  \E k \in News' : j < k /\ TellsPlay(talk', k)
  <2>1. PICK k \in News : j < k /\ TellsPlay(talk, k)
    BY <1>10 DEF AgainPlays
  <2>2. 0 < k
    BY <1>1, <2>1
  <2>3. QED
    BY <1>3, <2>1, <2>2 DEF TellsPlay
<1>11. ASSUME NEW j \in News', TellsAgain(talk', j)
       PROVE  j \in News /\ TellsAgain(talk, j)
  BY <1>2, <1>11 DEF TellsAgain
<1>12. AgainPlays => AgainPlays' /\ (TellsAgain(talk, 0) => PlayTold')
  BY <1>1, <1>10, <1>11 DEF AgainPlays, PlayTold
<1>13. ASSUME NEW x \in GstStates, LastTold(x) PROVE LastTold(x)'
  <2> SUFFICES ASSUME NEW j \in News', Before(talk', j, After')
               PROVE  talk'[j].new = x
    BY DEF LastTold
  <2>1. j \in News /\ talk[j].type = "STATE" /\ talk'[j] = talk[j] /\ 0 < j
    BY <1>2 DEF Before
  <2>2. ASSUME NEW i \in (j + 1)..(After - 1) PROVE talk[i].type # "STATE"
    <3>1. i \in News /\ i \in (j + 1)..(After' - 1) /\ 0 < i
      BY <1>1, <2>1
    <3>2. QED
      BY <1>3, <3>1 DEF Before
  <2>3. QED
    BY <1>13, <2>1, <2>2 DEF LastTold, Before
<1>14. QED
  BY <1>4, <1>5, <1>6, <1>9, <1>12, <1>13 DEF NewsDrops

-----------------------------------------------------------------------------
(* Who does what.                                                          *)

AppStays ==
    /\ pc'["app"] = pc["app"] /\ then'["app"] = then["app"]
    /\ m_fRate' = m_fRate /\ asked' = asked
PlayerStays ==
    /\ m_PlayerState' = m_PlayerState
    /\ m_PlayerPendingState' = m_PlayerPendingState

\* Only the application's thread moves itself.
LEMMA AppMoves == ThreadType /\ Control /\ [Next]_vars => AppStays \/
   StopTimeReached \/ ThreadStep("app") \/ (\E d \in Calls \ {"finish"} :
   Call(d))
<1> SUFFICES ASSUME ThreadType, Control, [Next]_vars PROVE AppStays \/
   StopTimeReached \/ ThreadStep("app") \/ (\E d \in Calls \ {"finish"} :
   Call(d))
  OBVIOUS
<1> USE DEF player, rate, buffer, source, count, threads
<1>1. CASE AsyncDone
  BY <1>1 DEF AsyncDone, AppStays, ThreadType, Threads, Control, mvars
<1>2. CASE Render
  BY <1>2 DEF Render, Post, Message, AppStays, ThreadType, Threads, Control,
     mvars
<1>3. CASE EndOfStream
  BY <1>3 DEF EndOfStream, Post, Message, AppStays, ThreadType, Threads,
     Control, mvars
<1>4. CASE Download
  BY <1>4 DEF Download, Post, Message, AppStays, ThreadType, Threads, Control,
     mvars
<1>5. CASE Underrun
  BY <1>5 DEF Underrun, Post, Message, AppStays, ThreadType, Threads, Control,
     mvars
<1>6. CASE Fault
  BY <1>6 DEF Fault, Post, Message, AppStays, ThreadType, Threads, Control,
     mvars
<1>7. ASSUME NEW c \in Calls \ {"finish"}, Call(c) PROVE AppStays \/
   StopTimeReached \/ ThreadStep("app") \/ (\E d \in Calls \ {"finish"} :
   Call(d))
  BY <1>7
<1>8. CASE StopTimeReached
  BY <1>8
<1>9. ASSUME NEW t \in Threads, Play(t) PROVE AppStays \/ StopTimeReached \/
   ThreadStep("app") \/ (\E d \in Calls \ {"finish"} : Call(d))
  <2>1. CASE t = "app"
    BY <1>9, <2>1 DEF ThreadStep
  <2>2. CASE t # "app"
    BY <1>9, <2>2 DEF Play, Goto, Return, Cross, KeepRest, KeepStream,
       AppStays, ThreadType, Threads, Control
  <2>3. QED
    BY <2>1, <2>2
<1>10. ASSUME NEW t \in Threads, SetPlaying(t) PROVE AppStays \/
   StopTimeReached \/ ThreadStep("app") \/ (\E d \in Calls \ {"finish"} :
   Call(d))
  <2>1. CASE t = "app"
    BY <1>10, <2>1 DEF ThreadStep
  <2>2. CASE t # "app"
    BY <1>10, <2>2 DEF SetPlaying, Return, Cross, AppStays, ThreadType,
       Threads, Control
  <2>3. QED
    BY <2>1, <2>2
<1>11. ASSUME NEW t \in Threads, PauseTest(t) PROVE AppStays \/
   StopTimeReached \/ ThreadStep("app") \/ (\E d \in Calls \ {"finish"} :
   Call(d))
  <2>1. CASE t = "app"
    BY <1>11, <2>1 DEF ThreadStep
  <2>2. CASE t # "app"
    BY <1>11, <2>2 DEF PauseTest, Goto, Return, Cross, KeepRest, KeepStream,
       AppStays, ThreadType, Threads, Control
  <2>3. QED
    BY <2>1, <2>2
<1>12. ASSUME NEW t \in Threads, PauseMark(t) PROVE AppStays \/
   StopTimeReached \/ ThreadStep("app") \/ (\E d \in Calls \ {"finish"} :
   Call(d))
  <2>1. CASE t = "app"
    BY <1>12, <2>1 DEF ThreadStep
  <2>2. CASE t # "app"
    BY <1>12, <2>2 DEF PauseMark, Goto, Return, Cross, KeepRest, KeepStream,
       AppStays, ThreadType, Threads, Control
  <2>3. QED
    BY <2>1, <2>2
<1>13. ASSUME NEW t \in Threads, StopTest(t) PROVE AppStays \/ StopTimeReached
   \/ ThreadStep("app") \/ (\E d \in Calls \ {"finish"} : Call(d))
  <2>1. CASE t = "app"
    BY <1>13, <2>1 DEF ThreadStep
  <2>2. CASE t # "app"
    BY <1>13, <2>2 DEF StopTest, Goto, Return, Cross, KeepRest, KeepStream,
       AppStays, ThreadType, Threads, Control
  <2>3. QED
    BY <2>1, <2>2
<1>14. ASSUME NEW t \in Threads, StopMark(t) PROVE AppStays \/ StopTimeReached
   \/ ThreadStep("app") \/ (\E d \in Calls \ {"finish"} : Call(d))
  <2>1. CASE t = "app"
    BY <1>14, <2>1 DEF ThreadStep
  <2>2. CASE t # "app"
    BY <1>14, <2>2 DEF StopMark, Goto, Cross, KeepRest, KeepStream, AppStays,
       ThreadType, Threads, Control
  <2>3. QED
    BY <2>1, <2>2
<1>15. ASSUME NEW t \in Threads, FinishTest(t) PROVE AppStays \/
   StopTimeReached \/ ThreadStep("app") \/ (\E d \in Calls \ {"finish"} :
   Call(d))
  <2>1. CASE t = "app"
    BY <1>15, <2>1 DEF ThreadStep
  <2>2. CASE t # "app"
    BY <1>15, <2>2 DEF FinishTest, Goto, Return, KeepMedia, KeepRest,
       KeepStream, AppStays, ThreadType, Threads, Control
  <2>3. QED
    BY <2>1, <2>2
<1>16. ASSUME NEW t \in Threads, InternalPause(t) PROVE AppStays \/
   StopTimeReached \/ ThreadStep("app") \/ (\E d \in Calls \ {"finish"} :
   Call(d))
  <2>1. CASE t = "app"
    BY <1>16, <2>1 DEF ThreadStep
  <2>2. CASE t # "app"
    BY <1>16, <2>2 DEF InternalPause, Goto, Return, Cross, KeepRest,
       KeepStream, AppStays, ThreadType, Threads, Control
  <2>3. QED
    BY <2>1, <2>2
<1>17. ASSUME NEW t \in Threads, SetPaused(t) PROVE AppStays \/
   StopTimeReached \/ ThreadStep("app") \/ (\E d \in Calls \ {"finish"} :
   Call(d))
  <2>1. CASE t = "app"
    BY <1>17, <2>1 DEF ThreadStep
  <2>2. CASE t # "app"
    BY <1>17, <2>2 DEF SetPaused, Return, Cross, AppStays, ThreadType, Threads,
       Control
  <2>3. QED
    BY <2>1, <2>2
<1>18. ASSUME NEW t \in Threads, SeekTest(t) PROVE AppStays \/ StopTimeReached
   \/ ThreadStep("app") \/ (\E d \in Calls \ {"finish"} : Call(d))
  <2>1. CASE t = "app"
    BY <1>18, <2>1 DEF ThreadStep
  <2>2. CASE t # "app"
    BY <1>18, <2>2 DEF SeekTest, Goto, Return, KeepMedia, KeepRest, KeepStream,
       AppStays, ThreadType, Threads, Control
  <2>3. QED
    BY <2>1, <2>2
<1>19. ASSUME NEW t \in Threads, SeekPipeline(t) PROVE AppStays \/
   StopTimeReached \/ ThreadStep("app") \/ (\E d \in Calls \ {"finish"} :
   Call(d))
  <2>1. CASE t = "app"
    BY <1>19, <2>1 DEF ThreadStep
  <2>2. CASE t # "app"
    BY <1>19, <2>2 DEF SeekPipeline, Goto, Return, KeepStream, FlushingSeek,
       AppStays, ThreadType, Threads, Control
  <2>3. QED
    BY <2>1, <2>2
<1>20. ASSUME NEW t \in Threads, SeekResume(t) PROVE AppStays \/
   StopTimeReached \/ ThreadStep("app") \/ (\E d \in Calls \ {"finish"} :
   Call(d))
  <2>1. CASE t = "app"
    BY <1>20, <2>1 DEF ThreadStep
  <2>2. CASE t # "app"
    BY <1>20, <2>2 DEF SeekResume, Goto, Return, KeepMedia, KeepRest,
       KeepStream, AppStays, ThreadType, Threads, Control
  <2>3. QED
    BY <2>1, <2>2
<1>21. ASSUME NEW t \in Threads, RateZero(t) PROVE AppStays \/ StopTimeReached
   \/ ThreadStep("app") \/ (\E d \in Calls \ {"finish"} : Call(d))
  <2>1. CASE t = "app"
    BY <1>21, <2>1 DEF ThreadStep
  <2>2. CASE t # "app"
    BY <1>21, <2>2 DEF RateZero, Enter, Return, KeepMedia, KeepRest,
       KeepStream, AppStays, ThreadType, Threads, Control
  <2>3. QED
    BY <2>1, <2>2
<1>22. ASSUME NEW t \in Threads, RateStore(t) PROVE AppStays \/
   StopTimeReached \/ ThreadStep("app") \/ (\E d \in Calls \ {"finish"} :
   Call(d))
  <2>1. CASE t = "app"
    BY <1>22, <2>1 DEF ThreadStep
  <2>2. CASE t # "app"
    BY <1>22, <2>2 DEF RateStore, Return, KeepMedia, KeepRest, KeepStream,
       AppStays, ThreadType, Threads, Control
  <2>3. QED
    BY <2>1, <2>2
<1>23. ASSUME NEW t \in Threads, RateSeek(t) PROVE AppStays \/ StopTimeReached
   \/ ThreadStep("app") \/ (\E d \in Calls \ {"finish"} : Call(d))
  <2>1. CASE t = "app"
    BY <1>23, <2>1 DEF ThreadStep
  <2>2. CASE t # "app"
    BY <1>23, <2>2 DEF RateSeek, Return, KeepMedia, KeepRest, KeepStream,
       FlushingSeek, AppStays, ThreadType, Threads, Control
  <2>3. QED
    BY <2>1, <2>2
<1>24. ASSUME NEW t \in Threads, PauseFails(t) PROVE AppStays \/
   StopTimeReached \/ ThreadStep("app") \/ (\E d \in Calls \ {"finish"} :
   Call(d))
  <2>1. CASE t = "app"
    BY <1>24, <2>1 DEF ThreadStep
  <2>2. CASE t # "app"
    BY <1>24, <2>2 DEF PauseFails, Enter, Return, Post, Message, AppStays,
       ThreadType, Threads, Control
  <2>3. QED
    BY <2>1, <2>2
<1>25. CASE TakeMessage
  BY <1>25 DEF TakeMessage, AppStays, ThreadType, Threads, Control, mvars
<1>26. CASE BusMoves
  BY <1>26 DEF BusMoves, BusCallback, DropReference, BusCallbackDestroyNotify,
     FreeMeHere, AppStays, ThreadType, Threads, Control, mvars
<1>27. CASE HandleStateChanged
  BY <1>27 DEF HandleStateChanged, Handling, Goto, Enter, KeepBus, KeepStream,
     AppStays, ThreadType, Threads, Control, mvars
<1>28. CASE UpdatePlayerState
  BY <1>28 DEF UpdatePlayerState, Goto, Misread, AppStays, ThreadType,
     Threads, Control, mvars
<1>29. CASE HandleEOS
  BY <1>29 DEF HandleEOS, Handling, Goto, Cross, KeepStream, AppStays,
     ThreadType, Threads, Control, mvars
<1>30. CASE HandleError
  BY <1>30 DEF HandleError, Handling, Goto, KeepStream, AppStays, ThreadType,
     Threads, Control, mvars
<1>31. CASE TornDown
  BY <1>31 DEF TornDown, Goto, AppStays, ThreadType, Threads, Control, mvars
<1>32. CASE HandleProgress
  BY <1>32 DEF HandleProgress, Handling, Goto, KeepBus, KeepStream, AppStays,
     ThreadType, Threads, Control, mvars
<1>33. CASE HandleUnderrun
  BY <1>33 DEF HandleUnderrun, Handling, Goto, KeepBus, KeepStream, AppStays,
     ThreadType, Threads, Control, mvars
<1>34. CASE Stall
  BY <1>34 DEF Stall, Goto, KeepBus, KeepStream, AppStays, ThreadType,
     Threads, Control, mvars
<1>35. CASE HandleHLSBuffer
  BY <1>35 DEF HandleHLSBuffer, Handling, Goto, KeepBus, KeepStream, AppStays,
     ThreadType, Threads, Control, mvars
<1>36. CASE HandlerDone
  BY <1>36 DEF HandlerDone, KeepStream, AppStays, ThreadType, Threads,
     Control, mvars
<1>37. CASE Dispose
  BY <1>37 DEF Dispose, AppStays, ThreadType, Threads, Control, mvars
<1>38. CASE Pads
  BY <1>38 DEF Pads, AppStays, ThreadType, Threads, Control, mvars
<1>39. CASE UNCHANGED vars
  BY <1>39 DEF vars, mvars, mvars, AppStays, ThreadType, Threads, Control
<1>40. QED
  BY <1>1, <1>2, <1>3, <1>4, <1>5, <1>6, <1>7, <1>8, <1>9, <1>10, <1>11,
     <1>12, <1>13, <1>14, <1>15, <1>16, <1>17, <1>18, <1>19, <1>20, <1>21,
     <1>22, <1>23, <1>24, <1>25, <1>26, <1>27, <1>28, <1>29, <1>30, <1>31,
     <1>32, <1>33, <1>34, <1>35, <1>36, <1>37, <1>38, <1>39, NextCases DEF
     ThreadStep

\* The state and the note change in these steps only.
LEMMA PlayerMoves == ThreadType /\ Control /\ [Next]_vars => PlayerStays \/
   UpdatePlayerState \/ HandleEOS \/ TornDown \/ PauseMark("app") \/
   StopMark("app") \/ PauseFails("app")
<1> SUFFICES ASSUME ThreadType, Control, [Next]_vars PROVE PlayerStays \/
   UpdatePlayerState \/ HandleEOS \/ TornDown \/ PauseMark("app") \/
   StopMark("app") \/ PauseFails("app")
  OBVIOUS
<1> USE DEF player, rate, buffer, source, count, threads
<1>1. ASSUME NEW t \in Threads, PauseMark(t) PROVE PlayerStays \/
   UpdatePlayerState \/ HandleEOS \/ TornDown \/ PauseMark("app") \/
   StopMark("app") \/ PauseFails("app")
  BY <1>1 DEF PauseMark, Goto, Return, Cross, KeepRest, KeepStream, Control,
     Threads, PlayerStays
<1>2. ASSUME NEW t \in Threads, StopMark(t) PROVE PlayerStays \/
   UpdatePlayerState \/ HandleEOS \/ TornDown \/ PauseMark("app") \/
   StopMark("app") \/ PauseFails("app")
  BY <1>2 DEF StopMark, Goto, Cross, KeepRest, KeepStream, Control, Threads,
     PlayerStays
<1>3. ASSUME NEW t \in Threads, PauseFails(t) PROVE PlayerStays \/
   UpdatePlayerState \/ HandleEOS \/ TornDown \/ PauseMark("app") \/
   StopMark("app") \/ PauseFails("app")
  BY <1>3 DEF PauseFails, Enter, Return, Post, Message, Control, Threads,
     PlayerStays
<1>4. CASE UpdatePlayerState
  BY <1>4
<1>5. CASE HandleEOS
  BY <1>5
<1>6. CASE TornDown
  BY <1>6
<1>7. ASSUME NEW t \in Threads, Play(t) \/ SetPlaying(t) \/ PauseTest(t) \/
   StopTest(t) \/ FinishTest(t) \/ InternalPause(t) \/ SetPaused(t) \/
   SeekTest(t) \/ SeekPipeline(t) \/ SeekResume(t) \/ RateZero(t) \/
   RateStore(t) \/ RateSeek(t) PROVE PlayerStays \/ UpdatePlayerState \/
   HandleEOS \/ TornDown \/ PauseMark("app") \/ StopMark("app") \/
   PauseFails("app")
  BY <1>7 DEF Play, Goto, Return, Cross, KeepRest, KeepStream, SetPlaying,
     PauseTest, StopTest, FinishTest, KeepMedia, InternalPause, SetPaused,
     SeekTest, SeekPipeline, FlushingSeek, SeekResume, RateZero, Enter,
     RateStore, RateSeek, mvars, PlayerStays
<1>8. CASE AsyncDone \/ Render \/ EndOfStream \/ Download \/ Underrun \/ Fault
   \/ StopTimeReached \/ TakeMessage \/ BusMoves \/ HandleStateChanged \/
   HandleError \/ HandleProgress \/ HandleUnderrun \/ Stall \/ HandleHLSBuffer
   \/ HandlerDone \/ Dispose \/ Pads \/ UNCHANGED vars
  BY <1>8 DEF vars, mvars, AsyncDone, Render, Post, Message, EndOfStream,
     Download, Underrun, Fault, StopTimeReached, Goto, KeepStream,
     TakeMessage, BusMoves, BusCallback, DropReference,
     BusCallbackDestroyNotify, FreeMeHere, HandleStateChanged, Handling,
     Enter, KeepBus, HandleError, HandleProgress, HandleUnderrun, Stall,
     HandleHLSBuffer, HandlerDone, Dispose, Pads, mvars, PlayerStays
<1>9. ASSUME NEW c \in Calls \ {"finish"}, Call(c) PROVE PlayerStays \/
   UpdatePlayerState \/ HandleEOS \/ TornDown \/ PauseMark("app") \/
   StopMark("app") \/ PauseFails("app")
  BY <1>9 DEF Call, FirstStep, Enter, KeepStream, mvars, PlayerStays
<1>10. QED
  BY <1>1, <1>2, <1>3, <1>4, <1>5, <1>6, <1>7, <1>8, <1>9, NextCases DEF
     ThreadStep

LEMMA CallStepsKept == PlayerType /\ ThreadType /\ Control /\ CallSteps /\
   [Next]_vars => CallSteps'
<1> SUFFICES ASSUME PlayerType, ThreadType, Control, CallSteps, [Next]_vars
   PROVE CallSteps'
  OBVIOUS
<1> USE DEF player, rate, buffer, source, count, threads
<1>1. CASE AsyncDone
  BY <1>1 DEF AsyncDone, CallSteps, InSeek, AppPauses, ThreadType, Threads,
     Control, mvars
<1>2. CASE Render
  BY <1>2 DEF Render, Post, Message, CallSteps, InSeek, AppPauses, ThreadType,
     Threads, Control, mvars
<1>3. CASE EndOfStream
  BY <1>3 DEF EndOfStream, Post, Message, CallSteps, InSeek, AppPauses,
     ThreadType, Threads, Control, mvars
<1>4. CASE Download
  BY <1>4 DEF Download, Post, Message, CallSteps, InSeek, AppPauses,
     ThreadType, Threads, Control, mvars
<1>5. CASE Underrun
  BY <1>5 DEF Underrun, Post, Message, CallSteps, InSeek, AppPauses,
     ThreadType, Threads, Control, mvars
<1>6. CASE Fault
  BY <1>6 DEF Fault, Post, Message, CallSteps, InSeek, AppPauses, ThreadType,
     Threads, Control, mvars
<1>7. ASSUME NEW c \in Calls \ {"finish"}, Call(c) PROVE CallSteps'
  <2>1. /\ FirstStep(c) \in {"play", "pauseTest", "stopTest", "seekTest", "rateZero",
                             "rateSeek"}
        /\ (FirstStep(c) = "stopTest" <=> c = "stop")
        /\ (FirstStep(c) = "pauseTest" <=> c = "pause")
        /\ (FirstStep(c) = "play" <=> c = "play")
    BY <1>7, CallsAssumption DEF FirstStep
  <2>2. /\ pc' = [pc EXCEPT !["app"] = FirstStep(c)]
        /\ then' = [then EXCEPT !["app"] = IF c = "stop" THEN "seekTest" ELSE "idle"]
        /\ asked' = (IF c = "seek" THEN asked ELSE c) /\ m_PlayerState # "Unknown"
        /\ UNCHANGED <<m_PlayerState, m_fRate>> /\ pc["app"] = "idle"
    BY <1>7 DEF Call, Enter
  <2>3. /\ pc'["app"] = FirstStep(c)
        /\ then'["app"] = IF c = "stop" THEN "seekTest" ELSE "idle"
    BY <2>2 DEF ThreadType, Threads
  <2>4. then'["app"] # "rateStore"
    BY <2>3
  <2>5. CASE c = "seek"
    BY <2>1, <2>2, <2>3, <2>5 DEF CallSteps, InSeek, AppPauses, FirstStep
  <2>6. CASE c # "seek"
    BY <2>1, <2>2, <2>3, <2>6 DEF CallSteps, InSeek, AppPauses
  <2>7. QED
    BY <2>5, <2>6
<1>8. CASE StopTimeReached
  BY <1>8 DEF StopTimeReached, Goto, KeepStream, CallSteps, InSeek, AppPauses,
     ThreadType, Threads, Control
<1>9. ASSUME NEW t \in Threads, Play(t) PROVE CallSteps'
  BY <1>9 DEF Play, Goto, Return, Cross, KeepRest, KeepStream, CallSteps,
     InSeek, AppPauses, ThreadType, Threads, Control
<1>10. ASSUME NEW t \in Threads, SetPlaying(t) PROVE CallSteps'
  BY <1>10 DEF SetPlaying, Return, Cross, CallSteps, InSeek, AppPauses,
     ThreadType, Threads, Control
<1>11. ASSUME NEW t \in Threads, PauseTest(t) PROVE CallSteps'
  BY <1>11 DEF PauseTest, Goto, Return, Cross, KeepRest, KeepStream,
     CallSteps, InSeek, AppPauses, ThreadType, Threads, Control
<1>12. ASSUME NEW t \in Threads, PauseMark(t) PROVE CallSteps'
  BY <1>12 DEF PauseMark, Goto, Return, Cross, KeepRest, KeepStream,
     CallSteps, InSeek, AppPauses, ThreadType, Threads, Control
<1>13. ASSUME NEW t \in Threads, StopTest(t) PROVE CallSteps'
  BY <1>13 DEF StopTest, Goto, Return, Cross, KeepRest, KeepStream, CallSteps,
     InSeek, AppPauses, ThreadType, Threads, Control
<1>14. ASSUME NEW t \in Threads, StopMark(t) PROVE CallSteps'
  BY <1>14 DEF StopMark, Goto, Cross, KeepRest, KeepStream, CallSteps, InSeek,
     AppPauses, ThreadType, Threads, Control
<1>15. ASSUME NEW t \in Threads, FinishTest(t) PROVE CallSteps'
  BY <1>15 DEF FinishTest, Goto, Return, KeepMedia, KeepRest, KeepStream,
     CallSteps, InSeek, AppPauses, ThreadType, Threads, Control
<1>16. ASSUME NEW t \in Threads, InternalPause(t) PROVE CallSteps'
  BY <1>16 DEF InternalPause, Goto, Return, Cross, KeepRest, KeepStream,
     CallSteps, InSeek, AppPauses, ThreadType, Threads, Control
<1>17. ASSUME NEW t \in Threads, SetPaused(t) PROVE CallSteps'
  BY <1>17 DEF SetPaused, Return, Cross, CallSteps, InSeek, AppPauses,
     ThreadType, Threads, Control
<1>18. ASSUME NEW t \in Threads, SeekTest(t) PROVE CallSteps'
  BY <1>18 DEF SeekTest, Goto, Return, KeepMedia, KeepRest, KeepStream,
     CallSteps, InSeek, AppPauses, ThreadType, Threads, Control
<1>19. ASSUME NEW t \in Threads, SeekPipeline(t) PROVE CallSteps'
  BY <1>19 DEF SeekPipeline, Goto, Return, KeepStream, FlushingSeek,
     CallSteps, InSeek, AppPauses, ThreadType, Threads, Control
<1>20. ASSUME NEW t \in Threads, SeekResume(t) PROVE CallSteps'
  BY <1>20 DEF SeekResume, Goto, Return, KeepMedia, KeepRest, KeepStream,
     CallSteps, InSeek, AppPauses, ThreadType, Threads, Control
<1>21. ASSUME NEW t \in Threads, RateZero(t) PROVE CallSteps'
  BY <1>21 DEF RateZero, Enter, Return, KeepMedia, KeepRest, KeepStream,
     CallSteps, InSeek, AppPauses, ThreadType, Threads, Control
<1>22. ASSUME NEW t \in Threads, RateStore(t) PROVE CallSteps'
  BY <1>22 DEF RateStore, Return, KeepMedia, KeepRest, KeepStream, CallSteps,
     InSeek, AppPauses, ThreadType, Threads, Control
<1>23. ASSUME NEW t \in Threads, RateSeek(t) PROVE CallSteps'
  BY <1>23 DEF RateSeek, Return, KeepMedia, KeepRest, KeepStream,
     FlushingSeek, CallSteps, InSeek, AppPauses, ThreadType, Threads, Control
<1>24. ASSUME NEW t \in Threads, PauseFails(t) PROVE CallSteps'
  BY <1>24 DEF PauseFails, Enter, Return, Post, Message, CallSteps, InSeek,
     AppPauses, ThreadType, Threads, Control
<1>25. CASE TakeMessage
  BY <1>25 DEF TakeMessage, CallSteps, InSeek, AppPauses, ThreadType, Threads,
     Control, mvars
<1>26. CASE BusMoves
  BY <1>26 DEF BusMoves, BusCallback, DropReference, BusCallbackDestroyNotify,
     FreeMeHere, CallSteps, InSeek, AppPauses, ThreadType, Threads, Control,
     mvars
<1>27. CASE HandleStateChanged
  BY <1>27 DEF HandleStateChanged, Handling, Goto, Enter, KeepBus, KeepStream,
     CallSteps, InSeek, AppPauses, ThreadType, Threads, Control, mvars
<1>28. CASE UpdatePlayerState
  <2>1. m_PlayerState' = "Unknown" => m_PlayerState = "Unknown"
    BY <1>28, NewStateType DEF UpdatePlayerState
  <2>2. AppStays
    BY <1>28 DEF UpdatePlayerState, Goto, AppStays, ThreadType, Threads, count
  <2>3. QED
    BY <2>1, <2>2 DEF CallSteps, AppStays, AppPauses
<1>29. CASE HandleEOS
  BY <1>29 DEF HandleEOS, Handling, Goto, Cross, KeepStream, CallSteps,
     InSeek, AppPauses, ThreadType, Threads, Control, mvars
<1>30. CASE HandleError
  BY <1>30 DEF HandleError, Handling, Goto, KeepStream, CallSteps, InSeek,
     AppPauses, ThreadType, Threads, Control, mvars
<1>31. CASE TornDown
  BY <1>31 DEF TornDown, Goto, CallSteps, InSeek, AppPauses, ThreadType,
     Threads, Control, mvars
<1>32. CASE HandleProgress
  BY <1>32 DEF HandleProgress, Handling, Goto, KeepBus, KeepStream, CallSteps,
     InSeek, AppPauses, ThreadType, Threads, Control, mvars
<1>33. CASE HandleUnderrun
  BY <1>33 DEF HandleUnderrun, Handling, Goto, KeepBus, KeepStream, CallSteps,
     InSeek, AppPauses, ThreadType, Threads, Control, mvars
<1>34. CASE Stall
  BY <1>34 DEF Stall, Goto, KeepBus, KeepStream, CallSteps, InSeek, AppPauses,
     ThreadType, Threads, Control, mvars
<1>35. CASE HandleHLSBuffer
  BY <1>35 DEF HandleHLSBuffer, Handling, Goto, KeepBus, KeepStream,
     CallSteps, InSeek, AppPauses, ThreadType, Threads, Control, mvars
<1>36. CASE HandlerDone
  BY <1>36 DEF HandlerDone, KeepStream, CallSteps, InSeek, AppPauses,
     ThreadType, Threads, Control, mvars
<1>37. CASE Dispose
  BY <1>37 DEF Dispose, CallSteps, InSeek, AppPauses, ThreadType, Threads,
     Control, mvars
<1>38. CASE Pads
  BY <1>38 DEF Pads, CallSteps, InSeek, AppPauses, ThreadType, Threads,
     Control, mvars
<1>39. CASE UNCHANGED vars
  BY <1>39 DEF vars, mvars, mvars, CallSteps, InSeek, AppPauses, ThreadType,
     Threads, Control
<1>40. QED
  BY <1>1, <1>2, <1>3, <1>4, <1>5, <1>6, <1>7, <1>8, <1>9, <1>10, <1>11,
     <1>12, <1>13, <1>14, <1>15, <1>16, <1>17, <1>18, <1>19, <1>20, <1>21,
     <1>22, <1>23, <1>24, <1>25, <1>26, <1>27, <1>28, <1>29, <1>30, <1>31,
     <1>32, <1>33, <1>34, <1>35, <1>36, <1>37, <1>38, <1>39, NextCases DEF
     ThreadStep

LEMMA StallStepKept == PlayerType /\ ThreadType /\ Control /\ BusIdle /\
   StallStep /\ [Next]_vars => StallStep'
<1> SUFFICES ASSUME PlayerType, ThreadType, Control, BusIdle, StallStep,
   [Next]_vars PROVE StallStep'
  OBVIOUS
<1> USE DEF player, rate, buffer, source, count, threads
<1>1. CASE AsyncDone
  BY <1>1 DEF AsyncDone, StallStep, ThreadType, Threads, Control, mvars
<1>2. CASE Render
  BY <1>2 DEF Render, Post, Message, StallStep, ThreadType, Threads, Control,
     mvars
<1>3. CASE EndOfStream
  BY <1>3 DEF EndOfStream, Post, Message, StallStep, ThreadType, Threads,
     Control, mvars
<1>4. CASE Download
  BY <1>4 DEF Download, Post, Message, StallStep, ThreadType, Threads,
     Control, mvars
<1>5. CASE Underrun
  BY <1>5 DEF Underrun, Post, Message, StallStep, ThreadType, Threads,
     Control, mvars
<1>6. CASE Fault
  BY <1>6 DEF Fault, Post, Message, StallStep, ThreadType, Threads, Control,
     mvars
<1>7. ASSUME NEW c \in Calls \ {"finish"}, Call(c) PROVE StallStep'
  BY <1>7 DEF Call, FirstStep, Enter, KeepStream, StallStep, ThreadType,
     Threads, Control, mvars
<1>8. CASE StopTimeReached
  BY <1>8 DEF StopTimeReached, Goto, KeepStream, StallStep, ThreadType,
     Threads, Control, mvars
<1>9. ASSUME NEW t \in Threads, Play(t) PROVE StallStep'
  BY <1>9 DEF Play, Goto, Return, Cross, KeepRest, KeepStream, StallStep,
     ThreadType, Threads, Control
<1>10. ASSUME NEW t \in Threads, SetPlaying(t) PROVE StallStep'
  BY <1>10 DEF SetPlaying, Return, Cross, StallStep, ThreadType, Threads,
     Control
<1>11. ASSUME NEW t \in Threads, PauseTest(t) PROVE StallStep'
  BY <1>11 DEF PauseTest, Goto, Return, Cross, KeepRest, KeepStream,
     StallStep, ThreadType, Threads, Control
<1>12. ASSUME NEW t \in Threads, PauseMark(t) PROVE StallStep'
  BY <1>12 DEF PauseMark, Goto, Return, Cross, KeepRest, KeepStream,
     StallStep, ThreadType, Threads, Control
<1>13. ASSUME NEW t \in Threads, StopTest(t) PROVE StallStep'
  BY <1>13 DEF StopTest, Goto, Return, Cross, KeepRest, KeepStream, StallStep,
     ThreadType, Threads, Control
<1>14. ASSUME NEW t \in Threads, StopMark(t) PROVE StallStep'
  BY <1>14 DEF StopMark, Goto, Cross, KeepRest, KeepStream, StallStep,
     ThreadType, Threads, Control
<1>15. ASSUME NEW t \in Threads, FinishTest(t) PROVE StallStep'
  BY <1>15 DEF FinishTest, Goto, Return, KeepMedia, KeepRest, KeepStream,
     StallStep, ThreadType, Threads, Control
<1>16. ASSUME NEW t \in Threads, InternalPause(t) PROVE StallStep'
  BY <1>16 DEF InternalPause, Goto, Return, Cross, KeepRest, KeepStream,
     StallStep, ThreadType, Threads, Control
<1>17. ASSUME NEW t \in Threads, SetPaused(t) PROVE StallStep'
  BY <1>17 DEF SetPaused, Return, Cross, StallStep, ThreadType, Threads,
     Control
<1>18. ASSUME NEW t \in Threads, SeekTest(t) PROVE StallStep'
  BY <1>18 DEF SeekTest, Goto, Return, KeepMedia, KeepRest, KeepStream,
     StallStep, ThreadType, Threads, Control
<1>19. ASSUME NEW t \in Threads, SeekPipeline(t) PROVE StallStep'
  BY <1>19 DEF SeekPipeline, Goto, Return, KeepStream, FlushingSeek,
     StallStep, ThreadType, Threads, Control
<1>20. ASSUME NEW t \in Threads, SeekResume(t) PROVE StallStep'
  BY <1>20 DEF SeekResume, Goto, Return, KeepMedia, KeepRest, KeepStream,
     StallStep, ThreadType, Threads, Control
<1>21. ASSUME NEW t \in Threads, RateZero(t) PROVE StallStep'
  BY <1>21 DEF RateZero, Enter, Return, KeepMedia, KeepRest, KeepStream,
     StallStep, ThreadType, Threads, Control
<1>22. ASSUME NEW t \in Threads, RateStore(t) PROVE StallStep'
  BY <1>22 DEF RateStore, Return, KeepMedia, KeepRest, KeepStream, StallStep,
     ThreadType, Threads, Control
<1>23. ASSUME NEW t \in Threads, RateSeek(t) PROVE StallStep'
  BY <1>23 DEF RateSeek, Return, KeepMedia, KeepRest, KeepStream,
     FlushingSeek, StallStep, ThreadType, Threads, Control
<1>24. ASSUME NEW t \in Threads, PauseFails(t) PROVE StallStep'
  BY <1>24 DEF PauseFails, Enter, Return, Post, Message, StallStep,
     ThreadType, Threads, Control
<1>25. CASE TakeMessage
  BY <1>25 DEF TakeMessage, StallStep, ThreadType, Threads, Control, mvars
<1>26. CASE BusMoves
  BY <1>26 DEF BusMoves, BusCallback, DropReference, BusCallbackDestroyNotify,
     FreeMeHere, StallStep, ThreadType, Threads, Control, mvars
<1>27. CASE HandleStateChanged
  BY <1>27 DEF HandleStateChanged, Handling, Goto, Enter, KeepBus, KeepStream,
     StallStep, ThreadType, Threads, Control, mvars
<1>28. CASE UpdatePlayerState
  BY <1>28 DEF UpdatePlayerState, Goto, Misread, StallStep, ThreadType,
     Threads, Control, mvars
<1>29. CASE HandleEOS
  BY <1>29 DEF HandleEOS, Handling, Goto, Cross, KeepStream, StallStep,
     ThreadType, Threads, Control, mvars
<1>30. CASE HandleError
  BY <1>30 DEF HandleError, Handling, Goto, KeepStream, StallStep, ThreadType,
     Threads, Control, mvars
<1>31. CASE TornDown
  BY <1>31 DEF TornDown, Goto, StallStep, ThreadType, Threads, Control, mvars
<1>32. CASE HandleProgress
  BY <1>32 DEF HandleProgress, Handling, Goto, KeepBus, KeepStream, StallStep,
     ThreadType, Threads, Control, mvars
<1>33. CASE HandleUnderrun
  BY <1>33 DEF HandleUnderrun, Handling, Goto, KeepBus, KeepStream, StallStep,
     ThreadType, Threads, Control, mvars
<1>34. CASE Stall
  BY <1>34 DEF Stall, Goto, KeepBus, KeepStream, StallStep, ThreadType,
     Threads, Control, mvars
<1>35. CASE HandleHLSBuffer
  BY <1>35 DEF HandleHLSBuffer, Handling, Goto, KeepBus, KeepStream,
     StallStep, ThreadType, Threads, Control, mvars
<1>36. CASE HandlerDone
  BY <1>36 DEF HandlerDone, KeepStream, StallStep, ThreadType, Threads,
     Control, mvars
<1>37. CASE Dispose
  BY <1>37 DEF Dispose, StallStep, ThreadType, Threads, Control, mvars
<1>38. CASE Pads
  BY <1>38 DEF Pads, StallStep, ThreadType, Threads, Control, mvars
<1>39. CASE UNCHANGED vars
  BY <1>39 DEF vars, mvars, mvars, StallStep, ThreadType, Threads, Control
<1>40. QED
  BY <1>1, <1>2, <1>3, <1>4, <1>5, <1>6, <1>7, <1>8, <1>9, <1>10, <1>11,
     <1>12, <1>13, <1>14, <1>15, <1>16, <1>17, <1>18, <1>19, <1>20, <1>21,
     <1>22, <1>23, <1>24, <1>25, <1>26, <1>27, <1>28, <1>29, <1>30, <1>31,
     <1>32, <1>33, <1>34, <1>35, <1>36, <1>37, <1>38, <1>39, NextCases DEF
     ThreadStep

LEMMA AimKept == StreamType /\ Changing /\ Aim /\ [Next]_vars => Aim'
<1> SUFFICES ASSUME StreamType, Changing, Aim, [Next]_vars PROVE Aim'
  OBVIOUS
<1> USE DEF player, rate, buffer, source, count, threads
<1>1. CASE AsyncDone
  BY <1>1, GstFields DEF AsyncDone, Aim, StreamType
<1>2. ASSUME NEW t \in Threads, SetPlaying(t) PROVE Aim'
  <2>1. PlayingEffect
    BY <1>2, RequestEffects DEF SetPlaying, StreamType
  <2>2. CASE gst.state = "NULL"
    BY <1>2, <2>2, GstFields DEF SetPlaying, RequestPlaying, RequestPaused,
       Changing, Aim
  <2>3. CASE gst.state # "NULL"
    BY <2>1, <2>3 DEF PlayingEffect, Aim
  <2>4. QED
    BY <2>2, <2>3
<1>3. ASSUME NEW t \in Threads, SetPaused(t) PROVE Aim'
  <2>1. PausedEffect
    BY <1>3, RequestEffects DEF SetPaused, StreamType
  <2>2. CASE gst.state = "NULL"
    BY <1>3, <2>2, GstFields DEF SetPaused, RequestPlaying, RequestPaused,
       Changing, Aim
  <2>3. CASE gst.state # "NULL"
    BY <2>1, <2>3 DEF PausedEffect, Aim
  <2>4. QED
    BY <2>2, <2>3
<1>4. ASSUME NEW t \in Threads, SeekPipeline(t) PROVE Aim'
  <2>1. CASE FlushingSeek
    BY <2>1, GstFields DEF FlushingSeek, Aim, StreamType
  <2>2. CASE KeepStream
    BY <2>2 DEF KeepStream, Aim
  <2>3. QED
    BY <1>4, <2>1, <2>2 DEF SeekPipeline
<1>5. ASSUME NEW t \in Threads, RateSeek(t) PROVE Aim'
  <2>1. CASE FlushingSeek
    BY <2>1, GstFields DEF FlushingSeek, Aim, StreamType
  <2>2. CASE KeepStream
    BY <2>2 DEF KeepStream, Aim
  <2>3. QED
    BY <1>5, <2>1, <2>2 DEF RateSeek
<1>6. CASE UpdatePlayerState
  <2>1. CASE UNCHANGED gst
    BY <2>1 DEF Aim
  <2>2. CASE RequestPlaying
    <3>1. PlayingEffect
      BY <2>2, RequestEffects DEF StreamType
    <3>2. CASE gst.state = "NULL"
      BY <2>2, <3>2, GstFields DEF RequestPlaying, Changing, Aim
    <3>3. CASE gst.state # "NULL"
      BY <3>1, <3>3 DEF PlayingEffect, Aim
    <3>4. QED
      BY <3>2, <3>3
  <2>3. QED
    BY <1>6, <2>1, <2>2 DEF UpdatePlayerState
<1>7. CASE TornDown
  BY <1>7 DEF TornDown, NullPipeline, Aim
<1>8. CASE Dispose
  BY <1>8 DEF Dispose, NullPipeline, Aim, mvars
<1>9. ASSUME NEW t \in Threads, Play(t) \/ PauseTest(t) \/ PauseMark(t) \/
   StopTest(t) \/ StopMark(t) \/ FinishTest(t) \/ InternalPause(t) \/
   SeekTest(t) \/ SeekResume(t) \/ RateZero(t) \/ RateStore(t) \/
   PauseFails(t) PROVE Aim'
  BY <1>9 DEF Play, Goto, Return, Cross, KeepRest, KeepStream, PauseTest,
     PauseMark, StopTest, StopMark, FinishTest, KeepMedia, InternalPause,
     SeekTest, SeekResume, RateZero, Enter, RateStore, PauseFails, Post,
     Message, mvars, Aim
<1>10. CASE Render \/ EndOfStream \/ Download \/ Underrun \/ Fault \/
   StopTimeReached \/ TakeMessage \/ BusMoves \/ HandleStateChanged \/
   HandleEOS \/ HandleError \/ HandleProgress \/ HandleUnderrun \/ Stall \/
   HandleHLSBuffer \/ HandlerDone \/ Pads \/ UNCHANGED vars
  BY <1>10 DEF vars, mvars, Render, Post, Message, EndOfStream, Download,
     Underrun, Fault, StopTimeReached, Goto, KeepStream, TakeMessage,
     BusMoves, BusCallback, DropReference, BusCallbackDestroyNotify,
     FreeMeHere, HandleStateChanged, Handling, Enter, KeepBus, HandleEOS,
     Cross, HandleError, HandleProgress, HandleUnderrun, Stall,
     HandleHLSBuffer, HandlerDone, Pads, mvars, Aim
<1>11. ASSUME NEW c \in Calls \ {"finish"}, Call(c) PROVE Aim'
  BY <1>11 DEF Call, FirstStep, Enter, KeepStream, mvars, Aim
<1>12. QED
  BY <1>1, <1>2, <1>3, <1>4, <1>5, <1>6, <1>7, <1>8, <1>9, <1>10, <1>11,
     NextCases DEF ThreadStep

-----------------------------------------------------------------------------
(* The steps, as far as pipeline and news go.                              *)

\* The player lives: there is no error, and a pause has been kept so far.
Going ==
    /\ PlayerType /\ FlagType /\ StreamType /\ MessageType /\ MessageType'
    /\ ThreadType /\ CountType
    /\ Control /\ Changing /\ Changing' /\ BusIdle
    /\ CallSteps /\ CallSteps' /\ StallStep /\ Aim
    /\ [Next]_vars
    /\ Soft /\ Soft' /\ Plain /\ Plain'
    /\ ~Broken /\ ~Broken' /\ gst.state # "NULL" /\ m_PlayerState # "Error"
    /\ ~TornDown /\ ~\E u \in Threads : PauseFails(u)
    /\ Target /\ LastNews /\ NoteHeld /\ PauseNoted /\ Hush /\ NoStart

Requests(u) == SetPlaying(u) \/ SetPaused(u) \/ SeekPipeline(u) \/ RateSeek(u)

\* The pipeline does nothing, and the player hears of no change,
Holds == gst' = gst /\ NewsSame /\ \A u \in Threads : ~SetPlaying(u) /\ ~SetPaused(u)

\* or of one.
Hears == gst' = gst /\ NewsDrops /\ Handled

\* A stall is over as soon as it begins.
Wakes ==
    /\ UpdatePlayerState
    /\ ~Noted /\ m_PlayerState = "Playing" /\ m_PlayerState' = "Stalled"
    /\ gst'.state = "PLAYING" /\ gst'.pending = "VOID" /\ gst'.target = "PLAYING"
    /\ LastTold("PLAYING")' /\ AgainPlays'

Completes ==
    /\ AsyncDone
    /\ gst.pending # "VOID"
    /\ gst'.state = gst.target /\ gst'.pending = "VOID" /\ gst'.target = gst.target
    /\ \/ gst.target = "PAUSED" /\ NewsAdds(gst.state, "PAUSED")
       \/ gst.target = "PLAYING" /\ NewsAdds("PAUSED", "PLAYING")

Starts(u) ==
    /\ SetPlaying(u)
    /\ gst'.target = "PLAYING"
    /\ \/ /\ gst.pending # "VOID" /\ gst'.pending # "VOID"
          /\ gst'.state = gst.state /\ NewsSame
       \/ /\ gst.pending = "VOID" /\ gst.state = "PAUSED"
          /\ gst'.pending = "VOID" /\ gst'.state = "PLAYING"
          /\ NewsAdds("PAUSED", "PLAYING")
       \/ /\ gst.pending = "VOID" /\ gst.state = "PLAYING" /\ gst' = gst
          /\ NewsSame

Suspends(u) ==
    /\ SetPaused(u)
    /\ gst'.target = "PAUSED"
    /\ \/ /\ gst.pending # "VOID" /\ gst'.pending # "VOID"
          /\ gst'.state = gst.state /\ NewsSame
       \/ /\ gst.pending = "VOID" /\ gst.state = "PAUSED" /\ gst' = gst
          /\ NewsSame
       \/ /\ gst.pending = "VOID" /\ gst.state = "PLAYING"
          /\ gst'.pending = "VOID" /\ gst'.state = "PAUSED"
          /\ NewsAdds("PLAYING", "PAUSED")
       \/ /\ gst.pending = "VOID" /\ gst.state = "PLAYING"
          /\ gst'.pending # "VOID" /\ gst'.state = "PLAYING" /\ NewsSame

Prerolls ==
    /\ SeekPipeline("app") \/ RateSeek("app")
    /\ gst.pending = "VOID" /\ gst'.pending # "VOID"
    /\ gst'.state = "PAUSED" /\ gst'.target = gst.target /\ NewsSame

LEMMA RequestHead ==
  ASSUME Going, \/ AsyncDone
                \/ \E u \in Threads : Requests(u)
  PROVE  HeadKept /\ ~TakeMessage
<1>1. /\ MessageType /\ MessageType' /\ ThreadType /\ Control /\ BusIdle
      /\ [Next]_vars /\ gst.state # "NULL"
  BY DEF Going
<1>2. bus' = bus
  BY <1>1 DEF Requests, AsyncDone, SetPlaying, SetPaused, SeekPipeline,
     RateSeek,
              Restarts, KeepMedia, KeepRest, dvars
<1>3. ~TakeMessage
  BY <1>2 DEF TakeMessage, Dispatch
<1>4. pc'["bus"] = pc["bus"] \/ pc["bus"] \notin {"idle", "update"}
  <2>1. CASE AsyncDone
    BY <2>1 DEF AsyncDone, threads
  <2>2. ASSUME NEW u \in Threads, Requests(u)
        PROVE  pc'["bus"] = pc["bus"] \/ pc["bus"] \notin {"idle", "update"}
    BY <1>1, <2>2 DEF Requests, SetPlaying, SetPaused, SeekPipeline, RateSeek,
                      Return, Goto, ThreadType, Threads
  <2>3. QED
    BY <2>1, <2>2
<1>5. ~Handled
  BY <1>1, <1>4 DEF Handled, UpdatePlayerState, HandleStateChanged, Handling,
     Goto,
                    ThreadType, Threads
<1>6. QED
  BY <1>1, <1>3, <1>5, HeadCases

LEMMA GoingStarts ==
  ASSUME Going, NEW u \in Threads, SetPlaying(u)
  PROVE  Starts(u)
<1>1. HeadKept /\ MessageType /\ MessageType' /\ gst.state # "NULL" /\ Target
  BY RequestHead DEF Going, Requests
<1>2. PlayingEffect
  BY RequestEffects DEF Going, SetPlaying, StreamType
<1>3. messages' = messages => NewsSame
  BY <1>1, TalkSame DEF Silent
<1>4. Post(<<StateChanged("PAUSED", "PLAYING")>>) => NewsAdds("PAUSED", "PLAYING")
  BY <1>1, GstNames, Speaks, TalkAdds
<1>5. QED
  BY <1>1, <1>2, <1>3, <1>4 DEF PlayingEffect, Starts, Target

LEMMA GoingSuspends ==
  ASSUME Going, NEW u \in Threads, SetPaused(u)
  PROVE  Suspends(u)
<1>1. HeadKept /\ MessageType /\ MessageType' /\ gst.state # "NULL" /\ Target
  BY RequestHead DEF Going, Requests
<1>2. PausedEffect
  BY RequestEffects DEF Going, SetPaused, StreamType
<1>3. messages' = messages => NewsSame
  BY <1>1, TalkSame DEF Silent
<1>4. Post(<<StateChanged("PLAYING", "PAUSED")>>) => NewsAdds("PLAYING", "PAUSED")
  BY <1>1, GstNames, Speaks, TalkAdds
<1>5. QED
  BY <1>1, <1>2, <1>3, <1>4 DEF PausedEffect, Suspends, Target

LEMMA GoingWakes ==
  ASSUME Going, UpdatePlayerState, ~(gst' = gst /\ messages' = messages)
  PROVE  Wakes
<1>1. /\ MessageType /\ MessageType' /\ gst.state # "NULL" /\ LastNews /\ Plain'
      /\ Control /\ StreamType /\ PlayerType
  BY DEF Going
<1>2. NewPlayerState = "Stalled" /\ m_PlayerState # "Stalled" /\ RequestPlaying
  BY DEF UpdatePlayerState
<1>3. /\ ~Noted /\ m_PlayerState = "Playing" /\ msg.new = "PAUSED"
      /\ m_StallOnPause
  BY <1>1, <1>2 DEF NewPlayerState, PauseMeans, NothingAsked, Noted, PlayerType
<1>4. m_PlayerState' = "Stalled" /\ ~m_StallOnPause'
  BY <1>2, <1>3 DEF UpdatePlayerState
<1>5. /\ gst.pending = "VOID"
      /\ \A i \in 1..Len(messages) : talk[i].type # "STATE"
  BY <1>1, <1>3, <1>4, NotAhead
<1>6. gst.state = "PAUSED"
  <2>1. talk[0] = msg /\ Before(talk, 0, After) /\ 0 \in News
    BY <1>1, <1>5, HandledHead DEF Before, After
  <2>2. QED
    BY <1>1, <1>3, <1>5, <2>1 DEF LastNews, LastTold
<1>7. PlayingEffect
  BY <1>1, <1>2, RequestEffects DEF StreamType
<1>8. /\ gst'.state = "PLAYING" /\ gst'.pending = "VOID" /\ gst'.target = "PLAYING"
      /\ Spoken("PAUSED", "PLAYING")
  BY <1>1, <1>5, <1>6, <1>7, GstNames, Speaks DEF PlayingEffect
<1>9. LastTold("PLAYING")' /\ AgainPlays'
  BY <1>1, <1>8, GstNames, SpokenLast
<1>10. QED
  BY <1>3, <1>4, <1>8, <1>9 DEF Wakes

\* What a step does.
LEMMA Moves ==
  ASSUME Going
  PROVE  \/ Holds \/ Hears \/ Wakes \/ Completes \/ Prerolls
         \/ \E u \in Threads : Starts(u) \/ Suspends(u)
<1>1. /\ MessageType /\ MessageType' /\ StreamType /\ ThreadType /\ Control
      /\ Changing /\ BusIdle /\ [Next]_vars /\ gst.state # "NULL" /\ Plain /\ Plain'
      /\ ~TornDown
  BY DEF Going
<1>2. ASSUME NEW u \in Threads, SetPlaying(u) \/ SetPaused(u)
      PROVE  Starts(u) \/ Suspends(u)
  BY <1>2, GoingStarts, GoingSuspends
<1>3. CASE TakeMessage /\ \A u \in Threads : ~SetPlaying(u) /\ ~SetPaused(u)
  <2>1. gst' = gst
    BY <1>3 DEF TakeMessage
  <2>2. NewsSame
    BY <1>1, <1>3, TalkTaken
  <2>3. QED
    BY <1>3, <2>1, <2>2 DEF Holds
<1>4. CASE AsyncDone
  <2>1. HeadKept /\ ~TakeMessage
    BY <1>4, RequestHead
  <2>2. gst.state \in GstStates /\ gst.target \in {"PAUSED", "PLAYING"}
    BY <1>1 DEF StreamType, GstType, Changing
  <2>3. /\ gst.pending # "VOID" /\ gst'.state = gst.target
        /\ gst'.pending = "VOID" /\ gst'.target = gst.target
    BY <1>1, <1>4, GstFields DEF AsyncDone, StreamType
  <2>4. CASE gst.target = "PAUSED"
    <3>1. Spoken(gst.state, "PAUSED")
      BY <1>1, <1>4, <2>2, <2>4, GstNames, Speaks DEF AsyncDone
    <3>2. NewsAdds(gst.state, "PAUSED")
      BY <1>1, <2>1, <2>2, <3>1, GstNames, TalkAdds
    <3>3. QED
      BY <1>4, <2>3, <2>4, <3>2 DEF Completes
  <2>5. CASE gst.target = "PLAYING"
    <3>1. Spoken("PAUSED", "PLAYING")
      BY <1>1, <1>4, <2>2, <2>5, GstNames, Speaks DEF AsyncDone
    <3>2. NewsAdds("PAUSED", "PLAYING")
      BY <1>1, <2>1, <3>1, GstNames, TalkAdds
    <3>3. QED
      BY <1>4, <2>3, <2>5, <3>2 DEF Completes
  <2>6. QED
    BY <2>2, <2>4, <2>5
<1>5. CASE UpdatePlayerState /\ ~(gst' = gst /\ messages' = messages)
  BY <1>5, GoingWakes
<1>6. CASE Quiet /\ \A u \in Threads : ~SetPlaying(u) /\ ~SetPaused(u)
  <2>1. HeadKept \/ Handled \/ TakeMessage
    BY <1>1, HeadCases
  <2>2. CASE HeadKept
    BY <1>1, <1>6, <2>2, TalkSame DEF Quiet, Holds
  <2>3. CASE Handled
    BY <1>1, <1>6, <2>3, TalkDrops DEF Quiet, Hears, Handled
  <2>4. QED
    BY <1>3, <1>6, <2>1, <2>2, <2>3
<1>7. ASSUME NEW u \in Threads, SeekPipeline(u) \/ RateSeek(u), SeekEffect,
             \A t \in Threads : ~SetPlaying(t) /\ ~SetPaused(t)
      PROVE  Holds \/ Prerolls
  <2>1. u = "app"
    BY <1>1, <1>7 DEF SeekPipeline, RateSeek, Control, Threads
  <2>2. HeadKept
    BY <1>7, RequestHead DEF Requests
  <2>3. NewsSame
    BY <1>1, <1>7, <2>2, TalkSame DEF SeekEffect, Silent
  <2>4. QED
    BY <1>7, <2>1, <2>3 DEF SeekEffect, Holds, Prerolls
<1>8. Kind \/ TakeMessage
  BY <1>1, KindCases
<1>9. UpdatePlayerState /\ PlayEffect =>
         Quiet \/ ~(gst' = gst /\ messages' = messages)
  BY DEF Quiet, Silent
<1>10. QED
  BY <1>2, <1>3, <1>4, <1>5, <1>6, <1>7, <1>8, <1>9 DEF Kind

-----------------------------------------------------------------------------
(* A pause is kept.                                                        *)

LEMMA LastNewsKept ==
  ASSUME Going
  PROVE  Target' /\ LastNews'
<1>1. /\ Target /\ LastNews /\ Changing /\ gst.state \in GstStates
      /\ gst.state # "NULL" /\ gst.target \in {"PAUSED", "PLAYING"}
  BY DEF Going, StreamType, GstType, Changing
<1>2. CASE Holds
  BY <1>1, <1>2 DEF Holds, NewsSame, Target, LastNews, LastTold
<1>3. CASE Hears
  BY <1>1, <1>3 DEF Hears, NewsDrops, Target, LastNews, LastTold
<1>4. CASE Wakes
  BY <1>4 DEF Wakes, Target, LastNews, LastTold
<1>5. CASE Completes
  BY <1>1, <1>5 DEF Completes, NewsAdds, Target, LastNews, LastTold
<1>6. CASE Prerolls
  BY <1>6 DEF Prerolls, Target, LastNews
<1>7. ASSUME NEW u \in Threads, Starts(u) PROVE Target' /\ LastNews'
  BY <1>1, <1>7 DEF Starts, NewsSame, NewsAdds, Target, LastNews, LastTold
<1>8. ASSUME NEW u \in Threads, Suspends(u) PROVE Target' /\ LastNews'
  BY <1>1, <1>8 DEF Suspends, NewsSame, NewsAdds, Target, LastNews, LastTold
<1>9. QED
  BY <1>2, <1>3, <1>4, <1>5, <1>6, <1>7, <1>8, Moves

\* The answer to a note is the last news.
LEMMA NoteAnswered ==
  ASSUME Going, UpdatePlayerState, Noted
  PROVE  /\ ~AppPauses /\ ~AppPauses' /\ gst.pending = "VOID" /\ gst' = gst
         /\ ~TwoTell /\ ~Told' /\ ~PlayTold'
         /\ talk[0] = msg /\ msg.type = "STATE" /\ msg.new = gst.state
<1>1. /\ MessageType /\ MessageType' /\ Plain' /\ Control /\ LastNews /\ ThreadType
  BY DEF Going
<1>2. /\ ~AppPauses /\ gst.pending = "VOID"
      /\ \A i \in 1..Len(messages) : talk[i].type # "STATE"
  BY <1>1, NotAhead DEF NothingAsked, Noted
<1>3. talk[0] = msg /\ msg.type = "STATE" /\ 0 \in News /\ Len(messages) \in Nat
  BY <1>1, HandledHead
<1>4. ~TwoTell
  BY <1>2, <1>3 DEF TwoTell, News
<1>5. gst' = gst /\ messages' = messages
  BY GoingWakes DEF Wakes
<1>6. NewsDrops
  BY <1>1, <1>5, HeardPopped, TalkDrops DEF Silent
<1>7. ~Told'
  BY <1>4, <1>6 DEF NewsDrops
<1>8. ~PlayTold'
  BY <1>7 DEF Told, PlayTold, TellsPlay
<1>9. msg.new = gst.state
  <2>1. Before(talk, 0, After)
    BY <1>2, <1>3 DEF Before, After
  <2>2. QED
    BY <1>1, <1>2, <1>3, <2>1 DEF LastNews, LastTold
<1>10. ~AppPauses'
  BY <1>1, <1>2 DEF UpdatePlayerState, Goto, AppPauses, ThreadType, Threads
<1>11. QED
  BY <1>2, <1>3, <1>4, <1>5, <1>7, <1>8, <1>9, <1>10

LEMMA NoteHeldGoes ==
  ASSUME Going
  PROVE  NoteHeld'
<1>1. /\ PlayerType /\ ThreadType /\ Control /\ Plain' /\ m_PlayerState # "Error"
      /\ NoteHeld /\ [Next]_vars /\ ~TornDown
  BY DEF Going
<1>2. CASE UpdatePlayerState
  <2>1. AppPauses => Noted
    BY <1>1 DEF NoteHeld
  <2>2. ~AppPauses'
    <3>1. CASE Noted
      BY <1>2, <3>1, NoteAnswered
    <3>2. CASE ~AppPauses
      BY <1>1, <1>2, <3>2 DEF UpdatePlayerState, Goto, AppPauses, ThreadType,
         Threads
    <3>3. QED
      BY <2>1, <3>1, <3>2
  <2>3. m_PlayerPendingState' = "Stopped" =>
           m_PlayerState' \in {"Playing", "Paused", "Stalled", "Finished"}
    BY <1>1, <1>2
       DEF UpdatePlayerState, NewPlayerState, PauseMeans, NothingAsked, NoteHeld,
           PlayerType
  <2>4. QED
    BY <2>2, <2>3 DEF NoteHeld
<1>3. QED
  BY <1>1, <1>2, NoteHeldKept

LEMMA PauseNotedKept ==
  ASSUME Going
  PROVE  PauseNoted'
<1>1. /\ PlayerType /\ ThreadType /\ Control /\ PauseNoted /\ [Next]_vars
      /\ ~TornDown /\ m_PlayerState # "Error"
      /\ ~PauseFails("app") /\ {"note", "kept"} \cap crossed' = {}
  BY DEF Going, Soft, Threads
<1>2. CASE PlayerStays
  BY <1>1, <1>2 DEF PlayerStays, PauseNoted
<1>3. CASE UpdatePlayerState
  <2> SUFFICES ASSUME m_PlayerPendingState' = "Paused"
               PROVE  m_PlayerState' \in {"Playing", "Finished"}
    BY DEF PauseNoted
  <2>1. m_PlayerPendingState = "Paused" /\ m_PlayerState \in {"Playing", "Finished"}
    BY <1>1, <1>3 DEF UpdatePlayerState, PauseNoted
  <2>2. m_PlayerState = "Finished" => msg.new # "PAUSED"
    BY <1>1, <1>3, <2>1 DEF UpdatePlayerState, Misread
  <2>3. QED
    BY <1>3, <2>1, <2>2 DEF UpdatePlayerState, NewPlayerState, PauseMeans
<1>4. CASE HandleEOS
  BY <1>4 DEF HandleEOS, PauseNoted
<1>5. CASE PauseMark("app")
  BY <1>1, <1>5 DEF PauseMark, Cross, PauseNoted, Control, PlayerType,
     PlayerStates
<1>6. CASE StopMark("app")
  BY <1>6 DEF StopMark, PauseNoted
<1>7. QED
  BY <1>1, <1>2, <1>3, <1>4, <1>5, <1>6, PlayerMoves

\* Nobody starts a pipeline that is to be silent,
LEMMA HushedStays ==
  ASSUME Going, Hushed
  PROVE  gst'.target # "PLAYING" /\ (PlayTold' => PlayTold)
<1>1. /\ gst.target # "PLAYING"
      /\ Noted \/ m_PlayerState \in {"Paused", "Stopped"}
      /\ CallSteps /\ NoStart /\ Control /\ gst.state # "NULL"
      /\ "resume" \notin crossed'
  BY DEF Going, Hush, Soft
<1>2. CASE Holds \/ Hears
  BY <1>1, <1>2 DEF Holds, Hears, NewsSame, NewsDrops
<1>3. ~Wakes
  BY <1>1 DEF Wakes
<1>4. CASE Completes
  BY <1>1, <1>4 DEF Completes, NewsAdds
<1>5. CASE Prerolls
  BY <1>1, <1>5 DEF Prerolls, NewsSame
<1>6. ASSUME NEW u \in Threads, Starts(u) PROVE FALSE
  <2>1. SetPlaying(u) /\ pc[u] = "setPlaying"
    BY <1>6 DEF Starts, SetPlaying
  <2>2. CASE u = "bus"
    BY <1>1, <2>1, <2>2 DEF SetPlaying, Cross, NothingAsked, Noted
  <2>3. CASE u = "app"
    BY <1>1, <2>1, <2>3 DEF Hushed, CallSteps, NoStart
  <2>4. CASE u = "pulse"
    BY <1>1, <2>1, <2>4 DEF Control
  <2>5. QED
    BY <2>2, <2>3, <2>4 DEF Threads
<1>7. ASSUME NEW u \in Threads, Suspends(u)
      PROVE  gst'.target # "PLAYING" /\ (PlayTold' => PlayTold)
  BY <1>7 DEF Suspends, NewsSame, NewsAdds
<1>8. QED
  BY <1>2, <1>3, <1>4, <1>5, <1>6, <1>7, Moves

\* and it does not reach its end.
LEMMA HushedEnds ==
  ASSUME Going, Hushed
  PROVE  ~HandleEOS
<1>1. gst.target # "PLAYING" /\ Target /\ "eos" \notin crossed'
  BY DEF Going, Hush, Soft
<1>2. QED
  BY <1>1 DEF HandleEOS, Cross, IsPlaying, Target

\* Only these steps silence the media.
LEMMA HushedNew ==
  ASSUME Going, ~Hushed, Hushed'
  PROVE  \/ PauseTest("app") \/ PauseMark("app") \/ StopTest("app")
         \/ InternalPause("app") \/ SetPaused("app")
<1>1. /\ ThreadType /\ Control /\ CallSteps /\ ~Hushed /\ Hushed'
      /\ ~PauseFails("app")
  BY DEF Going, Threads
<1>2. CASE ThreadStep("app")
  <2>1. CASE Play("app")
    BY <1>1, <1>2, <2>1 DEF Play, Goto, Return, Cross, KeepRest, KeepStream,
       Hushed, Pausing, CallSteps, InSeek, AppPauses, ThreadType, Threads,
       player, rate, buffer, source, count, threads
  <2>2. CASE SetPlaying("app")
    BY <1>1, <1>2, <2>2 DEF SetPlaying, Return, Cross, Hushed, Pausing,
       CallSteps, InSeek, AppPauses, ThreadType, Threads, player, rate,
       buffer, source, count, threads
  <2>3. CASE PauseTest("app")
    BY <2>3
  <2>4. CASE PauseMark("app")
    BY <2>4
  <2>5. CASE StopTest("app")
    BY <2>5
  <2>6. CASE StopMark("app")
    BY <1>1, <1>2, <2>6 DEF StopMark, Goto, Cross, KeepRest, KeepStream,
       Hushed, Pausing, CallSteps, InSeek, AppPauses, ThreadType, Threads,
       player, rate, buffer, source, count, threads
  <2>7. CASE FinishTest("app")
    BY <1>1, <1>2, <2>7 DEF FinishTest, Goto, Return, KeepMedia, KeepRest,
       KeepStream, Hushed, Pausing, CallSteps, InSeek, AppPauses, ThreadType,
       Threads, player, rate, buffer, source, count, threads
  <2>8. CASE InternalPause("app")
    BY <2>8
  <2>9. CASE SetPaused("app")
    BY <2>9
  <2>10. CASE SeekTest("app")
    BY <1>1, <1>2, <2>10 DEF SeekTest, Goto, Return, KeepMedia, KeepRest,
       KeepStream, Hushed, Pausing, CallSteps, InSeek, AppPauses, ThreadType,
       Threads, player, rate, buffer, source, count, threads
  <2>11. CASE SeekPipeline("app")
    BY <1>1, <1>2, <2>11 DEF SeekPipeline, Goto, Return, KeepStream,
       FlushingSeek, Hushed, Pausing, CallSteps, InSeek, AppPauses,
       ThreadType, Threads, player, rate, buffer, source, count, threads
  <2>12. CASE SeekResume("app")
    BY <1>1, <1>2, <2>12 DEF SeekResume, Goto, Return, KeepMedia, KeepRest,
       KeepStream, Hushed, Pausing, CallSteps, InSeek, AppPauses, ThreadType,
       Threads, player, rate, buffer, source, count, threads
  <2>13. CASE RateZero("app")
    BY <1>1, <1>2, <2>13 DEF RateZero, Enter, Return, KeepMedia, KeepRest,
       KeepStream, Hushed, Pausing, CallSteps, InSeek, AppPauses, ThreadType,
       Threads, player, rate, buffer, source, count, threads
  <2>14. CASE RateStore("app")
    BY <1>1, <1>2, <2>14 DEF RateStore, Return, KeepMedia, KeepRest,
       KeepStream, Hushed, Pausing, CallSteps, InSeek, AppPauses, ThreadType,
       Threads, player, rate, buffer, source, count, threads
  <2>15. CASE RateSeek("app")
    BY <1>1, <1>2, <2>15 DEF RateSeek, Return, KeepMedia, KeepRest,
       KeepStream, FlushingSeek, Hushed, Pausing, CallSteps, InSeek,
       AppPauses, ThreadType, Threads, player, rate, buffer, source, count,
       threads
  <2>16. CASE PauseFails("app")
    BY <1>1, <2>16
  <2>17. QED
    BY <1>1, <1>2, <2>1, <2>2, <2>3, <2>4, <2>5, <2>6, <2>7, <2>8, <2>9,
       <2>10, <2>11, <2>12, <2>13, <2>14, <2>15, <2>16 DEF ThreadStep
<1>3. ~AppStays
  BY DEF AppStays, Hushed
<1>4. ~StopTimeReached
  BY <1>1 DEF StopTimeReached, Goto, rate, ThreadType, Threads, Hushed
<1>5. ASSUME NEW c \in Calls \ {"finish"}, Call(c) PROVE FALSE
  <2>1. /\ pc["app"] = "idle" /\ m_fRate' = m_fRate
        /\ asked' = (IF c = "seek" THEN asked ELSE c) /\ pc'["app"] = FirstStep(c)
    BY <1>1, <1>5 DEF Call, Enter, rate, ThreadType, Threads
  <2>2. /\ FirstStep(c) # "rateStore"
        /\ c \in {"pause", "stop"} => FirstStep(c) \in Pausing
    BY <1>5, CallsAssumption DEF FirstStep, Pausing
  <2>3. QED
    BY <1>1, <2>1, <2>2 DEF Hushed, Pausing
<1>6. QED
  BY <1>1, <1>2, <1>3, <1>4, <1>5, AppMoves DEF Going

\* A call is refused only when nothing is on its way.
LEMMA NotPlayAhead ==
  ASSUME MessageType, ~PlayAhead
  PROVE  gst.target # "PLAYING" /\ ~PlayTold
<1>1. DOMAIN messages = 1..Len(messages)
  BY DEF MessageType
<1>2. ASSUME NEW k \in News PROVE ~TellsPlay(talk, k)
  <2>1. CASE k = 0
    BY <2>1, TalkTypes DEF PlayAhead, TellsPlay, NoMessage
  <2>2. CASE k # 0
    <3>1. k \in 1..Len(messages)
      BY <2>2, TalkTypes DEF News
    <3>2. QED
      BY <1>1, <3>1, TalkTypes DEF PlayAhead, TellsPlay
  <2>3. QED
    BY <2>1, <2>2
<1>3. QED
  BY <1>2 DEF PlayAhead, PlayTold

LEMMA HushKept ==
  ASSUME Going
  PROVE  Hush'
<1>1. /\ PlayerType /\ ThreadType /\ Control /\ MessageType /\ [Next]_vars
      /\ ~TornDown /\ m_PlayerState # "Error" /\ ~PauseFails("app")
      /\ crossed' \subseteq {"stall", "finish"} /\ NoteHeld /\ gst.state # "NULL"
  BY DEF Going, Soft, Threads
<1> SUFFICES ASSUME Hushed'
             PROVE  /\ gst'.target # "PLAYING"
                    /\ \/ Noted'
                       \/ m_PlayerState' \in {"Paused", "Stopped"} /\ ~PlayTold'
  BY DEF Hush
<1>2. CASE Hushed
  <2>1. Noted \/ (m_PlayerState \in {"Paused", "Stopped"} /\ ~PlayTold)
    BY <1>2 DEF Going, Hush
  <2>2. gst'.target # "PLAYING" /\ (PlayTold' => PlayTold) /\ ~HandleEOS
    BY <1>2, HushedStays, HushedEnds
  <2>3. CASE PlayerStays
    BY <2>1, <2>2, <2>3 DEF PlayerStays, Noted
  <2>4. CASE UpdatePlayerState /\ Noted
    <3>1. ~PlayTold'
      BY <2>4, NoteAnswered
    <3>2. Noted' \/ m_PlayerState' \in {"Paused", "Stopped"}
      BY <1>1, <2>4 DEF UpdatePlayerState, Noted
    <3>3. QED
      BY <2>2, <3>1, <3>2
  <2>5. CASE UpdatePlayerState /\ ~Noted
    <3>1. talk[0] = msg /\ 0 \in News /\ msg.type = "STATE"
      BY <1>1, <2>5, HandledHead
    <3>2. msg.new # "PLAYING"
      BY <2>1, <2>5, <3>1 DEF PlayTold, TellsPlay
    <3>3. m_PlayerState' = m_PlayerState
      BY <2>1, <2>5, <3>2 DEF UpdatePlayerState, NewPlayerState, NothingAsked,
         Noted
    <3>4. QED
      BY <2>1, <2>2, <2>5, <3>3
  <2>6. CASE PauseMark("app")
    BY <2>1, <2>2, <2>6 DEF PauseMark, Noted
  <2>7. CASE StopMark("app")
    BY <2>2, <2>7 DEF StopMark, Noted
  <2>8. QED
    BY <1>1, <2>2, <2>3, <2>4, <2>5, <2>6, <2>7, PlayerMoves
<1>3. CASE ~Hushed
  <2>0. m_fRate # 0 /\ pc["app"] # "rateStore"
    BY <1>3 DEF Hushed
  <2>1. ASSUME gst' = gst, pc'["bus"] = pc["bus"], UNCHANGED <<messages, msg>>, ~PlayAhead
        PROVE  gst'.target # "PLAYING" /\ ~PlayTold'
    <3>1. talk' = talk /\ News' = News
      BY <2>1 DEF talk, News
    <3>2. QED
      BY <1>1, <2>1, <3>1, NotPlayAhead DEF PlayTold
  <2>2. CASE PauseTest("app")
    <3>1. pc'["app"] \notin Pausing \/ pc'["app"] = "rateStore"
      BY <2>0, <2>2 DEF Hushed, PauseTest, rate
    <3>2. m_PlayerState = "Paused"
      BY <1>1, <2>2, <3>1
         DEF PauseTest, Goto, Return, ThreadType, Threads, Pausing
    <3>3. ~PlayAhead
      BY <1>1, <2>2, <3>2 DEF PauseTest, Cross
    <3>4. /\ gst' = gst /\ pc'["bus"] = pc["bus"] /\ UNCHANGED <<messages, msg>>
          /\ m_PlayerState' = m_PlayerState
      BY <1>1, <2>2
         DEF PauseTest, Goto, Return, ThreadType, Threads, KeepStream, player
    <3>5. QED
      BY <2>1, <3>2, <3>3, <3>4
  <2>3. CASE PauseMark("app")
    <3>1. CASE m_PlayerState \in {"Stopped", "Stalled"}
      <4>1. ~PlayAhead
        BY <1>1, <2>3, <3>1 DEF PauseMark, Cross
      <4>2. /\ gst' = gst /\ pc'["bus"] = pc["bus"] /\ UNCHANGED <<messages, msg>>
            /\ m_PlayerState' = "Paused"
        BY <1>1, <2>3, <3>1
           DEF PauseMark, Return, ThreadType, Threads, KeepStream
      <4>3. QED
        BY <2>1, <4>1, <4>2
    <3>2. CASE m_PlayerState \notin {"Stopped", "Stalled"}
      <4>1. pc'["app"] = "internalPause" /\ m_fRate' = m_fRate
        BY <1>1, <2>3, <3>2 DEF PauseMark, Goto, ThreadType, Threads, rate
      <4>2. QED
        BY <2>0, <4>1 DEF Hushed, Pausing
    <3>3. QED
      BY <3>1, <3>2
  <2>4. CASE StopTest("app")
    <3>1. pc'["app"] \notin Pausing \/ pc'["app"] = "rateStore"
      BY <2>0, <2>4 DEF Hushed, StopTest
    <3>2. m_PlayerState = "Stopped"
      BY <1>1, <2>0, <2>4, <3>1
         DEF StopTest, Goto, Return, ThreadType, Threads, Pausing
    <3>3. ~PlayAhead
      BY <1>1, <2>4, <3>2 DEF StopTest, Cross
    <3>4. /\ gst' = gst /\ pc'["bus"] = pc["bus"] /\ UNCHANGED <<messages, msg>>
          /\ m_PlayerState' = m_PlayerState
      BY <1>1, <2>4
         DEF StopTest, Goto, Return, ThreadType, Threads, KeepStream, player
    <3>5. QED
      BY <2>1, <3>2, <3>3, <3>4
  <2>5. CASE InternalPause("app")
    <3>1. Noted
      BY <1>1, <2>5 DEF InternalPause, NoteHeld, AppPauses
    <3>2. pc'["app"] = "setPaused" /\ m_fRate' = m_fRate
      BY <1>1, <2>0, <2>5, <3>1
         DEF InternalPause, Goto, Cross, ThreadType, Threads, NothingAsked, Noted
    <3>3. QED
      BY <2>0, <3>2 DEF Hushed, Pausing
  <2>6. CASE SetPaused("app")
    <3>1. Noted /\ Noted'
      BY <1>1, <2>6 DEF SetPaused, NoteHeld, AppPauses, Noted, player
    <3>2. gst'.target = "PAUSED"
      BY <2>6, GoingSuspends DEF Suspends, Threads
    <3>3. QED
      BY <3>1, <3>2
  <2>7. QED
    BY <1>3, <2>2, <2>3, <2>4, <2>5, <2>6, HushedNew
<1>4. QED
  BY <1>2, <1>3

LEMMA NoStartKept ==
  ASSUME Going
  PROVE  NoStart'
<1>1. /\ PlayerType /\ ThreadType /\ Control /\ NoStart /\ CallSteps /\ NoteHeld
      /\ ~TornDown /\ ~PauseFails("app") /\ crossed' \subseteq {"stall", "finish"}
      /\ [Next]_vars
  BY DEF Going, Soft, Threads
<1>2. CASE ThreadStep("app")
  <2>1. CASE Play("app")
    BY <1>1, <1>2, <2>1 DEF Play, Goto, Return, Cross, KeepRest, KeepStream,
       NoStart, AppPauses, Pausing, CallSteps, InSeek, ThreadType, Threads,
       Control, player, rate, buffer, source, count, threads
  <2>2. CASE SetPlaying("app")
    BY <1>1, <1>2, <2>2 DEF SetPlaying, Return, NoStart, AppPauses, Pausing,
       CallSteps,
       InSeek, ThreadType, Threads, Control, player, rate, count
  <2>3. CASE PauseTest("app")
    BY <1>1, <1>2, <2>3 DEF PauseTest, Goto, Return, Cross, KeepRest,
       KeepStream, NoStart, AppPauses, Pausing, CallSteps, InSeek, ThreadType,
       Threads, Control, player, rate, buffer, source, count, threads
  <2>4. CASE PauseMark("app")
    BY <1>1, <1>2, <2>4 DEF PauseMark, Goto, Return, Cross, KeepRest,
       KeepStream, NoStart, AppPauses, Pausing, CallSteps, InSeek, ThreadType,
       Threads, Control, player, rate, buffer, source, count, threads
  <2>5. CASE StopTest("app")
    BY <1>1, <1>2, <2>5 DEF StopTest, Goto, Return, Cross, KeepRest,
       KeepStream, NoStart, AppPauses, Pausing, CallSteps, InSeek, ThreadType,
       Threads, Control, player, rate, buffer, source, count, threads
  <2>6. CASE StopMark("app")
    BY <1>1, <1>2, <2>6 DEF StopMark, Goto, Cross, KeepRest, KeepStream,
       NoStart, AppPauses, Pausing, CallSteps, InSeek, ThreadType, Threads,
       Control, player, rate, buffer, source, count, threads
  <2>7. CASE FinishTest("app")
    BY <1>1, <1>2, <2>7 DEF FinishTest, Goto, Return, KeepMedia, KeepRest,
       KeepStream, NoStart, AppPauses, Pausing, CallSteps, InSeek, ThreadType,
       Threads, Control, player, rate, buffer, source, count, threads
  <2>8. CASE InternalPause("app")
    <3>1. Noted
      BY <1>1, <2>8 DEF InternalPause, NoteHeld, AppPauses
    <3>2. pc'["app"] = "setPaused" \/ m_fRate' = 0
      BY <1>1, <2>8, <3>1
         DEF InternalPause, Goto, Cross, ThreadType, Threads, NothingAsked, Noted
    <3>3. QED
      BY <1>1, <2>8, <3>2
         DEF InternalPause, Goto, Return, KeepRest, count, NoStart, AppPauses,
             CallSteps, InSeek, Pausing, ThreadType, Threads, Control
  <2>9. CASE SetPaused("app")
    BY <1>1, <1>2, <2>9 DEF SetPaused, Return, Cross, NoStart, AppPauses,
       Pausing, CallSteps, InSeek, ThreadType, Threads, Control, player, rate,
       buffer, source, count, threads
  <2>10. CASE SeekTest("app")
    BY <1>1, <1>2, <2>10 DEF SeekTest, Goto, Return, KeepMedia, KeepRest,
       KeepStream, NoStart, AppPauses, Pausing, CallSteps, InSeek, ThreadType,
       Threads, Control, player, rate, buffer, source, count, threads
  <2>11. CASE SeekPipeline("app")
    <3>1. /\ UNCHANGED <<m_PlayerState, m_PlayerPendingState, m_fRate>>
          /\ pc["app"] = "seekPipeline"
          /\ pc'["app"] = "seekResume" \/ pc'["app"] = then["app"]
          /\ asked' = IF m_PlayerState = "Finished" /\ asked # "stop" THEN "seek"
                      ELSE asked
      BY <1>1, <2>11 DEF SeekPipeline, Goto, Return, ThreadType, Threads,
         player, rate
    <3>2. QED
      BY <1>1, <3>1 DEF NoStart, AppPauses, Pausing, CallSteps, Control
  <2>12. CASE SeekResume("app")
    BY <1>1, <1>2, <2>12 DEF SeekResume, Goto, Return, KeepMedia, KeepRest,
       KeepStream, NoStart, AppPauses, Pausing, CallSteps, InSeek, ThreadType,
       Threads, Control, player, rate, buffer, source, count, threads
  <2>13. CASE RateZero("app")
    BY <1>1, <1>2, <2>13 DEF RateZero, Enter, Return, KeepMedia, KeepRest,
       KeepStream, NoStart, AppPauses, Pausing, CallSteps, InSeek, ThreadType,
       Threads, Control, player, rate, buffer, source, count, threads
  <2>14. CASE RateStore("app")
    BY <1>1, <1>2, <2>14 DEF RateStore, Return, KeepMedia, KeepRest,
       KeepStream, NoStart, AppPauses, Pausing, CallSteps, InSeek, ThreadType,
       Threads, Control, player, rate, buffer, source, count, threads
  <2>15. CASE RateSeek("app")
    BY <1>1, <1>2, <2>15 DEF RateSeek, Return, KeepMedia, KeepRest,
       KeepStream, FlushingSeek, NoStart, AppPauses, Pausing, CallSteps,
       InSeek, ThreadType, Threads, Control, player, rate, buffer, source,
       count, threads
  <2>16. CASE PauseFails("app")
    BY <1>1, <2>16
  <2>17. QED
    BY <1>1, <1>2, <2>1, <2>2, <2>3, <2>4, <2>5, <2>6, <2>7, <2>8, <2>9,
       <2>10, <2>11, <2>12, <2>13, <2>14, <2>15, <2>16 DEF ThreadStep
<1>3. CASE AppStays
  <2>1. CASE PlayerStays
    BY <1>1, <1>3, <2>1 DEF AppStays, PlayerStays, NoStart, AppPauses
  <2>2. CASE UpdatePlayerState
    <3>1. ~AppPauses'
      BY <2>2, NoteHeldGoes, NoteAnswered, <1>1, <1>3
         DEF NoteHeld, AppStays, AppPauses
    <3>2. ASSUME asked \in {"pause", "stop"}, pc["app"] \notin Pausing,
                 m_PlayerState' = "Finished"
          PROVE  /\ m_PlayerState = "Finished"
                 /\ m_PlayerPendingState' = m_PlayerPendingState
      <4>1. Noted \/ m_PlayerState \in {"Paused", "Stopped"}
        BY <3>2 DEF Going, Hush, Hushed
      <4>2. m_PlayerState = "Finished"
        BY <2>2, <3>2, <4>1
           DEF UpdatePlayerState, NewPlayerState, PauseMeans, NothingAsked, Noted
      <4>3. QED
        BY <2>2, <3>2, <4>2 DEF UpdatePlayerState
    <3>3. QED
      BY <1>1, <1>3, <3>1, <3>2 DEF AppStays, NoStart, AppPauses, Pausing
  <2>3. CASE HandleEOS
    <3>1. ~(asked \in {"pause", "stop"} /\ pc["app"] \notin Pausing)
      BY <2>3, HushedEnds DEF Hushed
    <3>2. m_PlayerPendingState' = m_PlayerPendingState
      BY <2>3 DEF HandleEOS
    <3>3. QED
      BY <1>1, <1>3, <3>1, <3>2 DEF AppStays, NoStart, AppPauses, Pausing
  <2>4. CASE PauseMark("app") \/ StopMark("app")
    BY <1>2, <2>4 DEF ThreadStep
  <2>5. QED
    BY <1>1, <2>1, <2>2, <2>3, <2>4, PlayerMoves
<1>4. CASE StopTimeReached
  BY <1>4 DEF StopTimeReached, NoStart
<1>5. ASSUME NEW c \in Calls \ {"finish"}, Call(c) PROVE NoStart'
  <2>1. /\ pc["app"] = "idle" /\ m_fRate' = m_fRate
        /\ asked' = (IF c = "seek" THEN asked ELSE c) /\ pc'["app"] = FirstStep(c)
        /\ UNCHANGED <<m_PlayerState, m_PlayerPendingState>>
    BY <1>1, <1>5 DEF Call, Enter, rate, player, ThreadType, Threads
  <2>2. /\ FirstStep(c) \in {"play", "pauseTest", "stopTest", "seekTest", "rateZero",
                             "rateSeek"}
        /\ c \in {"pause", "stop"} => FirstStep(c) \in Pausing
    BY <1>5, CallsAssumption DEF FirstStep, Pausing
  <2>3. QED
    BY <1>1, <2>1, <2>2 DEF NoStart, AppPauses, Pausing
<1>6. QED
  BY <1>1, <1>2, <1>3, <1>4, <1>5, AppMoves

\* The facts a step of a living player starts from.
LEMMA GoesOn ==
  ASSUME PlayerType, FlagType, StreamType, MessageType, MessageType', ThreadType,
         CountType, Control, Changing, Changing', BusIdle, Errors, CallSteps,
         CallSteps', StallStep, Aim, PauseStory, [Next]_vars, Soft', ~Broken'
  PROVE  Going
<1>1. Plain' /\ Plain /\ Soft /\ ~Broken
  BY CalmBefore, BrokenKept DEF Soft
<1>2. Target /\ LastNews /\ NoteHeld /\ PauseNoted /\ Hush /\ NoStart
  BY <1>1 DEF PauseStory
<1>3. m_PlayerState # "Error" /\ gst.state # "NULL"
  BY <1>1 DEF Broken, Errors
<1>4. ~TornDown /\ ~\E u \in Threads : PauseFails(u)
  BY FailureBreaks DEF TornDown, Broken
<1>5. QED
  BY <1>1, <1>2, <1>3, <1>4 DEF Going

LEMMA PauseStoryKept ==
  ASSUME Soft' /\ ~Broken' => Going
  PROVE  PauseStory'
  BY LastNewsKept, NoteHeldGoes, PauseNotedKept, HushKept, NoStartKept
     DEF PauseStory

-----------------------------------------------------------------------------
(* A play is kept.                                                         *)

\* The player lives, and nothing has crossed.
Certain ==
    /\ Going /\ Stalling /\ Pure /\ Pure'
    /\ Birth /\ LastTells /\ Chain /\ Repeats /\ Preroll /\ Notes
    /\ PauseComes /\ SeekComes /\ NotePauses /\ NotePlays /\ StartsLast
    /\ PlayIsLast /\ PrerollPlays /\ Reasoned /\ PlayWins

LEMMA FirstTold ==
  ASSUME MessageType
  PROVE  ~First(talk, After) <=> Told
<1>1. After - 1 = Len(messages)
  BY TalkTypes
<1>2. QED
  BY <1>1 DEF First, Told, News

\* A note is answered by the message it waits for.
LEMMA NoteCleared ==
  ASSUME Certain, UpdatePlayerState, Noted
  PROVE  /\ ~Noted' /\ m_PlayerState' \in {"Paused", "Stopped"}
         /\ ~Told' /\ gst' = gst /\ ~Doomed
<1>1. /\ PlayerType /\ MessageType /\ Control /\ Plain' /\ Target
      /\ PauseNoted /\ crossed' = {} /\ gst.state # "NULL"
  BY DEF Certain, Going, Pure
<1>2. /\ Birth /\ LastTells /\ Chain /\ Repeats /\ Notes /\ PauseComes /\ NotePauses
  BY DEF Certain
<1>3. Going
  BY DEF Certain
<1>4. /\ ~AppPauses /\ gst.pending = "VOID" /\ gst' = gst /\ ~TwoTell /\ ~Told'
      /\ msg.new = gst.state
  BY <1>3, NoteAnswered
<1>5. ~Doomed
  BY <1>4 DEF Doomed
<1>6. gst.target # "PLAYING" /\ gst.state = "PAUSED"
  BY <1>1, <1>2, <1>4, <1>5 DEF NotePauses, Target
<1>7. CASE m_PlayerPendingState = "Stopped"
  <2>1. m_PlayerState' = "Stopped" /\ m_PlayerPendingState' = "Unknown"
    BY <1>1, <1>2, <1>7, StopAnswered
  <2>2. QED
    BY <1>4, <1>5, <2>1 DEF Noted
<1>8. CASE m_PlayerPendingState = "Paused"
  <2>1. m_PlayerState # "Finished"
    BY <1>1, <1>4, <1>6, <1>8 DEF UpdatePlayerState, Misread
  <2>2. m_PlayerState = "Playing"
    BY <1>1, <1>8, <2>1 DEF PauseNoted
  <2>3. msg.new = "PAUSED" /\ msg.old \in {"PLAYING", "PAUSED"}
    BY <1>1, <1>2, <1>4, <1>6, <2>2, HeardChange
  <2>4. NewPlayerState = "Paused"
    BY <1>8, <2>2, <2>3 DEF NewPlayerState, PauseMeans
  <2>5. m_PlayerState' = "Paused" /\ m_PlayerPendingState' = "Unknown"
    BY <1>8, <2>2, <2>4 DEF UpdatePlayerState
  <2>6. QED
    BY <1>4, <1>5, <2>5 DEF Noted
<1>9. QED
  BY <1>7, <1>8 DEF Noted

\* What can become of a note.
LEMMA NoteSteps ==
  ASSUME Certain
  PROVE  \/ m_PlayerPendingState' = m_PlayerPendingState
         \/ UpdatePlayerState /\ Noted
         \/ /\ PauseMark("app") \/ StopMark("app")
            /\ pc'["app"] = "internalPause" /\ m_PlayerState' = m_PlayerState
            /\ PauseMark("app") => m_PlayerPendingState' = "Paused"
            /\ StopMark("app") => m_PlayerPendingState' = "Stopped"
<1>1. /\ PlayerType /\ ThreadType /\ Control /\ [Next]_vars /\ ~TornDown
      /\ ~PauseFails("app")
  BY DEF Certain, Going, Threads
<1>2. CASE UpdatePlayerState /\ ~Noted
  BY <1>1, <1>2 DEF UpdatePlayerState, Noted, PlayerType
<1>3. CASE HandleEOS
  BY <1>3 DEF HandleEOS
<1>4. CASE PauseMark("app")
  BY <1>1, <1>4 DEF PauseMark, StopMark, Goto, ThreadType, Threads
<1>5. CASE StopMark("app")
  BY <1>1, <1>5 DEF PauseMark, StopMark, Goto, ThreadType, Threads
<1>6. QED
  BY <1>1, <1>2, <1>3, <1>4, <1>5, PlayerMoves DEF PlayerStays

\* Nothing is heard while a note is there, except its answer, and only the
\* application starts the pipeline then.
LEMMA NotedMoves ==
  ASSUME Certain, Noted, ~UpdatePlayerState
  PROVE  \/ Holds \/ Completes \/ Prerolls
         \/ Starts("app") /\ gst.pending = "VOID"
         \/ \E u \in Threads : Suspends(u)
<1>1. /\ MessageType /\ Control /\ gst.state # "NULL" /\ crossed' = {} /\ Chain
      /\ Going
  BY DEF Certain, Going, Pure
<1>2. ~Hears
  <2>1. ASSUME HandleStateChanged, ~Concerns PROVE FALSE
    <3>1. <<msg.old, msg.new>> \in Changes
      BY <1>1, <2>1, HandledHead DEF Chain
    <3>2. m_PlayerState # "Unknown"
      BY <1>1 DEF Control
    <3>3. QED
      BY <2>1, <3>1, <3>2 DEF Concerns, NothingAsked, Noted, Changes
  <2>2. QED
    BY <2>1 DEF Hears, Handled
<1>3. ASSUME NEW u \in Threads, Starts(u) PROVE Starts("app") /\ gst.pending = "VOID"
  <2>1. u # "bus"
    BY <1>1, <1>3 DEF Starts, SetPlaying, Cross, NothingAsked, Noted
  <2>2. u # "pulse"
    BY <1>1, <1>3 DEF Starts, SetPlaying, Control
  <2>3. gst.pending = "VOID"
    BY <1>1, <1>3, <2>1 DEF Starts, SetPlaying, Cross, NothingAsked, Noted
  <2>4. QED
    BY <1>3, <2>1, <2>2, <2>3 DEF Threads
<1>4. QED
  BY <1>1, <1>2, <1>3, Moves DEF Wakes

LEMMA AnsweredStays ==
  ASSUME Certain, Noted, ~UpdatePlayerState, Answered
  PROVE  Answered'
<1>1. /\ MessageType /\ MessageType' /\ Target
      /\ gst.target \in {"PAUSED", "PLAYING"}
  BY DEF Certain, Going, Changing
<1>2. (Told <=> ~First(talk, After)) /\ (Told' <=> ~First(talk, After)')
  <2>1. ~First(talk, After) <=> Told
    BY <1>1, FirstTold
  <2>2. ~First(talk', After') <=> Told'
    <3>1. After' - 1 = Len(messages')
      BY <1>1, TalkTypes DEF MessageType, After
    <3>2. QED
      BY <3>1 DEF First, Told, News
  <2>3. QED
    BY <2>1, <2>2
<1>3. \/ gst.pending # "VOID" /\ gst.target = "PAUSED"
      \/ TwoTell
      \/ gst.pending = "VOID" /\ gst.state = "PAUSED" /\ Told
  BY <1>2 DEF Answered
<1>4. SUFFICES \/ gst'.pending # "VOID" /\ gst'.target = "PAUSED"
               \/ TwoTell'
               \/ gst'.pending = "VOID" /\ gst'.state = "PAUSED" /\ Told'
  BY <1>2 DEF Answered
<1>5. CASE Holds
  BY <1>3, <1>5 DEF Holds, NewsSame
<1>6. CASE Completes
  BY <1>3, <1>6 DEF Completes, NewsAdds
<1>7. CASE Prerolls
  BY <1>1, <1>3, <1>7 DEF Prerolls, NewsSame, Target
<1>8. CASE Starts("app") /\ gst.pending = "VOID"
  BY <1>3, <1>8 DEF Starts, NewsSame, NewsAdds
<1>9. ASSUME NEW u \in Threads, Suspends(u)
      PROVE  \/ gst'.pending # "VOID" /\ gst'.target = "PAUSED"
             \/ TwoTell'
             \/ gst'.pending = "VOID" /\ gst'.state = "PAUSED" /\ Told'
  BY <1>3, <1>9 DEF Suspends, NewsSame, NewsAdds
<1>10. QED
  BY <1>5, <1>6, <1>7, <1>8, <1>9, NotedMoves

LEMMA DoomedStays ==
  ASSUME Certain, Noted, ~UpdatePlayerState, Doomed
  PROVE  Doomed'
<1>1. CASE Holds
  BY <1>1 DEF Holds, NewsSame, Doomed
<1>2. CASE Completes
  BY <1>2 DEF Completes, NewsAdds, Doomed
<1>3. CASE Prerolls
  BY <1>3 DEF Prerolls, NewsSame, Doomed
<1>4. CASE Starts("app") /\ gst.pending = "VOID"
  BY <1>4 DEF Starts, NewsSame, NewsAdds, Doomed
<1>5. ASSUME NEW u \in Threads, Suspends(u) PROVE Doomed'
  BY <1>5 DEF Suspends, NewsSame, NewsAdds, Doomed
<1>6. QED
  BY <1>1, <1>2, <1>3, <1>4, <1>5, NotedMoves

\* Only the pipeline that plays is suspended without a note.
LEMMA SuspendsPlaying ==
  ASSUME Certain, ~Noted, NEW u \in Threads, Suspends(u)
  PROVE  IsPlaying
<1>1. /\ NoteHeld /\ crossed' = {} /\ gst.state # "NULL"
  BY DEF Certain, Going, Pure
<1>2. u # "app"
  BY <1>1 DEF Suspends, SetPaused, NoteHeld, AppPauses
<1>3. QED
  BY <1>1, <1>2 DEF Suspends, SetPaused, Cross, Threads

\* How a player comes to its end.
LEMMA Finishes ==
  ASSUME Certain, m_PlayerState # "Finished", m_PlayerState' = "Finished"
  PROVE  /\ ~Noted
         /\ \/ HandleEOS /\ IsPlaying /\ gst' = gst
            \/ UpdatePlayerState /\ ~m_StallOnPause
<1>1. /\ PlayerType /\ ThreadType /\ Control /\ [Next]_vars /\ ~TornDown
      /\ ~PauseFails("app") /\ crossed' = {}
  BY DEF Certain, Going, Pure, Threads
<1>2. CASE HandleEOS
  BY <1>1, <1>2 DEF HandleEOS, Cross, NothingAsked, Noted, KeepStream
<1>3. CASE UpdatePlayerState
  <2>1. ~Noted
    BY <1>3, NoteCleared
  <2>2. QED
    BY <1>1, <1>3, <2>1
       DEF UpdatePlayerState, NewPlayerState, PauseMeans, NothingAsked, Noted
<1>4. QED
  BY <1>1, <1>2, <1>3, PlayerMoves DEF PlayerStays, PauseMark, StopMark

\* Who leaves a note pauses.
LEMMA PauseLeaves ==
  ASSUME Certain, AppPauses, ~AppPauses'
  PROVE  Suspends("app") \/ (m_fRate = 0 /\ InternalPause("app") /\ Holds)

<1>1. /\ ThreadType /\ Control /\ [Next]_vars /\ ~PauseFails("app") /\ crossed' = {}
      /\ NoteHeld /\ Going /\ Certain /\ AppPauses /\ ~AppPauses'
  BY DEF Certain, Going, Pure, Threads
<1>2. CASE ThreadStep("app")
  <2>1. CASE Play("app")
    BY <1>1, <1>2, <2>1 DEF Play, Goto, Return, Cross, KeepRest, KeepStream,
       AppPauses, ThreadType, Threads, player, rate, buffer, source, count,
       threads
  <2>2. CASE SetPlaying("app")
    BY <1>1, <1>2, <2>2 DEF SetPlaying, Return, Cross, AppPauses, ThreadType,
       Threads, player, rate, buffer, source, count, threads
  <2>3. CASE PauseTest("app")
    BY <1>1, <1>2, <2>3 DEF PauseTest, Goto, Return, Cross, KeepRest,
       KeepStream, AppPauses, ThreadType, Threads, player, rate, buffer,
       source, count, threads
  <2>4. CASE PauseMark("app")
    BY <1>1, <1>2, <2>4 DEF PauseMark, Goto, Return, Cross, KeepRest,
       KeepStream, AppPauses, ThreadType, Threads, player, rate, buffer,
       source, count, threads
  <2>5. CASE StopTest("app")
    BY <1>1, <1>2, <2>5 DEF StopTest, Goto, Return, Cross, KeepRest,
       KeepStream, AppPauses, ThreadType, Threads, player, rate, buffer,
       source, count, threads
  <2>6. CASE StopMark("app")
    BY <1>1, <1>2, <2>6 DEF StopMark, Goto, Cross, KeepRest, KeepStream,
       AppPauses, ThreadType, Threads, player, rate, buffer, source, count,
       threads
  <2>7. CASE FinishTest("app")
    BY <1>1, <1>2, <2>7 DEF FinishTest, Goto, Return, KeepMedia, KeepRest,
       KeepStream, AppPauses, ThreadType, Threads, player, rate, buffer,
       source, count, threads
  <2>8. CASE InternalPause("app")
    <3>1. Noted
      BY <1>1 DEF NoteHeld
    <3>2. m_fRate = 0
      BY <1>1, <2>8, <3>1
         DEF InternalPause, Goto, Cross, ThreadType, Threads, NothingAsked, Noted,
             AppPauses
    <3>3. ~UpdatePlayerState /\ ~AsyncDone /\ ~SeekPipeline("app") /\ ~RateSeek("app")
          /\ \A u \in Threads : ~SetPlaying(u) /\ ~SetPaused(u)
      <4>1. m_bSeekInvoked' = FALSE /\ gst' = gst
        BY <2>8 DEF InternalPause, KeepStream
      <4>2. pc' # pc /\ pc'["app"] # pc["app"]
        BY <1>1, <1>2 DEF AppPauses
      <4>3. ASSUME NEW u \in Threads, SetPlaying(u) \/ SetPaused(u) PROVE FALSE
        BY <1>1, <2>8, <4>2, <4>3
           DEF SetPlaying, SetPaused, InternalPause, Return, ThreadType, Threads
      <4>4. QED
        BY <1>1, <2>8, <4>1, <4>2, <4>3
           DEF UpdatePlayerState, AsyncDone, Goto, SeekPipeline, RateSeek, threads,
               ThreadType, Threads, InternalPause
    <3>4. Holds
      <4>1. \A u \in Threads : ~Starts(u) /\ ~Suspends(u)
        BY <3>3 DEF Starts, Suspends
      <4>2. QED
        BY <1>1, <3>1, <3>3, <4>1, NotedMoves DEF Completes, Prerolls, Threads
    <3>5. QED
      BY <2>8, <3>2, <3>4
  <2>9. CASE SetPaused("app")
    BY <1>1, <2>9, GoingSuspends DEF Threads
  <2>10. CASE SeekTest("app")
    BY <1>1, <1>2, <2>10 DEF SeekTest, Goto, Return, KeepMedia, KeepRest,
       KeepStream, AppPauses, ThreadType, Threads, player, rate, buffer,
       source, count, threads
  <2>11. CASE SeekPipeline("app")
    BY <1>1, <1>2, <2>11 DEF SeekPipeline, Goto, Return, KeepStream,
       FlushingSeek, AppPauses, ThreadType, Threads, player, rate, buffer,
       source, count, threads
  <2>12. CASE SeekResume("app")
    BY <1>1, <1>2, <2>12 DEF SeekResume, Goto, Return, KeepMedia, KeepRest,
       KeepStream, AppPauses, ThreadType, Threads, player, rate, buffer,
       source, count, threads
  <2>13. CASE RateZero("app")
    BY <1>1, <1>2, <2>13 DEF RateZero, Enter, Return, KeepMedia, KeepRest,
       KeepStream, AppPauses, ThreadType, Threads, player, rate, buffer,
       source, count, threads
  <2>14. CASE RateStore("app")
    BY <1>1, <1>2, <2>14 DEF RateStore, Return, KeepMedia, KeepRest,
       KeepStream, AppPauses, ThreadType, Threads, player, rate, buffer,
       source, count, threads
  <2>15. CASE RateSeek("app")
    BY <1>1, <1>2, <2>15 DEF RateSeek, Return, KeepMedia, KeepRest,
       KeepStream, FlushingSeek, AppPauses, ThreadType, Threads, player, rate,
       buffer, source, count, threads
  <2>16. CASE PauseFails("app")
    BY <1>1, <2>16
  <2>17. QED
    BY <1>1, <1>2, <2>1, <2>2, <2>3, <2>4, <2>5, <2>6, <2>7, <2>8, <2>9,
       <2>10, <2>11, <2>12, <2>13, <2>14, <2>15, <2>16 DEF ThreadStep
<1>3. ~AppStays
  BY DEF AppStays, AppPauses
<1>4. ~StopTimeReached
  BY <1>1 DEF StopTimeReached, Goto, ThreadType, Threads, AppPauses
<1>5. ~\E c \in Calls \ {"finish"} : Call(c)
  BY DEF Call, AppPauses
<1>6. QED
  BY <1>1, <1>2, <1>3, <1>4, <1>5, AppMoves

LEMMA PauseComesKept ==
  ASSUME Certain
  PROVE  PauseComes'
<1>1. /\ PlayerType /\ ThreadType /\ Control /\ MessageType /\ MessageType'
      /\ [Next]_vars /\ ~TornDown /\ ~PauseFails("app") /\ crossed' = {}
      /\ PauseNoted /\ Hush /\ LastTells /\ Notes /\ PauseComes /\ Going
      /\ PauseNoted'
  BY PauseNotedKept DEF Certain, Going, Pure, Threads
<1> SUFFICES ASSUME m_PlayerPendingState' = "Paused", m_PlayerState' # "Finished",
                    ~AppPauses' \/ m_fRate' = 0
             PROVE  Answered'
  BY DEF PauseComes
<1>2. m_PlayerState' = "Playing" /\ Noted'
  BY <1>1 DEF PauseNoted, Noted
<1>3. CASE UpdatePlayerState /\ Noted
  BY <1>2, <1>3, NoteCleared
<1>4. CASE PauseMark("app") /\ pc'["app"] = "internalPause"
           /\ m_PlayerState' = m_PlayerState
  <2>1. m_fRate = 0 /\ ~AppPauses /\ ~Seeking /\ ~UpdatePlayerState
    BY <1>1, <1>4
       DEF AppPauses, Seeking, PauseMark, UpdatePlayerState, Goto, rate, ThreadType,
           Threads
  <2>2. Noted
    BY <1>1, <1>2, <1>4, <2>1 DEF Hush, Hushed
  <2>3. Answered
    BY <1>1, <1>2, <1>4, <2>1, <2>2 DEF Noted, PauseComes, Notes, AnswerComes
  <2>4. QED
    BY <2>1, <2>2, <2>3, AnsweredStays
<1>5. CASE m_PlayerPendingState' = m_PlayerPendingState
           /\ ~(UpdatePlayerState /\ Noted)
  <2>1. Noted /\ ~UpdatePlayerState
    BY <1>5 DEF Noted
  <2>2. m_PlayerState = "Playing"
    <3>1. ~HandleEOS
      BY DEF HandleEOS
    <3>2. m_PlayerState' = m_PlayerState
      BY <1>1, <1>2, <2>1, <3>1, PlayerMoves DEF PlayerStays, PauseMark,
         StopMark
    <3>3. QED
      BY <1>2, <3>2
  <2>3. CASE ~AppPauses \/ m_fRate = 0
    BY <1>1, <1>5, <2>1, <2>2, <2>3, AnsweredStays DEF PauseComes
  <2>4. CASE AppPauses /\ m_fRate # 0
    <3>1. m_fRate' # 0
      <4>1. CASE AppStays
        BY <2>4, <4>1 DEF AppStays
      <4>2. CASE ThreadStep("app")
        BY <2>4, <4>2
           DEF ThreadStep, AppPauses, InternalPause, SetPaused, PauseFails, rate,
               Play, SetPlaying, PauseTest, PauseMark, StopTest, StopMark,
               FinishTest, SeekTest, SeekPipeline, SeekResume, RateZero,
               RateStore, RateSeek
      <4>3. CASE StopTimeReached
        BY <2>4, <4>3 DEF StopTimeReached, rate
      <4>4. ~\E c \in Calls \ {"finish"} : Call(c)
        BY <2>4 DEF Call, AppPauses
      <4>5. QED
        BY <1>1, <4>1, <4>2, <4>3, <4>4, AppMoves
    <3>2. Suspends("app")
      BY <2>4, <3>1, PauseLeaves
    <3>3. gst.pending = "VOID" /\ gst.state = "PAUSED" => Told
      <4>1. ~Fits("Playing", "PAUSED")
        BY DEF Fits
      <4>2. QED
        BY <1>1, <2>2, <4>1, FirstTold DEF LastTells, Believed
    <3>4. Told' => ~First(talk', After')
      <4>1. After' - 1 = Len(messages')
        BY <1>1 DEF MessageType, After
      <4>2. QED
        BY <4>1 DEF First, Told, News
    <3>5. QED
      BY <3>2, <3>3, <3>4 DEF Suspends, NewsSame, NewsAdds, Answered
  <2>5. QED
    BY <2>3, <2>4
<1>6. QED
  BY <1>3, <1>4, <1>5, NoteSteps

LEMMA SeekComesKept ==
  ASSUME Certain
  PROVE  SeekComes'
<1>1. /\ PlayerType /\ ThreadType /\ Control /\ [Next]_vars /\ ~PauseFails("app")
      /\ crossed' = {} /\ SeekComes /\ Going /\ StreamType
  BY DEF Certain, Going, Pure, Threads
<1> SUFFICES ASSUME pc'["app"] \in {"seekResume", "setPlaying"}, Noted',
                    m_PlayerState' = "Finished"
             PROVE  Told' \/ gst'.pending # "VOID"
  BY DEF SeekComes
<1>2. Noted /\ ~UpdatePlayerState /\ m_PlayerState = "Finished"
  <2>1. ~(UpdatePlayerState /\ Noted)
    BY NoteCleared
  <2>2. Noted
    BY <2>1, NoteSteps DEF Noted
  <2>3. QED
    BY <2>1, <2>2, Finishes
<1>3. ASSUME Told \/ gst.pending # "VOID"
      PROVE  Told' \/ gst'.pending # "VOID"
  <2>1. CASE Holds
    BY <1>3, <2>1 DEF Holds, NewsSame
  <2>2. CASE Completes
    BY <2>2 DEF Completes, NewsAdds
  <2>3. CASE Prerolls
    BY <2>3 DEF Prerolls
  <2>4. CASE Starts("app") /\ gst.pending = "VOID"
    BY <1>3, <2>4 DEF Starts, NewsSame, NewsAdds
  <2>5. ASSUME NEW u \in Threads, Suspends(u) PROVE Told' \/ gst'.pending # "VOID"
    BY <1>3, <2>5 DEF Suspends, NewsSame, NewsAdds
  <2>6. QED
    BY <1>2, <2>1, <2>2, <2>3, <2>4, <2>5, NotedMoves
<1>4. CASE SeekPipeline("app")
  <2>1. FlushingSeek
    BY <1>1, <1>4 DEF SeekPipeline, Return, ThreadType, Threads, Control
  <2>2. gst'.pending # "VOID"
    BY <1>1, <2>1, GstFields DEF FlushingSeek, StreamType
  <2>3. QED
    BY <2>2
<1>5. CASE pc["app"] \in {"seekResume", "setPlaying"}
  BY <1>1, <1>2, <1>3, <1>5 DEF SeekComes
<1>6. CASE ~SeekPipeline("app") /\ pc["app"] \notin {"seekResume", "setPlaying"}
  <2>1. CASE AppStays
    BY <1>6, <2>1 DEF AppStays
  <2>2. CASE StopTimeReached
    BY <1>1, <1>6, <2>2 DEF StopTimeReached, Goto, ThreadType, Threads
  <2>3. ASSUME NEW c \in Calls \ {"finish"}, Call(c) PROVE FALSE
    <3>1. FirstStep(c) \notin {"seekResume", "setPlaying"}
      BY <2>3, CallsAssumption DEF FirstStep
    <3>2. QED
      BY <1>1, <2>3, <3>1 DEF Call, Enter, ThreadType, Threads
  <2>4. CASE ThreadStep("app")
    <3>1. CASE Play("app")
      BY <1>1, <1>2, <1>6, <2>4, <3>1 DEF Play, Goto, Return, Cross, KeepRest,
         KeepStream, ReadyToPlay, Control, ThreadType, Threads
    <3>2. CASE SetPlaying("app")
      BY <1>1, <1>2, <1>6, <2>4, <3>2 DEF SetPlaying, Return, Cross,
         ReadyToPlay, Control, ThreadType, Threads
    <3>3. CASE PauseTest("app")
      BY <1>1, <1>2, <1>6, <2>4, <3>3 DEF PauseTest, Goto, Return, Cross,
         KeepRest, KeepStream, ReadyToPlay, Control, ThreadType, Threads
    <3>4. CASE PauseMark("app")
      BY <1>1, <1>2, <1>6, <2>4, <3>4 DEF PauseMark, Goto, Return, Cross,
         KeepRest, KeepStream, ReadyToPlay, Control, ThreadType, Threads
    <3>5. CASE StopTest("app")
      BY <1>1, <1>2, <1>6, <2>4, <3>5 DEF StopTest, Goto, Return, Cross,
         KeepRest, KeepStream, ReadyToPlay, Control, ThreadType, Threads
    <3>6. CASE StopMark("app")
      BY <1>1, <1>2, <1>6, <2>4, <3>6 DEF StopMark, Goto, Cross, KeepRest,
         KeepStream, ReadyToPlay, Control, ThreadType, Threads
    <3>7. CASE FinishTest("app")
      BY <1>1, <1>2, <1>6, <2>4, <3>7 DEF FinishTest, Goto, Return, KeepMedia,
         KeepRest, KeepStream, ReadyToPlay, Control, ThreadType, Threads
    <3>8. CASE InternalPause("app")
      BY <1>1, <1>2, <1>6, <2>4, <3>8 DEF InternalPause, Goto, Return, Cross,
         KeepRest, KeepStream, ReadyToPlay, Control, ThreadType, Threads
    <3>9. CASE SetPaused("app")
      BY <1>1, <1>2, <1>6, <2>4, <3>9 DEF SetPaused, Return, Cross,
         ReadyToPlay, Control, ThreadType, Threads
    <3>10. CASE SeekTest("app")
      BY <1>1, <1>2, <1>6, <2>4, <3>10 DEF SeekTest, Goto, Return, KeepMedia,
         KeepRest, KeepStream, ReadyToPlay, Control, ThreadType, Threads
    <3>11. CASE SeekPipeline("app")
      BY <1>6, <3>11
    <3>12. CASE SeekResume("app")
      BY <1>1, <1>2, <1>6, <2>4, <3>12 DEF SeekResume, Goto, Return,
         KeepMedia, KeepRest, KeepStream, ReadyToPlay, Control, ThreadType,
         Threads
    <3>13. CASE RateZero("app")
      BY <1>1, <1>2, <1>6, <2>4, <3>13 DEF RateZero, Enter, Return, KeepMedia,
         KeepRest, KeepStream, ReadyToPlay, Control, ThreadType, Threads
    <3>14. CASE RateStore("app")
      BY <1>1, <1>2, <1>6, <2>4, <3>14 DEF RateStore, Return, KeepMedia,
         KeepRest, KeepStream, ReadyToPlay, Control, ThreadType, Threads
    <3>15. CASE RateSeek("app")
      BY <1>1, <1>2, <1>6, <2>4, <3>15 DEF RateSeek, Return, KeepMedia,
         KeepRest, KeepStream, FlushingSeek, ReadyToPlay, Control, ThreadType,
         Threads
    <3>16. CASE PauseFails("app")
      BY <1>1, <3>16
    <3>17. QED
      BY <1>1, <1>2, <1>6, <2>4, <3>1, <3>2, <3>3, <3>4, <3>5, <3>6, <3>7,
         <3>8, <3>9, <3>10, <3>11, <3>12, <3>13, <3>14, <3>15, <3>16 DEF
         ThreadStep
  <2>5. QED
    BY <1>1, <2>1, <2>2, <2>3, <2>4, AppMoves
<1>7. QED
  BY <1>4, <1>5, <1>6

LEMMA NotePausesKept ==
  ASSUME Certain
  PROVE  NotePauses'
<1>1. /\ MessageType /\ Target /\ Hush /\ Notes /\ PauseComes /\ SeekComes
      /\ NotePauses
  BY DEF Certain, Going
<1> SUFFICES ASSUME Noted', ~AppPauses'
             PROVE  gst'.target # "PLAYING" \/ Doomed'
  BY DEF NotePauses
<1>2. Noted /\ ~UpdatePlayerState
  <2>1. ~(UpdatePlayerState /\ Noted)
    BY NoteCleared
  <2>2. Noted
    BY <2>1, NoteSteps DEF Noted, AppPauses
  <2>3. QED
    BY <2>1, <2>2
<1>3. CASE AppPauses
  BY <1>1, <1>3, PauseLeaves DEF Suspends, Holds, Hush, Hushed
<1>4. CASE ~AppPauses
  <2>1. CASE Doomed
    BY <1>2, <2>1, DoomedStays
  <2>2. CASE ~Doomed
    <3>1. gst.target # "PLAYING"
      BY <1>1, <1>2, <1>4, <2>2 DEF NotePauses
    <3>2. CASE Holds \/ Completes \/ Prerolls
      BY <3>1, <3>2 DEF Holds, Completes, Prerolls
    <3>3. CASE Starts("app") /\ gst.pending = "VOID"
      <4>1. gst.state = "PAUSED" /\ pc["app"] = "setPlaying" /\ ~Seeking
        BY <1>1, <3>1, <3>3 DEF Target, Starts, SetPlaying, Seeking
      <4>2. Answered => Told
        BY <1>1, <3>3, FirstTold DEF Answered, TwoTell, Told
      <4>3. Told
        BY <1>1, <1>2, <1>4, <3>3, <4>1, <4>2
           DEF Noted, PauseComes, SeekComes, Notes, AnswerComes
      <4>4. TwoTell'
        BY <3>3, <4>1, <4>3 DEF Starts, NewsAdds
      <4>5. QED
        BY <4>4 DEF Doomed
    <3>4. ASSUME NEW u \in Threads, Suspends(u) PROVE gst'.target # "PLAYING"
      BY <3>4 DEF Suspends
    <3>5. QED
      BY <1>2, <3>2, <3>3, <3>4, NotedMoves
  <2>3. QED
    BY <2>1, <2>2
<1>5. QED
  BY <1>3, <1>4

\* A wish to play is complete when the call has come back, or has started
\* the pipeline.
LEMMA WantsNew ==
  ASSUME Certain, ~Wants, Wants'
  PROVE  \/ SetPlaying("app")
         \/ Play("app") /\ ~ReadyToPlay /\ m_fRate # 0
<1>1. /\ ThreadType /\ Control /\ CallSteps /\ [Next]_vars /\ ~Wants /\ Wants'
      /\ ~PauseFails("app")
  BY DEF Certain, Going, Threads
<1>2. CASE ThreadStep("app")
  <2>1. CASE Play("app")
    BY <1>1, <1>2, <2>1 DEF Play, Goto, Return, Wants, ThreadType, Threads
  <2>2. CASE SetPlaying("app")
    BY <2>2
  <2>3. CASE PauseTest("app")
    BY <1>1, <1>2, <2>3 DEF PauseTest, Goto, Return, Cross, KeepRest,
       KeepStream, Wants, CallSteps, InSeek, ThreadType, Threads, player,
       rate, buffer, source, count, threads
  <2>4. CASE PauseMark("app")
    BY <1>1, <1>2, <2>4 DEF PauseMark, Goto, Return, Cross, KeepRest,
       KeepStream, Wants, CallSteps, InSeek, ThreadType, Threads, player,
       rate, buffer, source, count, threads
  <2>5. CASE StopTest("app")
    BY <1>1, <1>2, <2>5 DEF StopTest, Goto, Return, Cross, KeepRest,
       KeepStream, Wants, CallSteps, InSeek, ThreadType, Threads, player,
       rate, buffer, source, count, threads
  <2>6. CASE StopMark("app")
    BY <1>1, <1>2, <2>6 DEF StopMark, Goto, Cross, KeepRest, KeepStream,
       Wants, CallSteps, InSeek, ThreadType, Threads, player, rate, buffer,
       source, count, threads
  <2>7. CASE FinishTest("app")
    BY <1>1, <1>2, <2>7 DEF FinishTest, Goto, Return, KeepMedia, KeepRest,
       KeepStream, Wants, CallSteps, InSeek, ThreadType, Threads, player,
       rate, buffer, source, count, threads
  <2>8. CASE InternalPause("app")
    BY <1>1, <1>2, <2>8 DEF InternalPause, Goto, Return, Cross, KeepRest,
       KeepStream, Wants, CallSteps, InSeek, ThreadType, Threads, player,
       rate, buffer, source, count, threads
  <2>9. CASE SetPaused("app")
    BY <1>1, <1>2, <2>9 DEF SetPaused, Return, Cross, Wants, CallSteps,
       InSeek, ThreadType, Threads, player, rate, buffer, source, count,
       threads
  <2>10. CASE SeekTest("app")
    BY <1>1, <1>2, <2>10 DEF SeekTest, Goto, Return, KeepMedia, KeepRest,
       KeepStream, Wants, CallSteps, InSeek, ThreadType, Threads, player,
       rate, buffer, source, count, threads
  <2>11. CASE SeekPipeline("app")
    BY <1>1, <1>2, <2>11 DEF SeekPipeline, Goto, Return, KeepStream,
       FlushingSeek, Wants, CallSteps, InSeek, ThreadType, Threads, player,
       rate, buffer, source, count, threads
  <2>12. CASE SeekResume("app")
    BY <1>1, <1>2, <2>12 DEF SeekResume, Goto, Return, KeepMedia, KeepRest,
       KeepStream, Wants, CallSteps, InSeek, ThreadType, Threads, player,
       rate, buffer, source, count, threads
  <2>13. CASE RateZero("app")
    BY <1>1, <1>2, <2>13 DEF RateZero, Enter, Return, KeepMedia, KeepRest,
       KeepStream, Wants, CallSteps, InSeek, ThreadType, Threads, player,
       rate, buffer, source, count, threads
  <2>14. CASE RateStore("app")
    BY <1>1, <1>2, <2>14 DEF RateStore, Return, KeepMedia, KeepRest,
       KeepStream, Wants, CallSteps, InSeek, ThreadType, Threads, player,
       rate, buffer, source, count, threads
  <2>15. CASE RateSeek("app")
    BY <1>1, <1>2, <2>15 DEF RateSeek, Return, KeepMedia, KeepRest,
       KeepStream, FlushingSeek, Wants, CallSteps, InSeek, ThreadType,
       Threads, player, rate, buffer, source, count, threads
  <2>16. CASE PauseFails("app")
    BY <1>1, <2>16
  <2>17. QED
    BY <1>1, <1>2, <2>1, <2>2, <2>3, <2>4, <2>5, <2>6, <2>7, <2>8, <2>9,
       <2>10, <2>11, <2>12, <2>13, <2>14, <2>15, <2>16 DEF ThreadStep
<1>3. ~AppStays
  BY DEF AppStays, Wants
<1>4. ~StopTimeReached
  BY DEF StopTimeReached, Wants
<1>5. ASSUME NEW c \in Calls \ {"finish"}, Call(c) PROVE FALSE
  <2>1. /\ pc["app"] = "idle" /\ m_fRate' = m_fRate
        /\ asked' = (IF c = "seek" THEN asked ELSE c) /\ pc'["app"] = FirstStep(c)
    BY <1>1, <1>5 DEF Call, Enter, rate, ThreadType, Threads
  <2>2. FirstStep("play") = "play"
    BY DEF FirstStep
  <2>3. QED
    BY <1>1, <2>1, <2>2 DEF Wants
<1>6. QED
  BY <1>1, <1>2, <1>3, <1>4, <1>5, AppMoves

\* A player that refuses to play plays already, or has reached its end.
LEMMA PlayRefused ==
  ASSUME Certain, ~ReadyToPlay
  PROVE  \/ m_PlayerState = "Finished"
         \/ gst.target = "PLAYING"
<1>1. /\ Aim /\ Target /\ m_PlayerState # "Error"
  BY DEF Certain, Going
<1>2. QED
  BY <1>1 DEF ReadyToPlay, Aim, Target

LEMMA NotePlaysKept ==
  ASSUME Certain
  PROVE  NotePlays'
<1>1. /\ CallSteps /\ CallSteps' /\ crossed' = {} /\ NotePlays /\ NotePauses /\ Going
      /\ Control
  BY DEF Certain, Going, Pure
<1> SUFFICES ASSUME Wants', Noted'
             PROVE  Doomed'
  BY DEF NotePlays
<1>2. ~AppPauses'
  BY <1>1 DEF Wants, CallSteps, InSeek, AppPauses
<1>3. Noted /\ ~UpdatePlayerState
  <2>1. ~(UpdatePlayerState /\ Noted)
    BY NoteCleared
  <2>2. Noted
    BY <1>2, <2>1, NoteSteps DEF Noted, AppPauses
  <2>3. QED
    BY <2>1, <2>2
<1>4. CASE Wants
  BY <1>1, <1>3, <1>4, DoomedStays DEF NotePlays
<1>5. CASE SetPlaying("app")
  BY <1>1, <1>2, <1>5, NotePausesKept, GoingStarts DEF NotePauses, Starts,
     Threads
<1>6. CASE Play("app") /\ ~ReadyToPlay
  <2>1. m_PlayerState # "Finished"
    BY <1>1, <1>3, <1>6 DEF Play, Cross, NothingAsked, Noted
  <2>2. gst.target = "PLAYING" /\ ~AppPauses
    BY <1>6, <2>1, PlayRefused DEF Play, AppPauses
  <2>3. QED
    BY <1>1, <1>3, <2>2, DoomedStays DEF NotePauses
<1>7. QED
  BY <1>4, <1>5, <1>6, WantsNew

LEMMA StartsLastKept ==
  ASSUME Certain
  PROVE  StartsLast'
<1>1. Going /\ StartsLast /\ gst.target \in {"PAUSED", "PLAYING"}
  BY DEF Certain, Going, Changing
<1> SUFFICES ASSUME ~Noted'
             PROVE  gst'.target = "PLAYING" \/ Ending' \/ PlaysEnd'
  BY DEF StartsLast
<1>2. CASE UpdatePlayerState /\ Noted
  <2>1. ~Told'
    BY <1>2, NoteCleared
  <2>2. QED
    BY <2>1 DEF Told, PlaysEnd, TellsPlay
<1>3. CASE ~(UpdatePlayerState /\ Noted)
  <2>1. ~Noted
    BY <1>3, NoteSteps DEF Noted
  <2>2. gst.target = "PLAYING" \/ Ending \/ PlaysEnd
    BY <1>1, <2>1 DEF StartsLast
  <2>3. CASE Holds
    BY <2>2, <2>3 DEF Holds, NewsSame, Ending
  <2>4. CASE Hears
    BY <2>2, <2>4 DEF Hears, NewsDrops, Ending
  <2>5. CASE Wakes
    BY <2>5 DEF Wakes
  <2>6. CASE Completes
    BY <2>2, <2>6 DEF Completes, NewsAdds, Ending
  <2>7. CASE Prerolls
    BY <2>2, <2>7 DEF Prerolls, NewsSame, Ending
  <2>8. ASSUME NEW u \in Threads, Starts(u) PROVE gst'.target = "PLAYING"
    BY <2>8 DEF Starts
  <2>9. ASSUME NEW u \in Threads, Suspends(u) PROVE Ending' \/ PlaysEnd'
    <3>1. IsPlaying
      BY <2>1, <2>9, SuspendsPlaying
    <3>2. QED
      BY <2>9, <3>1 DEF Suspends, IsPlaying, NewsAdds, Ending
  <2>10. QED
    BY <1>1, <2>3, <2>4, <2>5, <2>6, <2>7, <2>8, <2>9, Moves
<1>4. QED
  BY <1>2, <1>3

LEMMA PlayIsLastKept ==
  ASSUME Certain
  PROVE  PlayIsLast'
<1>1. Going /\ PlayIsLast
  BY DEF Certain
<1>2. CASE Holds \/ Hears
  BY <1>1, <1>2 DEF Holds, Hears, NewsSame, NewsDrops, PlayIsLast
<1>3. CASE Wakes
  BY <1>3 DEF Wakes, PlayIsLast
<1>4. CASE Completes
  BY <1>4 DEF Completes, NewsAdds, PlayIsLast
<1>5. CASE Prerolls
  BY <1>5 DEF Prerolls, PlayIsLast
<1>6. ASSUME NEW u \in Threads, Starts(u) PROVE PlayIsLast'
  BY <1>1, <1>6 DEF Starts, NewsSame, NewsAdds, PlayIsLast
<1>7. ASSUME NEW u \in Threads, Suspends(u) PROVE PlayIsLast'
  BY <1>1, <1>7 DEF Suspends, NewsSame, NewsAdds, PlayIsLast
<1>8. QED
  BY <1>1, <1>2, <1>3, <1>4, <1>5, <1>6, <1>7, Moves

\* Only a stall sets the flag, and only UpdatePlayerState clears it.
LEMMA StallFlag == FlagType /\ [Next]_vars => (m_StallOnPause' =>
   m_StallOnPause) \/ Stall
<1> SUFFICES ASSUME FlagType, [Next]_vars PROVE (m_StallOnPause' =>
   m_StallOnPause) \/ Stall
  OBVIOUS
<1> USE DEF player, rate, buffer, source, count, threads
<1>1. CASE Stall
  BY <1>1
<1>2. ASSUME NEW t \in Threads, Play(t) \/ SetPlaying(t) \/ PauseTest(t) \/
   PauseMark(t) \/ StopTest(t) \/ StopMark(t) \/ FinishTest(t) \/
   InternalPause(t) \/ SetPaused(t) \/ SeekTest(t) \/ SeekPipeline(t) \/
   SeekResume(t) \/ RateZero(t) \/ RateStore(t) \/ RateSeek(t) \/
   PauseFails(t) PROVE (m_StallOnPause' => m_StallOnPause) \/ Stall
  BY <1>2 DEF Play, Goto, Return, Cross, KeepRest, KeepStream, SetPlaying,
     PauseTest, PauseMark, StopTest, StopMark, FinishTest, KeepMedia,
     InternalPause, SetPaused, SeekTest, SeekPipeline, FlushingSeek,
     SeekResume, RateZero, Enter, RateStore, RateSeek, PauseFails, Post,
     Message, mvars
<1>3. CASE AsyncDone \/ Render \/ EndOfStream \/ Download \/ Underrun \/ Fault
   \/ StopTimeReached \/ TakeMessage \/ BusMoves \/ HandleStateChanged \/
   UpdatePlayerState \/ HandleEOS \/ HandleError \/ TornDown \/ HandleProgress
   \/ HandleUnderrun \/ HandleHLSBuffer \/ HandlerDone \/ Dispose \/ Pads \/
   UNCHANGED vars
  BY <1>3 DEF vars, mvars, AsyncDone, Render, Post, Message, EndOfStream,
     Download, Underrun, Fault, StopTimeReached, Goto, KeepStream,
     TakeMessage, BusMoves, BusCallback, DropReference,
     BusCallbackDestroyNotify, FreeMeHere, HandleStateChanged, Handling,
     Enter, KeepBus, UpdatePlayerState, Misread, HandleEOS, Cross,
     HandleError, TornDown, HandleProgress, HandleUnderrun, HandleHLSBuffer,
     HandlerDone, Dispose, Pads, mvars
<1>4. ASSUME NEW c \in Calls \ {"finish"}, Call(c) PROVE (m_StallOnPause' =>
   m_StallOnPause) \/ Stall
  BY <1>4 DEF Call, FirstStep, Enter, KeepStream, mvars
<1>5. QED
  BY <1>1, <1>2, <1>3, <1>4, NextCases DEF ThreadStep

\* A seek that restarts the pipeline does not give up.
LEMMA RestartingStays ==
  ASSUME Certain, Restarting, m_PlayerState = "Finished", ~Noted
  PROVE  Restarting' \/ SetPlaying("app")
<1>1. /\ ThreadType /\ Control /\ [Next]_vars /\ ~PauseFails("app") /\ Restarting
      /\ m_PlayerState = "Finished" /\ ~Noted
  BY DEF Certain, Going, Threads
<1>2. CASE ThreadStep("app")
  <2>1. CASE Play("app")
    BY <1>1, <1>2, <2>1 DEF Play, Goto, Return, Cross, KeepRest, KeepStream,
       Restarting, ThreadType, Threads, player, rate, buffer, source, count,
       threads
  <2>2. CASE SetPlaying("app")
    BY <2>2
  <2>3. CASE PauseTest("app")
    BY <1>1, <1>2, <2>3 DEF PauseTest, Goto, Return, Cross, KeepRest,
       KeepStream, Restarting, ThreadType, Threads, player, rate, buffer,
       source, count, threads
  <2>4. CASE PauseMark("app")
    BY <1>1, <1>2, <2>4 DEF PauseMark, Goto, Return, Cross, KeepRest,
       KeepStream, Restarting, ThreadType, Threads, player, rate, buffer,
       source, count, threads
  <2>5. CASE StopTest("app")
    BY <1>1, <1>2, <2>5 DEF StopTest, Goto, Return, Cross, KeepRest,
       KeepStream, Restarting, ThreadType, Threads, player, rate, buffer,
       source, count, threads
  <2>6. CASE StopMark("app")
    BY <1>1, <1>2, <2>6 DEF StopMark, Goto, Cross, KeepRest, KeepStream,
       Restarting, ThreadType, Threads, player, rate, buffer, source, count,
       threads
  <2>7. CASE FinishTest("app")
    BY <1>1, <1>2, <2>7 DEF FinishTest, Goto, Return, KeepMedia, KeepRest,
       KeepStream, Restarting, ThreadType, Threads, player, rate, buffer,
       source, count, threads
  <2>8. CASE InternalPause("app")
    BY <1>1, <1>2, <2>8 DEF InternalPause, Goto, Return, Cross, KeepRest,
       KeepStream, Restarting, ThreadType, Threads, player, rate, buffer,
       source, count, threads
  <2>9. CASE SetPaused("app")
    BY <1>1, <1>2, <2>9 DEF SetPaused, Return, Cross, Restarting, ThreadType,
       Threads, player, rate, buffer, source, count, threads
  <2>10. CASE SeekTest("app")
    BY <1>1, <1>2, <2>10 DEF SeekTest, Goto, Return, KeepMedia, KeepRest,
       KeepStream, Restarting, ThreadType, Threads, player, rate, buffer,
       source, count, threads
  <2>11. CASE SeekPipeline("app")
    BY <1>1, <1>2, <2>11 DEF SeekPipeline, Goto, Return, KeepStream,
       FlushingSeek, Restarting, ThreadType, Threads, player, rate, buffer,
       source, count, threads
  <2>12. CASE SeekResume("app")
    BY <1>1, <1>2, <2>12 DEF SeekResume, Goto, Return, KeepMedia, KeepRest,
       count, Restarting, Noted, ThreadType, Threads
  <2>13. CASE RateZero("app")
    BY <1>1, <1>2, <2>13 DEF RateZero, Enter, Return, KeepMedia, KeepRest,
       KeepStream, Restarting, ThreadType, Threads, player, rate, buffer,
       source, count, threads
  <2>14. CASE RateStore("app")
    BY <1>1, <1>2, <2>14 DEF RateStore, Return, KeepMedia, KeepRest,
       KeepStream, Restarting, ThreadType, Threads, player, rate, buffer,
       source, count, threads
  <2>15. CASE RateSeek("app")
    BY <1>1, <1>2, <2>15 DEF RateSeek, Return, KeepMedia, KeepRest,
       KeepStream, FlushingSeek, Restarting, ThreadType, Threads, player,
       rate, buffer, source, count, threads
  <2>16. CASE PauseFails("app")
    BY <1>1, <2>16
  <2>17. QED
    BY <1>1, <1>2, <2>1, <2>2, <2>3, <2>4, <2>5, <2>6, <2>7, <2>8, <2>9,
       <2>10, <2>11, <2>12, <2>13, <2>14, <2>15, <2>16 DEF ThreadStep
<1>3. CASE AppStays
  BY <1>3 DEF AppStays, Restarting
<1>4. CASE StopTimeReached
  BY <1>1, <1>4 DEF StopTimeReached, Goto, ThreadType, Threads, Restarting
<1>5. ~\E c \in Calls \ {"finish"} : Call(c)
  BY DEF Call, Restarting
<1>6. QED
  BY <1>1, <1>2, <1>3, <1>4, <1>5, AppMoves

LEMMA PrerollPlaysKept ==
  ASSUME Certain
  PROVE  PrerollPlays'
<1>1. /\ Going /\ PlayIsLast /\ PrerollPlays /\ Birth /\ StallStep /\ Hush
      /\ FlagType /\ ThreadType /\ Control /\ [Next]_vars
      /\ gst.state \in GstStates /\ gst.state # "NULL"
      /\ gst.target \in {"PAUSED", "PLAYING"}
  BY DEF Certain, Going, Changing, StreamType, GstType
<1> SUFFICES ASSUME m_PlayerState' = "Finished", m_StallOnPause', ~Noted'
             PROVE  /\ \/ AgainPlays'
                       \/ /\ Restarting' /\ gst'.pending = "VOID"
                          /\ gst'.state = "PAUSED"
                    /\ gst'.pending # "VOID" /\ gst'.state = "PAUSED"
                          /\ gst'.target = "PAUSED" => Restarting'
  BY DEF PrerollPlays
<1>2. ~Noted
  <2>1. ~(UpdatePlayerState /\ Noted)
    BY NoteCleared
  <2>2. QED
    BY <2>1, NoteSteps DEF Noted
<1>3. m_StallOnPause
  <2>1. ~Stall
    BY <1>1 DEF Stall, StallStep
  <2>2. QED
    BY <1>1, <2>1, StallFlag
<1>4. CASE m_PlayerState # "Finished"
  <2>1. IsPlaying /\ gst' = gst
    BY <1>3, <1>4, Finishes
  <2>2. AgainPlays'
    BY <2>1, PlayIsLastKept DEF IsPlaying, PlayIsLast
  <2>3. QED
    BY <2>1, <2>2 DEF IsPlaying
<1>5. CASE m_PlayerState = "Finished"
  <2>1. /\ \/ AgainPlays
           \/ Restarting /\ gst.pending = "VOID" /\ gst.state = "PAUSED"
        /\ gst.pending # "VOID" /\ gst.state = "PAUSED" /\ gst.target = "PAUSED" =>
              Restarting
    BY <1>1, <1>2, <1>3, <1>5 DEF PrerollPlays
  <2>2. Restarting => Restarting' \/ SetPlaying("app")
    BY <1>2, <1>5, RestartingStays
  <2>3. CASE Holds
    BY <2>1, <2>2, <2>3 DEF Holds, NewsSame, Threads
  <2>4. CASE Hears
    <3>1. ~SetPlaying("app")
      BY <1>1, <2>4 DEF Hears, Handled, UpdatePlayerState, HandleStateChanged,
         Goto,
                        SetPlaying, Return, ThreadType, Threads, Control
    <3>2. QED
      BY <2>1, <2>2, <2>4, <3>1 DEF Hears, NewsDrops
  <2>5. ~Wakes
    BY DEF Wakes
  <2>6. CASE Completes
    <3>1. gst.state # "READY"
      BY <1>1, <1>5 DEF Birth, Untold
    <3>2. Restarting => Restarting'
      BY <2>6 DEF Completes, AsyncDone, threads, count, Restarting
    <3>3. gst.state = "PLAYING" => AgainPlays
      BY <1>1 DEF PlayIsLast
    <3>4. gst.state \in {"PAUSED", "PLAYING"}
      BY <1>1, <3>1 DEF GstStates
    <3>5. QED
      BY <2>1, <2>6, <3>2, <3>3, <3>4 DEF Completes, NewsAdds
  <2>7. CASE Prerolls
    <3>1. m_fRate # 0
      BY <1>1, <1>2, <1>5 DEF Hush, Hushed
    <3>2. gst' # gst /\ NewsSame
      BY <2>7 DEF Prerolls
    <3>3. m_fRate = 1
      BY <3>1 DEF Certain, Going, PlayerType
    <3>4. SeekPipeline("app")
      BY <2>7, <3>2, <3>3 DEF Prerolls, RateSeek, KeepStream
    <3>5. pc["app"] = "seekPipeline" /\ Restarting'
      BY <1>1, <1>5, <3>2, <3>4
         DEF SeekPipeline, KeepStream, Goto, ThreadType, Threads, Restarting
    <3>6. AgainPlays
      BY <2>1, <3>5 DEF Restarting
    <3>7. QED
      BY <3>2, <3>5, <3>6 DEF NewsSame
  <2>8. ASSUME NEW u \in Threads, Starts(u)
        PROVE  AgainPlays' /\ gst'.target = "PLAYING"
    BY <1>1, <2>1, <2>8 DEF Starts, NewsSame, NewsAdds, PlayIsLast
  <2>9. ASSUME NEW u \in Threads, Suspends(u)
        PROVE  AgainPlays' /\ ~(gst'.pending # "VOID" /\ gst'.state = "PAUSED")
    <3>1. IsPlaying
      BY <1>2, <2>9, SuspendsPlaying
    <3>2. QED
      BY <1>1, <2>9, <3>1 DEF Suspends, NewsSame, NewsAdds, PlayIsLast,
         IsPlaying
  <2>10. QED
    BY <1>1, <2>3, <2>4, <2>5, <2>6, <2>7, <2>8, <2>9, Moves
<1>6. QED
  BY <1>4, <1>5

LEMMA ReasonedSteps == PlayerType /\ FlagType /\ ThreadType /\ Control /\
   BusIdle /\ Reasoned /\ [Next]_vars => Reasoned' \/ PauseFails("app")
<1> SUFFICES ASSUME PlayerType, FlagType, ThreadType, Control, BusIdle,
   Reasoned, [Next]_vars PROVE Reasoned' \/ PauseFails("app")
  OBVIOUS
<1> USE DEF player, rate, buffer, source, count, threads
<1>1. CASE AsyncDone
  BY <1>1 DEF AsyncDone, Reasoned, Excused, Noted, ThreadType, Threads,
     Control, BusIdle, mvars
<1>2. CASE Render
  BY <1>2 DEF Render, Post, Message, Reasoned, Excused, Noted, ThreadType,
     Threads, Control, BusIdle, mvars
<1>3. CASE EndOfStream
  BY <1>3 DEF EndOfStream, Post, Message, Reasoned, Excused, Noted,
     ThreadType, Threads, Control, BusIdle, mvars
<1>4. CASE Download
  BY <1>4 DEF Download, Post, Message, Reasoned, Excused, Noted, ThreadType,
     Threads, Control, BusIdle, mvars
<1>5. CASE Underrun
  BY <1>5 DEF Underrun, Post, Message, Reasoned, Excused, Noted, ThreadType,
     Threads, Control, BusIdle, mvars
<1>6. CASE Fault
  BY <1>6 DEF Fault, Post, Message, Reasoned, Excused, Noted, ThreadType,
     Threads, Control, BusIdle, mvars
<1>7. ASSUME NEW c \in Calls \ {"finish"}, Call(c) PROVE Reasoned' \/
   PauseFails("app")
  BY <1>7 DEF Call, FirstStep, Enter, KeepStream, Reasoned, Excused, Noted,
     ThreadType, Threads, Control, BusIdle, mvars
<1>8. CASE StopTimeReached
  BY <1>8 DEF StopTimeReached, Goto, KeepStream, Reasoned, Excused, Noted,
     ThreadType, Threads, Control, BusIdle, mvars
<1>9. ASSUME NEW t \in Threads, Play(t) PROVE Reasoned' \/ PauseFails("app")
  BY <1>9 DEF Play, Goto, Return, Cross, KeepRest, KeepStream, Reasoned,
     Excused, Noted, ThreadType, Threads, Control, BusIdle
<1>10. ASSUME NEW t \in Threads, SetPlaying(t) PROVE Reasoned' \/
   PauseFails("app")
  BY <1>10 DEF SetPlaying, Return, Cross, Reasoned, Excused, Noted,
     ThreadType, Threads, Control, BusIdle
<1>11. ASSUME NEW t \in Threads, PauseTest(t) PROVE Reasoned' \/
   PauseFails("app")
  BY <1>11 DEF PauseTest, Goto, Return, Cross, KeepRest, KeepStream, Reasoned,
     Excused, Noted, ThreadType, Threads, Control, BusIdle
<1>12. ASSUME NEW t \in Threads, PauseMark(t) PROVE Reasoned' \/
   PauseFails("app")
  BY <1>12 DEF PauseMark, Goto, Return, Cross, KeepRest, KeepStream, Reasoned,
     Excused, Noted, ThreadType, Threads, Control, BusIdle
<1>13. ASSUME NEW t \in Threads, StopTest(t) PROVE Reasoned' \/
   PauseFails("app")
  BY <1>13 DEF StopTest, Goto, Return, Cross, KeepRest, KeepStream, Reasoned,
     Excused, Noted, ThreadType, Threads, Control, BusIdle
<1>14. ASSUME NEW t \in Threads, StopMark(t) PROVE Reasoned' \/
   PauseFails("app")
  BY <1>14 DEF StopMark, Goto, Cross, KeepRest, KeepStream, Reasoned, Excused,
     Noted, ThreadType, Threads, Control, BusIdle
<1>15. ASSUME NEW t \in Threads, FinishTest(t) PROVE Reasoned' \/
   PauseFails("app")
  BY <1>15 DEF FinishTest, Goto, Return, KeepMedia, KeepRest, KeepStream,
     Reasoned, Excused, Noted, ThreadType, Threads, Control, BusIdle
<1>16. ASSUME NEW t \in Threads, InternalPause(t) PROVE Reasoned' \/
   PauseFails("app")
  BY <1>16 DEF InternalPause, Goto, Return, Cross, KeepRest, KeepStream,
     Reasoned, Excused, Noted, ThreadType, Threads, Control, BusIdle
<1>17. ASSUME NEW t \in Threads, SetPaused(t) PROVE Reasoned' \/
   PauseFails("app")
  BY <1>17 DEF SetPaused, Return, Cross, Reasoned, Excused, Noted, ThreadType,
     Threads, Control, BusIdle
<1>18. ASSUME NEW t \in Threads, SeekTest(t) PROVE Reasoned' \/
   PauseFails("app")
  BY <1>18 DEF SeekTest, Goto, Return, KeepMedia, KeepRest, KeepStream,
     Reasoned, Excused, Noted, ThreadType, Threads, Control, BusIdle
<1>19. ASSUME NEW t \in Threads, SeekPipeline(t) PROVE Reasoned' \/
   PauseFails("app")
  BY <1>19 DEF SeekPipeline, Goto, Return, KeepStream, FlushingSeek, Reasoned,
     Excused, Noted, ThreadType, Threads, Control, BusIdle
<1>20. ASSUME NEW t \in Threads, SeekResume(t) PROVE Reasoned' \/
   PauseFails("app")
  BY <1>20 DEF SeekResume, Goto, Return, KeepMedia, KeepRest, KeepStream,
     Reasoned, Excused, Noted, ThreadType, Threads, Control, BusIdle
<1>21. ASSUME NEW t \in Threads, RateZero(t) PROVE Reasoned' \/
   PauseFails("app")
  BY <1>21 DEF RateZero, Enter, Return, KeepMedia, KeepRest, KeepStream,
     Reasoned, Excused, Noted, ThreadType, Threads, Control, BusIdle
<1>22. ASSUME NEW t \in Threads, RateStore(t) PROVE Reasoned' \/
   PauseFails("app")
  BY <1>22 DEF RateStore, Return, KeepMedia, KeepRest, KeepStream, Reasoned,
     Excused, Noted, ThreadType, Threads, Control, BusIdle
<1>23. ASSUME NEW t \in Threads, RateSeek(t) PROVE Reasoned' \/
   PauseFails("app")
  BY <1>23 DEF RateSeek, Return, KeepMedia, KeepRest, KeepStream,
     FlushingSeek, Reasoned, Excused, Noted, ThreadType, Threads, Control,
     BusIdle
<1>24. ASSUME NEW t \in Threads, PauseFails(t) PROVE Reasoned' \/
   PauseFails("app")
  <2>1. CASE t = "app"
    BY <1>24, <2>1
  <2>2. CASE t # "app"
    BY <1>24, <2>2 DEF PauseFails, Return, Reasoned, Excused, Noted,
       ThreadType, Threads, Control, BusIdle
  <2>3. QED
    BY <2>1, <2>2
<1>25. CASE TakeMessage
  BY <1>25 DEF TakeMessage, Dispatch, Reasoned, Excused, Noted, ThreadType,
     Threads, Control, BusIdle
<1>26. CASE BusMoves
  BY <1>26 DEF BusMoves, BusCallback, DropReference, BusCallbackDestroyNotify,
     FreeMeHere, Reasoned, Excused, Noted, ThreadType, Threads, Control,
     BusIdle, mvars
<1>27. CASE HandleStateChanged
  BY <1>27 DEF HandleStateChanged, Handling, Goto, Enter, KeepBus, KeepStream,
     Reasoned, Excused, Noted, ThreadType, Threads, Control, BusIdle,
     Concerns, NothingAsked
<1>28. CASE UpdatePlayerState
  BY <1>28 DEF UpdatePlayerState, Goto, Misread, Reasoned, Excused, Noted,
     ThreadType, Threads, Control, BusIdle, mvars
<1>29. CASE HandleEOS
  BY <1>29 DEF HandleEOS, Handling, Goto, Cross, KeepStream, Reasoned,
     Excused, Noted, ThreadType, Threads, Control, BusIdle, mvars
<1>30. CASE HandleError
  BY <1>30 DEF HandleError, Handling, Goto, KeepStream, Reasoned, Excused,
     Noted, ThreadType, Threads, Control, BusIdle, mvars
<1>31. CASE TornDown
  BY <1>31 DEF TornDown, Goto, ErrorStopped, Reasoned, Excused, Noted,
     ThreadType, Threads, Control, BusIdle
<1>32. CASE HandleProgress
  BY <1>32 DEF HandleProgress, Handling, Goto, KeepBus, KeepStream, Reasoned,
     Excused, Noted, ThreadType, Threads, Control, BusIdle, mvars
<1>33. CASE HandleUnderrun
  BY <1>33 DEF HandleUnderrun, Handling, Goto, KeepBus, KeepStream, Reasoned,
     Excused, Noted, ThreadType, Threads, Control, BusIdle, mvars
<1>34. CASE Stall
  BY <1>34 DEF Stall, Goto, KeepBus, KeepStream, Reasoned, Excused, Noted,
     ThreadType, Threads, Control, BusIdle, mvars
<1>35. CASE HandleHLSBuffer
  BY <1>35 DEF HandleHLSBuffer, Handling, Goto, KeepBus, KeepStream, Reasoned,
     Excused, Noted, ThreadType, Threads, Control, BusIdle, mvars
<1>36. CASE HandlerDone
  BY <1>36 DEF HandlerDone, KeepStream, Reasoned, Excused, Noted, ThreadType,
     Threads, Control, BusIdle, mvars
<1>37. CASE Dispose
  BY <1>37 DEF Dispose, Reasoned, Excused, Noted, ThreadType, Threads,
     Control, BusIdle, mvars
<1>38. CASE Pads
  BY <1>38 DEF Pads, Reasoned, Excused, Noted, ThreadType, Threads, Control,
     BusIdle, mvars
<1>39. CASE UNCHANGED vars
  BY <1>39 DEF vars, mvars, mvars, Reasoned, Excused, Noted, ThreadType,
     Threads, Control, BusIdle
<1>40. QED
  BY <1>1, <1>2, <1>3, <1>4, <1>5, <1>6, <1>7, <1>8, <1>9, <1>10, <1>11,
     <1>12, <1>13, <1>14, <1>15, <1>16, <1>17, <1>18, <1>19, <1>20, <1>21,
     <1>22, <1>23, <1>24, <1>25, <1>26, <1>27, <1>28, <1>29, <1>30, <1>31,
     <1>32, <1>33, <1>34, <1>35, <1>36, <1>37, <1>38, <1>39, NextCases DEF
     ThreadStep

LEMMA ReasonedKept ==
  ASSUME Certain
  PROVE  Reasoned'
<1>1. /\ PlayerType /\ FlagType /\ ThreadType /\ Control /\ BusIdle /\ Reasoned
      /\ [Next]_vars /\ ~PauseFails("app")
  BY DEF Certain, Going, Threads
<1>2. QED
  BY <1>1, ReasonedSteps

LEMMA PlayWinsKept ==
  ASSUME Certain
  PROVE  PlayWins'
<1>1. /\ PlayerType /\ MessageType /\ MessageType' /\ ThreadType /\ Control
      /\ [Next]_vars /\ ~TornDown /\ ~PauseFails("app") /\ CallSteps /\ Going
      /\ m_PlayerState # "Error" /\ gst.target \in {"PAUSED", "PLAYING"}
  BY DEF Certain, Going, Changing, Threads
<1>2. /\ Birth /\ Chain /\ Repeats /\ NotePlays /\ StartsLast /\ PrerollPlays
      /\ Reasoned /\ PlayWins
  BY DEF Certain
<1> DEFINE Plays == gst.target = "PLAYING" \/ Ending \/ EndTold
           Waits == m_PlayerState \in {"Stalled", "Finished"}
<1> SUFFICES ASSUME Wants', ~Noted' PROVE Plays' \/ Waits'
  BY DEF PlayWins
<1>3. CASE UpdatePlayerState /\ Noted
  <2>1. ~Doomed
    BY <1>3, NoteCleared
  <2>2. Wants
    BY <1>1, <1>3 DEF UpdatePlayerState, Goto, ThreadType, Threads, count, Wants
  <2>3. QED
    BY <1>2, <1>3, <2>1, <2>2 DEF NotePlays
<1>4. CASE ~(UpdatePlayerState /\ Noted) /\ Wants
  <2>1. ~Noted
    BY <1>4, NoteSteps DEF Noted
  <2>2. asked = "play" /\ m_PlayerState # "Unknown"
    BY <1>1, <1>4 DEF Wants, CallSteps
  <2>3. Plays \/ Waits
    BY <1>2, <1>4, <2>1 DEF PlayWins
  <2>4. CASE Hears
    <3>1. gst' = gst /\ NewsDrops /\ Handled
      BY <2>4 DEF Hears
    <3>2. talk[0] = msg
      BY <1>1, <3>1, HandledHead DEF Handled
    <3>3. CASE gst.target = "PLAYING" \/ Ending
      BY <3>1, <3>3 DEF Ending
    <3>4. CASE EndTold /\ ~EndTold'
      <4>1. msg.old = "PLAYING" /\ msg.new = "PAUSED"
        BY <3>1, <3>2, <3>4 DEF NewsDrops, TellsEnd
      <4>2. UpdatePlayerState
        BY <2>2, <3>1, <4>1 DEF Handled, Concerns
      <4>3. Fits(m_PlayerState, "PLAYING")
        BY <1>1, <1>2, <4>1, <4>2, HeardChange
      <4>4. m_PlayerState \in {"Playing", "Finished"}
        BY <1>1, <2>2, <4>3 DEF Fits, Still, PlayerType, PlayerStates
      <4>5. NewPlayerState \in {"Stalled", "Finished"}
        BY <2>1, <4>1, <4>4 DEF NewPlayerState, PauseMeans, NothingAsked, Noted
      <4>6. QED
        BY <4>2, <4>5 DEF UpdatePlayerState
    <3>5. CASE Waits /\ ~Waits' /\ UpdatePlayerState
      <4>1. CASE gst.target = "PLAYING" \/ Ending
        BY <3>1, <4>1 DEF Ending
      <4>2. CASE PlaysEnd
        <5>1. PlaysEnd' /\ (TellsPlay(talk, 0) \/ PlayTold' => EndTold')
          BY <3>1, <4>2 DEF NewsDrops
        <5>2. msg.type = "STATE"
          BY <1>1, <3>5, HandledHead
        <5>3. \/ msg.new = "PLAYING"
              \/ m_PlayerState = "Finished" /\ msg.old = "PAUSED" /\ msg.new = "PAUSED"
          BY <2>1, <3>5 DEF UpdatePlayerState, NewPlayerState, NothingAsked,
             Noted
        <5>4. CASE msg.new = "PLAYING"
          BY <3>2, <5>1, <5>2, <5>4 DEF TellsPlay
        <5>5. CASE m_PlayerState = "Finished" /\ msg.old = "PAUSED"
                   /\ msg.new = "PAUSED"
          <6>1. pc["bus"] = "update"
            BY <3>5 DEF UpdatePlayerState
          <6>2. m_StallOnPause
            BY <1>2, <2>1, <2>2, <5>5, <6>1 DEF Reasoned, Excused
          <6>3. AgainPlays
            BY <1>2, <2>1, <2>2, <5>5, <6>2 DEF PrerollPlays, Restarting
          <6>4. PlayTold'
            BY <3>1, <3>2, <5>2, <5>5, <6>3 DEF NewsDrops, TellsAgain
          <6>5. QED
            BY <5>1, <6>4
        <5>6. QED
          BY <5>3, <5>4, <5>5
      <4>3. QED
        BY <1>2, <2>1, <4>1, <4>2 DEF StartsLast
    <3>6. CASE Waits /\ ~UpdatePlayerState
      BY <3>1, <3>6 DEF Handled, HandleStateChanged, player
    <3>7. QED
      BY <2>3, <3>3, <3>4, <3>5, <3>6
  <2>5. CASE ~Hears
    <3>1. CASE Wakes
      BY <3>1 DEF Wakes
    <3>2. CASE Plays /\ ~Wakes
      <4>1. CASE Holds
        BY <3>2, <4>1 DEF Holds, NewsSame, Ending
      <4>2. CASE Completes
        BY <1>1, <3>2, <4>2 DEF Completes, NewsAdds, Ending
      <4>3. CASE Prerolls
        BY <3>2, <4>3 DEF Prerolls, NewsSame, Ending
      <4>4. ASSUME NEW u \in Threads, Starts(u) PROVE Plays'
        BY <4>4 DEF Starts
      <4>5. ASSUME NEW u \in Threads, Suspends(u) PROVE Plays'
        <5>1. IsPlaying
          BY <2>1, <4>5, SuspendsPlaying
        <5>2. QED
          BY <4>5, <5>1 DEF Suspends, IsPlaying, NewsAdds, Ending
      <4>6. QED
        BY <1>1, <2>5, <3>2, <4>1, <4>2, <4>3, <4>4, <4>5, Moves
    <3>3. CASE Waits /\ ~Wakes
      <4>1. ~UpdatePlayerState
        <5>1. ASSUME UpdatePlayerState PROVE FALSE
          <6>1. gst' = gst /\ messages' = messages
            BY <1>1, <3>3, <5>1, GoingWakes
          <6>2. NewsDrops /\ Handled
            BY <1>1, <5>1, <6>1, HeardPopped, TalkDrops DEF Silent, Handled
          <6>3. QED
            BY <2>5, <6>1, <6>2 DEF Hears
        <5>2. QED
          BY <5>1
      <4>2. ~PauseMark("app") /\ ~StopMark("app")
        BY <1>1, <2>2 DEF CallSteps, InSeek, PauseMark, StopMark
      <4>3. QED
        BY <1>1, <3>3, <4>1, <4>2, PlayerMoves DEF PlayerStays, HandleEOS
    <3>4. QED
      BY <2>3, <3>1, <3>2, <3>3
  <2>6. QED
    BY <2>4, <2>5
<1>5. CASE SetPlaying("app")
  BY <1>1, <1>5, GoingStarts DEF Starts, Threads
<1>6. CASE Play("app") /\ ~ReadyToPlay
  <2>1. gst' = gst /\ m_PlayerState' = m_PlayerState
    BY <1>6 DEF Play, KeepStream, player
  <2>2. QED
    BY <1>6, <2>1, PlayRefused
<1>7. QED
  BY <1>3, <1>4, <1>5, <1>6, WantsNew

LEMMA PlayStoryKept ==
  ASSUME Pure' /\ ~Broken' => Certain
  PROVE  PlayStory'
  BY PauseComesKept, SeekComesKept, NotePausesKept, NotePlaysKept,
     StartsLastKept,
     PlayIsLastKept, PrerollPlaysKept, ReasonedKept, PlayWinsKept
     DEF PlayStory

LEMMA CallInvInit == Init => CallInv
<1> SUFFICES ASSUME Init PROVE CallInv
  OBVIOUS
<1> USE DEF Init
<1>1. pc["bus"] = "idle" /\ pc["app"] = "idle" /\ pc["pulse"] = "idle"
      /\ then["bus"] = "done" /\ then["app"] = "idle" /\ then["pulse"] = "idle"
  BY DEF Threads
<1>2. CallSteps /\ StallStep /\ Aim
  BY <1>1 DEF CallSteps, AppPauses, StallStep, Aim
<1>3. /\ News = {0} /\ talk[0].type = "NONE"
  BY <1>1 DEF News, talk, NoMessage
<1>4. PlaysEnd
  BY <1>3 DEF PlaysEnd, TellsPlay
<1>5. ~Noted /\ ~AppPauses /\ ~Hushed
  BY <1>1 DEF Noted, AppPauses, Hushed
<1>6. PauseStory
  BY <1>1, <1>5
     DEF PauseStory, Target, LastNews, NoteHeld, PauseNoted, Hush, NoStart
<1>7. PlayStory
  <2>1. PauseComes /\ SeekComes /\ NotePauses /\ NotePlays /\ StartsLast
    BY <1>4, <1>5
       DEF PauseComes, SeekComes, NotePauses, NotePlays, StartsLast
  <2>2. PlayIsLast /\ PrerollPlays /\ Reasoned /\ PlayWins
    BY <1>1 DEF PlayIsLast, PrerollPlays, Reasoned, PlayWins, Wants
  <2>3. QED
    BY <2>1, <2>2 DEF PlayStory
<1>8. QED
  BY <1>2, <1>6, <1>7 DEF CallInv

LEMMA CallInvNext == IndInv /\ CallInv /\ [Next]_vars => CallInv'
<1> SUFFICES ASSUME IndInv, CallInv, [Next]_vars PROVE CallInv'
  OBVIOUS
<1>1. /\ TypeOK /\ DisposeInv /\ Control /\ Stalling /\ Changing /\ BusIdle
      /\ Errors /\ Story
  BY DEF IndInv
<1>2. /\ PlayerType /\ FlagType /\ StreamType /\ MessageType /\ ThreadType
      /\ CountType
  BY <1>1, TypeParts
<1>3. MessageType' /\ Changing'
  BY <1>1, <1>2, MessageTypeKept, ChangingKept
<1>4. CallSteps /\ StallStep /\ Aim /\ PauseStory /\ PlayStory
  BY DEF CallInv
<1>5. CallSteps' /\ StallStep' /\ Aim'
  BY <1>1, <1>2, <1>4, CallStepsKept, StallStepKept, AimKept
<1>6. Soft' /\ ~Broken' => Going
  BY <1>1, <1>2, <1>3, <1>4, <1>5, GoesOn
<1>7. Pure' /\ ~Broken' => Certain
  <2> SUFFICES ASSUME Pure', ~Broken' PROVE Certain
    OBVIOUS
  <2>1. Going
    BY <1>6 DEF Pure, Soft
  <2>2. Pure /\ ~Broken
    BY <1>2, <2>1, CalmBefore DEF Pure, Going
  <2>3. Birth /\ LastTells /\ Chain /\ Repeats /\ Preroll /\ Notes
    BY <1>1, <2>2 DEF Story, Calm, Pure
  <2>4. /\ PauseComes /\ SeekComes /\ NotePauses /\ NotePlays /\ StartsLast
        /\ PlayIsLast /\ PrerollPlays /\ Reasoned /\ PlayWins
    BY <1>4, <2>2 DEF PlayStory
  <2>5. QED
    BY <1>1, <2>1, <2>2, <2>3, <2>4 DEF Certain
<1>8. PauseStory' /\ PlayStory'
  BY <1>6, <1>7, PauseStoryKept, PlayStoryKept
<1>9. QED
  BY <1>5, <1>8 DEF CallInv

LEMMA LastCallSettles == IndInv /\ CallInv => LastCallWins
<1> SUFFICES ASSUME IndInv, CallInv, Settled PROVE LastCallWins
  BY DEF LastCallWins
<1>1. /\ TypeOK /\ BusIdle /\ Errors /\ PauseStory /\ PlayStory
  BY DEF IndInv, CallInv
<1>2. /\ msg = NoMessage /\ messages = <<>> /\ gst.pending = "VOID"
      /\ dispose = "idle" /\ pc["app"] = "idle"
  BY <1>1 DEF BusIdle, Settled
<1>3. News = {0} /\ talk[0].type = "NONE"
  BY <1>2 DEF News, talk, NoMessage
<1>4. ~EndTold /\ ~Doomed /\ ~Ending
  BY <1>2, <1>3 DEF EndTold, TellsEnd, Doomed, TwoTell, Ending
<1>5. Broken => m_PlayerState = "Error"
  BY <1>2 DEF Broken, NoMessage
<1>6. ASSUME asked \in {"pause", "stop"}, crossed \ {"stall", "finish"} = {}
      PROVE  gst.state # "PLAYING"
  <2>1. Soft
    BY <1>2, <1>6 DEF Soft, Plain
  <2>2. CASE Broken
    BY <1>1, <1>5, <2>1, <2>2 DEF Errors, Soft
  <2>3. CASE ~Broken
    <3>1. Hushed
      BY <1>2, <1>6 DEF Hushed, Pausing
    <3>2. gst.target # "PLAYING" /\ Target
      BY <1>1, <2>1, <2>3, <3>1 DEF PauseStory, Hush
    <3>3. QED
      BY <1>2, <3>2 DEF Target
  <2>4. QED
    BY <2>2, <2>3
<1>7. ASSUME asked = "play", m_fRate # 0, crossed = {},
             m_PlayerState \notin {"Stalled", "Finished", "Error"}
      PROVE  gst.state = "PLAYING"
  <2>1. Soft /\ Pure /\ ~Broken
    BY <1>2, <1>5, <1>7 DEF Soft, Pure, Plain
  <2>2. Target /\ NotePlays /\ PlayWins
    BY <1>1, <2>1 DEF PauseStory, PlayStory
  <2>3. Wants /\ ~Noted
    BY <1>2, <1>4, <1>7, <2>2 DEF Wants, NotePlays
  <2>4. gst.target = "PLAYING"
    BY <1>4, <1>7, <2>2, <2>3 DEF PlayWins
  <2>5. QED
    BY <1>2, <2>2, <2>4 DEF Target
<1>8. QED
  BY <1>6, <1>7 DEF LastCallWins

\* What the application asked for last is what is heard once every call has
\* returned and the main loop has handled all messages: after Pause or Stop
\* the GStreamer pipeline does not play, whatever stalls, resumes, seeks and
\* changes of rate have interleaved with the call; after Play it does, unless
\* the player waits for data, has reached its end or has failed.  It holds
\* for any media, any number of calls, underruns and fatal errors, as long as
\* calls and messages have not crossed in the ways LastCallWins names.
THEOREM LastCallWinsWhenSettled == Spec => []LastCallWins
<1>1. Spec => []CallInv
  BY Invariance, CallInvInit, CallInvNext, PTL DEF Spec
<1>2. QED
  BY <1>1, Invariance, LastCallSettles, PTL

-----------------------------------------------------------------------------
(* The stopped pipeline.                                                   *)

\* The application makes no call once it has asked for the media to be deleted.
NoMoreCalls == dispose # "idle" => pc["app"] = "idle" /\ pc["pulse"] = "idle"

LEMMA OneThreadMoves ==
  ASSUME ThreadType, NEW t \in Threads, ThreadStep(t)
  PROVE  pc[t] # "idle" /\ \A u \in Threads \ {t} : pc'[u] = pc[u]
<1>1. CASE Play(t) \/ SetPlaying(t) \/ PauseTest(t) \/ PauseMark(t)
  BY <1>1 DEF ThreadType, Play, SetPlaying, PauseTest, PauseMark, Goto, Return
<1>2. CASE StopTest(t) \/ StopMark(t) \/ FinishTest(t) \/ InternalPause(t)
  BY <1>2 DEF ThreadType, StopTest, StopMark, FinishTest, InternalPause, Goto,
              Return
<1>3. CASE SetPaused(t) \/ SeekTest(t) \/ SeekPipeline(t) \/ SeekResume(t)
  BY <1>3 DEF ThreadType, SetPaused, SeekTest, SeekPipeline, SeekResume, Goto,
              Return
<1>4. CASE RateZero(t) \/ RateStore(t) \/ RateSeek(t) \/ PauseFails(t)
  BY <1>4 DEF ThreadType, RateZero, RateStore, RateSeek, PauseFails, Enter,
              Return
<1>5. QED
  BY <1>1, <1>2, <1>3, <1>4 DEF ThreadStep

LEMMA ThreadKeepsDispose ==
  ASSUME NEW t \in Threads, ThreadStep(t)
  PROVE  dispose' = dispose
<1> USE DEF dvars, KeepRest, KeepMedia
<1>1. CASE Play(t) \/ PauseTest(t) \/ PauseMark(t) \/ StopTest(t)
           \/ StopMark(t) \/ FinishTest(t) \/ InternalPause(t)
  BY <1>1 DEF Play, PauseTest, PauseMark, StopTest, StopMark, FinishTest,
              InternalPause
<1>2. CASE SetPlaying(t) \/ SetPaused(t)
  BY <1>2 DEF SetPlaying, SetPaused, Restarts, PipelineRestarts
<1>3. CASE SeekTest(t) \/ SeekPipeline(t) \/ SeekResume(t) \/ RateZero(t)
           \/ RateStore(t) \/ RateSeek(t) \/ PauseFails(t)
  BY <1>3 DEF SeekTest, SeekPipeline, SeekResume, RateZero, RateStore,
              RateSeek, PauseFails
<1>4. QED
  BY <1>1, <1>2, <1>3 DEF ThreadStep

\* Only Dispose's own steps move it.
LEMMA DisposeMoves ==
  ASSUME [Next]_vars
  PROVE  Dispose \/ dispose' = dispose
<1> USE DEF dvars
<1>1. CASE AsyncDone \/ Render \/ EndOfStream \/ Download \/ Underrun \/ Fault
  BY <1>1 DEF AsyncDone, Render, EndOfStream, Download, Underrun, Fault
<1>2. CASE (\E c \in Calls \ {"finish"} : Call(c)) \/ StopTimeReached
  BY <1>2 DEF Call, StopTimeReached
<1>3. CASE TakeMessage \/ BusMoves \/ HandleError \/ TornDown \/ HandlerDone
  BY <1>3 DEF TakeMessage, Dispatch, BusMoves, BusCallback, DropReference,
              BusCallbackDestroyNotify, FreeMeHere, HandleError, ErrorStops,
              TornDown, ErrorStopped, HandlerDone, HandlerReturns
<1>4. CASE HandleStateChanged \/ UpdatePlayerState \/ HandleEOS
           \/ HandleProgress \/ HandleUnderrun \/ Stall \/ HandleHLSBuffer
  BY <1>4 DEF HandleStateChanged, UpdatePlayerState, HandleEOS,
              HandleProgress, HandleUnderrun, Stall, HandleHLSBuffer, KeepBus
<1>5. CASE Pads \/ UNCHANGED vars
  BY <1>5 DEF Pads, PadAdded, OnParserSrcPadAdded, PadLinked, vars
<1>6. QED
  BY <1>1, <1>2, <1>3, <1>4, <1>5, NextCases, ThreadKeepsDispose

LEMMA NoMoreCallsKept == ThreadType /\ NoMoreCalls /\ [Next]_vars => NoMoreCalls'
<1> SUFFICES ASSUME ThreadType, NoMoreCalls, [Next]_vars PROVE NoMoreCalls'
  OBVIOUS
<1>1. CASE Dispose
  <2>1. dispose = "idle" /\ dispose' # "idle" =>
            pc["app"] = "idle" /\ pc["pulse"] = "idle"
    BY <1>1 DEF Dispose, StopPipeline, MarkDisposeInProgress, EnterDisposeLock,
                DestroySource, FinishDispose, FreeContent, DeletePipeline
  <2>2. pc' = pc
    BY <1>1 DEF Dispose, mvars, threads
  <2>3. QED
    BY <2>1, <2>2 DEF NoMoreCalls
<1>2. CASE dispose' = dispose
  <2> SUFFICES ASSUME dispose # "idle"
               PROVE  pc'["app"] = pc["app"] /\ pc'["pulse"] = pc["pulse"]
    BY <1>2 DEF NoMoreCalls
  <2>1. pc["app"] = "idle" /\ pc["pulse"] = "idle"
    BY DEF NoMoreCalls
  <2>2. ASSUME NEW t \in Threads, ThreadStep(t)
        PROVE  pc'["app"] = pc["app"] /\ pc'["pulse"] = pc["pulse"]
    BY <2>1, <2>2, OneThreadMoves DEF Threads
  <2>3. CASE AsyncDone \/ Render \/ EndOfStream \/ Download \/ Underrun
             \/ Fault \/ TakeMessage \/ BusMoves \/ Dispose \/ Pads
             \/ UNCHANGED vars
    BY <2>3 DEF AsyncDone, Render, EndOfStream, Download, Underrun, Fault,
                TakeMessage, BusMoves, Dispose, Pads, vars, mvars, threads
  <2>4. ~(\E c \in Calls \ {"finish"} : Call(c)) /\ ~StopTimeReached
    BY DEF Call, StopTimeReached
  <2>5. CASE HandleStateChanged \/ UpdatePlayerState \/ HandleEOS
             \/ HandleError \/ TornDown \/ HandleProgress \/ HandleUnderrun
             \/ Stall \/ HandleHLSBuffer \/ HandlerDone
    BY <2>5 DEF HandleStateChanged, UpdatePlayerState, HandleEOS, HandleError,
                TornDown, HandleProgress, HandleUnderrun, Stall,
                HandleHLSBuffer, HandlerDone, Goto, Enter, threads,
                ThreadType, Threads
  <2>6. QED
    BY <2>2, <2>3, <2>4, <2>5, NextCases
<1>3. QED
  BY <1>1, <1>2, DisposeMoves

LEMMA StoppedKept ==
  IndInv /\ NoMoreCalls /\ StoppedForGood /\ [Next]_vars => StoppedForGood'
<1> SUFFICES ASSUME IndInv, NoMoreCalls, StoppedForGood, [Next]_vars,
                    dispose' \notin {"idle", "called", "stopping"}
             PROVE  gst' = NullPipeline /\ messages' = <<>>
  BY DEF StoppedForGood
<1> DEFINE Stopped == dispose \notin {"idle", "called", "stopping"}
<1>1. CASE Dispose /\ ~Stopped
  BY <1>1 DEF Dispose, CallDispose, MarkDisposeInProgress, EnterDisposeLock,
              DestroySource, FinishDispose, FreeContent, DeletePipeline
<1>2. CASE Stopped
  <2>1. gst = NullPipeline /\ messages = <<>>
    BY <1>2 DEF StoppedForGood
  <2>2. gst.state = "NULL" /\ gst.pending = "VOID"
    BY <2>1 DEF NullPipeline
  <2>3. bus \notin {"handling", "stopping"} /\ \A t \in Threads : pc[t] = "idle"
    BY <1>2 DEF IndInv, DisposeInv, Closing, BusIdle, NoMoreCalls, Threads
  <2>4. ~(\E t \in Threads : ThreadStep(t))
    BY <2>3, OneThreadMoves, TypeParts DEF IndInv
  <2>5. ~(AsyncDone \/ Render \/ EndOfStream \/ Download \/ Underrun \/ Fault)
    BY <2>2 DEF AsyncDone, Render, EndOfStream, Download, Underrun, Fault,
                IsPlaying
  <2>6. ~(\E c \in Calls \ {"finish"} : Call(c)) /\ ~StopTimeReached
    BY <1>2 DEF Call, StopTimeReached
  <2>7. ~(HandleStateChanged \/ UpdatePlayerState \/ HandleEOS \/ HandleError
          \/ TornDown \/ HandleProgress \/ HandleUnderrun \/ Stall
          \/ HandleHLSBuffer \/ HandlerDone \/ TakeMessage)
    BY <2>1, <2>3 DEF HandleStateChanged, UpdatePlayerState, HandleEOS,
       HandleError, TornDown, ErrorStopped, HandleProgress, HandleUnderrun,
       Stall, HandleHLSBuffer, HandlerDone, HandlerReturns, Handling,
       TakeMessage, Threads
  <2>8. CASE BusMoves \/ Pads \/ UNCHANGED vars
    BY <2>1, <2>8 DEF BusMoves, Pads, vars, mvars
  <2>9. CASE Dispose
    BY <2>1, <2>9 DEF Dispose, mvars
  <2>10. QED
    BY <2>4, <2>5, <2>6, <2>7, <2>8, <2>9, NextCases
<1>3. QED
  BY <1>1, <1>2, DisposeMoves

\* The pipeline that Dispose has set to NULL stays there until it is released:
\* m_bIsDisposeInProgress is set under m_DisposeLock, so no handler of the bus
\* thread is at work when the pipeline is stopped and none begins afterwards,
\* and the application calls nothing any more.
THEOREM PipelineStaysStopped == Spec => []StoppedForGood
<1>1. Init => NoMoreCalls /\ StoppedForGood
  BY DEF Init, DisposeInit, NoMoreCalls, StoppedForGood
<1>2. IndInv /\ NoMoreCalls /\ StoppedForGood /\ [Next]_vars =>
          NoMoreCalls' /\ StoppedForGood'
  BY NoMoreCallsKept, StoppedKept, TypeParts DEF IndInv
<1>3. QED
  BY <1>1, <1>2, Invariance, PTL DEF Spec
=============================================================================
