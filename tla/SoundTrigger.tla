---------------------------- MODULE SoundTrigger ----------------------------
(***************************************************************************)
(* The sound trigger HAL (libaudio/sthal/sound_trigger_hw.c): two models,  *)
(* hotword and svoice, are recognised by the VTS processor.  The framework *)
(* loads, starts and stops them, the audio HAL streams what was said,      *)
(* records, and announces headsets and calls, and a callback thread turns  *)
(* uevents of the VTS into recognition callbacks.                          *)
(*                                                                         *)
(* Nearly everything happens under stdev->lock, so a function is one step  *)
(* up to its unlock or to the next place where it waits for somebody else: *)
(* a second lock, the end of the callback thread, a reader, a PCM device   *)
(* being opened.  Two calls do without the lock, and fall between the      *)
(* steps of the others: a stop that cannot get it, and the audio HAL's     *)
(* notice that it is about to record.  The stop's two assignments are one  *)
(* step, and the notice is split where it tests what it acts on; the       *)
(* places inside a step of another function at which it could also fall    *)
(* are left out, except for the opening of a PCM, which takes long.        *)
(*                                                                         *)
(* A mixer control can fail, so a function that sets some has a set of     *)
(* results, of which an action chooses one.                                *)
(***************************************************************************)
EXTENDS Integers, Sequences, FiniteSets

CONSTANTS
  Framework,   \* threads of the sound trigger service
  Audio,       \* threads of the audio HAL
  Worlds,      \* the circumstances under which the HAL may run, see world
  Capture,     \* the models whose configuration requests capture
  MaxEvents,   \* uevents that may wait in the callback thread's socket
  NoOne        \* the owner of a free lock

Models == {"hotword", "svoice"}
Callers == Framework \cup Audio

ASSUME CallersAssumption ==
  /\ Framework \cap Audio = {}
  /\ NoOne \notin Callers \cup {"thread", "reader"}
  /\ {"thread", "reader"} \cap Callers = {}
ASSUME CaptureAssumption == Capture \subseteq Models
ASSUME EventsAssumption == MaxEvents \in Nat \ {0}
ASSUME WorldsAssumption ==
  Worlds \subseteq [used : SUBSET Models, badPcms : BOOLEAN, faults : BOOLEAN]

VARIABLES
  world,           \* fixed from the start: the models the framework uses, whether a PCM may fail to
                   \* open, and whether mixer controls may fail and the audio HAL may announce a
                   \* recording amid other calls
  stdev,           \* struct sound_trigger_device, and the microphones whose controls were set
                   \* and not reset since
  lock, trigger_lock, recording_lock,
  pc,              \* where each caller is
  op,              \* the operation each caller is in, and its argument
  thread,          \* where the callback thread is
  events,          \* uevents in its socket
  term,            \* a termination message is in its socket
  notifier,        \* where the audio HAL's notice of a recording is
  quiet,           \* history: the models stopped and not started since
  leftOn           \* history: the call in progress could not switch everything off

vars == <<world, stdev, lock, trigger_lock, recording_lock, pc, op, thread, events, term, notifier,
          quiet, leftOn>>
locks == <<lock, trigger_lock, recording_lock>>
socket == <<thread, events, term>>
history == <<quiet, leftOn>>

\* What pcm_open() returns: a handle in every case, a bad one when the device cannot be opened.
\* The pointer to a recording that is null because a change of microphone failed is called "lost".
Pcm == {"open", "bad"}
Opens(pcm) == pcm = "open" \/ world.badPcms

NoOp == [name |-> "none", arg |-> "none"]
Idle == [place |-> "none", model |-> "none"]
Leaving == [place |-> "leaving", model |-> "none"]
Continuing == [place |-> "continuing", model |-> "none"]

\* The device after stdev_open(), which the service calls once, when it starts; every set holds
\* the models whose field is set; configs those whose configuration requests capture.
Opened ==
  [sthal_opened |-> TRUE, model_handles |-> {}, recognition_callbacks |-> {}, configs |-> {},
   model_execstate |-> [m \in Models |-> "none"], model_stopfailedhandles |-> {},
   recognize_started |-> {}, is_streaming |-> {}, is_seamless_recording |-> FALSE,
   streaming_pcm |-> "null", is_recording |-> FALSE, recording_pcm |-> "null",
   is_mic_configured |-> FALSE, active_mic |-> "main", mics |-> {},
   voicecall |-> FALSE, recog_cbstate |-> "none", callback_thread_active |-> FALSE,
   sockets |-> FALSE]

-----------------------------------------------------------------------------
(***************************************************************************)
(* The functions that are called with the lock held, as operators on the   *)
(* device.                                                                 *)
(***************************************************************************)
\* A failing control only warns.
stdev_vts_set_mic(d, on) ==
  CASE on /\ ~d.is_mic_configured ->
         [d EXCEPT !.is_mic_configured = TRUE, !.mics = @ \cup {d.active_mic}]
    [] ~on /\ d.is_mic_configured ->
         [d EXCEPT !.is_mic_configured = FALSE, !.mics = @ \ {d.active_mic}]
    [] OTHER -> d

\* How far the controls of these models get, hotword before svoice: the first failure is the end.
Completed(models) ==
  IF world.faults
  THEN {S \in SUBSET models : "svoice" \in S /\ "hotword" \in models => "hotword" \in S}
  ELSE {models}

\* What set_power does whatever it is asked for.
Unstreamed(d) ==
  [d EXCEPT !.is_streaming = {}, !.streaming_pcm = "null", !.is_seamless_recording = FALSE]

PoweredOn(d, S) == [stdev_vts_set_mic(d, TRUE) EXCEPT !.recognize_started = @ \cup S]

\* The models are stopped; the microphone is given up if all were, and nothing is recorded.
Stopped(d, S) == [d EXCEPT !.recognize_started = @ \ S]

MicNeeded(d) == d.recognize_started # {} \/ d.is_recording

PoweredOff(d, S) ==
  IF MicNeeded(Stopped(d, S)) THEN Stopped(d, S) ELSE stdev_vts_set_mic(Stopped(d, S), FALSE)

\* Mutant: the microphone stays on although nothing is recognised or recorded any more.
set_power_MicStays(d, models) ==
  IF models # {} THEN {PoweredOn(Unstreamed(d), S) : S \in Completed(models)}
  ELSE {Stopped(Unstreamed(d), S) : S \in Completed(d.recognize_started)}

stdev_vts_set_power(d, models) ==
  IF models # {} THEN {PoweredOn(Unstreamed(d), S) : S \in Completed(models)}
  ELSE {PoweredOff(Unstreamed(d), S) : S \in Completed(d.recognize_started)}

\* The VTS is switched off and on again for the models that have a callback.
PowerCycle(d) ==
  LET off == stdev_vts_set_power(d, {})
  IN  IF d.recognition_callbacks = {} THEN off
      ELSE UNION {stdev_vts_set_power(e, d.recognition_callbacks) : e \in off}

\* "If we're streaming, then we shouldn't touch the VTS's current state."
MayTouch(d, m) == d.is_streaming = {} \/ m \in d.is_streaming

\* One round of the loop in handle_stop_recognition_l().
Forgotten(d, m) ==
  [d EXCEPT !.model_execstate[m] = "none", !.model_stopfailedhandles = @ \ {m}]

StopAborted(d, m) ==
  LET aborted == d.model_execstate[m] = "stopabort" /\ m \in d.model_stopfailedhandles
      released == IF m \in d.recognition_callbacks \cup d.is_streaming
                  THEN [d EXCEPT !.configs = @ \ {m}, !.recognition_callbacks = @ \ {m}]
                  ELSE d
      forced == IF ~aborted THEN {d}
                ELSE IF MayTouch(released, m) THEN PowerCycle(released) ELSE {released}
  IN  {Forgotten(e, m) : e \in forced}

handle_stop_recognition_l(d) ==
  UNION {StopAborted(e, "svoice") : e \in StopAborted(d, "hotword")}

-----------------------------------------------------------------------------
(***************************************************************************)
(* Taking the lock, and returning.                                         *)
(***************************************************************************)
FrameworkOps ==
  [name : {"load", "unload", "start", "stop"}, arg : Models]
    \cup [name : {"close"}, arg : {"none"}]

CloseAgain == [name |-> "close", arg |-> "again"]

AudioOps ==
  [name : {"open_streaming", "close_streaming", "open_recording", "close_recording"},
   arg : {"none"}]
    \cup [name : {"headset"}, arg : {"main", "headset"}]
    \cup [name : {"voicecall"}, arg : BOOLEAN]

OpsOf(c) == IF c \in Framework THEN FrameworkOps ELSE AudioOps

NeedsTriggerLock(name) == name \in {"start", "stop", "open_streaming", "close_streaming"}
NeedsRecordingLock(name) == name \in {"open_recording", "close_recording"}

\* The second lock a function takes is free.
SecondLockFree(name) ==
  /\ NeedsTriggerLock(name) => trigger_lock = NoOne
  /\ NeedsRecordingLock(name) => recording_lock = NoOne

\* Mutant: a reader of the recording is not waited for.
CanClosePcms_NoWait ==
  stdev.is_streaming # {} /\ stdev.streaming_pcm \in Pcm => trigger_lock = NoOne

\* The PCM nodes are closed under the lock of their readers.
CanClosePcms ==
  /\ stdev.is_recording /\ stdev.recording_pcm \in Pcm => recording_lock = NoOne
  /\ stdev.is_streaming # {} /\ stdev.streaming_pcm \in Pcm => trigger_lock = NoOne

\* A headset that comes or goes, or a call that begins, while the microphone is on.
ClosesPcms(o) ==
  /\ o.name = "headset" \/ (o.name = "voicecall" /\ o.arg)
  /\ stdev.sthal_opened /\ stdev.is_mic_configured

MayCall(c) ==
  /\ pc[c] = "idle"
  /\ c \in Framework => stdev.sthal_opened

\* The function gets the lock and has to wait: for the second lock it needs, or for a reader
\* whose PCM it must close.
Delayed(c, o) ==
  /\ MayCall(c) /\ lock = NoOne
  /\ \/ ~SecondLockFree(o.name)
     \/ ClosesPcms(o) /\ ~CanClosePcms
  /\ lock' = c
  /\ pc' = [pc EXCEPT ![c] = "locked"]
  /\ op' = [op EXCEPT ![c] = o]
  /\ UNCHANGED <<stdev, trigger_lock, recording_lock, socket, notifier, history, world>>

\* Function o.name, called by c, has its locks.
In(c, o, name) ==
  /\ o.name = name
  /\ \/ MayCall(c) /\ lock = NoOne
     \/ pc[c] = "locked" /\ op[c] = o
  /\ SecondLockFree(name)

Freed(l, c) == IF l = c THEN NoOne ELSE l

\* The function leaves its locks and returns, with the device as d.
Return(c, d) ==
  /\ stdev' = d
  /\ lock' = NoOne
  /\ trigger_lock' = Freed(trigger_lock, c) /\ recording_lock' = Freed(recording_lock, c)
  /\ pc' = [pc EXCEPT ![c] = "idle"]
  /\ op' = [op EXCEPT ![c] = NoOp]
  /\ UNCHANGED notifier

\* The function goes on to another place, with the lock and the locks it needs.
GoesOn(c, o, place, d) ==
  /\ stdev' = d
  /\ lock' = c
  /\ trigger_lock' = IF NeedsTriggerLock(o.name) THEN c ELSE trigger_lock
  /\ recording_lock' = IF NeedsRecordingLock(o.name) THEN c ELSE recording_lock
  /\ pc' = [pc EXCEPT ![c] = place]
  /\ op' = [op EXCEPT ![c] = o]
  /\ UNCHANGED notifier

-----------------------------------------------------------------------------
(***************************************************************************)
(* The framework's operations.                                             *)
(***************************************************************************)
\* The model data may be refused by the driver.
stdev_load_sound_model(c, o) ==
  /\ In(c, o, "load")
  /\ \E ok \in BOOLEAN :
       Return(c, IF ok THEN [stdev EXCEPT !.model_handles = @ \cup {o.arg}] ELSE stdev)
  /\ UNCHANGED <<socket, history, world>>

\* A new callback thread with empty sockets, unless one is active.
ThreadStarted(d) == [d EXCEPT !.callback_thread_active = TRUE, !.sockets = TRUE]

stdev_start_callback_thread ==
  IF stdev.callback_thread_active THEN UNCHANGED socket
  ELSE /\ thread' = [place |-> "poll", model |-> "none"]
       /\ events' = <<>>
       /\ term' = FALSE

ThreadFailed(d) == [d EXCEPT !.callback_thread_active = FALSE, !.sockets = FALSE]

Configured(d, m) == [d EXCEPT !.configs = @ \cup ({m} \cap Capture)]

\* What stdev_start_recognition() does before it starts the callback thread.
StartPrepared(d, m) ==
  IF m \in d.recognition_callbacks /\ d.model_stopfailedhandles # {}
  THEN handle_stop_recognition_l(d) ELSE {d}

StartRefused(c, o) ==
  LET m == o.arg
  IN  /\ In(c, o, "start")
      /\ m \notin stdev.model_handles \/ stdev.voicecall
      /\ \E d \in IF m \notin stdev.model_handles THEN {stdev} ELSE StartPrepared(stdev, m) :
           Return(c, d)
      /\ UNCHANGED <<socket, history, world>>

StartFails(c, o) ==
  LET m == o.arg
  IN  /\ In(c, o, "start")
      /\ m \in stdev.model_handles /\ ~stdev.voicecall /\ ~stdev.callback_thread_active
      /\ \E d \in StartPrepared(stdev, m) : Return(c, ThreadFailed(Configured(d, m)))
      /\ UNCHANGED <<socket, history, world>>

Armed(d, m) == [d EXCEPT !.recognition_callbacks = @ \cup {m}]

Running(d, m) ==
  [d EXCEPT !.model_stopfailedhandles = @ \ {m}, !.model_execstate[m] = "running"]

stdev_start_recognition(c, o) ==
  LET m == o.arg
  IN  /\ In(c, o, "start")
      /\ m \in stdev.model_handles /\ ~stdev.voicecall
      /\ stdev_start_callback_thread
      /\ \E d \in StartPrepared(stdev, m) :
           LET e == Armed(ThreadStarted(Configured(d, m)), m)
           IN  \E f \in IF MayTouch(e, m) THEN PowerCycle(e) ELSE {e} : Return(c, Running(f, m))
      /\ quiet' = quiet \ {m}
      /\ UNCHANGED <<leftOn, world>>

\* stdev_stop_recognition() finds the lock taken, and looks again every millisecond.  It may get
\* the lock, which is like a later call; find the callback thread, which holds the lock, in a
\* callback; or give up after a hundred tries, when the lock may be free again.  The stop is then
\* only noted, without the lock, and returns an error.
TryLock(c, o) == MayCall(c) /\ o.name = "stop"

Noted(m) ==
  /\ stdev' = [stdev EXCEPT !.model_stopfailedhandles = @ \cup {m},
                            !.model_execstate[m] = "stopabort"]
  /\ quiet' = quiet \cup {m}

StopBusy(c, o) ==
  /\ TryLock(c, o) /\ lock # NoOne /\ stdev.recog_cbstate = "called"
  /\ IF stdev.voicecall \/ o.arg \notin stdev.model_handles
     THEN UNCHANGED <<stdev, quiet>>
     ELSE Noted(o.arg)
  /\ UNCHANGED <<locks, pc, op, socket, notifier, leftOn, world>>

StopTimeout(c, o) ==
  /\ TryLock(c, o)
  /\ Noted(o.arg)
  /\ UNCHANGED <<locks, pc, op, socket, notifier, leftOn, world>>

\* The model can be stopped: stdev_stop_recognition_l() does not return early.
Stoppable(m) ==
  ~stdev.voicecall /\ m \in stdev.model_handles
    /\ m \in stdev.recognition_callbacks \cup stdev.is_streaming

Disarmed(m) ==
  [stdev EXCEPT !.configs = @ \ {m}, !.recognition_callbacks = @ \ {m}]

\* It was the last model, so the callback thread is ended.
MustJoin(m) ==
  /\ Stoppable(m) /\ MayTouch(Disarmed(m), m)
  /\ Disarmed(m).recognition_callbacks = {} /\ stdev.callback_thread_active

\* The rest of stdev_stop_recognition_l(), and of the unload that called it.
StopRest(o, d) ==
  LET m == o.arg
      e == [d EXCEPT !.model_stopfailedhandles = @ \ {m}, !.model_execstate[m] = "none"]
  IN  IF o.name = "unload" THEN [e EXCEPT !.model_handles = @ \ {m}] ELSE e

\* Nothing to stop, or a voice call is in progress; an unload goes on all the same.
StopRefused(c, o) ==
  LET m == o.arg
  IN  /\ In(c, o, "stop") \/ In(c, o, "unload")
      /\ ~Stoppable(m)
      /\ Return(c, IF o.name = "unload" THEN [stdev EXCEPT !.model_handles = @ \ {m}]
                                            ELSE stdev)
      /\ UNCHANGED <<socket, history, world>>

\* The end of stdev_join_callback_thread(): the VTS is switched off and the sockets closed.
ShutDown(d) == {[e EXCEPT !.sockets = FALSE] : e \in stdev_vts_set_power(d, {})}

stdev_stop_recognition_l(c, o) ==
  LET m == o.arg
      d == Disarmed(m)
  IN  /\ In(c, o, "stop") \/ In(c, o, "unload")
      /\ Stoppable(m) /\ ~MustJoin(m)
      /\ LET last == d.recognition_callbacks = {}
             ends == IF ~MayTouch(d, m) THEN {d}
                     ELSE IF last THEN ShutDown(d) ELSE PowerCycle(d)
         IN  \E e \in ends : Return(c, StopRest(o, e))
      /\ quiet' = quiet \cup {m}
      /\ UNCHANGED <<socket, leftOn, world>>

\* The callback thread will read its sockets again; what they hold is of no interest otherwise.
Listening == thread.place \in {"poll", "called", "callback", "continuing"}

\* stdev_join_callback_thread(): the termination message is sent and the lock given up.
StopJoins(c, o) ==
  LET m == o.arg
  IN  /\ In(c, o, "stop") \/ In(c, o, "unload")
      /\ MustJoin(m)
      /\ stdev' = Disarmed(m)
      /\ term' = Listening
      /\ lock' = NoOne
      /\ trigger_lock' = IF o.name = "stop" THEN c ELSE trigger_lock
      /\ pc' = [pc EXCEPT ![c] = "joining"]
      /\ op' = [op EXCEPT ![c] = o]
      /\ UNCHANGED <<recording_lock, thread, events, notifier, history, world>>

\* pthread_join() looks up the thread in stdev->callback_thread, without the lock.
Join(c) ==
  /\ pc[c] = "joining"
  /\ pc' = [pc EXCEPT ![c] = IF thread.place = "none" THEN "joined" ELSE "waiting"]
  /\ UNCHANGED <<stdev, locks, op, socket, notifier, history, world>>

StopJoined(c) ==
  /\ pc[c] = "joined" /\ op[c].name \in {"stop", "unload"} /\ lock = NoOne
  /\ \E d \in ShutDown(stdev) : Return(c, StopRest(op[c], d))
  /\ quiet' = quiet \cup {op[c].arg}
  /\ UNCHANGED <<socket, leftOn, world>>

\* stdev_close() joins the thread itself and again through stdev_close_mixer(), when the sockets
\* are closed already and no message gets through.
CloseJoins(c, o) ==
  /\ In(c, o, "close") /\ stdev.sthal_opened /\ stdev.callback_thread_active
  /\ term' = Listening
  /\ pc' = [pc EXCEPT ![c] = "joining"]
  /\ op' = [op EXCEPT ![c] = o]
  /\ UNCHANGED <<stdev, locks, thread, events, notifier, history, world>>

CloseJoined(c) == pc[c] = "joined" /\ op[c].name = "close" /\ lock = NoOne

CloseJoinsAgain(c) ==
  /\ CloseJoined(c) /\ op[c].arg = "none" /\ stdev.callback_thread_active
  /\ stdev' \in ShutDown(stdev)
  /\ pc' = [pc EXCEPT ![c] = "joining"]
  /\ op' = [op EXCEPT ![c].arg = "again"]
  /\ UNCHANGED <<locks, socket, notifier, history, world>>

Closed(d) ==
  [d EXCEPT !.recognition_callbacks = {}, !.configs = {}, !.sthal_opened = FALSE]

\* Both joins and stdev_close_mixer() switch the VTS off, which comes to doing it once: what a
\* failing control leaves on is among the results either way.
stdev_close(c, o) ==
  /\ \/ In(c, o, "close") /\ (stdev.sthal_opened => ~stdev.callback_thread_active)
     \/ CloseJoined(c) /\ o = op[c] /\ (stdev.callback_thread_active => o.arg = "again")
  /\ \/ ~stdev.sthal_opened /\ Return(c, stdev)
     \/ stdev.sthal_opened /\ \E d \in ShutDown(stdev) : Return(c, Closed(d))
  /\ quiet' = IF stdev.sthal_opened THEN Models ELSE quiet
  /\ UNCHANGED <<socket, leftOn, world>>

-----------------------------------------------------------------------------
(***************************************************************************)
(* The audio HAL's operations.                                             *)
(***************************************************************************)
StreamOpenable ==
  /\ stdev.sthal_opened /\ ~stdev.voicecall
  /\ stdev.is_streaming # {} /\ ~stdev.is_seamless_recording

sound_trigger_open_for_streaming(c, o) ==
  /\ In(c, o, "open_streaming")
  /\ IF StreamOpenable THEN GoesOn(c, o, "opening", stdev) ELSE Return(c, stdev)
  /\ UNCHANGED <<socket, history, world>>

\* pcm_open() returns, and the pointer to the PCM is set before the flag.
StreamOpens(c) ==
  /\ pc[c] = "opening" /\ op[c].name = "open_streaming"
  /\ \E pcm \in Pcm :
       LET d == [stdev EXCEPT !.streaming_pcm = pcm]
       IN  Opens(pcm) /\ IF pcm = "open" THEN GoesOn(c, op[c], "opened", d) ELSE Return(c, d)
  /\ UNCHANGED <<socket, history, world>>

StreamIsOpen(c) ==
  /\ pc[c] = "opened" /\ op[c].name = "open_streaming"
  /\ Return(c, [stdev EXCEPT !.is_seamless_recording = TRUE])
  /\ UNCHANGED <<socket, history, world>>

StreamClosable ==
  /\ stdev.sthal_opened /\ ~stdev.voicecall
  /\ stdev.is_seamless_recording /\ stdev.is_streaming # {}

\* Starting the callback thread may fail here too, and nobody looks.
sound_trigger_close_for_streaming(c, o) ==
  LET models == stdev.recognition_callbacks
      off == stdev_vts_set_power(stdev, {})
  IN  /\ In(c, o, "close_streaming")
      /\ ~StreamClosable \/ stdev.streaming_pcm \in Pcm
      /\ \/ ~StreamClosable /\ Return(c, stdev) /\ UNCHANGED socket
         \/ /\ StreamClosable /\ models = {}
            /\ \E d \in off : Return(c, d)
            /\ UNCHANGED socket
         \/ /\ StreamClosable /\ models # {}
            /\ \E d \in off : \E e \in stdev_vts_set_power(ThreadStarted(d), models) : Return(c, e)
            /\ stdev_start_callback_thread
         \/ /\ StreamClosable /\ models # {} /\ ~stdev.callback_thread_active
            /\ \E d \in off : \E e \in stdev_vts_set_power(ThreadFailed(d), models) : Return(c, e)
            /\ UNCHANGED socket
      /\ UNCHANGED <<history, world>>

\* The microphone is given up when neither a model nor a stream uses it.
MicUnused(d) == d.recognition_callbacks = {} /\ d.is_streaming = {}

RecordClosed(d) == [d EXCEPT !.recording_pcm = "null", !.is_recording = FALSE]

\* A recording is ended, and the microphone switched off before is_recording is cleared.
RecordEnded(d) == RecordClosed(IF MicUnused(d) THEN stdev_vts_set_mic(d, FALSE) ELSE d)

sound_trigger_open_recording(c, o) ==
  LET d == IF stdev.is_recording THEN RecordEnded(stdev) ELSE stdev
  IN  /\ In(c, o, "open_recording")
      /\ IF stdev.sthal_opened /\ ~stdev.voicecall
         THEN GoesOn(c, o, "opening", stdev_vts_set_mic(d, TRUE))
         ELSE Return(c, stdev)
      /\ UNCHANGED <<socket, history, world>>

\* pcm_open() returns.
RecordOpens(c) ==
  /\ pc[c] = "opening" /\ op[c].name = "open_recording"
  /\ \E pcm \in Pcm :
       /\ Opens(pcm)
       /\ Return(c, [stdev EXCEPT !.recording_pcm = pcm, !.is_recording = (pcm = "open")])
  /\ UNCHANGED <<socket, history, world>>

\* sound_trigger_close_recording() first handles aborted stops.
Cleaned(d) == IF d.model_stopfailedhandles # {} THEN handle_stop_recognition_l(d) ELSE {d}

sound_trigger_close_recording(c, o) ==
  /\ In(c, o, "close_recording")
  /\ \/ (~stdev.sthal_opened \/ stdev.voicecall) /\ Return(c, stdev)
     \/ /\ stdev.sthal_opened /\ ~stdev.voicecall
        /\ stdev.is_recording => stdev.recording_pcm \in Pcm
        /\ \E d \in Cleaned(stdev) : Return(c, IF d.is_recording THEN RecordEnded(d) ELSE d)
  /\ UNCHANGED <<socket, history, world>>

\* pcm_close() of a null pointer ends the process, and init starts it again.
CloseNull(c, o) ==
  /\ \/ /\ In(c, o, "close_streaming") /\ StreamClosable /\ stdev.streaming_pcm \notin Pcm
     \/ /\ In(c, o, "close_recording") /\ stdev.sthal_opened /\ ~stdev.voicecall
        /\ stdev.is_recording /\ stdev.recording_pcm \notin Pcm
  /\ stdev' = Opened
  /\ lock' = NoOne /\ trigger_lock' = NoOne /\ recording_lock' = NoOne
  /\ pc' = [b \in Callers |-> "idle"]
  /\ op' = [b \in Callers |-> NoOp]
  /\ thread' = Idle /\ events' = <<>> /\ term' = FALSE
  /\ notifier' = "idle"
  /\ quiet' = Models /\ leftOn' = FALSE
  /\ UNCHANGED world

StreamClosed(d) == [d EXCEPT !.streaming_pcm = "null", !.is_seamless_recording = FALSE]

PcmsClosed(d) ==
  LET e == IF d.is_recording THEN RecordClosed(d) ELSE d
  IN  IF d.is_streaming # {} THEN StreamClosed(e) ELSE e

MicChanged(d, mic, rec) == [d EXCEPT !.active_mic = mic, !.is_recording = rec]

Resumed(d, streaming, seamless) ==
  [d EXCEPT !.is_streaming = streaming, !.is_seamless_recording = seamless]

\* The models and the stream are started again, and the microphone is switched on for a recording.
Restarted(e, d) ==
  LET models == d.recognition_callbacks \cup d.is_streaming
      on == IF models = {} THEN {e}
            ELSE {Resumed(f, d.is_streaming, d.is_seamless_recording) :
                    f \in stdev_vts_set_power(e, models)}
  IN  {IF f.is_recording THEN stdev_vts_set_mic(f, TRUE) ELSE f : f \in on}

\* Mutant: the recording is still marked while the VTS is switched off for the new microphone.
Remicked_KeepsRecording(d, mic) ==
  LET closed == [PcmsClosed(d) EXCEPT !.is_recording = d.is_recording]
  IN  UNION {Restarted(MicChanged(e, mic, d.is_recording), d) : e \in stdev_vts_set_power(closed, {})}

\* Everything goes off, the microphone changes, and what was on goes on again, up to the PCMs.
Remicked(d, mic) ==
  UNION {Restarted(MicChanged(e, mic, d.is_recording), d) :
           e \in stdev_vts_set_power(PcmsClosed(d), {})}

sound_trigger_headset_status(c, o) ==
  /\ In(c, o, "headset")
  /\ \/ ~stdev.sthal_opened /\ Return(c, stdev)
     \/ /\ stdev.sthal_opened /\ ~stdev.is_mic_configured
        /\ Return(c, [stdev EXCEPT !.active_mic = o.arg])
     \/ /\ stdev.sthal_opened /\ stdev.is_mic_configured /\ CanClosePcms
        /\ \E d \in Remicked(stdev, o.arg) : GoesOn(c, o, "opening", d)
  /\ UNCHANGED <<socket, history, world>>

\* The PCM of the recording is opened again, before that of the stream; a failure ends it.
RecordReopens(c) ==
  /\ pc[c] = "opening" /\ op[c].name = "headset"
  /\ \E pcm \in Pcm :
       LET d == IF stdev.is_recording THEN [stdev EXCEPT !.recording_pcm = pcm] ELSE stdev
           failed == stdev.is_recording /\ pcm = "bad"
           streams == d.is_streaming # {} /\ d.is_seamless_recording /\ d.streaming_pcm = "null"
       IN  Opens(pcm) /\ IF ~failed /\ streams THEN GoesOn(c, op[c], "opened", d) ELSE Return(c, d)
  /\ UNCHANGED <<socket, history, world>>

\* When the stream cannot be opened again the recording is closed, under the lock of its reader.
StreamReopens(c) ==
  /\ pc[c] = "opened" /\ op[c].name = "headset"
  /\ \/ Return(c, [stdev EXCEPT !.streaming_pcm = "open"])
     \/ /\ Opens("bad")
        /\ stdev.recording_pcm \in Pcm => recording_lock = NoOne
        /\ Return(c, [stdev EXCEPT !.streaming_pcm = "bad",
                                  !.recording_pcm = IF @ \in Pcm THEN "lost" ELSE @])
  /\ UNCHANGED <<socket, history, world>>

\* The device when a call has begun.
CutOff(d) ==
  {[e EXCEPT !.recognition_callbacks = {}] :
     e \in stdev_vts_set_power([PcmsClosed(d) EXCEPT !.is_streaming = {}], {})}

InCall(d, started) == [d EXCEPT !.voicecall = started]

\* A call finds the microphone off, and looks no further.
CallSkips(d) == ~d.is_mic_configured /\ (d.recognition_callbacks # {} \/ d.is_recording)

sound_trigger_voicecall_status(c, o) ==
  LET cut == o.arg /\ stdev.is_mic_configured
  IN  /\ In(c, o, "voicecall")
      /\ \/ ~stdev.sthal_opened /\ Return(c, stdev) /\ UNCHANGED leftOn
         \/ /\ stdev.sthal_opened
            /\ cut => CanClosePcms
            /\ \E d \in IF cut THEN CutOff(stdev) ELSE {stdev} :
                 /\ Return(c, InCall(d, o.arg))
                 /\ leftOn' = (o.arg /\ (CallSkips(stdev) \/ (cut /\ d.recognize_started # {})))
      /\ UNCHANGED <<socket, quiet, world>>

\* sound_trigger_read_recording_samples() and sound_trigger_read_samples(): a reader is in
\* pcm_read() with the lock of its PCM, which serialises it with other readers.
ReadRecording ==
  /\ recording_lock = NoOne
  /\ stdev.sthal_opened /\ ~stdev.voicecall
  /\ stdev.is_recording /\ stdev.recording_pcm = "open"
  /\ recording_lock' = "reader"
  /\ UNCHANGED <<stdev, lock, trigger_lock, pc, op, socket, notifier, history, world>>

ReadSamples ==
  /\ trigger_lock = NoOne
  /\ stdev.sthal_opened /\ ~stdev.voicecall
  /\ stdev.is_streaming # {} /\ stdev.streaming_pcm = "open"
  /\ trigger_lock' = "reader"
  /\ UNCHANGED <<stdev, lock, recording_lock, pc, op, socket, notifier, history, world>>

ReadReturns ==
  /\ \/ recording_lock = "reader" /\ recording_lock' = NoOne /\ UNCHANGED trigger_lock
     \/ trigger_lock = "reader" /\ trigger_lock' = NoOne /\ UNCHANGED recording_lock
  /\ UNCHANGED <<stdev, lock, pc, op, socket, notifier, history, world>>

\* The audio HAL is about to record.  This one takes no lock, and may find it free all the same.
sound_trigger_notify_ahal_record_status ==
  /\ notifier = "idle" /\ lock = NoOne
  /\ stdev.is_mic_configured
  /\ stdev' \in stdev_vts_set_power(stdev, {})
  /\ UNCHANGED <<locks, pc, op, socket, notifier, history, world>>

\* Otherwise it runs beside the steps of others: is_mic_configured is tested, the models are
\* stopped and what needs the microphone is looked up, and the microphone is switched off.
NotifyTests ==
  /\ world.faults /\ notifier = "idle"
  /\ stdev.is_mic_configured
  /\ notifier' = "power"
  /\ UNCHANGED <<stdev, locks, pc, op, socket, history, world>>

NotifyPower ==
  /\ notifier = "power"
  /\ \E S \in Completed(stdev.recognize_started) : stdev' = Stopped(Unstreamed(stdev), S)
  /\ notifier' = IF MicNeeded(stdev') THEN "idle" ELSE "mic"
  /\ UNCHANGED <<locks, pc, op, socket, history, world>>

NotifyMic ==
  /\ notifier = "mic"
  /\ stdev' = stdev_vts_set_mic(stdev, FALSE)
  /\ notifier' = "idle"
  /\ UNCHANGED <<locks, pc, op, socket, history, world>>

Notify ==
  sound_trigger_notify_ahal_record_status \/ NotifyTests \/ NotifyPower \/ NotifyMic

-----------------------------------------------------------------------------
(***************************************************************************)
(* The VTS and the callback thread.                                        *)
(***************************************************************************)
\* The VTS recognises what was started, or what a failing control has started all the same.
Trigger(m) ==
  /\ m \in world.used
  /\ world.faults \/ m \in stdev.recognize_started
  /\ Listening /\ stdev.sockets /\ Len(events) < MaxEvents
  /\ events' = Append(events, m)
  /\ UNCHANGED <<stdev, locks, pc, op, thread, term, notifier, history, world>>

\* After the callback, or instead of it: the thread ends and leaves the VTS streaming, completes
\* stops that were aborted meanwhile, and goes on if a model still has a callback.
AfterEvent(m, d, queue) ==
  LET captures == d.model_execstate[m] = "running" /\ m \in d.configs
      failed == d.model_stopfailedhandles # {} \/ d.model_execstate[m] = "stopabort"
      handled == IF failed THEN {[e EXCEPT !.model_execstate[m] = "none"] :
                                   e \in handle_stop_recognition_l(d)}
                 ELSE {d}
      leaves == thread' = Leaving /\ events' = <<>> /\ term' = FALSE
  IN  \/ captures /\ stdev' = [d EXCEPT !.is_streaming = {m}] /\ leaves
      \/ /\ ~captures
         /\ \E e \in handled :
              \/ /\ e.recognition_callbacks # {}
                 /\ stdev' \in PowerCycle(e)
                 /\ thread' = Continuing /\ events' = queue /\ UNCHANGED term
              \/ /\ e.recognition_callbacks = {}
                 /\ stdev' \in IF e.is_streaming = {} THEN stdev_vts_set_power(e, {}) ELSE {e}
                 /\ leaves

\* Mutant: a stop that was only noted does not keep the model from being called.
Called_AnyState(m) == m \in stdev.recognition_callbacks

Called(m) == stdev.model_execstate[m] = "running" /\ m \in stdev.recognition_callbacks

\* A uevent is read.  The callback is called in a step of its own: a stop that does without the
\* lock may be noted before.
ThreadEvent ==
  LET m == Head(events)
  IN  /\ thread.place = "poll" /\ lock = NoOne /\ stdev.sockets /\ events # <<>>
      /\ lock' = "thread"
      /\ IF Called(m)
         THEN /\ stdev' = [stdev EXCEPT !.recog_cbstate = "called"]
              /\ thread' = [place |-> "called", model |-> m]
              /\ events' = Tail(events)
              /\ UNCHANGED term
         ELSE AfterEvent(m, stdev, Tail(events))
      /\ UNCHANGED <<trigger_lock, recording_lock, pc, op, notifier, history, world>>

ThreadCalls ==
  /\ thread.place = "called"
  /\ thread' = [thread EXCEPT !.place = "callback"]
  /\ UNCHANGED <<stdev, locks, pc, op, events, term, notifier, history, world>>

CallbackReturns ==
  LET m == thread.model
  IN  /\ thread.place = "callback"
      /\ AfterEvent(m, [stdev EXCEPT !.recognition_callbacks = @ \ {m}], events)
      /\ UNCHANGED <<locks, pc, op, notifier, history, world>>

\* Mutant: the lock is not released on the way out.
ThreadUnlocks_Leaves ==
  LET ends == thread.place = "leaving"
  IN  /\ thread.place \in {"leaving", "continuing"}
      /\ stdev' = [stdev EXCEPT !.recog_cbstate = "none",
                                !.callback_thread_active = @ /\ ~ends]
      /\ lock' = IF ends THEN lock ELSE NoOne
      /\ thread' = IF ends THEN Idle ELSE [thread EXCEPT !.place = "poll"]
      /\ pc' = [c \in Callers |-> IF ends /\ pc[c] = "waiting" THEN "joined" ELSE pc[c]]
      /\ UNCHANGED <<trigger_lock, recording_lock, op, events, term, notifier, history, world>>

\* The thread unlocks, and polls again or has ended.
ThreadUnlocks ==
  LET ends == thread.place = "leaving"
  IN  /\ thread.place \in {"leaving", "continuing"}
      /\ stdev' = [stdev EXCEPT !.recog_cbstate = "none",
                                !.callback_thread_active = @ /\ ~ends]
      /\ lock' = NoOne
      /\ thread' = IF ends THEN Idle ELSE [thread EXCEPT !.place = "poll"]
      /\ pc' = [c \in Callers |-> IF ends /\ pc[c] = "waiting" THEN "joined" ELSE pc[c]]
      /\ UNCHANGED <<trigger_lock, recording_lock, op, events, term, notifier, history, world>>

ThreadEnds ==
  /\ thread.place = "poll" /\ lock = NoOne /\ stdev.sockets
  /\ lock' = "thread"
  /\ stdev' \in IF stdev.is_streaming = {} THEN stdev_vts_set_power(stdev, {}) ELSE {stdev}
  /\ thread' = Leaving
  /\ events' = <<>> /\ term' = FALSE
  /\ UNCHANGED <<trigger_lock, recording_lock, pc, op, notifier, history, world>>

\* The termination message, read only when there is no uevent.
ThreadTerminated == term /\ events = <<>> /\ ThreadEnds

\* An error of poll().
ThreadFails == ThreadEnds

-----------------------------------------------------------------------------
Init ==
  /\ world \in Worlds
  /\ stdev = Opened
  /\ lock = NoOne /\ trigger_lock = NoOne /\ recording_lock = NoOne
  /\ pc = [c \in Callers |-> "idle"]
  /\ op = [c \in Callers |-> NoOp]
  /\ thread = Idle /\ events = <<>> /\ term = FALSE
  /\ notifier = "idle"
  /\ quiet = Models /\ leftOn = FALSE

\* The operation is about a model the framework uses, if about a model.
OfUsed(o) == o.name \in {"load", "unload", "start", "stop"} => o.arg \in world.used

\* The operations c may be in.
Offered(c) == {o \in IF pc[c] = "idle" THEN OpsOf(c) ELSE {op[c]} : OfUsed(o)}

FrameworkCall(c, o) ==
  /\ lock \in {NoOne, c}
  /\ \/ stdev_load_sound_model(c, o)
     \/ StartRefused(c, o) \/ StartFails(c, o) \/ stdev_start_recognition(c, o)
     \/ StopRefused(c, o) \/ stdev_stop_recognition_l(c, o) \/ StopJoins(c, o)
     \/ CloseJoins(c, o) \/ stdev_close(c, o)

FrameworkStep(c) ==
  \/ Join(c) \/ StopJoined(c) \/ CloseJoinsAgain(c)
  \/ \E o \in FrameworkOps : OfUsed(o) /\ (StopBusy(c, o) \/ StopTimeout(c, o))

AudioCall(c, o) ==
  /\ lock \in {NoOne, c}
  /\ \/ sound_trigger_open_for_streaming(c, o) \/ sound_trigger_close_for_streaming(c, o)
     \/ sound_trigger_open_recording(c, o) \/ sound_trigger_close_recording(c, o)
     \/ CloseNull(c, o)
     \/ sound_trigger_headset_status(c, o) \/ sound_trigger_voicecall_status(c, o)

\* A PCM is open, or not.
AudioStep(c) ==
  \/ StreamOpens(c) \/ StreamIsOpen(c) \/ RecordOpens(c)
  \/ RecordReopens(c) \/ StreamReopens(c)

Read == ReadRecording \/ ReadSamples \/ ReadReturns

ThreadStep ==
  \/ ThreadEvent \/ ThreadCalls \/ CallbackReturns \/ ThreadUnlocks \/ ThreadTerminated \/ ThreadFails

Next ==
  \/ \E c \in Callers : \E o \in Offered(c) : Delayed(c, o)
  \/ \E c \in Framework : FrameworkStep(c)
  \/ \E c \in Framework : \E o \in Offered(c) : FrameworkCall(c, o)
  \/ Read
  \/ \E c \in Audio : \E o \in Offered(c) : AudioCall(c, o)
  \/ \E c \in Audio : AudioStep(c)
  \/ Notify
  \/ \E m \in Models : Trigger(m)
  \/ ThreadStep

Spec == Init /\ [][Next]_vars

-----------------------------------------------------------------------------
ExecStates == [Models -> {"none", "running", "stopabort"}]

Device ==
  [sthal_opened : BOOLEAN, model_handles : SUBSET Models,
   recognition_callbacks : SUBSET Models, configs : SUBSET Models,
   model_execstate : ExecStates,
   model_stopfailedhandles : SUBSET Models, recognize_started : SUBSET Models,
   is_streaming : SUBSET Models, is_seamless_recording : BOOLEAN,
   streaming_pcm : {"null"} \cup Pcm, is_recording : BOOLEAN,
   recording_pcm : {"null", "lost"} \cup Pcm, is_mic_configured : BOOLEAN,
   active_mic : {"main", "headset"}, mics : SUBSET {"main", "headset"},
   voicecall : BOOLEAN, recog_cbstate : {"none", "called"},
   callback_thread_active : BOOLEAN, sockets : BOOLEAN]

\* The places at which a caller has the lock.
Holding == {"locked", "opening", "opened"}

\* Type invariant, and the lock is held by nobody who is past its unlock: a caller that waits for
\* something or opens a PCM with it, or the callback thread inside its loop.
TypeOK ==
  /\ stdev \in Device
  /\ lock \in Callers \cup {NoOne, "thread"}
  /\ \A c \in Callers : lock = c <=> pc[c] \in Holding
  /\ lock = "thread" <=> thread.place \in {"called", "callback", "leaving", "continuing"}
  /\ trigger_lock \in Callers \cup {NoOne, "reader"}
  /\ recording_lock \in Callers \cup {NoOne, "reader"}
  /\ pc \in [Callers -> Holding \cup {"idle", "joining", "waiting", "joined"}]
  /\ \A c \in Callers : op[c] \in OpsOf(c) \cup {NoOp, CloseAgain}
  /\ thread \in [place : {"none", "poll", "called", "callback", "leaving", "continuing"},
                 model : Models \cup {"none"}]
  /\ events \in Seq(Models) /\ Len(events) <= MaxEvents
  /\ term \in BOOLEAN /\ notifier \in {"idle", "power", "mic"}
  /\ quiet \subseteq Models /\ leftOn \in BOOLEAN

\* Once a stop of a model has returned, done or noted, outside a call, no uevent makes the callback
\* thread decide to call that model's recognition callback before it is started again: neither one
\* that was waiting in the socket, nor one that comes while the thread is being joined with the
\* lock released.  A callback decided on before may still come, but only after a stop that was
\* noted without the lock and returned an error.
QuietAfterStop ==
  [][/\ thread.place # "called" /\ thread'.place = "called" => thread'.model \notin quiet
     /\ thread.place # "callback" /\ thread'.place = "callback" =>
          (thread'.model \in quiet => stdev.model_execstate[thread'.model] = "stopabort")]_vars

\* Nothing is switched on in a voice call: once a call has switched the VTS off, it records
\* nothing, has no microphone and no model armed until the call ends, whatever uevents were still
\* waiting, whichever control fails and whoever was in the middle of an operation.  A call leaves
\* something on only if a model could not be stopped, or if it found the microphone off under an
\* armed model or a recording.
SilentInCall ==
  stdev.voicecall /\ ~leftOn =>
    ~stdev.is_recording /\ ~stdev.is_mic_configured /\ stdev.recognition_callbacks = {}

\* Somebody is in the middle of ending the callback thread, without the lock.
Ending == \E c \in Callers : pc[c] \in {"joining", "waiting", "joined"}

\* As long as no control fails and the audio HAL's notice finds the lock free, switching between
\* microphones leaves none behind, the one that is on is the active one, and it is on whenever
\* something is recorded or a model with a callback is recognised.  Only while somebody is ending
\* the callback thread may a model be started that is armed, and deaf.
RightMic ==
  ~world.faults =>
    /\ stdev.mics = IF stdev.is_mic_configured THEN {stdev.active_mic} ELSE {}
    /\ stdev.is_recording => stdev.is_mic_configured
    /\ stdev.recognize_started \cap stdev.recognition_callbacks # {} /\ ~Ending
         => stdev.is_mic_configured

\* The audio HAL is changing the microphone.
Reopening == \E c \in Audio : pc[c] = "opening" /\ op[c].name = "headset"

\* The PCM of a recording is there as long as the recording is, and is never closed under its
\* reader: neither by closing or repeating the recording, nor by a headset or a call.  It is gone
\* only while the microphone changes, and after a change that failed.
PcmKept ==
  /\ recording_lock = "reader" => stdev.recording_pcm = "open"
  /\ stdev.is_recording /\ ~Reopening => stdev.recording_pcm # "null"

\* A stop that waits for the callback thread to end is not waited for by whoever keeps that
\* thread from ending: stdev_stop_recognition() tries its lock "to avoid ST HWservice Framework
\* deadlock situation", yet joins the thread with trigger_lock held.
NoCircularWait ==
  \A c \in Framework, b \in Callers :
    ~(/\ pc[c] = "waiting" /\ trigger_lock = c /\ thread.place = "poll"
      /\ lock = b /\ NeedsTriggerLock(op[b].name))
=============================================================================
