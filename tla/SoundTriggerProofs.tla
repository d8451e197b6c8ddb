------------------------- MODULE SoundTriggerProofs -------------------------
(***************************************************************************)
(* Proofs about the sound trigger HAL, for any number of framework and     *)
(* audio threads, any models used and capturing and any length of the      *)
(* event queue, whether or not controls fail and the audio HAL's notice    *)
(* falls into the calls of others.                                         *)
(***************************************************************************)
EXTENDS SoundTrigger, TLAPS

USE DEF locks, socket, history

-----------------------------------------------------------------------------
(***************************************************************************)
(* The inductive invariant.                                                *)
(***************************************************************************)
AllOps == FrameworkOps \cup AudioOps \cup {NoOp, CloseAgain}

\* Who has the lock is not closing the HAL; a callback is about a model.
Waiting ==
  /\ op \in [Callers -> AllOps]
  /\ \A c \in Callers : pc[c] \in Holding => op[c].name # "close"
  /\ thread.place \in {"called", "callback"} => thread.model \in Models

\* A reader reads from an open PCM, of a recording.
Reading == recording_lock = "reader" => stdev.is_recording /\ stdev.recording_pcm = "open"

\* A recording has a PCM, unless the microphone is being changed.
Recording == stdev.is_recording /\ ~Reopening => stdev.recording_pcm # "null"

\* Whoever opens a recording keeps readers away and is not in a call; while the microphone is
\* being changed the PCM of the recording is closed.
Opening ==
  \A c \in Callers : pc[c] = "opening" =>
    /\ op[c].name = "open_recording" => recording_lock = c /\ ~stdev.voicecall
    /\ op[c].name = "headset" => (stdev.is_recording => stdev.recording_pcm = "null")

\* A model that was stopped lacks its callback or is not running.
Silenced ==
  \A m \in quiet : m \in stdev.recognition_callbacks => stdev.model_execstate[m] # "running"

\* The model that is about to be called was not stopped, or its stop was noted since.
Decided ==
  thread.place = "called" /\ thread.model \in quiet =>
    stdev.model_execstate[thread.model] = "stopabort"

DeviceInv == SilentInCall /\ Reading /\ Recording /\ Opening /\ Silenced /\ Decided

IInv == TypeOK /\ Waiting /\ DeviceInv

-----------------------------------------------------------------------------
(***************************************************************************)
(* What the functions called with the lock held do to the device.          *)
(***************************************************************************)
\* What neither the microphone nor the power of the VTS touches.
Kept(d) ==
  <<d.sthal_opened, d.model_handles, d.recognition_callbacks, d.configs, d.model_execstate,
    d.model_stopfailedhandles, d.is_recording, d.recording_pcm, d.active_mic, d.voicecall,
    d.recog_cbstate, d.callback_thread_active, d.sockets>>

\* stdev_vts_set_mic() switches the active microphone.
LEMMA SetMic ==
  ASSUME NEW d \in Device, NEW on \in BOOLEAN, NEW e, e = stdev_vts_set_mic(d, on)
  PROVE  /\ e \in Device /\ Kept(e) = Kept(d) /\ e.is_mic_configured = on
         /\ e.recognize_started = d.recognize_started
<1> DEFINE put(v, w) == [d EXCEPT !.is_mic_configured = v, !.mics = w]
<1>1. ASSUME NEW v \in BOOLEAN, NEW w \in SUBSET {"main", "headset"}
      PROVE  /\ put(v, w) \in Device /\ Kept(put(v, w)) = Kept(d)
             /\ put(v, w).is_mic_configured = v
             /\ put(v, w).recognize_started = d.recognize_started
  BY DEF Device, Kept
<1>2. /\ d.mics \cup {d.active_mic} \in SUBSET {"main", "headset"}
      /\ d.mics \ {d.active_mic} \in SUBSET {"main", "headset"}
      /\ d.is_mic_configured \in BOOLEAN
  BY DEF Device
<1>3. CASE on /\ ~d.is_mic_configured
  <2>1. e = put(on, d.mics \cup {d.active_mic})
    <3>1. on = TRUE
      BY <1>3
    <3> QED BY <1>3, <3>1 DEF stdev_vts_set_mic
  <2> HIDE DEF put
  <2> QED BY <1>1, <1>2, <2>1
<1>4. CASE ~on /\ d.is_mic_configured
  <2>1. e = put(on, d.mics \ {d.active_mic})
    <3>1. on = FALSE
      BY <1>4
    <3> QED BY <1>4, <3>1 DEF stdev_vts_set_mic
  <2> HIDE DEF put
  <2> QED BY <1>1, <1>2, <2>1
<1>5. CASE on = d.is_mic_configured
  <2>1. e = d
    BY <1>5 DEF stdev_vts_set_mic
  <2> QED BY <1>5, <2>1
<1> QED BY <1>2, <1>3, <1>4, <1>5

\* Models are stopped, or the stream is.
LEMMA Lessened ==
  ASSUME NEW d \in Device, NEW S
  PROVE  /\ Stopped(d, S) \in Device /\ Kept(Stopped(d, S)) = Kept(d)
         /\ Stopped(d, S).is_mic_configured = d.is_mic_configured
         /\ Stopped(d, S).is_recording = d.is_recording
         /\ Unstreamed(d) \in Device /\ Kept(Unstreamed(d)) = Kept(d)
         /\ Unstreamed(d).is_mic_configured = d.is_mic_configured
         /\ Unstreamed(d).recognize_started = d.recognize_started
         /\ Unstreamed(d).is_recording = d.is_recording
<1> DEFINE w == d.recognize_started \ S
<1>1. w \in SUBSET Models
  BY DEF Device
<1>2. Stopped(d, S) = [d EXCEPT !.recognize_started = w]
  BY DEF Stopped
<1> HIDE DEF w
<1>3. /\ Stopped(d, S) \in Device /\ Kept(Stopped(d, S)) = Kept(d)
      /\ Stopped(d, S).is_mic_configured = d.is_mic_configured
      /\ Stopped(d, S).is_recording = d.is_recording
  BY <1>1, <1>2 DEF Device, Kept
<1>4. /\ Unstreamed(d) \in Device /\ Kept(Unstreamed(d)) = Kept(d)
      /\ Unstreamed(d).is_mic_configured = d.is_mic_configured
      /\ Unstreamed(d).recognize_started = d.recognize_started
      /\ Unstreamed(d).is_recording = d.is_recording
  BY DEF Device, Kept, Unstreamed, Pcm
<1> QED BY <1>3, <1>4

\* stdev_vts_set_power() with no model never switches the microphone on, and switches it off if it
\* has stopped every model and nothing is recorded.
LEMMA SetPower ==
  ASSUME NEW d \in Device, NEW models \in SUBSET Models, NEW e \in stdev_vts_set_power(d, models)
  PROVE  /\ e \in Device /\ Kept(e) = Kept(d)
         /\ models = {} /\ ~d.is_mic_configured => ~e.is_mic_configured
         /\ models = {} /\ e.recognize_started = {} /\ ~d.is_recording => ~e.is_mic_configured
<1> DEFINE u == Unstreamed(d)
<1>1. /\ u \in Device /\ Kept(u) = Kept(d) /\ u.is_mic_configured = d.is_mic_configured
      /\ u.is_recording = d.is_recording
  BY Lessened
<1>2. CASE models # {}
  <2>1. PICK S \in Completed(models) : e = PoweredOn(u, S)
    BY <1>2 DEF stdev_vts_set_power
  <2>2. S \in SUBSET Models
    BY <2>1 DEF Completed
  <2> DEFINE on == stdev_vts_set_mic(u, TRUE)
             w == on.recognize_started \cup S
  <2>3. on \in Device /\ Kept(on) = Kept(u)
    <3> HIDE DEF u
    <3>1. TRUE \in BOOLEAN
      OBVIOUS
    <3> QED BY <1>1, <3>1, SetMic
  <2>4. e = [on EXCEPT !.recognize_started = w]
    BY <2>1 DEF PoweredOn
  <2> HIDE DEF on, u
  <2>5. w \in SUBSET Models
    BY <2>2, <2>3 DEF Device
  <2> HIDE DEF w
  <2>6. e \in Device /\ Kept(e) = Kept(on)
    BY <2>3, <2>4, <2>5 DEF Device, Kept
  <2> QED BY <1>1, <1>2, <2>3, <2>6
<1>3. CASE models = {}
  <2>1. PICK S \in Completed(d.recognize_started) : e = PoweredOff(u, S)
    BY <1>3 DEF stdev_vts_set_power
  <2> DEFINE s == Stopped(u, S)
  <2>2. /\ s \in Device /\ Kept(s) = Kept(u) /\ s.is_mic_configured = u.is_mic_configured
        /\ s.is_recording = u.is_recording
    <3> HIDE DEF u
    <3> QED BY <1>1, Lessened
  <2>3. e = IF MicNeeded(s) THEN s ELSE stdev_vts_set_mic(s, FALSE)
    BY <2>1 DEF PoweredOff
  <2> HIDE DEF s, u
  <2>4. CASE MicNeeded(s)
    BY <1>1, <2>2, <2>3, <2>4 DEF MicNeeded
  <2>5. CASE ~MicNeeded(s)
    <3>1. FALSE \in BOOLEAN /\ e = stdev_vts_set_mic(s, FALSE)
      BY <2>3, <2>5
    <3>2. e \in Device /\ Kept(e) = Kept(s) /\ e.is_mic_configured = FALSE
      BY <2>2, <3>1, SetMic
    <3> QED BY <1>1, <2>2, <3>2
  <2> QED BY <2>4, <2>5
<1> QED BY <1>2, <1>3

\* What every function does that neither starts a model nor records: the microphone is switched on
\* only for a model that has a callback, and no callback is set.
Steady(d, e) ==
  /\ e \in Device
  /\ e.voicecall = d.voicecall /\ e.is_recording = d.is_recording
  /\ e.recording_pcm = d.recording_pcm
  /\ e.recognition_callbacks \subseteq d.recognition_callbacks
  /\ d.recognition_callbacks = {} /\ ~d.is_mic_configured => ~e.is_mic_configured
  /\ \A m \in Models : e.model_execstate[m] = "running" => d.model_execstate[m] = "running"

LEMMA SteadyTwice ==
  ASSUME NEW d, NEW e, NEW f, Steady(d, e), Steady(e, f)
  PROVE  Steady(d, f)
BY DEF Steady

LEMMA SteadySame ==
  ASSUME NEW d \in Device
  PROVE  Steady(d, d)
BY DEF Steady

\* Switching the VTS off is steady.
LEMMA PowerOff ==
  ASSUME NEW d \in Device, NEW e \in stdev_vts_set_power(d, {})
  PROVE  Steady(d, e) /\ Kept(e) = Kept(d)
<1>1. {} \in SUBSET Models
  OBVIOUS
<1>2. e \in Device /\ Kept(e) = Kept(d) /\ (~d.is_mic_configured => ~e.is_mic_configured)
  BY <1>1, SetPower
<1> QED BY <1>2 DEF Steady, Kept

\* So is switching it on for a model that has a callback.
LEMMA PowerOn ==
  ASSUME NEW d \in Device, d.recognition_callbacks # {},
         NEW e \in stdev_vts_set_power(d, d.recognition_callbacks)
  PROVE  Steady(d, e)
<1>1. d.recognition_callbacks \in SUBSET Models
  BY DEF Device
<1>2. e \in Device /\ Kept(e) = Kept(d)
  BY <1>1, SetPower
<1> QED BY <1>2 DEF Steady, Kept

LEMMA PowerCycled ==
  ASSUME NEW d \in Device, NEW e \in PowerCycle(d)
  PROVE  Steady(d, e)
<1>1. CASE d.recognition_callbacks = {}
  BY <1>1, PowerOff DEF PowerCycle
<1>2. CASE d.recognition_callbacks # {}
  <2>1. PICK f \in stdev_vts_set_power(d, {}) :
             e \in stdev_vts_set_power(f, d.recognition_callbacks)
    BY <1>2 DEF PowerCycle
  <2>2. Steady(d, f) /\ f.recognition_callbacks = d.recognition_callbacks
    BY <2>1, PowerOff DEF Kept
  <2>3. f \in Device /\ e \in stdev_vts_set_power(f, f.recognition_callbacks)
    BY <2>1, <2>2 DEF Steady
  <2>4. Steady(f, e)
    BY <1>2, <2>2, <2>3, PowerOn
  <2> QED BY <2>2, <2>4, SteadyTwice
<1> QED BY <1>1, <1>2

\* The fields that none of the properties is about: the models' handles and configurations,
LEMMA Handles ==
  ASSUME NEW d \in Device, NEW h \in SUBSET Models
  PROVE  /\ Steady(d, [d EXCEPT !.model_handles = h]) /\ Steady(d, [d EXCEPT !.configs = h])
         /\ Steady(d, [d EXCEPT !.is_streaming = h])
BY DEF Device, Steady

\* the callback thread,
LEMMA Threading ==
  ASSUME NEW d \in Device, NEW r \in {"none", "called"}, NEW a \in BOOLEAN, NEW s \in BOOLEAN
  PROVE  /\ Steady(d, [d EXCEPT !.recog_cbstate = r])
         /\ Steady(d, [d EXCEPT !.recog_cbstate = r, !.callback_thread_active = a])
         /\ Steady(d, [d EXCEPT !.callback_thread_active = a, !.sockets = s])
         /\ Steady(d, [d EXCEPT !.sockets = s])
BY DEF Device, Steady

\* the microphone to use and the stream.
LEMMA Streaming ==
  ASSUME NEW d \in Device, NEW mic \in {"main", "headset"}, NEW q \in {"null"} \cup Pcm,
         NEW b \in BOOLEAN
  PROVE  /\ Steady(d, [d EXCEPT !.active_mic = mic]) /\ Steady(d, [d EXCEPT !.streaming_pcm = q])
         /\ Steady(d, [d EXCEPT !.is_seamless_recording = b])
BY DEF Device, Steady

\* Taking a callback away is steady.
LEMMA Released ==
  ASSUME NEW d \in Device, NEW m
  PROVE  /\ Steady(d, [d EXCEPT !.configs = @ \ {m}, !.recognition_callbacks = @ \ {m}])
         /\ Steady(d, [d EXCEPT !.recognition_callbacks = @ \ {m}])
         /\ Steady(d, [d EXCEPT !.recognition_callbacks = {}])
<1> DEFINE v == d.configs \ {m}
           w == d.recognition_callbacks \ {m}
<1>1. v \in SUBSET Models /\ w \in SUBSET Models /\ w \subseteq d.recognition_callbacks
  BY DEF Device
<1> HIDE DEF v, w
<1>2. /\ Steady(d, [d EXCEPT !.configs = v, !.recognition_callbacks = w])
      /\ Steady(d, [d EXCEPT !.recognition_callbacks = w])
  BY <1>1 DEF Device, Steady
<1>3. Steady(d, [d EXCEPT !.recognition_callbacks = {}])
  BY DEF Device, Steady
<1> QED BY <1>2, <1>3 DEF v, w

\* The execution state of a model, and the note that its stop failed.
Marked(d, m, v, w) == [d EXCEPT !.model_execstate[m] = v, !.model_stopfailedhandles = w]

LEMMA Mark ==
  ASSUME NEW d \in Device, NEW m \in Models, NEW v \in {"none", "stopabort", "running"},
         NEW w \in SUBSET Models, NEW e,
         e = Marked(d, m, v, w)
  PROVE  /\ e \in Device /\ e.model_execstate[m] = v
         /\ \A n \in Models \ {m} : e.model_execstate[n] = d.model_execstate[n]
         /\ e.voicecall = d.voicecall /\ e.is_recording = d.is_recording
         /\ e.recording_pcm = d.recording_pcm
         /\ e.recognition_callbacks = d.recognition_callbacks
         /\ e.is_mic_configured = d.is_mic_configured
<1> DEFINE x == [d.model_execstate EXCEPT ![m] = v]
<1>1. x \in ExecStates /\ x[m] = v /\ \A n \in Models \ {m} : x[n] = d.model_execstate[n]
  BY DEF Device, ExecStates
<1>2. e = [d EXCEPT !.model_execstate = x, !.model_stopfailedhandles = w]
  BY DEF Marked
<1> HIDE DEF x
<1>3. e \in Device /\ e.model_execstate = x
  BY <1>1, <1>2 DEF Device
<1>4. /\ e.voicecall = d.voicecall /\ e.is_recording = d.is_recording
      /\ e.recording_pcm = d.recording_pcm
      /\ e.recognition_callbacks = d.recognition_callbacks
      /\ e.is_mic_configured = d.is_mic_configured
  BY <1>2 DEF Device
<1> QED BY <1>1, <1>3, <1>4

\* Noting a stop, or the end of a recognition, makes no model run.
LEMMA MarkSteady ==
  ASSUME NEW d \in Device, NEW m \in Models, NEW v \in {"none", "stopabort"},
         NEW w \in SUBSET Models, NEW e,
         e = Marked(d, m, v, w)
  PROVE  Steady(d, e) /\ e.model_execstate[m] = v
<1>1. /\ e \in Device /\ e.model_execstate[m] = v
      /\ \A n \in Models \ {m} : e.model_execstate[n] = d.model_execstate[n]
      /\ e.voicecall = d.voicecall /\ e.is_recording = d.is_recording
      /\ e.recording_pcm = d.recording_pcm
      /\ e.recognition_callbacks = d.recognition_callbacks
      /\ e.is_mic_configured = d.is_mic_configured
  <2>1. v \in {"none", "stopabort", "running"}
    OBVIOUS
  <2> QED BY <2>1, Mark
<1> QED BY <1>1 DEF Steady

LEMMA Forget ==
  ASSUME NEW d \in Device, NEW m \in Models
  PROVE  Steady(d, Forgotten(d, m)) /\ Forgotten(d, m).model_execstate[m] = "none"
<1> DEFINE w == d.model_stopfailedhandles \ {m}
<1>1. w \in SUBSET Models /\ "none" \in {"none", "stopabort"}
  BY DEF Device
<1>2. Forgotten(d, m) = Marked(d, m, "none", w)
  BY DEF Forgotten, Marked
<1> HIDE DEF w
<1> QED BY <1>1, <1>2, MarkSteady

\* handle_stop_recognition_l() completes the aborted stop of a model.
LEMMA StopAbortedSteady ==
  ASSUME NEW d \in Device, NEW m \in Models, NEW e \in StopAborted(d, m)
  PROVE  Steady(d, e)
<1> DEFINE r == [d EXCEPT !.configs = @ \ {m}, !.recognition_callbacks = @ \ {m}]
<1>1. PICK f : e = Forgotten(f, m) /\ \/ f \in {d, r}
                                       \/ f \in PowerCycle(d)
                                       \/ f \in PowerCycle(r)
  BY DEF StopAborted
<1>2. Steady(d, r) /\ Steady(d, d)
  BY Released, SteadySame
<1> HIDE DEF r
<1>3. Steady(d, f)
  <2>1. r \in Device
    BY <1>2 DEF Steady
  <2> QED BY <1>1, <1>2, <2>1, PowerCycled, SteadyTwice
<1>4. Steady(f, e)
  BY <1>1, <1>3, Forget DEF Steady
<1> QED BY <1>3, <1>4, SteadyTwice

LEMMA HandleStop ==
  ASSUME NEW d \in Device, NEW e \in handle_stop_recognition_l(d)
  PROVE  Steady(d, e)
<1>1. PICK f \in StopAborted(d, "hotword") : e \in StopAborted(f, "svoice")
  BY DEF handle_stop_recognition_l
<1>2. "hotword" \in Models /\ "svoice" \in Models
  BY DEF Models
<1>3. Steady(d, f) /\ f \in Device
  BY <1>1, <1>2, StopAbortedSteady DEF Steady
<1>4. Steady(f, e)
  BY <1>1, <1>2, <1>3, StopAbortedSteady
<1> QED BY <1>3, <1>4, SteadyTwice

-----------------------------------------------------------------------------
(***************************************************************************)
(* The locks, the callers and the callback thread.                         *)
(***************************************************************************)
Places == Holding \cup {"idle", "joining", "waiting", "joined"}
InLoop == {"called", "callback", "leaving", "continuing"}
Threads == [place : {"none", "poll"} \cup InLoop, model : Models \cup {"none"}]

\* The types of the callers, their operations and the socket.
Typed ==
  /\ pc \in [Callers -> Places] /\ op \in [Callers -> AllOps]
  /\ \A c \in Callers : op[c] \in OpsOf(c) \cup {NoOp, CloseAgain}
  /\ thread \in Threads
  /\ events \in Seq(Models) /\ Len(events) <= MaxEvents /\ term \in BOOLEAN
  /\ notifier \in {"idle", "power", "mic"} /\ quiet \subseteq Models /\ leftOn \in BOOLEAN
  /\ trigger_lock \in Callers \cup {NoOne, "reader"}
  /\ recording_lock \in Callers \cup {NoOne, "reader"}

\* The lock is where it should be.
Locked ==
  /\ lock \in Callers \cup {NoOne, "thread"}
  /\ \A c \in Callers : lock = c <=> pc[c] \in Holding
  /\ lock = "thread" <=> thread.place \in InLoop
  /\ \A c \in Callers : pc[c] \in Holding => op[c].name # "close"
  /\ thread.place \in {"called", "callback"} => thread.model \in Models

LEMMA Parts ==
  TypeOK /\ Waiting <=> stdev \in Device /\ Typed /\ Locked
BY DEF TypeOK, Waiting, Typed, Locked, Places, InLoop, Threads

\* What an operation's argument is.
LEMMA Arguments ==
  ASSUME NEW o \in AllOps
  PROVE  /\ o.name \in {"load", "unload", "start", "stop"} => o.arg \in Models
         /\ o.name = "headset" => o.arg \in {"main", "headset"}
         /\ o.name = "voicecall" => o.arg \in BOOLEAN
BY DEF AllOps, FrameworkOps, AudioOps, NoOp, CloseAgain

\* What a caller is offered is an operation, its own.
LEMMA OfferedOps ==
  ASSUME Typed, NEW c \in Callers, NEW o \in Offered(c)
  PROVE  o \in AllOps /\ o \in OpsOf(c) \cup {NoOp, CloseAgain}
<1>1. op[c] \in AllOps /\ op[c] \in OpsOf(c) \cup {NoOp, CloseAgain}
  BY DEF Typed
<1>2. OpsOf(c) \subseteq AllOps
  BY DEF OpsOf, AllOps
<1> QED BY <1>1, <1>2 DEF Offered

\* The socket is as it was, or that of a new thread.
LEMMA NewSocket ==
  ASSUME TypeOK, UNCHANGED socket \/ stdev_start_callback_thread
  PROVE  /\ thread' \in Threads /\ events' \in Seq(Models) /\ Len(events') <= MaxEvents
         /\ term' \in BOOLEAN /\ (thread' = thread \/ thread'.place = "poll")
<1>1. CASE UNCHANGED socket
  BY <1>1 DEF TypeOK, Threads, InLoop
<1>2. CASE ~UNCHANGED socket
  <2>1. thread' = [place |-> "poll", model |-> "none"] /\ events' = <<>> /\ term' = FALSE
    BY <1>2 DEF stdev_start_callback_thread
  <2>2. events' \in Seq(Models) /\ Len(events') = 0
    BY <2>1
  <2>3. thread' \in Threads /\ thread'.place = "poll"
    BY <2>1 DEF Threads
  <2>4. Len(events') <= MaxEvents
    BY <2>2, EventsAssumption
  <2>5. term' \in BOOLEAN
    BY <2>1
  <2> QED BY <2>2, <2>3, <2>4, <2>5
<1> QED BY <1>1, <1>2

\* Who calls with the lock, or finds it free, is alone.
LEMMA Alone ==
  ASSUME TypeOK, NEW c \in Callers, lock \in {NoOne, c}
  PROVE  /\ \A b \in Callers : b # c => pc[b] \notin Holding
         /\ thread.place \notin InLoop
         /\ lock = NoOne => pc[c] \notin Holding
BY CallersAssumption DEF TypeOK, InLoop

\* A caller is at another place, and the lock is free.
LEMMA Frees ==
  ASSUME TypeOK, Waiting, NEW c \in Callers, lock \in {NoOne, c}, NEW o \in AllOps,
         o \in OpsOf(c) \cup {NoOp, CloseAgain}, NEW p \in {"idle", "joining"},
         stdev' \in Device, lock' = NoOne, pc' = [pc EXCEPT ![c] = p],
         op' = [op EXCEPT ![c] = o],
         thread' \in Threads, thread' = thread \/ thread'.place = "poll",
         events' \in Seq(Models), Len(events') <= MaxEvents, term' \in BOOLEAN,
         notifier' = notifier, quiet' \subseteq Models, leftOn' \in BOOLEAN,
         trigger_lock' \in {trigger_lock, c, NoOne}, recording_lock' \in {recording_lock, NoOne}
  PROVE  TypeOK' /\ Waiting' /\ (\A b \in Callers : pc'[b] \notin Holding)
<1>1. Typed'
  <2>1. /\ pc' \in [Callers -> Places] /\ op' \in [Callers -> AllOps]
        /\ \A b \in Callers : op'[b] \in OpsOf(b) \cup {NoOp, CloseAgain}
    BY Parts DEF Typed, Places
  <2>2. /\ trigger_lock' \in Callers \cup {NoOne, "reader"}
        /\ recording_lock' \in Callers \cup {NoOne, "reader"}
        /\ notifier' \in {"idle", "power", "mic"}
    BY Parts DEF Typed
  <2> QED BY <2>1, <2>2 DEF Typed, OpsOf, Offered
<1>2. \A b \in Callers : pc'[b] \notin Holding
  BY Alone DEF TypeOK, Holding
<1>3. thread'.place \notin InLoop
  BY Alone DEF InLoop
<1>4. Locked'
  <2>1. lock' # "thread" /\ \A b \in Callers : lock' # b
    BY CallersAssumption
  <2> QED BY <1>2, <1>3, <2>1 DEF Locked, InLoop
<1>5. stdev' \in Device /\ Typed' /\ Locked' => TypeOK' /\ Waiting'
  BY DEF TypeOK, Waiting, Typed, Locked, Places, InLoop, Threads
<1> QED BY <1>1, <1>2, <1>4, <1>5

\* A caller has the lock, and is at a place where it keeps it.
LEMMA Holds ==
  ASSUME TypeOK, Waiting, NEW c \in Callers, lock \in {NoOne, c}, NEW o \in AllOps,
         o \in OpsOf(c) \cup {NoOp, CloseAgain}, o.name # "close", NEW p \in Holding,
         stdev' \in Device, lock' = c, pc' = [pc EXCEPT ![c] = p], op' = [op EXCEPT ![c] = o],
         thread' = thread, events' = events, term' = term,
         notifier' = notifier, quiet' = quiet, leftOn' = leftOn,
         trigger_lock' \in {trigger_lock, c}, recording_lock' \in {recording_lock, c}
  PROVE  TypeOK' /\ Waiting'
<1>1. Typed'
  <2>1. /\ pc' \in [Callers -> Places] /\ op' \in [Callers -> AllOps]
        /\ \A b \in Callers : op'[b] \in OpsOf(b) \cup {NoOp, CloseAgain}
    BY Parts DEF Typed, Places
  <2>2. /\ trigger_lock' \in Callers \cup {NoOne, "reader"}
        /\ recording_lock' \in Callers \cup {NoOne, "reader"}
    BY Parts DEF Typed
  <2> QED BY <2>1, <2>2, Parts DEF Typed, OpsOf
<1>2. /\ \A b \in Callers : pc'[b] \in Holding <=> b = c
      /\ op'[c] = o
  BY Alone, Parts DEF Typed
<1>3. Locked'
  <2>1. lock' # "thread" /\ thread'.place \notin InLoop
    BY Alone, CallersAssumption
  <2> QED BY <1>2, <2>1 DEF Locked, InLoop
<1>4. stdev' \in Device /\ Typed' /\ Locked' => TypeOK' /\ Waiting'
  BY DEF TypeOK, Waiting, Typed, Locked, Places, InLoop, Threads
<1> QED BY <1>1, <1>3, <1>4

\* A step that neither takes nor gives back the lock.
LEMMA Stays ==
  ASSUME TypeOK, Waiting, stdev' \in Device, lock' = lock, op' = op,
         pc' \in [Callers -> Places],
         \A b \in Callers : pc'[b] = pc[b] \/ (pc[b] \notin Holding /\ pc'[b] \notin Holding),
         thread' \in Threads, thread'.place \in InLoop <=> thread.place \in InLoop,
         thread'.model = thread.model,
         thread'.place \in {"called", "callback"} => thread.place \in {"called", "callback"},
         trigger_lock' \in {trigger_lock, NoOne, "reader"},
         recording_lock' \in {recording_lock, NoOne, "reader"},
         events' \in Seq(Models), Len(events') <= MaxEvents, term' \in BOOLEAN,
         notifier' \in {"idle", "power", "mic"}, quiet' \subseteq Models, leftOn' = leftOn
  PROVE  TypeOK' /\ Waiting'
<1>1. Typed'
  <2>1. /\ trigger_lock' \in Callers \cup {NoOne, "reader"}
        /\ recording_lock' \in Callers \cup {NoOne, "reader"}
    BY Parts DEF Typed
  <2> QED BY <2>1, Parts DEF Typed, OpsOf
<1>2. Locked'
  <2>1. Locked
    BY Parts
  <2>2. \A b \in Callers : pc'[b] \in Holding <=> pc[b] \in Holding
    OBVIOUS
  <2> QED BY <2>1, <2>2 DEF Locked
<1>3. stdev' \in Device /\ Typed' /\ Locked' => TypeOK' /\ Waiting'
  BY DEF TypeOK, Waiting, Typed, Locked, Places, InLoop, Threads
<1> QED BY <1>1, <1>2, <1>3

\* A step of the callback thread that takes the lock, or has it.
LEMMA ThreadMoves ==
  ASSUME TypeOK, Waiting, stdev' \in Device,
         lock \in {NoOne, "thread"}, lock' = "thread", pc' = pc, op' = op,
         thread' \in Threads, thread'.place \in InLoop,
         thread'.place \in {"called", "callback"} => thread'.model \in Models,
         trigger_lock' = trigger_lock, recording_lock' = recording_lock,
         events' \in Seq(Models), Len(events') <= MaxEvents, term' \in BOOLEAN,
         notifier' = notifier, quiet' = quiet, leftOn' = leftOn
  PROVE  TypeOK' /\ Waiting'
<1>1. Typed'
  BY Parts DEF Typed, OpsOf
<1>2. Locked'
  <2>1. Locked
    BY Parts
  <2>2. \A c \in Callers : lock # c /\ lock' # c
    BY CallersAssumption
  <2> QED BY <2>1, <2>2 DEF Locked
<1>3. stdev' \in Device /\ Typed' /\ Locked' => TypeOK' /\ Waiting'
  BY DEF TypeOK, Waiting, Typed, Locked, Places, InLoop, Threads
<1> QED BY <1>1, <1>2, <1>3

\* The callback thread unlocks; who waited for its end has joined it.
LEMMA UnlockMoves ==
  ASSUME TypeOK, Waiting, ThreadUnlocks, stdev' \in Device
  PROVE  /\ TypeOK' /\ Waiting'
         /\ \A b \in Callers : pc[b] \notin Holding /\ pc'[b] \notin Holding
<1>1. lock = "thread" /\ lock' = NoOne
  BY DEF ThreadUnlocks, TypeOK
<1>2. \A b \in Callers : pc[b] \notin Holding
  BY <1>1, CallersAssumption DEF TypeOK
<1>3. pc' \in [Callers -> Places] /\ \A b \in Callers : pc'[b] \notin Holding
  BY <1>2 DEF ThreadUnlocks, TypeOK, Places, Holding
<1>4. thread' \in Threads /\ thread'.place \notin InLoop
  <2>1. CASE thread.place = "leaving"
    BY <2>1 DEF ThreadUnlocks, Idle, Threads, InLoop
  <2>2. CASE thread.place # "leaving"
    BY <2>2 DEF ThreadUnlocks, TypeOK, Threads, InLoop
  <2> QED BY <2>1, <2>2
<1>5. Typed'
  BY <1>3, <1>4, Parts DEF ThreadUnlocks, Typed, OpsOf
<1>6. Locked'
  <2>1. lock' # "thread" /\ \A b \in Callers : lock' # b
    BY <1>1, CallersAssumption
  <2> QED BY <1>1, <1>3, <1>4, <2>1 DEF Locked, InLoop
<1>7. stdev' \in Device /\ Typed' /\ Locked' => TypeOK' /\ Waiting'
  BY DEF TypeOK, Waiting, Typed, Locked, Places, InLoop, Threads
<1> QED BY <1>2, <1>3, <1>5, <1>6, <1>7

-----------------------------------------------------------------------------
(***************************************************************************)
(* Steps that return, go on, or change little.                             *)
(***************************************************************************)
\* A function returns.  What remains to be seen is the device that it leaves.
LEMMA ReturnInv ==
  ASSUME IInv, NEW c \in Callers, lock \in {NoOne, c}, NEW d \in Device, Return(c, d),
         UNCHANGED socket \/ stdev_start_callback_thread,
         quiet' \subseteq Models, leftOn' \in BOOLEAN,
         d.voicecall /\ ~leftOn' =>
           ~d.is_recording /\ ~d.is_mic_configured /\ d.recognition_callbacks = {},
         recording_lock = "reader" => d.is_recording /\ d.recording_pcm = "open",
         d.is_recording => d.recording_pcm # "null",
         \A m \in quiet' : m \in d.recognition_callbacks => d.model_execstate[m] # "running"
  PROVE  IInv'
<1>1. /\ thread' \in Threads /\ events' \in Seq(Models) /\ Len(events') <= MaxEvents
      /\ term' \in BOOLEAN /\ (thread' = thread \/ thread'.place = "poll")
  BY NewSocket DEF IInv
<1>2. /\ stdev' = d /\ lock' = NoOne /\ notifier' = notifier
      /\ pc' = [pc EXCEPT ![c] = "idle"] /\ op' = [op EXCEPT ![c] = NoOp]
      /\ trigger_lock' \in {trigger_lock, c, NoOne} /\ recording_lock' \in {recording_lock, NoOne}
      /\ recording_lock' = "reader" => recording_lock = "reader"
  BY CallersAssumption DEF Return, Freed
<1>3. TypeOK' /\ Waiting' /\ (\A b \in Callers : pc'[b] \notin Holding)
  <2>1. NoOp \in AllOps /\ NoOp \in OpsOf(c) \cup {NoOp, CloseAgain} /\ "idle" \in {"idle", "joining"}
    BY DEF AllOps
  <2> QED BY <1>1, <1>2, <2>1, Frees DEF IInv
<1>4. \A b \in Callers : pc'[b] # "opening"
  BY <1>3 DEF Holding
<1>5. thread'.place # "called"
  BY <1>1, Alone DEF IInv, InLoop
<1>6. SilentInCall' /\ Reading' /\ Recording' /\ Silenced'
  BY <1>2 DEF SilentInCall, Reading, Recording, Silenced
<1> QED BY <1>3, <1>4, <1>5, <1>6 DEF IInv, DeviceInv, Opening, Decided

\* The microphone is being changed by nobody else.
LEMMA NotReopening ==
  ASSUME TypeOK, NEW c \in Callers, lock \in {NoOne, c},
         ~(pc[c] = "opening" /\ op[c].name = "headset")
  PROVE  ~Reopening
<1>1. \A b \in Callers : b # c => pc[b] # "opening"
  BY Alone DEF Holding
<1> QED BY <1>1 DEF Reopening, Callers

\* What a steady step does to the device is all that is asked of a function that returns.
LEMMA ReturnSteady ==
  ASSUME IInv, NEW c \in Callers, lock \in {NoOne, c},
         ~(pc[c] = "opening" /\ op[c].name = "headset"), NEW d, Steady(stdev, d), Return(c, d),
         UNCHANGED socket \/ stdev_start_callback_thread,
         quiet' \subseteq Models, leftOn' = leftOn,
         \A m \in quiet' \ quiet :
           m \in d.recognition_callbacks => d.model_execstate[m] # "running"
  PROVE  IInv'
<1>1. ~Reopening
  BY NotReopening DEF IInv
<1>2. d \in Device /\ leftOn' \in BOOLEAN
  BY DEF Steady, IInv, TypeOK
<1>3. d.voicecall /\ ~leftOn' =>
        ~d.is_recording /\ ~d.is_mic_configured /\ d.recognition_callbacks = {}
  BY DEF Steady, IInv, DeviceInv, SilentInCall
<1>4. recording_lock = "reader" => d.is_recording /\ d.recording_pcm = "open"
  BY DEF Steady, IInv, DeviceInv, Reading
<1>5. d.is_recording => d.recording_pcm # "null"
  BY <1>1 DEF Steady, IInv, DeviceInv, Recording
<1>6. \A m \in quiet' : m \in d.recognition_callbacks => d.model_execstate[m] # "running"
  BY DEF Steady, IInv, DeviceInv, Silenced
<1> QED BY <1>2, <1>3, <1>4, <1>5, <1>6, ReturnInv

\* A step that opens no PCM and after which nobody opens one who did not before.
LEMMA SteadyStep ==
  ASSUME IInv, TypeOK', Steady(stdev, stdev'), leftOn' = leftOn,
         recording_lock' = "reader" => recording_lock = "reader",
         \A b \in Callers : pc'[b] = "opening" =>
           \/ op'[b].name = "open_streaming"
           \/ pc[b] = "opening" /\ op'[b] = op[b] /\ (recording_lock = b => recording_lock' = b),
         Reopening => Reopening',
         \A m \in quiet' \ quiet :
           m \in stdev'.recognition_callbacks => stdev'.model_execstate[m] # "running",
         Decided'
  PROVE  DeviceInv'
<1>1. SilentInCall'
  BY DEF Steady, IInv, DeviceInv, SilentInCall
<1>2. Reading'
  BY DEF Steady, IInv, DeviceInv, Reading
<1>3. Recording'
  BY DEF Steady, IInv, DeviceInv, Recording
<1>4. Opening'
  BY DEF Steady, IInv, DeviceInv, Opening
<1>5. Silenced'
  <2>1. quiet' \subseteq Models
    BY DEF TypeOK
  <2> QED BY <2>1 DEF Steady, IInv, DeviceInv, Silenced
<1> QED BY <1>1, <1>2, <1>3, <1>4, <1>5 DEF DeviceInv

\* Nothing that is decided on changes when the callback thread has not got the lock.
LEMMA NotDeciding ==
  ASSUME TypeOK, NEW c \in Callers, lock \in {NoOne, c}, thread' = thread
  PROVE  Decided'
BY Alone DEF Decided, InLoop

-----------------------------------------------------------------------------
(***************************************************************************)
(* The framework's operations.                                             *)
(***************************************************************************)
\* A function that has its locks is alone.
LEMMA InPlace ==
  ASSUME TypeOK, NEW c \in Callers, NEW o, NEW n, In(c, o, n)
  PROVE  /\ lock \in {NoOne, c} /\ pc[c] \in {"idle", "locked"} /\ o.name = n
         /\ pc[c] = "idle" => lock = NoOne
         /\ NeedsRecordingLock(n) => recording_lock = NoOne
BY DEF In, MayCall, TypeOK, Holding, SecondLockFree

LEMMA LoadKeeps ==
  ASSUME IInv, NEW c \in Callers, NEW o \in Offered(c), stdev_load_sound_model(c, o)
  PROVE  IInv'
<1>1. lock \in {NoOne, c} /\ pc[c] # "opening" /\ o.name = "load"
  BY InPlace DEF stdev_load_sound_model, IInv
<1>2. /\ UNCHANGED socket /\ quiet' = quiet /\ leftOn' = leftOn /\ quiet' \subseteq Models
  BY DEF stdev_load_sound_model, IInv, TypeOK
<1> DEFINE w == stdev.model_handles \cup {o.arg}
<1>3. PICK d : d \in {stdev, [stdev EXCEPT !.model_handles = w]} /\ Return(c, d)
  BY DEF stdev_load_sound_model
<1>4. Steady(stdev, d)
  <2>1. o.arg \in Models
    BY <1>1, OfferedOps, Arguments, Parts DEF IInv
  <2>2. stdev \in Device /\ w \in SUBSET Models
    BY <2>1 DEF IInv, TypeOK, Device
  <2> HIDE DEF w
  <2> QED BY <1>3, <2>2, Handles, SteadySame
<1> QED BY <1>1, <1>2, <1>3, <1>4, ReturnSteady

\* What precedes the start of the callback thread is steady.
LEMMA Prepared ==
  ASSUME NEW d \in Device, NEW m, NEW e \in StartPrepared(d, m)
  PROVE  Steady(d, e)
BY HandleStop, SteadySame DEF StartPrepared

\* So is the configuration, whether the callback thread can be started or not.
LEMMA Prepares ==
  ASSUME NEW d \in Device, NEW m \in Models
  PROVE  Steady(d, ThreadFailed(Configured(d, m))) /\ Steady(d, ThreadStarted(Configured(d, m)))
<1> DEFINE w == d.configs \cup ({m} \cap Capture)
           e == Configured(d, m)
<1>1. w \in SUBSET Models
  BY DEF Device
<1>2. e = [d EXCEPT !.configs = w]
  BY DEF Configured
<1> HIDE DEF w
<1>3. Steady(d, e)
  BY <1>1, <1>2, Handles
<1> HIDE DEF e
<1>4. Steady(e, ThreadFailed(e)) /\ Steady(e, ThreadStarted(e))
  <2>1. e \in Device /\ TRUE \in BOOLEAN /\ FALSE \in BOOLEAN
    BY <1>3 DEF Steady
  <2> QED BY <2>1, Threading DEF ThreadFailed, ThreadStarted
<1> QED BY <1>3, <1>4, SteadyTwice DEF e

LEMMA StartRefusedKeeps ==
  ASSUME IInv, NEW c \in Callers, NEW o \in Offered(c), StartRefused(c, o)
  PROVE  IInv'
<1>1. lock \in {NoOne, c} /\ pc[c] # "opening"
  BY InPlace DEF StartRefused, IInv
<1>2. UNCHANGED socket /\ quiet' = quiet /\ leftOn' = leftOn /\ quiet' \subseteq Models
  BY DEF StartRefused, IInv, TypeOK
<1>3. PICK d : (d = stdev \/ d \in StartPrepared(stdev, o.arg)) /\ Return(c, d)
  BY DEF StartRefused
<1>4. Steady(stdev, d)
  BY <1>3, Prepared, SteadySame DEF IInv, TypeOK
<1> QED BY <1>1, <1>2, <1>3, <1>4, ReturnSteady

LEMMA StartFailsKeeps ==
  ASSUME IInv, NEW c \in Callers, NEW o \in Offered(c), StartFails(c, o)
  PROVE  IInv'
<1>1. lock \in {NoOne, c} /\ pc[c] # "opening" /\ o.name = "start"
  BY InPlace DEF StartFails, IInv
<1>2. UNCHANGED socket /\ quiet' = quiet /\ leftOn' = leftOn /\ quiet' \subseteq Models
  BY DEF StartFails, IInv, TypeOK
<1>3. PICK d \in StartPrepared(stdev, o.arg) : Return(c, ThreadFailed(Configured(d, o.arg)))
  BY DEF StartFails
<1>4. Steady(stdev, ThreadFailed(Configured(d, o.arg)))
  <2>1. o.arg \in Models
    BY <1>1, OfferedOps, Arguments, Parts DEF IInv
  <2>2. Steady(stdev, d) /\ d \in Device
    BY <1>3, Prepared DEF IInv, TypeOK, Steady
  <2> QED BY <2>1, <2>2, Prepares, SteadyTwice
<1> QED BY <1>1, <1>2, <1>3, <1>4, ReturnSteady

\* A model is armed, and then running.
LEMMA Arms ==
  ASSUME NEW d \in Device, NEW m \in Models
  PROVE  /\ Armed(d, m) \in Device
         /\ Armed(d, m).recognition_callbacks = d.recognition_callbacks \cup {m}
         /\ Armed(d, m).model_execstate = d.model_execstate
         /\ Armed(d, m).voicecall = d.voicecall /\ Armed(d, m).is_recording = d.is_recording
         /\ Armed(d, m).recording_pcm = d.recording_pcm
<1> DEFINE w == d.recognition_callbacks \cup {m}
<1>1. w \in SUBSET Models
  BY DEF Device
<1>2. Armed(d, m) = [d EXCEPT !.recognition_callbacks = w]
  BY DEF Armed
<1> HIDE DEF w
<1>3. /\ Armed(d, m) \in Device /\ Armed(d, m).recognition_callbacks = w
      /\ Armed(d, m).model_execstate = d.model_execstate
      /\ Armed(d, m).voicecall = d.voicecall /\ Armed(d, m).is_recording = d.is_recording
      /\ Armed(d, m).recording_pcm = d.recording_pcm
  BY <1>1, <1>2 DEF Device
<1> QED BY <1>3 DEF w

LEMMA Runs ==
  ASSUME NEW d \in Device, NEW m \in Models
  PROVE  /\ Running(d, m) \in Device
         /\ \A n \in Models \ {m} : Running(d, m).model_execstate[n] = d.model_execstate[n]
         /\ Running(d, m).recognition_callbacks = d.recognition_callbacks
         /\ Running(d, m).voicecall = d.voicecall /\ Running(d, m).is_recording = d.is_recording
         /\ Running(d, m).recording_pcm = d.recording_pcm
<1> DEFINE w == d.model_stopfailedhandles \ {m}
<1>1. w \in SUBSET Models /\ "running" \in {"none", "stopabort", "running"}
  BY DEF Device
<1>2. Running(d, m) = Marked(d, m, "running", w)
  BY DEF Running, Marked
<1> HIDE DEF w
<1> QED BY <1>1, <1>2, Mark

LEMMA StartKeeps ==
  ASSUME IInv, NEW c \in Callers, NEW o \in Offered(c), stdev_start_recognition(c, o)
  PROVE  IInv'
<1> DEFINE m == o.arg
           ready(d) == Armed(ThreadStarted(Configured(d, m)), m)
<1>1. lock \in {NoOne, c} /\ pc[c] # "opening" /\ o.name = "start"
  BY InPlace DEF stdev_start_recognition, IInv
<1>2. m \in Models
  BY <1>1, OfferedOps, Arguments, Parts DEF IInv
<1>3. /\ stdev_start_callback_thread /\ quiet' = quiet \ {m} /\ quiet \subseteq Models
      /\ leftOn' = leftOn /\ leftOn \in BOOLEAN /\ ~stdev.voicecall /\ stdev \in Device
  BY DEF stdev_start_recognition, IInv, TypeOK
<1>4. PICK d \in StartPrepared(stdev, m) :
        \E f : /\ f = ready(d) \/ f \in PowerCycle(ready(d))
               /\ Return(c, Running(f, m))
  BY DEF stdev_start_recognition
<1>5. PICK f : /\ f = ready(d) \/ f \in PowerCycle(ready(d))
               /\ Return(c, Running(f, m))
  BY <1>4
<1> DEFINE s == ThreadStarted(Configured(d, m))
<1>6. Steady(stdev, s)
  <2>1. Steady(stdev, d) /\ d \in Device
    BY <1>3, <1>4, Prepared DEF Steady
  <2> HIDE DEF m
  <2> QED BY <1>2, <2>1, Prepares, SteadyTwice
<1> DEFINE e == Armed(s, m)
<1>7. f = e \/ f \in PowerCycle(e)
  BY <1>5
<1> HIDE DEF s, m
<1>8. s \in Device
  BY <1>6 DEF Steady
<1>9. /\ e \in Device /\ e.recognition_callbacks = s.recognition_callbacks \cup {m}
      /\ e.model_execstate = s.model_execstate /\ e.voicecall = s.voicecall
      /\ e.is_recording = s.is_recording /\ e.recording_pcm = s.recording_pcm
  BY <1>2, <1>8, Arms
<1> HIDE DEF e
<1>10. Steady(e, f) /\ f \in Device
  BY <1>7, <1>9, PowerCycled, SteadySame DEF Steady
<1> DEFINE g == Running(f, m)
<1>11. /\ g \in Device /\ g.recognition_callbacks = f.recognition_callbacks
       /\ g.voicecall = f.voicecall /\ g.is_recording = f.is_recording
       /\ g.recording_pcm = f.recording_pcm
       /\ \A n \in Models \ {m} : g.model_execstate[n] = f.model_execstate[n]
  BY <1>2, <1>10, Runs
<1>12. Return(c, g)
  BY <1>5
<1> HIDE DEF g, ready
<1>13. ~g.voicecall /\ g.is_recording = stdev.is_recording /\ g.recording_pcm = stdev.recording_pcm
  BY <1>3, <1>6, <1>9, <1>10, <1>11 DEF Steady
<1>14. ASSUME NEW n \in quiet', n \in g.recognition_callbacks
       PROVE  g.model_execstate[n] # "running"
  <2>1. n \in Models \ {m} /\ n \in quiet
    BY <1>3, <1>14
  <2>2. n \in s.recognition_callbacks
    BY <1>9, <1>10, <1>11, <1>14, <2>1 DEF Steady
  <2>3. n \in stdev.recognition_callbacks /\ stdev.model_execstate[n] # "running"
    BY <1>6, <2>1, <2>2 DEF Steady, IInv, DeviceInv, Silenced
  <2>4. s.model_execstate[n] # "running"
    BY <1>6, <2>1, <2>3 DEF Steady
  <2> QED BY <1>9, <1>10, <1>11, <2>1, <2>4 DEF Steady
<1>15. ~Reopening
  BY <1>1, NotReopening DEF IInv
<1>16. /\ recording_lock = "reader" => g.is_recording /\ g.recording_pcm = "open"
       /\ g.is_recording => g.recording_pcm # "null"
  BY <1>13, <1>15 DEF IInv, DeviceInv, Reading, Recording
<1>17. quiet' \subseteq Models /\ leftOn' \in BOOLEAN
  BY <1>3
<1> QED BY <1>1, <1>3, <1>11, <1>12, <1>13, <1>14, <1>16, <1>17, ReturnInv

\* A stop is noted without the lock, whatever others are doing.
LEMMA NotedKeeps ==
  ASSUME IInv, NEW c \in Callers, NEW o \in FrameworkOps, StopBusy(c, o) \/ StopTimeout(c, o)
  PROVE  IInv'
<1> DEFINE m == o.arg
           w == stdev.model_stopfailedhandles \cup {m}
<1>1. /\ lock' = lock /\ trigger_lock' = trigger_lock /\ recording_lock' = recording_lock
      /\ pc' = pc /\ op' = op /\ thread' = thread /\ events' = events /\ term' = term
      /\ notifier' = notifier /\ leftOn' = leftOn /\ o.name = "stop"
      /\ \/ stdev' = stdev /\ quiet' = quiet
         \/ stdev' = Marked(stdev, m, "stopabort", w) /\ quiet' = quiet \cup {m}
  BY DEF StopBusy, StopTimeout, TryLock, Noted, Marked
<1>2. m \in Models
  BY <1>1, Arguments DEF AllOps
<1>3. stdev \in Device /\ w \in SUBSET Models /\ "stopabort" \in {"none", "stopabort"}
  BY <1>2 DEF IInv, TypeOK, Device
<1> HIDE DEF m, w
<1>4. Steady(stdev, stdev') /\ (quiet' # quiet => stdev'.model_execstate[m] = "stopabort")
  BY <1>1, <1>2, <1>3, MarkSteady, SteadySame
<1>5. \A n \in Models : stdev.model_execstate[n] = "stopabort" => stdev'.model_execstate[n] = "stopabort"
  <2>1. CASE stdev' = stdev
    BY <2>1
  <2>2. CASE stdev' = Marked(stdev, m, "stopabort", w)
    <3>1. "stopabort" \in {"none", "stopabort", "running"}
      OBVIOUS
    <3>2. /\ stdev'.model_execstate[m] = "stopabort"
          /\ \A n \in Models \ {m} : stdev'.model_execstate[n] = stdev.model_execstate[n]
      BY <1>2, <1>3, <2>2, <3>1, Mark
    <3> QED BY <3>2
  <2> QED BY <1>1, <2>1, <2>2
<1>6. TypeOK' /\ Waiting'
  <2>1. /\ pc' \in [Callers -> Places] /\ thread' \in Threads /\ events' \in Seq(Models)
        /\ Len(events') <= MaxEvents /\ term' \in BOOLEAN /\ notifier' \in {"idle", "power", "mic"}
        /\ quiet' \subseteq Models
    BY <1>1, <1>2, Parts DEF Typed, IInv
  <2>2. stdev' \in Device
    BY <1>4 DEF Steady
  <2> QED BY <1>1, <2>1, <2>2, Stays DEF IInv
<1>7. Decided'
  <2>1. thread.place = "called" => thread.model \in Models
    BY DEF IInv, Waiting
  <2> QED BY <1>1, <1>4, <1>5, <2>1 DEF Decided, IInv, DeviceInv
<1>8. DeviceInv'
  <2>1. Reopening => Reopening'
    BY <1>1 DEF Reopening
  <2>2. \A n \in quiet' \ quiet : stdev'.model_execstate[n] # "running"
    BY <1>1, <1>4
  <2> QED BY <1>1, <1>4, <1>6, <1>7, <2>1, <2>2, SteadyStep
<1> QED BY <1>6, <1>8 DEF IInv

\* The rest of a stop.
LEMMA StopRests ==
  ASSUME NEW d \in Device, NEW o, o.arg \in Models, NEW e, e = StopRest(o, d)
  PROVE  Steady(d, e) /\ e.model_execstate[o.arg] = "none"
<1> DEFINE m == o.arg
           w == d.model_stopfailedhandles \ {m}
           f == Marked(d, m, "none", w)
           h == f.model_handles \ {m}
<1>1. e = f \/ e = [f EXCEPT !.model_handles = h]
  BY DEF StopRest, Marked
<1>2. w \in SUBSET Models /\ m \in Models /\ "none" \in {"none", "stopabort"}
  BY DEF Device
<1> HIDE DEF w, m
<1>3. Steady(d, f) /\ f.model_execstate[m] = "none"
  BY <1>2, MarkSteady
<1> HIDE DEF f
<1>4. f \in Device
  BY <1>3 DEF Steady
<1>5. h \in SUBSET Models
  BY <1>4 DEF Device
<1> HIDE DEF h
<1>6. Steady(f, e) /\ e.model_execstate = f.model_execstate
  <2>1. CASE e = f
    BY <1>4, <2>1, SteadySame
  <2>2. CASE e = [f EXCEPT !.model_handles = h]
    <3>1. Steady(f, e)
      BY <1>4, <1>5, <2>2, Handles
    <3>2. e.model_execstate = f.model_execstate
      BY <1>4, <2>2 DEF Device
    <3> QED BY <3>1, <3>2
  <2> QED BY <1>1, <2>1, <2>2
<1> QED BY <1>3, <1>6, SteadyTwice DEF m

LEMMA ShutDownSteady ==
  ASSUME NEW d \in Device, NEW e \in ShutDown(d)
  PROVE  Steady(d, e) /\ e.recognition_callbacks = d.recognition_callbacks
<1>1. PICK f \in stdev_vts_set_power(d, {}) : e = [f EXCEPT !.sockets = FALSE]
  BY DEF ShutDown
<1>2. Steady(d, f) /\ f \in Device /\ f.recognition_callbacks = d.recognition_callbacks
  BY <1>1, PowerOff DEF Steady, Kept
<1>3. FALSE \in BOOLEAN
  OBVIOUS
<1>4. Steady(f, e)
  BY <1>1, <1>2, <1>3, Threading
<1>5. e.recognition_callbacks = f.recognition_callbacks
  BY <1>1, <1>2 DEF Device
<1> QED BY <1>2, <1>4, <1>5, SteadyTwice

LEMMA StopRefusedKeeps ==
  ASSUME IInv, NEW c \in Callers, NEW o \in Offered(c), StopRefused(c, o)
  PROVE  IInv'
<1> DEFINE h == stdev.model_handles \ {o.arg}
<1>1. lock \in {NoOne, c} /\ pc[c] # "opening"
  BY InPlace DEF StopRefused, IInv
<1>2. UNCHANGED socket /\ quiet' = quiet /\ leftOn' = leftOn /\ quiet' \subseteq Models
  BY DEF StopRefused, IInv, TypeOK
<1>3. PICK d : (d = stdev \/ d = [stdev EXCEPT !.model_handles = h]) /\ Return(c, d)
  BY DEF StopRefused
<1>4. Steady(stdev, d)
  <2>1. stdev \in Device /\ h \in SUBSET Models
    BY DEF IInv, TypeOK, Device
  <2> HIDE DEF h
  <2> QED BY <1>3, <2>1, Handles, SteadySame
<1> QED BY <1>1, <1>2, <1>3, <1>4, ReturnSteady

\* A stop or an unload is about a model, whose callback is reset first.
LEMMA Disarms ==
  ASSUME IInv, NEW c \in Callers, NEW o \in Offered(c), o.name \in {"stop", "unload"}
  PROVE  /\ o.arg \in Models /\ Steady(stdev, Disarmed(o.arg))
         /\ o.arg \notin Disarmed(o.arg).recognition_callbacks
<1>1. o.arg \in Models
  BY OfferedOps, Arguments, Parts DEF IInv
<1>2. stdev \in Device
  BY DEF IInv, TypeOK
<1>3. Steady(stdev, Disarmed(o.arg))
  BY <1>2, Released DEF Disarmed
<1>4. o.arg \notin Disarmed(o.arg).recognition_callbacks
  BY <1>2 DEF Disarmed, Device
<1> QED BY <1>1, <1>3, <1>4

LEMMA StopKeeps ==
  ASSUME IInv, NEW c \in Callers, NEW o \in Offered(c), stdev_stop_recognition_l(c, o)
  PROVE  IInv'
<1> DEFINE m == o.arg
           d == Disarmed(m)
<1>1. lock \in {NoOne, c} /\ pc[c] # "opening" /\ o.name \in {"stop", "unload"}
  BY InPlace DEF stdev_stop_recognition_l, IInv
<1>2. m \in Models /\ Steady(stdev, d) /\ d \in Device
  BY <1>1, Disarms DEF Steady
<1>3. UNCHANGED socket /\ quiet' = quiet \cup {m} /\ leftOn' = leftOn /\ quiet' \subseteq Models
  BY <1>2 DEF stdev_stop_recognition_l, IInv, TypeOK
<1>4. PICK e : (e = d \/ e \in ShutDown(d) \/ e \in PowerCycle(d)) /\ Return(c, StopRest(o, e))
  BY DEF stdev_stop_recognition_l
<1> HIDE DEF d
<1>5. Steady(d, e) /\ e \in Device
  BY <1>2, <1>4, ShutDownSteady, PowerCycled, SteadySame DEF Steady
<1> DEFINE f == StopRest(o, e)
<1>6. Steady(e, f) /\ f.model_execstate[m] = "none" /\ Return(c, f)
  BY <1>2, <1>4, <1>5, StopRests
<1> HIDE DEF f, m
<1>7. Steady(stdev, f)
  BY <1>2, <1>5, <1>6, SteadyTwice
<1>8. \A n \in quiet' \ quiet : f.model_execstate[n] # "running"
  BY <1>3, <1>6
<1> QED BY <1>1, <1>3, <1>6, <1>7, <1>8, ReturnSteady

\* Without the lock, the callback thread is joined.
LEMMA StopJoinsKeeps ==
  ASSUME IInv, NEW c \in Callers, NEW o \in Offered(c), StopJoins(c, o)
  PROVE  IInv'
<1>1. lock \in {NoOne, c} /\ pc[c] # "opening" /\ o.name \in {"stop", "unload"}
  BY InPlace DEF StopJoins, IInv
<1>2. Steady(stdev, stdev') /\ stdev' \in Device
  BY <1>1, Disarms DEF StopJoins, Steady
<1>3. /\ lock' = NoOne /\ pc' = [pc EXCEPT ![c] = "joining"] /\ op' = [op EXCEPT ![c] = o]
      /\ thread' = thread /\ events' = events /\ term' \in BOOLEAN /\ notifier' = notifier
      /\ quiet' = quiet /\ leftOn' = leftOn /\ recording_lock' = recording_lock
      /\ trigger_lock' \in {trigger_lock, c, NoOne}
  BY DEF StopJoins, Listening
<1>4. TypeOK' /\ Waiting' /\ (\A b \in Callers : pc'[b] \notin Holding)
  <2>1. /\ thread' \in Threads /\ events' \in Seq(Models) /\ Len(events') <= MaxEvents
        /\ quiet' \subseteq Models /\ leftOn' \in BOOLEAN
        /\ o \in AllOps /\ o \in OpsOf(c) \cup {NoOp, CloseAgain}
    BY <1>3, Parts, OfferedOps DEF IInv, Typed
  <2>2. "joining" \in {"idle", "joining"} /\ recording_lock' \in {recording_lock, NoOne}
    BY <1>3
  <2> QED BY <1>1, <1>2, <1>3, <2>1, <2>2, Frees DEF IInv
<1>5. DeviceInv'
  <2>1. ~Reopening /\ Decided'
    BY <1>1, <1>3, NotReopening, NotDeciding DEF IInv
  <2>2. \A b \in Callers : pc'[b] # "opening"
    BY <1>4 DEF Holding
  <2> QED BY <1>2, <1>3, <1>4, <2>1, <2>2, SteadyStep
<1> QED BY <1>4, <1>5 DEF IInv

LEMMA JoinKeeps ==
  ASSUME IInv, NEW c \in Callers, Join(c)
  PROVE  IInv'
<1>1. /\ stdev' = stdev /\ lock' = lock /\ trigger_lock' = trigger_lock
      /\ recording_lock' = recording_lock /\ op' = op /\ thread' = thread /\ events' = events
      /\ term' = term /\ notifier' = notifier /\ quiet' = quiet /\ leftOn' = leftOn
  BY DEF Join
<1>2. /\ pc' \in [Callers -> Places] /\ pc[c] \notin Holding /\ pc'[c] \notin Holding
      /\ \A b \in Callers : b # c => pc'[b] = pc[b]
  BY Parts DEF Join, IInv, Typed, Places, Holding
<1>3. /\ thread' \in Threads /\ events' \in Seq(Models) /\ Len(events') <= MaxEvents
      /\ term' \in BOOLEAN /\ notifier' \in {"idle", "power", "mic"} /\ quiet' \subseteq Models
      /\ stdev' \in Device
  BY <1>1, Parts DEF IInv, Typed
<1>4. TypeOK' /\ Waiting'
  BY <1>1, <1>2, <1>3, Stays DEF IInv
<1>5. DeviceInv'
  <2>1. \A b \in Callers : pc'[b] = "opening" <=> pc[b] = "opening"
    BY <1>2 DEF Holding
  <2>2. Reopening => Reopening'
    BY <1>1, <2>1 DEF Reopening, Callers
  <2>3. Steady(stdev, stdev')
    BY <1>1, <1>3, SteadySame
  <2>4. Decided'
    BY <1>1 DEF Decided, IInv, DeviceInv
  <2> QED BY <1>1, <1>4, <2>1, <2>2, <2>3, <2>4, SteadyStep
<1> QED BY <1>4, <1>5 DEF IInv

LEMMA StopJoinedKeeps ==
  ASSUME IInv, NEW c \in Callers, StopJoined(c)
  PROVE  IInv'
<1> DEFINE o == op[c]
<1>1. lock \in {NoOne, c} /\ pc[c] # "opening" /\ o.name \in {"stop", "unload"}
  BY DEF StopJoined
<1>2. o.arg \in Models
  BY <1>1, Arguments, Parts DEF IInv, Typed
<1>3. UNCHANGED socket /\ quiet' = quiet \cup {o.arg} /\ leftOn' = leftOn /\ quiet' \subseteq Models
  BY <1>2 DEF StopJoined, IInv, TypeOK
<1>4. PICK d \in ShutDown(stdev) : Return(c, StopRest(o, d))
  BY DEF StopJoined
<1>5. Steady(stdev, d) /\ d \in Device
  BY <1>4, ShutDownSteady DEF IInv, TypeOK, Steady
<1> DEFINE f == StopRest(o, d)
<1>6. Steady(d, f) /\ f.model_execstate[o.arg] = "none" /\ Return(c, f)
  BY <1>2, <1>4, <1>5, StopRests
<1> HIDE DEF f
<1>7. Steady(stdev, f)
  BY <1>5, <1>6, SteadyTwice
<1>8. \A n \in quiet' \ quiet : f.model_execstate[n] # "running"
  BY <1>3, <1>6
<1> QED BY <1>1, <1>3, <1>6, <1>7, <1>8, ReturnSteady

LEMMA CloseJoinsKeeps ==
  ASSUME IInv, NEW c \in Callers, NEW o \in Offered(c), CloseJoins(c, o)
  PROVE  IInv'
<1>1. pc[c] = "idle" /\ lock = NoOne
  BY DEF CloseJoins, In, MayCall, IInv, Waiting, Holding
<1>2. /\ stdev' = stdev /\ stdev \in Device /\ lock' = NoOne /\ pc' = [pc EXCEPT ![c] = "joining"]
      /\ op' = [op EXCEPT ![c] = o] /\ trigger_lock' = trigger_lock
      /\ recording_lock' = recording_lock /\ thread' = thread /\ events' = events
      /\ term' \in BOOLEAN /\ notifier' = notifier /\ quiet' = quiet /\ leftOn' = leftOn
  BY <1>1 DEF CloseJoins, Listening, IInv, TypeOK
<1>3. TypeOK' /\ Waiting' /\ (\A b \in Callers : pc'[b] \notin Holding)
  <2>1. /\ thread' \in Threads /\ events' \in Seq(Models) /\ Len(events') <= MaxEvents
        /\ quiet' \subseteq Models /\ leftOn' \in BOOLEAN
        /\ o \in AllOps /\ o \in OpsOf(c) \cup {NoOp, CloseAgain}
    BY <1>2, Parts, OfferedOps DEF IInv, Typed
  <2>2. "joining" \in {"idle", "joining"} /\ recording_lock' \in {recording_lock, NoOne}
    BY <1>2
  <2> QED BY <1>1, <1>2, <2>1, <2>2, Frees DEF IInv
<1>4. DeviceInv'
  <2>1. ~Reopening /\ Decided' /\ Steady(stdev, stdev')
    BY <1>1, <1>2, NotReopening, NotDeciding, SteadySame DEF IInv
  <2>2. \A b \in Callers : pc'[b] # "opening"
    BY <1>3 DEF Holding
  <2> QED BY <1>2, <1>3, <2>1, <2>2, SteadyStep
<1> QED BY <1>3, <1>4 DEF IInv

LEMMA CloseJoinsAgainKeeps ==
  ASSUME IInv, NEW c \in Callers, CloseJoinsAgain(c)
  PROVE  IInv'
<1>1. pc[c] = "joined" /\ lock = NoOne /\ op[c].name = "close"
  BY DEF CloseJoinsAgain, CloseJoined
<1>2. op' = [op EXCEPT ![c] = CloseAgain]
  <2>1. op[c] \in AllOps /\ op \in [Callers -> AllOps]
    BY DEF IInv, Waiting
  <2>2. op[c] = [name |-> "close", arg |-> op[c].arg]
    BY <1>1, <2>1 DEF AllOps, FrameworkOps, AudioOps, NoOp, CloseAgain
  <2>3. [op[c] EXCEPT !.arg = "again"] = CloseAgain
    BY <2>2 DEF CloseAgain
  <2> QED BY <2>1, <2>3 DEF CloseJoinsAgain
<1>3. Steady(stdev, stdev') /\ stdev' \in Device
  BY ShutDownSteady DEF CloseJoinsAgain, IInv, TypeOK, Steady
<1>4. /\ lock' = NoOne /\ pc' = [pc EXCEPT ![c] = "joining"]
      /\ trigger_lock' = trigger_lock /\ recording_lock' = recording_lock /\ thread' = thread
      /\ events' = events /\ term' = term /\ notifier' = notifier /\ quiet' = quiet
      /\ leftOn' = leftOn
  BY <1>1 DEF CloseJoinsAgain
<1>5. TypeOK' /\ Waiting' /\ (\A b \in Callers : pc'[b] \notin Holding)
  <2>1. /\ thread' \in Threads /\ events' \in Seq(Models) /\ Len(events') <= MaxEvents
        /\ quiet' \subseteq Models /\ leftOn' \in BOOLEAN /\ term' \in BOOLEAN
    BY <1>4, Parts DEF IInv, Typed
  <2>2. "joining" \in {"idle", "joining"} /\ recording_lock' \in {recording_lock, NoOne}
    BY <1>4
  <2>3. CloseAgain \in AllOps /\ CloseAgain \in OpsOf(c) \cup {NoOp, CloseAgain}
    BY DEF AllOps
  <2> QED BY <1>1, <1>2, <1>3, <1>4, <2>1, <2>2, <2>3, Frees DEF IInv
<1>6. DeviceInv'
  <2>1. ~Reopening /\ Decided'
    BY <1>1, <1>4, NotReopening, NotDeciding DEF IInv
  <2>2. \A b \in Callers : pc'[b] # "opening"
    BY <1>5 DEF Holding
  <2> QED BY <1>3, <1>4, <1>5, <2>1, <2>2, SteadyStep
<1> QED BY <1>5, <1>6 DEF IInv

LEMMA CloseKeeps ==
  ASSUME IInv, NEW c \in Callers, NEW o \in Offered(c), lock \in {NoOne, c}, stdev_close(c, o)
  PROVE  IInv'
<1>1. pc[c] # "opening"
  BY InPlace DEF stdev_close, CloseJoined, IInv
<1>2. UNCHANGED socket /\ quiet' \subseteq Models /\ leftOn' = leftOn
  BY DEF stdev_close, IInv, TypeOK
<1>3. CASE ~stdev.sthal_opened
  <2>1. Return(c, stdev) /\ quiet' = quiet /\ Steady(stdev, stdev)
    BY <1>3, SteadySame DEF stdev_close, IInv, TypeOK
  <2> QED BY <1>1, <1>2, <2>1, ReturnSteady
<1>4. CASE stdev.sthal_opened
  <2>1. PICK d \in ShutDown(stdev) : Return(c, Closed(d))
    BY <1>4 DEF stdev_close
  <2>2. Steady(stdev, d) /\ d \in Device
    BY <2>1, ShutDownSteady DEF IInv, TypeOK, Steady
  <2>3. Steady(d, Closed(d)) /\ Closed(d).recognition_callbacks = {}
    BY <2>2 DEF Closed, Device, Steady
  <2>4. Steady(stdev, Closed(d))
    BY <2>2, <2>3, SteadyTwice
  <2> QED BY <1>1, <1>2, <2>1, <2>3, <2>4, ReturnSteady
<1> QED BY <1>3, <1>4

\* A function that has to wait is not stdev_close().
LEMMA DelayedKeeps ==
  ASSUME IInv, NEW c \in Callers, NEW o \in Offered(c), Delayed(c, o)
  PROVE  IInv'
<1>1. pc[c] = "idle" /\ lock = NoOne
  BY DEF Delayed, MayCall
<1>2. o.name # "close"
  BY DEF Delayed, SecondLockFree, NeedsTriggerLock, NeedsRecordingLock, ClosesPcms
<1>3. /\ stdev' = stdev /\ stdev \in Device /\ lock' = c /\ pc' = [pc EXCEPT ![c] = "locked"]
      /\ op' = [op EXCEPT ![c] = o] /\ trigger_lock' = trigger_lock
      /\ recording_lock' = recording_lock /\ thread' = thread /\ events' = events
      /\ term' = term /\ notifier' = notifier /\ quiet' = quiet /\ leftOn' = leftOn
  BY DEF Delayed, IInv, TypeOK
<1>4. TypeOK' /\ Waiting'
  <2>1. o \in AllOps /\ o \in OpsOf(c) \cup {NoOp, CloseAgain} /\ "locked" \in Holding
    BY Parts, OfferedOps DEF IInv, Holding
  <2> QED BY <1>1, <1>2, <1>3, <2>1, Holds DEF IInv
<1>5. DeviceInv'
  <2>1. ~Reopening /\ Decided' /\ Steady(stdev, stdev')
    BY <1>1, <1>3, NotReopening, NotDeciding, SteadySame DEF IInv
  <2>2. \A b \in Callers : pc'[b] # "opening"
    BY <1>1, <1>3, Alone DEF IInv, TypeOK, Holding
  <2> QED BY <1>3, <1>4, <2>1, <2>2, SteadyStep
<1> QED BY <1>4, <1>5 DEF IInv

-----------------------------------------------------------------------------
(***************************************************************************)
(* The audio HAL's operations.                                             *)
(***************************************************************************)
\* A function goes on to open a PCM.
LEMMA GoesOnInv ==
  ASSUME IInv, NEW c \in Callers, lock \in {NoOne, c}, NEW o \in AllOps,
         o \in OpsOf(c) \cup {NoOp, CloseAgain}, o.name # "close",
         NEW p \in {"opening", "opened"}, NEW d \in Device, GoesOn(c, o, p, d),
         UNCHANGED <<socket, history>>,
         d.voicecall /\ ~leftOn =>
           ~d.is_recording /\ ~d.is_mic_configured /\ d.recognition_callbacks = {},
         recording_lock = "reader" /\ ~NeedsRecordingLock(o.name) =>
           d.is_recording /\ d.recording_pcm = "open",
         \/ c \in Audio /\ p = "opening" /\ o.name = "headset"
              /\ (d.is_recording => d.recording_pcm = "null")
         \/ ~(p = "opening" /\ o.name = "headset") /\ (d.is_recording => d.recording_pcm # "null"),
         p = "opening" /\ o.name = "open_recording" => ~d.voicecall,
         \A m \in quiet : m \in d.recognition_callbacks => d.model_execstate[m] # "running"
  PROVE  IInv'
<1>1. /\ stdev' = d /\ lock' = c /\ pc' = [pc EXCEPT ![c] = p] /\ op' = [op EXCEPT ![c] = o]
      /\ trigger_lock' \in {trigger_lock, c}
      /\ recording_lock' = IF NeedsRecordingLock(o.name) THEN c ELSE recording_lock
      /\ notifier' = notifier /\ thread' = thread /\ events' = events /\ term' = term
      /\ quiet' = quiet /\ leftOn' = leftOn
  BY DEF GoesOn
<1>2. TypeOK' /\ Waiting'
  <2>1. recording_lock' \in {recording_lock, c} /\ p \in Holding
    BY <1>1 DEF Holding
  <2> QED BY <1>1, <2>1, Holds DEF IInv
<1>3. /\ pc'[c] = p /\ op'[c] = o
      /\ \A b \in Callers : pc'[b] = "opening" => b = c
  BY <1>1, Alone, Parts DEF IInv, Typed, Holding
<1>4. SilentInCall' /\ Silenced'
  BY <1>1 DEF SilentInCall, Silenced
<1>5. Reading'
  BY <1>1, CallersAssumption DEF Reading
<1>6. Opening'
  BY <1>1, <1>3 DEF Opening, NeedsRecordingLock
<1>7. Recording'
  BY <1>1, <1>3 DEF Recording, Reopening
<1>8. Decided'
  BY <1>1, NotDeciding DEF IInv
<1> QED BY <1>2, <1>4, <1>5, <1>6, <1>7, <1>8 DEF IInv, DeviceInv

\* As long as the device changes little, going on needs no more.
LEMMA GoesOnSteady ==
  ASSUME IInv, NEW c \in Callers, lock \in {NoOne, c}, NEW o \in AllOps,
         o \in OpsOf(c) \cup {NoOp, CloseAgain}, o.name = "open_streaming",
         ~(pc[c] = "opening" /\ op[c].name = "headset"),
         NEW p \in {"opening", "opened"}, NEW d, Steady(stdev, d), GoesOn(c, o, p, d),
         UNCHANGED <<socket, history>>
  PROVE  IInv'
<1>1. d \in Device /\ ~Reopening /\ quiet \subseteq Models
  BY NotReopening DEF Steady, IInv, TypeOK
<1>2. d.voicecall /\ ~leftOn =>
        ~d.is_recording /\ ~d.is_mic_configured /\ d.recognition_callbacks = {}
  BY DEF Steady, IInv, DeviceInv, SilentInCall
<1>3. recording_lock = "reader" => d.is_recording /\ d.recording_pcm = "open"
  BY DEF Steady, IInv, DeviceInv, Reading
<1>4. d.is_recording => d.recording_pcm # "null"
  BY <1>1 DEF Steady, IInv, DeviceInv, Recording
<1>5. \A m \in quiet : m \in d.recognition_callbacks => d.model_execstate[m] # "running"
  BY <1>1 DEF Steady, IInv, DeviceInv, Silenced
<1> QED BY <1>1, <1>2, <1>3, <1>4, <1>5, GoesOnInv

LEMMA OpenStreamKeeps ==
  ASSUME IInv, NEW c \in Callers, NEW o \in Offered(c), sound_trigger_open_for_streaming(c, o)
  PROVE  IInv'
<1>1. lock \in {NoOne, c} /\ pc[c] # "opening" /\ o.name = "open_streaming"
  BY InPlace DEF sound_trigger_open_for_streaming, IInv
<1>2. UNCHANGED <<socket, history>> /\ quiet' \subseteq Models /\ Steady(stdev, stdev)
  BY SteadySame DEF sound_trigger_open_for_streaming, IInv, TypeOK
<1>3. GoesOn(c, o, "opening", stdev) \/ Return(c, stdev)
  BY DEF sound_trigger_open_for_streaming
<1>4. o \in AllOps /\ o \in OpsOf(c) \cup {NoOp, CloseAgain} /\ "opening" \in {"opening", "opened"}
  BY Parts, OfferedOps DEF IInv
<1>5. CASE GoesOn(c, o, "opening", stdev)
  BY <1>1, <1>2, <1>4, <1>5, GoesOnSteady
<1>6. CASE Return(c, stdev)
  BY <1>1, <1>2, <1>6, ReturnSteady
<1> QED BY <1>3, <1>5, <1>6

\* Who opens a PCM has the lock.
LEMMA OpeningPlace ==
  ASSUME IInv, NEW c \in Callers, pc[c] \in {"opening", "opened"}
  PROVE  /\ lock \in {NoOne, c} /\ op[c] \in AllOps /\ op[c] \in OpsOf(c) \cup {NoOp, CloseAgain}
         /\ stdev \in Device /\ quiet \subseteq Models /\ leftOn \in BOOLEAN
BY DEF IInv, TypeOK, Waiting, Holding

LEMMA StreamOpensKeeps ==
  ASSUME IInv, NEW c \in Callers, StreamOpens(c) \/ StreamIsOpen(c)
  PROVE  IInv'
<1>1. /\ pc[c] \in {"opening", "opened"} /\ op[c].name = "open_streaming"
      /\ UNCHANGED <<socket, history>>
  BY DEF StreamOpens, StreamIsOpen
<1>2. /\ lock \in {NoOne, c} /\ op[c] \in AllOps /\ op[c] \in OpsOf(c) \cup {NoOp, CloseAgain}
      /\ stdev \in Device /\ quiet' \subseteq Models
  BY <1>1, OpeningPlace
<1>3. PICK d : /\ \/ \E pcm \in Pcm : d = [stdev EXCEPT !.streaming_pcm = pcm]
                  \/ d = [stdev EXCEPT !.is_seamless_recording = TRUE]
               /\ GoesOn(c, op[c], "opened", d) \/ Return(c, d)
  BY DEF StreamOpens, StreamIsOpen
<1>4. Steady(stdev, d)
  <2>1. TRUE \in BOOLEAN /\ "main" \in {"main", "headset"} /\ "open" \in Pcm
    BY DEF Pcm
  <2> QED BY <1>2, <1>3, <2>1, Streaming
<1>5. CASE GoesOn(c, op[c], "opened", d)
  <2>1. "opened" \in {"opening", "opened"}
    OBVIOUS
  <2> QED BY <1>1, <1>2, <1>4, <1>5, <2>1, GoesOnSteady
<1>6. CASE Return(c, d)
  BY <1>1, <1>2, <1>4, <1>6, ReturnSteady
<1> QED BY <1>3, <1>5, <1>6

\* The VTS is switched off, and on for the models with a callback.
LEMMA CloseStreamKeeps ==
  ASSUME IInv, NEW c \in Callers, NEW o \in Offered(c), sound_trigger_close_for_streaming(c, o)
  PROVE  IInv'
<1> DEFINE models == stdev.recognition_callbacks
           off == stdev_vts_set_power(stdev, {})
<1>1. lock \in {NoOne, c} /\ pc[c] # "opening"
  BY InPlace DEF sound_trigger_close_for_streaming, IInv
<1>2. /\ quiet' = quiet /\ leftOn' = leftOn /\ quiet' \subseteq Models /\ stdev \in Device
      /\ UNCHANGED socket \/ stdev_start_callback_thread
  BY DEF sound_trigger_close_for_streaming, IInv, TypeOK
<1>3. PICK e : /\ Return(c, e)
               /\ \/ e = stdev \/ e \in off
                  \/ models # {} /\ \E d \in off : e \in stdev_vts_set_power(ThreadStarted(d), models)
                  \/ models # {} /\ \E d \in off : e \in stdev_vts_set_power(ThreadFailed(d), models)
  BY DEF sound_trigger_close_for_streaming
<1>4. Steady(stdev, e)
  <2>1. CASE e = stdev \/ e \in off
    BY <1>2, <2>1, SteadySame, PowerOff
  <2>2. ASSUME NEW d \in off, NEW f, f = ThreadStarted(d) \/ f = ThreadFailed(d), models # {},
               e \in stdev_vts_set_power(f, models)
        PROVE  Steady(stdev, e)
    <3>1. Steady(stdev, d) /\ d \in Device /\ d.recognition_callbacks = models
      BY <1>2, <2>2, PowerOff DEF Steady, Kept
    <3> HIDE DEF models, off
    <3>2. f \in Device /\ f.recognition_callbacks = models
      BY <2>2, <3>1 DEF ThreadStarted, ThreadFailed, Device
    <3>3. Steady(d, f)
      <4>1. TRUE \in BOOLEAN /\ FALSE \in BOOLEAN /\ "none" \in {"none", "called"}
        OBVIOUS
      <4> QED BY <2>2, <3>1, <4>1, Threading DEF ThreadStarted, ThreadFailed
    <3>4. Steady(f, e)
      BY <2>2, <3>2, PowerOn
    <3> QED BY <3>1, <3>3, <3>4, SteadyTwice
  <2> QED BY <1>3, <2>1, <2>2
<1> QED BY <1>1, <1>2, <1>3, <1>4, ReturnSteady

\* What only concerns the recording and the microphone leaves the callbacks as they are.
Hooks(d) == <<d.recognition_callbacks, d.model_execstate, d.voicecall>>

\* A recording is ended.
LEMMA Ended ==
  ASSUME NEW d \in Device, NEW e, e = RecordEnded(d)
  PROVE  e \in Device /\ Hooks(e) = Hooks(d) /\ ~e.is_recording
<1>1. PICK f : (f = d \/ f = stdev_vts_set_mic(d, FALSE)) /\ e = RecordClosed(f)
  BY DEF RecordEnded
<1>2. f \in Device /\ Hooks(f) = Hooks(d)
  <2>1. FALSE \in BOOLEAN
    OBVIOUS
  <2>2. f \in Device /\ Kept(f) = Kept(d)
    BY <1>1, <2>1, SetMic
  <2> QED BY <2>2 DEF Kept, Hooks
<1>3. e \in Device /\ Hooks(e) = Hooks(f) /\ ~e.is_recording
  BY <1>1, <1>2 DEF RecordClosed, Device, Hooks, Pcm
<1> QED BY <1>2, <1>3

LEMMA OpenRecordingKeeps ==
  ASSUME IInv, NEW c \in Callers, NEW o \in Offered(c), sound_trigger_open_recording(c, o)
  PROVE  IInv'
<1> DEFINE d == IF stdev.is_recording THEN RecordEnded(stdev) ELSE stdev
           e == stdev_vts_set_mic(d, TRUE)
<1>1. lock \in {NoOne, c} /\ pc[c] # "opening" /\ o.name = "open_recording"
  BY InPlace DEF sound_trigger_open_recording, IInv
<1>2. UNCHANGED <<socket, history>> /\ quiet \subseteq Models /\ stdev \in Device
  BY DEF sound_trigger_open_recording, IInv, TypeOK
<1>3. Return(c, stdev) \/ (~stdev.voicecall /\ GoesOn(c, o, "opening", e))
  BY DEF sound_trigger_open_recording
<1>4. CASE Return(c, stdev)
  <2>1. Steady(stdev, stdev)
    BY <1>2, SteadySame
  <2> QED BY <1>1, <1>2, <1>4, <2>1, ReturnSteady
<1>5. CASE ~stdev.voicecall /\ GoesOn(c, o, "opening", e)
  <2>1. d \in Device /\ Hooks(d) = Hooks(stdev) /\ ~d.is_recording
    BY <1>2, Ended
  <2> HIDE DEF d
  <2>2. e \in Device /\ Hooks(e) = Hooks(stdev) /\ ~e.is_recording
    <3>1. TRUE \in BOOLEAN
      OBVIOUS
    <3>2. e \in Device /\ Kept(e) = Kept(d)
      BY <2>1, <3>1, SetMic
    <3> QED BY <2>1, <3>2 DEF Kept, Hooks
  <2>3. GoesOn(c, o, "opening", e) /\ ~stdev.voicecall
    BY <1>5
  <2> HIDE DEF e
  <2>4. o \in AllOps /\ o \in OpsOf(c) \cup {NoOp, CloseAgain} /\ "opening" \in {"opening", "opened"}
    BY Parts, OfferedOps DEF IInv
  <2>5. ~e.voicecall /\ NeedsRecordingLock(o.name)
    BY <1>1, <2>2, <2>3 DEF Hooks, NeedsRecordingLock
  <2>6. \A m \in quiet : m \in e.recognition_callbacks => e.model_execstate[m] # "running"
    BY <2>2 DEF Hooks, IInv, DeviceInv, Silenced
  <2> QED BY <1>1, <1>2, <2>2, <2>3, <2>4, <2>5, <2>6, GoesOnInv
<1> QED BY <1>3, <1>4, <1>5

LEMMA RecordOpensKeeps ==
  ASSUME IInv, NEW c \in Callers, RecordOpens(c)
  PROVE  IInv'
<1>1. pc[c] = "opening" /\ op[c].name = "open_recording" /\ UNCHANGED <<socket, history>>
  BY DEF RecordOpens
<1>2. lock \in {NoOne, c} /\ stdev \in Device /\ quiet' \subseteq Models /\ leftOn' \in BOOLEAN
  BY <1>1, OpeningPlace
<1>3. recording_lock = c /\ ~stdev.voicecall
  BY <1>1 DEF IInv, DeviceInv, Opening
<1>4. PICK pcm \in Pcm :
        Return(c, [stdev EXCEPT !.recording_pcm = pcm, !.is_recording = (pcm = "open")])
  BY DEF RecordOpens
<1> DEFINE b == (pcm = "open")
           d == [stdev EXCEPT !.recording_pcm = pcm, !.is_recording = b]
<1>5. b \in BOOLEAN /\ Return(c, d)
  BY <1>4
<1> HIDE DEF b
<1>6. d \in Device /\ Hooks(d) = Hooks(stdev) /\ d.recording_pcm = pcm
  BY <1>2, <1>5 DEF Device, Hooks
<1> HIDE DEF d
<1>7. d.recording_pcm # "null" /\ ~d.voicecall /\ recording_lock # "reader"
  BY <1>3, <1>6, CallersAssumption DEF Hooks, Pcm
<1>8. \A m \in quiet' : m \in d.recognition_callbacks => d.model_execstate[m] # "running"
  BY <1>1, <1>6 DEF Hooks, IInv, DeviceInv, Silenced
<1> QED BY <1>1, <1>2, <1>5, <1>6, <1>7, <1>8, ReturnInv

LEMMA CloseRecordingKeeps ==
  ASSUME IInv, NEW c \in Callers, NEW o \in Offered(c), sound_trigger_close_recording(c, o)
  PROVE  IInv'
<1>1. lock \in {NoOne, c} /\ pc[c] # "opening" /\ recording_lock = NoOne
  BY InPlace DEF sound_trigger_close_recording, IInv, NeedsRecordingLock
<1>2. /\ UNCHANGED <<socket, history>> /\ quiet' \subseteq Models /\ leftOn' \in BOOLEAN
      /\ stdev \in Device
  BY DEF sound_trigger_close_recording, IInv, TypeOK
<1>3. CASE Return(c, stdev)
  <2>1. Steady(stdev, stdev)
    BY <1>2, SteadySame
  <2> QED BY <1>1, <1>2, <1>3, <2>1, ReturnSteady
<1>4. CASE ~Return(c, stdev)
  <2>1. PICK d \in Cleaned(stdev) : Return(c, IF d.is_recording THEN RecordEnded(d) ELSE d)
    BY <1>4 DEF sound_trigger_close_recording
  <2>2. Steady(stdev, d) /\ d \in Device /\ ~stdev.voicecall
    BY <1>2, <1>4, <2>1, HandleStop, SteadySame
       DEF Cleaned, Steady, sound_trigger_close_recording
  <2>3. CASE ~d.is_recording
    BY <1>1, <1>2, <2>1, <2>2, <2>3, ReturnSteady
  <2>4. CASE d.is_recording
    <3> DEFINE e == RecordEnded(d)
    <3>1. Return(c, e) /\ e \in Device /\ Hooks(e) = Hooks(d) /\ ~e.is_recording
      BY <2>1, <2>2, <2>4, Ended
    <3> HIDE DEF e
    <3>2. ~e.voicecall /\ recording_lock # "reader"
      BY <1>1, <2>2, <3>1, CallersAssumption DEF Hooks, Steady
    <3>3. \A m \in quiet' : m \in e.recognition_callbacks => e.model_execstate[m] # "running"
      BY <1>2, <2>2, <3>1 DEF Hooks, Steady, IInv, DeviceInv, Silenced
    <3> QED BY <1>1, <1>2, <3>1, <3>2, <3>3, ReturnInv
  <2> QED BY <2>3, <2>4
<1> QED BY <1>3, <1>4

\* Whoever closes the PCM nodes has waited for the reader.
LEMMA NoReader ==
  ASSUME IInv, CanClosePcms
  PROVE  recording_lock # "reader"
BY CallersAssumption DEF IInv, DeviceInv, Reading, CanClosePcms, Pcm

\* The PCMs are closed, and nothing is recorded.
LEMMA ClosesPcm ==
  ASSUME NEW d \in Device, NEW e, e = PcmsClosed(d)
  PROVE  /\ e \in Device /\ Hooks(e) = Hooks(d) /\ ~e.is_recording
         /\ d.is_recording => e.recording_pcm = "null"
<1> DEFINE f == IF d.is_recording THEN RecordClosed(d) ELSE d
<1>1. /\ f \in Device /\ Hooks(f) = Hooks(d) /\ ~f.is_recording
      /\ d.is_recording => f.recording_pcm = "null"
  <2>1. /\ RecordClosed(d) \in Device /\ Hooks(RecordClosed(d)) = Hooks(d)
        /\ ~RecordClosed(d).is_recording /\ RecordClosed(d).recording_pcm = "null"
    BY DEF RecordClosed, Device, Hooks, Pcm
  <2> QED BY <2>1
<1>2. e = f \/ e = StreamClosed(f)
  BY DEF PcmsClosed
<1> HIDE DEF f
<1>3. StreamClosed(f) \in Device /\ Hooks(StreamClosed(f)) = Hooks(f)
      /\ StreamClosed(f).is_recording = f.is_recording
      /\ StreamClosed(f).recording_pcm = f.recording_pcm
  BY <1>1 DEF StreamClosed, Device, Hooks, Pcm
<1> QED BY <1>1, <1>2, <1>3

\* What the functions that change the microphone do with the recording.
Records(d) == <<d.is_recording, d.recording_pcm>>

LEMMA MicChanges ==
  ASSUME NEW d \in Device, NEW mic \in {"main", "headset"}, NEW rec \in BOOLEAN
  PROVE  /\ MicChanged(d, mic, rec) \in Device /\ Hooks(MicChanged(d, mic, rec)) = Hooks(d)
         /\ MicChanged(d, mic, rec).is_recording = rec
         /\ MicChanged(d, mic, rec).recording_pcm = d.recording_pcm
BY DEF MicChanged, Device, Hooks

LEMMA Resumes ==
  ASSUME NEW d \in Device, NEW s \in SUBSET Models, NEW b \in BOOLEAN
  PROVE  /\ Resumed(d, s, b) \in Device /\ Hooks(Resumed(d, s, b)) = Hooks(d)
         /\ Records(Resumed(d, s, b)) = Records(d)
BY DEF Resumed, Device, Hooks, Records

LEMMA Restarts ==
  ASSUME NEW d \in Device, NEW e \in Device, NEW g \in Restarted(e, d)
  PROVE  g \in Device /\ Hooks(g) = Hooks(e) /\ Records(g) = Records(e)
<1> DEFINE models == d.recognition_callbacks \cup d.is_streaming
           s == d.is_streaming
           b == d.is_seamless_recording
           on == IF models = {} THEN {e} ELSE {Resumed(f, s, b) : f \in stdev_vts_set_power(e, models)}
<1>1. models \in SUBSET Models /\ s \in SUBSET Models /\ b \in BOOLEAN
  BY DEF Device
<1>2. PICK f \in on : g = IF f.is_recording THEN stdev_vts_set_mic(f, TRUE) ELSE f
  BY DEF Restarted
<1> HIDE DEF models, s, b
<1>3. f \in Device /\ Hooks(f) = Hooks(e) /\ Records(f) = Records(e)
  <2>1. ASSUME NEW h \in stdev_vts_set_power(e, models), f = Resumed(h, s, b)
        PROVE  f \in Device /\ Hooks(f) = Hooks(e) /\ Records(f) = Records(e)
    <3>1. h \in Device /\ Kept(h) = Kept(e)
      BY <1>1, <2>1, SetPower
    <3>2. Hooks(h) = Hooks(e) /\ Records(h) = Records(e)
      BY <3>1 DEF Kept, Hooks, Records
    <3> QED BY <1>1, <2>1, <3>1, <3>2, Resumes
  <2> QED BY <1>2, <2>1
<1>4. g \in Device /\ Hooks(g) = Hooks(f) /\ Records(g) = Records(f)
  <2>1. TRUE \in BOOLEAN
    OBVIOUS
  <2>2. g \in Device /\ Kept(g) = Kept(f)
    BY <1>2, <1>3, <2>1, SetMic
  <2> QED BY <2>2 DEF Kept, Hooks, Records
<1> QED BY <1>3, <1>4

\* The microphone changes, up to the PCMs.
LEMMA Remicks ==
  ASSUME NEW d \in Device, NEW mic \in {"main", "headset"}, NEW g \in Remicked(d, mic)
  PROVE  /\ g \in Device /\ Hooks(g) = Hooks(d) /\ g.is_recording = d.is_recording
         /\ g.is_recording => g.recording_pcm = "null"
<1> DEFINE p == PcmsClosed(d)
           r == d.is_recording
<1>1. PICK e \in stdev_vts_set_power(p, {}) : g \in Restarted(MicChanged(e, mic, r), d)
  BY DEF Remicked
<1>2. p \in Device /\ Hooks(p) = Hooks(d) /\ (r => p.recording_pcm = "null") /\ r \in BOOLEAN
  BY ClosesPcm DEF Device
<1> HIDE DEF p
<1>3. e \in Device /\ Hooks(e) = Hooks(p) /\ Records(e) = Records(p)
  <2>1. e \in Device /\ Kept(e) = Kept(p)
    BY <1>1, <1>2, PowerOff DEF Steady
  <2> QED BY <2>1 DEF Kept, Hooks, Records
<1> DEFINE f == MicChanged(e, mic, r)
<1>4. f \in Device /\ Hooks(f) = Hooks(e) /\ f.is_recording = r /\ f.recording_pcm = e.recording_pcm
  BY <1>2, <1>3, MicChanges
<1>5. g \in Restarted(f, d)
  BY <1>1
<1> HIDE DEF f
<1>6. g \in Device /\ Hooks(g) = Hooks(f) /\ Records(g) = Records(f)
  BY <1>4, <1>5, Restarts
<1> QED BY <1>2, <1>3, <1>4, <1>6 DEF Records

LEMMA HeadsetKeeps ==
  ASSUME IInv, NEW c \in Audio, NEW o \in Offered(c), sound_trigger_headset_status(c, o)
  PROVE  IInv'
<1> DEFINE mic == o.arg
<1>1. c \in Callers
  BY DEF Callers
<1>2. lock \in {NoOne, c} /\ pc[c] # "opening" /\ o.name = "headset"
  BY <1>1, InPlace DEF sound_trigger_headset_status, IInv
<1>3. o \in AllOps /\ o \in OpsOf(c) \cup {NoOp, CloseAgain} /\ mic \in {"main", "headset"}
  BY <1>1, <1>2, Parts, OfferedOps, Arguments DEF IInv
<1>4. UNCHANGED <<socket, history>> /\ quiet' \subseteq Models /\ stdev \in Device
  BY DEF sound_trigger_headset_status, IInv, TypeOK
<1>5. \/ Return(c, stdev) \/ Return(c, [stdev EXCEPT !.active_mic = mic])
      \/ /\ stdev.is_mic_configured /\ CanClosePcms
         /\ \E d \in Remicked(stdev, mic) : GoesOn(c, o, "opening", d)
  BY DEF sound_trigger_headset_status
<1> HIDE DEF mic
<1>6. CASE Return(c, stdev) \/ Return(c, [stdev EXCEPT !.active_mic = mic])
  <2>1. Steady(stdev, stdev) /\ Steady(stdev, [stdev EXCEPT !.active_mic = mic])
    <3>1. "null" \in {"null"} \cup Pcm /\ TRUE \in BOOLEAN
      OBVIOUS
    <3> QED BY <1>3, <1>4, <3>1, SteadySame, Streaming
  <2> QED BY <1>1, <1>2, <1>4, <1>6, <2>1, ReturnSteady
<1>7. CASE /\ stdev.is_mic_configured /\ CanClosePcms
           /\ \E d \in Remicked(stdev, mic) : GoesOn(c, o, "opening", d)
  <2>1. PICK d \in Remicked(stdev, mic) : GoesOn(c, o, "opening", d)
    BY <1>7
  <2>2. /\ d \in Device /\ Hooks(d) = Hooks(stdev)
        /\ d.is_recording => d.recording_pcm = "null"
    BY <1>3, <1>4, <2>1, Remicks
  <2>3. recording_lock # "reader"
    BY <1>7, NoReader
  <2>4. ~(d.voicecall /\ ~leftOn)
    BY <1>7, <2>2 DEF Hooks, IInv, DeviceInv, SilentInCall
  <2>5. \A m \in quiet : m \in d.recognition_callbacks => d.model_execstate[m] # "running"
    BY <2>2 DEF Hooks, IInv, DeviceInv, Silenced
  <2>6. "opening" \in {"opening", "opened"} /\ o.name # "close" /\ o.name # "open_recording"
    BY <1>2
  <2> QED BY <1>1, <1>2, <1>3, <1>4, <2>1, <2>2, <2>3, <2>4, <2>5, <2>6, GoesOnInv
<1> QED BY <1>5, <1>6, <1>7

\* The PCM of a recording is opened again, or given up.
LEMMA RecordReopensKeeps ==
  ASSUME IInv, NEW c \in Callers, RecordReopens(c)
  PROVE  IInv'
<1>1. pc[c] = "opening" /\ op[c].name = "headset" /\ UNCHANGED <<socket, history>>
  BY DEF RecordReopens
<1>2. /\ lock \in {NoOne, c} /\ op[c] \in AllOps /\ op[c] \in OpsOf(c) \cup {NoOp, CloseAgain}
      /\ stdev \in Device /\ quiet' \subseteq Models /\ leftOn' \in BOOLEAN
  BY <1>1, OpeningPlace
<1>3. recording_lock # "reader"
  BY <1>1 DEF IInv, DeviceInv, Opening, Reading
<1> DEFINE reopened(pcm) == IF stdev.is_recording THEN [stdev EXCEPT !.recording_pcm = pcm] ELSE stdev
<1>4. PICK pcm \in Pcm : GoesOn(c, op[c], "opened", reopened(pcm)) \/ Return(c, reopened(pcm))
  BY DEF RecordReopens
<1> DEFINE d == reopened(pcm)
<1>5. /\ d \in Device /\ Hooks(d) = Hooks(stdev) /\ d.is_recording = stdev.is_recording
      /\ d.is_recording => d.recording_pcm # "null"
      /\ d.is_mic_configured = stdev.is_mic_configured
  <2>1. pcm \in {"null", "lost"} \cup Pcm /\ pcm # "null"
    BY DEF Pcm
  <2>2. CASE stdev.is_recording
    <3>1. d = [stdev EXCEPT !.recording_pcm = pcm]
      BY <2>2
    <3> HIDE DEF d
    <3> QED BY <1>2, <2>1, <3>1 DEF Device, Hooks
  <2>3. CASE ~stdev.is_recording
    BY <1>2, <2>3
  <2> QED BY <2>2, <2>3
<1> HIDE DEF d
<1>6. d.voicecall /\ ~leftOn =>
        ~d.is_recording /\ ~d.is_mic_configured /\ d.recognition_callbacks = {}
  BY <1>5 DEF Hooks, IInv, DeviceInv, SilentInCall
<1>7. \A m \in quiet : m \in d.recognition_callbacks => d.model_execstate[m] # "running"
  BY <1>5 DEF Hooks, IInv, DeviceInv, Silenced
<1>8. CASE GoesOn(c, op[c], "opened", d)
  <2>1. "opened" \in {"opening", "opened"} /\ op[c].name # "close" /\ "opened" # "opening"
    BY <1>1
  <2> QED BY <1>1, <1>2, <1>3, <1>5, <1>6, <1>7, <1>8, <2>1, GoesOnInv
<1>9. CASE Return(c, d)
  BY <1>1, <1>2, <1>3, <1>5, <1>6, <1>7, <1>9, ReturnInv
<1> QED BY <1>4, <1>8, <1>9 DEF d

LEMMA StreamReopensKeeps ==
  ASSUME IInv, NEW c \in Callers, StreamReopens(c)
  PROVE  IInv'
<1>1. pc[c] = "opened" /\ op[c].name = "headset" /\ UNCHANGED <<socket, history>>
  BY DEF StreamReopens
<1>2. /\ lock \in {NoOne, c} /\ stdev \in Device /\ quiet' \subseteq Models /\ leftOn' \in BOOLEAN
  BY <1>1, OpeningPlace
<1> DEFINE p == IF stdev.recording_pcm \in Pcm THEN "lost" ELSE stdev.recording_pcm
           e == [stdev EXCEPT !.streaming_pcm = "bad", !.recording_pcm = p]
<1>3. \/ Return(c, [stdev EXCEPT !.streaming_pcm = "open"])
      \/ (stdev.recording_pcm \in Pcm => recording_lock = NoOne) /\ Return(c, e)
  BY DEF StreamReopens
<1>4. CASE Return(c, [stdev EXCEPT !.streaming_pcm = "open"])
  <2>1. "open" \in {"null"} \cup Pcm /\ TRUE \in BOOLEAN /\ "main" \in {"main", "headset"}
    BY DEF Pcm
  <2>2. Steady(stdev, [stdev EXCEPT !.streaming_pcm = "open"])
    BY <1>2, <2>1, Streaming
  <2> QED BY <1>1, <1>2, <1>4, <2>2, ReturnSteady
<1>5. CASE (stdev.recording_pcm \in Pcm => recording_lock = NoOne) /\ Return(c, e)
  <2>1. recording_lock # "reader"
    BY <1>5, CallersAssumption DEF IInv, DeviceInv, Reading, Pcm
  <2>2. p \in {"null", "lost"} \cup Pcm /\ (stdev.recording_pcm # "null" => p # "null")
    BY <1>2 DEF Device, Pcm
  <2> HIDE DEF p
  <2>3. /\ e \in Device /\ Hooks(e) = Hooks(stdev) /\ e.is_recording = stdev.is_recording
        /\ e.recording_pcm = p /\ e.is_mic_configured = stdev.is_mic_configured
    BY <1>2, <2>2 DEF Device, Hooks, Pcm
  <2>4. Return(c, e)
    BY <1>5
  <2> HIDE DEF e
  <2>5. e.is_recording => e.recording_pcm # "null"
    <3>1. ~Reopening
      BY <1>1, <1>2, NotReopening DEF IInv
    <3> QED BY <2>2, <2>3, <3>1 DEF IInv, DeviceInv, Recording
  <2>6. e.voicecall /\ ~leftOn =>
          ~e.is_recording /\ ~e.is_mic_configured /\ e.recognition_callbacks = {}
    BY <2>3 DEF Hooks, IInv, DeviceInv, SilentInCall
  <2>7. \A m \in quiet : m \in e.recognition_callbacks => e.model_execstate[m] # "running"
    BY <2>3 DEF Hooks, IInv, DeviceInv, Silenced
  <2> QED BY <1>1, <1>2, <2>1, <2>3, <2>4, <2>5, <2>6, <2>7, ReturnInv
<1> QED BY <1>3, <1>4, <1>5

\* A call begins with everything off, unless a model could not be stopped.
LEMMA Cuts ==
  ASSUME NEW d \in Device, NEW f \in CutOff(d)
  PROVE  /\ f \in Device /\ ~f.is_recording /\ f.recognition_callbacks = {}
         /\ f.recognize_started = {} => ~f.is_mic_configured
<1> DEFINE p == PcmsClosed(d)
           u == [p EXCEPT !.is_streaming = {}]
<1>1. PICK e \in stdev_vts_set_power(u, {}) : f = [e EXCEPT !.recognition_callbacks = {}]
  BY DEF CutOff
<1>2. p \in Device /\ ~p.is_recording
  BY ClosesPcm
<1> HIDE DEF p
<1>3. u \in Device /\ ~u.is_recording
  BY <1>2 DEF Device
<1> HIDE DEF u
<1>4. /\ e \in Device /\ Kept(e) = Kept(u)
      /\ e.recognize_started = {} => ~e.is_mic_configured
  <2>1. {} \in SUBSET Models
    OBVIOUS
  <2> QED BY <1>1, <1>3, <2>1, SetPower
<1>5. ~e.is_recording
  BY <1>3, <1>4 DEF Kept
<1> QED BY <1>1, <1>4, <1>5 DEF Device

LEMMA Calls ==
  ASSUME NEW d \in Device, NEW b \in BOOLEAN
  PROVE  /\ InCall(d, b) \in Device /\ InCall(d, b).voicecall = b
         /\ Records(InCall(d, b)) = Records(d)
         /\ InCall(d, b).is_mic_configured = d.is_mic_configured
         /\ InCall(d, b).recognition_callbacks = d.recognition_callbacks
         /\ InCall(d, b).model_execstate = d.model_execstate
BY DEF InCall, Device, Records

LEMMA VoiceCallKeeps ==
  ASSUME IInv, NEW c \in Callers, NEW o \in Offered(c), sound_trigger_voicecall_status(c, o)
  PROVE  IInv'
<1> DEFINE b == o.arg
           cut == b /\ stdev.is_mic_configured
<1>1. lock \in {NoOne, c} /\ pc[c] # "opening" /\ o.name = "voicecall"
  BY InPlace DEF sound_trigger_voicecall_status, IInv
<1>2. b \in BOOLEAN
  BY <1>1, Parts, OfferedOps, Arguments DEF IInv
<1>3. UNCHANGED socket /\ quiet' = quiet /\ quiet' \subseteq Models /\ stdev \in Device
  BY DEF sound_trigger_voicecall_status, IInv, TypeOK
<1>4. CASE ~stdev.sthal_opened
  <2>1. Return(c, stdev) /\ leftOn' = leftOn /\ Steady(stdev, stdev)
    BY <1>3, <1>4, SteadySame DEF sound_trigger_voicecall_status
  <2> QED BY <1>1, <1>3, <2>1, ReturnSteady
<1>5. CASE stdev.sthal_opened
  <2>1. cut => CanClosePcms
    BY <1>5 DEF sound_trigger_voicecall_status
  <2>2. PICK d : /\ d \in IF cut THEN CutOff(stdev) ELSE {stdev}
                 /\ Return(c, InCall(d, b))
                 /\ leftOn' = (b /\ (CallSkips(stdev) \/ (cut /\ d.recognize_started # {})))
    BY <1>5 DEF sound_trigger_voicecall_status
  <2>3. leftOn' \in BOOLEAN
    <3> HIDE DEF b, cut
    <3> QED BY <2>2
  <2> DEFINE e == InCall(d, b)
  <2>4. CASE cut
    <3>1. /\ d \in Device /\ ~d.is_recording /\ d.recognition_callbacks = {}
          /\ d.recognize_started = {} => ~d.is_mic_configured
      BY <1>3, <2>2, <2>4, Cuts
    <3>2. leftOn' \/ d.recognize_started = {}
      BY <2>2, <2>4
    <3>3. recording_lock # "reader"
      BY <2>1, <2>4, NoReader
    <3> HIDE DEF b
    <3>4. /\ e \in Device /\ Records(e) = Records(d)
          /\ e.is_mic_configured = d.is_mic_configured
          /\ e.recognition_callbacks = d.recognition_callbacks
      BY <1>2, <3>1, Calls
    <3>5. Return(c, e)
      BY <2>2
    <3> HIDE DEF e
    <3>6. ~e.is_recording
      BY <3>1, <3>4 DEF Records
    <3> QED BY <1>1, <1>3, <2>3, <3>1, <3>2, <3>3, <3>4, <3>5, <3>6, ReturnInv
  <2>5. CASE ~cut
    <3>1. d = stdev /\ (b => ~stdev.is_mic_configured) /\ (b /\ ~leftOn' => ~CallSkips(stdev))
      BY <2>2, <2>5
    <3> HIDE DEF b
    <3>2. /\ e \in Device /\ Records(e) = Records(stdev) /\ e.voicecall = b
          /\ e.is_mic_configured = stdev.is_mic_configured
          /\ e.recognition_callbacks = stdev.recognition_callbacks
          /\ e.model_execstate = stdev.model_execstate
      BY <1>2, <1>3, <3>1, Calls
    <3>3. Return(c, e)
      BY <2>2
    <3> HIDE DEF e
    <3>4. e.voicecall /\ ~leftOn' =>
            ~e.is_recording /\ ~e.is_mic_configured /\ e.recognition_callbacks = {}
      BY <3>1, <3>2 DEF CallSkips, Records
    <3>5. ~Reopening
      BY <1>1, NotReopening DEF IInv
    <3>6. /\ recording_lock = "reader" => e.is_recording /\ e.recording_pcm = "open"
          /\ e.is_recording => e.recording_pcm # "null"
      BY <3>2, <3>5 DEF Records, IInv, DeviceInv, Reading, Recording
    <3>7. \A m \in quiet' : m \in e.recognition_callbacks => e.model_execstate[m] # "running"
      BY <1>3, <3>2 DEF IInv, DeviceInv, Silenced
    <3> QED BY <1>1, <1>3, <2>3, <3>2, <3>3, <3>4, <3>6, <3>7, ReturnInv
  <2> QED BY <2>4, <2>5
<1> QED BY <1>4, <1>5

LEMMA OpenedDevice ==
  /\ Opened \in Device /\ ~Opened.voicecall /\ ~Opened.is_recording
  /\ Opened.recognition_callbacks = {}
<1>1. [m \in Models |-> "none"] \in ExecStates
  BY DEF ExecStates
<1> QED BY <1>1 DEF Opened, Device, Pcm

\* The first state, and every state after the process is started again.
LEMMA Starts ==
  ASSUME Init
  PROVE  IInv
<1>1. \A c \in Callers : pc[c] = "idle" /\ lock # c
  BY CallersAssumption DEF Init
<1>2. thread.place = "none" /\ lock # "thread" /\ thread \in Threads
  BY CallersAssumption DEF Init, Idle, Threads
<1>3. events \in Seq(Models) /\ Len(events) <= MaxEvents
  <2>1. events = <<>>
    BY DEF Init
  <2>2. Len(events) = 0 /\ events \in Seq(Models)
    BY <2>1
  <2> QED BY <2>2, EventsAssumption
<1>4. Typed
  BY <1>2, <1>3 DEF Init, Typed, Places, AllOps
<1>5. Locked
  BY <1>1, <1>2 DEF Init, Locked, Holding, InLoop
<1>6. stdev \in Device /\ TypeOK /\ Waiting
  BY <1>4, <1>5, OpenedDevice, Parts DEF Init
<1>7. DeviceInv
  <2>1. recording_lock # "reader"
    BY CallersAssumption DEF Init
  <2>2. stdev = Opened
    BY DEF Init
  <2> QED BY <1>1, <1>2, <2>1, <2>2, OpenedDevice
          DEF DeviceInv, SilentInCall, Reading, Recording, Opening, Silenced, Decided
<1> QED BY <1>6, <1>7 DEF IInv

\* A process that closed a null PCM starts anew.
LEMMA CloseNullKeeps ==
  ASSUME NEW c, NEW o, CloseNull(c, o)
  PROVE  IInv'
<1>1. \A b \in Callers : pc'[b] = "idle" /\ lock' # b
  BY CallersAssumption DEF CloseNull
<1>2. thread'.place = "none" /\ lock' # "thread" /\ thread' \in Threads
  BY CallersAssumption DEF CloseNull, Idle, Threads
<1>3. events' \in Seq(Models) /\ Len(events') <= MaxEvents
  <2>1. events' = <<>>
    BY DEF CloseNull
  <2>2. Len(events') = 0 /\ events' \in Seq(Models)
    BY <2>1
  <2> QED BY <2>2, EventsAssumption
<1>4. Typed'
  BY <1>2, <1>3 DEF CloseNull, Typed, Places, AllOps, OpsOf
<1>5. Locked'
  BY <1>1, <1>2 DEF CloseNull, Locked, Holding, InLoop
<1>6. TypeOK' /\ Waiting'
  <2>1. stdev' \in Device /\ Typed' /\ Locked' => TypeOK' /\ Waiting'
    BY DEF TypeOK, Waiting, Typed, Locked, Places, InLoop, Threads
  <2> QED BY <1>4, <1>5, <2>1, OpenedDevice DEF CloseNull
<1>7. DeviceInv'
  <2>1. recording_lock' # "reader" /\ stdev' = Opened
    BY CallersAssumption DEF CloseNull
  <2> QED BY <1>1, <1>2, <2>1, OpenedDevice
          DEF DeviceInv, SilentInCall, Reading, Recording, Opening, Silenced, Decided
<1> QED BY <1>6, <1>7 DEF IInv

\* Readers hold recording_lock, and no PCM is closed meanwhile.
LEMMA ReadKeeps ==
  ASSUME IInv, Read
  PROVE  IInv'
<1>1. /\ stdev' = stdev /\ lock' = lock /\ pc' = pc /\ op' = op /\ thread' = thread
      /\ events' = events /\ term' = term /\ notifier' = notifier /\ quiet' = quiet
      /\ leftOn' = leftOn /\ trigger_lock' \in {trigger_lock, NoOne, "reader"}
  BY DEF Read, ReadRecording, ReadSamples, ReadReturns
<1>2. \/ recording_lock' = recording_lock
      \/ recording_lock' = NoOne /\ recording_lock = "reader"
      \/ /\ recording_lock' = "reader" /\ recording_lock = NoOne
         /\ stdev.is_recording /\ stdev.recording_pcm = "open"
  BY DEF Read, ReadRecording, ReadSamples, ReadReturns
<1>3. TypeOK' /\ Waiting'
  <2>1. /\ events' \in Seq(Models) /\ Len(events') <= MaxEvents /\ term' \in BOOLEAN
        /\ quiet' \subseteq Models /\ thread' \in Threads /\ pc' \in [Callers -> Places]
        /\ notifier' \in {"idle", "power", "mic"} /\ stdev' \in Device
    BY <1>1, Parts DEF IInv, Typed
  <2> QED BY <1>1, <1>2, <2>1, Stays DEF IInv
<1>4. SilentInCall' /\ Silenced' /\ Decided'
  BY <1>1 DEF IInv, DeviceInv, SilentInCall, Silenced, Decided
<1>5. Recording' /\ Reading'
  BY <1>1, <1>2, CallersAssumption DEF IInv, DeviceInv, Recording, Reading, Reopening
<1>6. Opening'
  BY <1>1, <1>2, CallersAssumption DEF IInv, DeviceInv, Opening
<1> QED BY <1>3, <1>4, <1>5, <1>6 DEF IInv, DeviceInv

\* A step beside the callers, that takes no lock.
LEMMA Beside ==
  ASSUME IInv, Steady(stdev, stdev'), stdev'.model_execstate = stdev.model_execstate,
         lock' = lock, trigger_lock' = trigger_lock, recording_lock' = recording_lock,
         pc' = pc, op' = op, thread' = thread, term' = term, quiet' = quiet, leftOn' = leftOn,
         events' \in Seq(Models), Len(events') <= MaxEvents, notifier' \in {"idle", "power", "mic"}
  PROVE  IInv'
<1>1. TypeOK' /\ Waiting'
  <2>1. /\ term' \in BOOLEAN /\ quiet' \subseteq Models /\ thread' \in Threads
        /\ pc' \in [Callers -> Places] /\ stdev' \in Device
    BY Parts DEF IInv, Typed, Steady
  <2> QED BY <2>1, Stays DEF IInv
<1>2. Decided' /\ (Reopening => Reopening')
  BY DEF IInv, DeviceInv, Decided, Reopening
<1> QED BY <1>1, <1>2, SteadyStep DEF IInv

LEMMA NotifyKeeps ==
  ASSUME IInv, Notify
  PROVE  IInv'
<1>1. /\ lock' = lock /\ trigger_lock' = trigger_lock /\ recording_lock' = recording_lock
      /\ pc' = pc /\ op' = op /\ thread' = thread /\ term' = term /\ quiet' = quiet
      /\ leftOn' = leftOn /\ events' = events
  BY DEF Notify, sound_trigger_notify_ahal_record_status, NotifyTests, NotifyPower, NotifyMic
<1>2. /\ stdev \in Device /\ events' \in Seq(Models) /\ Len(events') <= MaxEvents
      /\ notifier \in {"idle", "power", "mic"}
  BY <1>1 DEF IInv, TypeOK
<1>3. notifier' \in {"idle", "power", "mic"}
  BY <1>2 DEF Notify, sound_trigger_notify_ahal_record_status, NotifyTests, NotifyPower, NotifyMic
<1>4. Steady(stdev, stdev') /\ stdev'.model_execstate = stdev.model_execstate
  <2>1. CASE stdev' = stdev
    BY <1>2, <2>1, SteadySame
  <2>2. CASE stdev' \in stdev_vts_set_power(stdev, {})
    <3>1. Steady(stdev, stdev') /\ Kept(stdev') = Kept(stdev)
      BY <1>2, <2>2, PowerOff
    <3> QED BY <3>1 DEF Kept
  <2>3. CASE \E S : stdev' = Stopped(Unstreamed(stdev), S)
    <3>1. PICK S : stdev' = Stopped(Unstreamed(stdev), S)
      BY <2>3
    <3> DEFINE u == Unstreamed(stdev)
    <3>2. u \in Device /\ Kept(u) = Kept(stdev) /\ u.is_mic_configured = stdev.is_mic_configured
      BY <1>2, Lessened
    <3>3. stdev' = Stopped(u, S)
      BY <3>1
    <3> HIDE DEF u
    <3>4. stdev' \in Device /\ Kept(stdev') = Kept(u) /\ stdev'.is_mic_configured = u.is_mic_configured
      BY <3>2, <3>3, Lessened
    <3> QED BY <3>2, <3>4 DEF Kept, Steady
  <2>4. CASE stdev' = stdev_vts_set_mic(stdev, FALSE)
    <3>1. FALSE \in BOOLEAN
      OBVIOUS
    <3>2. stdev' \in Device /\ Kept(stdev') = Kept(stdev) /\ stdev'.is_mic_configured = FALSE
      BY <1>2, <2>4, <3>1, SetMic
    <3> QED BY <3>2 DEF Kept, Steady
  <2> QED BY <2>1, <2>2, <2>3, <2>4
          DEF Notify, sound_trigger_notify_ahal_record_status, NotifyTests, NotifyPower, NotifyMic
<1> QED BY <1>1, <1>2, <1>3, <1>4, Beside

LEMMA TriggerKeeps ==
  ASSUME IInv, NEW m \in Models, Trigger(m)
  PROVE  IInv'
<1>1. /\ stdev' = stdev /\ lock' = lock /\ pc' = pc /\ op' = op /\ thread' = thread
      /\ trigger_lock' = trigger_lock /\ recording_lock' = recording_lock
      /\ term' = term /\ notifier' = notifier /\ quiet' = quiet /\ leftOn' = leftOn
  BY DEF Trigger
<1>2. events' \in Seq(Models) /\ Len(events') <= MaxEvents
  <2>1. events \in Seq(Models) /\ Len(events) < MaxEvents /\ events' = Append(events, m)
    BY DEF Trigger, IInv, TypeOK
  <2>2. events' \in Seq(Models) /\ Len(events') = Len(events) + 1 /\ Len(events) \in Nat
    BY <2>1
  <2> QED BY <2>1, <2>2, EventsAssumption
<1>3. Steady(stdev, stdev') /\ notifier' \in {"idle", "power", "mic"}
  BY <1>1, SteadySame DEF IInv, TypeOK
<1> QED BY <1>1, <1>2, <1>3, Beside

-----------------------------------------------------------------------------
(***************************************************************************)
(* The callback thread.                                                    *)
(***************************************************************************)
\* A step of the thread, which is about to call only a model that was not stopped.
LEMMA ThreadInv ==
  ASSUME IInv, TypeOK', Waiting', Steady(stdev, stdev'), op' = op, quiet' = quiet, leftOn' = leftOn,
         recording_lock' = recording_lock, pc' = pc \/ \A b \in Callers : pc'[b] \notin Holding,
         pc' # pc => \A b \in Callers : pc[b] \notin Holding,
         thread'.place = "called" => thread'.model \notin quiet
  PROVE  IInv'
<1>1. Decided'
  BY DEF Decided
<1>2. \A b \in Callers : pc'[b] = "opening" <=> pc[b] = "opening"
  BY DEF Holding
<1>3. Reopening => Reopening'
  BY <1>2 DEF Reopening, Callers
<1>4. DeviceInv'
  BY <1>1, <1>2, <1>3, SteadyStep
<1> QED BY <1>4 DEF IInv

\* An event is dealt with, and the lock is with the callback thread.
LEMMA AfterEventKeeps ==
  ASSUME IInv, NEW m \in Models, NEW d, Steady(stdev, d), NEW queue \in Seq(Models),
         Len(queue) <= MaxEvents, AfterEvent(m, d, queue),
         lock \in {NoOne, "thread"}, lock' = "thread", pc' = pc, op' = op,
         trigger_lock' = trigger_lock, recording_lock' = recording_lock,
         notifier' = notifier, quiet' = quiet, leftOn' = leftOn
  PROVE  IInv' /\ thread'.place \notin {"called", "callback"}
<1>1. PICK f : /\ f = d \/ \E e \in handle_stop_recognition_l(d) :
                             f = [e EXCEPT !.model_execstate[m] = "none"]
               /\ \/ stdev' = [d EXCEPT !.is_streaming = {m}]
                  \/ stdev' \in PowerCycle(f)
                  \/ stdev' \in stdev_vts_set_power(f, {})
                  \/ stdev' = f
  BY DEF AfterEvent
<1>2. d \in Device
  BY DEF Steady
<1>3. Steady(d, f) /\ f \in Device
  <2>1. ASSUME NEW e \in handle_stop_recognition_l(d),
               f = [e EXCEPT !.model_execstate[m] = "none"]
        PROVE  Steady(d, f)
    <3>1. Steady(d, e) /\ e \in Device
      BY <1>2, <2>1, HandleStop DEF Steady
    <3> DEFINE w == e.model_stopfailedhandles
    <3>2. f = Marked(e, m, "none", w)
      BY <2>1, <3>1 DEF Marked, Device
    <3>3. w \in SUBSET Models /\ "none" \in {"none", "stopabort"}
      BY <3>1 DEF Device
    <3> HIDE DEF w
    <3>4. Steady(e, f)
      BY <3>1, <3>2, <3>3, MarkSteady
    <3> QED BY <3>1, <3>4, SteadyTwice
  <2>2. Steady(d, f)
    BY <1>1, <1>2, <2>1, SteadySame
  <2> QED BY <2>2 DEF Steady
<1>4. Steady(d, stdev')
  <2>1. {m} \in SUBSET Models
    OBVIOUS
  <2>2. Steady(d, [d EXCEPT !.is_streaming = {m}])
    BY <1>2, <2>1, Handles
  <2>3. CASE stdev' = [d EXCEPT !.is_streaming = {m}]
    BY <2>2, <2>3
  <2>4. CASE stdev' \in PowerCycle(f)
    <3>1. Steady(f, stdev')
      BY <1>3, <2>4, PowerCycled
    <3> QED BY <1>3, <3>1, SteadyTwice
  <2>5. CASE stdev' \in stdev_vts_set_power(f, {})
    <3>1. Steady(f, stdev')
      BY <1>3, <2>5, PowerOff
    <3> QED BY <1>3, <3>1, SteadyTwice
  <2>6. CASE stdev' = f
    BY <1>3, <2>6
  <2> QED BY <1>1, <2>3, <2>4, <2>5, <2>6
<1>5. Steady(stdev, stdev') /\ stdev' \in Device
  BY <1>4, SteadyTwice DEF Steady
<1>6. thread' \in {Leaving, Continuing} /\ (events' = queue \/ events' = <<>>)
  BY DEF AfterEvent
<1>7. thread' \in Threads /\ thread'.place \in InLoop /\ thread'.place \notin {"called", "callback"}
  BY <1>6 DEF Leaving, Continuing, Threads, InLoop
<1>8. events' \in Seq(Models) /\ Len(events') <= MaxEvents
  <2>1. CASE events' = <<>>
    <3>1. Len(events') = 0 /\ events' \in Seq(Models)
      BY <2>1
    <3> QED BY <3>1, EventsAssumption
  <2> QED BY <1>6, <2>1
<1>9. term' \in BOOLEAN
  BY DEF AfterEvent, IInv, TypeOK
<1>10. TypeOK' /\ Waiting'
  BY <1>5, <1>7, <1>8, <1>9, ThreadMoves DEF IInv
<1> QED BY <1>5, <1>7, <1>10, ThreadInv

\* The uevent at the head of the socket is read.
LEMMA NextEvent ==
  ASSUME TypeOK, events # <<>>
  PROVE  /\ Head(events) \in Models /\ Tail(events) \in Seq(Models)
         /\ Len(Tail(events)) <= MaxEvents
<1>1. events \in Seq(Models) /\ Len(events) <= MaxEvents /\ Len(events) \in Nat
  BY DEF TypeOK
<1>2. Head(events) \in Models /\ Tail(events) \in Seq(Models)
  BY <1>1
<1>3. Len(Tail(events)) = Len(events) - 1
  BY <1>1
<1> QED BY <1>1, <1>2, <1>3, EventsAssumption

LEMMA ThreadEventKeeps ==
  ASSUME IInv, ThreadEvent
  PROVE  /\ IInv' /\ thread'.place # "callback"
         /\ thread'.place = "called" => thread'.model \notin quiet
<1> DEFINE m == Head(events)
           queue == Tail(events)
<1>1. m \in Models /\ queue \in Seq(Models) /\ Len(queue) <= MaxEvents
  BY NextEvent DEF ThreadEvent, IInv
<1>2. /\ lock \in {NoOne, "thread"} /\ lock' = "thread" /\ pc' = pc /\ op' = op
      /\ trigger_lock' = trigger_lock /\ recording_lock' = recording_lock
      /\ notifier' = notifier /\ quiet' = quiet /\ leftOn' = leftOn /\ stdev \in Device
  BY DEF ThreadEvent, IInv, TypeOK
<1>3. CASE Called(m)
  <2>1. /\ stdev' = [stdev EXCEPT !.recog_cbstate = "called"]
        /\ thread' = [place |-> "called", model |-> m] /\ events' = queue /\ term' = term
    BY <1>3 DEF ThreadEvent
  <2> HIDE DEF m, queue
  <2>2. Steady(stdev, stdev')
    <3>1. "called" \in {"none", "called"} /\ TRUE \in BOOLEAN
      OBVIOUS
    <3> QED BY <1>2, <2>1, <3>1, Threading
  <2>3. /\ thread' \in Threads /\ thread'.place \in InLoop /\ thread'.model = m
        /\ thread'.place = "called"
    BY <1>1, <2>1 DEF Threads, InLoop
  <2>4. term' \in BOOLEAN /\ stdev' \in Device
    BY <2>1, <2>2 DEF IInv, TypeOK, Steady
  <2>5. TypeOK' /\ Waiting'
    BY <1>1, <1>2, <2>1, <2>3, <2>4, ThreadMoves DEF IInv
  <2>6. m \notin quiet
    BY <1>3 DEF Called, IInv, DeviceInv, Silenced
  <2> QED BY <1>2, <2>2, <2>3, <2>5, <2>6, ThreadInv
<1>4. CASE ~Called(m)
  <2>1. AfterEvent(m, stdev, queue) /\ Steady(stdev, stdev)
    BY <1>2, <1>4, SteadySame DEF ThreadEvent
  <2> HIDE DEF m, queue
  <2> QED BY <1>1, <1>2, <2>1, AfterEventKeeps
<1> QED BY <1>3, <1>4

\* The model is called although its stop was noted only if that happened since the decision.
LEMMA ThreadCallsKeeps ==
  ASSUME IInv, ThreadCalls
  PROVE  /\ IInv' /\ thread'.place # "called"
         /\ thread'.model \in quiet => stdev.model_execstate[thread'.model] = "stopabort"
<1>1. /\ stdev' = stdev /\ lock' = lock /\ trigger_lock' = trigger_lock
      /\ recording_lock' = recording_lock /\ pc' = pc /\ op' = op /\ events' = events
      /\ term' = term /\ notifier' = notifier /\ quiet' = quiet /\ leftOn' = leftOn
  BY DEF ThreadCalls
<1>2. /\ thread' \in Threads /\ thread'.place = "callback" /\ thread'.model = thread.model
      /\ thread.place = "called"
  BY Parts DEF ThreadCalls, IInv, Typed, Threads, InLoop
<1>3. /\ events' \in Seq(Models) /\ Len(events') <= MaxEvents /\ term' \in BOOLEAN
      /\ stdev \in Device /\ lock = "thread" /\ thread.model \in Models
  BY <1>1, <1>2 DEF IInv, TypeOK, Waiting
<1>4. TypeOK' /\ Waiting'
  <2>1. thread'.place \in InLoop
    BY <1>2 DEF InLoop
  <2> QED BY <1>1, <1>2, <1>3, <2>1, ThreadMoves DEF IInv
<1>5. Steady(stdev, stdev')
  BY <1>1, <1>3, SteadySame
<1>6. thread.model \in quiet => stdev.model_execstate[thread.model] = "stopabort"
  BY <1>2 DEF IInv, DeviceInv, Decided
<1> QED BY <1>1, <1>2, <1>4, <1>5, <1>6, ThreadInv

\* The callback thread after its callback, which is reset.
LEMMA CallbackReturnsKeeps ==
  ASSUME IInv, CallbackReturns
  PROVE  IInv' /\ thread'.place \notin {"called", "callback"}
<1> DEFINE m == thread.model
           d == [stdev EXCEPT !.recognition_callbacks = @ \ {m}]
<1>1. m \in Models /\ lock = "thread" /\ stdev \in Device
  BY DEF CallbackReturns, IInv, Waiting, TypeOK
<1>2. /\ lock' = "thread" /\ pc' = pc /\ op' = op
      /\ trigger_lock' = trigger_lock /\ recording_lock' = recording_lock
      /\ notifier' = notifier /\ quiet' = quiet /\ leftOn' = leftOn
  BY <1>1 DEF CallbackReturns
<1>3. AfterEvent(m, d, events) /\ events \in Seq(Models) /\ Len(events) <= MaxEvents
  BY DEF CallbackReturns, IInv, TypeOK
<1>4. Steady(stdev, d)
  BY <1>1, Released
<1> HIDE DEF m, d
<1> QED BY <1>1, <1>2, <1>3, <1>4, AfterEventKeeps

LEMMA ThreadUnlocksKeeps ==
  ASSUME IInv, ThreadUnlocks
  PROVE  IInv' /\ thread'.place \notin {"called", "callback"}
<1> DEFINE a == stdev.callback_thread_active /\ thread.place # "leaving"
<1>1. stdev' = [stdev EXCEPT !.recog_cbstate = "none", !.callback_thread_active = a]
  BY DEF ThreadUnlocks
<1>2. /\ thread'.place \in {"none", "poll"} /\ recording_lock' = recording_lock /\ op' = op
      /\ quiet' = quiet /\ leftOn' = leftOn /\ stdev \in Device
  BY DEF ThreadUnlocks, Idle, IInv, TypeOK
<1>3. Steady(stdev, stdev') /\ stdev' \in Device
  <2>1. "none" \in {"none", "called"} /\ a \in BOOLEAN
    OBVIOUS
  <2> HIDE DEF a
  <2>2. Steady(stdev, stdev')
    BY <1>1, <1>2, <2>1, Threading
  <2> QED BY <2>2 DEF Steady
<1>4. TypeOK' /\ Waiting' /\ \A b \in Callers : pc[b] \notin Holding /\ pc'[b] \notin Holding
  BY <1>3, UnlockMoves DEF IInv
<1> QED BY <1>2, <1>3, <1>4, ThreadInv

LEMMA ThreadEndsKeeps ==
  ASSUME IInv, ThreadEnds
  PROVE  IInv' /\ thread'.place \notin {"called", "callback"}
<1>1. /\ lock \in {NoOne, "thread"} /\ lock' = "thread" /\ pc' = pc /\ op' = op
      /\ trigger_lock' = trigger_lock /\ recording_lock' = recording_lock
      /\ notifier' = notifier /\ quiet' = quiet /\ leftOn' = leftOn /\ events' = <<>>
      /\ term' \in BOOLEAN /\ thread' = Leaving /\ stdev \in Device
  BY DEF ThreadEnds, IInv, TypeOK
<1>2. Steady(stdev, stdev') /\ stdev' \in Device
  BY <1>1, PowerOff, SteadySame DEF ThreadEnds, Steady
<1>3. events' \in Seq(Models) /\ Len(events') <= MaxEvents
  <2>1. Len(events') = 0 /\ events' \in Seq(Models)
    BY <1>1
  <2> QED BY <2>1, EventsAssumption
<1>4. thread' \in Threads /\ thread'.place \in InLoop /\ thread'.place = "leaving"
  BY <1>1 DEF Leaving, Threads, InLoop
<1>5. TypeOK' /\ Waiting'
  BY <1>1, <1>2, <1>3, <1>4, ThreadMoves DEF IInv
<1> QED BY <1>1, <1>2, <1>4, <1>5, ThreadInv

-----------------------------------------------------------------------------
(***************************************************************************)
(* The inductive invariant holds, and what follows from it.                *)
(***************************************************************************)
\* What a step may not do to the callback thread.
CallsQuietly ==
  /\ thread.place # "called" /\ thread'.place = "called" => thread'.model \notin quiet
  /\ thread.place # "callback" /\ thread'.place = "callback" =>
       (thread'.model \in quiet => stdev.model_execstate[thread'.model] = "stopabort")

\* A step of the callback thread.
LEMMA ThreadKeeps ==
  ASSUME IInv, ThreadStep
  PROVE  IInv' /\ CallsQuietly
BY ThreadEventKeeps, ThreadCallsKeeps, CallbackReturnsKeeps, ThreadUnlocksKeeps, ThreadEndsKeeps
   DEF ThreadStep, ThreadTerminated, ThreadFails, CallsQuietly

\* No step of a caller puts the callback thread into a callback.
LEMMA CallersDoNotCall ==
  ASSUME IInv, Next, ~ThreadStep
  PROVE  thread' = thread \/ thread'.place \notin {"called", "callback"}
<1> DEFINE Goal == thread' = thread \/ thread'.place \notin {"called", "callback"}
<1>1. ASSUME NEW c \in Callers, NEW o \in Offered(c), Delayed(c, o)
      PROVE  Goal
  BY <1>1 DEF Delayed
<1>2. ASSUME NEW c \in Framework, FrameworkStep(c)
      PROVE  Goal
  BY <1>2 DEF FrameworkStep, Join, StopJoined, CloseJoinsAgain, StopBusy, StopTimeout
<1>3. ASSUME NEW c \in Framework, NEW o \in Offered(c), FrameworkCall(c, o)
      PROVE  Goal
  <2>1. CASE stdev_start_recognition(c, o)
    BY <2>1 DEF stdev_start_recognition, stdev_start_callback_thread
  <2>2. CASE ~stdev_start_recognition(c, o)
    BY <1>3, <2>2 DEF FrameworkCall, stdev_load_sound_model, StartRefused, StartFails, StopRefused,
                      stdev_stop_recognition_l, StopJoins, CloseJoins, stdev_close
  <2> QED BY <2>1, <2>2
<1>4. ASSUME NEW c \in Audio, NEW o \in Offered(c), AudioCall(c, o)
      PROVE  Goal
  <2>1. CASE sound_trigger_close_for_streaming(c, o)
    BY <2>1 DEF sound_trigger_close_for_streaming, stdev_start_callback_thread
  <2>2. CASE CloseNull(c, o)
    BY <2>2 DEF CloseNull, Idle
  <2>3. CASE ~sound_trigger_close_for_streaming(c, o) /\ ~CloseNull(c, o)
    BY <1>4, <2>3 DEF AudioCall, sound_trigger_open_for_streaming, sound_trigger_open_recording,
                      sound_trigger_close_recording, sound_trigger_headset_status,
                      sound_trigger_voicecall_status
  <2> QED BY <2>1, <2>2, <2>3
<1>5. ASSUME NEW c \in Audio, AudioStep(c)
      PROVE  Goal
  BY <1>5 DEF AudioStep, StreamOpens, StreamIsOpen, RecordOpens, RecordReopens, StreamReopens
<1>6. Read => Goal
  BY DEF Read, ReadRecording, ReadSamples, ReadReturns
<1>7. Notify => Goal
  BY DEF Notify, sound_trigger_notify_ahal_record_status, NotifyTests, NotifyPower, NotifyMic
<1>8. ASSUME NEW m \in Models, Trigger(m)
      PROVE  Goal
  BY <1>8 DEF Trigger
<1> QED BY <1>1, <1>2, <1>3, <1>4, <1>5, <1>6, <1>7, <1>8 DEF Next

\* Every step keeps the invariant.
LEMMA NextInv ==
  ASSUME IInv, [Next]_vars
  PROVE  IInv'
<1>1. ASSUME NEW c \in Callers, NEW o \in Offered(c), Delayed(c, o)
      PROVE  IInv'
  BY <1>1, DelayedKeeps
<1>2. ASSUME NEW c \in Framework, FrameworkStep(c)
      PROVE  IInv'
  <2>1. c \in Callers
    BY DEF Callers
  <2> QED BY <1>2, <2>1, JoinKeeps, StopJoinedKeeps, CloseJoinsAgainKeeps, NotedKeeps
          DEF FrameworkStep
<1>3. ASSUME NEW c \in Framework, NEW o \in Offered(c), FrameworkCall(c, o)
      PROVE  IInv'
  <2>1. c \in Callers
    BY DEF Callers
  <2> QED BY <1>3, <2>1, LoadKeeps, StartRefusedKeeps, StartFailsKeeps, StartKeeps,
             StopRefusedKeeps, StopKeeps, StopJoinsKeeps, CloseJoinsKeeps, CloseKeeps
          DEF FrameworkCall
<1>4. ASSUME NEW c \in Audio, NEW o \in Offered(c), AudioCall(c, o)
      PROVE  IInv'
  <2>1. c \in Callers
    BY DEF Callers
  <2> QED BY <1>4, <2>1, OpenStreamKeeps, CloseStreamKeeps, OpenRecordingKeeps,
             CloseRecordingKeeps, CloseNullKeeps, HeadsetKeeps, VoiceCallKeeps
          DEF AudioCall
<1>5. ASSUME NEW c \in Audio, AudioStep(c)
      PROVE  IInv'
  <2>1. c \in Callers
    BY DEF Callers
  <2> QED BY <1>5, <2>1, StreamOpensKeeps, RecordOpensKeeps, RecordReopensKeeps, StreamReopensKeeps
          DEF AudioStep
<1>6. ASSUME NEW m \in Models, Trigger(m)
      PROVE  IInv'
  BY <1>6, TriggerKeeps
<1>7. CASE Next
  BY <1>1, <1>2, <1>3, <1>4, <1>5, <1>6, <1>7, ReadKeeps, NotifyKeeps, ThreadKeeps DEF Next
<1>8. CASE UNCHANGED vars
  <2>1. TypeOK' /\ Waiting'
    BY <1>8 DEF vars, IInv, TypeOK, Waiting, OpsOf
  <2>2. DeviceInv'
    BY <1>8 DEF vars, IInv, DeviceInv, SilentInCall, Reading, Recording, Opening, Silenced, Decided,
                Reopening
  <2> QED BY <2>1, <2>2 DEF IInv
<1> QED BY <1>7, <1>8

\* All steps together.
LEMMA Invariance == Spec => []IInv
BY Starts, NextInv, PTL DEF Spec

\* Every state is of its type, and the lock is with whoever waits or opens a PCM with it or with the
\* callback thread inside its loop, also when PCMs and mixer controls fail and the lockless calls interleave.
THEOREM TypeCorrect == Spec => []TypeOK
<1>1. IInv => TypeOK
  BY DEF IInv
<1> QED BY <1>1, Invariance, PTL

\* During a call nothing is recorded, the microphone is off and no model is armed, unless the call
\* could not stop a model or found the microphone off under an armed model or a recording.
THEOREM CallSilences == Spec => []SilentInCall
<1>1. IInv => SilentInCall
  BY DEF IInv, DeviceInv
<1> QED BY <1>1, Invariance, PTL

\* The PCM of a recording is not closed under its reader, and is missing from a recording only
\* while the microphone changes.
THEOREM PcmsKept == Spec => []PcmKept
<1>1. IInv => PcmKept
  BY DEF IInv, DeviceInv, Reading, Recording, PcmKept
<1> QED BY <1>1, Invariance, PTL

\* The callback thread does not decide to call a model that was stopped, and calls one only if the
\* stop was noted after the decision.
THEOREM StoppedStaysQuiet == Spec => QuietAfterStop
<1>1. ASSUME IInv, [Next]_vars
      PROVE  [CallsQuietly]_vars
  <2>1. CASE Next /\ ThreadStep
    BY <1>1, <2>1, ThreadKeeps
  <2>2. CASE Next /\ ~ThreadStep
    BY <1>1, <2>2, CallersDoNotCall DEF CallsQuietly
  <2> QED BY <1>1, <2>1, <2>2
<1> QED BY <1>1, Invariance, PTL DEF Spec, QuietAfterStop, CallsQuietly
=============================================================================
