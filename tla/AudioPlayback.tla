---------------------------- MODULE AudioPlayback ----------------------------
(***************************************************************************)
(* Playback streams of the audio HAL (libaudio/audiohal/audio_hw.c): PCM   *)
(* streams and the compress offload stream, whose non-blocking writes and  *)
(* drains are waited for by a callback thread, share one playback route.   *)
(*                                                                         *)
(* Every stream has a framework thread that writes and one that makes the  *)
(* other calls.  Calls are serialised by out->common.lock, except that a   *)
(* standby releases it while it waits for the callback thread; adev->lock  *)
(* makes a step of each look at, or change of, the route.                  *)
(*                                                                         *)
(* "In cases of DP Audio or USB Audio Playback, special DMA is used        *)
(* without any relation to audio path routing": such streams do not count  *)
(* as users of the path, and a stream whose requested device is            *)
(* AUX_DIGITAL does not route it.  Voice calls, in-call music, MMAP        *)
(* streams, FM radio, factory mode and forced routes are left out, so      *)
(* every stream's usage is AUSAGE_MEDIA.                                   *)
(***************************************************************************)
EXTENDS Integers, Sequences

CONSTANTS
  PcmStreams,      \* playback streams of the other types
  OwnDma,          \* those of type ASTREAM_PLAYBACK_AUX_DIGITAL or ASTREAM_PLAYBACK_USB_DEVICE
  AuxStreams,      \* streams the framework may direct to AUDIO_DEVICE_OUT_AUX_DIGITAL
  Offload,         \* the stream of type ASTREAM_PLAYBACK_COMPR_OFFLOAD
  MaxMessages,     \* bound on the length of msg_list
  Nobody

Streams == PcmStreams \cup {Offload}

ASSUME OffloadAssumption == Offload \notin PcmStreams
ASSUME OwnDmaAssumption == OwnDma \subseteq PcmStreams
ASSUME AuxStreamsAssumption == AuxStreams \subseteq Streams
ASSUME NobodyAssumption == Nobody \notin {"writer", "control"}
ASSUME MaxMessagesAssumption == MaxMessages \in Nat \ {0}

VARIABLES
  status,            \* stream_status
  device,            \* PCM or compress device: "closed", "open", "running" or "paused"
  routed,            \* is_playback_path_routed
  listed,            \* playback_list
  aux,               \* the streams whose requested_devices is AUDIO_DEVICE_OUT_AUX_DIGITAL
  lock,              \* the owner of out->common.lock, between steps
  writer, control,   \* where the two framework threads of a stream are
  closing,           \* the standby under way is part of adev_close_output_stream()
  messages,          \* msg_list
  thread, msg,       \* where the callback thread is, and the message it works on
  blocked,           \* callback_thread_blocked
  owed               \* history: callbacks promised to the framework and not made yet

streams == <<status, device, routed, listed, aux>>
framework == <<writer, control, closing>>
offload == <<messages, thread, msg, blocked, owed>>
vars == <<streams, lock, framework, offload>>

STANDBY == 0
READY == 1
IDLE == 2
PLAYING == 3
PAUSED == 4

Free(s) == lock[s] = Nobody
\* requested_devices is assigned.
Requested(s) == aux' = aux \ {s} \/ (s \in AuxStreams /\ aux' = aux \cup {s})

Usable(s) == s \in listed /\ ~closing[s]

-----------------------------------------------------------------------------
(***************************************************************************)
(* Messages to the callback thread.                                        *)
(***************************************************************************)
\* Mutant: the thread is not signalled.
Sent_Silent(m) == messages' = Append(messages, m) /\ UNCHANGED thread

\* send_offload_msg()
Sent(m) ==
  /\ messages' = Append(messages, m)
  /\ thread' = IF thread = "asleep" THEN "woken" ELSE thread

\* A message after which the framework waits for a callback.
Asked(m) ==
  /\ Len(messages) < MaxMessages
  /\ Sent(m)
  /\ owed' = owed \cup {m}
  /\ UNCHANGED <<msg, blocked>>

-----------------------------------------------------------------------------
(***************************************************************************)
(* out_write()                                                             *)
(***************************************************************************)
\* Mutant: the stream becomes active only once its device is open.
WriteReady_Late(s) ==
  /\ Usable(s) /\ writer[s] = "idle" /\ Free(s) /\ status[s] = STANDBY
  /\ lock' = [lock EXCEPT ![s] = "writer"]
  /\ writer' = [writer EXCEPT ![s] = "route"]
  /\ UNCHANGED <<streams, control, closing, offload>>

\* The first write after standby makes the stream count as active ...
WriteReady(s) ==
  /\ Usable(s) /\ writer[s] = "idle" /\ Free(s) /\ status[s] = STANDBY
  /\ status' = [status EXCEPT ![s] = READY]
  /\ lock' = [lock EXCEPT ![s] = "writer"]
  /\ writer' = [writer EXCEPT ![s] = "route"]
  /\ UNCHANGED <<device, routed, listed, aux, control, closing, offload>>

\* adev_set_route(ROUTE) keeps the current route for DEVICE_AUX_DIGITAL.
Routes(s) == s \notin aux

\* ... routes the path, unless another stream did ...
WriteRoute(s) ==
  /\ writer[s] = "route"
  /\ routed' = (routed \/ Routes(s))
  /\ writer' = [writer EXCEPT ![s] = "open"]
  /\ UNCHANGED <<status, device, listed, aux, lock, control, closing, offload>>

\* ... and opens the device.
WriteOpen(s) ==
  /\ writer[s] = "open"
  /\ status' = [status EXCEPT ![s] = IDLE]
  /\ device' = [device EXCEPT ![s] = "open"]
  /\ writer' = [writer EXCEPT ![s] = "write"]
  /\ UNCHANGED <<routed, listed, aux, lock, control, closing, offload>>

OpenFails(s) ==
  /\ writer[s] = "open"
  /\ lock' = [lock EXCEPT ![s] = Nobody]
  /\ writer' = [writer EXCEPT ![s] = "idle"]
  /\ UNCHANGED <<streams, control, closing, offload>>

Writing(s) ==
  /\ \/ writer[s] = "write"
     \/ Usable(s) /\ writer[s] = "idle" /\ Free(s) /\ status[s] > READY
  /\ lock' = [lock EXCEPT ![s] = Nobody]
  /\ writer' = [writer EXCEPT ![s] = "idle"]
  /\ UNCHANGED <<routed, listed, aux, control, closing>>

\* The buffer is written, whole or in part, and the first one starts the device.
WriteData(s) ==
  /\ Writing(s) /\ device[s] # "closed"
  /\ IF status[s] = IDLE
     THEN /\ status' = [status EXCEPT ![s] = PLAYING]
          /\ device' = [device EXCEPT ![s] = "running"]
     ELSE UNCHANGED <<status, device>>
  /\ \/ UNCHANGED offload
     \/ s = Offload /\ Asked("WAIT_WRITE")

\* The device does not take the buffer, or does not start.
WriteFails(s) ==
  /\ Writing(s)
  /\ UNCHANGED <<status, device, offload>>

-----------------------------------------------------------------------------
(***************************************************************************)
(* Calls of the offload stream.                                            *)
(***************************************************************************)
Called(s) == Usable(s) /\ control[s] = "idle" /\ Free(s)

Stopped(s) == [device EXCEPT ![s] = IF @ = "closed" THEN "closed" ELSE "open"]

out_pause ==
  /\ Called(Offload) /\ status[Offload] = PLAYING
  /\ status' = [status EXCEPT ![Offload] = PAUSED]
  /\ device' = [device EXCEPT ![Offload] = "paused"]
  /\ UNCHANGED <<routed, listed, aux, lock, framework, offload>>

out_resume ==
  /\ Called(Offload) /\ status[Offload] = PAUSED
  /\ status' = [status EXCEPT ![Offload] = PLAYING]
  /\ device' = [device EXCEPT ![Offload] = "running"]
  /\ UNCHANGED <<routed, listed, aux, lock, framework, offload>>

\* When nothing plays the callback is made at once.
out_drain(m) ==
  /\ Called(Offload) /\ status[Offload] > IDLE
  /\ Asked(m)
  /\ UNCHANGED <<streams, lock, framework>>

out_flush ==
  /\ Called(Offload) /\ status[Offload] > IDLE
  /\ device' = Stopped(Offload)
  /\ status' = [status EXCEPT ![Offload] = IDLE]
  /\ UNCHANGED <<routed, listed, aux, lock, framework, offload>>

-----------------------------------------------------------------------------
(***************************************************************************)
(* out_set_parameters() with a device to route to: the stream remembers    *)
(* it, whether to route is decided under adev->lock, and done when the     *)
(* lock has been released and taken again.                                 *)
(***************************************************************************)
NeedRouting(s) == routed \/ status[s] > STANDBY

SetDevice(s) ==
  /\ Called(s)
  /\ Requested(s)
  /\ IF NeedRouting(s)
     THEN /\ lock' = [lock EXCEPT ![s] = "control"]
          /\ control' = [control EXCEPT ![s] = "routing"]
     ELSE UNCHANGED <<lock, control>>
  /\ UNCHANGED <<status, device, routed, listed, writer, closing, offload>>

Reroute(s) ==
  /\ control[s] = "routing"
  /\ routed' = (routed \/ Routes(s))
  /\ lock' = [lock EXCEPT ![s] = Nobody]
  /\ control' = [control EXCEPT ![s] = "idle"]
  /\ UNCHANGED <<status, device, listed, aux, writer, closing, offload>>

-----------------------------------------------------------------------------
(***************************************************************************)
(* out_standby(), alone and as the first part of closing the stream.       *)
(***************************************************************************)
Begin(s, isClose) ==
  /\ Usable(s) /\ control[s] = "idle"
  /\ isClose => writer[s] = "idle"
  /\ control' = [control EXCEPT ![s] = "enter"]
  /\ closing' = [closing EXCEPT ![s] = isClose]
  /\ UNCHANGED <<streams, lock, writer, offload>>

AfterStandby(s) == IF closing[s] THEN "remove" ELSE "idle"

StandbyAlready(s) ==
  /\ control[s] = "enter" /\ Free(s) /\ status[s] = STANDBY
  /\ control' = [control EXCEPT ![s] = AfterStandby(s)]
  /\ UNCHANGED <<streams, lock, writer, closing, offload>>

MustSync(s) == s = Offload /\ blocked /\ status[s] > IDLE

\* pthread_cond_wait(sync_cond)
StandbyWaits(s) ==
  /\ control[s] = "enter" /\ Free(s) /\ MustSync(s)
  /\ control' = [control EXCEPT ![s] = "sync"]
  /\ UNCHANGED <<streams, lock, writer, closing, offload>>

\* The device is stopped and closed.  A thread that waited does not look at blocked again.
StandbyStops(s) ==
  /\ Free(s)
  /\ \/ control[s] = "enter" /\ status[s] > STANDBY /\ ~MustSync(s)
     \/ control[s] = "woken"
  /\ status' = [status EXCEPT ![s] = STANDBY]
  /\ device' = [device EXCEPT ![s] = "closed"]
  /\ lock' = [lock EXCEPT ![s] = "control"]
  /\ control' = [control EXCEPT ![s] = "unroute"]
  /\ UNCHANGED <<routed, listed, aux, writer, closing, offload>>

\* get_active_playback_count() leaves out the streams with a DMA of their own.
Active(s) == s \in listed \ OwnDma /\ status[s] > STANDBY

\* adev_set_route(UNROUTE) leaves a path that others use.
Unroute(s) ==
  /\ control[s] = "unroute"
  /\ routed' = (routed /\ \E other \in Streams \ {s} : Active(other))
  /\ lock' = [lock EXCEPT ![s] = Nobody]
  /\ control' = [control EXCEPT ![s] = AfterStandby(s)]
  /\ UNCHANGED <<status, device, listed, aux, writer, closing, offload>>

Remove(s) ==
  /\ control[s] = "remove" /\ Free(s)
  /\ listed' = listed \ {s}
  /\ aux' = aux \ {s}
  /\ control' = [control EXCEPT ![s] = IF s = Offload THEN "exit" ELSE "idle"]
  /\ UNCHANGED <<status, device, routed, lock, writer, closing, offload>>

\* destroy_offload_callback_thread()
SendExit ==
  /\ control[Offload] = "exit" /\ Free(Offload)
  /\ Sent("EXIT")
  /\ control' = [control EXCEPT ![Offload] = "join"]
  /\ UNCHANGED <<streams, lock, writer, closing, msg, blocked, owed>>

\* Mutant: the stream is freed without waiting for its thread.
Joined_Early ==
  /\ control[Offload] = "join"
  /\ control' = [control EXCEPT ![Offload] = "idle"]
  /\ UNCHANGED <<streams, lock, writer, closing, offload>>

Joined ==
  /\ control[Offload] = "join" /\ thread = "ended"
  /\ control' = [control EXCEPT ![Offload] = "idle"]
  /\ UNCHANGED <<streams, lock, writer, closing, offload>>

\* adev_open_output_stream(), with a callback thread for the offload stream.
OpenStream(s) ==
  /\ s \notin listed /\ control[s] = "idle"
  /\ status' = [status EXCEPT ![s] = STANDBY]
  /\ listed' = listed \cup {s}
  /\ Requested(s)
  /\ closing' = [closing EXCEPT ![s] = FALSE]
  /\ IF s = Offload
     THEN thread' = "top" /\ messages' = <<>> /\ blocked' = FALSE /\ UNCHANGED <<msg, owed>>
     ELSE UNCHANGED offload
  /\ UNCHANGED <<device, routed, lock, writer, control>>

-----------------------------------------------------------------------------
(***************************************************************************)
(* offload_cbthread_loop()                                                 *)
(***************************************************************************)
\* What the thread does with the lock from the top of its loop on, or once it was woken.
Turn(sleepy) ==
  IF messages = <<>>
  THEN /\ thread' = IF sleepy THEN "asleep" ELSE "call"
       /\ blocked' = ~sleepy
       /\ msg' = "INVALID"
       /\ UNCHANGED messages
  ELSE IF Head(messages) = "EXIT"
       THEN /\ thread' = "ended"
            /\ messages' = <<>>
            /\ blocked' = FALSE
            /\ msg' = "INVALID"
       ELSE /\ thread' = "call"
            /\ messages' = Tail(messages)
            /\ blocked' = TRUE
            /\ msg' = Head(messages)

ThreadTurn ==
  /\ thread \in {"top", "woken"} /\ Free(Offload)
  /\ Turn(thread = "top")
  /\ UNCHANGED <<streams, lock, framework, owed>>

\* compress_wait(), compress_partial_drain() or compress_drain() returns: not while the device
\* is paused.
CompressReturns ==
  /\ thread = "call" /\ (msg # "INVALID" => device[Offload] # "paused")
  /\ thread' = IF msg = "PARTIAL_DRAIN" THEN "drained" ELSE "back"
  /\ UNCHANGED <<streams, lock, framework, messages, msg, blocked, owed>>

\* After a partial drain the device is stopped, so that the next track starts it again.
PartialDrained ==
  /\ thread = "drained" /\ Free(Offload)
  /\ device' = Stopped(Offload)
  /\ status' = [status EXCEPT ![Offload] = IDLE]
  /\ thread' = "back"
  /\ UNCHANGED <<routed, listed, aux, lock, framework, messages, msg, blocked, owed>>

\* The thread signals sync_cond, calls the framework, and starts over, all under the lock.
ThreadBack ==
  /\ thread = "back" /\ Free(Offload)
  /\ owed' = owed \ {msg}
  /\ Turn(TRUE)
  /\ control' = [control EXCEPT ![Offload] = IF @ = "sync" THEN "woken" ELSE @]
  /\ UNCHANGED <<streams, lock, writer, closing>>

\* pthread_cond_wait() may return without a signal.
SpuriousWakeup ==
  \/ /\ thread = "asleep"
     /\ thread' = "woken"
     /\ UNCHANGED <<streams, lock, framework, messages, msg, blocked, owed>>
  \/ /\ control[Offload] = "sync"
     /\ control' = [control EXCEPT ![Offload] = "woken"]
     /\ UNCHANGED <<streams, lock, writer, closing, offload>>

-----------------------------------------------------------------------------
Init ==
  /\ status = [s \in Streams |-> STANDBY]
  /\ device = [s \in Streams |-> "closed"]
  /\ routed = FALSE /\ listed = {} /\ aux = {}
  /\ lock = [s \in Streams |-> Nobody]
  /\ writer = [s \in Streams |-> "idle"]
  /\ control = [s \in Streams |-> "idle"]
  /\ closing = [s \in Streams |-> FALSE]
  /\ messages = <<>> /\ thread = "ended" /\ msg = "INVALID" /\ blocked = FALSE /\ owed = {}

\* What a framework thread does on its way out of a call.
WriterStep(s) == WriteRoute(s) \/ WriteOpen(s) \/ OpenFails(s)
                 \/ (writer[s] = "write" /\ (WriteData(s) \/ WriteFails(s)))
ControlStep(s) ==
  \/ Reroute(s) \/ StandbyAlready(s) \/ StandbyWaits(s) \/ StandbyStops(s) \/ Unroute(s)
  \/ Remove(s) \/ (s = Offload /\ (SendExit \/ Joined))

\* Calls the framework makes when it wants.
NewCall(s) ==
  \/ WriteReady(s) \/ WriteData(s) \/ WriteFails(s)
  \/ SetDevice(s) \/ Begin(s, FALSE) \/ Begin(s, TRUE) \/ OpenStream(s)

ThreadStep == ThreadTurn \/ CompressReturns \/ PartialDrained \/ ThreadBack

Next ==
  \/ \E s \in Streams : NewCall(s) \/ WriterStep(s) \/ ControlStep(s)
  \/ out_pause \/ out_resume \/ out_drain("PARTIAL_DRAIN") \/ out_drain("DRAIN") \/ out_flush
  \/ ThreadStep \/ SpuriousWakeup

Spec == Init /\ [][Next]_vars

\* Calls go on, whoever waits for a mutex gets it in the end, and a device that is not paused
\* consumes what was written to it.
FairSpec ==
  /\ Spec
  /\ \A s \in Streams : WF_vars(WriterStep(s)) /\ SF_vars(ControlStep(s))
  /\ SF_vars(ThreadStep)

-----------------------------------------------------------------------------
Questions == {"WAIT_WRITE", "PARTIAL_DRAIN", "DRAIN"}

\* Type invariant; with it, that no callback thread is left once its stream is gone, and that
\* nothing follows the message that ends it.
TypeOK ==
  /\ status \in [Streams -> STANDBY..PAUSED]
  /\ device \in [Streams -> {"closed", "open", "running", "paused"}]
  /\ routed \in BOOLEAN /\ listed \subseteq Streams /\ aux \subseteq Streams
  /\ lock \in [Streams -> {Nobody, "writer", "control"}]
  /\ writer \in [Streams -> {"idle", "route", "open", "write"}]
  /\ control \in [Streams -> {"idle", "routing", "enter", "sync", "woken", "unroute", "remove",
                             "exit", "join"}]
  /\ closing \in [Streams -> BOOLEAN]
  /\ messages \in Seq(Questions \cup {"EXIT"}) /\ Len(messages) <= MaxMessages + 1
  /\ \A i \in 1..Len(messages) : messages[i] = "EXIT" => i = Len(messages)
  /\ thread \in {"top", "asleep", "woken", "call", "drained", "back", "ended"}
  /\ msg \in Questions \cup {"INVALID"} /\ blocked \in BOOLEAN /\ owed \subseteq Questions
  /\ Offload \notin listed /\ control[Offload] = "idle" => thread = "ended"

\* The playback path is routed whenever a stream that plays on it has its device open, whichever
\* streams go to standby and whenever they do: streams decide about the route from each other's
\* status, read without each other's lock.  Streams with a DMA of their own and streams for
\* AUX_DIGITAL do not play on the path; one that has just left AUX_DIGITAL is being routed.
RoutedWhileOpen ==
  \A s \in Streams \ (OwnDma \cup aux) :
    device[s] # "closed" => routed \/ control[s] = "routing"

\* Every short write and every drain is answered by a callback, and standby and close return,
\* unless the device stays paused: nobody sleeps through a message or a signal.
Answers ==
  /\ \A q \in Questions : [](q \in owed => <>(q \notin owed \/ device[Offload] = "paused"))
  /\ \A s \in Streams :
       [](control[s] # "idle" => <>(control[s] = "idle" \/ device[s] = "paused"))

\* "STATUS_IDLE, // Stream is opened & Device(PCM or Compress) is opened.", and in STATUS_STANDBY
\* and STATUS_READY it is not.
StatusTrue == \A s \in listed : status[s] >= IDLE <=> device[s] # "closed"
=============================================================================
