------------------------ MODULE AudioPlaybackProofs ------------------------
(***************************************************************************)
(* Proofs about playback in the audio HAL, for every set of PCM streams    *)
(* and any length of the offload stream's message list.                    *)
(***************************************************************************)
EXTENDS AudioPlayback, TLAPS

USE DEF streams, framework, offload, STANDBY, READY, IDLE, PLAYING, PAUSED

(***************************************************************************)
(* The inductive invariant.  First, who holds out->common.lock between two *)
(* steps.                                                                  *)
(***************************************************************************)
LockOwners ==
  \A s \in Streams :
    /\ lock[s] = "writer" <=> writer[s] # "idle"
    /\ lock[s] = "control" <=> control[s] \in {"routing", "unroute"}

\* A write is under way only on an open stream, which counts as active from before it routes the
\* path until after its standby.
WriterActive ==
  \A s \in Streams :
    writer[s] # "idle" => s \in listed /\ ~closing[s] /\ status[s] > STANDBY

\* A stream that is being removed has its device closed and accepts no writes.
Leaving ==
  \A s \in Streams :
    /\ control[s] \in {"remove", "exit", "join"} => closing[s]
    /\ control[s] \in {"unroute", "remove", "exit", "join"} => device[s] = "closed"
    /\ control[s] \in {"exit", "join"} => s \notin listed
    /\ control[s] \notin {"idle", "exit", "join"} => s \in listed

\* An open device belongs to an active stream, and only an open one plays.
OpenIsActive ==
  \A s \in Streams :
    /\ device[s] # "closed" => s \in listed /\ status[s] > STANDBY
    /\ status[s] \in {PLAYING, PAUSED} => device[s] # "closed"

\* The path is routed from WriteRoute on for a stream that plays on it, but for one that is just
\* being directed to it from AUX_DIGITAL.
Routed ==
  \A s \in Streams \ (OwnDma \cup aux) :
    writer[s] \in {"open", "write"} \/ device[s] # "closed" => routed \/ control[s] = "routing"

\* The message that ends the callback thread is sent by the close that joins it, after the last
\* question.
NoExit == Len(messages) <= MaxMessages /\ \A i \in 1..Len(messages) : messages[i] # "EXIT"
ExitLast == control[Offload] # "join" => NoExit

\* The callback thread is there from the opening of its stream to the end of the close, and leaves
\* no message behind.
ThreadLife ==
  /\ Offload \notin listed /\ control[Offload] = "idle" => thread = "ended"
  /\ thread = "ended" =>
       messages = <<>> /\ Offload \notin listed /\ control[Offload] \in {"idle", "join"}

\* The two halves of the type invariant: the streams', and the callback thread's.
StreamTypes ==
  /\ status \in [Streams -> STANDBY..PAUSED]
  /\ device \in [Streams -> {"closed", "open", "running", "paused"}]
  /\ routed \in BOOLEAN /\ listed \subseteq Streams /\ aux \subseteq Streams
  /\ lock \in [Streams -> {Nobody, "writer", "control"}]
  /\ writer \in [Streams -> {"idle", "route", "open", "write"}]
  /\ control \in [Streams -> {"idle", "routing", "enter", "sync", "woken", "unroute", "remove",
                             "exit", "join"}]
  /\ closing \in [Streams -> BOOLEAN]

Messages == Seq(Questions \cup {"EXIT"})

MessageTypes ==
  /\ messages \in Messages /\ Len(messages) <= MaxMessages + 1
  /\ \A i \in 1..Len(messages) : messages[i] = "EXIT" => i = Len(messages)
  /\ thread \in {"top", "asleep", "woken", "call", "drained", "back", "ended"}
  /\ msg \in Questions \cup {"INVALID"} /\ blocked \in BOOLEAN /\ owed \subseteq Questions

IInv ==
  /\ StreamTypes /\ MessageTypes /\ LockOwners /\ WriterActive /\ Leaving /\ OpenIsActive
  /\ Routed /\ ExitLast /\ ThreadLife

\* The offload stream is one of the streams.
LEMMA OffloadStream == Offload \in Streams
BY DEF Streams

\* No stream is open.
LEMMA InitIInv == Init => IInv
<1> SUFFICES ASSUME Init PROVE IInv
  OBVIOUS
<1>1. Offload \in Streams
  BY DEF Streams
<1>2. messages \in Messages /\ Len(messages) = 0
  BY DEF Init, Messages
<1>3. StreamTypes
  <2>1. routed \in BOOLEAN /\ closing \in [Streams -> BOOLEAN]
    BY DEF Init
  <2>2. status \in [Streams -> STANDBY..PAUSED] /\ listed \subseteq Streams
    BY DEF Init
  <2> QED BY <2>1, <2>2 DEF Init, StreamTypes
<1>4. MessageTypes
  <2>1. blocked \in BOOLEAN /\ owed \subseteq Questions
    BY Zenon DEF Init
  <2> QED BY <1>2, <2>1, MaxMessagesAssumption DEF Init, MessageTypes
<1>5. LockOwners /\ WriterActive /\ Leaving /\ OpenIsActive /\ Routed
  BY NobodyAssumption DEF Init, LockOwners, WriterActive, Leaving, OpenIsActive, Routed
<1>6. ExitLast /\ ThreadLife
  BY <1>1, <1>2, MaxMessagesAssumption DEF Init, ExitLast, NoExit, ThreadLife
<1> QED BY <1>3, <1>4, <1>5, <1>6 DEF IInv

\* send_offload_msg() appends.
LEMMA SentMeaning ==
  ASSUME messages \in Messages, NEW m \in Questions \cup {"EXIT"}, Sent(m)
  PROVE  /\ messages' \in Messages /\ Len(messages') = Len(messages) + 1
         /\ \A i \in 1..Len(messages) : messages'[i] = messages[i]
         /\ messages'[Len(messages) + 1] = m
BY DEF Sent, Messages

\* A question leaves a list without EXIT without EXIT, and within its bound.
LEMMA AskedNoExit ==
  ASSUME MessageTypes, ExitLast, NEW m \in Questions, Asked(m), control' = control
  PROVE  ExitLast'
<1>1. Sent(m) /\ Len(messages) < MaxMessages
  BY DEF Asked
<1>2. /\ Len(messages') = Len(messages) + 1 /\ Len(messages) \in Nat
      /\ \A i \in 1..Len(messages) : messages'[i] = messages[i]
      /\ messages'[Len(messages) + 1] = m
  BY <1>1, SentMeaning DEF MessageTypes, Messages
<1> QED BY <1>1, <1>2, MaxMessagesAssumption DEF ExitLast, NoExit, Questions

\* offload_cbthread_loop() takes messages from the front.
LEMMA TurnMeaning ==
  ASSUME messages \in Messages, NEW sleepy \in BOOLEAN, Turn(sleepy)
  PROVE  /\ messages' \in Messages /\ Len(messages') <= Len(messages)
         /\ \A i \in 1..Len(messages') : /\ i + Len(messages) - Len(messages') \in 1..Len(messages)
              /\ messages'[i] = messages[i + Len(messages) - Len(messages')]
         /\ thread' \in {"asleep", "call", "ended"} /\ blocked' \in BOOLEAN
         /\ msg' \in Questions \cup {"INVALID"}
         /\ thread' = "ended" =>
              messages' = <<>> /\ \E i \in 1..Len(messages) : messages[i] = "EXIT"
<1>1. CASE messages = <<>>
  BY <1>1 DEF Turn, Messages
<1>2. CASE messages # <<>>
  <2>1. /\ Len(messages) \in Nat \ {0} /\ Head(messages) \in Questions \cup {"EXIT"}
        /\ Head(messages) = messages[1] /\ Tail(messages) \in Messages
        /\ Len(Tail(messages)) = Len(messages) - 1
        /\ \A i \in 1..Len(messages) - 1 : Tail(messages)[i] = messages[i + 1]
    BY <1>2 DEF Messages
  <2>2. CASE Head(messages) = "EXIT"
    <3>1. thread' = "ended" /\ messages' = <<>> /\ blocked' \in BOOLEAN /\ msg' = "INVALID"
      BY <1>2, <2>2, Zenon DEF Turn
    <3>2. messages' \in Messages /\ Len(messages') = 0
      BY <3>1 DEF Messages
    <3> QED BY <2>1, <2>2, <3>1, <3>2
  <2>3. CASE Head(messages) # "EXIT"
    <3>1. /\ thread' = "call" /\ messages' = Tail(messages) /\ blocked' \in BOOLEAN
          /\ msg' = Head(messages)
      BY <1>2, <2>3, Zenon DEF Turn
    <3>2. 1..Len(messages') = 1..Len(messages) - 1 /\ Len(messages) - Len(messages') = 1
      BY <2>1, <3>1
    <3>3. ASSUME NEW i \in 1..Len(messages')
          PROVE  /\ i + Len(messages) - Len(messages') \in 1..Len(messages)
                 /\ messages'[i] = messages[i + Len(messages) - Len(messages')]
      <4>1. i \in 1..Len(messages) - 1
        BY <3>2
      <4>2. i + Len(messages) - Len(messages') = i + 1
        BY <2>1, <3>1, <4>1
      <4> QED BY <2>1, <3>1, <4>1, <4>2
    <3> QED BY <2>1, <2>3, <3>1, <3>3
  <2> QED BY <2>2, <2>3
<1> QED BY <1>1, <1>2

\* A turn of the thread keeps the types of the list, its bound and what EXIT ends.
LEMMA TurnKeeps ==
  ASSUME MessageTypes, NEW sleepy \in BOOLEAN, Turn(sleepy), owed' \subseteq Questions
  PROVE  MessageTypes' /\ (NoExit => NoExit')
<1>1. messages \in Messages
  BY DEF MessageTypes
<1>2. /\ messages' \in Messages /\ Len(messages') <= Len(messages)
      /\ \A i \in 1..Len(messages') : /\ i + Len(messages) - Len(messages') \in 1..Len(messages)
           /\ messages'[i] = messages[i + Len(messages) - Len(messages')]
      /\ thread' \in {"asleep", "call", "ended"} /\ blocked' \in BOOLEAN
      /\ msg' \in Questions \cup {"INVALID"}
  BY <1>1, TurnMeaning
<1>3. Len(messages) \in Nat /\ Len(messages') \in Nat
  BY <1>1, <1>2 DEF Messages
<1>4. Len(messages') <= MaxMessages + 1
  BY <1>2, <1>3, MaxMessagesAssumption DEF MessageTypes
<1>5. ASSUME NEW i \in 1..Len(messages'), messages'[i] = "EXIT" PROVE i = Len(messages')
  <2>1. i + Len(messages) - Len(messages') = Len(messages)
    BY <1>2, <1>5 DEF MessageTypes
  <2> QED BY <1>3, <2>1
<1>6. NoExit => NoExit'
  BY <1>2, <1>3, MaxMessagesAssumption DEF NoExit
<1> QED BY <1>2, <1>4, <1>5, <1>6 DEF MessageTypes

\* The streams' half of the types.
LEMMA StreamTypesNext ==
  ASSUME StreamTypes, [Next]_vars
  PROVE  StreamTypes'
<1> USE DEF StreamTypes
<1>1. ASSUME NEW s \in Streams, WriteReady(s) PROVE StreamTypes'
  BY <1>1 DEF WriteReady, Usable, Free
<1>2. ASSUME NEW s \in Streams, WriteRoute(s) PROVE StreamTypes'
  BY <1>2 DEF WriteRoute, Routes
<1>3. ASSUME NEW s \in Streams, WriteOpen(s) PROVE StreamTypes'
  BY <1>3 DEF WriteOpen
<1>4. ASSUME NEW s \in Streams, OpenFails(s) PROVE StreamTypes'
  BY <1>4 DEF OpenFails, Free
<1>5. ASSUME NEW s \in Streams, WriteData(s) PROVE StreamTypes'
  <2>1. status' \in [Streams -> STANDBY..PAUSED]
    BY <1>5 DEF WriteData
  <2>2. device' \in [Streams -> {"closed", "open", "running", "paused"}]
    BY <1>5 DEF WriteData
  <2> QED BY <1>5, <2>1, <2>2 DEF WriteData, Writing
<1>6. ASSUME NEW s \in Streams, WriteFails(s) PROVE StreamTypes'
  BY <1>6 DEF WriteFails, Writing, Usable, Free
<1>7. ASSUME NEW s \in Streams, SetDevice(s) PROVE StreamTypes'
  BY <1>7 DEF SetDevice, Requested, NeedRouting, Called, Usable, Free
<1>8. ASSUME NEW s \in Streams, Reroute(s) PROVE StreamTypes'
  BY <1>8 DEF Reroute, Routes
<1>9. ASSUME NEW s \in Streams, NEW b \in BOOLEAN, Begin(s, b) PROVE StreamTypes'
  BY <1>9 DEF Begin, Usable
<1>10. ASSUME NEW s \in Streams, StandbyAlready(s) PROVE StreamTypes'
  BY <1>10 DEF StandbyAlready, AfterStandby, Free
<1>11. ASSUME NEW s \in Streams, StandbyWaits(s) PROVE StreamTypes'
  BY <1>11 DEF StandbyWaits, Free, MustSync
<1>12. ASSUME NEW s \in Streams, StandbyStops(s) PROVE StreamTypes'
  BY <1>12 DEF StandbyStops, Free, MustSync
<1>13. ASSUME NEW s \in Streams, Unroute(s) PROVE StreamTypes'
  <2>1. routed' \in BOOLEAN
    BY <1>13, Zenon DEF Unroute
  <2> QED BY <1>13, <2>1 DEF Unroute, AfterStandby
<1>14. ASSUME NEW s \in Streams, Remove(s) PROVE StreamTypes'
  BY <1>14 DEF Remove, Free
<1>15. ASSUME NEW s \in Streams, OpenStream(s) PROVE StreamTypes'
  BY <1>15 DEF OpenStream, Requested
<1>16. CASE SendExit
  BY <1>16 DEF SendExit, Sent, Free
<1>17. CASE Joined
  BY <1>17 DEF Joined
<1>18. CASE out_pause
  BY <1>18 DEF out_pause, Called, Usable, Free
<1>19. CASE out_resume
  BY <1>19 DEF out_resume, Called, Usable, Free
<1>20. ASSUME NEW m \in Questions, out_drain(m) PROVE StreamTypes'
  BY <1>20 DEF out_drain, Called, Usable, Free, Asked, Sent
<1>21. CASE out_flush
  BY <1>21 DEF out_flush, Called, Usable, Free, Stopped
<1>22. CASE ThreadTurn
  BY <1>22 DEF ThreadTurn, Turn, Free
<1>23. CASE CompressReturns
  BY <1>23 DEF CompressReturns
<1>24. CASE PartialDrained
  <2>1. status' \in [Streams -> STANDBY..PAUSED]
    <3>1. status' = [status EXCEPT ![Offload] = IDLE]
      BY <1>24 DEF PartialDrained
    <3>2. IDLE \in STANDBY..PAUSED /\ status \in [Streams -> STANDBY..PAUSED]
      OBVIOUS
    <3> QED BY ONLY <3>1, <3>2
  <2>2. device' \in [Streams -> {"closed", "open", "running", "paused"}]
    BY <1>24 DEF PartialDrained, Stopped
  <2> QED BY <1>24, <2>1, <2>2 DEF PartialDrained
<1>25. CASE ThreadBack
  BY <1>25 DEF ThreadBack, Turn, Free
<1>26. CASE SpuriousWakeup
  BY <1>26 DEF SpuriousWakeup
<1>27. CASE UNCHANGED vars
  BY <1>27 DEF vars
<1> QED
  BY <1>1, <1>2, <1>3, <1>4, <1>5, <1>6, <1>7, <1>8, <1>9, <1>10, <1>11, <1>12, <1>13, <1>14, <1>15, <1>16,
     <1>17, <1>18, <1>19, <1>20, <1>21, <1>22, <1>23, <1>24, <1>25, <1>26, <1>27
  DEF Next, NewCall, WriterStep, ControlStep, ThreadStep, Questions

\* The callback thread's half: EXIT is appended to a list without one, and stays its last.
LEMMA MessageTypesNext ==
  ASSUME StreamTypes, MessageTypes, WriterActive, Leaving, ExitLast, [Next]_vars
  PROVE  MessageTypes'
<1> USE MaxMessagesAssumption DEF MessageTypes
<1>1. ASSUME NEW s \in Streams, WriteReady(s) PROVE MessageTypes'
  BY <1>1 DEF WriteReady, Usable, Free
<1>2. ASSUME NEW s \in Streams, WriteRoute(s) PROVE MessageTypes'
  BY <1>2 DEF WriteRoute, Routes
<1>3. ASSUME NEW s \in Streams, WriteOpen(s) PROVE MessageTypes'
  BY <1>3 DEF WriteOpen
<1>4. ASSUME NEW s \in Streams, OpenFails(s) PROVE MessageTypes'
  BY <1>4 DEF OpenFails, Free
<1>5. ASSUME NEW s \in Streams, WriteData(s) PROVE MessageTypes'
  <2>0. UNCHANGED offload \/ (s = Offload /\ Asked("WAIT_WRITE"))
    BY <1>5 DEF WriteData
  <2>1. CASE s = Offload /\ Asked("WAIT_WRITE")
    <3>1. Sent("WAIT_WRITE") /\ Len(messages) < MaxMessages /\ owed' = owed \cup {"WAIT_WRITE"} /\ UNCHANGED <<msg, blocked>>
      BY <2>1 DEF Asked
    <3>2. NoExit
      <4>1. Offload \in listed
        BY <1>5, <2>1, OffloadStream DEF WriteData, Writing, Usable, WriterActive
      <4> QED BY <4>1, OffloadStream DEF ExitLast, Leaving
    <3>3. "WAIT_WRITE" \in Questions
      BY <1>5 DEF Questions
    <3>4. thread' = (IF thread = "asleep" THEN "woken" ELSE thread)
      BY <3>1 DEF Sent
    <3>5. /\ messages' \in Messages /\ Len(messages') = Len(messages) + 1
          /\ \A i \in 1..Len(messages) : messages'[i] = messages[i]
      BY <3>1, <3>3, SentMeaning
    <3>6. Len(messages) \in Nat
      BY DEF Messages
    <3> QED BY <3>1, <3>2, <3>3, <3>4, <3>5, <3>6 DEF NoExit
  <2>2. CASE UNCHANGED offload
    BY <2>2
  <2> QED BY <2>0, <2>1, <2>2
<1>6. ASSUME NEW s \in Streams, WriteFails(s) PROVE MessageTypes'
  BY <1>6 DEF WriteFails, Writing, Usable, Free
<1>7. ASSUME NEW s \in Streams, SetDevice(s) PROVE MessageTypes'
  BY <1>7 DEF SetDevice, Requested, NeedRouting, Called, Usable, Free
<1>8. ASSUME NEW s \in Streams, Reroute(s) PROVE MessageTypes'
  BY <1>8 DEF Reroute, Routes
<1>9. ASSUME NEW s \in Streams, NEW b \in BOOLEAN, Begin(s, b) PROVE MessageTypes'
  BY <1>9 DEF Begin, Usable
<1>10. ASSUME NEW s \in Streams, StandbyAlready(s) PROVE MessageTypes'
  BY <1>10 DEF StandbyAlready, AfterStandby, Free
<1>11. ASSUME NEW s \in Streams, StandbyWaits(s) PROVE MessageTypes'
  BY <1>11 DEF StandbyWaits, Free, MustSync
<1>12. ASSUME NEW s \in Streams, StandbyStops(s) PROVE MessageTypes'
  BY <1>12 DEF StandbyStops, Free, MustSync
<1>13. ASSUME NEW s \in Streams, Unroute(s) PROVE MessageTypes'
  BY <1>13 DEF Unroute, AfterStandby, Active
<1>14. ASSUME NEW s \in Streams, Remove(s) PROVE MessageTypes'
  BY <1>14 DEF Remove, Free
<1>15. ASSUME NEW s \in Streams, OpenStream(s) PROVE MessageTypes'
  <2>1. CASE s = Offload
    <3>1. thread' = "top" /\ messages' = <<>> /\ UNCHANGED <<msg, owed>>
      BY <1>15, <2>1 DEF OpenStream, Requested
    <3>2. blocked' \in BOOLEAN
      BY <1>15, <2>1, Zenon DEF OpenStream, Requested
    <3>3. messages' \in Messages /\ Len(messages') = 0
      BY <3>1 DEF Messages
    <3> QED BY <3>1, <3>2, <3>3
  <2>2. CASE s # Offload
    BY <1>15, <2>2 DEF OpenStream, Requested
  <2> QED BY <2>1, <2>2
<1>16. CASE SendExit
  <2>1. Sent("EXIT") /\ NoExit /\ UNCHANGED <<msg, blocked, owed>>
    BY <1>16 DEF SendExit, ExitLast
  <2>2. /\ messages' \in Messages /\ Len(messages') = Len(messages) + 1
        /\ \A i \in 1..Len(messages) : messages'[i] = messages[i]
    BY <2>1, SentMeaning
  <2>3. thread' = (IF thread = "asleep" THEN "woken" ELSE thread)
    BY <2>1 DEF Sent
  <2>4. Len(messages) \in Nat
    BY DEF Messages
  <2> QED BY <2>1, <2>2, <2>3, <2>4 DEF NoExit
<1>17. CASE Joined
  BY <1>17 DEF Joined
<1>18. CASE out_pause
  BY <1>18 DEF out_pause, Called, Usable, Free
<1>19. CASE out_resume
  BY <1>19 DEF out_resume, Called, Usable, Free
<1>20. ASSUME NEW m \in Questions, out_drain(m) PROVE MessageTypes'
  <2>1. CASE Asked(m)
    <3>1. Sent(m) /\ Len(messages) < MaxMessages /\ owed' = owed \cup {m} /\ UNCHANGED <<msg, blocked>>
      BY <2>1 DEF Asked
    <3>2. NoExit
      BY <1>20, OffloadStream DEF out_drain, Called, Usable, ExitLast, WriterActive, Leaving, StreamTypes
    <3>3. m \in Questions
      BY <1>20 DEF Questions
    <3>4. thread' = (IF thread = "asleep" THEN "woken" ELSE thread)
      BY <3>1 DEF Sent
    <3>5. /\ messages' \in Messages /\ Len(messages') = Len(messages) + 1
          /\ \A i \in 1..Len(messages) : messages'[i] = messages[i]
      BY <3>1, <3>3, SentMeaning
    <3>6. Len(messages) \in Nat
      BY DEF Messages
    <3> QED BY <3>1, <3>2, <3>3, <3>4, <3>5, <3>6 DEF NoExit
  <2> QED BY <1>20, <2>1 DEF out_drain
<1>21. CASE out_flush
  BY <1>21 DEF out_flush, Called, Usable, Free, Stopped
<1>22. CASE ThreadTurn
  <2>1. Turn(thread = "top") /\ (thread = "top") \in BOOLEAN /\ owed' \subseteq Questions
    BY <1>22 DEF ThreadTurn
  <2> QED BY <2>1, TurnKeeps
<1>23. CASE CompressReturns
  BY <1>23 DEF CompressReturns
<1>24. CASE PartialDrained
  BY <1>24 DEF PartialDrained, Stopped, Free
<1>25. CASE ThreadBack
  <2>1. Turn(TRUE) /\ (TRUE) \in BOOLEAN /\ owed' \subseteq Questions
    BY <1>25 DEF ThreadBack
  <2> QED BY <2>1, TurnKeeps
<1>26. CASE SpuriousWakeup
  BY <1>26 DEF SpuriousWakeup
<1>27. CASE UNCHANGED vars
  BY <1>27 DEF vars
<1> QED
  BY <1>1, <1>2, <1>3, <1>4, <1>5, <1>6, <1>7, <1>8, <1>9, <1>10, <1>11, <1>12, <1>13, <1>14, <1>15, <1>16,
     <1>17, <1>18, <1>19, <1>20, <1>21, <1>22, <1>23, <1>24, <1>25, <1>26, <1>27
  DEF Next, NewCall, WriterStep, ControlStep, ThreadStep, Questions

\* The lock is taken when it is free and released by its owner.
LEMMA LockNext ==
  ASSUME StreamTypes, LockOwners, [Next]_vars
  PROVE  LockOwners'
<1> USE NobodyAssumption DEF StreamTypes, LockOwners
<1>1. ASSUME NEW s \in Streams, WriteReady(s) PROVE LockOwners'
  BY <1>1 DEF WriteReady, Usable, Free
<1>2. ASSUME NEW s \in Streams, WriteRoute(s) PROVE LockOwners'
  BY <1>2 DEF WriteRoute, Routes
<1>3. ASSUME NEW s \in Streams, WriteOpen(s) PROVE LockOwners'
  BY <1>3 DEF WriteOpen
<1>4. ASSUME NEW s \in Streams, OpenFails(s) PROVE LockOwners'
  BY <1>4 DEF OpenFails, Free
<1>5. ASSUME NEW s \in Streams, WriteData(s) PROVE LockOwners'
  BY <1>5 DEF WriteData, Writing, Usable, Free, Asked, Sent
<1>6. ASSUME NEW s \in Streams, WriteFails(s) PROVE LockOwners'
  BY <1>6 DEF WriteFails, Writing, Usable, Free
<1>7. ASSUME NEW s \in Streams, SetDevice(s) PROVE LockOwners'
  BY <1>7 DEF SetDevice, Requested, NeedRouting, Called, Usable, Free
<1>8. ASSUME NEW s \in Streams, Reroute(s) PROVE LockOwners'
  BY <1>8 DEF Reroute, Routes
<1>9. ASSUME NEW s \in Streams, NEW b \in BOOLEAN, Begin(s, b) PROVE LockOwners'
  BY <1>9 DEF Begin, Usable
<1>10. ASSUME NEW s \in Streams, StandbyAlready(s) PROVE LockOwners'
  BY <1>10 DEF StandbyAlready, AfterStandby, Free
<1>11. ASSUME NEW s \in Streams, StandbyWaits(s) PROVE LockOwners'
  BY <1>11 DEF StandbyWaits, Free, MustSync
<1>12. ASSUME NEW s \in Streams, StandbyStops(s) PROVE LockOwners'
  BY <1>12 DEF StandbyStops, Free, MustSync
<1>13. ASSUME NEW s \in Streams, Unroute(s) PROVE LockOwners'
  BY <1>13 DEF Unroute, AfterStandby, Active
<1>14. ASSUME NEW s \in Streams, Remove(s) PROVE LockOwners'
  BY <1>14 DEF Remove, Free
<1>15. ASSUME NEW s \in Streams, OpenStream(s) PROVE LockOwners'
  BY <1>15 DEF OpenStream, Requested
<1>16. CASE SendExit
  BY <1>16 DEF SendExit, Sent, Free
<1>17. CASE Joined
  BY <1>17 DEF Joined
<1>18. CASE out_pause
  BY <1>18 DEF out_pause, Called, Usable, Free
<1>19. CASE out_resume
  BY <1>19 DEF out_resume, Called, Usable, Free
<1>20. ASSUME NEW m \in Questions, out_drain(m) PROVE LockOwners'
  BY <1>20 DEF out_drain, Called, Usable, Free, Asked, Sent
<1>21. CASE out_flush
  BY <1>21 DEF out_flush, Called, Usable, Free, Stopped
<1>22. CASE ThreadTurn
  BY <1>22 DEF ThreadTurn, Turn, Free
<1>23. CASE CompressReturns
  BY <1>23 DEF CompressReturns
<1>24. CASE PartialDrained
  BY <1>24 DEF PartialDrained, Stopped, Free
<1>25. CASE ThreadBack
  BY <1>25 DEF ThreadBack, Turn, Free
<1>26. CASE SpuriousWakeup
  BY <1>26 DEF SpuriousWakeup
<1>27. CASE UNCHANGED vars
  BY <1>27 DEF vars
<1> QED
  BY <1>1, <1>2, <1>3, <1>4, <1>5, <1>6, <1>7, <1>8, <1>9, <1>10, <1>11, <1>12, <1>13, <1>14, <1>15, <1>16,
     <1>17, <1>18, <1>19, <1>20, <1>21, <1>22, <1>23, <1>24, <1>25, <1>26, <1>27
  DEF Next, NewCall, WriterStep, ControlStep, ThreadStep, Questions

\* A standby needs the lock, so it does not overtake a write.
LEMMA WriterNext ==
  ASSUME StreamTypes, LockOwners, WriterActive, Leaving, [Next]_vars
  PROVE  WriterActive'
<1> USE NobodyAssumption DEF StreamTypes, LockOwners, WriterActive, Leaving
<1>1. ASSUME NEW s \in Streams, WriteReady(s) PROVE WriterActive'
  BY <1>1 DEF WriteReady, Usable, Free
<1>2. ASSUME NEW s \in Streams, WriteRoute(s) PROVE WriterActive'
  BY <1>2 DEF WriteRoute, Routes
<1>3. ASSUME NEW s \in Streams, WriteOpen(s) PROVE WriterActive'
  BY <1>3 DEF WriteOpen
<1>4. ASSUME NEW s \in Streams, OpenFails(s) PROVE WriterActive'
  BY <1>4 DEF OpenFails, Free
<1>5. ASSUME NEW s \in Streams, WriteData(s) PROVE WriterActive'
  BY <1>5 DEF WriteData, Writing, Usable, Free, Asked, Sent
<1>6. ASSUME NEW s \in Streams, WriteFails(s) PROVE WriterActive'
  BY <1>6 DEF WriteFails, Writing, Usable, Free
<1>7. ASSUME NEW s \in Streams, SetDevice(s) PROVE WriterActive'
  BY <1>7 DEF SetDevice, Requested, NeedRouting, Called, Usable, Free
<1>8. ASSUME NEW s \in Streams, Reroute(s) PROVE WriterActive'
  BY <1>8 DEF Reroute, Routes
<1>9. ASSUME NEW s \in Streams, NEW b \in BOOLEAN, Begin(s, b) PROVE WriterActive'
  BY <1>9 DEF Begin, Usable
<1>10. ASSUME NEW s \in Streams, StandbyAlready(s) PROVE WriterActive'
  BY <1>10 DEF StandbyAlready, AfterStandby, Free
<1>11. ASSUME NEW s \in Streams, StandbyWaits(s) PROVE WriterActive'
  BY <1>11 DEF StandbyWaits, Free, MustSync
<1>12. ASSUME NEW s \in Streams, StandbyStops(s) PROVE WriterActive'
  BY <1>12 DEF StandbyStops, Free, MustSync
<1>13. ASSUME NEW s \in Streams, Unroute(s) PROVE WriterActive'
  BY <1>13 DEF Unroute, AfterStandby, Active
<1>14. ASSUME NEW s \in Streams, Remove(s) PROVE WriterActive'
  BY <1>14 DEF Remove, Free
<1>15. ASSUME NEW s \in Streams, OpenStream(s) PROVE WriterActive'
  BY <1>15 DEF OpenStream, Requested
<1>16. CASE SendExit
  BY <1>16 DEF SendExit, Sent, Free
<1>17. CASE Joined
  BY <1>17 DEF Joined
<1>18. CASE out_pause
  BY <1>18 DEF out_pause, Called, Usable, Free
<1>19. CASE out_resume
  BY <1>19 DEF out_resume, Called, Usable, Free
<1>20. ASSUME NEW m \in Questions, out_drain(m) PROVE WriterActive'
  BY <1>20 DEF out_drain, Called, Usable, Free, Asked, Sent
<1>21. CASE out_flush
  BY <1>21 DEF out_flush, Called, Usable, Free, Stopped
<1>22. CASE ThreadTurn
  BY <1>22 DEF ThreadTurn, Turn, Free
<1>23. CASE CompressReturns
  BY <1>23 DEF CompressReturns
<1>24. CASE PartialDrained
  BY <1>24 DEF PartialDrained, Stopped, Free
<1>25. CASE ThreadBack
  BY <1>25 DEF ThreadBack, Turn, Free
<1>26. CASE SpuriousWakeup
  BY <1>26 DEF SpuriousWakeup
<1>27. CASE UNCHANGED vars
  BY <1>27 DEF vars
<1> QED
  BY <1>1, <1>2, <1>3, <1>4, <1>5, <1>6, <1>7, <1>8, <1>9, <1>10, <1>11, <1>12, <1>13, <1>14, <1>15, <1>16,
     <1>17, <1>18, <1>19, <1>20, <1>21, <1>22, <1>23, <1>24, <1>25, <1>26, <1>27
  DEF Next, NewCall, WriterStep, ControlStep, ThreadStep, Questions

\* A close goes through a standby, and nobody opens the device behind it.
LEMMA LeavingNext ==
  ASSUME StreamTypes, LockOwners, WriterActive, Leaving, OpenIsActive, [Next]_vars
  PROVE  Leaving'
<1> USE NobodyAssumption DEF StreamTypes, LockOwners, WriterActive, Leaving, OpenIsActive
<1>1. ASSUME NEW s \in Streams, WriteReady(s) PROVE Leaving'
  BY <1>1 DEF WriteReady, Usable, Free
<1>2. ASSUME NEW s \in Streams, WriteRoute(s) PROVE Leaving'
  BY <1>2 DEF WriteRoute, Routes
<1>3. ASSUME NEW s \in Streams, WriteOpen(s) PROVE Leaving'
  BY <1>3 DEF WriteOpen
<1>4. ASSUME NEW s \in Streams, OpenFails(s) PROVE Leaving'
  BY <1>4 DEF OpenFails, Free
<1>5. ASSUME NEW s \in Streams, WriteData(s) PROVE Leaving'
  BY <1>5 DEF WriteData, Writing, Usable, Free, Asked, Sent
<1>6. ASSUME NEW s \in Streams, WriteFails(s) PROVE Leaving'
  BY <1>6 DEF WriteFails, Writing, Usable, Free
<1>7. ASSUME NEW s \in Streams, SetDevice(s) PROVE Leaving'
  BY <1>7 DEF SetDevice, Requested, NeedRouting, Called, Usable, Free
<1>8. ASSUME NEW s \in Streams, Reroute(s) PROVE Leaving'
  BY <1>8 DEF Reroute, Routes
<1>9. ASSUME NEW s \in Streams, NEW b \in BOOLEAN, Begin(s, b) PROVE Leaving'
  BY <1>9 DEF Begin, Usable
<1>10. ASSUME NEW s \in Streams, StandbyAlready(s) PROVE Leaving'
  BY <1>10 DEF StandbyAlready, AfterStandby, Free
<1>11. ASSUME NEW s \in Streams, StandbyWaits(s) PROVE Leaving'
  BY <1>11 DEF StandbyWaits, Free, MustSync
<1>12. ASSUME NEW s \in Streams, StandbyStops(s) PROVE Leaving'
  BY <1>12 DEF StandbyStops, Free, MustSync
<1>13. ASSUME NEW s \in Streams, Unroute(s) PROVE Leaving'
  BY <1>13 DEF Unroute, AfterStandby, Active
<1>14. ASSUME NEW s \in Streams, Remove(s) PROVE Leaving'
  BY <1>14 DEF Remove, Free
<1>15. ASSUME NEW s \in Streams, OpenStream(s) PROVE Leaving'
  BY <1>15 DEF OpenStream, Requested
<1>16. CASE SendExit
  BY <1>16 DEF SendExit, Sent, Free
<1>17. CASE Joined
  BY <1>17 DEF Joined
<1>18. CASE out_pause
  BY <1>18 DEF out_pause, Called, Usable, Free
<1>19. CASE out_resume
  BY <1>19 DEF out_resume, Called, Usable, Free
<1>20. ASSUME NEW m \in Questions, out_drain(m) PROVE Leaving'
  BY <1>20 DEF out_drain, Called, Usable, Free, Asked, Sent
<1>21. CASE out_flush
  BY <1>21 DEF out_flush, Called, Usable, Free, Stopped
<1>22. CASE ThreadTurn
  BY <1>22 DEF ThreadTurn, Turn, Free
<1>23. CASE CompressReturns
  BY <1>23 DEF CompressReturns
<1>24. CASE PartialDrained
  BY <1>24 DEF PartialDrained, Stopped, Free
<1>25. CASE ThreadBack
  BY <1>25 DEF ThreadBack, Turn, Free
<1>26. CASE SpuriousWakeup
  BY <1>26 DEF SpuriousWakeup
<1>27. CASE UNCHANGED vars
  BY <1>27 DEF vars
<1> QED
  BY <1>1, <1>2, <1>3, <1>4, <1>5, <1>6, <1>7, <1>8, <1>9, <1>10, <1>11, <1>12, <1>13, <1>14, <1>15, <1>16,
     <1>17, <1>18, <1>19, <1>20, <1>21, <1>22, <1>23, <1>24, <1>25, <1>26, <1>27
  DEF Next, NewCall, WriterStep, ControlStep, ThreadStep, Questions

\* Devices are opened by active streams, and closed before the stream is inactive.
LEMMA OpenNext ==
  ASSUME StreamTypes, LockOwners, WriterActive, Leaving, OpenIsActive, [Next]_vars
  PROVE  OpenIsActive'
<1> USE NobodyAssumption DEF StreamTypes, LockOwners, WriterActive, Leaving, OpenIsActive
<1>1. ASSUME NEW s \in Streams, WriteReady(s) PROVE OpenIsActive'
  BY <1>1 DEF WriteReady, Usable, Free
<1>2. ASSUME NEW s \in Streams, WriteRoute(s) PROVE OpenIsActive'
  BY <1>2 DEF WriteRoute, Routes
<1>3. ASSUME NEW s \in Streams, WriteOpen(s) PROVE OpenIsActive'
  BY <1>3 DEF WriteOpen
<1>4. ASSUME NEW s \in Streams, OpenFails(s) PROVE OpenIsActive'
  BY <1>4 DEF OpenFails, Free
<1>5. ASSUME NEW s \in Streams, WriteData(s) PROVE OpenIsActive'
  BY <1>5 DEF WriteData, Writing, Usable, Free, Asked, Sent
<1>6. ASSUME NEW s \in Streams, WriteFails(s) PROVE OpenIsActive'
  BY <1>6 DEF WriteFails, Writing, Usable, Free
<1>7. ASSUME NEW s \in Streams, SetDevice(s) PROVE OpenIsActive'
  BY <1>7 DEF SetDevice, Requested, NeedRouting, Called, Usable, Free
<1>8. ASSUME NEW s \in Streams, Reroute(s) PROVE OpenIsActive'
  BY <1>8 DEF Reroute, Routes
<1>9. ASSUME NEW s \in Streams, NEW b \in BOOLEAN, Begin(s, b) PROVE OpenIsActive'
  BY <1>9 DEF Begin, Usable
<1>10. ASSUME NEW s \in Streams, StandbyAlready(s) PROVE OpenIsActive'
  BY <1>10 DEF StandbyAlready, AfterStandby, Free
<1>11. ASSUME NEW s \in Streams, StandbyWaits(s) PROVE OpenIsActive'
  BY <1>11 DEF StandbyWaits, Free, MustSync
<1>12. ASSUME NEW s \in Streams, StandbyStops(s) PROVE OpenIsActive'
  BY <1>12 DEF StandbyStops, Free, MustSync
<1>13. ASSUME NEW s \in Streams, Unroute(s) PROVE OpenIsActive'
  BY <1>13 DEF Unroute, AfterStandby, Active
<1>14. ASSUME NEW s \in Streams, Remove(s) PROVE OpenIsActive'
  BY <1>14 DEF Remove, Free
<1>15. ASSUME NEW s \in Streams, OpenStream(s) PROVE OpenIsActive'
  BY <1>15 DEF OpenStream, Requested
<1>16. CASE SendExit
  BY <1>16 DEF SendExit, Sent, Free
<1>17. CASE Joined
  BY <1>17 DEF Joined
<1>18. CASE out_pause
  BY <1>18 DEF out_pause, Called, Usable, Free
<1>19. CASE out_resume
  BY <1>19 DEF out_resume, Called, Usable, Free
<1>20. ASSUME NEW m \in Questions, out_drain(m) PROVE OpenIsActive'
  BY <1>20 DEF out_drain, Called, Usable, Free, Asked, Sent
<1>21. CASE out_flush
  BY <1>21 DEF out_flush, Called, Usable, Free, Stopped
<1>22. CASE ThreadTurn
  BY <1>22 DEF ThreadTurn, Turn, Free
<1>23. CASE CompressReturns
  BY <1>23 DEF CompressReturns
<1>24. CASE PartialDrained
  BY <1>24 DEF PartialDrained, Stopped, Free
<1>25. CASE ThreadBack
  BY <1>25 DEF ThreadBack, Turn, Free
<1>26. CASE SpuriousWakeup
  BY <1>26 DEF SpuriousWakeup
<1>27. CASE UNCHANGED vars
  BY <1>27 DEF vars
<1> QED
  BY <1>1, <1>2, <1>3, <1>4, <1>5, <1>6, <1>7, <1>8, <1>9, <1>10, <1>11, <1>12, <1>13, <1>14, <1>15, <1>16,
     <1>17, <1>18, <1>19, <1>20, <1>21, <1>22, <1>23, <1>24, <1>25, <1>26, <1>27
  DEF Next, NewCall, WriterStep, ControlStep, ThreadStep, Questions

\* Nobody unroutes the path of a stream that has routed it and counts as active.
LEMMA RoutedNext ==
  ASSUME StreamTypes, LockOwners, WriterActive, Leaving, OpenIsActive, Routed, [Next]_vars
  PROVE  Routed'
<1> USE NobodyAssumption DEF StreamTypes, LockOwners, WriterActive, Leaving, OpenIsActive, Routed
<1>1. ASSUME NEW s \in Streams, WriteReady(s) PROVE Routed'
  BY <1>1 DEF WriteReady, Usable, Free
<1>2. ASSUME NEW s \in Streams, WriteRoute(s) PROVE Routed'
  <2>1. routed' <=> routed \/ s \notin aux
    BY <1>2, Zenon DEF WriteRoute, Routes
  <2>2. SUFFICES ASSUME NEW t \in Streams \ (OwnDma \cup aux)',
                        writer'[t] \in {"open", "write"} \/ device'[t] # "closed"
                 PROVE  routed' \/ control'[t] = "routing"
    OBVIOUS
  <2>3. t \in Streams \ (OwnDma \cup aux)
    BY <1>2, <2>2 DEF WriteRoute
  <2>4. CASE t = s
    BY <2>1, <2>3, <2>4
  <2>5. CASE t # s
    <3>1. writer'[t] = writer[t] /\ device'[t] = device[t] /\ control'[t] = control[t]
      BY <1>2, <2>2, <2>5 DEF WriteRoute
    <3> QED BY <2>1, <2>2, <2>3, <3>1
  <2> QED BY <2>4, <2>5
<1>3. ASSUME NEW s \in Streams, WriteOpen(s) PROVE Routed'
  BY <1>3 DEF WriteOpen
<1>4. ASSUME NEW s \in Streams, OpenFails(s) PROVE Routed'
  BY <1>4 DEF OpenFails, Free
<1>5. ASSUME NEW s \in Streams, WriteData(s) PROVE Routed'
  BY <1>5 DEF WriteData, Writing, Usable, Free, Asked, Sent
<1>6. ASSUME NEW s \in Streams, WriteFails(s) PROVE Routed'
  BY <1>6 DEF WriteFails, Writing, Usable, Free
<1>7. ASSUME NEW s \in Streams, SetDevice(s) PROVE Routed'
  BY <1>7 DEF SetDevice, Requested, NeedRouting, Called, Usable, Free
<1>8. ASSUME NEW s \in Streams, Reroute(s) PROVE Routed'
  <2>1. routed' <=> routed \/ s \notin aux
    BY <1>8, Zenon DEF Reroute, Routes
  <2>2. SUFFICES ASSUME NEW t \in Streams \ (OwnDma \cup aux)',
                        writer'[t] \in {"open", "write"} \/ device'[t] # "closed"
                 PROVE  routed' \/ control'[t] = "routing"
    OBVIOUS
  <2>3. t \in Streams \ (OwnDma \cup aux)
    BY <1>8, <2>2 DEF Reroute
  <2>4. CASE t = s
    BY <2>1, <2>3, <2>4
  <2>5. CASE t # s
    <3>1. writer'[t] = writer[t] /\ device'[t] = device[t] /\ control'[t] = control[t]
      BY <1>8, <2>2, <2>5 DEF Reroute
    <3> QED BY <2>1, <2>2, <2>3, <3>1
  <2> QED BY <2>4, <2>5
<1>9. ASSUME NEW s \in Streams, NEW b \in BOOLEAN, Begin(s, b) PROVE Routed'
  BY <1>9 DEF Begin, Usable
<1>10. ASSUME NEW s \in Streams, StandbyAlready(s) PROVE Routed'
  BY <1>10 DEF StandbyAlready, AfterStandby, Free
<1>11. ASSUME NEW s \in Streams, StandbyWaits(s) PROVE Routed'
  BY <1>11 DEF StandbyWaits, Free, MustSync
<1>12. ASSUME NEW s \in Streams, StandbyStops(s) PROVE Routed'
  BY <1>12 DEF StandbyStops, Free, MustSync
<1>13. ASSUME NEW s \in Streams, Unroute(s) PROVE Routed'
  BY <1>13 DEF Unroute, AfterStandby, Active
<1>14. ASSUME NEW s \in Streams, Remove(s) PROVE Routed'
  BY <1>14 DEF Remove, Free
<1>15. ASSUME NEW s \in Streams, OpenStream(s) PROVE Routed'
  BY <1>15 DEF OpenStream, Requested
<1>16. CASE SendExit
  BY <1>16 DEF SendExit, Sent, Free
<1>17. CASE Joined
  BY <1>17 DEF Joined
<1>18. CASE out_pause
  BY <1>18 DEF out_pause, Called, Usable, Free
<1>19. CASE out_resume
  BY <1>19 DEF out_resume, Called, Usable, Free
<1>20. ASSUME NEW m \in Questions, out_drain(m) PROVE Routed'
  BY <1>20 DEF out_drain, Called, Usable, Free, Asked, Sent
<1>21. CASE out_flush
  BY <1>21 DEF out_flush, Called, Usable, Free, Stopped
<1>22. CASE ThreadTurn
  BY <1>22 DEF ThreadTurn, Turn, Free
<1>23. CASE CompressReturns
  BY <1>23 DEF CompressReturns
<1>24. CASE PartialDrained
  BY <1>24 DEF PartialDrained, Stopped, Free
<1>25. CASE ThreadBack
  BY <1>25 DEF ThreadBack, Turn, Free
<1>26. CASE SpuriousWakeup
  BY <1>26 DEF SpuriousWakeup
<1>27. CASE UNCHANGED vars
  BY <1>27 DEF vars
<1> QED
  BY <1>1, <1>2, <1>3, <1>4, <1>5, <1>6, <1>7, <1>8, <1>9, <1>10, <1>11, <1>12, <1>13, <1>14, <1>15, <1>16,
     <1>17, <1>18, <1>19, <1>20, <1>21, <1>22, <1>23, <1>24, <1>25, <1>26, <1>27
  DEF Next, NewCall, WriterStep, ControlStep, ThreadStep, Questions

\* Nothing is asked once EXIT was sent.
LEMMA ExitNext ==
  ASSUME StreamTypes, MessageTypes, WriterActive, Leaving, ExitLast, ThreadLife, [Next]_vars
  PROVE  ExitLast'
<1> USE OffloadStream DEF StreamTypes, ExitLast, NoExit, Leaving, WriterActive
<1>1. ASSUME NEW s \in Streams, WriteReady(s) PROVE ExitLast'
  BY <1>1 DEF WriteReady, Usable, Free
<1>2. ASSUME NEW s \in Streams, WriteRoute(s) PROVE ExitLast'
  BY <1>2 DEF WriteRoute, Routes
<1>3. ASSUME NEW s \in Streams, WriteOpen(s) PROVE ExitLast'
  BY <1>3 DEF WriteOpen
<1>4. ASSUME NEW s \in Streams, OpenFails(s) PROVE ExitLast'
  BY <1>4 DEF OpenFails, Free
<1>5. ASSUME NEW s \in Streams, WriteData(s) PROVE ExitLast'
  <2>0. UNCHANGED offload \/ (s = Offload /\ Asked("WAIT_WRITE"))
    BY <1>5 DEF WriteData
  <2>1. control' = control
    BY <1>5 DEF WriteData, Writing
  <2>2. CASE UNCHANGED offload
    BY <2>1, <2>2
  <2>3. CASE Asked("WAIT_WRITE")
    <3>1. "WAIT_WRITE" \in Questions
      BY DEF Questions
    <3> QED BY <2>1, <2>3, <3>1, AskedNoExit
  <2> QED BY <2>0, <2>2, <2>3
<1>6. ASSUME NEW s \in Streams, WriteFails(s) PROVE ExitLast'
  BY <1>6 DEF WriteFails, Writing, Usable, Free
<1>7. ASSUME NEW s \in Streams, SetDevice(s) PROVE ExitLast'
  BY <1>7 DEF SetDevice, Requested, NeedRouting, Called, Usable, Free
<1>8. ASSUME NEW s \in Streams, Reroute(s) PROVE ExitLast'
  BY <1>8 DEF Reroute, Routes
<1>9. ASSUME NEW s \in Streams, NEW b \in BOOLEAN, Begin(s, b) PROVE ExitLast'
  BY <1>9 DEF Begin, Usable
<1>10. ASSUME NEW s \in Streams, StandbyAlready(s) PROVE ExitLast'
  BY <1>10 DEF StandbyAlready, AfterStandby, Free
<1>11. ASSUME NEW s \in Streams, StandbyWaits(s) PROVE ExitLast'
  BY <1>11 DEF StandbyWaits, Free, MustSync
<1>12. ASSUME NEW s \in Streams, StandbyStops(s) PROVE ExitLast'
  BY <1>12 DEF StandbyStops, Free, MustSync
<1>13. ASSUME NEW s \in Streams, Unroute(s) PROVE ExitLast'
  BY <1>13 DEF Unroute, AfterStandby, Active
<1>14. ASSUME NEW s \in Streams, Remove(s) PROVE ExitLast'
  BY <1>14 DEF Remove, Free
<1>15. ASSUME NEW s \in Streams, OpenStream(s) PROVE ExitLast'
  BY <1>15, MaxMessagesAssumption DEF OpenStream, Requested
<1>16. CASE SendExit
  BY <1>16 DEF SendExit
<1>17. CASE Joined
  BY <1>17, MaxMessagesAssumption DEF Joined, ThreadLife
<1>18. CASE out_pause
  BY <1>18 DEF out_pause, Called, Usable, Free
<1>19. CASE out_resume
  BY <1>19 DEF out_resume, Called, Usable, Free
<1>20. ASSUME NEW m \in Questions, out_drain(m) PROVE ExitLast'
  <2>1. control' = control /\ Asked(m)
    BY <1>20 DEF out_drain
  <2> QED BY <2>1, AskedNoExit
<1>21. CASE out_flush
  BY <1>21 DEF out_flush, Called, Usable, Free, Stopped
<1>22. CASE ThreadTurn
  <2>1. Turn(thread = "top") /\ (thread = "top") \in BOOLEAN /\ owed' \subseteq Questions
    BY <1>22 DEF ThreadTurn, MessageTypes
  <2>2. control'[Offload] # "join" => control[Offload] # "join"
    BY <1>22 DEF ThreadTurn
  <2>3. NoExit => NoExit'
    BY <2>1, TurnKeeps
  <2> QED BY <2>2, <2>3 DEF ExitLast
<1>23. CASE CompressReturns
  BY <1>23 DEF CompressReturns
<1>24. CASE PartialDrained
  BY <1>24 DEF PartialDrained, Stopped, Free
<1>25. CASE ThreadBack
  <2>1. Turn(TRUE) /\ (TRUE) \in BOOLEAN /\ owed' \subseteq Questions
    BY <1>25 DEF ThreadBack, MessageTypes
  <2>2. control'[Offload] # "join" => control[Offload] # "join"
    BY <1>25 DEF ThreadBack
  <2>3. NoExit => NoExit'
    BY <2>1, TurnKeeps
  <2> QED BY <2>2, <2>3 DEF ExitLast
<1>26. CASE SpuriousWakeup
  BY <1>26 DEF SpuriousWakeup
<1>27. CASE UNCHANGED vars
  BY <1>27 DEF vars
<1> QED
  BY <1>1, <1>2, <1>3, <1>4, <1>5, <1>6, <1>7, <1>8, <1>9, <1>10, <1>11, <1>12, <1>13, <1>14, <1>15, <1>16,
     <1>17, <1>18, <1>19, <1>20, <1>21, <1>22, <1>23, <1>24, <1>25, <1>26, <1>27
  DEF Next, NewCall, WriterStep, ControlStep, ThreadStep, Questions

\* A close joins the thread, and opening the stream starts it.
LEMMA LifeNext ==
  ASSUME StreamTypes, MessageTypes, WriterActive, Leaving, ExitLast, ThreadLife, [Next]_vars
  PROVE  ThreadLife'
<1> USE OffloadStream DEF StreamTypes, Leaving, WriterActive, ThreadLife
<1>1. ASSUME NEW s \in Streams, WriteReady(s) PROVE ThreadLife'
  BY <1>1 DEF WriteReady, Usable, Free
<1>2. ASSUME NEW s \in Streams, WriteRoute(s) PROVE ThreadLife'
  BY <1>2 DEF WriteRoute, Routes
<1>3. ASSUME NEW s \in Streams, WriteOpen(s) PROVE ThreadLife'
  BY <1>3 DEF WriteOpen
<1>4. ASSUME NEW s \in Streams, OpenFails(s) PROVE ThreadLife'
  BY <1>4 DEF OpenFails, Free
<1>5. ASSUME NEW s \in Streams, WriteData(s) PROVE ThreadLife'
  <2>1. CASE UNCHANGED offload
    BY <1>5, <2>1 DEF WriteData, Writing
  <2>2. CASE s = Offload /\ Asked("WAIT_WRITE")
    BY <1>5, <2>2 DEF WriteData, Writing, Usable, Asked, Sent
  <2> QED BY <1>5, <2>1, <2>2 DEF WriteData
<1>6. ASSUME NEW s \in Streams, WriteFails(s) PROVE ThreadLife'
  BY <1>6 DEF WriteFails, Writing, Usable, Free
<1>7. ASSUME NEW s \in Streams, SetDevice(s) PROVE ThreadLife'
  BY <1>7 DEF SetDevice, Requested, NeedRouting, Called, Usable, Free
<1>8. ASSUME NEW s \in Streams, Reroute(s) PROVE ThreadLife'
  BY <1>8 DEF Reroute, Routes
<1>9. ASSUME NEW s \in Streams, NEW b \in BOOLEAN, Begin(s, b) PROVE ThreadLife'
  BY <1>9 DEF Begin, Usable
<1>10. ASSUME NEW s \in Streams, StandbyAlready(s) PROVE ThreadLife'
  BY <1>10 DEF StandbyAlready, AfterStandby, Free
<1>11. ASSUME NEW s \in Streams, StandbyWaits(s) PROVE ThreadLife'
  BY <1>11 DEF StandbyWaits, Free, MustSync
<1>12. ASSUME NEW s \in Streams, StandbyStops(s) PROVE ThreadLife'
  BY <1>12 DEF StandbyStops, Free, MustSync
<1>13. ASSUME NEW s \in Streams, Unroute(s) PROVE ThreadLife'
  BY <1>13 DEF Unroute, AfterStandby, Active
<1>14. ASSUME NEW s \in Streams, Remove(s) PROVE ThreadLife'
  BY <1>14 DEF Remove, Free
<1>15. ASSUME NEW s \in Streams, OpenStream(s) PROVE ThreadLife'
  BY <1>15 DEF OpenStream, Requested
<1>16. CASE SendExit
  BY <1>16 DEF SendExit, Sent, Free
<1>17. CASE Joined
  BY <1>17 DEF Joined
<1>18. CASE out_pause
  BY <1>18 DEF out_pause, Called, Usable, Free
<1>19. CASE out_resume
  BY <1>19 DEF out_resume, Called, Usable, Free
<1>20. ASSUME NEW m \in Questions, out_drain(m) PROVE ThreadLife'
  BY <1>20 DEF out_drain, Called, Usable, Free, Asked, Sent
<1>21. CASE out_flush
  BY <1>21 DEF out_flush, Called, Usable, Free, Stopped
<1>22. CASE ThreadTurn
  <2>1. Turn(thread = "top") /\ (thread = "top") \in BOOLEAN /\ thread # "ended"
    BY <1>22 DEF ThreadTurn
  <2>2. UNCHANGED listed /\ (control'[Offload] \in {"idle", "join"} <=> control[Offload] \in {"idle", "join"})
    BY <1>22 DEF ThreadTurn
  <2>3. thread' = "ended" => messages' = <<>> /\ control[Offload] = "join"
    BY <2>1, TurnMeaning DEF MessageTypes, ExitLast, NoExit
  <2>4. control'[Offload] = "idle" => control[Offload] = "idle"
    BY <1>22 DEF ThreadTurn
  <2> QED BY <2>1, <2>2, <2>3, <2>4
<1>23. CASE CompressReturns
  BY <1>23 DEF CompressReturns
<1>24. CASE PartialDrained
  BY <1>24 DEF PartialDrained, Stopped, Free
<1>25. CASE ThreadBack
  <2>1. Turn(TRUE) /\ (TRUE) \in BOOLEAN /\ thread # "ended"
    BY <1>25 DEF ThreadBack
  <2>2. UNCHANGED listed /\ (control'[Offload] \in {"idle", "join"} <=> control[Offload] \in {"idle", "join"})
    BY <1>25 DEF ThreadBack
  <2>3. thread' = "ended" => messages' = <<>> /\ control[Offload] = "join"
    BY <2>1, TurnMeaning DEF MessageTypes, ExitLast, NoExit
  <2>4. control'[Offload] = "idle" => control[Offload] = "idle"
    BY <1>25 DEF ThreadBack
  <2> QED BY <2>1, <2>2, <2>3, <2>4
<1>26. CASE SpuriousWakeup
  BY <1>26 DEF SpuriousWakeup
<1>27. CASE UNCHANGED vars
  BY <1>27 DEF vars
<1> QED
  BY <1>1, <1>2, <1>3, <1>4, <1>5, <1>6, <1>7, <1>8, <1>9, <1>10, <1>11, <1>12, <1>13, <1>14, <1>15, <1>16,
     <1>17, <1>18, <1>19, <1>20, <1>21, <1>22, <1>23, <1>24, <1>25, <1>26, <1>27
  DEF Next, NewCall, WriterStep, ControlStep, ThreadStep, Questions

\* The parts together are inductive.
LEMMA Invariance == Spec => []IInv
<1>1. IInv /\ [Next]_vars => IInv'
  BY StreamTypesNext, MessageTypesNext, LockNext, WriterNext, LeavingNext, OpenNext, RoutedNext,
     ExitNext, LifeNext
  DEF IInv
<1> QED BY InitIInv, <1>1, PTL DEF Spec

-----------------------------------------------------------------------------
\* Type correctness; with it, that the callback thread ends with its stream, and that the message
\* that ends it is the last one.
THEOREM TypeCorrect == Spec => []TypeOK
<1>1. IInv => TypeOK
  BY DEF IInv, TypeOK, StreamTypes, MessageTypes, Messages, ThreadLife
<1> QED BY <1>1, Invariance, PTL

(***************************************************************************)
(* Whatever the streams do, and whenever they do it, the playback path is  *)
(* routed as long as one that plays on it has its device open: a stream    *)
(* sets its status before it routes the path, so that a standby of another *)
(* one, which looks at the status without the stream's lock, leaves the    *)
(* path.  Streams with a DMA of their own, which that look leaves out, and *)
(* streams for AUX_DIGITAL, which do not route, have no relation to it.    *)
(***************************************************************************)
THEOREM RouteKept == Spec => []RoutedWhileOpen
<1>1. IInv => RoutedWhileOpen
  BY DEF IInv, Routed, RoutedWhileOpen
<1> QED BY <1>1, Invariance, PTL
=============================================================================
