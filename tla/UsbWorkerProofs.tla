--------------------------- MODULE UsbWorkerProofs ---------------------------
(***************************************************************************)
(* Proofs about the life of the USB HAL's worker thread, for every set of  *)
(* callbacks and every number of threads.                                  *)
(***************************************************************************)
EXTENDS UsbWorker, TLAPS

(***************************************************************************)
(* The inductive invariant.  A worker that runs is the one setCallback()   *)
(* would stop; a callback is registered only between calls, with a worker  *)
(* that was created for it; and a signal is on its way only while          *)
(* setCallback() waits for the thread it sent it to.                       *)
(***************************************************************************)
OnlyPolled == \A w \in Threads : Alive(w) => w = mPoll

NoCallbackNoWorker == caller = "idle" /\ mCallback = NULL => \A w \in Threads : ~Alive(w)

CallbackHasThread ==
  mCallback # NULL => caller = "idle" /\ mPoll \in Threads /\ destroyThread = FALSE

SignalAwaited == \A w \in signalled : caller = "join" /\ w = mPoll

IInv ==
  TypeOK /\ OnlyPolled /\ NoCallbackNoWorker /\ CallbackHasThread /\ SignalAwaited

USE DEF Alive, Places

\* No callback, no thread, no signal.
LEMMA InitIInv == Init => IInv
BY DEF Init, IInv, TypeOK, OnlyPolled, NoCallbackNoWorker, CallbackHasThread, SignalAwaited

\* Each step of setCallback(), of the threads and of signal delivery keeps it.
LEMMA NextIInv == IInv /\ [Next]_vars => IInv'
<1> SUFFICES ASSUME IInv, [Next]_vars PROVE IInv'
  OBVIOUS
<1> USE CallbacksAssumption
    DEF IInv, TypeOK, OnlyPolled, NoCallbackNoWorker, CallbackHasThread, SignalAwaited
<1>1. ASSUME NEW cb \in Callbacks \cup {NULL}, ReplaceCallback(cb) PROVE IInv'
  BY <1>1 DEF ReplaceCallback
<1>2. ASSUME NEW cb \in Callbacks \cup {NULL}, FirstCallback(cb) PROVE IInv'
  BY <1>2 DEF FirstCallback
<1>3. CASE RemoveCallback
  BY <1>3 DEF RemoveCallback
<1>4. CASE Kill
  BY <1>4 DEF Kill
<1>5. CASE Join
  BY <1>5 DEF Join
<1>6. ASSUME NEW w \in Threads, WorkerStep(w) PROVE IInv'
  BY <1>6 DEF WorkerStep, Start, CheckDestroy, EnterPoll, Handle
<1>7. ASSUME NEW w \in Threads, Deliver(w) PROVE IInv'
  BY <1>7 DEF Deliver
<1>8. ASSUME NEW w \in Threads, Uevent(w) \/ PollFails(w) PROVE IInv'
  BY <1>8 DEF Uevent, PollFails
<1>9. CASE UNCHANGED vars
  BY <1>9 DEF vars
<1> QED BY <1>1, <1>2, <1>3, <1>4, <1>5, <1>6, <1>7, <1>8, <1>9 DEF Next, CallerStep

\* The invariant holds throughout.
LEMMA Invariance == Spec => []IInv
BY InitIInv, NextIInv, PTL DEF Spec

\* setCallback() only ever signals and joins a thread it created (Usb.cpp, setCallback).
THEOREM TypeCorrect == Spec => []TypeOK
<1>1. IInv => TypeOK
  BY DEF IInv
<1> QED BY <1>1, Invariance, PTL

(***************************************************************************)
(* However setCallback() is called, whatever work() fails at and whenever  *)
(* the signal arrives: two workers never run at the same time, and none    *)
(* runs between calls without a callback.                                  *)
(***************************************************************************)
THEOREM SingleWorker == Spec => []OneWorker
<1>1. IInv => OneWorker
  BY DEF IInv, OneWorker, OnlyPolled, NoCallbackNoWorker
<1> QED BY <1>1, Invariance, PTL

\* Neither destroyThread nor a signal outlives the worker it was meant for.
THEOREM FreshWorker == Spec => []NotBornDead
<1>1. IInv => NotBornDead
  BY DEF IInv, NotBornDead, CallbackHasThread, SignalAwaited
<1> QED BY <1>1, Invariance, PTL
=============================================================================
