------------------------------ MODULE UsbWorker ------------------------------
(***************************************************************************)
(* The life of the USB HAL's worker thread (usb/Usb.cpp): setCallback()    *)
(* starts it for the first callback and stops it, with SIGUSR1 and a join, *)
(* when the callback is taken away; work() polls the uevent socket until   *)
(* destroyThread is set.                                                   *)
(*                                                                         *)
(* One caller at a time: the HAL's methods are oneway calls on one object. *)
(***************************************************************************)
EXTENDS Naturals, FiniteSets

CONSTANTS
  Callbacks,   \* the callback objects clients may register
  NULL,        \* no callback
  Threads      \* bound: the worker threads that may exist at the same time

ASSUME CallbacksAssumption == NULL \notin Callbacks
ASSUME WorkersAssumption == Threads # {} /\ IsFiniteSet(Threads)

VARIABLES
  mCallback,      \* mCallback_1_0
  mPoll,          \* the thread pthread_create() returned last, or NULL
  destroyThread,  \* set by the signal handler
  locked,         \* setCallback() holds mLock from one step to the next
  caller,         \* where setCallback() is
  wpc,            \* where each worker thread is
  signalled       \* the threads with a SIGUSR1 not yet delivered

vars == <<mCallback, mPoll, destroyThread, locked, caller, wpc, signalled>>

\* "none": never created, or joined; "exited": finished, not joined.
Places == {"none", "start", "check", "poll", "wait", "handle", "exited"}
Alive(w) == wpc[w] \in {"start", "check", "poll", "wait", "handle"}

-----------------------------------------------------------------------------
\* setCallback() with the old and the new callback both null or both not null.
ReplaceCallback(cb) ==
  /\ caller = "idle"
  /\ (mCallback = NULL) = (cb = NULL)
  /\ mCallback' = cb
  /\ UNCHANGED <<mPoll, destroyThread, locked, caller, wpc, signalled>>

\* Mutant: the flag keeps what the previous worker's signal handler wrote.
FirstCallback_StaleFlag(cb) ==
  /\ caller = "idle"
  /\ mCallback = NULL /\ cb # NULL
  /\ \E w \in Threads :
       /\ wpc[w] = "none"
       /\ wpc' = [wpc EXCEPT ![w] = "start"]
       /\ mPoll' = w
  /\ mCallback' = cb
  /\ UNCHANGED <<destroyThread, locked, caller, signalled>>

\* The first callback: a worker is created, or the callback is dropped again.
FirstCallback(cb) ==
  /\ caller = "idle"
  /\ mCallback = NULL /\ cb # NULL
  /\ destroyThread' = FALSE
  /\ \/ \E w \in Threads :
          /\ wpc[w] = "none"
          /\ wpc' = [wpc EXCEPT ![w] = "start"]
          /\ mPoll' = w
          /\ mCallback' = cb
     \/ UNCHANGED <<wpc, mPoll, mCallback>>        \* pthread_create() failed
  /\ UNCHANGED <<locked, caller, signalled>>

\* Mutant: mLock is kept until the worker is gone.
RemoveCallback_Locked ==
  /\ caller = "idle"
  /\ mCallback # NULL
  /\ mCallback' = NULL
  /\ locked' = TRUE
  /\ caller' = "kill"
  /\ UNCHANGED <<mPoll, destroyThread, wpc, signalled>>

\* Mutant: the old callback is not compared with NULL.
RemoveCallback_Unchecked ==
  /\ caller = "idle"
  /\ mCallback' = NULL
  /\ caller' = "kill"
  /\ UNCHANGED <<mPoll, destroyThread, locked, wpc, signalled>>

\* setCallback(NULL): mLock is released before the worker is stopped.
RemoveCallback ==
  /\ caller = "idle"
  /\ mCallback # NULL
  /\ mCallback' = NULL
  /\ caller' = "kill"
  /\ UNCHANGED <<mPoll, destroyThread, locked, wpc, signalled>>

\* Mutant: the thread is signalled and not waited for.
Kill_NoJoin ==
  /\ caller = "kill"
  /\ IF Alive(mPoll) THEN signalled' = signalled \cup {mPoll} ELSE UNCHANGED signalled
  /\ caller' = "idle"
  /\ UNCHANGED <<mCallback, mPoll, destroyThread, locked, wpc>>

\* pthread_kill() may fail for a thread that has finished, which is then never joined.
Kill ==
  /\ caller = "kill"
  /\ \/ /\ Alive(mPoll)
        /\ signalled' = signalled \cup {mPoll}
        /\ caller' = "join"
     \/ /\ ~Alive(mPoll)
        /\ caller' \in {"idle", "join"}
        /\ UNCHANGED signalled
  /\ UNCHANGED <<mCallback, mPoll, destroyThread, locked, wpc>>

Join ==
  /\ caller = "join"
  /\ wpc[mPoll] = "exited"
  /\ wpc' = [wpc EXCEPT ![mPoll] = "none"]
  /\ signalled' = signalled \ {mPoll}
  /\ locked' = FALSE
  /\ caller' = "idle"
  /\ UNCHANGED <<mCallback, mPoll, destroyThread>>

-----------------------------------------------------------------------------
\* sighandler() runs on the signalled thread; epoll_wait() then returns EINTR.
Deliver(w) ==
  /\ w \in signalled
  /\ Alive(w)
  /\ destroyThread' = TRUE
  /\ signalled' = signalled \ {w}
  /\ wpc' = IF wpc[w] = "wait" THEN [wpc EXCEPT ![w] = "check"] ELSE wpc
  /\ UNCHANGED <<mCallback, mPoll, locked, caller>>

\* work() up to its loop: a socket or epoll that cannot be set up ends the thread.
Start(w) ==
  /\ wpc[w] = "start"
  /\ \E next \in {"check", "exited"} : wpc' = [wpc EXCEPT ![w] = next]
  /\ UNCHANGED <<mCallback, mPoll, destroyThread, locked, caller, signalled>>

CheckDestroy(w) ==
  /\ wpc[w] = "check"
  /\ wpc' = [wpc EXCEPT ![w] = IF destroyThread THEN "exited" ELSE "poll"]
  /\ UNCHANGED <<mCallback, mPoll, destroyThread, locked, caller, signalled>>

\* The thread enters epoll_wait(); a signal handled just before goes unnoticed.
EnterPoll(w) ==
  /\ wpc[w] = "poll"
  /\ wpc' = [wpc EXCEPT ![w] = "wait"]
  /\ UNCHANGED <<mCallback, mPoll, destroyThread, locked, caller, signalled>>

\* epoll_wait() returns an event, or fails with something else than EINTR.
Uevent(w) ==
  /\ wpc[w] = "wait"
  /\ wpc' = [wpc EXCEPT ![w] = "handle"]
  /\ UNCHANGED <<mCallback, mPoll, destroyThread, locked, caller, signalled>>

PollFails(w) ==
  /\ wpc[w] = "wait"
  /\ wpc' = [wpc EXCEPT ![w] = "exited"]
  /\ UNCHANGED <<mCallback, mPoll, destroyThread, locked, caller, signalled>>

\* uevent_event() reports the port status under mLock.
Handle(w) ==
  /\ wpc[w] = "handle"
  /\ ~locked
  /\ wpc' = [wpc EXCEPT ![w] = "check"]
  /\ UNCHANGED <<mCallback, mPoll, destroyThread, locked, caller, signalled>>

Init ==
  /\ mCallback = NULL
  /\ mPoll = NULL
  /\ destroyThread = FALSE
  /\ locked = FALSE
  /\ caller = "idle"
  /\ wpc = [w \in Threads |-> "none"]
  /\ signalled = {}

CallerStep == Kill \/ Join
WorkerStep(w) == Start(w) \/ CheckDestroy(w) \/ EnterPoll(w) \/ Handle(w)

Next ==
  \/ \E cb \in Callbacks \cup {NULL} : ReplaceCallback(cb) \/ FirstCallback(cb)
  \/ RemoveCallback
  \/ CallerStep
  \/ \E w \in Threads : WorkerStep(w) \/ Deliver(w) \/ Uevent(w) \/ PollFails(w)

Spec == Init /\ [][Next]_vars

\* Threads that can run are scheduled, signals are delivered; nobody is obliged to send uevents.
FairSpec ==
  /\ Spec
  /\ WF_vars(CallerStep)
  /\ \A w \in Threads : WF_vars(WorkerStep(w)) /\ WF_vars(Deliver(w))

\* A port on which something happens from time to time.
BusyPortSpec == FairSpec /\ \A w \in Threads : WF_vars(Uevent(w))

-----------------------------------------------------------------------------
\* The variables keep to their sets, and setCallback() only ever stops a thread it created.
TypeOK ==
  /\ mCallback \in Callbacks \cup {NULL}
  /\ mPoll \in Threads \cup {NULL}
  /\ destroyThread \in BOOLEAN
  /\ locked \in BOOLEAN
  /\ caller \in {"idle", "kill", "join"}
  /\ caller # "idle" => mPoll \in Threads
  /\ wpc \in [Threads -> Places]
  /\ signalled \subseteq Threads

(***************************************************************************)
(* OneWorker: two workers never read the uevent socket at the same time,   *)
(* and between calls there is none without a callback to report to.        *)
(***************************************************************************)
OneWorker ==
  /\ \A v, w \in Threads : Alive(v) /\ Alive(w) => v = w
  /\ caller = "idle" /\ mCallback = NULL => \A w \in Threads : ~Alive(w)

(***************************************************************************)
(* NotBornDead: a worker started for a new callback is not stopped by the  *)
(* flag or the signal meant for an earlier one.                            *)
(***************************************************************************)
NotBornDead ==
  caller = "idle" /\ mCallback # NULL =>
    /\ ~destroyThread
    /\ \A w \in Threads : Alive(w) => w \notin signalled

\* SetCallbackEnds: setCallback() returns, as long as uevents arrive from time to time.
SetCallbackEnds == caller # "idle" ~> caller = "idle"

=============================================================================
