------------------------------- MODULE Monitor -------------------------------
(***************************************************************************)
(* engine/Monitor, the preview: the pipeline's worker offers it frames, a  *)
(* monitoring thread of its own lends one buffer of the renderer at a time *)
(* and delivers it filled, and the engine thread destroys it when the      *)
(* worker is gone.  The renderer takes as long as it likes, until its      *)
(* graph is stopped.                                                       *)
(***************************************************************************)
EXTENDS Naturals

CONSTANT
    MaxFrames   \* bound: frames that the worker has

ASSUME MonitorAssumption == MaxFrames \in Nat

VARIABLES
    frame,      \* the worker's current frame
    worker,     \* where it is in HandleFrame, or that it has been joined
    thread,     \* where the monitoring thread is
    mutex,      \* who holds m_mutex
    sample,     \* m_sample # nullptr
    filled,     \* m_sampleFilled
    content,    \* the frame in the buffer the monitoring thread has got; 0 is
                \* what the renderer left there
    displayed,  \* history: the last frame delivered
    graph,      \* "running" or "stopped"
    destructor  \* where ~CMonitor is, or "none"

monitorVars == <<frame, worker, thread, mutex, sample, filled, content,
                 displayed, graph, destructor>>

stopRequested == destructor # "none"

\* What CreateMonitor leaves when the preview could be built.
MonitorInit ==
    /\ frame = 0 /\ worker = "loop"
    /\ thread = "test" /\ mutex = "nobody"
    /\ sample = FALSE /\ filled = FALSE /\ content = 0
    /\ displayed = 0
    /\ graph = "running" /\ destructor = "none"

-----------------------------------------------------------------------------
(* The worker: HandleFrame                                                 *)

\* The next frame, which is offered while the queue drains comfortably.
NextFrame ==
    /\ worker = "loop" /\ frame < MaxFrames
    /\ frame' = frame + 1
    /\ worker' \in {"loop", "offers"}
    /\ UNCHANGED <<thread, mutex, sample, filled, content, displayed, graph,
                   destructor>>

\* With the lock: is there a buffer to fill?
Offer ==
    /\ worker = "offers" /\ mutex = "nobody"
    /\ IF sample /\ ~filled
         THEN worker' = "copies" /\ mutex' = "worker"
         ELSE worker' = "loop" /\ UNCHANGED mutex
    /\ UNCHANGED <<frame, thread, sample, filled, content, displayed, graph,
                   destructor>>

Copy ==
    /\ worker = "copies"
    /\ content' = frame
    /\ filled' = TRUE
    /\ worker' = "notifies" /\ mutex' = "nobody"
    /\ UNCHANGED <<frame, thread, sample, displayed, graph, destructor>>

\* The frame does not fit, or the buffer has no memory.
CopyFails ==
    /\ worker = "copies"
    /\ worker' = "loop" /\ mutex' = "nobody"
    /\ UNCHANGED <<frame, thread, sample, filled, content, displayed, graph,
                   destructor>>

Notify ==
    /\ worker = "notifies"
    /\ worker' = "loop"
    /\ thread' = IF thread = "waits" THEN "wakes" ELSE thread
    /\ UNCHANGED <<frame, mutex, sample, filled, content, displayed, graph,
                   destructor>>

-----------------------------------------------------------------------------
(* The monitoring thread                                                   *)

Goes(from, to) == thread = from /\ thread' = to

Test ==
    /\ thread = "test"
    /\ thread' = IF stopRequested THEN "ended" ELSE "getsBuffer"
    /\ UNCHANGED <<frame, worker, mutex, sample, filled, content, displayed,
                   graph, destructor>>

\* The renderer has a buffer for it, with whatever is in it.
GetDeliveryBuffer ==
    /\ Goes("getsBuffer", "paces") /\ graph = "running"
    /\ content' = 0
    /\ UNCHANGED <<frame, worker, mutex, sample, filled, displayed, graph,
                   destructor>>

\* The allocator is decommitted, or failed for another reason.
GetDeliveryBufferFails ==
    /\ Goes("getsBuffer", "backsOff")
    /\ UNCHANGED <<frame, worker, mutex, sample, filled, content, displayed,
                   graph, destructor>>

\* sleepFor: the time is over, or the stop was requested.
Slept ==
    /\ Goes("backsOff", "test") \/ Goes("paces", "lends")
    /\ UNCHANGED <<frame, worker, mutex, sample, filled, content, displayed,
                   graph, destructor>>

\* Faulty: the flag of the buffer before is left.
LendFilled ==
    /\ thread = "lends" /\ mutex = "nobody"
    /\ sample' = TRUE
    /\ thread' = IF filled \/ stopRequested THEN "takes" ELSE "waits"
    /\ mutex' = IF filled \/ stopRequested THEN "thread" ELSE "nobody"
    /\ UNCHANGED <<frame, worker, filled, content, displayed, graph,
                   destructor>>

\* With the lock: the buffer is lent, and the wait begins, if it need not end.
Lend ==
    /\ thread = "lends" /\ mutex = "nobody"
    /\ sample' = TRUE /\ filled' = FALSE
    /\ thread' = IF stopRequested THEN "takes" ELSE "waits"
    /\ mutex' = IF stopRequested THEN "thread" ELSE "nobody"
    /\ UNCHANGED <<frame, worker, content, displayed, graph, destructor>>

\* The wait returns with the lock, when there is something to return for.
Wake ==
    /\ thread = "wakes" /\ mutex = "nobody"
    /\ IF filled \/ stopRequested
         THEN thread' = "takes" /\ mutex' = "thread"
         ELSE thread' = "waits" /\ UNCHANGED mutex
    /\ UNCHANGED <<frame, worker, sample, filled, content, displayed, graph,
                   destructor>>

\* Faulty: the buffer is delivered under the lock.
TakeLocked ==
    /\ thread = "takes"
    /\ sample' = FALSE
    /\ thread' = IF filled THEN "delivers" ELSE "ended"
    /\ mutex' = IF filled THEN mutex ELSE "nobody"
    /\ UNCHANGED <<frame, worker, filled, content, displayed, graph,
                   destructor>>

\* The buffer is taken back, and the lock given up.
Take ==
    /\ thread = "takes"
    /\ sample' = FALSE
    /\ thread' = IF filled THEN "delivers" ELSE "ended"
    /\ mutex' = "nobody"
    /\ UNCHANGED <<frame, worker, filled, content, displayed, graph,
                   destructor>>

Deliver ==
    /\ Goes("delivers", "rendered")
    /\ displayed' = content
    /\ UNCHANGED <<frame, worker, mutex, sample, filled, content, graph,
                   destructor>>

\* The renderer returns from Deliver.
Rendered ==
    /\ Goes("rendered", "test")
    /\ mutex' = IF mutex = "thread" THEN "nobody" ELSE mutex
    /\ UNCHANGED <<frame, worker, sample, filled, content, displayed, graph,
                   destructor>>

-----------------------------------------------------------------------------
(* The engine thread: DVEngine::Destroy has joined the worker              *)

Destroy ==
    /\ destructor = "none" /\ worker = "loop"
    /\ worker' = "joined"
    /\ destructor' = "requested"
    /\ thread' = IF thread = "waits" THEN "wakes" ELSE thread
    /\ UNCHANGED <<frame, mutex, sample, filled, content, displayed, graph>>

\* Faulty: the thread is joined before its graph is stopped.
StopLast ==
    /\ destructor = "requested" /\ thread = "ended"
    /\ graph' = "stopped"
    /\ destructor' = "stopped"
    /\ UNCHANGED <<frame, worker, thread, mutex, sample, filled, content,
                   displayed>>

\* IMediaControl::Stop.
Stop ==
    /\ destructor = "requested"
    /\ graph' = "stopped"
    /\ destructor' = "stopped"
    /\ UNCHANGED <<frame, worker, thread, mutex, sample, filled, content,
                   displayed>>

Join ==
    /\ destructor = "stopped" /\ thread = "ended"
    /\ destructor' = "done"
    /\ UNCHANGED <<frame, worker, thread, mutex, sample, filled, content,
                   displayed, graph>>

-----------------------------------------------------------------------------

WorkerStep == NextFrame \/ Offer \/ Copy \/ CopyFails \/ Notify
\* What the monitoring thread does without the renderer.
ThreadStep ==
    \/ Test \/ Slept \/ Lend \/ Wake \/ Take \/ Deliver
    \/ graph = "stopped" /\ (GetDeliveryBufferFails \/ Rendered)
DestructorStep == Stop \/ Join

MonitorNext ==
    \/ WorkerStep \/ ThreadStep \/ Destroy \/ DestructorStep
    \/ GetDeliveryBuffer \/ GetDeliveryBufferFails \/ Rendered

MonitorSpec == MonitorInit /\ [][MonitorNext]_monitorVars

\* Threads run, and stopping a graph releases who waits for its renderer;
\* nothing else is expected of the renderer, and nobody need destroy.
FairMonitorSpec ==
    /\ MonitorSpec
    /\ WF_monitorVars(Offer \/ Copy \/ CopyFails \/ Notify)
    /\ SF_monitorVars(Offer)
    /\ WF_monitorVars(ThreadStep)
    /\ WF_monitorVars(DestructorStep)

-----------------------------------------------------------------------------
(* Properties                                                              *)

\* Every variable keeps to its values, and m_mutex is held where the code has
\* it locked, and nowhere else.
MonitorTypeOK ==
    /\ frame \in 0..MaxFrames /\ content \in 0..frame
    /\ displayed \in 0..frame
    /\ worker \in {"loop", "offers", "copies", "notifies", "joined"}
    /\ thread \in {"test", "getsBuffer", "backsOff", "paces", "lends",
                   "waits", "wakes", "takes", "delivers", "rendered", "ended"}
    /\ mutex = IF worker = "copies" THEN "worker"
               ELSE IF thread = "takes" THEN "thread" ELSE "nobody"
    /\ sample \in BOOLEAN /\ filled \in BOOLEAN
    /\ graph \in {"running", "stopped"}
    /\ destructor \in {"none", "requested", "stopped", "done"}

\* The worker fills a buffer only while it is lent (Monitor.h:33, "empty buffer
\* waiting for a frame"), and what is delivered was filled, with a frame that
\* is later than the one before.
BufferHandedOver ==
    /\ worker = "copies" => sample /\ thread \in {"waits", "wakes"}
    /\ thread = "delivers" => content > displayed

\* "preview never slows capture" (Monitor.h:8): an offer comes back though the
\* renderer never does.
OfferReturns ==
    worker \in {"offers", "copies", "notifies"} ~> worker = "loop"

\* "Stopping the graph decommits the allocator, which releases the thread"
\* (Monitor.cpp:63): wherever the monitoring thread is, the destructor returns.
DestroyReturns == destructor = "requested" ~> destructor = "done"
=============================================================================
