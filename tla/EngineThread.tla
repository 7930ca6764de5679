---------------------------- MODULE EngineThread ----------------------------
(***************************************************************************)
(* native/EngineThread, with the windv_engine that owns it and the DvEngine*)
(* of the front end: calls that thread pool threads make through Invoke,   *)
(* preview sizes the UI thread posts, and Dispose on the UI thread, which  *)
(* destroys the DVEngine on the engine thread and then ends that thread.   *)
(*                                                                         *)
(* A task may send a message to a window of the UI thread, as DirectShow's *)
(* renderer does, and then waits for that thread to handle it.  The thread *)
(* looks at its queue at least every 200 ms, so m_wake only saves time and *)
(* is not modelled.  What a call does to the pipeline is not looked at.    *)
(***************************************************************************)
EXTENDS Naturals, Sequences, SequencesExt

CONSTANTS
    Calls,          \* calls of the API, one on each thread pool thread
    MaxPosts        \* bound: sizes posted

Reset == "reset"    \* the task that destroys the DVEngine
Resize == "resize"  \* the task that fits the preview to its window

ASSUME ThreadAssumption ==
    /\ MaxPosts \in Nat
    /\ Reset \notin Calls /\ Resize \notin Calls

VARIABLES
    tasks,          \* m_tasks
    stop,           \* stop was requested
    engine,         \* m_engine is not null
    thr, task,      \* the engine thread's place in Run; the task it runs
    call,           \* each call's place
    done,           \* the tasks whose "done" event is set
    ui,             \* the UI thread's place in Dispose
    posts,          \* count of sizes posted, for its bound
    \* history
    late            \* calls queued behind the task that destroys the DVEngine

vars == <<tasks, stop, engine, thr, task, call, done, ui, posts, late>>

Init ==
    /\ tasks = <<>> /\ stop = FALSE /\ engine = TRUE
    /\ thr = "take" /\ task = Resize
    /\ call = [c \in Calls |-> "none"]
    /\ done = {}
    /\ ui = "idle" /\ posts = 0
    /\ late = {}

-----------------------------------------------------------------------------
(* Calls: DvEngine.Run on the UI thread, Invoke and Post on a pool thread  *)

\* Run copies the handle and queues the call on the thread pool.
Launch(c) ==
    /\ ui = "idle"
    /\ call[c] = "none"
    /\ call' = [call EXCEPT ![c] = "launched"]
    /\ UNCHANGED <<tasks, stop, engine, thr, task, done, ui, posts, late>>

\* Invoke, once stop was requested, runs the task on the thread it is on.
InvokeTest(c) ==
    /\ call[c] = "launched"
    /\ call' = [call EXCEPT ![c] = IF stop THEN "direct" ELSE "post"]
    /\ UNCHANGED <<tasks, stop, engine, thr, task, done, ui, posts, late>>

InvokeDirect(c) ==
    /\ call[c] = "direct"
    /\ call' = [call EXCEPT ![c] = "returned"]
    /\ UNCHANGED <<tasks, stop, engine, thr, task, done, ui, posts, late>>

\* Post tests for stop once more, and drops the task then.
PostTest(c) ==
    /\ call[c] = "post"
    /\ call' = [call EXCEPT ![c] = IF stop THEN "waiting" ELSE "push"]
    /\ UNCHANGED <<tasks, stop, engine, thr, task, done, ui, posts, late>>

PostPush(c) ==
    /\ call[c] = "push"
    /\ tasks' = Append(tasks, c)
    /\ late' = IF ui \in {"idle", "invoke"} THEN late ELSE late \cup {c}
    /\ call' = [call EXCEPT ![c] = "waiting"]
    /\ UNCHANGED <<stop, engine, thr, task, done, ui, posts>>

InvokeReturn(c) ==
    /\ call[c] = "waiting"
    /\ c \in done
    /\ call' = [call EXCEPT ![c] = "returned"]
    /\ UNCHANGED <<tasks, stop, engine, thr, task, done, ui, posts, late>>

-----------------------------------------------------------------------------
(* The UI thread: PreviewProc, and Dispose, which is windv_destroy         *)

PreviewSize ==
    /\ ui = "idle"
    /\ posts < MaxPosts
    /\ posts' = posts + 1
    /\ tasks' = Append(tasks, Resize)
    /\ UNCHANGED <<stop, engine, thr, task, call, done, ui, late>>

Dispose ==
    /\ ui = "idle"
    /\ ui' = "invoke"
    /\ UNCHANGED <<tasks, stop, engine, thr, task, call, done, posts, late>>

\* Faulty: the thread is stopped, and the DVEngine left to its destructor.
DisposeUninvoked ==
    /\ ui = "invoke"
    /\ ui' = "stop"
    /\ UNCHANGED <<tasks, stop, engine, thr, task, call, done, posts, late>>

\* Invoke: this thread has windows, so it handles sent messages as it waits.
DisposeInvoke ==
    /\ ui = "invoke"
    /\ tasks' = Append(tasks, Reset)
    /\ ui' = "pump"
    /\ UNCHANGED <<stop, engine, thr, task, call, done, posts, late>>

DisposeInvoked ==
    /\ ui = "pump"
    /\ Reset \in done
    /\ ui' = "stop"
    /\ UNCHANGED <<tasks, stop, engine, thr, task, call, done, posts, late>>

DisposeStop ==
    /\ ui = "stop"
    /\ stop' = TRUE
    /\ ui' = "join"
    /\ UNCHANGED <<tasks, engine, thr, task, call, done, posts, late>>

DisposeJoin ==
    /\ ui = "join"
    /\ thr = "gone"
    /\ ui' = "over"
    /\ UNCHANGED <<tasks, stop, engine, thr, task, call, done, posts, late>>

-----------------------------------------------------------------------------
(* The engine thread: Run                                                  *)

RunTake ==
    /\ thr = "take"
    /\ IF tasks = <<>>
       THEN thr' = "test" /\ UNCHANGED <<tasks, task>>
       ELSE task' = Head(tasks) /\ tasks' = Tail(tasks) /\ thr' = "run"
    /\ UNCHANGED <<stop, engine, call, done, ui, posts, late>>

\* With an engine, the task may need the UI thread to handle a message.
RunTask ==
    /\ thr = "run"
    /\ thr' \in IF engine THEN {"send", "finish"} ELSE {"finish"}
    /\ UNCHANGED <<tasks, stop, engine, task, call, done, ui, posts, late>>

\* Faulty: the UI thread waits for Invoke without handling messages.
SendHandledWhenIdle ==
    /\ thr = "send"
    /\ ui = "idle"
    /\ thr' = "finish"
    /\ UNCHANGED <<tasks, stop, engine, task, call, done, ui, posts, late>>

SendHandled ==
    /\ thr = "send"
    /\ ui \in {"idle", "pump"}
    /\ thr' = "finish"
    /\ UNCHANGED <<tasks, stop, engine, task, call, done, ui, posts, late>>

\* Faulty: an exception of the call gets past SetEvent.
RunFinishThrows ==
    /\ thr = "finish"
    /\ engine' = (engine /\ task # Reset)
    /\ done' \in {done, done \cup ({task} \ {Resize})}
    /\ thr' = "take"
    /\ UNCHANGED <<tasks, stop, task, call, ui, posts, late>>

\* Faulty: a posted task signals too, an event that nobody made.
RunFinishSignals ==
    /\ thr = "finish"
    /\ engine' = (engine /\ task # Reset)
    /\ done' = done \cup {task}
    /\ thr' = "take"
    /\ UNCHANGED <<tasks, stop, task, call, ui, posts, late>>

\* The tasks of Invoke set their event; a posted one has none.
RunFinish ==
    /\ thr = "finish"
    /\ engine' = (engine /\ task # Reset)
    /\ done' = done \cup ({task} \ {Resize})
    /\ thr' = "take"
    /\ UNCHANGED <<tasks, stop, task, call, ui, posts, late>>

RunTest ==
    /\ thr = "test"
    /\ thr' = IF stop THEN "gone" ELSE "wait"
    /\ UNCHANGED <<tasks, stop, engine, task, call, done, ui, posts, late>>

\* Messages are dispatched, the tick runs, and the wait ends.
RunWait ==
    /\ thr = "wait"
    /\ thr' = "take"
    /\ UNCHANGED <<tasks, stop, engine, task, call, done, ui, posts, late>>

-----------------------------------------------------------------------------

CallStep(c) ==
    \/ InvokeTest(c) \/ InvokeDirect(c) \/ PostTest(c) \/ PostPush(c)
    \/ InvokeReturn(c)

UIStep == DisposeInvoke \/ DisposeInvoked \/ DisposeStop \/ DisposeJoin

\* The program goes on without the engine.
Over == ui = "over" /\ UNCHANGED vars

RunStep ==
    \/ RunTake \/ RunTask \/ SendHandled \/ RunFinish \/ RunTest \/ RunWait

Next ==
    \/ \E c \in Calls : Launch(c) \/ CallStep(c)
    \/ PreviewSize \/ Dispose \/ UIStep
    \/ RunStep
    \/ Over

Spec == Init /\ [][Next]_vars

(***************************************************************************)
(* The pool threads, the UI thread inside Dispose and the engine thread    *)
(* run on as long as they can.                                             *)
(***************************************************************************)
FairSpec ==
    /\ Spec
    /\ \A c \in Calls : WF_vars(CallStep(c))
    /\ WF_vars(UIStep)
    /\ WF_vars(RunStep)

-----------------------------------------------------------------------------
(* Properties                                                              *)

TypeOK ==
    /\ tasks \in Seq(Calls \cup {Reset, Resize})
    /\ stop \in BOOLEAN /\ engine \in BOOLEAN
    /\ thr \in {"take", "run", "send", "finish", "test", "wait", "gone"}
    /\ task \in Calls \cup {Reset, Resize}
    /\ call \in [Calls -> {"none", "launched", "direct", "post", "push",
                           "waiting", "returned"}]
    /\ done \subseteq Calls \cup {Reset}
    /\ ui \in {"idle", "invoke", "pump", "stop", "join", "over"}
    /\ posts \in 0 .. MaxPosts
    /\ late \subseteq Calls

\* "created, used and destroyed on m_thread" (NativeApi.cpp:114): Invoke runs
\* a task on another thread only once the DVEngine is gone.
EngineOnItsThread == \A c \in Calls : call[c] = "direct" => ~engine

\* What was queued before Dispose has run when the DVEngine is gone: no call
\* that came first is told that the engine is not running.
QueuedBeforeResetRan == ~engine => ToSet(tasks) \subseteq late

\* Dispose returns, whatever is queued and even though tasks wait for the
\* thread it is called on.
DisposeReturns == ui = "invoke" ~> ui = "over"

\* A call returns as long as the thread is not told to end.
CallReturns ==
    \A c \in Calls : call[c] = "waiting" ~> (call[c] = "returned" \/ stop)
=============================================================================
