---------------------------- MODULE FrameChannel ----------------------------
(***************************************************************************)
(* What core/FrameQueue promises its two users, with no ring, no slots, no *)
(* lock and no condition variables: a bounded first-in first-out channel   *)
(* that can be closed, refuses frames from then on, and is drained before  *)
(* its reader is told that it ended.  FrameQueue implements it.            *)
(***************************************************************************)
EXTENDS Integers, Sequences

CONSTANTS
    Frame,      \* the frames a producer may offer
    Bound,      \* the number of frames the channel holds
    MaxPuts     \* bound: frames accepted in one behaviour

VARIABLES
    pending,    \* frames accepted and not yet handed out, oldest first
    output,     \* frames handed out, oldest first
    isClosed,   \* the channel was closed
    isEnded     \* the reader was told the channel is closed and drained

channelVars == <<pending, output, isClosed, isEnded>>

Init ==
    /\ pending = <<>>
    /\ output = <<>>
    /\ isClosed = FALSE
    /\ isEnded = FALSE

\* A frame is accepted: only an open channel with room takes one.
Send(f) ==
    /\ ~isClosed
    /\ Len(pending) < Bound
    /\ Len(pending) + Len(output) < MaxPuts
    /\ pending' = Append(pending, f)
    /\ UNCHANGED <<output, isClosed, isEnded>>

\* The oldest frame is handed out, from an open or a closed channel.
Receive ==
    /\ pending # <<>>
    /\ pending' = Tail(pending)
    /\ output' = Append(output, Head(pending))
    /\ UNCHANGED <<isClosed, isEnded>>

Close ==
    /\ isClosed' = TRUE
    /\ UNCHANGED <<pending, output, isEnded>>

\* The reader learns that nothing will ever come: closed, and drained.
End ==
    /\ isClosed
    /\ pending = <<>>
    /\ isEnded' = TRUE
    /\ UNCHANGED <<pending, output, isClosed>>

Next ==
    \/ \E f \in Frame : Send(f)
    \/ Receive
    \/ Close
    \/ End

Spec == Init /\ [][Next]_channelVars
=============================================================================
