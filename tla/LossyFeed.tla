----------------------------- MODULE LossyFeed -----------------------------
(***************************************************************************)
(* What the readers of a websocket are promised: messages, numbered as     *)
(* they are received, are taken in that order and each at most once; the   *)
(* newest one is always kept; the oldest are lost only when as many as     *)
(* fit are waiting, or when the feed is closed.                            *)
(***************************************************************************)
EXTENDS Naturals, Sequences

CONSTANT Capacity \* how many messages may wait

VARIABLES
    received, \* how many messages were received
    pending,  \* the messages that wait
    closed    \* nothing is received any more

vars == <<received, pending, closed>>

Init ==
    /\ received = 0
    /\ pending = << >>
    /\ closed = FALSE

Receive ==
    /\ ~closed
    /\ received' = received + 1
    /\ \E lost \in 0..Len(pending) :
          /\ (lost = 0) = (Len(pending) < Capacity)
          /\ pending' = Append(SubSeq(pending, lost + 1, Len(pending)), received + 1)
    /\ UNCHANGED closed

Take ==
    /\ pending # << >>
    /\ pending' = Tail(pending)
    /\ UNCHANGED <<received, closed>>

Close ==
    /\ ~closed
    /\ closed' = TRUE
    /\ pending' = << >>
    /\ UNCHANGED received

Next == Receive \/ Take \/ Close

Spec == Init /\ [][Next]_vars
=============================================================================
