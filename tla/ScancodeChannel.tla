-------------------------- MODULE ScancodeChannel --------------------------
(***************************************************************************)
(* What the keyboard path promises its user: a bounded first-in first-out  *)
(* channel from the keyboard to the task that prints.  A key press is      *)
(* either accepted or, when the channel is not open yet or is full,        *)
(* dropped; accepted presses are delivered in order, each exactly once.    *)
(* Presses are numbered, which makes order, loss and duplication visible.  *)
(* The channel may go down with a press (the kernel panics); nothing is    *)
(* accepted or delivered after that.                                       *)
(***************************************************************************)
EXTENDS Naturals, Sequences

CONSTANTS Capacity, MaxPresses

VARIABLES pressed, open, pending, delivered, down

chan == <<pressed, open, pending, delivered, down>>

ChanInit ==
    /\ pressed = 0
    /\ open = FALSE
    /\ pending = <<>>
    /\ delivered = <<>>
    /\ down = FALSE

Open ==
    /\ ~down /\ ~open
    /\ open' = TRUE
    /\ UNCHANGED <<pressed, pending, delivered, down>>

Accept ==
    /\ ~down /\ open
    /\ pressed < MaxPresses
    /\ pressed' = pressed + 1
    /\ pending' = Append(pending, pressed')
    /\ down' \in BOOLEAN
    /\ UNCHANGED <<open, delivered>>

Drop ==
    /\ ~down
    /\ pressed < MaxPresses
    /\ ~open \/ Len(pending) >= Capacity
    /\ pressed' = pressed + 1
    /\ UNCHANGED <<open, pending, delivered, down>>

Deliver ==
    /\ ~down
    /\ pending # <<>>
    /\ delivered' = Append(delivered, Head(pending))
    /\ pending' = Tail(pending)
    /\ UNCHANGED <<pressed, open, down>>

ChanNext == Open \/ Accept \/ Drop \/ Deliver

ChanSpec == ChanInit /\ [][ChanNext]_chan

(* Every accepted press is delivered, unless the channel goes down. *)
ChanDelivery ==
    \A n \in 1 .. MaxPresses :
        (Len(delivered) + Len(pending) >= n) ~> (Len(delivered) >= n \/ down)
=============================================================================
