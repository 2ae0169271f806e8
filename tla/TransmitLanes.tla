---------------------------- MODULE TransmitLanes ----------------------------
(***************************************************************************)
(* What the radio scheduler promises its producers: every class of frames  *)
(* is a FIFO lane.  An accepted frame is sent fragment by fragment from    *)
(* the head of its lane, no frame of the lane passes it, and it leaves     *)
(* after its last fragment or when it is given up.  Closing empties the    *)
(* lanes for good.                                                         *)
(***************************************************************************)
EXTENDS Naturals, Sequences

CONSTANTS
  Classes, Batches,
  Sizes    \* the fragments a frame may have

VARIABLES
  lane,   \* class -> sequence of [batch, left]
  open

laneVars == <<lane, open>>

InLane(b) == \E c \in Classes : \E i \in DOMAIN lane[c] : lane[c][i].batch = b

Init ==
  /\ lane = [c \in Classes |-> <<>>]
  /\ open = TRUE

Accept(c, b) ==
  /\ open
  /\ ~InLane(b)
  /\ \E n \in Sizes : lane' = [lane EXCEPT ![c] = Append(@, [batch |-> b, left |-> n])]
  /\ UNCHANGED open

Sent(entries) ==
  LET head == Head(entries) IN
  IF head.left = 1
  THEN Tail(entries)
  ELSE <<[batch |-> head.batch, left |-> head.left - 1]>> \o Tail(entries)

Transmit(c) ==
  /\ open
  /\ lane[c] # <<>>
  /\ lane' = [lane EXCEPT ![c] = Sent(@)]
  /\ UNCHANGED open

GiveUpHead(c) ==
  /\ open
  /\ lane[c] # <<>>
  /\ lane' = [lane EXCEPT ![c] = Tail(@)]
  /\ UNCHANGED open

Shut ==
  /\ open
  /\ open' = FALSE
  /\ lane' = [c \in Classes |-> <<>>]

Next ==
  \/ \E c \in Classes, b \in Batches : Accept(c, b)
  \/ \E c \in Classes : Transmit(c) \/ GiveUpHead(c)
  \/ Shut

Spec == Init /\ [][Next]_laneVars
=============================================================================
