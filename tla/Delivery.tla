------------------------------ MODULE Delivery ------------------------------
(***************************************************************************)
(* What the portal promises about an order, without workers, queues,       *)
(* retries, holds or crashes: goods are made only while the order is being *)
(* worked on and only once its invoice is settled, each line's goods are   *)
(* made at most once, and the order is delivered when every line is ready. *)
(* Delivered and closed orders stay so.                                    *)
(***************************************************************************)
CONSTANTS
    Lines,      \* the order's lines
    NeedsGoods  \* the lines that stand for a hosting account or a domain

VARIABLES
    stage,    \* "waiting", "working", "delivered" or "closed"
    settled,  \* the order's invoice is settled
    made,     \* lines whose goods have been made
    ready     \* lines that are delivered

vars == <<stage, settled, made, ready>>

Settle == ~settled /\ settled' = TRUE /\ UNCHANGED <<stage, made, ready>>

Start == stage = "waiting" /\ settled /\ stage' = "working" /\ UNCHANGED <<settled, made, ready>>

Make(n) ==
    /\ stage = "working" /\ n \in NeedsGoods \ made
    /\ made' = made \cup {n}
    /\ UNCHANGED <<stage, settled, ready>>

Ready(n) ==
    /\ stage = "working" /\ n \notin ready
    /\ n \in NeedsGoods => n \in made
    /\ ready' = ready \cup {n}
    /\ UNCHANGED <<stage, settled, made>>

Finish == stage = "working" /\ ready = Lines /\ stage' = "delivered" /\ UNCHANGED <<settled, made, ready>>

GiveUp == stage = "working" /\ stage' = "waiting" /\ UNCHANGED <<settled, made, ready>>

Close == stage = "waiting" /\ stage' = "closed" /\ UNCHANGED <<settled, made, ready>>

Init == stage = "waiting" /\ ~settled /\ made = {} /\ ready = {}

Next == Settle \/ Start \/ Finish \/ GiveUp \/ Close \/ \E n \in Lines : Make(n) \/ Ready(n)

Spec == Init /\ [][Next]_vars
=============================================================================
