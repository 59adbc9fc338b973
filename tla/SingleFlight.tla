---------------------------- MODULE SingleFlight ----------------------------
(***************************************************************************)
(* core/locks.py: one caller at a time for a job that talks to somebody    *)
(* else.  The lock is a cache key with a time to live.  A caller adds the  *)
(* key if it is absent, polls while it is not, and gives up after Wait.    *)
(* When its block ends it reads the key and, if it is still its own,       *)
(* deletes it: two calls, between which the key may change hands.  A       *)
(* caller that dies leaves the key to expire.                              *)
(*                                                                         *)
(* WorkLimit is the longest a caller takes from getting the lock to having *)
(* given it back.  For the jobs that make one HTTP call with a 30 s        *)
(* timeout it is below Hold (180 s); nothing in the lock enforces it.      *)
(***************************************************************************)
EXTENDS Integers

CONSTANTS
    Callers,   \* processes that run the block
    NoOne,     \* the key is absent
    Wait,      \* WAIT_SECONDS
    Hold,      \* HOLD_SECONDS
    WorkLimit  \* the longest a block and its release take

ASSUME SingleFlightAssumption ==
    /\ NoOne \notin Callers
    /\ Wait \in Nat /\ Hold \in Nat \ {0} /\ WorkLimit \in Nat

VARIABLES
    lock,   \* the cache key: whose token it holds and its time to live
    caller  \* what each caller is doing, and for how long

lockVars == <<lock, caller>>

----------------------------------------------------------------------------
Free == [holder |-> NoOne, ttl |-> 0]

IdleCaller == [pc |-> "idle", clock |-> 0]

Inside(c) == caller[c].pc = "inside"

\* Between getting the lock and having given it back.
Working(c) == caller[c].pc \in {"inside", "check", "delete"}

LockInit == lock = Free /\ caller = [c \in Callers |-> IdleCaller]

Request(c) ==
    /\ caller[c].pc = "idle"
    /\ caller' = [caller EXCEPT ![c] = [pc |-> "waiting", clock |-> 0]]
    /\ UNCHANGED lock

\* Fault: the key is set whether or not it is there.
Acquire_set(c) ==
    /\ caller[c].pc = "waiting"
    /\ lock' = [holder |-> c, ttl |-> Hold]
    /\ caller' = [caller EXCEPT ![c] = [pc |-> "inside", clock |-> 0]]

\* cache.add stores the token only if the key is absent.
Acquire(c) ==
    /\ caller[c].pc = "waiting"
    /\ lock.holder = NoOne
    /\ lock' = [holder |-> c, ttl |-> Hold]
    /\ caller' = [caller EXCEPT ![c] = [pc |-> "inside", clock |-> 0]]

\* Fault: the deadline is never reached.
GiveUp_never(c) == FALSE /\ UNCHANGED lockVars

GiveUp(c) ==
    /\ caller[c].pc = "waiting" /\ lock.holder # NoOne /\ caller[c].clock >= Wait
    /\ caller' = [caller EXCEPT ![c] = IdleCaller]
    /\ UNCHANGED lock

\* The block ends, normally or with an exception.
LeaveBlock(c) ==
    /\ Inside(c)
    /\ caller' = [caller EXCEPT ![c].pc = "check"]
    /\ UNCHANGED lock

CheckToken(c) ==
    /\ caller[c].pc = "check"
    /\ caller' = [caller EXCEPT ![c] = IF lock.holder = c THEN [@ EXCEPT !.pc = "delete"] ELSE IdleCaller]
    /\ UNCHANGED lock

\* Whatever the key holds by now.
DeleteKey(c) ==
    /\ caller[c].pc = "delete"
    /\ lock' = Free
    /\ caller' = [caller EXCEPT ![c] = IdleCaller]

Crash(c) ==
    /\ caller[c].pc # "idle"
    /\ caller' = [caller EXCEPT ![c] = IdleCaller]
    /\ UNCHANGED lock

\* A waiter polls ten times a second, so it does not sleep past its deadline.
PassTime ==
    /\ \A c \in Callers : /\ Working(c) => caller[c].clock < WorkLimit
                          /\ caller[c].pc = "waiting" => caller[c].clock < Wait
    /\ caller' = [c \in Callers |-> IF caller[c].pc = "idle" THEN caller[c]
                                    ELSE [caller[c] EXCEPT !.clock = @ + 1]]
    /\ lock' = CASE lock.ttl > 1 -> [lock EXCEPT !.ttl = @ - 1]
                 [] lock.ttl = 1 -> Free
                 [] OTHER -> lock

LockNext ==
    \/ PassTime
    \/ \E c \in Callers : \/ Request(c) \/ Acquire(c) \/ GiveUp(c) \/ LeaveBlock(c)
                          \/ CheckToken(c) \/ DeleteKey(c) \/ Crash(c)

LockSpec == LockInit /\ [][LockNext]_lockVars

----------------------------------------------------------------------------
(* Correctness.                                                             *)

\* The key and the callers' clocks stay within their limits.
LockTypeOK ==
    /\ lock \in [holder : Callers \cup {NoOne}, ttl : 0..Hold]
    /\ lock.holder = NoOne <=> lock.ttl = 0
    /\ caller \in [Callers -> [pc : {"idle", "waiting", "inside", "check", "delete"}, clock : Nat]]

\* "Only one caller at a time runs the block": also when holders die, keys
\* expire, and a late holder deletes a key without looking again.
Exclusive == \A b, c \in Callers : Inside(b) /\ Inside(c) => b = c

\* A caller that waits gets in or is told, also when the holder died.
WaitersAreAnswered == \A c \in Callers : caller[c].pc = "waiting" ~> caller[c].pc # "waiting"
=============================================================================
