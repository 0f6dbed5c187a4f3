----------------------------- MODULE SpendingLog -----------------------------
(***************************************************************************)
(* The clock that a velocity control is asked at, and logs of what was     *)
(* spent at which second, to say what the control promises.                *)
(***************************************************************************)
EXTENDS VelocityControl

CONSTANT MaxNow  \* bound: the last second

ASSUME SpendingLogAssumption == MaxNow \in 0..U64Max

VARIABLE now  \* the clock, in seconds

Seconds == 0..MaxNow

Nothing == [t \in Seconds |-> 0]
Log(log, amount) == [log EXCEPT ![now] = @ + amount]

SumIn(log, from, to) == SumFunctionOnSet(log, {t \in Seconds : from <= t /\ t <= to})

\* The longest time within which a control keeps its limit, whenever it begins.
Window == (NumBuckets - 1) * BucketInterval

==============================================================================
