---------------------------- MODULE VelocityControl ----------------------------
(***************************************************************************)
(* A velocity control: how much may be spent per interval of time, counted *)
(* in a fixed number of buckets, as operators on the control's state.      *)
(***************************************************************************)
EXTENDS Integers, FiniteSetsExt, Functions

CONSTANTS
    BucketInterval,  \* the seconds one bucket stands for
    NumBuckets,      \* the number of buckets
    U64Max           \* the largest u64: seconds and amounts wrap or saturate there

ASSUME VelocityControlAssumption ==
    /\ BucketInterval \in Nat \ {0}
    /\ NumBuckets \in Nat \ {0}
    /\ U64Max \in Nat
    /\ U64Max \div BucketInterval >= 2 * NumBuckets

Buckets == 1..NumBuckets

new_with_intervals(limit) ==
    [start_sec |-> 0, buckets |-> [i \in Buckets |-> 0], limit |-> limit]

saturating_add(a, b) == IF a + b > U64Max THEN U64Max ELSE a + b

velocity(c) ==
    LET sum == SumFunctionOnSet(c.buckets, Buckets)
    IN  IF sum > U64Max THEN U64Max ELSE sum

\* Mutant: the start is not moved on with the buckets, which then shift again.
BugStartStays(c, current_sec) ==
    LET elapsed == (current_sec - c.start_sec) % (U64Max + 1)
        nshift == IF elapsed \div BucketInterval > NumBuckets THEN NumBuckets
                  ELSE elapsed \div BucketInterval
    IN  [c EXCEPT !.buckets = [i \in Buckets |-> IF i <= nshift THEN 0 ELSE @[i - nshift]]]

\* Mutant: a long pause leaves the oldest bucket.
BugShiftsOneTooFew(c, current_sec) ==
    LET elapsed == (current_sec - c.start_sec) % (U64Max + 1)
        nshift == IF elapsed \div BucketInterval >= NumBuckets THEN NumBuckets - 1
                  ELSE elapsed \div BucketInterval
    IN  [c EXCEPT !.start_sec = current_sec - (current_sec % BucketInterval),
                  !.buckets = [i \in Buckets |-> IF i <= nshift THEN 0 ELSE @[i - nshift]]]

\* The first half of insert: the buckets move on.  The subtraction wraps (the release
\* build) when the clock is behind start_sec.
Shifted(c, current_sec) ==
    LET elapsed == (current_sec - c.start_sec) % (U64Max + 1)
        nshift == IF elapsed \div BucketInterval > NumBuckets THEN NumBuckets
                  ELSE elapsed \div BucketInterval
    IN  [c EXCEPT !.start_sec = current_sec - (current_sec % BucketInterval),
                  !.buckets = [i \in Buckets |-> IF i <= nshift THEN 0 ELSE @[i - nshift]]]

insert_ok(c, current_sec, amount) ==
    saturating_add(velocity(Shifted(c, current_sec)), amount) <= c.limit

\* The buckets move on even when the amount is refused.
insert(c, current_sec, amount) ==
    LET s == Shifted(c, current_sec) IN
    IF insert_ok(c, current_sec, amount)
    THEN [s EXCEPT !.buckets[1] = saturating_add(@, amount)]
    ELSE s

clear(c) == [c EXCEPT !.buckets = [i \in Buckets |-> 0]]

==============================================================================
