------------------------------- MODULE Stamps -------------------------------
(***************************************************************************)
(* Virtual-time stamps: struct TimeStamp (state_store.hpp) and the stamp   *)
(* arithmetic of the kernel (simulation.hpp).  A stamp is a pair of        *)
(* unsigned 64-bit counters ordered lexicographically; MaxTime and MaxSeq  *)
(* stand for the largest values of the two counters, 2^64 - 1 in the code. *)
(***************************************************************************)
EXTENDS Integers

CONSTANTS
    MaxTime,    \* the largest SimTime
    MaxSeq      \* the largest sequence number

ASSUME StampBounds == MaxTime \in Nat \ {0} /\ MaxSeq \in Nat \ {0}

Stamp == [time : 0..MaxTime, sequence : 0..MaxSeq]

ZeroStamp == [time |-> 0, sequence |-> 0]

\* operator< of TimeStamp.
Lt(a, b) == \/ a.time < b.time
            \/ a.time = b.time /\ a.sequence < b.sequence

Le(a, b) == ~ Lt(b, a)

\* max_stamp_(): the "plus infinity" a rank without constraints contributes.
MaxStamp == [time |-> MaxTime, sequence |-> MaxSeq]

\* min_stamp_(), over a set of stamps: the least one, MaxStamp if there is none.
MinStamp(S) ==
    IF S = {} THEN MaxStamp
              ELSE CHOOSE a \in S : \A b \in S : Le(a, b)

\* The immediate predecessor of a stamp; {0, 0} is its own predecessor.
prev_stamp(ts) ==
    IF ts.sequence > 0 THEN [ts EXCEPT !.sequence = @ - 1]
    ELSE IF ts.time = 0 THEN ZeroStamp
    ELSE [time |-> ts.time - 1, sequence |-> MaxSeq]

=============================================================================
