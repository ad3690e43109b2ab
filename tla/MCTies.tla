------------------------------- MODULE MCTies -------------------------------
(***************************************************************************)
(* Two senders give an LP events of the same stamp: LPs 1 and 2 each send  *)
(* their first event, numbered 1, for time 2 to LP 3.  LP 1 is on another  *)
(* rank, so that its event, the first in the kernel's order, may come      *)
(* second.  LP 4 never gets an event.                                      *)
(***************************************************************************)
EXTENDS TimeWarpVsSequential

MCLPs == 1..4
MClpToRank == (1 :> "A") @@ (2 :> "B") @@ (3 :> "B") @@ (4 :> "A")
MCEntities == {"a"}
MCValues == 0..4
MCKinds == {"p", "q"}

MCInitState(l) == [e \in MCEntities |-> 0]

MCOnStart(l) ==
    CASE l = 1 -> <<[dst |-> 3, kind |-> "p", delay |-> 2, sequence |-> 0]>>
      [] l = 2 -> <<[dst |-> 3, kind |-> "q", delay |-> 2, sequence |-> 0]>>
      [] OTHER -> <<>>

\* The state remembers the order of the two events.
MCOnEvent(l, s, k) ==
    LET t == [s EXCEPT !["a"] = (2 * @ + IF k = "p" THEN 1 ELSE 2) % 5]
    IN  [writes |-> {"a"}, state |-> t, sends |-> <<>>, outs |-> <<t["a"]>>]

=============================================================================
