----------------------------- MODULE MCTimeWarp -----------------------------
(***************************************************************************)
(* Three LPs on two ranks, and a model program in which optimism goes      *)
(* wrong.  LP 2 may execute f@3 and send e@5 to LP 1 before the straggler  *)
(* s@2 of LP 3 reaches it; executed again after s, f sends d@5 instead.    *)
(* LP 1 may by then have executed e, which sends h to LP 3 on its own      *)
(* rank; and s makes LP 2 send g@4, a straggler to LP 1.                   *)
(***************************************************************************)
EXTENDS TimeWarpVsSequential

MCLPs == 1..3
MClpToRank == (1 :> "B") @@ (2 :> "A") @@ (3 :> "B")
MCEntities == {"a", "b"}
MCValues == 0..4
MCKinds == {"f", "s", "g", "e", "d", "h", "k"}

MCInitState(l) == [e \in MCEntities |-> 0]

S(dst, kind, delay) == [dst |-> dst, kind |-> kind, delay |-> delay, sequence |-> 0]

MCOnStart(l) == IF l = 3 THEN <<S(2, "s", 2)>> ELSE <<>>

\* s@2 is sent only when k@1 has reached LP 3, after any number of GVT rounds.
MCOnStartRelayed(l) == IF l = 2 THEN <<S(3, "k", 1)>> ELSE <<>>

MCScheduled == {[ts |-> [time |-> 3, sequence |-> 0], src |-> 2, dst |-> 2,
                 uid |-> 0, kind |-> "f", anti |-> FALSE]}

\* An update that remembers the order in which events were executed.
Mix(v, n) == (2 * v + n) % 5

Does(s, ent, n, sends) ==
    LET t == [e \in MCEntities |-> IF e \in ent THEN Mix(s[e], n) ELSE s[e]]
    IN  [writes |-> ent, state |-> t, sends |-> sends,
         outs |-> IF n > 2 THEN <<t["a"], t["b"]>> ELSE <<t["b"]>>]

MCOnEvent(l, s, k) ==
    CASE k = "f" -> Does(s, {"a"}, 1, <<S(1, IF s["b"] = 0 THEN "e" ELSE "d", 2)>>)
      [] k = "s" -> Does(s, {"b"}, 1, <<[S(1, "g", 2) EXCEPT !.sequence = 3]>>)
      [] k = "g" -> Does(s, {"a"}, 1, <<S(3, "h", 3)>>)
      [] k = "e" -> Does(s, {"a", "b"}, 2, <<S(3, "h", 2)>>)
      [] k = "d" -> Does(s, {"a"}, 3, <<>>)
      [] k = "k" -> Does(s, {}, 0, <<S(2, "s", 1)>>)
      [] k = "h" -> Does(s, {"a"}, 1, <<>>)

\* The same program without g: LP 1 rolls back only because of anti-messages.
MCOnEventWithoutG(l, s, k) ==
    IF k = "s" THEN [MCOnEvent(l, s, k) EXCEPT !.sends = <<>>]
               ELSE MCOnEvent(l, s, k)

ASSUME WritesDeclared /\ CausalApp

=============================================================================
