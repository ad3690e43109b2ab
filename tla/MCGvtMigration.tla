--------------------------- MODULE MCGvtMigration ---------------------------
(***************************************************************************)
(* Instances of GvtMigration: an entity that moves twice, another that     *)
(* moves once at the same time as the first, and three times to be at.     *)
(***************************************************************************)
EXTENDS GvtMigration

At(t) == [time |-> t, sequence |-> 0]
Move(e, to, t) == [entity |-> e, newOwner |-> to, effectiveTs |-> At(t)]

MCMigrations == {Move("a", 1, 1), Move("a", 2, 3), Move("b", 2, 1)}
MCEntity == {"a", "b"}
MCSendStamps == {At(1), At(2), At(3)}

=============================================================================
