---------------------------- MODULE MCDirectory -----------------------------
(***************************************************************************)
(* Instances of Directory: two entities, one of which migrates three times *)
(* while it is in use.                                                     *)
(***************************************************************************)
EXTENDS Directory

At(t, s) == [time |-> t, sequence |-> s]

MCDefaultOwner(e, ts) == e

Moves(t, s, e, l, i) == [kind |-> "update", ts |-> At(t, s), entity |-> e,
                         owner |-> l, install |-> i]
Uses(t, s, e) == [kind |-> "use", ts |-> At(t, s), entity |-> e]

\* Entity 1 moves to 2, to 3 and back to 2; one use is at the stamp of a move,
\* the other just after the last one.
MCInputs == {Moves(1, 1, 1, 2, TRUE), Moves(2, 1, 1, 3, FALSE),
             Moves(2, 3, 2, 3, TRUE), Moves(3, 2, 1, 2, TRUE),
             Uses(2, 1, 1), Uses(3, 3, 1)}

MCRevocable == {Moves(2, 1, 1, 3, FALSE)}

\* One GVT is the stamp of a move, the other lies between two moves and has no
\* sequence number.
MCGvtStamps == {At(2, 1), At(3, 0)}

\* Two uses with numbers above the directory's own counter.
GvtInputs == {Uses(2, 3, 1), Uses(2, 4, 1), Moves(1, 1, 1, 2, TRUE)}
GvtReached == {At(2, 3)}

=============================================================================
