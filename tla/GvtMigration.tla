---------------------------- MODULE GvtMigration ----------------------------
(***************************************************************************)
(* GVT-safe entity migration (simulation.hpp), on the rank of the new      *)
(* owners: migration messages wait until the GVT has reached their         *)
(* effective time, then the owner map is changed, which send() consults    *)
(* for events with a target.  Migration messages are neither acknowledged  *)
(* nor counted, so the GVT and the end of the run do not wait for them.    *)
(***************************************************************************)
EXTENDS Stamps, SequencesExt

CONSTANTS
    Migrations,     \* what is sent: [entity, newOwner, effectiveTs]
    Entity,
    GivenDst,       \* the dst a sender names
    SendStamps      \* bound: the stamps of the events, and of the GVT

ASSUME MigrationAssumption ==
    /\ \A m \in Migrations : m.effectiveTs \in Stamp
    /\ SendStamps \subseteq Stamp

VARIABLES
    wire,       \* migration messages on their way
    waiting,    \* m_pendingMigrations, a multimap: in the order of its keys
    owner,      \* m_entityOwner: a function whose domain grows
    gvt,        \* m_lastGvt
    routed,     \* history: [entity, ts, dst] of the events that were sent
    ended       \* run() has returned

vars == <<wire, waiting, owner, gvt, routed, ended>>

Init ==
    /\ wire = Migrations
    /\ waiting = <<>>
    /\ owner = <<>>
    /\ gvt = ZeroStamp
    /\ routed = {}
    /\ ended = FALSE

\* emplace: after the entries with the same key.
Emplace(q, mig) ==
    LET k == Max({n \in 0..Len(q) :
                     \A i \in 1..n : Le(q[i].effectiveTs, mig.effectiveTs)})
    IN  InsertAt(q, k + 1, mig)

\* Mutant: all that wait are applied.
ReadyAll(q, g) == Len(q)

\* How many entries are taken from the front while the GVT allows it.
Ready(q, g) ==
    Max({n \in 0..Len(q) : \A i \in 1..n : Le(q[i].effectiveTs, g)})

\* on_migration and the change of the owner map, one by one: the last one of an
\* entity among the first n entries counts.
OwnersAfter(q, n) ==
    LET Of(e) == {i \in 1..n : q[i].entity = e}
    IN  [e \in DOMAIN owner \cup {q[i].entity : i \in 1..n} |->
            IF Of(e) = {} THEN owner[e] ELSE q[Max(Of(e))].newOwner]

apply_ready_migrations_(q, g) ==
    /\ waiting' = SubSeq(q, Ready(q, g) + 1, Len(q))
    /\ owner' = OwnersAfter(q, Ready(q, g))

\* Mutant: it is only put where it waits.
ReceiveOnly ==
    \E mig \in wire :
        /\ ~ ended
        /\ wire' = wire \ {mig}
        /\ waiting' = Emplace(waiting, mig)
        /\ UNCHANGED <<owner, gvt, routed, ended>>

\* poll_transport_count and apply_migration_.
Receive ==
    \E mig \in wire :
        /\ ~ ended
        /\ wire' = wire \ {mig}
        /\ apply_ready_migrations_(Emplace(waiting, mig), gvt)
        /\ UNCHANGED <<gvt, routed, ended>>

\* fossil_collect_.
AdvanceGvt ==
    \E g \in SendStamps :
        /\ ~ ended /\ Lt(gvt, g)
        /\ gvt' = g
        /\ apply_ready_migrations_(waiting, g)
        /\ UNCHANGED <<wire, routed, ended>>

\* send() of an event with a target, by a handler that runs no earlier than the
\* GVT; the owner of the moment, whatever the event's stamp is.
SendTargeted ==
    \E e \in Entity, ts \in SendStamps :
        /\ ~ ended /\ Le(gvt, ts)
        /\ routed' = routed \cup
             {[entity |-> e, ts |-> ts,
               dst |-> IF e \in DOMAIN owner THEN owner[e] ELSE GivenDst]}
        /\ UNCHANGED <<wire, waiting, owner, gvt, ended>>

\* run() returns when no events are left.
Finish ==
    /\ ~ ended
    /\ ended' = TRUE
    /\ apply_ready_migrations_(waiting, gvt)
    /\ UNCHANGED <<wire, gvt, routed>>

Next == Receive \/ AdvanceGvt \/ SendTargeted \/ Finish

Spec == Init /\ [][Next]_vars

-----------------------------------------------------------------------------
(***************************************************************************)
(* Properties.                                                             *)
(***************************************************************************)
\* Cutover is safe: an event goes to a new owner only if the time from which it
\* is the owner is not after the event.  That is what the wait for the GVT is for.
NotBeforeCutover ==
    \A r \in routed :
        r.dst # GivenDst =>
            \E m \in Migrations : /\ m.entity = r.entity /\ m.newOwner = r.dst
                                  /\ Le(m.effectiveTs, r.ts)

\* No migration that has come is overlooked or lost, whether the message or the
\* GVT was first: before its time it waits, and after it it does not, but its
\* entity has a new owner.
NoneOverlooked ==
    /\ \A i \in 1..Len(waiting) : Lt(gvt, waiting[i].effectiveTs)
    /\ \A m \in Migrations \ wire :
          IF Lt(gvt, m.effectiveTs) THEN \E i \in 1..Len(waiting) : waiting[i] = m
                                   ELSE m.entity \in DOMAIN owner

=============================================================================
