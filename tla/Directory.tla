----------------------------- MODULE Directory ------------------------------
(***************************************************************************)
(* DirectoryLP (directory_lp.hpp): the logical process through which       *)
(* events for entities that migrate are routed.  It keeps, per entity, a   *)
(* timeline of owners; it forwards an event for an entity to the owner at  *)
(* the event's stamp; and it is told the GVT so that it can drop the part  *)
(* of the timelines that no event can ask for any more.                    *)
(*                                                                         *)
(* The kernel is seen from this one LP: its part of the pending queue, its *)
(* records, its sent log and its rollbacks.  Of the rest of the system,    *)
(* other LPs, ranks and transports, only what reaches the directory is     *)
(* left: events and anti-messages that come in any order, and a GVT that   *)
(* is below all that is still to be processed.  Sequence numbers are the   *)
(* default ones (no isControlEvent).                                       *)
(***************************************************************************)
EXTENDS Stamps, Sequences, FiniteSetsExt, Functions

CONSTANTS
    Entities,           \* entities that can be the target of an event
    Owners,             \* LPs that can own an entity
    DefaultOwner(_,_),  \* DirectoryLPConfig::defaultOwner(entity, stamp)
    Inputs,             \* the updates and uses that are sent to the directory
    Revocable,          \* the inputs their senders may take back
    GvtStamps           \* bound: the values the GVT takes

-----------------------------------------------------------------------------

UpdateEvent == [kind : {"update"}, ts : Stamp, entity : Entities,
                owner : Owners, install : BOOLEAN]
UseEvent == [kind : {"use"}, ts : Stamp, entity : Entities]
FossilEvent == [kind : {"fossil"}, ts : Stamp, gvt : Stamp]
AntiOf(ev) == [kind |-> "anti", ts |-> ev.ts, of |-> ev]

ASSUME DirectoryAssumption ==
    /\ \A e \in Entities, ts \in Stamp : DefaultOwner(e, ts) \in Owners
    /\ Inputs \subseteq UpdateEvent \cup UseEvent
    /\ \A ev \in Inputs : ev.ts.sequence > 0
    /\ Revocable \subseteq Inputs
    /\ GvtStamps \subseteq Stamp

-----------------------------------------------------------------------------
(***************************************************************************)
(* The timelines.                                                          *)
(***************************************************************************)
Latest(S) == CHOOSE a \in S : \A b \in S : Le(b, a)

\* The entry at or before ts, the default owner if there is none.
owner_at_(h, e, ts) ==
    LET past == {s \in DOMAIN h[e] : Le(s, ts)}
    IN  IF past = {} THEN DefaultOwner(e, ts) ELSE h[e][Latest(past)]

\* Mutant: everything before the GVT goes, the owner at the GVT included.
PruneWithoutFloor(h, gvt) ==
    [e \in Entities |-> Restrict(h[e], {s \in DOMAIN h[e] : Le(gvt, s)})]

\* What prune_history_ drops: the entries before gvt, but for the last of them
\* where there is no entry at gvt itself.
Dropped(S, gvt) ==
    LET past == {s \in S : Lt(s, gvt)}
    IN  IF gvt \in S \/ past = {} THEN past ELSE past \ {Latest(past)}

prune_history_(h, gvt) ==
    [e \in Entities |-> Restrict(h[e], DOMAIN h[e] \ Dropped(DOMAIN h[e], gvt))]

Updated(h, ev) ==
    [h EXCEPT ![ev.entity] =
        [s \in DOMAIN @ \cup {ev.ts} |-> IF s = ev.ts THEN ev.owner ELSE @[s]]]

-----------------------------------------------------------------------------
VARIABLES
    history,    \* m_ownerHistory
    vt,         \* the directory's virtual time
    nextSeq,    \* the directory's counter of automatic sequence numbers
    log,        \* the processed records, after those that are committed
    base,       \* how many entries of log are committed and released
    sent,       \* the events sent and not taken back
    unread,     \* stamps of sent events and anti-messages not processed yet
    todo,       \* what is pending for the directory
    coming,     \* what will reach it
    gvt         \* m_lastGvt

vars == <<history, vt, nextSeq, log, base, sent, unread, todo, coming, gvt>>

Init ==
    /\ history = [e \in Entities |-> <<>>]
    /\ vt = ZeroStamp
    /\ nextSeq = 1
    /\ log = <<>> /\ base = 0
    /\ sent = {} /\ unread = {}
    /\ todo = {} /\ coming = Inputs
    /\ gvt = ZeroStamp

-----------------------------------------------------------------------------
(***************************************************************************)
(* Records, and the choice of the next event.                              *)
(***************************************************************************)
\* The kinds whose handler calls request_write before it changes the timelines.
Saves(kind) == kind \in {"update", "fossil"}

Record(ev, old) ==
    [ev |-> ev, saved |-> Saves(ev.kind),
     pre |-> IF Saves(ev.kind) THEN history ELSE <<>>,
     preSeq |-> nextSeq, oldOwner |-> old]

\* m_cancelledByUid: an input is withdrawn once, so there is a tombstone for
\* each anti-message that was processed and is neither undone nor released.
Cancelled == {log[i].ev.of : i \in {j \in (base+1)..Len(log) :
                                        log[j].ev.kind = "anti"}}

\* pop_next_, for the directory: one of the least, in whatever order ties are.
IsNext(ev) == ev \in todo \ Cancelled /\ \A f \in todo : Le(ev.ts, f.ts)

-----------------------------------------------------------------------------
(***************************************************************************)
(* on_event.                                                               *)
(***************************************************************************)
\* dispatch_ of an event that is not a straggler; old is for the output.
Executes(ev, old) ==
    /\ IsNext(ev) /\ ~ Lt(ev.ts, vt)
    /\ todo' = todo \ {ev}
    /\ vt' = ev.ts
    /\ log' = Append(log, Record(ev, old))
    /\ UNCHANGED <<base, coming, gvt>>

Sends(msgs) == /\ sent' = sent \cup msgs
               /\ unread' = unread \cup {m.ts : m \in msgs}

\* The owner an update reports as the old one.
\* Mutant: looked up when the new one is already in the timeline.
OldOwnerTooLate(ev) == owner_at_(Updated(history, ev), ev.entity, ev.ts)
OldOwner(ev) == owner_at_(history, ev.entity, ev.ts)

\* The install carries the stamp of the update.
Install(ev) == [at |-> ev.ts, of |-> ev, kind |-> "install", ts |-> ev.ts,
                dst |-> ev.owner]

Update ==
    \E ev \in todo :
        /\ ev.kind = "update"
        /\ Executes(ev, OldOwner(ev))
        /\ history' = Updated(history, ev)
        /\ Sends(IF ev.install THEN {Install(ev)} ELSE {})
        /\ UNCHANGED nextSeq

\* A forward keeps the time and gets a sequence number of the directory.
Forwarded(ev) == [at |-> ev.ts, of |-> ev, kind |-> "use",
                  ts |-> [time |-> ev.ts.time, sequence |-> nextSeq],
                  dst |-> owner_at_(history, ev.entity, ev.ts)]

Forward ==
    \E ev \in todo :
        /\ ev.kind = "use"
        /\ nextSeq <= MaxSeq
        /\ Executes(ev, 0)
        /\ Sends({Forwarded(ev)})
        /\ nextSeq' = nextSeq + 1
        /\ UNCHANGED history

FossilCollect ==
    \E ev \in todo :
        /\ ev.kind = "fossil"
        /\ Executes(ev, 0)
        /\ history' = prune_history_(history, ev.gvt)
        /\ UNCHANGED <<nextSeq, sent, unread>>

-----------------------------------------------------------------------------
(***************************************************************************)
(* Rollback and cancellation.                                              *)
(***************************************************************************)
\* How many entries of log a rollback to "to" keeps.
Kept(to) == Min({n \in base..Len(log) :
                    \A i \in (n+1)..Len(log) : Le(to, log[i].ev.ts)})

Undone(n) == {log[i].ev : i \in (n+1)..Len(log)}

\* Mutant: the oldest undone record is taken to have a snapshot.
RestoredFromOldest(n) == IF n < Len(log) THEN log[n + 1].pre ELSE history

\* The oldest snapshot among the undone records.
Restored(n) ==
    LET saves == {i \in (n+1)..Len(log) : log[i].saved}
    IN  IF saves = {} THEN history ELSE log[Min(saves)].pre

\* What is left of the sent log: sends are undone with the event that made them.
\* Mutant: by the stamp of the message instead.
StandingByStamp(to) == {m \in sent : Lt(m.ts, to)}
Standing(to) == {m \in sent : Lt(m.at, to)}

\* rollback_, but for the records, the queue and the virtual time.
RollBack(n, to) ==
    /\ history' = Restored(n)
    /\ nextSeq' = IF n < Len(log) THEN log[n + 1].preSeq ELSE nextSeq
    /\ sent' = Standing(to)
    /\ unread' = unread \cup {m.ts : m \in sent \ sent'}

\* An event or anti-message below the virtual time; it stays in the queue.
Straggler ==
    \E ev \in todo : LET n == Kept(ev.ts) IN
        /\ IsNext(ev) /\ Lt(ev.ts, vt)
        /\ RollBack(n, ev.ts)
        /\ log' = SubSeq(log, 1, n)
        /\ todo' = todo \cup Undone(n)
        /\ vt' = prev_stamp(ev.ts)
        /\ UNCHANGED <<base, coming, gvt>>

\* cancel_ of an event that was executed: the record of the anti-message is
\* built before the rollback and appended after it.
CancelProcessed ==
    \E ev \in todo : LET n == Kept(ev.ts) IN
        /\ ev.kind = "anti"
        /\ IsNext(ev) /\ ~ Lt(ev.ts, vt)
        /\ \E i \in (base+1)..Len(log) : log[i].ev = ev.of
        /\ RollBack(n, ev.ts)
        /\ log' = Append(SubSeq(log, 1, n), Record(ev, 0))
        /\ todo' = (todo \ {ev}) \cup Undone(n)
        /\ vt' = ev.ts
        /\ UNCHANGED <<base, coming, gvt>>

\* cancel_ of an event that is pending or has not come yet.
CancelPending ==
    \E ev \in todo :
        /\ ev.kind = "anti"
        /\ ~ \E i \in (base+1)..Len(log) : log[i].ev = ev.of
        /\ Executes(ev, 0)
        /\ UNCHANGED <<history, nextSeq, sent, unread>>

\* The loops of pop_next_ and peek_next_pending_ts_.
Discard ==
    \E ev \in todo \cap Cancelled :
        /\ \A f \in todo : Le(ev.ts, f.ts)
        /\ todo' = todo \ {ev}
        /\ UNCHANGED <<history, vt, nextSeq, log, base, sent, unread, coming,
                       gvt>>

-----------------------------------------------------------------------------
(***************************************************************************)
(* The rest of the system.                                                 *)
(***************************************************************************)
Arrive ==
    \E ev \in coming :
        /\ coming' = coming \ {ev}
        /\ todo' = todo \cup {ev}
        /\ UNCHANGED <<history, vt, nextSeq, log, base, sent, unread, gvt>>

\* A sender rolls back, not below the GVT, and takes an input back, once.
Withdraw ==
    \E ev \in Revocable :
        /\ Le(gvt, ev.ts)
        /\ AntiOf(ev) \notin coming \cup todo \cup Undone(0)
        /\ coming' = coming \cup {AntiOf(ev)}
        /\ UNCHANGED <<history, vt, nextSeq, log, base, sent, unread, todo,
                       gvt>>

\* The receivers of what has this stamp have processed it.
Absorb ==
    \E s \in unread :
        /\ unread' = unread \ {s}
        /\ UNCHANGED <<history, vt, nextSeq, log, base, sent, todo, coming,
                       gvt>>

\* The GVT advances, prune_to_gvt_ commits, and notify_directories_gvt_ sends
\* the directory an event at the GVT; send() numbers it if its sequence is 0.
AdvanceGvt ==
    \E g \in GvtStamps, s \in 1..MaxSeq :
        /\ Lt(gvt, g) /\ Le(g, vt)
        /\ \A ev \in todo \cup coming : Le(g, ev.ts)
        /\ \A u \in unread : Le(g, u)
        /\ gvt' = g
        /\ base' = Max({n \in base..Len(log) :
                           \A i \in (base+1)..n : Lt(log[i].ev.ts, g)})
        /\ coming' = coming \cup
              {[kind |-> "fossil", gvt |-> g,
                ts |-> IF g.sequence = 0 THEN [g EXCEPT !.sequence = s] ELSE g]}
        /\ UNCHANGED <<history, vt, nextSeq, log, sent, unread, todo>>

Next == \/ Update \/ Forward \/ FossilCollect
        \/ Straggler \/ CancelProcessed \/ CancelPending \/ Discard
        \/ Arrive \/ Withdraw \/ Absorb \/ AdvanceGvt

Spec == Init /\ [][Next]_vars

-----------------------------------------------------------------------------
(***************************************************************************)
(* Properties.                                                             *)
(***************************************************************************)
IsHistory(h) ==
    /\ DOMAIN h = Entities
    /\ \A e \in Entities : /\ DOMAIN h[e] \subseteq Stamp
                           /\ \A s \in DOMAIN h[e] : h[e][s] \in Owners

\* Type correctness: the timelines are maps from stamps to owners, also after
\* load_state in a rollback, and every event keeps its kind.
DirectoryTypeOK ==
    LET Event == Inputs \cup FossilEvent \cup {AntiOf(ev) : ev \in Inputs}
    IN  /\ IsHistory(history)
        /\ vt \in Stamp /\ gvt \in Stamp
        /\ nextSeq \in 1..(MaxSeq + 1)
        /\ base \in 0..Len(log)
        /\ \A i \in 1..Len(log) :
              /\ log[i].ev \in Event
              /\ log[i].saved => IsHistory(log[i].pre)
              /\ log[i].preSeq \in 1..(MaxSeq + 1)
        /\ \A m \in sent : m.ts \in Stamp /\ m.at \in Stamp /\ m.dst \in Owners
        /\ unread \subseteq Stamp
        /\ todo \subseteq Event /\ coming \subseteq Event

\* The updates of e in the first n entries of log, by position.
UpdatesOf(e, n) ==
    {i \in 1..n : log[i].ev.kind = "update" /\ log[i].ev.entity = e}

\* The owner of e at ts by the updates among the first n entries of log: what
\* a directory that never prunes and never rolls back would answer.
TrueOwner(e, ts, n) ==
    LET past == {i \in UpdatesOf(e, n) : Le(log[i].ev.ts, ts)}
    IN  IF past = {} THEN DefaultOwner(e, ts) ELSE log[Max(past)].ev.owner

\* What prune_history_ drops, at whatever GVT and however often it was undone
\* and done again, no event at or after the GVT can ask for: owner_at_ answers
\* there as if nothing had been dropped and no update been undone.
PruningKeepsOwners ==
    \A e \in Entities, ts \in Stamp :
        Le(gvt, ts) => owner_at_(history, e, ts) = TrueOwner(e, ts, Len(log))

\* on_event sent every event that stands to the owner at the event's own stamp,
\* by the updates that stand: a late or withdrawn update takes back what was
\* forwarded on its account.  An update with the very stamp of the event may
\* count or not.
ForwardsToOwner ==
    \A m \in sent :
        m.kind = "use" =>
            LET e == m.of.entity
            IN  \/ m.dst = TrueOwner(e, m.of.ts, Len(log))
                \/ \E i \in UpdatesOf(e, Len(log)) : log[i].ev.ts = m.of.ts

\* The migrations of an entity in the committed output (migrationLogKind) form
\* a chain: each starts from the owner the one before led to, though updates
\* come late, are withdrawn, and are pruned.
MigrationLogChains ==
    \A i \in 1..Len(log) :
        log[i].ev.kind = "update" =>
            log[i].oldOwner = TrueOwner(log[i].ev.entity, log[i].ev.ts, i - 1)

\* What fossil collection rests on (simulation.hpp:1173): no LP sends a message
\* below the GVT.  The directory does: the number a forward gets may be smaller
\* than that of the event it forwards.
NoSendBelowGvt ==
    [][\A m \in sent' \ sent : Le(gvt, m.ts)]_vars

=============================================================================
