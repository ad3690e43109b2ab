-------------------------------- MODULE Aoi ---------------------------------
(***************************************************************************)
(* AoiLP (aoi_lp.hpp) and AoiClient (aoi_client.hpp): entities publish     *)
(* their positions to one LP, any LP asks it who is in a sphere or a cone, *)
(* and it answers at the stamp of the question.  Positions are integer     *)
(* points; the code's are doubles, compared without square roots.          *)
(***************************************************************************)
EXTENDS LpRecords

CONSTANTS
    AoiLp,          \* the LP
    ExcludeSelf,    \* Config::excludeSelf
    StateEntity     \* Config::stateEntityId

-----------------------------------------------------------------------------
(***************************************************************************)
(* Geometry.                                                               *)
(***************************************************************************)
dot(a, b) == a[1] * b[1] + a[2] * b[2] + a[3] * b[3]
sub(a, b) == <<a[1] - b[1], a[2] - b[2], a[3] - b[3]>>
norm2(a) == dot(a, a)

InSphere(q, pos) == norm2(sub(pos, q.origin)) <= q.radius * q.radius

\* cosHalfAngle^2 is the fraction q.cos2[1] / q.cos2[2].
InCone(q, pos) ==
    LET d    == sub(pos, q.origin)
        dd   == dot(d, q.direction)
        dir2 == norm2(q.direction)
    IN  /\ norm2(d) <= q.range * q.range
        /\ dd > 0
        /\ dir2 # 0
        /\ dd * dd * q.cos2[2] >= q.cos2[1] * norm2(d) * dir2

InShape(q, pos) == IF q.shape = "sphere" THEN InSphere(q, pos) ELSE InCone(q, pos)

-----------------------------------------------------------------------------
(***************************************************************************)
(* The LP: its state is the table of positions, m_pos.                     *)
(***************************************************************************)
NoPositions == <<>>

Hits(m_pos, q) ==
    {e \in DOMAIN m_pos : /\ ~ (ExcludeSelf /\ q.self # 0 /\ e = q.self)
                          /\ InShape(q, m_pos[e])}

\* The answer goes to whoever asked; std::sort puts the ids in ascending order.
Answer(m_pos, ev) ==
    [ts |-> ev.ts, dst |-> ev.src,
     body |-> [kind |-> "result", requestId |-> ev.body.requestId,
               entities |-> Ascending(Hits(m_pos, ev.body))]]

\* Mutant: request_write is forgotten.
UpdateUnsaved(m_pos, ev) ==
    [state |-> [e \in DOMAIN m_pos \cup {ev.body.entity} |->
                   IF e = ev.body.entity THEN ev.body.pos ELSE m_pos[e]],
     sends |-> <<>>, writes |-> {}]

Update(m_pos, ev) ==
    [state |-> [e \in DOMAIN m_pos \cup {ev.body.entity} |->
                   IF e = ev.body.entity THEN ev.body.pos ELSE m_pos[e]],
     sends |-> <<>>, writes |-> {StateEntity}]

\* Kinds it does not know are ignored.
on_event(m_pos, ev) ==
    CASE ev.body.kind = "update" -> Update(m_pos, ev)
      [] ev.body.kind = "query" ->
            [state |-> m_pos, sends |-> <<Answer(m_pos, ev)>>, writes |-> {}]
      [] OTHER -> [state |-> m_pos, sends |-> <<>>, writes |-> {}]

\* load_state clears the table and reads all of it.
load_state(m_pos, old) ==
    IF StateEntity \in DOMAIN old THEN old[StateEntity] ELSE m_pos

-----------------------------------------------------------------------------
(***************************************************************************)
(* AoiClient: the events other LPs send.                                   *)
(***************************************************************************)
ToAoi(ts, src, uid, body) ==
    [ts |-> ts, src |-> src, uid |-> uid, dst |-> AoiLp, body |-> body,
     anti |-> FALSE]

send_update(ts, src, uid, entity, pos) ==
    ToAoi(ts, src, uid, [kind |-> "update", entity |-> entity, pos |-> pos])

send_query(ts, src, uid, q) ==
    ToAoi(ts, src, uid, [kind |-> "query", requestId |-> q.requestId,
                         self |-> q.self, shape |-> q.shape,
                         origin |-> q.origin, radius |-> q.radius,
                         direction |-> q.direction, range |-> q.range,
                         cos2 |-> q.cos2])

-----------------------------------------------------------------------------
(***************************************************************************)
(* Properties.                                                             *)
(***************************************************************************)
\* The standing updates of entity e before or at stamp ts, by position.
UpdatesUpTo(e, ts) ==
    {i \in Standing("update") : log[i].ev.body.entity = e /\ Le(log[i].ev.ts, ts)}

\* Who is in the shape at the query's own stamp, by the updates that stand and
\* by nothing that happened to be in the table when the query was executed.
TrueHits(q, ts) ==
    LET known == {log[i].ev.body.entity : i \in Standing("update")}
    IN  {e \in known \ (IF ExcludeSelf THEN {q.self} ELSE {}) :
            UpdatesUpTo(e, ts) # {} /\
            InShape(q, log[Max(UpdatesUpTo(e, ts))].ev.body.pos)}

\* docs/aoi.md: a late or withdrawn update takes the answers back that it makes
\* wrong.  An answer that stands lists who was in the shape at the stamp of the
\* question, unless an update carries that very stamp.
AnswersAreCurrent ==
    \A i \in Standing("query") : LET ev == log[i].ev IN
        \/ \E j \in 1..Len(log) : j # i /\ log[j].ev.ts = ev.ts
        \/ \E m \in 1..Len(sentLog) :
              /\ sentLog[m].of = Key(ev) /\ sentLog[m].ev.dst = ev.src
              /\ ToSet(sentLog[m].ev.body.entities) = TrueHits(ev.body, ev.ts)

=============================================================================
