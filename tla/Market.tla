------------------------------- MODULE Market -------------------------------
(***************************************************************************)
(* ExchangeLP and TraderLP of market_demo.cpp: orders are placed in a book *)
(* and matched on demand, and both sides of each trade get a fill.  Both   *)
(* LPs save single entities of their World, the exchange its book and its  *)
(* audit log, the traders' LP each trader.                                 *)
(***************************************************************************)
EXTENDS LpRecords

CONSTANTS
    TraderLp,       \* m_traderLp
    Book, Audit,    \* m_bookId, m_auditId
    FirstCash,      \* what a trader starts with
    CashModulus     \* 2^64

-----------------------------------------------------------------------------
(***************************************************************************)
(* The book.  Orders have distinct ids, so a set of them does for the      *)
(* vectors of the code.                                                    *)
(***************************************************************************)
NewExchange == [book |-> [nextOrderId |-> 1, lastTradePrice |-> 0,
                          bids |-> {}, asks |-> {}],
                audit |-> <<>>]

\* Mutant: of two equal prices the newer order wins.
BidBeforeByNewest(o, p) == o.price > p.price \/ (o.price = p.price /\ o.id > p.id)

\* bestBid and bestAsk: the better price, then the older order.
BidBefore(o, p) == o.price > p.price \/ (o.price = p.price /\ o.id < p.id)
AskBefore(o, p) == o.price < p.price \/ (o.price = p.price /\ o.id < p.id)

BestBid(b) == CHOOSE o \in b.bids : \A p \in b.bids \ {o} : BidBefore(o, p)
BestAsk(b) == CHOOSE o \in b.asks : \A p \in b.asks \ {o} : AskBefore(o, p)

Crosses(b) == /\ b.bids # {} /\ b.asks # {}
              /\ BestBid(b).price >= BestAsk(b).price

\* An order of a side after qty of it was traded.
Reduced(orders, o, qty) ==
    (orders \ {o}) \cup (IF o.qty = qty THEN {} ELSE {[o EXCEPT !.qty = @ - qty]})

Fill(ts, trader, cash, pos) ==
    [ts |-> ts, dst |-> TraderLp,
     body |-> [kind |-> "fill", trader |-> trader, cashDelta |-> cash,
               posDelta |-> pos]]

\* Mutant: only the bid is reduced.
TradedHalf(s, ts) ==
    LET bid == BestBid(s.book)
        ask == BestAsk(s.book)
        qty == Min({bid.qty, ask.qty})
    IN  [state |-> [book |-> [s.book EXCEPT !.lastTradePrice = ask.price,
                                            !.bids = Reduced(@, bid, qty)],
                    audit |-> Append(s.audit, [t |-> ts.time, msg |-> "trade",
                                               a |-> ask.price, b |-> qty])],
         fills |-> <<Fill(ts, bid.trader, -(qty * ask.price), qty),
                     Fill(ts, ask.trader, qty * ask.price, -qty)>>]

\* One trade, at the price of the ask.
Traded(s, ts) ==
    LET bid == BestBid(s.book)
        ask == BestAsk(s.book)
        qty == Min({bid.qty, ask.qty})
    IN  [state |-> [book |-> [s.book EXCEPT !.lastTradePrice = ask.price,
                                            !.bids = Reduced(@, bid, qty),
                                            !.asks = Reduced(@, ask, qty)],
                    audit |-> Append(s.audit, [t |-> ts.time, msg |-> "trade",
                                               a |-> ask.price, b |-> qty])],
         fills |-> <<Fill(ts, bid.trader, -(qty * ask.price), qty),
                     Fill(ts, ask.trader, qty * ask.price, -qty)>>]

\* Exchange_Match: trades, as long as the book crosses, up to a maximum.
Match(s, ev) ==
    LET after[n \in 0..ev.body.maxTrades] ==
            IF n = 0 THEN [state |-> s, fills |-> <<>>]
            ELSE IF ~ Crosses(after[n-1].state.book) THEN after[n-1]
            ELSE LET r == Traded(after[n-1].state, ev.ts)
                 IN  [state |-> r.state, fills |-> after[n-1].fills \o r.fills]
        all == after[ev.body.maxTrades]
    IN  [state |-> all.state, sends |-> all.fills,
         writes |-> {Book} \cup (IF all.fills = <<>> THEN {} ELSE {Audit})]

\* Exchange_PlaceOrder.
PlaceOrder(s, ev) ==
    LET a == ev.body
        o == [id |-> s.book.nextOrderId, trader |-> a.trader, qty |-> a.qty,
              price |-> a.price]
    IN  [state |-> [book |-> [s.book EXCEPT
                        !.nextOrderId = @ + 1,
                        !.bids = IF a.side = "bid" THEN @ \cup {o} ELSE @,
                        !.asks = IF a.side = "ask" THEN @ \cup {o} ELSE @],
                    audit |-> Append(s.audit, [t |-> ev.ts.time, msg |-> "place",
                                               a |-> o.id, b |-> o.price])],
         sends |-> <<>>, writes |-> {Book, Audit}]

exchange_on_event(s, ev) ==
    CASE ev.body.kind = "place" -> PlaceOrder(s, ev)
      [] ev.body.kind = "match" -> Match(s, ev)

exchange_load_entity(s, old) ==
    [book  |-> IF Book \in DOMAIN old THEN old[Book].book ELSE s.book,
     audit |-> IF Audit \in DOMAIN old THEN old[Audit].audit ELSE s.audit]

-----------------------------------------------------------------------------
(***************************************************************************)
(* The traders: a function from traders to accounts.                       *)
(***************************************************************************)
NewTrader == [cash |-> FirstCash, position |-> 0]

\* Trader_Fill: the cash is unsigned and wraps.
trader_on_event(s, ev) ==
    [state |-> [s EXCEPT
        ![ev.body.trader].cash = (@ + ev.body.cashDelta) % CashModulus,
        ![ev.body.trader].position = @ + ev.body.posDelta],
     sends |-> <<>>, writes |-> {ev.body.trader}]

trader_load_entity(s, old) ==
    [t \in DOMAIN s |-> IF t \in DOMAIN old THEN old[t][t] ELSE s[t]]

-----------------------------------------------------------------------------
(***************************************************************************)
(* Properties.                                                             *)
(***************************************************************************)
\* What is left in the book of the order placed by record i.
OrderId(i) == Cardinality({j \in Standing("place") : j <= i})
LeftOf(i) ==
    MapThenSumSet(LAMBDA o : o.qty,
                  {o \in state.book.bids \cup state.book.asks : o.id = OrderId(i)})
FilledOf(i) == log[i].ev.body.qty - LeftOf(i)

Signed(side, n) == IF side = "bid" THEN n ELSE -n

\* ExchangeLP loses and doubles nothing: whatever was matched too early, undone
\* and matched again, the fills that stand move to each trader what was filled
\* of its standing orders, and the money of the buyers goes to the sellers.
FillsAccountForOrders ==
    LET fills == {m \in 1..Len(sentLog) : sentLog[m].ev.body.kind = "fill"}
        body(m) == sentLog[m].ev.body
    IN  /\ \A t \in {log[i].ev.body.trader : i \in Standing("place")} :
              MapThenSumSet(LAMBDA m : body(m).posDelta,
                            {m \in fills : body(m).trader = t})
              = MapThenSumSet(LAMBDA i : Signed(log[i].ev.body.side, FilledOf(i)),
                              {i \in Standing("place") : log[i].ev.body.trader = t})
        /\ MapThenSumSet(LAMBDA m : body(m).cashDelta, fills) = 0

\* Price-time priority by virtual time, not by the order of execution: of two
\* standing orders of one side, the one with the earlier stamp and a price that is
\* no worse is filled before the other one gets anything.
EarlierOrderFirst ==
    \A i, j \in Standing("place") :
        LET a == log[i].ev
            b == log[j].ev
        IN  /\ Lt(a.ts, b.ts) /\ a.body.side = b.body.side
            /\ Signed(a.body.side, a.body.price) >= Signed(b.body.side, b.body.price)
            /\ FilledOf(j) > 0
            => LeftOf(i) = 0

=============================================================================
