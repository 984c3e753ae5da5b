------------------------------- MODULE Engine -------------------------------
(***************************************************************************)
(* The trading engine (apps/trading-engine/server) for one contest and one *)
(* participant: Kafka consumers that run concurrently (orders, ticks,      *)
(* manual closes, cancellations, contest-wide operations), the database    *)
(* rows they write, the in-memory state they keep beside the database, and *)
(* crash, restart and reload of that memory.                               *)
(*                                                                         *)
(* A position is a signed quantity (long positive, short negative); a side *)
(* change closes the position and opens another with a new identity.       *)
(* qty_used equals qty_open on every path of the code, so one number       *)
(* stands for both.  Prices, scores and events are left out: whether a     *)
(* price is fresh, or triggers an order, is a choice of the environment.   *)
(***************************************************************************)
EXTENDS Integers, FiniteSets, Functions

CONSTANTS
    Symbols,      \* traded symbols
    Orders,       \* order ids clients may send
    OrderSym,     \* [Orders -> Symbols]
    OrderQty,     \* [Orders -> Int], signed by the side
    LimitOrders,  \* the orders of a limit or stop type; the others are market
    TpslOrders,   \* the orders that carry a take-profit or a stop-loss
    QtyTotal,     \* contest_participants.qty_total
    Sharded,      \* SHARD_ENABLED: memory is warmed up from the database
    MaxRequests,  \* bound on close, cancel and TP/SL requests
    MaxFaults     \* bound on crashes and panics

ASSUME EngineAssumption ==
    /\ IsFiniteSet(Symbols) /\ IsFiniteSet(Orders)
    /\ OrderSym \in [Orders -> Symbols]
    /\ OrderQty \in [Orders -> Int \ {0}]
    /\ LimitOrders \subseteq Orders /\ TpslOrders \subseteq Orders
    /\ QtyTotal \in Nat /\ MaxFaults \in Nat /\ MaxRequests \in Nat /\ Sharded \in BOOLEAN

VARIABLES
    status,    \* contests.status: "running" or "ended" (settling, completed, ...)
    seenStatus,    \* the status the engine's caches and trading gate hold
    orders,    \* orders.status, "none" while the row does not exist
    fills,     \* rows of fills per order
    dbPos,     \* the open position per symbol, 0 if there is none
    pid,       \* identity of the latest position per symbol
    dbTpsl,    \* symbols whose position row has take_profit or stop_loss
    dbAvail,   \* contest_participants.qty_available
    mem,       \* UserState: loaded or not, QtyAvailable, Positions, PendingOrders
    book,      \* PendingOrderBook: orders waiting for their price
    tpsl,      \* PendingOrderBook: <<symbol, position id>> with TP/SL levels
    lock,      \* position lock holder per symbol
    task,      \* what each consumer is in the middle of
    wal,       \* log entries written and not yet marked committed
    engine,    \* "ready", "down", "notready" (recovery failed)
    diverged,  \* WriteAheadLog.stateDiverged
    requests,  \* close, cancel and TP/SL requests so far
    faults,    \* crashes and panics so far
    reloaded,  \* history: memory was rebuilt under the running consumers
    raced      \* history: a write hit a row another consumer had changed

rows == <<orders, fills, dbPos, pid, dbTpsl, dbAvail>>
ram == <<mem, book, tpsl>>
sys == <<engine, diverged, faults, wal, reloaded, requests>>
engVars == <<status, seenStatus, rows, ram, lock, task, sys, raced>>

Workers == {"order", "tick", "close", "cancel", "bulk"}
Idle == [pc |-> "idle"]
NoUser == [user |-> FALSE, avail |-> 0, pos |-> [s \in Symbols |-> 0], pending |-> {}]

Abs(n) == IF n < 0 THEN -n ELSE n
Exposure == SumFunctionOnSet([s \in Symbols |-> Abs(dbPos[s])], Symbols)
QtySum(S) == SumFunctionOnSet([o \in Orders |-> Abs(OrderQty[o])], S)
Opposite(p, q) == (p > 0 /\ q < 0) \/ (p < 0 /\ q > 0)
Smaller(a, b) == IF a < b THEN a ELSE b

\* freeQtyRequiredForOrder: what an order needs beyond the position it reduces.
FreeRequired(p, q) ==
    IF ~Opposite(p, q) THEN Abs(q)
    ELSE IF Abs(q) <= Abs(p) THEN 0 ELSE Abs(q) - Abs(p)

\* updatePositionTx: the quantity a fill of q gives back on a position p.
\* preReserved: the whole order quantity had been reserved before the fill.
Released(p, q, pre) ==
    IF ~Opposite(p, q) THEN 0
    ELSE Smaller(Abs(p), Abs(q)) * (IF pre THEN 2 ELSE 1)

\* A fill starts a position of its own when there was none or it flips the side.
Fresh(p, q) == p = 0 \/ (Opposite(p, q) /\ Abs(q) > Abs(p))

\* GetOrCreateUser: memory of the participant, made from its row on first use.
FreshUser == [user |-> TRUE, avail |-> dbAvail, pos |-> [s \in Symbols |-> 0], pending |-> {}]
LoadedUser == IF mem.user THEN mem
              ELSE FreshUser

Busy(w) == task[w].pc # "idle"
Set(w, t) == task' = [task EXCEPT ![w] = t]
Done(w) == Set(w, Idle)
Acquire(w, s) == lock[s] = "free" /\ lock' = [lock EXCEPT ![s] = w]
Unlock(s) == lock' = [lock EXCEPT ![s] = "free"]

Requested == /\ requests < MaxRequests /\ requests' = requests + 1
             /\ UNCHANGED <<engine, diverged, faults, wal, reloaded>>

EngInit ==
    /\ status = "running" /\ seenStatus = "running"
    /\ orders = [o \in Orders |-> "none"]
    /\ fills = [o \in Orders |-> 0]
    /\ dbPos = [s \in Symbols |-> 0] /\ pid = [s \in Symbols |-> 0]
    /\ dbTpsl = {} /\ dbAvail = QtyTotal
    /\ mem = NoUser /\ book = {} /\ tpsl = {}
    /\ lock = [s \in Symbols |-> "free"]
    /\ task = [w \in Workers |-> Idle]
    /\ wal = {} /\ engine = "ready" /\ diverged = FALSE
    /\ faults = 0 /\ requests = 0 /\ raced = FALSE /\ reloaded = FALSE

-----------------------------------------------------------------------------
(* The order consumer *)

\* ProcessOrder up to InsertOrder.  The early rejections (rate limit, market
\* hours, symbol, quantity limits) leave no trace; an id whose row exists is
\* acknowledged or refused again without a second execution.
Admissible(o) ==
    /\ engine = "ready" /\ ~diverged
    /\ seenStatus = "running"
    /\ orders[o] = "none"
    /\ FreeRequired(dbPos[OrderSym[o]], OrderQty[o]) <= LoadedUser.avail

ProcessOrder(o) ==
    /\ ~Busy("order")
    /\ Admissible(o)
    /\ mem' = LoadedUser
    /\ orders' = [orders EXCEPT ![o] = "pending"]
    /\ Set("order", [pc |-> "inserted", order |-> o])
    /\ UNCHANGED <<status, seenStatus, fills, dbPos, pid, dbTpsl, dbAvail, book, tpsl, lock, sys, raced>>

\* executeMarketOrder and processPendingOrder refuse an inserted order: no
\* fresh price, lock timeout, no free quantity.
RejectInserted ==
    /\ task["order"].pc = "inserted"
    /\ orders' = [orders EXCEPT ![task["order"].order] = "rejected"]
    /\ Done("order")
    /\ UNCHANGED <<status, seenStatus, fills, dbPos, pid, dbTpsl, dbAvail, ram, lock, sys, raced>>

\* executeMarketOrder: under the position lock, reserve what the order needs
\* and read the contest status afresh.
LockMarket(o) ==
    LET s == OrderSym[o]  free == FreeRequired(dbPos[s], OrderQty[o]) IN
    /\ task["order"] = [pc |-> "inserted", order |-> o]
    /\ o \notin LimitOrders
    /\ Acquire("order", s)
    /\ status = "running"
    /\ mem.avail >= free
    /\ mem' = [mem EXCEPT !.avail = @ - free]
    /\ Set("order", [pc |-> "tx", kind |-> "market", order |-> o, sym |-> s,
                     qty |-> OrderQty[o], free |-> free, pos |-> dbPos[s],
                     pre |-> free = Abs(OrderQty[o]), running |-> status = "running"])
    /\ UNCHANGED <<status, seenStatus, rows, book, tpsl, sys, raced>>

\* processPendingOrder: reserve, then write 'open' and the quantity.
OpenPending(o) ==
    /\ task["order"] = [pc |-> "inserted", order |-> o]
    /\ o \in LimitOrders
    /\ mem.avail >= Abs(OrderQty[o])
    /\ mem' = [mem EXCEPT !.avail = @ - Abs(OrderQty[o])]
    /\ orders' = [orders EXCEPT ![o] = "open"]
    /\ dbAvail' = mem'.avail
    /\ raced' = (raced \/ orders[o] # "pending")
    /\ Set("order", [pc |-> "opened", order |-> o])
    /\ UNCHANGED <<status, seenStatus, fills, dbPos, pid, dbTpsl, book, tpsl, lock, sys>>

\* That transaction fails: the reservation is undone, the row stays 'pending'.
OpenPendingFails(o) ==
    /\ task["order"] = [pc |-> "inserted", order |-> o]
    /\ o \in LimitOrders
    /\ Done("order")
    /\ UNCHANGED <<status, seenStatus, rows, ram, lock, sys, raced>>

\* The memory half of processPendingOrder.
AddToBook ==
    LET o == task["order"].order IN
    /\ task["order"].pc = "opened"
    /\ book' = book \cup {o}
    /\ mem' = [mem EXCEPT !.pending = @ \cup {o}]
    /\ Done("order")
    /\ UNCHANGED <<status, seenStatus, rows, tpsl, lock, sys, raced>>

-----------------------------------------------------------------------------
(* The tick consumer *)

\* ProcessTick: a fresh price triggers an order of the book, of which
\* EvaluatePendingOrders hands out a copy.
TriggerOrder(o) ==
    /\ engine = "ready" /\ ~Busy("tick")
    /\ o \in book \cap LimitOrders
    /\ Set("tick", [pc |-> "triggered", order |-> o])
    /\ UNCHANGED <<status, seenStatus, rows, ram, lock, sys, raced>>

\* executePendingOrder returns: stale price, lock timeout, no user in memory.
LeaveTriggered ==
    /\ task["tick"].pc \in {"triggered", "triggeredTpsl"}
    /\ Done("tick")
    /\ UNCHANGED <<status, seenStatus, rows, ram, lock, sys, raced>>

\* Mutant: the seenStatus contest status decides.
LockTriggeredCached ==
    LET o == task["tick"].order  s == OrderSym[o] IN
    /\ task["tick"].pc = "triggered"
    /\ mem.user
    /\ seenStatus = "running"
    /\ Acquire("tick", s)
    /\ Set("tick", [pc |-> "tx", kind |-> "pending", order |-> o, sym |-> s,
                    qty |-> OrderQty[o], free |-> 0, pos |-> dbPos[s],
                    pre |-> TRUE, running |-> status = "running"])
    /\ UNCHANGED <<status, seenStatus, rows, ram, sys, raced>>

\* executePendingOrder under the lock.  The order itself is not read again.
LockTriggered ==
    LET o == task["tick"].order  s == OrderSym[o] IN
    /\ task["tick"].pc = "triggered"
    /\ mem.user
    /\ status = "running"
    /\ Acquire("tick", s)
    /\ Set("tick", [pc |-> "tx", kind |-> "pending", order |-> o, sym |-> s,
                    qty |-> OrderQty[o], free |-> 0, pos |-> dbPos[s],
                    pre |-> TRUE, running |-> status = "running"])
    /\ UNCHANGED <<status, seenStatus, rows, ram, sys, raced>>

\* executePendingOrder finds the contest over: the order is dropped, its
\* quantity released in memory only, its row rejected.
RejectTriggered ==
    LET o == task["tick"].order IN
    /\ task["tick"].pc = "triggered"
    /\ mem.user
    /\ status # "running"
    /\ lock[OrderSym[o]] = "free"
    /\ book' = book \ {o}
    /\ mem' = [user |-> mem.user, avail |-> mem.avail + Abs(OrderQty[o]),
               pos |-> mem.pos, pending |-> mem.pending \ {o}]
    /\ orders' = [orders EXCEPT ![o] = "rejected"]
    /\ raced' = (raced \/ orders[o] # "open" \/ o \notin mem.pending)
    /\ Done("tick")
    /\ UNCHANGED <<status, seenStatus, fills, dbPos, pid, dbTpsl, dbAvail, tpsl, lock, sys>>

\* EvaluateTPSL: the price reaches the level of a tracked position.
TriggerTpsl(s, i) ==
    /\ engine = "ready" /\ ~Busy("tick")
    /\ <<s, i>> \in tpsl
    /\ Set("tick", [pc |-> "triggeredTpsl", sym |-> s, id |-> i])
    /\ UNCHANGED <<status, seenStatus, rows, ram, lock, sys, raced>>

\* executeTPSL: whatever position the symbol has now is closed in full, and
\* the contest status is not read again.
LockTpsl ==
    LET s == task["tick"].sym IN
    /\ task["tick"].pc = "triggeredTpsl"
    /\ mem.user
    /\ dbPos[s] # 0
    /\ Acquire("tick", s)
    /\ Set("tick", [pc |-> "tx", kind |-> "tpsl", sym |-> s, id |-> task["tick"].id,
                    qty |-> -dbPos[s], free |-> 0, pos |-> dbPos[s],
                    pre |-> FALSE, running |-> status = "running"])
    /\ UNCHANGED <<status, seenStatus, rows, ram, sys, raced>>

\* executeTPSL finds no position: the level is forgotten.
ForgetTpsl ==
    LET t == task["tick"] IN
    /\ t.pc = "triggeredTpsl"
    /\ mem.user
    /\ lock[t.sym] = "free"
    /\ dbPos[t.sym] = 0
    /\ tpsl' = tpsl \ {<<t.sym, t.id>>}
    /\ Done("tick")
    /\ UNCHANGED <<status, seenStatus, rows, mem, book, lock, sys, raced>>

-----------------------------------------------------------------------------
(* Manual close, TP/SL change, cancellation *)

\* ProcessClosePosition: k contracts of the position, read under the lock; the
\* participant's new quantity is computed here, before the transaction.
LockClose(s, k) ==
    /\ engine = "ready" /\ ~Busy("close")
    /\ seenStatus = "running"
    /\ dbPos[s] # 0 /\ k <= Abs(dbPos[s])
    /\ Acquire("close", s)
    /\ mem' = LoadedUser
    /\ Set("close", [pc |-> "tx", kind |-> "close", sym |-> s, id |-> pid[s],
                     qty |-> IF dbPos[s] > 0 THEN -k ELSE k, free |-> 0,
                     pos |-> dbPos[s], pre |-> FALSE, running |-> status = "running",
                     avail |-> LoadedUser.avail + k])
    /\ Requested
    /\ UNCHANGED <<status, seenStatus, rows, book, tpsl, raced>>

\* ProcessModifyTPSL: the levels are written to the row and tracked; nil levels
\* forget them.
ModifyTPSL(s, on) ==
    /\ engine = "ready" /\ seenStatus = "running"
    /\ dbPos[s] # 0
    /\ dbTpsl' = IF on THEN dbTpsl \cup {s} ELSE dbTpsl \ {s}
    /\ tpsl' = IF on THEN tpsl \cup {<<s, pid[s]>>} ELSE tpsl \ {<<s, pid[s]>>}
    /\ Requested
    /\ UNCHANGED <<status, seenStatus, orders, fills, dbPos, pid, dbAvail, mem, book, lock, task, raced>>

\* ProcessCancelOrder: only orders in the user's memory are known to it.  It
\* takes no position lock.
StartCancel(o) ==
    /\ engine = "ready" /\ ~Busy("cancel")
    /\ mem.user /\ o \in mem.pending
    /\ Set("cancel", [pc |-> "cancelTx", order |-> o, avail |-> mem.avail + Abs(OrderQty[o])])
    /\ Requested
    /\ UNCHANGED <<status, seenStatus, rows, ram, lock, raced>>

\* Its transaction sets the status and the quantity without reading them.
CommitCancel ==
    LET t == task["cancel"] IN
    /\ t.pc = "cancelTx"
    /\ orders' = [orders EXCEPT ![t.order] = "cancelled"]
    /\ dbAvail' = t.avail
    /\ raced' = (raced \/ orders[t.order] # "open")
    /\ Set("cancel", [pc |-> "cancelApply", order |-> t.order])
    /\ UNCHANGED <<status, seenStatus, fills, dbPos, pid, dbTpsl, ram, lock, sys>>

ApplyCancel ==
    LET o == task["cancel"].order IN
    /\ task["cancel"].pc = "cancelApply"
    /\ book' = book \ {o}
    /\ mem' = [user |-> mem.user, avail |-> mem.avail + Abs(OrderQty[o]),
               pos |-> mem.pos, pending |-> mem.pending \ {o}]
    /\ Done("cancel")
    /\ UNCHANGED <<status, seenStatus, rows, tpsl, lock, sys, raced>>

-----------------------------------------------------------------------------
(* The transaction of a fill or close, and its memory half *)

\* The fill transaction: fill row, order status, position, participant.  The
\* position is read again with FOR UPDATE, except by a manual close, which
\* writes the row it read before (and cannot reopen a closed one).
CommitFill(w) ==
    LET t == task[w]  s == t.sym  p == dbPos[s]
        manual == t.kind = "close"
        ordered == t.kind \in {"market", "pending"}
        back == Released(IF manual THEN t.pos ELSE p, t.qty, t.pre)
        left == IF manual /\ p = 0 THEN 0 ELSE p + t.qty
        entry == CASE ~Opposite(p, t.qty) -> "set"
                   [] Abs(t.qty) >= Abs(p) -> "close"
                   [] OTHER -> "partial"
    IN
    /\ t.pc = "tx"
    /\ dbPos' = [dbPos EXCEPT ![s] = left]
    /\ pid' = [pid EXCEPT ![s] = IF ~manual /\ Fresh(p, t.qty) THEN @ + 1 ELSE @]
    /\ dbTpsl' = IF left = 0 \/ pid'[s] # pid[s] THEN dbTpsl \ {s} ELSE dbTpsl
    /\ dbAvail' = IF manual THEN t.avail ELSE mem.avail + back
    /\ IF ordered
       THEN /\ orders' = [orders EXCEPT ![t.order] = "filled"]
            /\ fills' = [fills EXCEPT ![t.order] = @ + 1]
       ELSE UNCHANGED <<orders, fills>>
    /\ raced' = \/ raced \/ p # t.pos
                \/ ordered /\ orders[t.order] # (IF t.kind = "market" THEN "pending" ELSE "open")
    /\ Set(w, [pc |-> "apply", tx |-> t, back |-> back, left |-> left, entry |-> entry])
    /\ UNCHANGED <<status, seenStatus, ram, lock, sys>>

\* The transaction fails: a market order returns its reservation and keeps its
\* 'pending' row; a triggered order stays in the book.
FillFails(w) ==
    /\ task[w].pc = "tx"
    /\ mem' = [mem EXCEPT !.avail = @ + task[w].free]
    /\ Unlock(task[w].sym)
    /\ Done(w)
    /\ UNCHANGED <<status, seenStatus, rows, book, tpsl, sys, raced>>

\* Mutant: the filled order stays in the book.
AfterCommitKeepsOrder(w, applied) ==
    LET a == task[w]  t == a.tx  s == t.sym  o == IF t.kind = "pending" THEN {t.order} ELSE {} IN
    /\ a.pc = "apply"
    /\ mem' = [user |-> mem.user,
               avail |-> IF applied THEN mem.avail + a.back ELSE mem.avail,
               pos |-> IF applied THEN [mem.pos EXCEPT ![s] = a.left] ELSE mem.pos,
               pending |-> mem.pending \ o]
    /\ book' = book
    /\ tpsl' = CASE t.kind = "tpsl" -> tpsl \ {<<s, t.id>>}
                 [] t.kind = "close" -> IF a.left = 0 THEN tpsl \ {<<s, t.id>>} ELSE tpsl
                 [] OTHER -> IF t.order \in TpslOrders /\ mem'.pos[s] # 0
                             THEN tpsl \cup {<<s, pid[s]>>} ELSE tpsl
    /\ Unlock(s)
    /\ Done(w)
    /\ UNCHANGED <<status, seenStatus, rows, engine, wal, requests, reloaded, raced>>

\* What follows a committed transaction: the order or level leaves the book,
\* and applyPositionResultToMemory runs inside safeUpdateInMemoryState.  If
\* that update panics the quantities stay as they were.
AfterCommit(w, applied) ==
    LET a == task[w]  t == a.tx  s == t.sym  o == IF t.kind = "pending" THEN {t.order} ELSE {} IN
    /\ a.pc = "apply"
    /\ mem' = [user |-> mem.user,
               avail |-> IF applied THEN mem.avail + a.back ELSE mem.avail,
               pos |-> IF applied THEN [mem.pos EXCEPT ![s] = a.left] ELSE mem.pos,
               pending |-> mem.pending \ o]
    /\ book' = book \ o
    /\ tpsl' = CASE t.kind = "tpsl" -> tpsl \ {<<s, t.id>>}
                 [] t.kind = "close" -> IF a.left = 0 THEN tpsl \ {<<s, t.id>>} ELSE tpsl
                 [] OTHER -> IF t.order \in TpslOrders /\ mem'.pos[s] # 0
                             THEN tpsl \cup {<<s, pid[s]>>} ELSE tpsl
    /\ Unlock(s)
    /\ Done(w)
    /\ UNCHANGED <<status, seenStatus, rows, engine, wal, requests, reloaded, raced>>

ApplyFill(w) == AfterCommit(w, TRUE) /\ UNCHANGED <<diverged, faults>>

\* The panic is recovered: the log is marked diverged, which stops new orders,
\* and a reload is started.
ApplyPanics(w) ==
    /\ faults < MaxFaults
    /\ AfterCommit(w, FALSE)
    /\ faults' = faults + 1
    /\ diverged' = TRUE

-----------------------------------------------------------------------------
(* The end of the contest *)

EndContest ==
    /\ status = "running"
    /\ status' = "ended"
    /\ UNCHANGED <<seenStatus, rows, ram, lock, task, sys, raced>>

\* processContestStateEvent, or a cache entry that expires.
SeeContestState ==
    /\ seenStatus # status
    /\ seenStatus' = status
    /\ UNCHANGED <<status, rows, ram, lock, task, sys, raced>>

\* cancelAllContestOrders: rows that are 'pending' or 'open', whoever is
\* working on them, and the quantity of each given back.
CancelAllTx ==
    LET S == {o \in Orders : orders[o] \in {"pending", "open"}} IN
    /\ engine = "ready" /\ ~Busy("bulk")
    /\ status = "ended"
    /\ S # {}
    /\ orders' = [o \in Orders |-> IF o \in S THEN "cancelled" ELSE orders[o]]
    /\ dbAvail' = dbAvail + QtySum(S)
    /\ raced' = (raced \/ \E o \in S : orders[o] = "pending" \/ o \notin mem.pending)
    /\ Set("bulk", [pc |-> "cancelAll", orders |-> S])
    /\ UNCHANGED <<status, seenStatus, fills, dbPos, pid, dbTpsl, ram, lock, sys>>

CancelAllApply ==
    LET S == task["bulk"].orders IN
    /\ task["bulk"].pc = "cancelAll"
    /\ book' = book \ S
    /\ mem' = IF mem.user
              THEN [user |-> TRUE, avail |-> mem.avail + QtySum(S),
                    pos |-> mem.pos, pending |-> mem.pending \ S] ELSE mem
    /\ Done("bulk")
    /\ UNCHANGED <<status, seenStatus, rows, tpsl, lock, sys, raced>>

\* forceCloseAllContestPositions: without position locks.
CloseAllTx ==
    /\ engine = "ready" /\ ~Busy("bulk")
    /\ status = "ended"
    /\ Exposure > 0
    /\ dbAvail' = dbAvail + Exposure
    /\ dbPos' = [s \in Symbols |-> 0]
    /\ dbTpsl' = {}
    /\ Set("bulk", [pc |-> "closeAll", pos |-> dbPos])
    /\ UNCHANGED <<status, seenStatus, orders, fills, pid, ram, lock, sys, raced>>

CloseAllApply ==
    LET p == task["bulk"].pos IN
    /\ task["bulk"].pc = "closeAll"
    /\ mem' = IF mem.user
              THEN [user |-> TRUE, pending |-> mem.pending,
                    avail |-> mem.avail + SumFunctionOnSet([s \in Symbols |-> Abs(p[s])], Symbols),
                    pos |-> [s \in Symbols |-> IF p[s] # 0 THEN 0 ELSE mem.pos[s]]]
              ELSE mem
    /\ Done("bulk")
    /\ UNCHANGED <<status, seenStatus, rows, book, tpsl, lock, sys, raced>>

\* processContestStateEvent, five minutes after a final status: the contest is
\* dropped from memory.
EvictContest ==
    /\ engine = "ready" /\ seenStatus = "ended"
    /\ \A w \in Workers : ~Busy(w)
    /\ mem.user
    /\ mem' = NoUser /\ book' = {} /\ tpsl' = {}
    /\ UNCHANGED <<status, seenStatus, rows, lock, task, sys, raced>>

-----------------------------------------------------------------------------
(* Crash, restart, reload *)

\* A crash loses memory, locks and work in progress.  An update that was being
\* applied may have its log entry written and not marked committed.
Crash ==
    /\ engine = "ready" /\ faults < MaxFaults
    /\ faults' = faults + 1
    /\ \E W \in SUBSET {w \in Workers : task[w].pc = "apply"} :
         wal' = {[sym |-> task[w].tx.sym, left |-> task[w].left, entry |-> task[w].entry] : w \in W}
    /\ engine' = "down" /\ diverged' = FALSE
    /\ mem' = NoUser /\ book' = {} /\ tpsl' = {}
    /\ lock' = [s \in Symbols |-> "free"]
    /\ task' = [w \in Workers |-> Idle]
    /\ UNCHANGED <<status, seenStatus, rows, requests, reloaded, raced>>

\* The memory that a reload or a sharded warm-up builds from the database.
FromDB == [user |-> TRUE, avail |-> dbAvail, pos |-> dbPos,
           pending |-> {o \in Orders : orders[o] = "open"}]

\* PendingOrderBook.ReloadFromDB: rows with status 'pending' of any type, and
\* positions whose row has a level.
BookFromDB == {o \in Orders : orders[o] = "pending"}
TpslFromDB == {<<s, pid[s]>> : s \in dbTpsl}

\* ReplayPendingEntries: an entry of a close names the position under another
\* JSON key than the check reads, so the check asks the database for an empty
\* uuid and recovery stops; an entry of a partial close lacks the keys of the
\* quantities, so its position is restored with none.
Replayable == \A e \in wal : e.entry # "close"
Replayed(m) == [m EXCEPT !.pos = [s \in Symbols |->
    IF \E e \in wal : e.sym = s
    THEN LET e == CHOOSE e \in wal : e.sym = s IN IF e.entry = "partial" THEN 0 ELSE e.left
    ELSE @[s]]]

Restart ==
    /\ engine = "down"
    /\ seenStatus' = status
    /\ IF Replayable
       THEN /\ engine' = "ready" /\ wal' = {}
            /\ mem' = IF Sharded \/ wal # {}
                      THEN Replayed(IF Sharded THEN FromDB
                                    ELSE FreshUser)
                      ELSE NoUser
       ELSE engine' = "notready" /\ UNCHANGED <<mem, wal>>
    /\ book' = BookFromDB /\ tpsl' = TpslFromDB
    /\ UNCHANGED <<status, rows, lock, task, diverged, faults, requests, reloaded, raced>>

\* StateReloader.ReloadState after a divergence.  Only running contests are
\* read again; the book is cleared and read as at startup.
ReloadState ==
    /\ engine = "ready" /\ diverged
    /\ diverged' = FALSE /\ reloaded' = TRUE
    /\ mem' = IF status = "running" THEN FromDB ELSE mem
    /\ book' = BookFromDB /\ tpsl' = TpslFromDB
    /\ UNCHANGED <<status, seenStatus, rows, lock, task, engine, faults, wal, requests, raced>>

-----------------------------------------------------------------------------
EngNext ==
    \/ \E o \in Orders :
         \/ ProcessOrder(o) \/ LockMarket(o) \/ OpenPending(o) \/ OpenPendingFails(o)
         \/ TriggerOrder(o) \/ StartCancel(o)
    \/ RejectInserted \/ AddToBook
    \/ LeaveTriggered \/ LockTriggered \/ RejectTriggered \/ LockTpsl \/ ForgetTpsl
    \/ \E s \in Symbols : \E i \in 1 .. pid[s] : TriggerTpsl(s, i)
    \/ \E s \in Symbols : \E k \in 1 .. QtyTotal : LockClose(s, k)
    \/ \E s \in Symbols, on \in BOOLEAN : ModifyTPSL(s, on)
    \/ CommitCancel \/ ApplyCancel
    \/ \E w \in Workers : CommitFill(w) \/ FillFails(w) \/ ApplyFill(w) \/ ApplyPanics(w)
    \/ EndContest \/ SeeContestState
    \/ CancelAllTx \/ CancelAllApply \/ CloseAllTx \/ CloseAllApply
    \/ EvictContest \/ Crash \/ Restart \/ ReloadState

EngSpec == EngInit /\ [][EngNext]_engVars

-----------------------------------------------------------------------------
(* Properties *)

OrderStatus == {"none", "pending", "open", "filled", "rejected", "cancelled"}

\* The rows, the memory and the work in progress have their shapes.
EngTypeOK ==
    /\ status \in {"running", "ended"} /\ seenStatus \in {"running", "ended"}
    /\ orders \in [Orders -> OrderStatus] /\ fills \in [Orders -> Nat]
    /\ dbPos \in [Symbols -> Int] /\ pid \in [Symbols -> Nat]
    /\ dbTpsl \subseteq Symbols /\ dbAvail \in Int
    /\ mem.user \in BOOLEAN /\ mem.avail \in Int
    /\ mem.pos \in [Symbols -> Int] /\ mem.pending \subseteq LimitOrders
    /\ book \subseteq Orders /\ tpsl \subseteq (Symbols \X Nat)
    /\ lock \in [Symbols -> Workers \cup {"free"}]
    /\ engine \in {"ready", "down", "notready"}

\* An order id is filled at most once, however often its record is delivered,
\* through crashes, restarts and cancellations in between.  The exception the
\* code leaves is a reload of memory under a limit order that is being placed:
\* the reload puts the 'pending' row into the book before it is 'open'.
FilledOnce == ~reloaded => \A o \in Orders : fills[o] <= 1

\* Quantity is neither lost nor created: when no consumer is at work, what is
\* available in memory, what open positions hold and what waiting orders have
\* reserved add up to the participant's total.  It holds until a crash or a
\* panic (memory is then rebuilt from a row that other symbols' transactions
\* overwrite) and unless two consumers raced for the same row.
QtyConserved ==
    (/\ faults = 0 /\ ~raced /\ mem.user
     /\ \A w \in Workers : ~Busy(w))
    => mem.avail + Exposure + QtySum(mem.pending) = QtyTotal

\* No fill or close whose position lock was taken after the contest ended adds
\* exposure, although caches and gate may still say "running" (unless the
\* forced close took the position away under the lock, see raced).
EndedOnlyReduces ==
    [][\A w \in Workers :
         (task[w].pc = "tx" /\ task'[w].pc = "apply" /\ ~task[w].running /\ ~raced')
         => Exposure' <= Exposure]_engVars

\* pending.go: ReloadFromDB "ensures no pending orders or TP/SL are lost across
\* engine restarts": an accepted order is back in the book of a ready engine.
\* (An order whose placement has not yet reached the book is excepted.)
RestartKeepsOpenOrders ==
    engine = "ready" =>
        \A o \in Orders : orders[o] = "open" =>
            o \in book \/ (\E w \in Workers : Busy(w) /\ task[w].pc # "tx")
=============================================================================
