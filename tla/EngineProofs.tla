---------------------------- MODULE EngineProofs ----------------------------
(***************************************************************************)
(* Proofs about the trading engine: what it promises of fills, exposure    *)
(* and quantities, for any finite sets of symbols and orders, any          *)
(* quantities and any number of crashes and panics.  TradingProofs puts    *)
(* them under the specification of the trading side.                       *)
(***************************************************************************)
EXTENDS Engine, SumTheorems

-----------------------------------------------------------------------------
(* The invariant. *)

\* What each consumer may be in the middle of.
Stages(w) ==
  {"idle"} \cup
  (CASE w = "order" -> {"inserted", "opened", "tx", "apply"}
     [] w = "tick" -> {"triggered", "triggeredTpsl", "tx", "apply"}
     [] w = "close" -> {"tx", "apply"}
     [] w = "cancel" -> {"cancelTx", "cancelApply"}
     [] w = "bulk" -> {"cancelAll", "closeAll"})

\* The transactions each consumer runs.
FillKinds(w) ==
  CASE w = "order" -> {"market"}
    [] w = "tick" -> {"pending", "tpsl"}
    [] w = "close" -> {"close"}
    [] OTHER -> {}

\* The transaction of a fill or close as it was set up under the lock.
TxTyped(t) ==
  /\ t.sym \in Symbols /\ t.qty \in Int \ {0} /\ t.pos \in Int /\ t.free \in Nat
  /\ t.pre \in BOOLEAN /\ t.running \in BOOLEAN
  /\ t.kind \in {"market", "pending"} => t.order \in Orders /\ t.qty = OrderQty[t.order]
  /\ t.kind = "pending" => t.order \in LimitOrders
  /\ t.kind \in {"tpsl", "close"} => t.id \in Nat
  /\ t.kind = "close" => t.avail \in Int

\* The work of a consumer has the shape of its stage.
TaskTyped(w, t) ==
  /\ t.pc \in Stages(w)
  /\ t.pc = "inserted" => t.order \in Orders
  /\ t.pc \in {"opened", "triggered", "cancelTx", "cancelApply"} => t.order \in LimitOrders
  /\ t.pc = "cancelTx" => t.avail \in Int
  /\ t.pc = "triggeredTpsl" => t.sym \in Symbols /\ t.id \in Nat
  /\ t.pc = "tx" => TxTyped(t) /\ t.kind \in FillKinds(w)
  /\ t.pc = "apply" => TxTyped(t.tx) /\ t.tx.kind \in FillKinds(w) /\ t.back \in Int /\ t.left \in Int
  /\ t.pc = "cancelAll" => t.orders \subseteq Orders
  /\ t.pc = "closeAll" => t.pos \in [Symbols -> Int]

\* Every consumer has work of its own shape.
TasksTyped == DOMAIN task = Workers /\ \A w \in Workers : TaskTyped(w, task[w])

\* The database rows; only a limit or stop order is ever 'open'.
RowsTyped ==
  /\ orders \in [Orders -> OrderStatus] /\ fills \in [Orders -> Nat]
  /\ dbPos \in [Symbols -> Int] /\ pid \in [Symbols -> Nat]
  /\ dbTpsl \subseteq Symbols /\ dbAvail \in Int
  /\ \A o \in Orders : orders[o] = "open" => o \in LimitOrders

\* UserState.
MemoryShape == [user : BOOLEAN, avail : Int, pos : [Symbols -> Int], pending : SUBSET LimitOrders]

\* Memory of the participant and the book of waiting orders.
MemoryTyped ==
  /\ mem \in MemoryShape
  /\ book \subseteq Orders /\ tpsl \subseteq (Symbols \X Nat)

\* Contest status, locks, the log, and what the engine went through.
SystemTyped ==
  /\ status \in {"running", "ended"} /\ seenStatus \in {"running", "ended"}
  /\ lock \in [Symbols -> Workers \cup {"free"}]
  /\ engine \in {"ready", "down", "notready"} /\ diverged \in BOOLEAN
  /\ faults \in Nat
  /\ raced \in BOOLEAN /\ reloaded \in BOOLEAN
  /\ \A e \in wal : e.sym \in Symbols /\ e.left \in Int

\* Everything together.
EngineTyped == RowsTyped /\ MemoryTyped /\ SystemTyped /\ TasksTyped

\* The order the order consumer or the tick consumer is at work on.
Placing(o) == task["order"].pc \in {"inserted", "opened"} /\ task["order"].order = o
Filling(w, o) == task[w].pc = "tx" /\ task[w].kind \in {"market", "pending"} /\ task[w].order = o
Filled(w, o) == task[w].pc = "apply" /\ task[w].tx.kind \in {"market", "pending"} /\ task[w].tx.order = o
Triggering(o) == task["tick"].pc = "triggered" /\ task["tick"].order = o
Cancelling(o) == task["cancel"].pc = "cancelTx" /\ task["cancel"].order = o
Ticked(o) == Triggering(o) \/ Filling("tick", o) \/ Filled("tick", o)

\* A crash left nobody at work.
IdleWhenDown == engine # "ready" => \A w \in Workers : task[w].pc = "idle"

\* An order is filled once: while it is being placed, waits in the book, or is
\* taken up by the tick consumer, nothing has filled it.
OnceFor(o) ==
  /\ fills[o] <= 1
  /\ orders[o] \in {"none", "pending"} => fills[o] = 0
  /\ Placing(o) \/ Filling("order", o) => fills[o] = 0 /\ o \notin book /\ ~Ticked(o)
  /\ o \in book \/ Ticked(o) \/ Placing(o) => orders[o] # "none"
  /\ o \in book => fills[o] = 0 \/ Filled("tick", o)
  /\ Triggering(o) \/ Filling("tick", o) => fills[o] = 0

\* So for every order, unless memory was rebuilt under the running consumers.
OnceInv == IdleWhenDown /\ (~reloaded => \A o \in Orders : OnceFor(o))

\* A transaction closes no more than the position it was computed from.
TxSound(t) ==
  t.pc = "tx" =>
    /\ t.kind \in {"market", "pending"} => t.running
    /\ t.kind = "market" => t.free = FreeRequired(t.pos, t.qty) /\ t.pre = (t.free = Abs(t.qty))
    /\ t.kind # "market" => t.free = 0
    /\ t.kind = "pending" => t.pre = TRUE
    /\ t.kind \in {"tpsl", "close"} =>
         t.pre = FALSE /\ Opposite(t.pos, t.qty) /\ Abs(t.qty) <= Abs(t.pos)

\* So for every consumer.
TxInv == \A w \in Workers : TxSound(task[w])

\* What a consumer holds between the steps of its operation.
OrderHolds(t) == CASE t.pc = "opened" -> Abs(OrderQty[t.order])
                   [] t.pc = "tx" -> t.free
                   [] t.pc = "apply" -> t.back
                   [] OTHER -> 0

\* A waiting order's fill has its reservation still counted among the waiting.
TickHolds(t) == IF t.pc = "apply"
                THEN IF t.tx.kind = "pending" THEN t.back - Abs(t.tx.qty) ELSE t.back
                ELSE 0

\* A close holds what it gives back.
CloseHolds(t) == IF t.pc = "apply" THEN t.back ELSE 0

\* What positions hold.
Spread(p) == SumFunctionOnSet([s \in Symbols |-> Abs(p[s])], Symbols)

\* A forced close holds what it took off the positions.
BulkHolds(t) == IF t.pc = "closeAll" THEN Spread(t.pos) ELSE 0

\* All of it.
InFlight == OrderHolds(task["order"]) + TickHolds(task["tick"])
            + CloseHolds(task["close"]) + BulkHolds(task["bulk"])

\* What is free in memory, held by positions, reserved by waiting orders and
\* held between two steps is the participant's total.
Balanced == mem.avail + Exposure + QtySum(mem.pending) + InFlight = QtyTotal

\* Orders in memory that another consumer has already settled in the database.
Claims ==
  /\ \A o \in LimitOrders : Filled("tick", o) => o \in mem.pending /\ orders[o] = "filled"
  /\ task["cancel"].pc = "cancelApply" =>
       /\ task["cancel"].order \in mem.pending /\ orders[task["cancel"].order] = "cancelled"
       /\ task["bulk"].pc = "cancelAll" => task["cancel"].order \notin task["bulk"].orders
  /\ task["bulk"].pc = "cancelAll" =>
       \A o \in task["bulk"].orders : o \in mem.pending /\ orders[o] = "cancelled"
  /\ \A o \in Orders : Placing(o) => o \notin mem.pending /\ ~Cancelling(o)
  /\ \A o \in Orders : Cancelling(o) => orders[o] # "none"
  /\ \A o \in mem.pending : orders[o] # "none"
  /\ \A o \in Orders : orders[o] = "open" =>
       o \in mem.pending \/ (task["order"].pc = "opened" /\ task["order"].order = o)

\* The participant before its first order.
Pristine ==
  /\ dbPos = [s \in Symbols |-> 0] /\ dbAvail = QtyTotal
  /\ \A o \in Orders : orders[o] = "none"
  /\ book = {} /\ tpsl = {}
  /\ \A w \in Workers : task[w].pc = "idle"

\* The engine learns of the end only after it.
StatusSeen == seenStatus = "ended" => status = "ended"

\* Without a fault the engine is ready and memory was never rebuilt.
Faultless == faults = 0 => engine = "ready" /\ ~diverged /\ ~reloaded

\* Nothing crashed and no two consumers raced for a row.
Undisturbed == faults = 0 /\ ~raced

\* Then the balance holds while the participant is in memory; it is not before
\* the first order and after the contest was dropped.
Conserved ==
  Undisturbed =>
    IF mem.user THEN Balanced /\ Claims ELSE seenStatus = "ended" \/ Pristine

\* The invariant of the quantities.
QtyInv == StatusSeen /\ Faultless /\ Conserved

\* The engine's invariant.
EngineInv == EngineTyped /\ OnceInv /\ TxInv /\ QtyInv

-----------------------------------------------------------------------------
(* The shapes of rows, memory and work in progress. *)

\* The constants of the engine, as far as the proofs use them.
LEMMA EngineConstants ==
  /\ IsFiniteSet(Symbols) /\ IsFiniteSet(Orders)
  /\ \A o \in Orders : OrderSym[o] \in Symbols /\ OrderQty[o] \in Int /\ OrderQty[o] # 0
  /\ LimitOrders \subseteq Orders /\ QtyTotal \in Nat
BY EngineAssumption

\* Magnitudes and sums of magnitudes are natural numbers.
LEMMA AbsNat == \A n \in Int : Abs(n) \in Nat
BY DEF Abs

\* What a set of orders reserves is a natural number.
LEMMA QtySumNat == \A S \in SUBSET Orders : QtySum(S) \in Nat
<1> SUFFICES ASSUME NEW S \in SUBSET Orders PROVE QtySum(S) \in Nat
  OBVIOUS
<1> DEFINE f == [o \in Orders |-> Abs(OrderQty[o])]
<1>1. \A o \in S : f[o] \in Nat
  BY AbsNat, EngineConstants
<1>2. IsFiniteSet(S)
  BY EngineConstants, FS_Subset
<1> HIDE DEF f
<1>3. SumFunctionOnSet(f, S) \in Nat
  BY <1>1, <1>2, SumNat
<1> QED BY <1>3 DEF QtySum, f

\* So is what positions hold.
LEMMA SpreadNat == \A p \in [Symbols -> Int] : Spread(p) \in Nat
<1> SUFFICES ASSUME NEW p \in [Symbols -> Int] PROVE Spread(p) \in Nat
  OBVIOUS
<1> DEFINE f == [s \in Symbols |-> Abs(p[s])]
<1>1. \A s \in Symbols : f[s] \in Nat
  BY AbsNat
<1> HIDE DEF f
<1>3. SumFunctionOnSet(f, Symbols) \in Nat
  BY <1>1, EngineConstants, SumNat
<1> QED BY <1>3 DEF Spread, f

\* A consumer that goes on leaves the others where they are.
LEMMA SetTask ==
  ASSUME DOMAIN task = Workers, NEW w \in Workers, NEW t, Set(w, t)
  PROVE  /\ DOMAIN task' = Workers /\ task'[w] = t
         /\ \A v \in Workers : v # w => task'[v] = task[v]
BY DEF Set

\* A consumer takes up something of its own shape.
LEMMA SetTyped ==
  ASSUME TasksTyped, NEW w \in Workers, NEW t, Set(w, t), TaskTyped(w, t)
  PROVE  TasksTyped'
<1>1. DOMAIN task = Workers
  BY DEF TasksTyped
<1>2. /\ DOMAIN task' = Workers /\ task'[w] = t
      /\ \A v \in Workers : v # w => task'[v] = task[v]
  BY <1>1, SetTask
<1>3. \A v \in Workers : TaskTyped(v, task'[v])
  <2> SUFFICES ASSUME NEW v \in Workers PROVE TaskTyped(v, task'[v])
    OBVIOUS
  <2>1. CASE v = w
    BY <2>1, <1>2
  <2>2. CASE v # w
    <3>1. TaskTyped(v, task[v])
      BY DEF TasksTyped
    <3> QED BY <3>1, <2>2, <1>2
  <2> QED BY <2>1, <2>2
<1> QED BY <1>2, <1>3 DEF TasksTyped

\* Any consumer may be idle.
LEMMA IdleTyped == \A w \in Workers : TaskTyped(w, Idle)
BY DEF TaskTyped, Idle, Stages, Workers

\* The engine starts well typed.
LEMMA EngineTypedStart == EngInit => EngineTyped
<1> SUFFICES ASSUME EngInit PROVE EngineTyped
  OBVIOUS
<1>1. RowsTyped
  BY EngineConstants DEF EngInit, RowsTyped, OrderStatus
<1>2. MemoryTyped
  BY DEF EngInit, MemoryTyped, MemoryShape, NoUser
<1>3. SystemTyped
  BY DEF EngInit, SystemTyped
<1>4. TasksTyped
  BY IdleTyped DEF EngInit, TasksTyped
<1> QED BY <1>1, <1>2, <1>3, <1>4 DEF EngineTyped

\* What EngineTyped says of the consumer at work.
LEMMA TaskIs ==
  ASSUME EngineTyped, NEW w \in Workers
  PROVE  TaskTyped(w, task[w])
BY DEF EngineTyped, TasksTyped

\* The fields of a participant's memory.
LEMMA MemoryFields ==
  ASSUME NEW m \in MemoryShape
  PROVE  /\ m.user \in BOOLEAN /\ m.avail \in Int /\ m.pos \in [Symbols -> Int]
         /\ m.pending \in SUBSET LimitOrders
         /\ \A n \in Int : [m EXCEPT !.avail = n] \in MemoryShape
         /\ \A P \in SUBSET LimitOrders : [m EXCEPT !.pending = P] \in MemoryShape
BY DEF MemoryShape

\* Locks pass between the consumers.
LEMMA LockTyped ==
  ASSUME lock \in [Symbols -> Workers \cup {"free"}], NEW w \in Workers, NEW s \in Symbols,
         Acquire(w, s) \/ Unlock(s)
  PROVE  lock' \in [Symbols -> Workers \cup {"free"}]
BY DEF Acquire, Unlock

\* LockMarket keeps the types.
LEMMA LockMarketTyped ==
  ASSUME EngineTyped, NEW o \in Orders, LockMarket(o)
  PROVE  EngineTyped'
<1> DEFINE s == OrderSym[o]
           free == FreeRequired(dbPos[s], OrderQty[o])
           t == [pc |-> "tx", kind |-> "market", order |-> o, sym |-> s,
                 qty |-> OrderQty[o], free |-> free, pos |-> dbPos[s],
                 pre |-> free = Abs(OrderQty[o]), running |-> status = "running"]
<1>0. s \in Symbols /\ OrderQty[o] \in Int /\ OrderQty[o] # 0 /\ dbPos[s] \in Int
  BY EngineConstants DEF EngineTyped, RowsTyped
<1>f. free \in Nat
  BY <1>0 DEF FreeRequired, Abs
<1>1. RowsTyped'
  BY DEF LockMarket, EngineTyped, RowsTyped, rows
<1>2. MemoryTyped'
  BY <1>f, MemoryFields DEF LockMarket, EngineTyped, MemoryTyped
<1>3. SystemTyped'
  BY <1>0, LockTyped DEF LockMarket, EngineTyped, SystemTyped, sys, Workers
<1>4. TasksTyped'
  <2>1. TaskTyped("order", t)
    BY <1>0, <1>f DEF TaskTyped, TxTyped, Stages, FillKinds
  <2>2. Set("order", t)
    BY DEF LockMarket
  <2> HIDE DEF t
  <2> QED BY <2>1, <2>2, SetTyped DEF EngineTyped, Workers
<1> QED BY <1>1, <1>2, <1>3, <1>4 DEF EngineTyped


\* ProcessOrder keeps the types.
LEMMA ProcessOrderTyped ==
  ASSUME EngineTyped, NEW o \in Orders, ProcessOrder(o)
  PROVE  EngineTyped'
<1>3. RowsTyped'
  BY DEF ProcessOrder, EngineTyped, RowsTyped, OrderStatus
<1>4. MemoryTyped'
  BY DEF ProcessOrder, EngineTyped, RowsTyped, MemoryTyped, MemoryShape, LoadedUser, FreshUser
<1>5. SystemTyped'
  BY DEF ProcessOrder, EngineTyped, SystemTyped, sys
<1>6. TasksTyped'
  <2> DEFINE t == [pc |-> "inserted", order |-> o]
  <2>1. TaskTyped("order", t)
    BY DEF TaskTyped, Stages
  <2>2. Set("order", t)
    BY DEF ProcessOrder
  <2> HIDE DEF t
  <2> QED BY <2>1, <2>2, SetTyped DEF EngineTyped, Workers
<1> QED BY <1>3, <1>4, <1>5, <1>6 DEF EngineTyped

\* OpenPending keeps the types.
LEMMA OpenPendingTyped ==
  ASSUME EngineTyped, NEW o \in Orders, OpenPending(o)
  PROVE  EngineTyped'
<1>0. OrderQty[o] \in Int /\ Abs(OrderQty[o]) \in Nat /\ mem.avail - Abs(OrderQty[o]) \in Int
  BY EngineConstants, AbsNat, MemoryFields DEF EngineTyped, MemoryTyped
<1>1. mem' \in MemoryShape /\ mem'.avail \in Int
  BY <1>0, MemoryFields DEF OpenPending, EngineTyped, MemoryTyped
<1>3. RowsTyped'
  BY <1>1 DEF OpenPending, EngineTyped, RowsTyped, OrderStatus
<1>4. MemoryTyped'
  BY <1>1 DEF OpenPending, EngineTyped, MemoryTyped
<1>5. SystemTyped'
  BY DEF OpenPending, EngineTyped, SystemTyped, sys
<1>6. TasksTyped'
  <2> DEFINE t == [pc |-> "opened", order |-> o]
  <2>1. TaskTyped("order", t)
    BY DEF OpenPending, TaskTyped, Stages
  <2>2. Set("order", t)
    BY DEF OpenPending
  <2> HIDE DEF t
  <2> QED BY <2>1, <2>2, SetTyped DEF EngineTyped, Workers
<1> QED BY <1>3, <1>4, <1>5, <1>6 DEF EngineTyped

\* OpenPendingFails keeps the types.
LEMMA OpenPendingFailsTyped ==
  ASSUME EngineTyped, NEW o \in Orders, OpenPendingFails(o)
  PROVE  EngineTyped'
<1>3. RowsTyped'
  BY DEF OpenPendingFails, EngineTyped, RowsTyped, rows
<1>4. MemoryTyped'
  BY DEF OpenPendingFails, EngineTyped, MemoryTyped, ram
<1>5. SystemTyped'
  BY DEF OpenPendingFails, EngineTyped, SystemTyped, sys
<1>6. TasksTyped'
  BY SetTyped, IdleTyped DEF OpenPendingFails, Done, EngineTyped, Workers
<1> QED BY <1>3, <1>4, <1>5, <1>6 DEF EngineTyped

\* TriggerOrder keeps the types.
LEMMA TriggerOrderTyped ==
  ASSUME EngineTyped, NEW o \in Orders, TriggerOrder(o)
  PROVE  EngineTyped'
<1>3. RowsTyped'
  BY DEF TriggerOrder, EngineTyped, RowsTyped, rows
<1>4. MemoryTyped'
  BY DEF TriggerOrder, EngineTyped, MemoryTyped, ram
<1>5. SystemTyped'
  BY DEF TriggerOrder, EngineTyped, SystemTyped, sys
<1>6. TasksTyped'
  <2> DEFINE t == [pc |-> "triggered", order |-> o]
  <2>1. TaskTyped("tick", t)
    BY DEF TriggerOrder, TaskTyped, Stages
  <2>2. Set("tick", t)
    BY DEF TriggerOrder
  <2> HIDE DEF t
  <2> QED BY <2>1, <2>2, SetTyped DEF EngineTyped, Workers
<1> QED BY <1>3, <1>4, <1>5, <1>6 DEF EngineTyped

\* StartCancel keeps the types.
LEMMA StartCancelTyped ==
  ASSUME EngineTyped, NEW o \in Orders, StartCancel(o)
  PROVE  EngineTyped'
<1>0. o \in LimitOrders /\ mem.avail + Abs(OrderQty[o]) \in Int
  BY EngineConstants, AbsNat, MemoryFields DEF EngineTyped, MemoryTyped, StartCancel
<1>3. RowsTyped'
  BY DEF StartCancel, EngineTyped, RowsTyped, rows
<1>4. MemoryTyped'
  BY DEF StartCancel, EngineTyped, MemoryTyped, ram
<1>5. SystemTyped'
  BY DEF StartCancel, EngineTyped, SystemTyped, Requested
<1>6. TasksTyped'
  <2> DEFINE t == [pc |-> "cancelTx", order |-> o, avail |-> mem.avail + Abs(OrderQty[o])]
  <2>1. TaskTyped("cancel", t)
    BY <1>0 DEF TaskTyped, Stages
  <2>2. Set("cancel", t)
    BY DEF StartCancel
  <2> HIDE DEF t
  <2> QED BY <2>1, <2>2, SetTyped DEF EngineTyped, Workers
<1> QED BY <1>3, <1>4, <1>5, <1>6 DEF EngineTyped

\* RejectInserted keeps the types.
LEMMA RejectInsertedTyped ==
  ASSUME EngineTyped, RejectInserted
  PROVE  EngineTyped'
<1>3. RowsTyped'
  BY DEF RejectInserted, EngineTyped, RowsTyped, OrderStatus
<1>4. MemoryTyped'
  BY DEF RejectInserted, EngineTyped, MemoryTyped, ram
<1>5. SystemTyped'
  BY DEF RejectInserted, EngineTyped, SystemTyped, sys
<1>6. TasksTyped'
  BY SetTyped, IdleTyped DEF RejectInserted, Done, EngineTyped, Workers
<1> QED BY <1>3, <1>4, <1>5, <1>6 DEF EngineTyped

\* AddToBook keeps the types.
LEMMA AddToBookTyped ==
  ASSUME EngineTyped, AddToBook
  PROVE  EngineTyped'
<1>0. task["order"].order \in LimitOrders /\ task["order"].order \in Orders
  BY TaskIs, EngineConstants DEF AddToBook, TaskTyped, Workers
<1>1. mem' \in MemoryShape
  BY <1>0, MemoryFields DEF AddToBook, EngineTyped, MemoryTyped
<1>3. RowsTyped'
  BY DEF AddToBook, EngineTyped, RowsTyped, rows
<1>4. MemoryTyped'
  BY <1>0, <1>1 DEF AddToBook, EngineTyped, MemoryTyped
<1>5. SystemTyped'
  BY DEF AddToBook, EngineTyped, SystemTyped, sys
<1>6. TasksTyped'
  BY SetTyped, IdleTyped DEF AddToBook, Done, EngineTyped, Workers
<1> QED BY <1>3, <1>4, <1>5, <1>6 DEF EngineTyped

\* LeaveTriggered keeps the types.
LEMMA LeaveTriggeredTyped ==
  ASSUME EngineTyped, LeaveTriggered
  PROVE  EngineTyped'
<1>3. RowsTyped'
  BY DEF LeaveTriggered, EngineTyped, RowsTyped, rows
<1>4. MemoryTyped'
  BY DEF LeaveTriggered, EngineTyped, MemoryTyped, ram
<1>5. SystemTyped'
  BY DEF LeaveTriggered, EngineTyped, SystemTyped, sys
<1>6. TasksTyped'
  BY SetTyped, IdleTyped DEF LeaveTriggered, Done, EngineTyped, Workers
<1> QED BY <1>3, <1>4, <1>5, <1>6 DEF EngineTyped

\* LockTriggered keeps the types.
LEMMA LockTriggeredTyped ==
  ASSUME EngineTyped, LockTriggered
  PROVE  EngineTyped'
<1> DEFINE o == task["tick"].order
           s == OrderSym[o]
<1>0. /\ o \in LimitOrders /\ o \in Orders /\ s \in Symbols
      /\ OrderQty[o] \in Int /\ OrderQty[o] # 0 /\ dbPos[s] \in Int
  BY TaskIs, EngineConstants DEF LockTriggered, TaskTyped, Workers, EngineTyped, RowsTyped
<1>3. RowsTyped'
  BY DEF LockTriggered, EngineTyped, RowsTyped, rows
<1>4. MemoryTyped'
  BY DEF LockTriggered, EngineTyped, MemoryTyped, ram
<1>5. SystemTyped'
  BY <1>0, LockTyped DEF LockTriggered, EngineTyped, SystemTyped, sys, Workers
<1>6. TasksTyped'
  <2> DEFINE t == [pc |-> "tx", kind |-> "pending", order |-> o, sym |-> s,
                 qty |-> OrderQty[o], free |-> 0, pos |-> dbPos[s],
                 pre |-> TRUE, running |-> status = "running"]
  <2>1. TaskTyped("tick", t)
    BY <1>0 DEF TaskTyped, TxTyped, Stages, FillKinds
  <2>2. Set("tick", t)
    BY DEF LockTriggered
  <2> HIDE DEF t
  <2> QED BY <2>1, <2>2, SetTyped DEF EngineTyped, Workers
<1> QED BY <1>3, <1>4, <1>5, <1>6 DEF EngineTyped

\* RejectTriggered keeps the types.
LEMMA RejectTriggeredTyped ==
  ASSUME EngineTyped, RejectTriggered
  PROVE  EngineTyped'
<1>0. task["tick"].order \in LimitOrders /\ task["tick"].order \in Orders
  BY TaskIs, EngineConstants DEF RejectTriggered, TaskTyped, Workers
<1>1. mem' \in MemoryShape
  BY <1>0, EngineConstants, AbsNat, MemoryFields DEF RejectTriggered, EngineTyped, MemoryTyped, MemoryShape
<1>3. RowsTyped'
  BY DEF RejectTriggered, EngineTyped, RowsTyped, OrderStatus
<1>4. MemoryTyped'
  BY <1>1 DEF RejectTriggered, EngineTyped, MemoryTyped
<1>5. SystemTyped'
  BY DEF RejectTriggered, EngineTyped, SystemTyped, sys
<1>6. TasksTyped'
  BY SetTyped, IdleTyped DEF RejectTriggered, Done, EngineTyped, Workers
<1> QED BY <1>3, <1>4, <1>5, <1>6 DEF EngineTyped

\* LockTpsl keeps the types.
LEMMA LockTpslTyped ==
  ASSUME EngineTyped, LockTpsl
  PROVE  EngineTyped'
<1> DEFINE s == task["tick"].sym
<1>0. s \in Symbols /\ task["tick"].id \in Nat /\ dbPos[s] \in Int /\ dbPos[s] # 0
  BY TaskIs DEF LockTpsl, TaskTyped, Workers, EngineTyped, RowsTyped
<1>3. RowsTyped'
  BY DEF LockTpsl, EngineTyped, RowsTyped, rows
<1>4. MemoryTyped'
  BY DEF LockTpsl, EngineTyped, MemoryTyped, ram
<1>5. SystemTyped'
  BY <1>0, LockTyped DEF LockTpsl, EngineTyped, SystemTyped, sys, Workers
<1>6. TasksTyped'
  <2> DEFINE t == [pc |-> "tx", kind |-> "tpsl", sym |-> s, id |-> task["tick"].id,
                 qty |-> -dbPos[s], free |-> 0, pos |-> dbPos[s],
                 pre |-> FALSE, running |-> status = "running"]
  <2>1. TaskTyped("tick", t)
    BY <1>0 DEF TaskTyped, TxTyped, Stages, FillKinds
  <2>2. Set("tick", t)
    BY DEF LockTpsl
  <2> HIDE DEF t
  <2> QED BY <2>1, <2>2, SetTyped DEF EngineTyped, Workers
<1> QED BY <1>3, <1>4, <1>5, <1>6 DEF EngineTyped

\* ForgetTpsl keeps the types.
LEMMA ForgetTpslTyped ==
  ASSUME EngineTyped, ForgetTpsl
  PROVE  EngineTyped'
<1>3. RowsTyped'
  BY DEF ForgetTpsl, EngineTyped, RowsTyped, rows
<1>4. MemoryTyped'
  BY DEF ForgetTpsl, EngineTyped, MemoryTyped, ram
<1>5. SystemTyped'
  BY DEF ForgetTpsl, EngineTyped, SystemTyped, sys
<1>6. TasksTyped'
  BY SetTyped, IdleTyped DEF ForgetTpsl, Done, EngineTyped, Workers
<1> QED BY <1>3, <1>4, <1>5, <1>6 DEF EngineTyped

\* TriggerTpsl keeps the types.
LEMMA TriggerTpslTyped ==
  ASSUME EngineTyped, NEW s \in Symbols, NEW i \in 1 .. pid[s], TriggerTpsl(s, i)
  PROVE  EngineTyped'
<1>0. i \in Nat
  BY DEF EngineTyped, RowsTyped
<1>3. RowsTyped'
  BY DEF TriggerTpsl, EngineTyped, RowsTyped, rows
<1>4. MemoryTyped'
  BY DEF TriggerTpsl, EngineTyped, MemoryTyped, ram
<1>5. SystemTyped'
  BY DEF TriggerTpsl, EngineTyped, SystemTyped, sys
<1>6. TasksTyped'
  <2> DEFINE t == [pc |-> "triggeredTpsl", sym |-> s, id |-> i]
  <2>1. TaskTyped("tick", t)
    BY <1>0 DEF TaskTyped, Stages
  <2>2. Set("tick", t)
    BY DEF TriggerTpsl
  <2> HIDE DEF t
  <2> QED BY <2>1, <2>2, SetTyped DEF EngineTyped, Workers
<1> QED BY <1>3, <1>4, <1>5, <1>6 DEF EngineTyped

\* LockClose keeps the types.
LEMMA LockCloseTyped ==
  ASSUME EngineTyped, NEW s \in Symbols, NEW k \in 1 .. QtyTotal, LockClose(s, k)
  PROVE  EngineTyped'
<1>0. /\ k \in Nat /\ k # 0 /\ dbPos[s] \in Int /\ dbPos[s] # 0 /\ pid[s] \in Nat
      /\ dbAvail \in Int
  BY EngineConstants DEF LockClose, EngineTyped, RowsTyped
<1>1. LoadedUser \in MemoryShape
  BY <1>0 DEF LoadedUser, FreshUser, EngineTyped, MemoryTyped, MemoryShape
<1>2. LoadedUser.avail + k \in Int
  BY <1>0, <1>1, MemoryFields
<1>3. RowsTyped'
  BY DEF LockClose, EngineTyped, RowsTyped, rows
<1>4. MemoryTyped'
  BY <1>1 DEF LockClose, EngineTyped, MemoryTyped
<1>5. SystemTyped'
  BY LockTyped DEF LockClose, EngineTyped, SystemTyped, Requested, Workers
<1>6. TasksTyped'
  <2> DEFINE t == [pc |-> "tx", kind |-> "close", sym |-> s, id |-> pid[s],
                 qty |-> IF dbPos[s] > 0 THEN -k ELSE k, free |-> 0,
                 pos |-> dbPos[s], pre |-> FALSE, running |-> status = "running",
                 avail |-> LoadedUser.avail + k]
  <2>1. TaskTyped("close", t)
    BY <1>0, <1>2 DEF TaskTyped, TxTyped, Stages, FillKinds
  <2>2. Set("close", t)
    BY DEF LockClose
  <2> HIDE DEF t
  <2> QED BY <2>1, <2>2, SetTyped DEF EngineTyped, Workers
<1> QED BY <1>3, <1>4, <1>5, <1>6 DEF EngineTyped

\* ModifyTPSL keeps the types.
LEMMA ModifyTPSLTyped ==
  ASSUME EngineTyped, NEW s \in Symbols, NEW on \in BOOLEAN, ModifyTPSL(s, on)
  PROVE  EngineTyped'
<1>3. RowsTyped'
  BY DEF ModifyTPSL, EngineTyped, RowsTyped, rows
<1>4. MemoryTyped'
  BY DEF ModifyTPSL, EngineTyped, RowsTyped, MemoryTyped
<1>5. SystemTyped'
  BY DEF ModifyTPSL, EngineTyped, SystemTyped, Requested
<1>6. TasksTyped'
  BY DEF ModifyTPSL, EngineTyped, TasksTyped
<1> QED BY <1>3, <1>4, <1>5, <1>6 DEF EngineTyped

\* CommitCancel keeps the types.
LEMMA CommitCancelTyped ==
  ASSUME EngineTyped, CommitCancel
  PROVE  EngineTyped'
<1>0. task["cancel"].order \in LimitOrders /\ task["cancel"].avail \in Int
  BY TaskIs DEF CommitCancel, TaskTyped, Workers
<1>3. RowsTyped'
  BY <1>0 DEF CommitCancel, EngineTyped, RowsTyped, OrderStatus
<1>4. MemoryTyped'
  BY DEF CommitCancel, EngineTyped, MemoryTyped, ram
<1>5. SystemTyped'
  BY DEF CommitCancel, EngineTyped, SystemTyped, sys
<1>6. TasksTyped'
  <2> DEFINE t == [pc |-> "cancelApply", order |-> task["cancel"].order]
  <2>1. TaskTyped("cancel", t)
    BY <1>0 DEF TaskTyped, Stages
  <2>2. Set("cancel", t)
    BY DEF CommitCancel
  <2> HIDE DEF t
  <2> QED BY <2>1, <2>2, SetTyped DEF EngineTyped, Workers
<1> QED BY <1>3, <1>4, <1>5, <1>6 DEF EngineTyped

\* ApplyCancel keeps the types.
LEMMA ApplyCancelTyped ==
  ASSUME EngineTyped, ApplyCancel
  PROVE  EngineTyped'
<1>0. task["cancel"].order \in LimitOrders /\ task["cancel"].order \in Orders
  BY TaskIs, EngineConstants DEF ApplyCancel, TaskTyped, Workers
<1>1. mem' \in MemoryShape
  BY <1>0, EngineConstants, AbsNat, MemoryFields DEF ApplyCancel, EngineTyped, MemoryTyped, MemoryShape
<1>3. RowsTyped'
  BY DEF ApplyCancel, EngineTyped, RowsTyped, rows
<1>4. MemoryTyped'
  BY <1>1 DEF ApplyCancel, EngineTyped, MemoryTyped
<1>5. SystemTyped'
  BY DEF ApplyCancel, EngineTyped, SystemTyped, sys
<1>6. TasksTyped'
  BY SetTyped, IdleTyped DEF ApplyCancel, Done, EngineTyped, Workers
<1> QED BY <1>3, <1>4, <1>5, <1>6 DEF EngineTyped

\* FillFails keeps the types.
LEMMA FillFailsTyped ==
  ASSUME EngineTyped, NEW w \in Workers, FillFails(w)
  PROVE  EngineTyped'
<1>0. task[w].sym \in Symbols /\ task[w].free \in Nat
  BY TaskIs DEF FillFails, TaskTyped, TxTyped
<1>1. mem' \in MemoryShape
  BY <1>0, MemoryFields DEF FillFails, EngineTyped, MemoryTyped
<1>3. RowsTyped'
  BY DEF FillFails, EngineTyped, RowsTyped, rows
<1>4. MemoryTyped'
  BY <1>1 DEF FillFails, EngineTyped, MemoryTyped
<1>5. SystemTyped'
  BY <1>0, LockTyped DEF FillFails, EngineTyped, SystemTyped, sys
<1>6. TasksTyped'
  BY SetTyped, IdleTyped DEF FillFails, Done, EngineTyped, Workers
<1> QED BY <1>3, <1>4, <1>5, <1>6 DEF EngineTyped

\* EndContest keeps the types.
LEMMA EndContestTyped ==
  ASSUME EngineTyped, EndContest
  PROVE  EngineTyped'
<1>3. RowsTyped'
  BY DEF EndContest, EngineTyped, RowsTyped, rows
<1>4. MemoryTyped'
  BY DEF EndContest, EngineTyped, MemoryTyped, ram
<1>5. SystemTyped'
  BY DEF EndContest, EngineTyped, SystemTyped, sys
<1>6. TasksTyped'
  BY DEF EndContest, EngineTyped, TasksTyped
<1> QED BY <1>3, <1>4, <1>5, <1>6 DEF EngineTyped

\* SeeContestState keeps the types.
LEMMA SeeContestStateTyped ==
  ASSUME EngineTyped, SeeContestState
  PROVE  EngineTyped'
<1>3. RowsTyped'
  BY DEF SeeContestState, EngineTyped, RowsTyped, rows
<1>4. MemoryTyped'
  BY DEF SeeContestState, EngineTyped, MemoryTyped, ram
<1>5. SystemTyped'
  BY DEF SeeContestState, EngineTyped, SystemTyped, sys
<1>6. TasksTyped'
  BY DEF SeeContestState, EngineTyped, TasksTyped
<1> QED BY <1>3, <1>4, <1>5, <1>6 DEF EngineTyped

\* CancelAllTx keeps the types.
LEMMA CancelAllTxTyped ==
  ASSUME EngineTyped, CancelAllTx
  PROVE  EngineTyped'
<1>0. QtySum({o \in Orders : orders[o] \in {"pending", "open"}}) \in Nat
  BY QtySumNat
<1>3. RowsTyped'
  BY <1>0 DEF CancelAllTx, EngineTyped, RowsTyped, OrderStatus
<1>4. MemoryTyped'
  BY DEF CancelAllTx, EngineTyped, MemoryTyped, ram
<1>5. SystemTyped'
  BY DEF CancelAllTx, EngineTyped, SystemTyped, sys
<1>6. TasksTyped'
  <2> DEFINE t == [pc |-> "cancelAll", orders |-> {o \in Orders : orders[o] \in {"pending", "open"}}]
  <2>1. TaskTyped("bulk", t)
    BY DEF TaskTyped, Stages
  <2>2. Set("bulk", t)
    BY DEF CancelAllTx
  <2> HIDE DEF t
  <2> QED BY <2>1, <2>2, SetTyped DEF EngineTyped, Workers
<1> QED BY <1>3, <1>4, <1>5, <1>6 DEF EngineTyped

\* CancelAllApply keeps the types.
LEMMA CancelAllApplyTyped ==
  ASSUME EngineTyped, CancelAllApply
  PROVE  EngineTyped'
<1>0. QtySum(task["bulk"].orders) \in Nat
  BY TaskIs, QtySumNat DEF CancelAllApply, TaskTyped, Workers
<1>1. mem' \in MemoryShape
  BY <1>0, MemoryFields DEF CancelAllApply, EngineTyped, MemoryTyped, MemoryShape
<1>3. RowsTyped'
  BY DEF CancelAllApply, EngineTyped, RowsTyped, rows
<1>4. MemoryTyped'
  BY <1>1 DEF CancelAllApply, EngineTyped, MemoryTyped
<1>5. SystemTyped'
  BY DEF CancelAllApply, EngineTyped, SystemTyped, sys
<1>6. TasksTyped'
  BY SetTyped, IdleTyped DEF CancelAllApply, Done, EngineTyped, Workers
<1> QED BY <1>3, <1>4, <1>5, <1>6 DEF EngineTyped

\* CloseAllTx keeps the types.
LEMMA CloseAllTxTyped ==
  ASSUME EngineTyped, CloseAllTx
  PROVE  EngineTyped'
<1>0. Exposure \in Nat
  BY SpreadNat DEF Exposure, Spread, EngineTyped, RowsTyped
<1>3. RowsTyped'
  BY <1>0 DEF CloseAllTx, EngineTyped, RowsTyped
<1>4. MemoryTyped'
  BY DEF CloseAllTx, EngineTyped, MemoryTyped, ram
<1>5. SystemTyped'
  BY DEF CloseAllTx, EngineTyped, SystemTyped, sys
<1>6. TasksTyped'
  <2> DEFINE t == [pc |-> "closeAll", pos |-> dbPos]
  <2>1. TaskTyped("bulk", t)
    BY DEF EngineTyped, RowsTyped, TaskTyped, Stages
  <2>2. Set("bulk", t)
    BY DEF CloseAllTx
  <2> HIDE DEF t
  <2> QED BY <2>1, <2>2, SetTyped DEF EngineTyped, Workers
<1> QED BY <1>3, <1>4, <1>5, <1>6 DEF EngineTyped

\* CloseAllApply keeps the types.
LEMMA CloseAllApplyTyped ==
  ASSUME EngineTyped, CloseAllApply
  PROVE  EngineTyped'
<1>0. task["bulk"].pos \in [Symbols -> Int] /\ Spread(task["bulk"].pos) \in Nat
  BY TaskIs, SpreadNat DEF CloseAllApply, TaskTyped, Workers
<1>1. mem' \in MemoryShape
  BY <1>0, MemoryFields DEF CloseAllApply, Spread, EngineTyped, MemoryTyped, MemoryShape
<1>3. RowsTyped'
  BY DEF CloseAllApply, EngineTyped, RowsTyped, rows
<1>4. MemoryTyped'
  BY <1>1 DEF CloseAllApply, EngineTyped, MemoryTyped
<1>5. SystemTyped'
  BY DEF CloseAllApply, EngineTyped, SystemTyped, sys
<1>6. TasksTyped'
  BY SetTyped, IdleTyped DEF CloseAllApply, Done, EngineTyped, Workers
<1> QED BY <1>3, <1>4, <1>5, <1>6 DEF EngineTyped

\* EvictContest keeps the types.
LEMMA EvictContestTyped ==
  ASSUME EngineTyped, EvictContest
  PROVE  EngineTyped'
<1>3. RowsTyped'
  BY DEF EvictContest, EngineTyped, RowsTyped, rows
<1>4. MemoryTyped'
  BY DEF EvictContest, EngineTyped, MemoryTyped, MemoryShape, NoUser
<1>5. SystemTyped'
  BY DEF EvictContest, EngineTyped, SystemTyped, sys
<1>6. TasksTyped'
  BY DEF EvictContest, EngineTyped, TasksTyped
<1> QED BY <1>3, <1>4, <1>5, <1>6 DEF EngineTyped


\* CommitFill keeps the types.
LEMMA CommitFillTyped ==
  ASSUME EngineTyped, NEW w \in Workers, CommitFill(w)
  PROVE  EngineTyped'
<1> DEFINE t == task[w]
           s == t.sym
           p == dbPos[s]
           manual == t.kind = "close"
           back == Released(IF manual THEN t.pos ELSE p, t.qty, t.pre)
           left == IF manual /\ p = 0 THEN 0 ELSE p + t.qty
<1>0. /\ TxTyped(t) /\ t.kind \in FillKinds(w)
      /\ s \in Symbols /\ t.qty \in Int /\ t.pos \in Int /\ t.pre \in BOOLEAN
      /\ manual => t.avail \in Int
      /\ t.kind \in {"market", "pending"} => t.order \in Orders
      /\ p \in Int /\ mem.avail \in Int
  BY TaskIs, MemoryFields DEF CommitFill, TaskTyped, TxTyped, EngineTyped, RowsTyped, MemoryTyped
<1>1. back \in Int /\ left \in Int
  BY <1>0 DEF Released, Opposite, Smaller, Abs
<1>2. RowsTyped'
  <2>1. (orders \in [Orders -> OrderStatus] /\ fills \in [Orders -> Nat]
         /\ \A o \in Orders : orders[o] = "open" => o \in LimitOrders)'
    BY <1>0 DEF CommitFill, EngineTyped, RowsTyped, OrderStatus
  <2>2. dbPos' \in [Symbols -> Int] /\ pid' \in [Symbols -> Nat] /\ dbTpsl' \subseteq Symbols
    BY <1>0, <1>1 DEF CommitFill, EngineTyped, RowsTyped
  <2>3. dbAvail' \in Int
    BY <1>0, <1>1 DEF CommitFill
  <2> QED BY <2>1, <2>2, <2>3 DEF RowsTyped
<1>3. MemoryTyped'
  BY DEF CommitFill, EngineTyped, MemoryTyped, ram
<1>4. SystemTyped'
  BY DEF CommitFill, EngineTyped, SystemTyped, sys
<1>5. TasksTyped'
  <2> DEFINE e == CASE ~Opposite(p, t.qty) -> "set"
                    [] Abs(t.qty) >= Abs(p) -> "close"
                    [] OTHER -> "partial"
             a == [pc |-> "apply", tx |-> t, back |-> back, left |-> left, entry |-> e]
  <2>1. Set(w, a)
    BY DEF CommitFill
  <2>2. w \in {"order", "tick", "close"}
    BY <1>0 DEF FillKinds, Workers
  <2>3. TaskTyped(w, a)
    <3> HIDE DEF t, back, left, e
    <3> QED BY <1>0, <1>1, <2>2 DEF TaskTyped, Stages
  <2> HIDE DEF a
  <2> QED BY <2>1, <2>3, SetTyped DEF EngineTyped
<1> QED BY <1>2, <1>3, <1>4, <1>5 DEF EngineTyped

\* The memory half of a fill, applied or not, keeps the types.
LEMMA AfterCommitTyped ==
  ASSUME EngineTyped, NEW w \in Workers, NEW applied \in BOOLEAN, AfterCommit(w, applied)
  PROVE  /\ RowsTyped' /\ MemoryTyped' /\ TasksTyped'
         /\ lock' \in [Symbols -> Workers \cup {"free"}]
         /\ UNCHANGED <<status, seenStatus, engine, wal, reloaded, raced>>
<1> DEFINE a == task[w]
           t == a.tx
           s == t.sym
<1>0. /\ TxTyped(t) /\ s \in Symbols /\ a.back \in Int /\ a.left \in Int
      /\ mem \in MemoryShape /\ pid[s] \in Nat
  BY TaskIs DEF AfterCommit, TaskTyped, TxTyped, EngineTyped, MemoryTyped, RowsTyped
<1>1. RowsTyped'
  BY DEF AfterCommit, EngineTyped, RowsTyped, rows
<1>2. MemoryTyped'
  <2>1. mem' \in MemoryShape
    BY <1>0, MemoryFields DEF AfterCommit, MemoryShape
  <2>2. book' \subseteq Orders
    BY DEF AfterCommit, EngineTyped, MemoryTyped
  <2>3. tpsl' \subseteq (Symbols \X Nat)
    BY <1>0 DEF AfterCommit, EngineTyped, MemoryTyped
  <2> QED BY <2>1, <2>2, <2>3 DEF MemoryTyped
<1>3. TasksTyped'
  BY SetTyped, IdleTyped DEF AfterCommit, Done, EngineTyped
<1>4. lock' \in [Symbols -> Workers \cup {"free"}]
  BY <1>0, LockTyped DEF AfterCommit, EngineTyped, SystemTyped
<1>5. UNCHANGED <<status, seenStatus, engine, wal, reloaded, raced>>
  BY DEF AfterCommit
<1> QED BY <1>1, <1>2, <1>3, <1>4, <1>5

\* So do both ways it can end.
LEMMA ApplyTyped ==
  ASSUME EngineTyped, NEW w \in Workers, ApplyFill(w) \/ ApplyPanics(w)
  PROVE  EngineTyped'
<1>1. AfterCommit(w, TRUE) \/ AfterCommit(w, FALSE)
  BY DEF ApplyFill, ApplyPanics
<1>2. /\ RowsTyped' /\ MemoryTyped' /\ TasksTyped'
      /\ lock' \in [Symbols -> Workers \cup {"free"}]
      /\ UNCHANGED <<status, seenStatus, engine, wal, reloaded, raced>>
  BY <1>1, AfterCommitTyped
<1>3. faults' \in Nat /\ diverged' \in BOOLEAN
  <2>1. faults \in Nat /\ diverged \in BOOLEAN
    BY DEF EngineTyped, SystemTyped
  <2>2. CASE ApplyFill(w)
    BY <2>1, <2>2 DEF ApplyFill
  <2>3. CASE ApplyPanics(w)
    BY <2>1, <2>3 DEF ApplyPanics
  <2> QED BY <2>2, <2>3
<1>4. SystemTyped'
  BY <1>2, <1>3 DEF EngineTyped, SystemTyped
<1> QED BY <1>2, <1>4 DEF EngineTyped

\* Crash keeps the types.
LEMMA CrashTyped ==
  ASSUME EngineTyped, Crash
  PROVE  EngineTyped'
<1>1. RowsTyped'
  BY DEF Crash, EngineTyped, RowsTyped, rows
<1>2. MemoryTyped'
  BY DEF Crash, MemoryTyped, MemoryShape, NoUser
<1>3. SystemTyped'
  <2>1. \A w \in Workers : task[w].pc = "apply" => task[w].tx.sym \in Symbols /\ task[w].left \in Int
    BY TaskIs DEF TaskTyped, TxTyped
  <2>2. (\A e \in wal : e.sym \in Symbols /\ e.left \in Int)'
    <3>1. PICK W \in SUBSET {w \in Workers : task[w].pc = "apply"} :
             wal' = {[sym |-> task[w].tx.sym, left |-> task[w].left, entry |-> task[w].entry] : w \in W}
      BY DEF Crash
    <3> QED BY <2>1, <3>1
  <2>3. /\ engine' = "down" /\ diverged' = FALSE /\ faults' = faults + 1
        /\ lock' = [s \in Symbols |-> "free"]
        /\ UNCHANGED <<status, seenStatus, reloaded, raced>>
    BY DEF Crash
  <2>4. faults' \in Nat
    BY <2>3 DEF EngineTyped, SystemTyped
  <2>5. lock' \in [Symbols -> Workers \cup {"free"}]
    BY <2>3
  <2> QED BY <2>2, <2>3, <2>4, <2>5 DEF EngineTyped, SystemTyped
<1>4. TasksTyped'
  BY IdleTyped DEF Crash, TasksTyped
<1> QED BY <1>1, <1>2, <1>3, <1>4 DEF EngineTyped

\* FromDB keeps the types.
LEMMA FromDBTyped ==
  ASSUME EngineTyped
  PROVE  /\ FromDB \in MemoryShape /\ BookFromDB \subseteq Orders
         /\ TpslFromDB \subseteq (Symbols \X Nat)
BY DEF EngineTyped, RowsTyped, FromDB, BookFromDB, TpslFromDB, MemoryShape

\* What replaying the log makes of a memory is a memory.
LEMMA ReplayedTyped ==
  ASSUME EngineTyped, NEW m \in MemoryShape
  PROVE  Replayed(m) \in MemoryShape
<1> DEFINE pos == [s \in Symbols |->
             IF \E e \in wal : e.sym = s
             THEN LET e == CHOOSE e \in wal : e.sym = s IN IF e.entry = "partial" THEN 0 ELSE e.left
             ELSE m.pos[s]]
<1>1. pos \in [Symbols -> Int]
  <2> SUFFICES ASSUME NEW s \in Symbols PROVE pos[s] \in Int
    OBVIOUS
  <2>1. CASE \E e \in wal : e.sym = s
    <3> DEFINE e == CHOOSE e \in wal : e.sym = s
    <3>1. e \in wal
      BY <2>1
    <3>2. e.left \in Int
      BY <3>1 DEF EngineTyped, SystemTyped
    <3> QED BY <2>1, <3>2
  <2>2. CASE ~\E e \in wal : e.sym = s
    BY <2>2, MemoryFields
  <2> QED BY <2>1, <2>2
<1>2. Replayed(m) = [m EXCEPT !.pos = pos]
  BY DEF Replayed, MemoryShape
<1> HIDE DEF pos
<1> QED BY <1>1, <1>2 DEF MemoryShape

\* Restart keeps the types.
LEMMA RestartTyped ==
  ASSUME EngineTyped, Restart
  PROVE  EngineTyped'
<1>1. RowsTyped'
  BY DEF Restart, EngineTyped, RowsTyped, rows
<1>2. MemoryTyped'
  <2>1. FreshUser \in MemoryShape /\ NoUser \in MemoryShape /\ FromDB \in MemoryShape
    BY FromDBTyped DEF FreshUser, NoUser, MemoryShape, EngineTyped, RowsTyped
  <2>2. mem' \in MemoryShape
    BY <2>1, ReplayedTyped DEF Restart, EngineTyped, MemoryTyped
  <2> QED BY <2>2, FromDBTyped DEF Restart, MemoryTyped
<1>3. SystemTyped'
  BY DEF Restart, EngineTyped, SystemTyped
<1>4. TasksTyped'
  BY DEF Restart, EngineTyped, TasksTyped
<1> QED BY <1>1, <1>2, <1>3, <1>4 DEF EngineTyped

\* ReloadState keeps the types.
LEMMA ReloadStateTyped ==
  ASSUME EngineTyped, ReloadState
  PROVE  EngineTyped'
<1>1. RowsTyped'
  BY DEF ReloadState, EngineTyped, RowsTyped, rows
<1>2. MemoryTyped'
  BY FromDBTyped DEF ReloadState, EngineTyped, MemoryTyped
<1>3. SystemTyped'
  BY DEF ReloadState, EngineTyped, SystemTyped
<1>4. TasksTyped'
  BY DEF ReloadState, EngineTyped, TasksTyped
<1> QED BY <1>1, <1>2, <1>3, <1>4 DEF EngineTyped

\* Every step of the engine keeps the types.
LEMMA EngineTypedStep ==
  ASSUME EngineTyped, [EngNext]_engVars
  PROVE  EngineTyped'
<1>1. CASE UNCHANGED engVars
  <2>1. /\ RowsTyped' /\ MemoryTyped' /\ SystemTyped'
    BY <1>1 DEF EngineTyped, engVars, rows, ram, sys, RowsTyped, MemoryTyped, SystemTyped
  <2>2. TasksTyped'
    BY <1>1 DEF EngineTyped, engVars, TasksTyped
  <2> QED BY <2>1, <2>2 DEF EngineTyped
<1>2. ASSUME NEW o \in Orders,
             \/ ProcessOrder(o) \/ LockMarket(o) \/ OpenPending(o) \/ OpenPendingFails(o)
             \/ TriggerOrder(o) \/ StartCancel(o)
      PROVE  EngineTyped'
  BY <1>2, ProcessOrderTyped, LockMarketTyped, OpenPendingTyped, OpenPendingFailsTyped,
     TriggerOrderTyped, StartCancelTyped
<1>3. CASE RejectInserted \/ AddToBook \/ LeaveTriggered \/ LockTriggered \/ RejectTriggered
           \/ LockTpsl \/ ForgetTpsl
  BY <1>3, RejectInsertedTyped, AddToBookTyped, LeaveTriggeredTyped, LockTriggeredTyped,
     RejectTriggeredTyped, LockTpslTyped, ForgetTpslTyped
<1>4. ASSUME NEW s \in Symbols, NEW i \in 1 .. pid[s], TriggerTpsl(s, i) PROVE EngineTyped'
  BY <1>4, TriggerTpslTyped
<1>5. ASSUME NEW s \in Symbols, NEW k \in 1 .. QtyTotal, LockClose(s, k) PROVE EngineTyped'
  BY <1>5, LockCloseTyped
<1>6. ASSUME NEW s \in Symbols, NEW on \in BOOLEAN, ModifyTPSL(s, on) PROVE EngineTyped'
  BY <1>6, ModifyTPSLTyped
<1>7. CASE CommitCancel \/ ApplyCancel
  BY <1>7, CommitCancelTyped, ApplyCancelTyped
<1>8. ASSUME NEW w \in Workers,
             CommitFill(w) \/ FillFails(w) \/ ApplyFill(w) \/ ApplyPanics(w)
      PROVE  EngineTyped'
  BY <1>8, CommitFillTyped, FillFailsTyped, ApplyTyped
<1>9. CASE EndContest \/ SeeContestState \/ CancelAllTx \/ CancelAllApply \/ CloseAllTx
           \/ CloseAllApply \/ EvictContest \/ Crash \/ Restart \/ ReloadState
  BY <1>9, EndContestTyped, SeeContestStateTyped, CancelAllTxTyped, CancelAllApplyTyped,
     CloseAllTxTyped, CloseAllApplyTyped, EvictContestTyped, CrashTyped, RestartTyped,
     ReloadStateTyped
<1> QED BY <1>1, <1>2, <1>3, <1>4, <1>5, <1>6, <1>7, <1>8, <1>9 DEF EngNext

-----------------------------------------------------------------------------
(* Transactions are computed from the position their lock protects. *)

\* Only the transaction a consumer takes up can be unsound.
LEMMA SetSound ==
  ASSUME EngineTyped, TxInv, NEW w \in Workers, NEW t, Set(w, t), TxSound(t)
  PROVE  TxInv'
<1>1. /\ task'[w] = t
      /\ \A v \in Workers : v # w => task'[v] = task[v]
  BY SetTask DEF EngineTyped, TasksTyped
<1>2. ASSUME NEW v \in Workers PROVE TxSound(task'[v])
  BY <1>1 DEF TxInv
<1> QED BY <1>2 DEF TxInv

\* An idle consumer has no transaction.
LEMMA IdleSound == TxSound(Idle)
BY DEF TxSound, Idle

\* At first there is no transaction.
LEMMA TxStart == EngInit => TxInv
BY IdleSound DEF EngInit, TxInv

\* A market order reserves under the lock what the position it read does not
\* give back.
LEMMA LockMarketSound ==
  ASSUME EngineTyped, TxInv, NEW o \in Orders, LockMarket(o)
  PROVE  TxInv'
<1> DEFINE s == OrderSym[o]
           free == FreeRequired(dbPos[s], OrderQty[o])
           t == [pc |-> "tx", kind |-> "market", order |-> o, sym |-> s,
                 qty |-> OrderQty[o], free |-> free, pos |-> dbPos[s],
                 pre |-> free = Abs(OrderQty[o]), running |-> status = "running"]
<1>1. Set("order", t) /\ status = "running"
  BY DEF LockMarket
<1>2. TxSound(t)
  BY <1>1 DEF TxSound
<1> HIDE DEF t
<1> QED BY <1>1, <1>2, SetSound DEF Workers

\* A waiting order had reserved all of its quantity.
LEMMA LockTriggeredSound ==
  ASSUME EngineTyped, TxInv, LockTriggered
  PROVE  TxInv'
<1> DEFINE o == task["tick"].order
           s == OrderSym[o]
           t == [pc |-> "tx", kind |-> "pending", order |-> o, sym |-> s,
                 qty |-> OrderQty[o], free |-> 0, pos |-> dbPos[s],
                 pre |-> TRUE, running |-> status = "running"]
<1>1. Set("tick", t) /\ status = "running"
  BY DEF LockTriggered
<1>2. TxSound(t)
  BY <1>1 DEF TxSound
<1> HIDE DEF t
<1> QED BY <1>1, <1>2, SetSound DEF Workers

\* A take-profit or stop-loss closes the whole position it read.
LEMMA LockTpslSound ==
  ASSUME EngineTyped, TxInv, LockTpsl
  PROVE  TxInv'
<1> DEFINE s == task["tick"].sym
           t == [pc |-> "tx", kind |-> "tpsl", sym |-> s, id |-> task["tick"].id,
                 qty |-> -dbPos[s], free |-> 0, pos |-> dbPos[s],
                 pre |-> FALSE, running |-> status = "running"]
<1>1. Set("tick", t)
  BY DEF LockTpsl
<1>2. dbPos[s] \in Int /\ dbPos[s] # 0
  BY TaskIs DEF LockTpsl, TaskTyped, Workers, EngineTyped, RowsTyped
<1>3. TxSound(t)
  BY <1>2 DEF TxSound, Opposite, Abs
<1> HIDE DEF t
<1> QED BY <1>1, <1>3, SetSound DEF Workers

\* A manual close takes at most the position it read.
LEMMA LockCloseSound ==
  ASSUME EngineTyped, TxInv, NEW s \in Symbols, NEW k \in 1 .. QtyTotal, LockClose(s, k)
  PROVE  TxInv'
<1> DEFINE t == [pc |-> "tx", kind |-> "close", sym |-> s, id |-> pid[s],
                 qty |-> IF dbPos[s] > 0 THEN -k ELSE k, free |-> 0,
                 pos |-> dbPos[s], pre |-> FALSE, running |-> status = "running",
                 avail |-> LoadedUser.avail + k]
<1>1. Set("close", t)
  BY DEF LockClose
<1>2. dbPos[s] \in Int /\ dbPos[s] # 0 /\ k \in Int /\ k > 0 /\ k <= Abs(dbPos[s])
  BY EngineConstants DEF LockClose, EngineTyped, RowsTyped
<1>3. TxSound(t)
  BY <1>2 DEF TxSound, Opposite, Abs
<1> HIDE DEF t
<1> QED BY <1>1, <1>3, SetSound DEF Workers

\* Every other step takes a consumer to a stage that is no transaction.
LEMMA OthersSound ==
  ASSUME EngineTyped, TxInv, NEW w \in Workers, NEW t, Set(w, t), t.pc # "tx"
  PROVE  TxInv'
BY SetSound DEF TxSound

\* Every step leaves the transactions sound.
LEMMA TxStep ==
  ASSUME EngineTyped, TxInv, [EngNext]_engVars
  PROVE  TxInv'
<1>1. CASE UNCHANGED engVars
  BY <1>1 DEF engVars, TxInv
<1>2. ASSUME NEW o \in Orders,
             \/ ProcessOrder(o) \/ LockMarket(o) \/ OpenPending(o) \/ OpenPendingFails(o)
             \/ TriggerOrder(o) \/ StartCancel(o)
      PROVE  TxInv'
  <2>1. CASE ProcessOrder(o)
    BY <2>1, OthersSound DEF ProcessOrder, Workers
  <2>2. CASE OpenPending(o)
    BY <2>2, OthersSound DEF OpenPending, Workers
  <2>3. CASE OpenPendingFails(o)
    BY <2>3, SetSound, IdleSound DEF OpenPendingFails, Done, Workers
  <2>4. CASE TriggerOrder(o)
    BY <2>4, OthersSound DEF TriggerOrder, Workers
  <2>5. CASE StartCancel(o)
    BY <2>5, OthersSound DEF StartCancel, Workers
  <2> QED BY <1>2, <2>1, <2>2, <2>3, <2>4, <2>5, LockMarketSound
<1>3. CASE RejectInserted \/ AddToBook \/ LeaveTriggered \/ RejectTriggered \/ ForgetTpsl
           \/ ApplyCancel \/ CancelAllApply \/ CloseAllApply
  <2>1. \E w \in Workers : Done(w)
    BY <1>3 DEF RejectInserted, AddToBook, LeaveTriggered, RejectTriggered, ForgetTpsl,
       ApplyCancel, CancelAllApply, CloseAllApply, Workers
  <2> QED BY <2>1, SetSound, IdleSound DEF Done
<1>4. CASE LockTriggered \/ LockTpsl
  BY <1>4, LockTriggeredSound, LockTpslSound
<1>5. ASSUME NEW s \in Symbols, NEW i \in 1 .. pid[s], TriggerTpsl(s, i) PROVE TxInv'
  BY <1>5, OthersSound DEF TriggerTpsl, Workers
<1>6. ASSUME NEW s \in Symbols, NEW k \in 1 .. QtyTotal, LockClose(s, k) PROVE TxInv'
  BY <1>6, LockCloseSound
<1>7. ASSUME NEW s \in Symbols, NEW on \in BOOLEAN, ModifyTPSL(s, on) PROVE TxInv'
  BY <1>7 DEF ModifyTPSL, TxInv
<1>8. CASE CommitCancel
  BY <1>8, OthersSound DEF CommitCancel, Workers
<1>9. ASSUME NEW w \in Workers,
             CommitFill(w) \/ FillFails(w) \/ ApplyFill(w) \/ ApplyPanics(w)
      PROVE  TxInv'
  <2>1. CASE CommitFill(w)
    BY <2>1, OthersSound DEF CommitFill
  <2>2. CASE FillFails(w) \/ ApplyFill(w) \/ ApplyPanics(w)
    <3>1. Done(w)
      BY <2>2 DEF FillFails, ApplyFill, ApplyPanics, AfterCommit
    <3> QED BY <3>1, SetSound, IdleSound DEF Done
  <2> QED BY <1>9, <2>1, <2>2
<1>10. CASE CancelAllTx
  BY <1>10, OthersSound DEF CancelAllTx, Workers
<1>11. CASE CloseAllTx
  BY <1>11, OthersSound DEF CloseAllTx, Workers
<1>12. CASE EndContest \/ SeeContestState \/ EvictContest \/ Restart \/ ReloadState
  <2>1. task' = task
    BY <1>12 DEF EndContest, SeeContestState, EvictContest, Restart, ReloadState
  <2> QED BY <2>1 DEF TxInv
<1>13. CASE Crash
  BY <1>13, IdleSound DEF Crash, TxInv
<1> QED BY <1>1, <1>2, <1>3, <1>4, <1>5, <1>6, <1>7, <1>8, <1>9, <1>10, <1>11, <1>12, <1>13
     DEF EngNext

-----------------------------------------------------------------------------
(* Only a transaction changes positions, and after the end it only reduces. *)

\* When one position changes, exposure changes by as much.
LEMMA ExposureMoves ==
  ASSUME NEW p \in [Symbols -> Int], NEW s \in Symbols, NEW n \in Int
  PROVE  /\ Spread([p EXCEPT ![s] = n]) = Spread(p) - Abs(p[s]) + Abs(n)
         /\ Spread(p) \in Nat
<1> DEFINE q == [p EXCEPT ![s] = n]
           f == [x \in Symbols |-> Abs(p[x])]
           g == [x \in Symbols |-> Abs(q[x])]
<1>1. q \in [Symbols -> Int] /\ q[s] = n /\ \A x \in Symbols \ {s} : q[x] = p[x]
  OBVIOUS
<1> HIDE DEF q
<1>2. \A x \in Symbols : f[x] \in Int /\ g[x] \in Int
  BY <1>1, AbsNat
<1>3. \A x \in Symbols \ {s} : g[x] = f[x]
  BY <1>1
<1>4. f[s] = Abs(p[s]) /\ g[s] = Abs(n)
  BY <1>1
<1> HIDE DEF f, g
<1>5. SumFunctionOnSet(g, Symbols) = SumFunctionOnSet(f, Symbols) + g[s] - f[s]
  BY <1>2, <1>3, EngineConstants, SumChange
<1>6. Spread(q) = SumFunctionOnSet(g, Symbols) /\ Spread(p) = SumFunctionOnSet(f, Symbols)
  BY DEF Spread, f, g
<1>7. Spread(p) \in Nat /\ f[s] \in Int /\ g[s] \in Int
  BY SpreadNat, <1>2
<1>8. Spread(q) = Spread(p) - Abs(p[s]) + Abs(n)
  BY <1>4, <1>5, <1>6, <1>7
<1> QED BY <1>7, <1>8 DEF q

\* The exposure a fill or close leaves behind.
LEMMA CommitMoves ==
  ASSUME EngineTyped, NEW w \in Workers, CommitFill(w)
  PROVE  LET t == task[w]
             p == dbPos[t.sym]
             left == IF t.kind = "close" /\ p = 0 THEN 0 ELSE p + t.qty
         IN  /\ Exposure \in Nat
             /\ Exposure' = Exposure - Abs(p) + Abs(left)
             /\ task'[w].pc = "apply" /\ task'[w].tx = t
             /\ task'[w].back = Released(IF t.kind = "close" THEN t.pos ELSE p, t.qty, t.pre)
             /\ \A v \in Workers : v # w => task'[v] = task[v]
             /\ TxTyped(t) /\ t.kind \in FillKinds(w)
             /\ p \in Int /\ (~raced' => p = t.pos /\ ~raced)
<1> DEFINE t == task[w]
           s == t.sym
           p == dbPos[s]
           left == IF t.kind = "close" /\ p = 0 THEN 0 ELSE p + t.qty
           back == Released(IF t.kind = "close" THEN t.pos ELSE p, t.qty, t.pre)
           entry == CASE ~Opposite(p, t.qty) -> "set"
                      [] Abs(t.qty) >= Abs(p) -> "close"
                      [] OTHER -> "partial"
           a == [pc |-> "apply", tx |-> t, back |-> back, left |-> left, entry |-> entry]
<1>1. TxTyped(t) /\ t.kind \in FillKinds(w) /\ s \in Symbols /\ t.qty \in Int /\ p \in Int
      /\ dbPos \in [Symbols -> Int]
  BY TaskIs DEF CommitFill, TaskTyped, TxTyped, EngineTyped, RowsTyped
<1>2. dbPos' = [dbPos EXCEPT ![s] = left]
  BY DEF CommitFill
<1>3. left \in Int
  BY <1>1
<1>4. Exposure = Spread(dbPos) /\ Exposure' = Spread(dbPos')
  BY DEF Exposure, Spread
<1>5. Exposure \in Nat /\ Exposure' = Exposure - Abs(p) + Abs(left)
  <2> HIDE DEF t, p, left, s
  <2>1. p = dbPos[s]
    BY DEF p
  <2> QED BY <2>1, <1>1, <1>2, <1>3, <1>4, ExposureMoves
<1>6. Set(w, a)
  BY DEF CommitFill
<1>7. task'[w] = a /\ \A v \in Workers : v # w => task'[v] = task[v]
  <2> HIDE DEF a
  <2> QED BY <1>6, SetTask DEF EngineTyped, TasksTyped
<1>8. ~raced' => p = t.pos /\ ~raced
  BY DEF CommitFill
<1> QED BY <1>1, <1>5, <1>7, <1>8

\* Only the commit takes a transaction to its memory half.
LEMMA OnlyCommits ==
  ASSUME EngineTyped, [EngNext]_engVars, NEW w \in Workers,
         task[w].pc = "tx", task'[w].pc = "apply"
  PROVE  CommitFill(w)
<1>0. ASSUME NEW v \in Workers, NEW t, Set(v, t), t.pc # "apply" PROVE FALSE
  <2>1. task'[v] = t /\ \A u \in Workers : u # v => task'[u] = task[u]
    BY <1>0, SetTask DEF EngineTyped, TasksTyped
  <2> QED BY <2>1, <1>0
<1>i. ASSUME NEW v \in Workers, Done(v) PROVE FALSE
  BY <1>i, <1>0 DEF Done, Idle
<1>1. CASE UNCHANGED engVars
  BY <1>1 DEF engVars
<1>2. ASSUME NEW o \in Orders,
             \/ ProcessOrder(o) \/ LockMarket(o) \/ OpenPending(o) \/ OpenPendingFails(o)
             \/ TriggerOrder(o) \/ StartCancel(o)
      PROVE  FALSE
  <2>1. CASE ProcessOrder(o)
    BY <2>1, <1>0 DEF ProcessOrder, Workers
  <2>2. CASE OpenPending(o)
    BY <2>2, <1>0 DEF OpenPending, Workers
  <2>3. CASE OpenPendingFails(o)
    BY <2>3, <1>i DEF OpenPendingFails, Workers
  <2>4. CASE TriggerOrder(o)
    BY <2>4, <1>0 DEF TriggerOrder, Workers
  <2>5. CASE StartCancel(o)
    BY <2>5, <1>0 DEF StartCancel, Workers
  <2>6. CASE LockMarket(o)
    BY <2>6, <1>0 DEF LockMarket, Workers
  <2> QED BY <1>2, <2>1, <2>2, <2>3, <2>4, <2>5, <2>6
<1>3. CASE RejectInserted \/ AddToBook \/ LeaveTriggered \/ RejectTriggered \/ ForgetTpsl
           \/ ApplyCancel \/ CancelAllApply \/ CloseAllApply
  <2>1. \E v \in Workers : Done(v)
    BY <1>3 DEF RejectInserted, AddToBook, LeaveTriggered, RejectTriggered, ForgetTpsl,
       ApplyCancel, CancelAllApply, CloseAllApply, Workers
  <2> QED BY <2>1, <1>i
<1>4. CASE LockTriggered
  BY <1>4, <1>0 DEF LockTriggered, Workers
<1>5. CASE LockTpsl
  BY <1>5, <1>0 DEF LockTpsl, Workers
<1>6. ASSUME NEW s \in Symbols, NEW i \in 1 .. pid[s], TriggerTpsl(s, i) PROVE FALSE
  BY <1>6, <1>0 DEF TriggerTpsl, Workers
<1>7. ASSUME NEW s \in Symbols, NEW k \in 1 .. QtyTotal, LockClose(s, k) PROVE FALSE
  BY <1>7, <1>0 DEF LockClose, Workers
<1>8. ASSUME NEW s \in Symbols, NEW on \in BOOLEAN, ModifyTPSL(s, on) PROVE FALSE
  BY <1>8 DEF ModifyTPSL
<1>9. CASE CommitCancel
  BY <1>9, <1>0 DEF CommitCancel, Workers
<1>10. ASSUME NEW v \in Workers,
             CommitFill(v) \/ FillFails(v) \/ ApplyFill(v) \/ ApplyPanics(v)
       PROVE  CommitFill(w)
  <2>1. CASE CommitFill(v)
    <3>1. v # w => task'[w] = task[w]
      BY <2>1, CommitMoves
    <3> QED BY <3>1, <2>1
  <2>2. CASE FillFails(v) \/ ApplyFill(v) \/ ApplyPanics(v)
    <3>1. Done(v)
      BY <2>2 DEF FillFails, ApplyFill, ApplyPanics, AfterCommit
    <3> QED BY <3>1, <1>i
  <2> QED BY <1>10, <2>1, <2>2
<1>11. CASE CancelAllTx
  BY <1>11, <1>0 DEF CancelAllTx, Workers
<1>12. CASE CloseAllTx
  BY <1>12, <1>0 DEF CloseAllTx, Workers
<1>13. CASE EndContest \/ SeeContestState \/ EvictContest \/ Restart \/ ReloadState
  <2>1. task' = task
    BY <1>13 DEF EndContest, SeeContestState, EvictContest, Restart, ReloadState
  <2> QED BY <2>1
<1>14. CASE Crash
  BY <1>14 DEF Crash, Idle
<1> QED BY <1>1, <1>2, <1>3, <1>4, <1>5, <1>6, <1>7, <1>8, <1>9, <1>10, <1>11, <1>12, <1>13,
     <1>14 DEF EngNext

\* A transaction that started after the end closes, and closes no more than there is.
LEMMA EndedReduces ==
  ASSUME EngineTyped, TxInv, [EngNext]_engVars, NEW w \in Workers,
         task[w].pc = "tx", task'[w].pc = "apply", ~task[w].running, ~raced'
  PROVE  Exposure' <= Exposure
<1> DEFINE t == task[w]
           p == dbPos[t.sym]
           left == IF t.kind = "close" /\ p = 0 THEN 0 ELSE p + t.qty
<1>1. CommitFill(w)
  BY OnlyCommits
<1>2. /\ Exposure \in Nat /\ Exposure' = Exposure - Abs(p) + Abs(left)
      /\ TxTyped(t) /\ t.kind \in FillKinds(w) /\ p \in Int /\ p = t.pos
  BY <1>1, CommitMoves
<1>3. TxSound(t)
  BY DEF TxInv
<1>4. t.kind \in {"tpsl", "close"} /\ t.qty \in Int
  BY <1>2, <1>3 DEF FillKinds, TxSound, TxTyped
<1>5. Opposite(p, t.qty) /\ Abs(t.qty) <= Abs(p)
  BY <1>2, <1>3, <1>4 DEF TxSound
<1>6. Abs(left) <= Abs(p) /\ Abs(left) \in Int /\ Abs(p) \in Int
  <2> HIDE DEF t, p
  <2> QED BY <1>2, <1>4, <1>5 DEF Opposite, Abs
<1> HIDE DEF t, p, left
<1> QED BY <1>2, <1>6

-----------------------------------------------------------------------------
(* No order is filled twice. *)

\* ProcessOrder fills no order twice.
LEMMA ProcessOrderOnce ==
  ASSUME EngineTyped, OnceInv, NEW o \in Orders, ProcessOrder(o)
  PROVE  OnceInv'
<1>1. task'["order"] = [pc |-> "inserted", order |-> o] /\ \A v \in Workers : v # "order" => task'[v] = task[v]
  <2> DEFINE t == [pc |-> "inserted", order |-> o]
  <2>1. Set("order", t)
    BY DEF ProcessOrder, Done
  <2> HIDE DEF t
  <2>2. task'["order"] = t /\ \A v \in Workers : v # "order" => task'[v] = task[v]
    BY <2>1, SetTask DEF EngineTyped, TasksTyped, Workers
  <2> QED BY <2>2 DEF t
<1>2. IdleWhenDown'
  BY <1>1 DEF ProcessOrder, Admissible, OnceInv, IdleWhenDown, sys, Busy, Workers, Idle
<1>3. ASSUME NEW q \in Orders, OnceFor(q) PROVE OnceFor(q)'
  BY <1>1, <1>3, TaskIs DEF ProcessOrder, Admissible, Busy, OnceFor, Placing, Filling, Filled, Triggering, Ticked,
     EngineTyped, RowsTyped, TaskTyped, Stages, Workers, Idle, rows, ram
<1> QED BY <1>2, <1>3 DEF ProcessOrder, OnceInv, sys

\* LockMarket fills no order twice.
LEMMA LockMarketOnce ==
  ASSUME EngineTyped, OnceInv, NEW o \in Orders, LockMarket(o)
  PROVE  OnceInv'
<1>1. \A v \in Workers : v # "order" => task'[v] = task[v]
  BY SetTask DEF LockMarket, Done, EngineTyped, TasksTyped, Workers
<1>2. IdleWhenDown'
  BY DEF LockMarket, OnceInv, IdleWhenDown, sys, Requested, Busy, Workers
<1>3. ASSUME NEW q \in Orders, OnceFor(q) PROVE OnceFor(q)'
  BY <1>1, <1>3, TaskIs DEF LockMarket, Set, Done, OnceFor, Placing, Filling, Filled, Triggering, Ticked,
     EngineTyped, RowsTyped, TasksTyped, TaskTyped, TxTyped, Stages, FillKinds, Workers, Idle, rows, ram
<1> QED BY <1>2, <1>3 DEF LockMarket, OnceInv, sys

\* OpenPending fills no order twice.
LEMMA OpenPendingOnce ==
  ASSUME EngineTyped, OnceInv, NEW o \in Orders, OpenPending(o)
  PROVE  OnceInv'
<1>1. \A v \in Workers : v # "order" => task'[v] = task[v]
  BY SetTask DEF OpenPending, Done, EngineTyped, TasksTyped, Workers
<1>2. IdleWhenDown'
  BY DEF OpenPending, OnceInv, IdleWhenDown, sys, Requested, Busy, Workers
<1>3. ASSUME NEW q \in Orders, OnceFor(q) PROVE OnceFor(q)'
  BY <1>1, <1>3, TaskIs DEF OpenPending, Set, Done, OnceFor, Placing, Filling, Filled, Triggering, Ticked,
     EngineTyped, RowsTyped, TasksTyped, TaskTyped, TxTyped, Stages, FillKinds, Workers, Idle, rows, ram
<1> QED BY <1>2, <1>3 DEF OpenPending, OnceInv, sys

\* OpenPendingFails fills no order twice.
LEMMA OpenPendingFailsOnce ==
  ASSUME EngineTyped, OnceInv, NEW o \in Orders, OpenPendingFails(o)
  PROVE  OnceInv'
<1>1. \A v \in Workers : v # "order" => task'[v] = task[v]
  BY SetTask DEF OpenPendingFails, Done, EngineTyped, TasksTyped, Workers
<1>2. IdleWhenDown'
  BY DEF OpenPendingFails, OnceInv, IdleWhenDown, sys, Requested, Busy, Workers
<1>3. ASSUME NEW q \in Orders, OnceFor(q) PROVE OnceFor(q)'
  BY <1>1, <1>3, TaskIs DEF OpenPendingFails, Set, Done, OnceFor, Placing, Filling, Filled, Triggering, Ticked,
     EngineTyped, RowsTyped, TasksTyped, TaskTyped, TxTyped, Stages, FillKinds, Workers, Idle, rows, ram
<1> QED BY <1>2, <1>3 DEF OpenPendingFails, OnceInv, sys

\* TriggerOrder fills no order twice.
LEMMA TriggerOrderOnce ==
  ASSUME EngineTyped, OnceInv, NEW o \in Orders, TriggerOrder(o)
  PROVE  OnceInv'
<1>1. task'["tick"] = [pc |-> "triggered", order |-> o] /\ \A v \in Workers : v # "tick" => task'[v] = task[v]
  <2> DEFINE t == [pc |-> "triggered", order |-> o]
  <2>1. Set("tick", t)
    BY DEF TriggerOrder, Done
  <2> HIDE DEF t
  <2>2. task'["tick"] = t /\ \A v \in Workers : v # "tick" => task'[v] = task[v]
    BY <2>1, SetTask DEF EngineTyped, TasksTyped, Workers
  <2> QED BY <2>2 DEF t
<1>2. IdleWhenDown'
  BY <1>1 DEF TriggerOrder, OnceInv, IdleWhenDown, sys, Busy, Workers, Idle
<1>3. ASSUME NEW q \in Orders, OnceFor(q) PROVE OnceFor(q)'
  BY <1>1, <1>3, TaskIs DEF TriggerOrder, Busy, OnceFor, Placing, Filling, Filled, Triggering, Ticked,
     EngineTyped, RowsTyped, TaskTyped, Stages, Workers, Idle, rows, ram
<1> QED BY <1>2, <1>3 DEF TriggerOrder, OnceInv, sys

\* StartCancel fills no order twice.
LEMMA StartCancelOnce ==
  ASSUME EngineTyped, OnceInv, NEW o \in Orders, StartCancel(o)
  PROVE  OnceInv'
<1>1. \A v \in Workers : v # "cancel" => task'[v] = task[v]
  BY SetTask DEF StartCancel, Done, EngineTyped, TasksTyped, Workers
<1>2. IdleWhenDown'
  BY DEF StartCancel, OnceInv, IdleWhenDown, sys, Requested, Busy, Workers
<1>3. ASSUME NEW q \in Orders, OnceFor(q) PROVE OnceFor(q)'
  BY <1>1, <1>3, TaskIs DEF StartCancel, Set, Done, OnceFor, Placing, Filling, Filled, Triggering, Ticked,
     EngineTyped, RowsTyped, TasksTyped, TaskTyped, TxTyped, Stages, FillKinds, Workers, Idle, rows, ram
<1>4. reloaded' = reloaded
  BY DEF StartCancel, Requested
<1> QED BY <1>2, <1>3, <1>4 DEF OnceInv

\* RejectInserted fills no order twice.
LEMMA RejectInsertedOnce ==
  ASSUME EngineTyped, OnceInv, RejectInserted
  PROVE  OnceInv'
<1>1. \A v \in Workers : v # "order" => task'[v] = task[v]
  BY SetTask DEF RejectInserted, Done, EngineTyped, TasksTyped, Workers
<1>2. IdleWhenDown'
  BY DEF RejectInserted, OnceInv, IdleWhenDown, sys, Requested, Busy, Workers
<1>3. ASSUME NEW q \in Orders, OnceFor(q) PROVE OnceFor(q)'
  BY <1>1, <1>3, TaskIs DEF RejectInserted, Set, Done, OnceFor, Placing, Filling, Filled, Triggering, Ticked,
     EngineTyped, RowsTyped, TasksTyped, TaskTyped, TxTyped, Stages, FillKinds, Workers, Idle, rows, ram
<1> QED BY <1>2, <1>3 DEF RejectInserted, OnceInv, sys

\* AddToBook fills no order twice.
LEMMA AddToBookOnce ==
  ASSUME EngineTyped, OnceInv, AddToBook
  PROVE  OnceInv'
<1>1. task'["order"] = Idle /\ \A v \in Workers : v # "order" => task'[v] = task[v]
  <2> DEFINE t == Idle
  <2>1. Set("order", t)
    BY DEF AddToBook, Done
  <2> HIDE DEF t
  <2>2. task'["order"] = t /\ \A v \in Workers : v # "order" => task'[v] = task[v]
    BY <2>1, SetTask DEF EngineTyped, TasksTyped, Workers
  <2> QED BY <2>2 DEF t
<1>2. IdleWhenDown'
  BY <1>1 DEF AddToBook, OnceInv, IdleWhenDown, sys, Busy, Workers, Idle
<1>3. ASSUME NEW q \in Orders, OnceFor(q) PROVE OnceFor(q)'
  BY <1>1, <1>3, TaskIs DEF AddToBook, OnceFor, Placing, Filling, Filled, Triggering, Ticked,
     EngineTyped, RowsTyped, TaskTyped, Stages, Workers, Idle, rows, ram
<1> QED BY <1>2, <1>3 DEF AddToBook, OnceInv, sys

\* LeaveTriggered fills no order twice.
LEMMA LeaveTriggeredOnce ==
  ASSUME EngineTyped, OnceInv, LeaveTriggered
  PROVE  OnceInv'
<1>1. \A v \in Workers : v # "tick" => task'[v] = task[v]
  BY SetTask DEF LeaveTriggered, Done, EngineTyped, TasksTyped, Workers
<1>2. IdleWhenDown'
  BY DEF LeaveTriggered, OnceInv, IdleWhenDown, sys, Requested, Busy, Workers
<1>3. ASSUME NEW q \in Orders, OnceFor(q) PROVE OnceFor(q)'
  BY <1>1, <1>3, TaskIs DEF LeaveTriggered, Set, Done, OnceFor, Placing, Filling, Filled, Triggering, Ticked,
     EngineTyped, RowsTyped, TasksTyped, TaskTyped, TxTyped, Stages, FillKinds, Workers, Idle, rows, ram
<1> QED BY <1>2, <1>3 DEF LeaveTriggered, OnceInv, sys

\* LockTriggered fills no order twice.
LEMMA LockTriggeredOnce ==
  ASSUME EngineTyped, OnceInv, LockTriggered
  PROVE  OnceInv'
<1>1. \A v \in Workers : v # "tick" => task'[v] = task[v]
  BY SetTask DEF LockTriggered, Done, EngineTyped, TasksTyped, Workers
<1>2. IdleWhenDown'
  BY DEF LockTriggered, OnceInv, IdleWhenDown, sys, Requested, Busy, Workers
<1>3. ASSUME NEW q \in Orders, OnceFor(q) PROVE OnceFor(q)'
  BY <1>1, <1>3, TaskIs DEF LockTriggered, Set, Done, OnceFor, Placing, Filling, Filled, Triggering, Ticked,
     EngineTyped, RowsTyped, TasksTyped, TaskTyped, TxTyped, Stages, FillKinds, Workers, Idle, rows, ram
<1> QED BY <1>2, <1>3 DEF LockTriggered, OnceInv, sys

\* RejectTriggered fills no order twice.
LEMMA RejectTriggeredOnce ==
  ASSUME EngineTyped, OnceInv, RejectTriggered
  PROVE  OnceInv'
<1>1. \A v \in Workers : v # "tick" => task'[v] = task[v]
  BY SetTask DEF RejectTriggered, Done, EngineTyped, TasksTyped, Workers
<1>2. IdleWhenDown'
  BY DEF RejectTriggered, OnceInv, IdleWhenDown, sys, Requested, Busy, Workers
<1>3. ASSUME NEW q \in Orders, OnceFor(q) PROVE OnceFor(q)'
  BY <1>1, <1>3, TaskIs DEF RejectTriggered, Set, Done, OnceFor, Placing, Filling, Filled, Triggering, Ticked,
     EngineTyped, RowsTyped, TasksTyped, TaskTyped, TxTyped, Stages, FillKinds, Workers, Idle, rows, ram
<1> QED BY <1>2, <1>3 DEF RejectTriggered, OnceInv, sys

\* LockTpsl fills no order twice.
LEMMA LockTpslOnce ==
  ASSUME EngineTyped, OnceInv, LockTpsl
  PROVE  OnceInv'
<1>1. \A v \in Workers : v # "tick" => task'[v] = task[v]
  BY SetTask DEF LockTpsl, Done, EngineTyped, TasksTyped, Workers
<1>2. IdleWhenDown'
  BY DEF LockTpsl, OnceInv, IdleWhenDown, sys, Requested, Busy, Workers
<1>3. ASSUME NEW q \in Orders, OnceFor(q) PROVE OnceFor(q)'
  BY <1>1, <1>3, TaskIs DEF LockTpsl, Set, Done, OnceFor, Placing, Filling, Filled, Triggering, Ticked,
     EngineTyped, RowsTyped, TasksTyped, TaskTyped, TxTyped, Stages, FillKinds, Workers, Idle, rows, ram
<1> QED BY <1>2, <1>3 DEF LockTpsl, OnceInv, sys

\* ForgetTpsl fills no order twice.
LEMMA ForgetTpslOnce ==
  ASSUME EngineTyped, OnceInv, ForgetTpsl
  PROVE  OnceInv'
<1>1. \A v \in Workers : v # "tick" => task'[v] = task[v]
  BY SetTask DEF ForgetTpsl, Done, EngineTyped, TasksTyped, Workers
<1>2. IdleWhenDown'
  BY DEF ForgetTpsl, OnceInv, IdleWhenDown, sys, Requested, Busy, Workers
<1>3. ASSUME NEW q \in Orders, OnceFor(q) PROVE OnceFor(q)'
  BY <1>1, <1>3, TaskIs DEF ForgetTpsl, Set, Done, OnceFor, Placing, Filling, Filled, Triggering, Ticked,
     EngineTyped, RowsTyped, TasksTyped, TaskTyped, TxTyped, Stages, FillKinds, Workers, Idle, rows, ram
<1> QED BY <1>2, <1>3 DEF ForgetTpsl, OnceInv, sys

\* TriggerTpsl fills no order twice.
LEMMA TriggerTpslOnce ==
  ASSUME EngineTyped, OnceInv, NEW s \in Symbols, NEW i \in 1 .. pid[s], TriggerTpsl(s, i)
  PROVE  OnceInv'
<1>1. task'["tick"] = [pc |-> "triggeredTpsl", sym |-> s, id |-> i] /\ \A v \in Workers : v # "tick" => task'[v] = task[v]
  <2> DEFINE t == [pc |-> "triggeredTpsl", sym |-> s, id |-> i]
  <2>1. Set("tick", t)
    BY DEF TriggerTpsl, Done
  <2> HIDE DEF t
  <2>2. task'["tick"] = t /\ \A v \in Workers : v # "tick" => task'[v] = task[v]
    BY <2>1, SetTask DEF EngineTyped, TasksTyped, Workers
  <2> QED BY <2>2 DEF t
<1>2. IdleWhenDown'
  BY <1>1 DEF TriggerTpsl, OnceInv, IdleWhenDown, sys, Busy, Workers, Idle
<1>3. ASSUME NEW q \in Orders, OnceFor(q) PROVE OnceFor(q)'
  BY <1>1, <1>3, TaskIs DEF TriggerTpsl, Busy, OnceFor, Placing, Filling, Filled, Triggering, Ticked,
     EngineTyped, RowsTyped, TaskTyped, Stages, Workers, Idle, rows, ram
<1> QED BY <1>2, <1>3 DEF TriggerTpsl, OnceInv, sys

\* LockClose fills no order twice.
LEMMA LockCloseOnce ==
  ASSUME EngineTyped, OnceInv, NEW s \in Symbols, NEW k \in 1 .. QtyTotal, LockClose(s, k)
  PROVE  OnceInv'
<1>1. \A v \in Workers : v # "close" => task'[v] = task[v]
  BY SetTask DEF LockClose, Done, EngineTyped, TasksTyped, Workers
<1>2. IdleWhenDown'
  BY DEF LockClose, OnceInv, IdleWhenDown, sys, Requested, Busy, Workers
<1>3. ASSUME NEW q \in Orders, OnceFor(q) PROVE OnceFor(q)'
  BY <1>1, <1>3, TaskIs DEF LockClose, Set, Done, OnceFor, Placing, Filling, Filled, Triggering, Ticked,
     EngineTyped, RowsTyped, TasksTyped, TaskTyped, TxTyped, Stages, FillKinds, Workers, Idle, rows, ram
<1>4. reloaded' = reloaded
  BY DEF LockClose, Requested
<1> QED BY <1>2, <1>3, <1>4 DEF OnceInv

\* CommitCancel fills no order twice.
LEMMA CommitCancelOnce ==
  ASSUME EngineTyped, OnceInv, CommitCancel
  PROVE  OnceInv'
<1>1. \A v \in Workers : v # "cancel" => task'[v] = task[v]
  BY SetTask DEF CommitCancel, Done, EngineTyped, TasksTyped, Workers
<1>2. IdleWhenDown'
  BY DEF CommitCancel, OnceInv, IdleWhenDown, sys, Requested, Busy, Workers
<1>3. ASSUME NEW q \in Orders, OnceFor(q) PROVE OnceFor(q)'
  BY <1>1, <1>3, TaskIs DEF CommitCancel, Set, Done, OnceFor, Placing, Filling, Filled, Triggering, Ticked,
     EngineTyped, RowsTyped, TasksTyped, TaskTyped, TxTyped, Stages, FillKinds, Workers, Idle, rows, ram
<1> QED BY <1>2, <1>3 DEF CommitCancel, OnceInv, sys

\* ApplyCancel fills no order twice.
LEMMA ApplyCancelOnce ==
  ASSUME EngineTyped, OnceInv, ApplyCancel
  PROVE  OnceInv'
<1>1. \A v \in Workers : v # "cancel" => task'[v] = task[v]
  BY SetTask DEF ApplyCancel, Done, EngineTyped, TasksTyped, Workers
<1>2. IdleWhenDown'
  BY DEF ApplyCancel, OnceInv, IdleWhenDown, sys, Requested, Busy, Workers
<1>3. ASSUME NEW q \in Orders, OnceFor(q) PROVE OnceFor(q)'
  BY <1>1, <1>3, TaskIs DEF ApplyCancel, Set, Done, OnceFor, Placing, Filling, Filled, Triggering, Ticked,
     EngineTyped, RowsTyped, TasksTyped, TaskTyped, TxTyped, Stages, FillKinds, Workers, Idle, rows, ram
<1> QED BY <1>2, <1>3 DEF ApplyCancel, OnceInv, sys

\* FillFails fills no order twice.
LEMMA FillFailsOnce ==
  ASSUME EngineTyped, OnceInv, NEW w \in Workers, FillFails(w)
  PROVE  OnceInv'
<1>1. \A v \in Workers : v # w => task'[v] = task[v]
  BY SetTask DEF FillFails, Done, EngineTyped, TasksTyped, Workers
<1>2. IdleWhenDown'
  BY DEF FillFails, OnceInv, IdleWhenDown, sys, Requested, Busy, Workers
<1>3. ASSUME NEW q \in Orders, OnceFor(q) PROVE OnceFor(q)'
  BY <1>1, <1>3, TaskIs DEF FillFails, Set, Done, OnceFor, Placing, Filling, Filled, Triggering, Ticked,
     EngineTyped, RowsTyped, TasksTyped, TaskTyped, TxTyped, Stages, FillKinds, Workers, Idle, rows, ram
<1> QED BY <1>2, <1>3 DEF FillFails, OnceInv, sys

\* The memory half of a fill takes the filled order out of the book.
LEMMA AfterCommitOnce ==
  ASSUME EngineTyped, OnceInv, NEW w \in Workers, NEW b \in BOOLEAN, AfterCommit(w, b)
  PROVE  OnceInv'
<1> DEFINE t == task[w].tx
<1>1. /\ task'[w] = Idle /\ task[w].pc = "apply"
      /\ \A v \in Workers : v # w => task'[v] = task[v]
      /\ t.kind \in FillKinds(w)
  BY TaskIs DEF AfterCommit, Set, Done, EngineTyped, TasksTyped, TaskTyped
<1>2. /\ orders' = orders /\ fills' = fills /\ reloaded' = reloaded /\ engine' = engine
      /\ book' = book \ (IF t.kind = "pending" THEN {t.order} ELSE {})
  BY DEF AfterCommit, rows
<1>3. ASSUME NEW q \in Orders, OnceFor(q) PROVE OnceFor(q)'
  <2>1. CASE w = "tick"
    BY <1>1, <1>2, <1>3, <2>1 DEF OnceFor, Placing, Filling, Filled, Triggering, Ticked, Workers,
       FillKinds, Idle
  <2>2. CASE w # "tick"
    <3>1. t.kind # "pending" /\ task'["tick"] = task["tick"]
      BY <1>1, <2>2 DEF FillKinds, Workers
    <3> QED BY <1>1, <1>2, <1>3, <2>2, <3>1 DEF OnceFor, Placing, Filling, Filled, Triggering, Ticked,
          Workers, Idle
  <2> QED BY <2>1, <2>2
<1>4. IdleWhenDown'
  BY <1>1, <1>2 DEF OnceInv, IdleWhenDown
<1> QED BY <1>2, <1>3, <1>4 DEF OnceInv

\* CancelAllTx fills no order twice.
LEMMA CancelAllTxOnce ==
  ASSUME EngineTyped, OnceInv, CancelAllTx
  PROVE  OnceInv'
<1>1. \A v \in Workers : v # "bulk" => task'[v] = task[v]
  BY SetTask DEF CancelAllTx, Done, EngineTyped, TasksTyped, Workers
<1>2. IdleWhenDown'
  BY DEF CancelAllTx, OnceInv, IdleWhenDown, sys, Requested, Busy, Workers
<1>3. ASSUME NEW q \in Orders, OnceFor(q) PROVE OnceFor(q)'
  BY <1>1, <1>3, TaskIs DEF CancelAllTx, Set, Done, OnceFor, Placing, Filling, Filled, Triggering, Ticked,
     EngineTyped, RowsTyped, TasksTyped, TaskTyped, TxTyped, Stages, FillKinds, Workers, Idle, rows, ram
<1> QED BY <1>2, <1>3 DEF CancelAllTx, OnceInv, sys

\* CancelAllApply fills no order twice.
LEMMA CancelAllApplyOnce ==
  ASSUME EngineTyped, OnceInv, CancelAllApply
  PROVE  OnceInv'
<1>1. \A v \in Workers : v # "bulk" => task'[v] = task[v]
  BY SetTask DEF CancelAllApply, Done, EngineTyped, TasksTyped, Workers
<1>2. IdleWhenDown'
  BY DEF CancelAllApply, OnceInv, IdleWhenDown, sys, Requested, Busy, Workers
<1>3. ASSUME NEW q \in Orders, OnceFor(q) PROVE OnceFor(q)'
  BY <1>1, <1>3, TaskIs DEF CancelAllApply, Set, Done, OnceFor, Placing, Filling, Filled, Triggering, Ticked,
     EngineTyped, RowsTyped, TasksTyped, TaskTyped, TxTyped, Stages, FillKinds, Workers, Idle, rows, ram
<1> QED BY <1>2, <1>3 DEF CancelAllApply, OnceInv, sys

\* CloseAllTx fills no order twice.
LEMMA CloseAllTxOnce ==
  ASSUME EngineTyped, OnceInv, CloseAllTx
  PROVE  OnceInv'
<1>1. \A v \in Workers : v # "bulk" => task'[v] = task[v]
  BY SetTask DEF CloseAllTx, Done, EngineTyped, TasksTyped, Workers
<1>2. IdleWhenDown'
  BY DEF CloseAllTx, OnceInv, IdleWhenDown, sys, Requested, Busy, Workers
<1>3. ASSUME NEW q \in Orders, OnceFor(q) PROVE OnceFor(q)'
  BY <1>1, <1>3, TaskIs DEF CloseAllTx, Set, Done, OnceFor, Placing, Filling, Filled, Triggering, Ticked,
     EngineTyped, RowsTyped, TasksTyped, TaskTyped, TxTyped, Stages, FillKinds, Workers, Idle, rows, ram
<1> QED BY <1>2, <1>3 DEF CloseAllTx, OnceInv, sys

\* CloseAllApply fills no order twice.
LEMMA CloseAllApplyOnce ==
  ASSUME EngineTyped, OnceInv, CloseAllApply
  PROVE  OnceInv'
<1>1. \A v \in Workers : v # "bulk" => task'[v] = task[v]
  BY SetTask DEF CloseAllApply, Done, EngineTyped, TasksTyped, Workers
<1>2. IdleWhenDown'
  BY DEF CloseAllApply, OnceInv, IdleWhenDown, sys, Requested, Busy, Workers
<1>3. ASSUME NEW q \in Orders, OnceFor(q) PROVE OnceFor(q)'
  BY <1>1, <1>3, TaskIs DEF CloseAllApply, Set, Done, OnceFor, Placing, Filling, Filled, Triggering, Ticked,
     EngineTyped, RowsTyped, TasksTyped, TaskTyped, TxTyped, Stages, FillKinds, Workers, Idle, rows, ram
<1> QED BY <1>2, <1>3 DEF CloseAllApply, OnceInv, sys

\* Only an order nothing has filled can be filled.
LEMMA CommitFillOnce ==
  ASSUME EngineTyped, OnceInv, NEW w \in Workers, CommitFill(w)
  PROVE  OnceInv'
<1>1. /\ task[w].pc = "tx" /\ task'[w].pc = "apply" /\ task'[w].tx = task[w]
      /\ \A v \in Workers : v # w => task'[v] = task[v]
      /\ task[w].kind \in FillKinds(w)
      /\ task[w].kind \in {"market", "pending"} => task[w].order \in Orders
  BY CommitMoves DEF CommitFill, TxTyped
<1>2. IdleWhenDown'
  BY <1>1 DEF CommitFill, OnceInv, IdleWhenDown, sys
<1>3. ASSUME NEW q \in Orders, OnceFor(q) PROVE OnceFor(q)'
  <2>1. CASE w = "order"
    <3>1. /\ task[w].kind = "market" /\ book' = book
          /\ orders' = [orders EXCEPT ![task[w].order] = "filled"]
          /\ fills' = [fills EXCEPT ![task[w].order] = @ + 1]
      BY <1>1, <2>1 DEF CommitFill, FillKinds, ram
    <3> QED BY <1>1, <1>3, <2>1, <3>1 DEF OnceFor, Placing, Filling, Filled, Triggering, Ticked,
          EngineTyped, RowsTyped, Workers
  <2>2. CASE w = "tick" /\ task[w].kind = "pending"
    <3>1. /\ book' = book
          /\ orders' = [orders EXCEPT ![task[w].order] = "filled"]
          /\ fills' = [fills EXCEPT ![task[w].order] = @ + 1]
      BY <2>2 DEF CommitFill, ram
    <3> QED BY <1>1, <1>3, <2>2, <3>1 DEF OnceFor, Placing, Filling, Filled, Triggering, Ticked,
          EngineTyped, RowsTyped, Workers
  <2>3. CASE w # "order" /\ task[w].kind \notin {"market", "pending"}
    <3>1. book' = book /\ orders' = orders /\ fills' = fills
      BY <2>3 DEF CommitFill, ram
    <3> QED BY <1>1, <1>3, <2>3, <3>1 DEF OnceFor, Placing, Filling, Filled, Triggering, Ticked, Workers
  <2> QED BY <1>1, <2>1, <2>2, <2>3 DEF FillKinds, Workers
<1> QED BY <1>2, <1>3 DEF CommitFill, OnceInv, sys

\* At first nothing is filled.
LEMMA OnceStart == EngInit => OnceInv
BY DEF EngInit, OnceInv, IdleWhenDown, OnceFor, Placing, Filling, Filled, Triggering, Ticked, Idle,
   Workers

\* A restart puts back into the book only orders that are 'pending', which no
\* fill has touched.
LEMMA RestartOnce ==
  ASSUME EngineTyped, OnceInv, Restart
  PROVE  OnceInv'
<1>1. /\ task' = task /\ orders' = orders /\ fills' = fills /\ reloaded' = reloaded
      /\ book' = BookFromDB /\ engine # "ready"
  BY DEF Restart, rows
<1>2. \A w \in Workers : task[w].pc = "idle"
  BY <1>1 DEF OnceInv, IdleWhenDown
<1>3. ASSUME NEW q \in Orders, OnceFor(q) PROVE OnceFor(q)'
  BY <1>1, <1>2, <1>3 DEF BookFromDB, OnceFor, Placing, Filling, Filled, Triggering, Ticked, Workers
<1> QED BY <1>1, <1>2, <1>3 DEF OnceInv, IdleWhenDown

\* A crash leaves every consumer idle and the book empty.
LEMMA CrashOnce ==
  ASSUME EngineTyped, OnceInv, Crash
  PROVE  OnceInv'
<1>1. /\ \A w \in Workers : task'[w].pc = "idle"
      /\ orders' = orders /\ fills' = fills /\ reloaded' = reloaded /\ book' = {}
  BY DEF Crash, rows, Idle
<1>3. ASSUME NEW q \in Orders, OnceFor(q) PROVE OnceFor(q)'
  BY <1>1, <1>3 DEF OnceFor, Placing, Filling, Filled, Triggering, Ticked, Workers
<1> QED BY <1>1, <1>3 DEF OnceInv, IdleWhenDown

\* Steps that leave orders and consumers alone, and at most empty the book.
LEMMA QuietOnce ==
  ASSUME OnceInv,
         \/ UNCHANGED engVars
         \/ EndContest \/ SeeContestState \/ EvictContest \/ ReloadState
         \/ \E s \in Symbols, on \in BOOLEAN : ModifyTPSL(s, on)
  PROVE  OnceInv'
<1>1. /\ task' = task /\ orders' = orders /\ fills' = fills /\ engine' = engine
      /\ ((book' = book \/ book' = {}) /\ reloaded' = reloaded) \/ reloaded' = TRUE
  BY DEF engVars, rows, ram, sys, EndContest, SeeContestState, EvictContest, ReloadState,
     ModifyTPSL, Requested
<1>2. reloaded' = TRUE \/ (book' = book \/ book' = {})
  BY <1>1
<1>3. ASSUME NEW q \in Orders, OnceFor(q), reloaded' # TRUE PROVE OnceFor(q)'
  BY <1>1, <1>2, <1>3 DEF OnceFor, Placing, Filling, Filled, Triggering, Ticked
<1> QED BY <1>1, <1>3 DEF OnceInv, IdleWhenDown

\* Every step keeps orders filled at most once.
LEMMA OnceStep ==
  ASSUME EngineTyped, OnceInv, [EngNext]_engVars
  PROVE  OnceInv'
<1>1. CASE \/ UNCHANGED engVars
           \/ EndContest \/ SeeContestState \/ EvictContest \/ ReloadState
           \/ \E s \in Symbols, on \in BOOLEAN : ModifyTPSL(s, on)
  BY <1>1, QuietOnce
<1>2. ASSUME NEW o \in Orders,
             \/ ProcessOrder(o) \/ LockMarket(o) \/ OpenPending(o) \/ OpenPendingFails(o)
             \/ TriggerOrder(o) \/ StartCancel(o)
      PROVE  OnceInv'
  BY <1>2, ProcessOrderOnce, LockMarketOnce, OpenPendingOnce, OpenPendingFailsOnce,
     TriggerOrderOnce, StartCancelOnce
<1>3. CASE RejectInserted \/ AddToBook \/ LeaveTriggered \/ LockTriggered \/ RejectTriggered
           \/ LockTpsl \/ ForgetTpsl \/ CommitCancel \/ ApplyCancel
  BY <1>3, RejectInsertedOnce, AddToBookOnce, LeaveTriggeredOnce, LockTriggeredOnce,
     RejectTriggeredOnce, LockTpslOnce, ForgetTpslOnce, CommitCancelOnce, ApplyCancelOnce
<1>4. ASSUME NEW s \in Symbols, NEW i \in 1 .. pid[s], TriggerTpsl(s, i) PROVE OnceInv'
  BY <1>4, TriggerTpslOnce
<1>5. ASSUME NEW s \in Symbols, NEW k \in 1 .. QtyTotal, LockClose(s, k) PROVE OnceInv'
  BY <1>5, LockCloseOnce
<1>6. ASSUME NEW w \in Workers,
             CommitFill(w) \/ FillFails(w) \/ ApplyFill(w) \/ ApplyPanics(w)
      PROVE  OnceInv'
  <2>1. CASE ApplyFill(w) \/ ApplyPanics(w)
    <3>1. AfterCommit(w, TRUE) \/ AfterCommit(w, FALSE)
      BY <2>1 DEF ApplyFill, ApplyPanics
    <3> QED BY <3>1, AfterCommitOnce
  <2> QED BY <1>6, <2>1, CommitFillOnce, FillFailsOnce
<1>7. CASE CancelAllTx \/ CancelAllApply \/ CloseAllTx \/ CloseAllApply \/ Crash \/ Restart
  BY <1>7, CancelAllTxOnce, CancelAllApplyOnce, CloseAllTxOnce, CloseAllApplyOnce, CrashOnce,
     RestartOnce
<1> QED BY <1>1, <1>2, <1>3, <1>4, <1>5, <1>6, <1>7 DEF EngNext

\* The invariant says so of every order, unless memory was rebuilt under the
\* consumers.
LEMMA OnceHolds == OnceInv => FilledOnce
BY DEF OnceInv, OnceFor, FilledOnce

-----------------------------------------------------------------------------
(* Arithmetic of reservations and positions. *)

\* An order that joins a set adds its own reservation.
LEMMA QtySumAdd ==
  ASSUME NEW S \in SUBSET Orders, NEW o \in Orders, o \notin S
  PROVE  QtySum(S \cup {o}) = QtySum(S) + Abs(OrderQty[o])
<1> DEFINE f == [x \in Orders |-> Abs(OrderQty[x])]
<1>1. IsFiniteSet(S) /\ \A x \in S \cup {o} : f[x] \in Int
  BY EngineConstants, FS_Subset, AbsNat
<1>2. f[o] = Abs(OrderQty[o])
  OBVIOUS
<1> HIDE DEF f
<1>3. SumFunctionOnSet(f, S \cup {o}) = SumFunctionOnSet(f, S) + f[o]
  BY <1>1, SumAdd
<1> QED BY <1>2, <1>3 DEF QtySum, f

\* Orders that leave a set take their reservations with them.
LEMMA QtySumMinus ==
  ASSUME NEW S \in SUBSET Orders, NEW T \in SUBSET S
  PROVE  QtySum(S \ T) = QtySum(S) - QtySum(T)
<1> DEFINE f == [x \in Orders |-> Abs(OrderQty[x])]
<1>1. IsFiniteSet(S) /\ \A x \in S : f[x] \in Nat
  BY EngineConstants, FS_Subset, AbsNat
<1> HIDE DEF f
<1>2. /\ SumFunctionOnSet(f, T) \in Nat /\ SumFunctionOnSet(f, S \ T) \in Nat
      /\ SumFunctionOnSet(f, S) = SumFunctionOnSet(f, T) + SumFunctionOnSet(f, S \ T)
  BY <1>1, SumPart
<1>3. /\ QtySum(T) = SumFunctionOnSet(f, T) /\ QtySum(S) = SumFunctionOnSet(f, S)
      /\ QtySum(S \ T) = SumFunctionOnSet(f, S \ T)
  BY DEF QtySum, f
<1> QED BY <1>2, <1>3

\* What one order reserves.
LEMMA QtySumOne ==
  ASSUME NEW o \in Orders
  PROVE  QtySum({o}) = Abs(OrderQty[o])
<1>1. QtySum({} \cup {o}) = QtySum({}) + Abs(OrderQty[o])
  BY QtySumAdd
<1>2. QtySum({}) = 0
  BY SumEmpty DEF QtySum
<1>3. {} \cup {o} = {o} /\ Abs(OrderQty[o]) \in Int
  BY EngineConstants, AbsNat
<1> QED BY <1>1, <1>2, <1>3

\* One order leaves a set.
LEMMA QtySumDrop ==
  ASSUME NEW S \in SUBSET Orders, NEW o \in S
  PROVE  QtySum(S \ {o}) = QtySum(S) - Abs(OrderQty[o])
BY QtySumMinus, QtySumOne

\* Nothing is open while every position is zero.
LEMMA SpreadZero == Spread([s \in Symbols |-> 0]) = 0
<1> DEFINE p == [s \in Symbols |-> 0]
           f == [s \in Symbols |-> Abs(p[s])]
<1>1. \A s \in Symbols : f[s] = 0
  BY DEF Abs
<1> HIDE DEF f
<1>2. SumFunctionOnSet(f, Symbols) = Cardinality(Symbols) * 0
  BY <1>1, EngineConstants, SumConstant
<1>3. Cardinality(Symbols) \in Nat
  BY EngineConstants, FS_CardinalityType
<1>4. SumFunctionOnSet(f, Symbols) = 0
  BY <1>2, <1>3
<1> QED BY <1>4 DEF Spread, f

\* A market order's fill: exposure takes what the order had reserved, less what
\* the fill gives back.
LEMMA MarketMoves ==
  ASSUME NEW p \in Int, NEW q \in Int, q # 0
  PROVE  Abs(p + q) - Abs(p) = FreeRequired(p, q) - Released(p, q, FreeRequired(p, q) = Abs(q))
<1> DEFINE free == FreeRequired(p, q)
           pre == free = Abs(q)
<1>1. CASE ~Opposite(p, q)
  BY <1>1 DEF FreeRequired, Released, Opposite, Abs
<1>2. CASE Opposite(p, q)
  <2>1. ~pre
    BY <1>2 DEF FreeRequired, Opposite, Abs
  <2>2. Released(p, q, pre) = Smaller(Abs(p), Abs(q))
    BY <1>2, <2>1, AbsNat DEF Released, Smaller
  <2> QED BY <1>2, <2>2 DEF FreeRequired, Opposite, Smaller, Abs
<1> QED BY <1>1, <1>2

\* A waiting order's fill: its reservation becomes exposure or is given back.
LEMMA PendingMoves ==
  ASSUME NEW p \in Int, NEW q \in Int
  PROVE  Abs(p + q) - Abs(p) + Released(p, q, TRUE) = Abs(q)
BY DEF Released, Opposite, Smaller, Abs

\* A close gives back what it takes off the position.
LEMMA CloseMoves ==
  ASSUME NEW p \in Int, NEW q \in Int, Opposite(p, q), Abs(q) <= Abs(p)
  PROVE  Abs(p + q) + Released(p, q, FALSE) = Abs(p)
BY DEF Released, Opposite, Smaller, Abs

\* What a fill gives back is a number.
LEMMA ReleasedInt ==
  ASSUME NEW p \in Int, NEW q \in Int, NEW pre \in BOOLEAN
  PROVE  Released(p, q, pre) \in Int
BY DEF Released, Opposite, Smaller, Abs

\* What each consumer holds is a number.
LEMMA HoldsInt ==
  ASSUME EngineTyped
  PROVE  /\ OrderHolds(task["order"]) \in Int /\ TickHolds(task["tick"]) \in Int
         /\ CloseHolds(task["close"]) \in Int /\ BulkHolds(task["bulk"]) \in Int
<1>1. OrderHolds(task["order"]) \in Int
  <2> DEFINE t == task["order"]
  <2>1. TaskTyped("order", t)
    BY TaskIs DEF Workers
  <2>2. t.pc = "opened" => Abs(OrderQty[t.order]) \in Int
    BY <2>1, EngineConstants, AbsNat DEF TaskTyped
  <2> HIDE DEF t
  <2>3. OrderHolds(t) \in Int
    BY <2>1, <2>2 DEF OrderHolds, TaskTyped, TxTyped
  <2> QED BY <2>3 DEF t
<1>2. TickHolds(task["tick"]) \in Int
  <2>1. TaskTyped("tick", task["tick"])
    BY TaskIs DEF Workers
  <2>2. task["tick"].pc = "apply" => task["tick"].back \in Int /\ Abs(task["tick"].tx.qty) \in Int
    BY <2>1, AbsNat DEF TaskTyped, TxTyped
  <2> QED BY <2>2 DEF TickHolds
<1>3. CloseHolds(task["close"]) \in Int
  BY TaskIs DEF CloseHolds, TaskTyped, Workers
<1>4. BulkHolds(task["bulk"]) \in Int
  BY TaskIs, SpreadNat DEF BulkHolds, TaskTyped, Workers
<1> QED BY <1>1, <1>2, <1>3, <1>4

-----------------------------------------------------------------------------
(* The balance of quantities. *)

\* A step of the order consumer changes what is in flight by what it holds.
LEMMA OrderMoves ==
  ASSUME EngineTyped, \A v \in Workers : v # "order" => task'[v] = task[v],
         OrderHolds(task'["order"]) \in Int
  PROVE  InFlight' = InFlight - OrderHolds(task["order"]) + OrderHolds(task'["order"])
BY HoldsInt DEF InFlight, Workers

\* So does a step of the tick consumer,
LEMMA TickMoves ==
  ASSUME EngineTyped, \A v \in Workers : v # "tick" => task'[v] = task[v],
         TickHolds(task'["tick"]) \in Int
  PROVE  InFlight' = InFlight - TickHolds(task["tick"]) + TickHolds(task'["tick"])
BY HoldsInt DEF InFlight, Workers

\* of the close consumer,
LEMMA CloseHoldMoves ==
  ASSUME EngineTyped, \A v \in Workers : v # "close" => task'[v] = task[v],
         CloseHolds(task'["close"]) \in Int
  PROVE  InFlight' = InFlight - CloseHolds(task["close"]) + CloseHolds(task'["close"])
BY HoldsInt DEF InFlight, Workers

\* and of the consumer of contest-wide operations.
LEMMA BulkMoves ==
  ASSUME EngineTyped, \A v \in Workers : v # "bulk" => task'[v] = task[v],
         BulkHolds(task'["bulk"]) \in Int
  PROVE  InFlight' = InFlight - BulkHolds(task["bulk"]) + BulkHolds(task'["bulk"])
BY HoldsInt DEF InFlight, Workers

\* The numbers of the balance.
LEMMA BalanceInt ==
  ASSUME EngineTyped
  PROVE  /\ mem.avail \in Int /\ Exposure \in Int /\ InFlight \in Int /\ QtyTotal \in Int
         /\ mem.pending \in SUBSET Orders /\ QtySum(mem.pending) \in Int
         /\ mem.pending \subseteq LimitOrders
<1>1. mem.avail \in Int /\ mem.pending \in SUBSET Orders /\ mem.pending \subseteq LimitOrders
  BY MemoryFields, EngineConstants DEF EngineTyped, MemoryTyped
<1>2. Exposure \in Int
  BY SpreadNat DEF Exposure, Spread, EngineTyped, RowsTyped
<1>3. InFlight \in Int
  BY HoldsInt DEF InFlight
<1> QED BY <1>1, <1>2, <1>3, QtySumNat, EngineConstants

\* The states in which the balance is kept step by step.
Working ==
  /\ EngineTyped /\ TxInv /\ (\A q \in Orders : OnceFor(q))
  /\ mem.user /\ Balanced /\ Claims

\* A step that leaves settled orders and the orders in memory alone.
LEMMA ClaimsKept ==
  ASSUME Working, orders' = orders, mem'.pending = mem.pending,
         task'["cancel"].pc = "cancelApply" => task'["cancel"] = task["cancel"],
         \A o \in Orders : Cancelling(o)' => Cancelling(o) \/ o \in mem.pending,
         task'["bulk"].pc = "cancelAll" => task'["bulk"] = task["bulk"],
         \A o \in Orders : Filled("tick", o)' => Filled("tick", o),
         task'["order"] = task["order"] \/ (task'["order"].pc \notin {"inserted", "opened"}
                                            /\ task["order"].pc # "opened")
  PROVE  Claims'
BY EngineConstants, BalanceInt DEF Working, Claims, Placing

\* A step that moves no quantity.
LEMMA BalanceKept ==
  ASSUME Balanced, mem'.avail = mem.avail, mem'.pending = mem.pending, dbPos' = dbPos,
         OrderHolds(task'["order"]) = OrderHolds(task["order"]),
         TickHolds(task'["tick"]) = TickHolds(task["tick"]),
         CloseHolds(task'["close"]) = CloseHolds(task["close"]),
         BulkHolds(task'["bulk"]) = BulkHolds(task["bulk"])
  PROVE  Balanced'
<1>1. Exposure' = Exposure /\ InFlight' = InFlight
  BY DEF Exposure, InFlight
<1>2. QtySum(mem.pending)' = QtySum(mem.pending)
  BY DEF QtySum
<1> QED BY <1>1, <1>2 DEF Balanced

\* ProcessOrder keeps the balance.
LEMMA ProcessOrderKept ==
  ASSUME Working, NEW o \in Orders, ProcessOrder(o)
  PROVE  mem'.user /\ Balanced' /\ Claims'
<1>1. /\ task'["order"] = [pc |-> "inserted", order |-> o] /\ task["order"].pc = "idle"
      /\ \A v \in Workers : v # "order" => task'[v] = task[v]
  BY DEF ProcessOrder, Set, Busy, Working, EngineTyped, TasksTyped, Workers
<1>2. mem' = mem /\ orders' = [orders EXCEPT ![o] = "pending"] /\ orders[o] = "none" /\ dbPos' = dbPos
  BY DEF ProcessOrder, Admissible, LoadedUser, Working
<1>3. Balanced'
  BY <1>1, <1>2, BalanceKept DEF Working, OrderHolds, Workers
<1>4. Claims'
  BY <1>1, <1>2, BalanceInt DEF Working, Claims, Placing, Cancelling, Filled, EngineTyped, RowsTyped, Workers
<1> QED BY <1>2, <1>3, <1>4 DEF Working

\* LockMarket keeps the balance.
LEMMA LockMarketKept ==
  ASSUME Working, NEW o \in Orders, LockMarket(o)
  PROVE  mem'.user /\ Balanced' /\ Claims'
<1> DEFINE free == FreeRequired(dbPos[OrderSym[o]], OrderQty[o])
<1>1. /\ task'["order"].pc = "tx" /\ task'["order"].free = free /\ task["order"].pc = "inserted"
      /\ \A v \in Workers : v # "order" => task'[v] = task[v]
  BY DEF LockMarket, Set, Working, EngineTyped, TasksTyped, Workers
<1>2. /\ mem' = [mem EXCEPT !.avail = mem.avail - free]
      /\ orders' = orders /\ dbPos' = dbPos
  BY DEF LockMarket, rows
<1>3. free \in Int
  BY EngineConstants DEF FreeRequired, Abs, Working, EngineTyped, RowsTyped
<1> HIDE DEF free
<1>4. mem'.user = mem.user /\ mem'.avail = mem.avail - free /\ mem'.pending = mem.pending
  BY <1>2, <1>3 DEF Working, EngineTyped, MemoryTyped, MemoryShape
<1>5. Exposure' = Exposure /\ QtySum(mem.pending)' = QtySum(mem.pending)
  BY <1>2, <1>4 DEF Exposure, QtySum
<1>6. InFlight' = InFlight + free
  <2>1. OrderHolds(task["order"]) = 0 /\ OrderHolds(task'["order"]) = free
    BY <1>1 DEF OrderHolds
  <2> QED BY <2>1, <1>1, <1>3, OrderMoves, BalanceInt DEF Working
<1>7. Balanced'
  BY <1>3, <1>4, <1>5, <1>6, BalanceInt DEF Balanced, Working
<1>8. Claims'
  BY <1>1, <1>2, <1>4, ClaimsKept DEF Filled, Cancelling, Workers
<1> QED BY <1>4, <1>7, <1>8 DEF Working

\* OpenPending keeps the balance.
LEMMA OpenPendingKept ==
  ASSUME Working, NEW o \in Orders, OpenPending(o), ~raced'
  PROVE  mem'.user /\ Balanced' /\ Claims'
<1> DEFINE n == Abs(OrderQty[o])
<1>1. /\ task'["order"].pc = "opened" /\ task'["order"].order = o
      /\ task["order"].pc = "inserted" /\ task["order"].order = o
      /\ \A v \in Workers : v # "order" => task'[v] = task[v]
  BY DEF OpenPending, Set, Working, EngineTyped, TasksTyped, Workers
<1>2. /\ mem' = [mem EXCEPT !.avail = mem.avail - n] /\ orders[o] = "pending"
      /\ orders' = [orders EXCEPT ![o] = "open"] /\ dbPos' = dbPos
  BY DEF OpenPending
<1>3. n \in Int
  BY EngineConstants, AbsNat
<1>a. OrderHolds(task["order"]) = 0 /\ OrderHolds(task'["order"]) = n
  BY <1>1 DEF OrderHolds
<1> HIDE DEF n
<1>4. mem'.user = mem.user /\ mem'.avail = mem.avail - n /\ mem'.pending = mem.pending
  BY <1>2, <1>3 DEF Working, EngineTyped, MemoryTyped, MemoryShape
<1>5. Exposure' = Exposure /\ QtySum(mem.pending)' = QtySum(mem.pending)
  BY <1>2, <1>4 DEF Exposure, QtySum
<1>6. InFlight' = InFlight + n
  BY <1>1, <1>3, <1>a, OrderMoves, BalanceInt DEF Working
<1>7. Balanced'
  BY <1>3, <1>4, <1>5, <1>6, BalanceInt DEF Balanced, Working
<1>8. Claims'
  BY <1>1, <1>2, <1>4, BalanceInt DEF Working, Claims, Placing, Cancelling, Filled, EngineTyped, RowsTyped, Workers
<1> QED BY <1>4, <1>7, <1>8 DEF Working

\* RejectInserted keeps the balance.
LEMMA RejectInsertedKept ==
  ASSUME Working, RejectInserted
  PROVE  mem'.user /\ Balanced' /\ Claims'
<1>1. /\ task'["order"] = Idle /\ task["order"].pc = "inserted" /\ task["order"].order \in Orders
      /\ \A v \in Workers : v # "order" => task'[v] = task[v]
  BY TaskIs DEF RejectInserted, Set, Done, Working, EngineTyped, TasksTyped, TaskTyped, Workers
<1>2. mem' = mem /\ orders' = [orders EXCEPT ![task["order"].order] = "rejected"] /\ dbPos' = dbPos
  BY DEF RejectInserted, ram
<1>3. Balanced'
  BY <1>1, <1>2, BalanceKept DEF Working, OrderHolds, Workers, Idle
<1>4. Claims'
  BY <1>1, <1>2, BalanceInt DEF Working, Claims, Placing, Cancelling, Filled, EngineTyped, RowsTyped, Workers, Idle
<1> QED BY <1>2, <1>3, <1>4 DEF Working

\* AddToBook keeps the balance.
LEMMA AddToBookKept ==
  ASSUME Working, AddToBook
  PROVE  mem'.user /\ Balanced' /\ Claims'
<1> DEFINE o == task["order"].order
           n == Abs(OrderQty[o])
<1>1. /\ task'["order"] = Idle /\ task["order"].pc = "opened" /\ o \in LimitOrders /\ o \in Orders
      /\ \A v \in Workers : v # "order" => task'[v] = task[v]
  BY TaskIs, EngineConstants DEF AddToBook, Set, Done, Working, EngineTyped, TasksTyped, TaskTyped, Workers
<1>2. /\ mem' = [mem EXCEPT !.pending = mem.pending \cup {o}]
      /\ orders' = orders /\ dbPos' = dbPos
  BY DEF AddToBook, rows
<1>3. n \in Int /\ o \notin mem.pending
  BY <1>1, EngineConstants, AbsNat DEF Working, Claims, Placing
<1>4. mem'.user = mem.user /\ mem'.avail = mem.avail /\ mem'.pending = mem.pending \cup {o}
  BY <1>1, <1>2 DEF Working, EngineTyped, MemoryTyped, MemoryShape
<1>5. Exposure' = Exposure /\ QtySum(mem.pending)' = QtySum(mem.pending \cup {o})
  BY <1>2, <1>4 DEF Exposure, QtySum
<1>6. QtySum(mem.pending \cup {o}) = QtySum(mem.pending) + n
  BY <1>1, <1>3, BalanceInt, QtySumAdd DEF Working
<1>7. InFlight' = InFlight - n
  <2>1. OrderHolds(task["order"]) = n /\ OrderHolds(task'["order"]) = 0
    BY <1>1 DEF OrderHolds, Idle
  <2> HIDE DEF n
  <2> QED BY <2>1, <1>1, <1>3, OrderMoves, BalanceInt DEF Working
<1>8. Balanced'
  <2> HIDE DEF n
  <2> QED BY <1>3, <1>4, <1>5, <1>6, <1>7, BalanceInt DEF Balanced, Working
<1>9. Claims'
  <2>1. orders[o] # "none" /\ ~Filled("tick", o)
    BY <1>1 DEF Working, OnceFor, Placing, Ticked
  <2>2. task["cancel"].pc = "cancelApply" => task["cancel"].order \in mem.pending
    BY DEF Working, Claims
  <2> QED BY <2>1, <2>2, <1>1, <1>2, <1>4, BalanceInt DEF Working, Claims, Placing, Cancelling, Filled, Workers, Idle
<1> QED BY <1>4, <1>8, <1>9 DEF Working

\* Steps by which a consumer only takes up, or puts down, what holds nothing.
LEMMA IdleStepsKept ==
  ASSUME Working, mem' = mem, orders' = orders, dbPos' = dbPos,
         NEW w \in {"order", "tick", "close", "cancel"},
         \A v \in Workers : v # w => task'[v] = task[v],
         task[w].pc \notin {"opened", "apply", "cancelApply"},
         w # "order" \/ task[w].pc # "tx",
         task'[w].pc \notin {"inserted", "opened", "apply", "cancelApply"},
         w # "order" \/ task'[w].pc # "tx",
         task'[w].pc = "cancelTx" => task'[w].order \in mem.pending
  PROVE  mem'.user /\ Balanced' /\ Claims'
<1>1. /\ OrderHolds(task'["order"]) = OrderHolds(task["order"])
      /\ TickHolds(task'["tick"]) = TickHolds(task["tick"])
      /\ CloseHolds(task'["close"]) = CloseHolds(task["close"])
      /\ BulkHolds(task'["bulk"]) = BulkHolds(task["bulk"])
  BY DEF OrderHolds, TickHolds, CloseHolds, BulkHolds, Workers
<1>2. Balanced'
  BY <1>1, BalanceKept DEF Working
<1>3. Claims'
  BY ClaimsKept DEF Filled, Cancelling, Workers
<1> QED BY <1>2, <1>3 DEF Working

\* TakenUp keeps the balance.
LEMMA TakenUpKept ==
  ASSUME Working,
         \/ \E o \in Orders : OpenPendingFails(o) \/ TriggerOrder(o) \/ StartCancel(o)
         \/ LeaveTriggered \/ LockTriggered \/ LockTpsl \/ ForgetTpsl
         \/ \E s \in Symbols : \E i \in 1 .. pid[s] : TriggerTpsl(s, i)
         \/ \E s \in Symbols : \E k \in 1 .. QtyTotal : LockClose(s, k)
  PROVE  mem'.user /\ Balanced' /\ Claims'
<1>0. DOMAIN task = Workers /\ mem.user
  BY DEF Working, EngineTyped, TasksTyped
<1>1. ASSUME NEW o \in Orders, OpenPendingFails(o) PROVE mem'.user /\ Balanced' /\ Claims'
  <2>1. /\ task["order"].pc = "inserted" /\ task'["order"].pc = "idle"
        /\ \A v \in Workers : v # "order" => task'[v] = task[v]
        /\ mem' = mem /\ orders' = orders /\ dbPos' = dbPos
    BY <1>0, <1>1 DEF OpenPendingFails, Done, Set, Idle, Workers, rows, ram
  <2> QED BY <2>1, IdleStepsKept
<1>2. ASSUME NEW o \in Orders, TriggerOrder(o) PROVE mem'.user /\ Balanced' /\ Claims'
  <2>1. /\ task["tick"].pc = "idle" /\ task'["tick"].pc = "triggered"
        /\ \A v \in Workers : v # "tick" => task'[v] = task[v]
        /\ mem' = mem /\ orders' = orders /\ dbPos' = dbPos
    BY <1>0, <1>2 DEF TriggerOrder, Set, Busy, Workers, rows, ram
  <2> QED BY <2>1, IdleStepsKept
<1>3. ASSUME NEW o \in Orders, StartCancel(o) PROVE mem'.user /\ Balanced' /\ Claims'
  <2>1. /\ task["cancel"].pc = "idle" /\ task'["cancel"].pc = "cancelTx"
        /\ \A v \in Workers : v # "cancel" => task'[v] = task[v]
        /\ mem' = mem /\ orders' = orders /\ dbPos' = dbPos
        /\ task'["cancel"].order \in mem.pending
    BY <1>0, <1>3 DEF StartCancel, Set, Busy, Workers, rows, ram
  <2> QED BY <2>1, IdleStepsKept
<1>4. CASE LeaveTriggered
  <2>1. /\ task["tick"].pc \in {"triggered", "triggeredTpsl"} /\ task'["tick"].pc = "idle"
        /\ \A v \in Workers : v # "tick" => task'[v] = task[v]
        /\ mem' = mem /\ orders' = orders /\ dbPos' = dbPos
    BY <1>0, <1>4 DEF LeaveTriggered, Done, Set, Idle, Workers, rows, ram
  <2> QED BY <2>1, IdleStepsKept
<1>5. CASE LockTriggered
  <2>1. /\ task["tick"].pc = "triggered" /\ task'["tick"].pc = "tx"
        /\ \A v \in Workers : v # "tick" => task'[v] = task[v]
        /\ mem' = mem /\ orders' = orders /\ dbPos' = dbPos
    BY <1>0, <1>5 DEF LockTriggered, Set, Workers, rows, ram
  <2> QED BY <2>1, IdleStepsKept
<1>6. CASE LockTpsl
  <2>1. /\ task["tick"].pc = "triggeredTpsl" /\ task'["tick"].pc = "tx"
        /\ \A v \in Workers : v # "tick" => task'[v] = task[v]
        /\ mem' = mem /\ orders' = orders /\ dbPos' = dbPos
    BY <1>0, <1>6 DEF LockTpsl, Set, Workers, rows, ram
  <2> QED BY <2>1, IdleStepsKept
<1>7. CASE ForgetTpsl
  <2>1. /\ task["tick"].pc = "triggeredTpsl" /\ task'["tick"].pc = "idle"
        /\ \A v \in Workers : v # "tick" => task'[v] = task[v]
        /\ mem' = mem /\ orders' = orders /\ dbPos' = dbPos
    BY <1>0, <1>7 DEF ForgetTpsl, Done, Set, Idle, Workers, rows
  <2> QED BY <2>1, IdleStepsKept
<1>8. ASSUME NEW s \in Symbols, NEW i \in 1 .. pid[s], TriggerTpsl(s, i)
      PROVE  mem'.user /\ Balanced' /\ Claims'
  <2>1. /\ task["tick"].pc = "idle" /\ task'["tick"].pc = "triggeredTpsl"
        /\ \A v \in Workers : v # "tick" => task'[v] = task[v]
        /\ mem' = mem /\ orders' = orders /\ dbPos' = dbPos
    BY <1>0, <1>8 DEF TriggerTpsl, Set, Busy, Workers, rows, ram
  <2> QED BY <2>1, IdleStepsKept
<1>9. ASSUME NEW s \in Symbols, NEW k \in 1 .. QtyTotal, LockClose(s, k)
      PROVE  mem'.user /\ Balanced' /\ Claims'
  <2>1. /\ task["close"].pc = "idle" /\ task'["close"].pc = "tx"
        /\ \A v \in Workers : v # "close" => task'[v] = task[v]
        /\ mem' = mem /\ orders' = orders /\ dbPos' = dbPos
    BY <1>0, <1>9 DEF LockClose, LoadedUser, Set, Busy, Workers, rows
  <2> QED BY <2>1, IdleStepsKept
<1> QED BY <1>1, <1>2, <1>3, <1>4, <1>5, <1>6, <1>7, <1>8, <1>9

\* An order dropped because the contest is over gives its reservation back in
\* memory.
LEMMA RejectTriggeredKept ==
  ASSUME Working, RejectTriggered, ~raced'
  PROVE  mem'.user /\ Balanced' /\ Claims'
<1> DEFINE o == task["tick"].order
           n == Abs(OrderQty[o])
<1>1. /\ task'["tick"] = Idle /\ task["tick"].pc = "triggered" /\ o \in LimitOrders /\ o \in Orders
      /\ \A v \in Workers : v # "tick" => task'[v] = task[v]
  BY TaskIs, EngineConstants DEF RejectTriggered, Set, Done, Working, EngineTyped, TasksTyped, TaskTyped,
     Workers
<1>2. /\ mem' = [user |-> mem.user, avail |-> mem.avail + n, pos |-> mem.pos, pending |-> mem.pending \ {o}]
      /\ orders' = [orders EXCEPT ![o] = "rejected"] /\ dbPos' = dbPos
      /\ orders[o] = "open" /\ o \in mem.pending
  BY DEF RejectTriggered
<1>3. n \in Int
  BY <1>1, EngineConstants, AbsNat
<1>4. Exposure' = Exposure /\ QtySum(mem.pending)' = QtySum(mem.pending \ {o})
  BY <1>2 DEF Exposure, QtySum
<1>5. QtySum(mem.pending \ {o}) = QtySum(mem.pending) - n
  BY <1>2, BalanceInt, QtySumDrop DEF Working
<1>6. InFlight' = InFlight
  <2>1. TickHolds(task["tick"]) = 0 /\ TickHolds(task'["tick"]) = 0
    BY <1>1 DEF TickHolds, Idle
  <2> QED BY <2>1, <1>1, TickMoves, BalanceInt DEF Working
<1>7. Balanced'
  <2> HIDE DEF n
  <2> QED BY <1>2, <1>3, <1>4, <1>5, <1>6, BalanceInt DEF Balanced, Working
<1>8. Claims'
  BY <1>1, <1>2, BalanceInt DEF Working, Claims, Placing, Cancelling, Filled, EngineTyped, RowsTyped, Workers, Idle
<1> QED BY <1>2, <1>7, <1>8 DEF Working

\* CommitCancel keeps the balance.
LEMMA CommitCancelKept ==
  ASSUME Working, CommitCancel, ~raced'
  PROVE  mem'.user /\ Balanced' /\ Claims'
<1> DEFINE o == task["cancel"].order
<1>1. /\ task'["cancel"].pc = "cancelApply" /\ task'["cancel"].order = o
      /\ task["cancel"].pc = "cancelTx" /\ o \in LimitOrders /\ o \in Orders
      /\ \A v \in Workers : v # "cancel" => task'[v] = task[v]
  BY TaskIs, EngineConstants DEF CommitCancel, Set, Working, EngineTyped, TasksTyped, TaskTyped, Workers
<1>2. /\ mem' = mem /\ orders' = [orders EXCEPT ![o] = "cancelled"] /\ dbPos' = dbPos
      /\ orders[o] = "open"
  BY DEF CommitCancel, ram
<1>3. Balanced'
  BY <1>1, <1>2, BalanceKept DEF Working, Workers
<1>4. Claims'
  BY <1>1, <1>2, BalanceInt DEF Working, Claims, Placing, Cancelling, Filled, EngineTyped, RowsTyped, Workers
<1> QED BY <1>2, <1>3, <1>4 DEF Working

\* ApplyCancel keeps the balance.
LEMMA ApplyCancelKept ==
  ASSUME Working, ApplyCancel
  PROVE  mem'.user /\ Balanced' /\ Claims'
<1> DEFINE o == task["cancel"].order
           n == Abs(OrderQty[o])
<1>1. /\ task'["cancel"] = Idle /\ task["cancel"].pc = "cancelApply" /\ o \in LimitOrders /\ o \in Orders
      /\ \A v \in Workers : v # "cancel" => task'[v] = task[v]
  BY TaskIs, EngineConstants DEF ApplyCancel, Set, Done, Working, EngineTyped, TasksTyped, TaskTyped,
     Workers
<1>2. /\ mem' = [user |-> mem.user, avail |-> mem.avail + n, pos |-> mem.pos, pending |-> mem.pending \ {o}]
      /\ orders' = orders /\ dbPos' = dbPos
  BY DEF ApplyCancel, rows
<1>3. n \in Int /\ o \in mem.pending /\ orders[o] = "cancelled"
  BY <1>1, EngineConstants, AbsNat DEF Working, Claims
<1>4. Exposure' = Exposure /\ QtySum(mem.pending)' = QtySum(mem.pending \ {o})
  BY <1>2 DEF Exposure, QtySum
<1>5. QtySum(mem.pending \ {o}) = QtySum(mem.pending) - n
  BY <1>3, BalanceInt, QtySumDrop DEF Working
<1>6. InFlight' = InFlight
  BY <1>1 DEF InFlight, Workers
<1>7. Balanced'
  <2> HIDE DEF n
  <2> QED BY <1>2, <1>3, <1>4, <1>5, <1>6, BalanceInt DEF Balanced, Working
<1>8. Claims'
  BY <1>1, <1>2, <1>3, BalanceInt DEF Working, Claims, Placing, Cancelling, Filled, EngineTyped, RowsTyped, Workers, Idle
<1> QED BY <1>2, <1>7, <1>8 DEF Working

\* A fill moves quantity between exposure and what its consumer holds.
LEMMA CommitFillKept ==
  ASSUME Working, NEW w \in Workers, CommitFill(w), ~raced'
  PROVE  mem'.user /\ Balanced' /\ Claims'
<1> DEFINE t == task[w]
           p == dbPos[t.sym]
           q == t.qty
           left == IF t.kind = "close" /\ p = 0 THEN 0 ELSE p + q
           back == Released(IF t.kind = "close" THEN t.pos ELSE p, q, t.pre)
<1>1. /\ Exposure \in Nat /\ Exposure' = Exposure - Abs(p) + Abs(left)
      /\ t.pc = "tx" /\ task'[w].pc = "apply" /\ task'[w].tx = t /\ task'[w].back = back
      /\ \A v \in Workers : v # w => task'[v] = task[v]
      /\ TxTyped(t) /\ t.kind \in FillKinds(w)
      /\ p \in Int /\ p = t.pos
  BY CommitMoves DEF CommitFill, Working
<1>2. mem' = mem /\ QtySum(mem.pending)' = QtySum(mem.pending)
  BY DEF CommitFill, ram, QtySum
<1>3. /\ q \in Int /\ q # 0 /\ t.pre \in BOOLEAN /\ t.free \in Int
      /\ Abs(p) \in Int /\ Abs(q) \in Int /\ Abs(p + q) \in Int
      /\ back = Released(p, q, t.pre) /\ back \in Int
  BY <1>1, AbsNat, ReleasedInt DEF TxTyped
<1>4. TxSound(t)
  BY DEF Working, TxInv
<1>5. CASE w = "order"
  <2>1. t.kind = "market"
    BY <1>1, <1>5 DEF FillKinds
  <2>2. t.free = FreeRequired(p, q) /\ t.pre = (t.free = Abs(q))
    BY <1>1, <1>4, <2>1 DEF TxSound
  <2>3. Abs(p + q) - Abs(p) = t.free - back
    <3>1. Released(p, q, t.pre) = Released(p, q, FreeRequired(p, q) = Abs(q))
      BY <2>2, Zenon
    <3>2. Abs(p + q) - Abs(p) = FreeRequired(p, q) - Released(p, q, FreeRequired(p, q) = Abs(q))
      <4> HIDE DEF p, q
      <4> QED BY <1>1, <1>3, MarketMoves, Zenon
    <3> QED BY <1>3, <2>2, <3>1, <3>2
  <2>4. InFlight' = InFlight - t.free + back
    <3>1. OrderHolds(task["order"]) = t.free /\ OrderHolds(task'["order"]) = back
      BY <1>1, <1>5 DEF OrderHolds
    <3> HIDE DEF back
    <3> QED BY <3>1, <1>1, <1>3, <1>5, OrderMoves DEF Working
  <2>5. left = p + q
    BY <2>1
  <2>6. Balanced'
    <3> DEFINE d == Abs(p + q) - Abs(p)
    <3>1. d \in Int /\ Exposure' = Exposure + d
      BY <1>1, <1>3, <2>5
    <3>2. InFlight' = InFlight - d
      <4>1. /\ t.free \in Int /\ back \in Int /\ d = t.free - back /\ InFlight \in Int
            /\ InFlight' = InFlight - t.free + back
        BY <1>3, <2>3, <2>4, BalanceInt DEF Working
      <4> HIDE DEF back, t, d
      <4> QED BY <4>1
    <3> HIDE DEF back, t, p, q, left, d
    <3> QED BY <3>1, <3>2, <1>2, BalanceInt DEF Balanced, Working
  <2>7. Claims'
    <3>1. /\ orders' = [orders EXCEPT ![t.order] = "filled"] /\ orders[t.order] = "pending"
          /\ t.order \in Orders
      BY <1>1, <2>1 DEF CommitFill, TxTyped
    <3> QED BY <1>1, <1>2, <1>5, <3>1, BalanceInt DEF Working, Claims, Placing, Cancelling, Filled,
          EngineTyped, RowsTyped, Workers
  <2> QED BY <1>2, <2>6, <2>7 DEF Working
<1>6. CASE w = "tick" /\ t.kind = "pending"
  <2>1. t.pre = TRUE
    BY <1>1, <1>4, <1>6 DEF TxSound
  <2>2. Abs(p + q) - Abs(p) + back = Abs(q)
    <3>1. Released(p, q, t.pre) = Released(p, q, TRUE)
      BY <2>1, Zenon
    <3>2. Abs(p + q) - Abs(p) + Released(p, q, TRUE) = Abs(q)
      BY <1>1, <1>3, PendingMoves
    <3> QED BY <1>3, <3>1, <3>2
  <2>3. InFlight' = InFlight + back - Abs(q)
    <3>1. TickHolds(task["tick"]) = 0 /\ TickHolds(task'["tick"]) = back - Abs(q)
      BY <1>1, <1>6 DEF TickHolds
    <3> HIDE DEF back
    <3> QED BY <3>1, <1>1, <1>3, <1>6, TickMoves, BalanceInt DEF Working
  <2>4. left = p + q
    BY <1>6
  <2>5. Balanced'
    <3> HIDE DEF back, t, p, q, left
    <3> QED BY <1>1, <1>2, <1>3, <2>2, <2>3, <2>4, BalanceInt DEF Balanced, Working
  <2>6. Claims'
    <3>1. /\ orders' = [orders EXCEPT ![t.order] = "filled"] /\ orders[t.order] = "open"
          /\ t.order \in LimitOrders /\ t.order \in Orders
      BY <1>1, <1>6 DEF CommitFill, TxTyped
    <3>2. ~Placing(t.order)
      BY <1>1, <1>6, <3>1 DEF Working, OnceFor, Ticked, Filling
    <3> QED BY <1>1, <1>2, <1>6, <3>1, <3>2, BalanceInt DEF Working, Claims, Placing, Cancelling, Filled,
          EngineTyped, RowsTyped, Workers
  <2> QED BY <1>2, <2>5, <2>6 DEF Working
<1>7. CASE t.kind \in {"tpsl", "close"}
  <2>1. t.pre = FALSE /\ Opposite(p, q) /\ Abs(q) <= Abs(p)
    BY <1>1, <1>4, <1>7 DEF TxSound
  <2>2. Abs(p + q) + back = Abs(p)
    BY <1>1, <1>3, <2>1, CloseMoves
  <2>3. left = p + q
    BY <1>1, <1>3, <2>1 DEF Opposite
  <2>4. InFlight' = InFlight + back
    <3>1. CASE w = "tick"
      <4>1. TickHolds(task["tick"]) = 0 /\ TickHolds(task'["tick"]) = back
        BY <1>1, <1>7, <3>1 DEF TickHolds
      <4> HIDE DEF back
      <4> QED BY <4>1, <1>1, <1>3, <3>1, TickMoves, BalanceInt DEF Working
    <3>2. CASE w = "close"
      <4>1. CloseHolds(task["close"]) = 0 /\ CloseHolds(task'["close"]) = back
        BY <1>1, <3>2 DEF CloseHolds
      <4> HIDE DEF back
      <4> QED BY <4>1, <1>1, <1>3, <3>2, CloseHoldMoves, BalanceInt DEF Working
    <3> QED BY <1>1, <1>7, <3>1, <3>2 DEF FillKinds, Workers
  <2>5. Balanced'
    <3> HIDE DEF back, t, p, q, left
    <3> QED BY <1>1, <1>2, <1>3, <2>2, <2>3, <2>4, BalanceInt DEF Balanced, Working
  <2>6. Claims'
    <3>1. orders' = orders /\ w # "order" /\ w # "cancel" /\ w # "bulk"
      BY <1>1, <1>7 DEF CommitFill, FillKinds
    <3> QED BY <1>1, <1>2, <1>7, <3>1, ClaimsKept DEF Filled, Cancelling, Workers
  <2> QED BY <1>2, <2>5, <2>6 DEF Working
<1> QED BY <1>1, <1>5, <1>6, <1>7 DEF FillKinds, Workers

\* A transaction that fails returns what was reserved for it.
LEMMA FillFailsKept ==
  ASSUME Working, NEW w \in Workers, FillFails(w)
  PROVE  mem'.user /\ Balanced' /\ Claims'
<1> DEFINE free == task[w].free
<1>1. /\ task[w].pc = "tx" /\ task'[w] = Idle /\ free \in Int
      /\ \A v \in Workers : v # w => task'[v] = task[v]
      /\ task[w].kind \in FillKinds(w) /\ TxSound(task[w])
  BY TaskIs DEF FillFails, Set, Done, Working, EngineTyped, TasksTyped, TaskTyped, TxTyped, TxInv
<1>2. mem' = [mem EXCEPT !.avail = mem.avail + free] /\ orders' = orders /\ dbPos' = dbPos
  BY DEF FillFails, rows
<1> HIDE DEF free
<1>3. mem'.user = mem.user /\ mem'.avail = mem.avail + free /\ mem'.pending = mem.pending
  BY <1>1, <1>2 DEF Working, EngineTyped, MemoryTyped, MemoryShape
<1>4. Exposure' = Exposure /\ QtySum(mem.pending)' = QtySum(mem.pending)
  BY <1>2, <1>3 DEF Exposure, QtySum
<1>5. InFlight' = InFlight - free
  <2>1. CASE w = "order"
    <3>1. OrderHolds(task["order"]) = free /\ OrderHolds(task'["order"]) = 0
      BY <1>1, <2>1 DEF OrderHolds, Idle, free
    <3> QED BY <3>1, <1>1, <2>1, OrderMoves, BalanceInt DEF Working
  <2>2. CASE w = "tick"
    <3>1. TickHolds(task["tick"]) = 0 /\ TickHolds(task'["tick"]) = 0 /\ free = 0
      BY <1>1, <2>2 DEF TickHolds, Idle, free, TxSound, FillKinds
    <3> QED BY <3>1, <1>1, <2>2, TickMoves, BalanceInt DEF Working
  <2>3. CASE w = "close"
    <3>1. CloseHolds(task["close"]) = 0 /\ CloseHolds(task'["close"]) = 0 /\ free = 0
      BY <1>1, <2>3 DEF CloseHolds, Idle, free, TxSound, FillKinds
    <3> QED BY <3>1, <1>1, <2>3, CloseHoldMoves, BalanceInt DEF Working
  <2> QED BY <1>1, <2>1, <2>2, <2>3 DEF FillKinds, Workers
<1>6. Balanced'
  BY <1>1, <1>3, <1>4, <1>5, BalanceInt DEF Balanced, Working
<1>7. Claims'
  BY <1>1, <1>2, <1>3, ClaimsKept DEF Filled, Cancelling, Workers, Idle
<1> QED BY <1>3, <1>6, <1>7 DEF Working

\* Applying it to memory gives back what its consumer held.
LEMMA ApplyFillKept ==
  ASSUME Working, NEW w \in Workers, ApplyFill(w)
  PROVE  mem'.user /\ Balanced' /\ Claims'
<1> DEFINE t == task[w].tx
           back == task[w].back
           o == t.order
<1>1. /\ task[w].pc = "apply" /\ task'[w] = Idle /\ back \in Int
      /\ \A v \in Workers : v # w => task'[v] = task[v]
      /\ TxTyped(t) /\ t.kind \in FillKinds(w)
  BY TaskIs DEF ApplyFill, AfterCommit, Set, Done, Working, EngineTyped, TasksTyped, TaskTyped
<1>2. /\ mem'.user = mem.user /\ mem'.avail = mem.avail + back
      /\ mem'.pending = mem.pending \ (IF t.kind = "pending" THEN {t.order} ELSE {})
      /\ orders' = orders /\ dbPos' = dbPos
  BY DEF ApplyFill, AfterCommit, rows
<1>3. Exposure' = Exposure /\ QtySum(mem.pending)' = QtySum(mem'.pending)
  BY <1>2 DEF Exposure, QtySum
<1>4. CASE w = "tick" /\ t.kind = "pending"
  <2>1. /\ o \in mem.pending /\ orders[o] = "filled" /\ o \in Orders /\ t.qty = OrderQty[o]
        /\ mem'.pending = mem.pending \ {o}
    BY <1>1, <1>2, <1>4 DEF Working, Claims, Filled, TxTyped
  <2>2. QtySum(mem'.pending) = QtySum(mem.pending) - Abs(t.qty) /\ Abs(t.qty) \in Int
    <3>1. QtySum(mem.pending \ {o}) = QtySum(mem.pending) - Abs(OrderQty[o])
      BY <2>1, BalanceInt, QtySumDrop DEF Working
    <3>2. OrderQty[o] \in Int /\ Abs(OrderQty[o]) \in Int
      BY <2>1, EngineConstants, AbsNat
    <3> QED BY <2>1, <3>1, <3>2
  <2>3. InFlight' = InFlight - back + Abs(t.qty)
    <3>1. TickHolds(task["tick"]) = back - Abs(t.qty) /\ TickHolds(task'["tick"]) = 0
      BY <1>1, <1>4 DEF TickHolds, Idle
    <3> QED BY <3>1, <1>1, <1>4, <2>2, TickMoves, BalanceInt DEF Working
  <2>4. Balanced'
    BY <1>1, <1>2, <1>3, <2>2, <2>3, BalanceInt DEF Balanced, Working
  <2>5. Claims'
    BY <1>1, <1>2, <1>4, <2>1, BalanceInt DEF Working, Claims, Placing, Cancelling, Filled,
       EngineTyped, RowsTyped, Workers, Idle
  <2> QED BY <1>2, <2>4, <2>5 DEF Working
<1>5. CASE t.kind # "pending"
  <2>1. mem'.pending = mem.pending
    BY <1>2, <1>5
  <2>2. InFlight' = InFlight - back
    <3>1. CASE w = "order"
      <4>1. OrderHolds(task["order"]) = back /\ OrderHolds(task'["order"]) = 0
        BY <1>1, <3>1 DEF OrderHolds, Idle
      <4> QED BY <4>1, <1>1, <3>1, OrderMoves, BalanceInt DEF Working
    <3>2. CASE w = "tick"
      <4>1. TickHolds(task["tick"]) = back /\ TickHolds(task'["tick"]) = 0
        BY <1>1, <1>5, <3>2 DEF TickHolds, Idle
      <4> QED BY <4>1, <1>1, <3>2, TickMoves, BalanceInt DEF Working
    <3>3. CASE w = "close"
      <4>1. CloseHolds(task["close"]) = back /\ CloseHolds(task'["close"]) = 0
        BY <1>1, <3>3 DEF CloseHolds, Idle
      <4> QED BY <4>1, <1>1, <3>3, CloseHoldMoves, BalanceInt DEF Working
    <3> QED BY <1>1, <3>1, <3>2, <3>3 DEF FillKinds, Workers
  <2>3. Balanced'
    <3>1. QtySum(mem.pending)' = QtySum(mem.pending)
      BY <1>3, <2>1
    <3> QED BY <1>1, <1>2, <1>3, <2>2, <3>1, BalanceInt DEF Balanced, Working
  <2>4. Claims'
    BY <1>1, <1>2, <2>1, ClaimsKept DEF Filled, Cancelling, Workers, Idle
  <2> QED BY <1>2, <2>3, <2>4 DEF Working
<1> QED BY <1>1, <1>4, <1>5 DEF FillKinds, Workers

\* CancelAllTx keeps the balance.
LEMMA CancelAllTxKept ==
  ASSUME Working, CancelAllTx, ~raced'
  PROVE  mem'.user /\ Balanced' /\ Claims'
<1> DEFINE S == {o \in Orders : orders[o] \in {"pending", "open"}}
<1>1. /\ task'["bulk"].pc = "cancelAll" /\ task'["bulk"].orders = S /\ task["bulk"].pc = "idle"
      /\ \A v \in Workers : v # "bulk" => task'[v] = task[v]
  BY DEF CancelAllTx, Set, Busy, Working, EngineTyped, TasksTyped, Workers
<1>2. /\ mem' = mem /\ dbPos' = dbPos
      /\ orders' = [o \in Orders |-> IF o \in S THEN "cancelled" ELSE orders[o]]
      /\ \A o \in S : orders[o] = "open" /\ o \in mem.pending
  BY DEF CancelAllTx, ram
<1>3. Balanced'
  BY <1>1, <1>2, BalanceKept DEF Working, BulkHolds, Workers
<1> HIDE DEF S
<1>4. S \subseteq Orders /\ \A o \in Orders \ S : orders'[o] = orders[o] /\ orders[o] # "open"
  BY <1>2 DEF S
<1>5. Claims'
  BY <1>1, <1>2, <1>4, BalanceInt DEF Working, Claims, Placing, Cancelling, Filled, Workers
<1> QED BY <1>2, <1>3, <1>5 DEF Working

\* CancelAllApply keeps the balance.
LEMMA CancelAllApplyKept ==
  ASSUME Working, CancelAllApply
  PROVE  mem'.user /\ Balanced' /\ Claims'
<1> DEFINE S == task["bulk"].orders
<1>1. /\ task'["bulk"] = Idle /\ task["bulk"].pc = "cancelAll"
      /\ \A v \in Workers : v # "bulk" => task'[v] = task[v]
  BY DEF CancelAllApply, Set, Done, Working, EngineTyped, TasksTyped, Workers
<1>2. /\ mem'.user /\ mem'.avail = mem.avail + QtySum(S) /\ mem'.pending = mem.pending \ S
      /\ orders' = orders /\ dbPos' = dbPos
  BY DEF CancelAllApply, Working, rows
<1>3. /\ S \subseteq mem.pending /\ \A o \in S : orders[o] = "cancelled"
  BY <1>1 DEF Working, Claims
<1> HIDE DEF S
<1>4. Exposure' = Exposure /\ QtySum(mem.pending)' = QtySum(mem.pending \ S)
  BY <1>2 DEF Exposure, QtySum
<1>5. QtySum(mem.pending \ S) = QtySum(mem.pending) - QtySum(S) /\ QtySum(S) \in Int
  <2>1. S \in SUBSET mem.pending /\ mem.pending \in SUBSET Orders
    BY <1>3, BalanceInt DEF Working
  <2>2. QtySum(mem.pending \ S) = QtySum(mem.pending) - QtySum(S)
    BY <2>1, QtySumMinus
  <2>3. QtySum(S) \in Nat
    BY <2>1, QtySumNat
  <2> QED BY <2>2, <2>3
<1>6. InFlight' = InFlight
  <2>1. BulkHolds(task["bulk"]) = 0 /\ BulkHolds(task'["bulk"]) = 0
    BY <1>1 DEF BulkHolds, Idle
  <2> QED BY <2>1, <1>1, BulkMoves, BalanceInt DEF Working
<1>7. Balanced'
  BY <1>2, <1>4, <1>5, <1>6, BalanceInt DEF Balanced, Working
<1>8. Claims'
  BY <1>1, <1>2, <1>3, BalanceInt DEF Working, Claims, Placing, Cancelling, Filled, Workers, Idle, S
<1> QED BY <1>2, <1>7, <1>8

\* CloseAllTx keeps the balance.
LEMMA CloseAllTxKept ==
  ASSUME Working, CloseAllTx
  PROVE  mem'.user /\ Balanced' /\ Claims'
<1>1. /\ task'["bulk"].pc = "closeAll" /\ task'["bulk"].pos = dbPos /\ task["bulk"].pc = "idle"
      /\ \A v \in Workers : v # "bulk" => task'[v] = task[v]
  BY DEF CloseAllTx, Set, Busy, Working, EngineTyped, TasksTyped, Workers
<1>2. mem' = mem /\ orders' = orders /\ dbPos' = [s \in Symbols |-> 0]
  BY DEF CloseAllTx, ram
<1>3. Exposure = Spread(dbPos) /\ Exposure' = Spread(dbPos') /\ QtySum(mem.pending)' = QtySum(mem.pending)
  BY <1>2 DEF Exposure, Spread, QtySum
<1>4. Exposure' = 0
  BY <1>2, <1>3, SpreadZero
<1>5. InFlight' = InFlight + Exposure
  <2>1. BulkHolds(task["bulk"]) = 0 /\ BulkHolds(task'["bulk"]) = Exposure
    BY <1>1, <1>3 DEF BulkHolds
  <2> QED BY <2>1, <1>1, BulkMoves, BalanceInt DEF Working
<1>6. Balanced'
  BY <1>2, <1>3, <1>4, <1>5, BalanceInt DEF Balanced, Working
<1>7. Claims'
  BY <1>1, <1>2, ClaimsKept DEF Filled, Cancelling, Workers
<1> QED BY <1>2, <1>6, <1>7 DEF Working

\* CloseAllApply keeps the balance.
LEMMA CloseAllApplyKept ==
  ASSUME Working, CloseAllApply
  PROVE  mem'.user /\ Balanced' /\ Claims'
<1> DEFINE n == Spread(task["bulk"].pos)
<1>1. /\ task'["bulk"] = Idle /\ task["bulk"].pc = "closeAll"
      /\ \A v \in Workers : v # "bulk" => task'[v] = task[v]
  BY DEF CloseAllApply, Set, Done, Working, EngineTyped, TasksTyped, Workers
<1>2. /\ mem'.user /\ mem'.avail = mem.avail + n /\ mem'.pending = mem.pending
      /\ orders' = orders /\ dbPos' = dbPos
  BY DEF CloseAllApply, Working, rows, Spread
<1>3. Exposure' = Exposure /\ QtySum(mem.pending)' = QtySum(mem.pending)
  BY <1>2 DEF Exposure, QtySum
<1>4. BulkHolds(task["bulk"]) = n /\ BulkHolds(task'["bulk"]) = 0
  BY <1>1 DEF BulkHolds, Idle
<1>5. n \in Int
  BY <1>4, HoldsInt DEF Working
<1> HIDE DEF n
<1>6. InFlight' = InFlight - n
  BY <1>1, <1>4, <1>5, BulkMoves, BalanceInt DEF Working
<1>7. Balanced'
  BY <1>2, <1>3, <1>5, <1>6, BalanceInt DEF Balanced, Working
<1>8. Claims'
  BY <1>1, <1>2, ClaimsKept DEF Filled, Cancelling, Workers, Idle
<1> QED BY <1>2, <1>7, <1>8

\* Steps of the contest's status, and of the levels, move nothing.
LEMMA StatusStepsKept ==
  ASSUME Working,
         \/ UNCHANGED engVars
         \/ EndContest \/ SeeContestState
         \/ \E s \in Symbols, on \in BOOLEAN : ModifyTPSL(s, on)
  PROVE  mem'.user /\ Balanced' /\ Claims'
<1>1. mem' = mem /\ orders' = orders /\ dbPos' = dbPos /\ task' = task
  BY DEF EndContest, SeeContestState, ModifyTPSL, engVars, rows, ram
<1>2. Balanced'
  BY <1>1, BalanceKept DEF Working
<1>3. Claims'
  BY <1>1, ClaimsKept DEF Filled, Cancelling
<1> QED BY <1>1, <1>2, <1>3 DEF Working

\* Every step keeps the balance, or drops the contest from memory, while
\* nothing has crashed and no two consumers have raced.
LEMMA WorkingStep ==
  ASSUME Working, engine = "ready", ~diverged, [EngNext]_engVars, faults' = 0, ~raced',
         faults \in Nat
  PROVE  \/ mem'.user /\ Balanced' /\ Claims'
         \/ ~mem'.user /\ seenStatus' = "ended"
<1>1. CASE \/ UNCHANGED engVars
           \/ EndContest \/ SeeContestState
           \/ \E s \in Symbols, on \in BOOLEAN : ModifyTPSL(s, on)
  BY <1>1, StatusStepsKept
<1>2. CASE \/ \E o \in Orders : OpenPendingFails(o) \/ TriggerOrder(o) \/ StartCancel(o)
           \/ LeaveTriggered \/ LockTriggered \/ LockTpsl \/ ForgetTpsl
           \/ \E s \in Symbols : \E i \in 1 .. pid[s] : TriggerTpsl(s, i)
           \/ \E s \in Symbols : \E k \in 1 .. QtyTotal : LockClose(s, k)
  BY <1>2, TakenUpKept
<1>3. CASE \E o \in Orders : ProcessOrder(o) \/ LockMarket(o) \/ OpenPending(o)
  BY <1>3, ProcessOrderKept, LockMarketKept, OpenPendingKept
<1>4. CASE RejectInserted \/ AddToBook \/ RejectTriggered \/ CommitCancel \/ ApplyCancel
  BY <1>4, RejectInsertedKept, AddToBookKept, RejectTriggeredKept, CommitCancelKept, ApplyCancelKept
<1>5. CASE \E w \in Workers : CommitFill(w) \/ FillFails(w) \/ ApplyFill(w)
  BY <1>5, CommitFillKept, FillFailsKept, ApplyFillKept
<1>6. CASE CancelAllTx \/ CancelAllApply \/ CloseAllTx \/ CloseAllApply
  BY <1>6, CancelAllTxKept, CancelAllApplyKept, CloseAllTxKept, CloseAllApplyKept
<1>7. CASE EvictContest
  BY <1>7 DEF EvictContest, NoUser
<1>8. CASE (\E w \in Workers : ApplyPanics(w)) \/ Crash \/ Restart \/ ReloadState
  <2>1. faults' = faults + 1 \/ engine # "ready" \/ diverged
    BY <1>8 DEF ApplyPanics, Crash, Restart, ReloadState
  <2> QED BY <2>1
<1> QED BY <1>1, <1>2, <1>3, <1>4, <1>5, <1>6, <1>7, <1>8 DEF EngNext

\* What is disturbed stays disturbed; only faults and a reload leave the ready engine.
LEMMA DisturbedStays ==
  ASSUME EngineTyped, [EngNext]_engVars
  PROVE  /\ faults' = faults \/ faults' = faults + 1
         /\ raced => raced'
         /\ faults' = faults /\ engine = "ready" /\ ~diverged /\ ~reloaded
              => engine' = "ready" /\ ~diverged' /\ ~reloaded'
<1> DEFINE Goal == /\ faults' = faults \/ faults' = faults + 1
                   /\ raced => raced'
                   /\ faults' = faults /\ engine = "ready" /\ ~diverged /\ ~reloaded
                        => engine' = "ready" /\ ~diverged' /\ ~reloaded'
<1>n. faults \in Nat
  BY DEF EngineTyped, SystemTyped
<1>1. CASE UNCHANGED engVars
  BY <1>1 DEF engVars, sys
<1>2. ASSUME NEW o \in Orders, ProcessOrder(o) \/ LockMarket(o) \/ OpenPending(o) \/ OpenPendingFails(o)
                               \/ TriggerOrder(o)
      PROVE Goal
  <2>1. CASE ProcessOrder(o)
    BY <2>1 DEF ProcessOrder, sys
  <2>2. CASE LockMarket(o)
    BY <2>2 DEF LockMarket, sys
  <2>3. CASE OpenPending(o)
    BY <2>3 DEF OpenPending, sys
  <2>4. CASE OpenPendingFails(o)
    BY <2>4 DEF OpenPendingFails, sys
  <2>5. CASE TriggerOrder(o)
    BY <2>5 DEF TriggerOrder, sys
  <2> QED BY <1>2, <2>1, <2>2, <2>3, <2>4, <2>5
<1>3. ASSUME NEW o \in Orders, StartCancel(o) PROVE Goal
  BY <1>3 DEF StartCancel, Requested
<1>4. CASE RejectInserted \/ AddToBook \/ LeaveTriggered \/ LockTriggered \/ RejectTriggered \/ LockTpsl
           \/ ForgetTpsl
  <2>1. CASE RejectInserted
    BY <2>1 DEF RejectInserted, sys
  <2>2. CASE AddToBook
    BY <2>2 DEF AddToBook, sys
  <2>3. CASE LeaveTriggered
    BY <2>3 DEF LeaveTriggered, sys
  <2>4. CASE LockTriggered
    BY <2>4 DEF LockTriggered, sys
  <2>5. CASE RejectTriggered
    BY <2>5 DEF RejectTriggered, sys
  <2>6. CASE LockTpsl
    BY <2>6 DEF LockTpsl, sys
  <2>7. CASE ForgetTpsl
    BY <2>7 DEF ForgetTpsl, sys
  <2> QED BY <1>4, <2>1, <2>2, <2>3, <2>4, <2>5, <2>6, <2>7
<1>5. ASSUME NEW s \in Symbols, NEW i \in 1 .. pid[s], TriggerTpsl(s, i) PROVE Goal
  BY <1>5 DEF TriggerTpsl, sys
<1>6. ASSUME NEW s \in Symbols, NEW k \in 1 .. QtyTotal, LockClose(s, k) PROVE Goal
  BY <1>6 DEF LockClose, Requested
<1>7. ASSUME NEW s \in Symbols, NEW on \in BOOLEAN, ModifyTPSL(s, on) PROVE Goal
  BY <1>7 DEF ModifyTPSL, Requested
<1>8. CASE CommitCancel \/ ApplyCancel
  <2>1. CASE CommitCancel
    BY <2>1 DEF CommitCancel, sys
  <2>2. CASE ApplyCancel
    BY <2>2 DEF ApplyCancel, sys
  <2> QED BY <1>8, <2>1, <2>2
<1>9. ASSUME NEW w \in Workers, CommitFill(w) \/ FillFails(w) PROVE Goal
  <2>1. CASE CommitFill(w)
    BY <2>1 DEF CommitFill, sys
  <2>2. CASE FillFails(w)
    BY <2>2 DEF FillFails, sys
  <2> QED BY <1>9, <2>1, <2>2
<1>10. ASSUME NEW w \in Workers, ApplyFill(w) PROVE Goal
  BY <1>10 DEF ApplyFill, AfterCommit
<1>11. ASSUME NEW w \in Workers, ApplyPanics(w) PROVE Goal
  BY <1>n, <1>11 DEF ApplyPanics, AfterCommit
<1>12. CASE EndContest \/ SeeContestState \/ CancelAllTx \/ CancelAllApply \/ CloseAllTx \/ CloseAllApply
            \/ EvictContest
  <2>1. CASE EndContest
    BY <2>1 DEF EndContest, sys
  <2>2. CASE SeeContestState
    BY <2>2 DEF SeeContestState, sys
  <2>3. CASE CancelAllTx
    BY <2>3 DEF CancelAllTx, sys
  <2>4. CASE CancelAllApply
    BY <2>4 DEF CancelAllApply, sys
  <2>5. CASE CloseAllTx
    BY <2>5 DEF CloseAllTx, sys
  <2>6. CASE CloseAllApply
    BY <2>6 DEF CloseAllApply, sys
  <2>7. CASE EvictContest
    BY <2>7 DEF EvictContest, sys
  <2> QED BY <1>12, <2>1, <2>2, <2>3, <2>4, <2>5, <2>6, <2>7
<1>13. CASE Crash
  BY <1>n, <1>13 DEF Crash
<1>14. CASE Restart
  BY <1>14 DEF Restart
<1>15. CASE ReloadState
  BY <1>15 DEF ReloadState
<1> QED BY <1>1, <1>2, <1>3, <1>4, <1>5, <1>6, <1>7, <1>8, <1>9, <1>10, <1>11, <1>12, <1>13, <1>14,
     <1>15 DEF EngNext

\* The engine never believes in an end that has not come.
LEMMA StatusSeenStep ==
  ASSUME EngineTyped, StatusSeen, [EngNext]_engVars
  PROVE  StatusSeen' /\ (status = "ended" => status' = "ended")
<1> DEFINE Same == status' = status /\ seenStatus' = seenStatus
<1>1. CASE UNCHANGED engVars
  BY <1>1 DEF engVars, StatusSeen
<1>2. ASSUME NEW o \in Orders, ProcessOrder(o) \/ LockMarket(o) \/ OpenPending(o) \/ OpenPendingFails(o)
                               \/ TriggerOrder(o) \/ StartCancel(o)
      PROVE Same
  BY <1>2 DEF ProcessOrder, LockMarket, OpenPending, OpenPendingFails, TriggerOrder, StartCancel
<1>3. ASSUME RejectInserted \/ AddToBook \/ LeaveTriggered \/ LockTriggered \/ RejectTriggered \/ LockTpsl
             \/ ForgetTpsl \/ CommitCancel \/ ApplyCancel
      PROVE Same
  <2>1. CASE RejectInserted
    BY <2>1 DEF RejectInserted
  <2>2. CASE AddToBook
    BY <2>2 DEF AddToBook
  <2>3. CASE LeaveTriggered
    BY <2>3 DEF LeaveTriggered
  <2>4. CASE LockTriggered
    BY <2>4 DEF LockTriggered
  <2>5. CASE RejectTriggered
    BY <2>5 DEF RejectTriggered
  <2>6. CASE LockTpsl
    BY <2>6 DEF LockTpsl
  <2>7. CASE ForgetTpsl
    BY <2>7 DEF ForgetTpsl
  <2>8. CASE CommitCancel
    BY <2>8 DEF CommitCancel
  <2>9. CASE ApplyCancel
    BY <2>9 DEF ApplyCancel
  <2> QED BY <1>3, <2>1, <2>2, <2>3, <2>4, <2>5, <2>6, <2>7, <2>8, <2>9
<1>4. ASSUME NEW s \in Symbols, NEW i \in 1 .. pid[s], TriggerTpsl(s, i) PROVE Same
  BY <1>4 DEF TriggerTpsl
<1>5. ASSUME NEW s \in Symbols, NEW k \in 1 .. QtyTotal, LockClose(s, k) PROVE Same
  BY <1>5 DEF LockClose
<1>6. ASSUME NEW s \in Symbols, NEW on \in BOOLEAN, ModifyTPSL(s, on) PROVE Same
  BY <1>6 DEF ModifyTPSL
<1>7. ASSUME NEW w \in Workers, CommitFill(w) \/ FillFails(w) \/ ApplyFill(w) \/ ApplyPanics(w) PROVE Same
  BY <1>7 DEF CommitFill, FillFails, ApplyFill, ApplyPanics, AfterCommit
<1>8. ASSUME CancelAllTx \/ CancelAllApply \/ CloseAllTx \/ CloseAllApply \/ EvictContest \/ Crash
             \/ ReloadState
      PROVE Same
  <2>1. CASE CancelAllTx
    BY <2>1 DEF CancelAllTx
  <2>2. CASE CancelAllApply
    BY <2>2 DEF CancelAllApply
  <2>3. CASE CloseAllTx
    BY <2>3 DEF CloseAllTx
  <2>4. CASE CloseAllApply
    BY <2>4 DEF CloseAllApply
  <2>5. CASE EvictContest
    BY <2>5 DEF EvictContest
  <2>6. CASE Crash
    BY <2>6 DEF Crash
  <2>7. CASE ReloadState
    BY <2>7 DEF ReloadState
  <2> QED BY <1>8, <2>1, <2>2, <2>3, <2>4, <2>5, <2>6, <2>7
<1>9. CASE EndContest
  BY <1>9 DEF EndContest, StatusSeen
<1>10. CASE SeeContestState
  BY <1>10 DEF SeeContestState, StatusSeen
<1>11. CASE Restart
  BY <1>11 DEF Restart, StatusSeen
<1> QED BY <1>1, <1>2, <1>3, <1>4, <1>5, <1>6, <1>7, <1>8, <1>9, <1>10, <1>11 DEF EngNext, StatusSeen

\* A dropped contest stays dropped: its end is known, and only an order or a
\* close for a running contest would load it again.
LEMMA DroppedStays ==
  ASSUME EngineTyped, ~mem.user, seenStatus = "ended", status = "ended",
         engine = "ready", ~diverged, [EngNext]_engVars
  PROVE  ~mem'.user /\ seenStatus' = "ended"
<1> USE DEF MemoryShape
<1>m. mem \in MemoryShape
  BY DEF EngineTyped, MemoryTyped
<1>1. CASE UNCHANGED engVars
  BY <1>1 DEF engVars, ram
<1>2. ASSUME NEW o \in Orders, ProcessOrder(o) PROVE FALSE
  BY <1>2 DEF ProcessOrder, Admissible
<1>3. ASSUME NEW o \in Orders, LockMarket(o) \/ OpenPending(o)
      PROVE ~mem'.user /\ seenStatus' = "ended"
  BY <1>m, <1>3 DEF LockMarket, OpenPending
<1>4. ASSUME NEW o \in Orders, OpenPendingFails(o) \/ TriggerOrder(o) \/ StartCancel(o)
      PROVE ~mem'.user /\ seenStatus' = "ended"
  BY <1>4 DEF OpenPendingFails, TriggerOrder, StartCancel, ram
<1>5. CASE RejectInserted \/ LeaveTriggered \/ LockTriggered \/ LockTpsl \/ ForgetTpsl \/ CommitCancel
  BY <1>5 DEF RejectInserted, LeaveTriggered, LockTriggered, LockTpsl, ForgetTpsl, CommitCancel, ram
<1>6. CASE AddToBook \/ RejectTriggered \/ ApplyCancel
  BY <1>m, <1>6 DEF AddToBook, RejectTriggered, ApplyCancel
<1>7. ASSUME NEW s \in Symbols, NEW i \in 1 .. pid[s], TriggerTpsl(s, i)
      PROVE ~mem'.user /\ seenStatus' = "ended"
  BY <1>7 DEF TriggerTpsl, ram
<1>8. ASSUME NEW s \in Symbols, NEW k \in 1 .. QtyTotal, LockClose(s, k) PROVE FALSE
  BY <1>8 DEF LockClose
<1>9. ASSUME NEW s \in Symbols, NEW on \in BOOLEAN, ModifyTPSL(s, on) PROVE FALSE
  BY <1>9 DEF ModifyTPSL
<1>10. ASSUME NEW w \in Workers, CommitFill(w) \/ FillFails(w)
       PROVE ~mem'.user /\ seenStatus' = "ended"
  BY <1>m, <1>10 DEF CommitFill, FillFails, ram
<1>11. ASSUME NEW w \in Workers, ApplyFill(w) \/ ApplyPanics(w)
       PROVE ~mem'.user /\ seenStatus' = "ended"
  BY <1>11 DEF ApplyFill, ApplyPanics, AfterCommit
<1>12. CASE EndContest \/ SeeContestState
  BY <1>12 DEF EndContest, SeeContestState, ram
<1>13. CASE CancelAllTx \/ CloseAllTx \/ CancelAllApply \/ CloseAllApply
  BY <1>13 DEF CancelAllTx, CloseAllTx, CancelAllApply, CloseAllApply, ram
<1>14. CASE EvictContest
  BY <1>14 DEF EvictContest, NoUser
<1>15. CASE Crash
  BY <1>15 DEF Crash, NoUser
<1>16. CASE Restart \/ ReloadState
  BY <1>16 DEF Restart, ReloadState
<1> QED BY <1>1, <1>2, <1>3, <1>4, <1>5, <1>6, <1>7, <1>8, <1>9, <1>10, <1>11, <1>12, <1>13, <1>14,
     <1>15, <1>16 DEF EngNext

\* From the untouched account, the first order loads the participant's row.
LEMMA PristineStep ==
  ASSUME EngineTyped, ~mem.user, Pristine, engine = "ready", ~diverged, [EngNext]_engVars,
         faults' = 0, faults \in Nat
  PROVE  IF mem'.user THEN Balanced' /\ Claims' ELSE Pristine'
<1>0. /\ \A w \in Workers : task[w].pc = "idle"
      /\ \A o \in Orders : orders[o] = "none"
      /\ dbPos = [s \in Symbols |-> 0] /\ dbAvail = QtyTotal /\ book = {} /\ tpsl = {}
      /\ \A s \in Symbols : dbPos[s] = 0
      /\ Exposure = 0
  BY SpreadZero DEF Pristine, Exposure, Spread
<1>1. CASE UNCHANGED engVars \/ EndContest \/ SeeContestState
  <2>1. /\ mem' = mem /\ task' = task /\ orders' = orders /\ dbPos' = dbPos /\ dbAvail' = dbAvail
        /\ book' = book /\ tpsl' = tpsl
    BY <1>1 DEF EndContest, SeeContestState, engVars, rows, ram
  <2> QED BY <2>1 DEF Pristine
<1>2. ASSUME NEW o \in Orders, ProcessOrder(o)
      PROVE  mem'.user /\ Balanced' /\ Claims'
  <2>1. /\ task'["order"] = [pc |-> "inserted", order |-> o]
        /\ \A v \in Workers : v # "order" => task'[v] = task[v]
    BY <1>2 DEF ProcessOrder, Set, EngineTyped, TasksTyped, Workers
  <2>2. /\ mem'.user /\ mem'.avail = QtyTotal /\ mem'.pending = {}
        /\ orders' = [orders EXCEPT ![o] = "pending"] /\ dbPos' = dbPos
    BY <1>0, <1>2 DEF ProcessOrder, LoadedUser, FreshUser
  <2>3. Exposure' = 0 /\ QtySum(mem.pending)' = 0
    BY <1>0, <2>2, SumEmpty DEF Exposure, QtySum
  <2>4. InFlight' = 0
    BY <1>0, <2>1 DEF InFlight, OrderHolds, TickHolds, CloseHolds, BulkHolds, Workers
  <2>5. Balanced'
    BY <2>2, <2>3, <2>4, EngineConstants DEF Balanced
  <2>6. Claims'
    BY <1>0, <2>1, <2>2 DEF Claims, Placing, Cancelling, Filled, EngineTyped, RowsTyped, Workers
  <2> QED BY <2>2, <2>5, <2>6
<1>3. ASSUME NEW o \in Orders,
             LockMarket(o) \/ OpenPending(o) \/ OpenPendingFails(o) \/ TriggerOrder(o) \/ StartCancel(o)
      PROVE  FALSE
  <2>1. LockMarket(o) \/ OpenPending(o) \/ OpenPendingFails(o) => task["order"].pc = "inserted"
    BY DEF LockMarket, OpenPending, OpenPendingFails
  <2>2. TriggerOrder(o) => book # {}
    BY DEF TriggerOrder
  <2>3. StartCancel(o) => mem.user
    BY DEF StartCancel
  <2> QED BY <1>0, <1>3, <2>1, <2>2, <2>3 DEF Workers
<1>4. CASE RejectInserted \/ AddToBook \/ LeaveTriggered \/ LockTriggered \/ RejectTriggered \/ LockTpsl
           \/ ForgetTpsl \/ CommitCancel \/ ApplyCancel \/ CancelAllApply \/ CloseAllApply
  <2>1. \E w \in Workers : task[w].pc # "idle"
    BY <1>4 DEF RejectInserted, AddToBook, LeaveTriggered, LockTriggered, RejectTriggered, LockTpsl,
       ForgetTpsl, CommitCancel, ApplyCancel, CancelAllApply, CloseAllApply, Workers
  <2> QED BY <1>0, <2>1
<1>5. ASSUME NEW s \in Symbols, NEW i \in 1 .. pid[s], TriggerTpsl(s, i) PROVE FALSE
  BY <1>0, <1>5 DEF TriggerTpsl
<1>6. ASSUME NEW s \in Symbols, NEW k \in 1 .. QtyTotal, LockClose(s, k) PROVE FALSE
  BY <1>0, <1>6 DEF LockClose
<1>7. ASSUME NEW s \in Symbols, NEW on \in BOOLEAN, ModifyTPSL(s, on) PROVE FALSE
  BY <1>0, <1>7 DEF ModifyTPSL
<1>8. ASSUME NEW w \in Workers, CommitFill(w) \/ FillFails(w) \/ ApplyFill(w) \/ ApplyPanics(w)
      PROVE  FALSE
  <2>1. task[w].pc # "idle"
    BY <1>8 DEF CommitFill, FillFails, ApplyFill, ApplyPanics, AfterCommit
  <2> QED BY <1>0, <2>1
<1>9. CASE CancelAllTx
  BY <1>0, <1>9 DEF CancelAllTx
<1>10. CASE CloseAllTx
  BY <1>0, <1>10 DEF CloseAllTx
<1>11. CASE EvictContest
  BY <1>11 DEF EvictContest
<1>12. CASE Crash \/ Restart \/ ReloadState
  <2>1. faults' = faults + 1 \/ engine # "ready" \/ diverged
    BY <1>12 DEF Crash, Restart, ReloadState
  <2> QED BY <2>1
<1> QED BY <1>1, <1>2, <1>3, <1>4, <1>5, <1>6, <1>7, <1>8, <1>9, <1>10, <1>11, <1>12 DEF EngNext

\* At first everything is available.
LEMMA QtyStart == EngInit => QtyInv
<1> SUFFICES ASSUME EngInit PROVE QtyInv
  OBVIOUS
<1>1. Pristine /\ ~mem.user
  BY DEF EngInit, Pristine, NoUser, Idle
<1> QED BY <1>1 DEF EngInit, QtyInv, StatusSeen, Faultless, Conserved

\* Every step keeps the balance, or is a disturbance.
LEMMA QtyStep ==
  ASSUME EngineTyped, TxInv, OnceInv, QtyInv, [EngNext]_engVars
  PROVE  QtyInv'
<1>1. StatusSeen'
  BY StatusSeenStep DEF QtyInv
<1>2. /\ faults \in Nat
      /\ faults' = faults \/ faults' = faults + 1
      /\ raced => raced'
      /\ faults' = faults /\ engine = "ready" /\ ~diverged /\ ~reloaded
           => engine' = "ready" /\ ~diverged' /\ ~reloaded'
  BY DisturbedStays DEF EngineTyped, SystemTyped
<1>3. Faultless'
  BY <1>2 DEF QtyInv, Faultless
<1>4. ASSUME Undisturbed' PROVE IF mem'.user THEN Balanced' /\ Claims' ELSE seenStatus' = "ended" \/ Pristine'
  <2>1. Undisturbed /\ engine = "ready" /\ ~diverged /\ ~reloaded /\ faults' = 0 /\ ~raced'
    BY <1>2, <1>4 DEF Undisturbed, QtyInv, Faultless
  <2>2. CASE mem.user
    <3>1. Working
      BY <2>1, <2>2 DEF Working, QtyInv, Conserved, OnceInv
    <3> QED BY <1>2, <2>1, <3>1, WorkingStep
  <2>3. CASE ~mem.user /\ Pristine
    <3>1. IF mem'.user THEN Balanced' /\ Claims' ELSE Pristine'
      BY <1>2, <2>1, <2>3, PristineStep
    <3> QED BY <3>1
  <2>4. CASE ~mem.user /\ seenStatus = "ended"
    <3>1. status = "ended"
      BY <2>4 DEF QtyInv, StatusSeen
    <3> QED BY <2>1, <2>4, <3>1, DroppedStays
  <2>5. mem.user \/ seenStatus = "ended" \/ Pristine
    BY <2>1 DEF QtyInv, Conserved
  <2> QED BY <2>2, <2>3, <2>4, <2>5
<1> QED BY <1>1, <1>3, <1>4 DEF QtyInv, Conserved

\* When nobody is at work, nothing is held between two steps.
LEMMA QtyHolds == EngineTyped /\ QtyInv => QtyConserved
<1> SUFFICES ASSUME EngineTyped, QtyInv, faults = 0, ~raced, mem.user, \A w \in Workers : ~Busy(w)
             PROVE  mem.avail + Exposure + QtySum(mem.pending) = QtyTotal
  BY DEF QtyConserved
<1>1. Balanced
  BY DEF QtyInv, Conserved, Undisturbed
<1>2. InFlight = 0
  BY DEF InFlight, OrderHolds, TickHolds, CloseHolds, BulkHolds, Busy, Workers
<1> QED BY <1>1, <1>2, BalanceInt DEF Balanced

\* The types the run checks follow.
LEMMA EngineTypedHolds == EngineTyped => EngTypeOK
BY MemoryFields DEF EngineTyped, RowsTyped, MemoryTyped, SystemTyped, EngTypeOK

\* All parts of the invariant hold at first,
LEMMA EngineStart == EngInit => EngineInv
BY EngineTypedStart, OnceStart, TxStart, QtyStart DEF EngineInv

\* every step keeps them,
LEMMA EngineStep == EngineInv /\ [EngNext]_engVars => EngineInv'
BY EngineTypedStep, OnceStep, TxStep, QtyStep DEF EngineInv

\* and they give what the runs check.
LEMMA EngineHolds == EngineInv => EngTypeOK /\ FilledOnce /\ QtyConserved
BY EngineTypedHolds, OnceHolds, QtyHolds DEF EngineInv

=============================================================================
