----------------------------- MODULE Ingestion ------------------------------
(***************************************************************************)
(* What the market ingestor is told about symbols.  Three machines:        *)
(*                                                                         *)
(*  - the spreads: admins edit one document in Redis by reading it,        *)
(*    changing it and writing it back, and tell the ingestors over         *)
(*    pub/sub; an ingestor prices every tick without a bid or an ask from  *)
(*    its own copy;                                                        *)
(*  - the registry: the canonical symbols and each provider's names for    *)
(*    them, loaded row by row, filtered, or built from the environment;    *)
(*  - the contests' symbols: counted by contest events, recounted from the *)
(*    database once a minute, and asked of the provider.                   *)
(*                                                                         *)
(* The spreads are those of one instrument, whose ticks come under         *)
(* "slashed" (EUR/USD) while the file and most edits spell it "plain"      *)
(* (EURUSD).  The six provider maps of the registry are filled by the same *)
(* code on maps of their own: a behaviour is about one of them.            *)
(***************************************************************************)
EXTENDS Integers, Sequences, FiniteSets

CONSTANTS SpreadAdmins, Ingestors,
          MaxSpreadEdits,     \* admin edits begun
          MaxIngestFaults,    \* failed calls, lost connections and crashes
          ContestA, ContestB, \* two contests; the second also trades a symbol of its own
          Shared, Own,        \* those symbols
          Extra,              \* a symbol of SYMBOLS_FALLBACK only
          MaxBacklog,         \* events of a contest not yet consumed
          MaxRedeliveries     \* contest events delivered again, pauses that end and
                              \* connections to the provider made again

VARIABLES
  spreadKey,   \* Redis key market:spread_config
  ingestor,    \* per instance: where it is, its config, notices not yet read
  edit,        \* per admin: the request in progress
  intended,    \* ghost: what the edits, each on top of the others, amount to
  overwrote,   \* ghost: a document was written over one its writer had not read
  editsLeft, ingestFaults,
  registry,    \* SymbolRegistry of one provider, and the rows still to load
  cstatus,     \* contests.status
  cevents,     \* contests.v1, not yet consumed
  counts,      \* activeSymbols
  listed,      \* what the provider streams
  refresh,     \* RefreshFromDB between its query and its lock
  refused,     \* ghost: symbols for which a call to the provider failed or was forgotten
  redeliveries

spreadVars == <<spreadKey, ingestor, edit, intended, overwrote, editsLeft, ingestFaults>>
contestSymbolVars == <<cstatus, cevents, counts, listed, refresh, refused, redeliveries>>
ingestionVars == <<spreadKey, ingestor, edit, intended, overwrote, editsLeft, ingestFaults,
                   registry, cstatus, cevents, counts, listed, refresh, refused, redeliveries>>

-----------------------------------------------------------------------------
(* The spreads. *)

Unset == -99
SpreadFields == {"default", "class", "plain", "slashed"}
NoConfig == [f \in SpreadFields |-> Unset]
FreshConfig == [NoConfig EXCEPT !["default"] = 10]
FileConfig == [default |-> 10, class |-> 3, plain |-> 2, slashed |-> Unset]
SpreadInputs == {-1, 0, 5, 1001}

ValidSpread(f, v) == v >= (IF f = "default" THEN 1 ELSE 0) /\ v <= 1000

\* GetSpreadBps for a tick of the instrument: ticks carry the canonical name.
GetSpreadBps(c) ==
  CASE c["slashed"] # Unset -> c["slashed"]
    [] c["slashed"] = Unset /\ c["class"] # Unset -> c["class"]
    [] OTHER -> c["default"]

SingleEdit(f) == {[g \in {f} |-> v] : v \in {w \in SpreadInputs : ValidSpread(f, w)}}
UpdateSymbolSpread == SingleEdit("plain")
DeleteSymbolSpread == {[g \in {"plain"} |-> Unset]}
UpdateDefaultSpread == SingleEdit("default")
UpdateAssetClassSpread == SingleEdit("class")
\* The body names what it changes, however it is spelled; nothing too.
BulkUpdateSpreads ==
  {u \in UNION {[named -> SpreadInputs] : named \in {{}, {"default", "slashed"}}} :
     \A f \in DOMAIN u : ValidSpread(f, u[f])}

Merged(c, u) == [f \in SpreadFields |-> IF f \in DOMAIN u THEN u[f] ELSE c[f]]
MergedOr(c, u) == Merged(IF c = NoConfig THEN FreshConfig ELSE c, u)

EditIdle == [pc |-> "idle", read |-> NoConfig, change |-> NoConfig, next |-> NoConfig]
IngestorDown == [pc |-> "down", cfg |-> FreshConfig, notices |-> 0, missed |-> FALSE]

SpreadInit ==
  /\ spreadKey = NoConfig
  /\ ingestor = [i \in Ingestors |-> IngestorDown]
  /\ edit = [a \in SpreadAdmins |-> EditIdle]
  /\ intended = NoConfig
  /\ overwrote = FALSE
  /\ editsLeft = MaxSpreadEdits
  /\ ingestFaults = 0

IngestFault == ingestFaults < MaxIngestFaults /\ ingestFaults' = ingestFaults + 1

\* A request reads the document.  An edit whose read fails, for whatever
\* reason, starts from a fresh one; a delete is refused then, and refused when
\* there is no override.
BeginEdit(a, u, seen) ==
  /\ edit[a].pc = "idle" /\ editsLeft > 0
  /\ u \in DeleteSymbolSpread => seen["plain"] # Unset
  /\ edit' = [edit EXCEPT ![a] =
       [pc |-> "save", read |-> seen, change |-> u, next |-> MergedOr(seen, u)]]
  /\ editsLeft' = editsLeft - 1
  /\ UNCHANGED <<spreadKey, ingestor, intended, overwrote>>

ReadSpreadConfig(a, u) == BeginEdit(a, u, spreadKey) /\ UNCHANGED ingestFaults
ReadSpreadConfigFails(a, u) == IngestFault /\ BeginEdit(a, u, NoConfig)

\* The document is written whole.  Who was to be told of it is told by Notify.
WriteDocument(c, seen) ==
  /\ spreadKey' = c
  /\ overwrote' = (overwrote \/ seen # spreadKey)

SaveSpreadConfig(a) ==
  /\ edit[a].pc = "save"
  /\ WriteDocument(edit[a].next, edit[a].read)
  /\ intended' = MergedOr(intended, edit[a].change)
  /\ edit' = [edit EXCEPT ![a] = [EditIdle EXCEPT !.pc = "notify"]]
  /\ UNCHANGED <<ingestor, editsLeft, ingestFaults>>

\* The request fails: nothing is written, or it is written after the timeout.
SaveSpreadConfigFails(a) ==
  /\ edit[a].pc = "save" /\ IngestFault
  /\ edit' = [edit EXCEPT ![a] = EditIdle]
  /\ \/ UNCHANGED <<spreadKey, ingestor, intended, overwrote>>
     \/ /\ WriteDocument(edit[a].next, edit[a].read)
        /\ intended' = MergedOr(intended, edit[a].change)
        /\ ingestor' = [i \in Ingestors |-> [ingestor[i] EXCEPT !.missed = TRUE]]
  /\ UNCHANGED editsLeft

\* Publish reaches whoever is subscribed now; its failure is only logged.
Told(i) == IF i.pc = "listening" THEN [i EXCEPT !.notices = @ + 1] ELSE [i EXCEPT !.missed = TRUE]

NotifySpreadUpdate(a) ==
  /\ edit[a].pc = "notify"
  /\ edit' = [edit EXCEPT ![a] = EditIdle]
  /\ \/ ingestor' = [i \in Ingestors |-> Told(ingestor[i])] /\ UNCHANGED ingestFaults
     \/ IngestFault /\ ingestor' = [i \in Ingestors |-> [ingestor[i] EXCEPT !.missed = TRUE]]
  /\ UNCHANGED <<spreadKey, intended, overwrote, editsLeft>>

\* loadFromRedis replaces the whole copy.
Loaded(i, c, pc) == [i EXCEPT !.pc = pc, !.cfg = c, !.missed = FALSE]

\* NewSpreadManager: an absent document and a failed read look the same.
StartIngestor(i) ==
  /\ ingestor[i].pc = "down"
  /\ \/ /\ spreadKey # NoConfig
        /\ ingestor' = [ingestor EXCEPT ![i] = Loaded(@, spreadKey, "loaded")]
        /\ UNCHANGED ingestFaults
     \/ /\ spreadKey = NoConfig
        /\ ingestor' = [ingestor EXCEPT ![i] = [@ EXCEPT !.pc = "seeding", !.cfg = FileConfig]]
        /\ UNCHANGED ingestFaults
     \/ /\ spreadKey # NoConfig /\ IngestFault
        /\ ingestor' = [ingestor EXCEPT ![i] = [@ EXCEPT !.pc = "seeding", !.cfg = FileConfig]]
  /\ UNCHANGED <<spreadKey, edit, intended, overwrote, editsLeft>>

\* No file: the ingestor runs on the built-in default, and writes nothing.
NoSpreadFile(i) ==
  /\ ingestor[i].pc = "seeding" /\ IngestFault
  /\ ingestor' = [ingestor EXCEPT ![i] = [@ EXCEPT !.pc = "loaded", !.cfg = FreshConfig, !.missed = TRUE]]
  /\ UNCHANGED <<spreadKey, edit, intended, overwrote, editsLeft>>

\* The file's document is written over whatever Redis holds; no one is told.
SeedSpreadConfig(i) ==
  /\ ingestor[i].pc = "seeding"
  /\ \/ /\ WriteDocument(FileConfig, NoConfig)
        /\ intended' = IF intended = NoConfig THEN FileConfig ELSE intended
        /\ ingestor' = [j \in Ingestors |->
             IF j = i THEN Loaded(ingestor[i], FileConfig, "loaded")
             ELSE [ingestor[j] EXCEPT !.missed = TRUE]]
        /\ UNCHANGED ingestFaults
     \/ /\ IngestFault \* not written, as far as the ingestor knows
        /\ \/ UNCHANGED <<spreadKey, intended, overwrote>>
           \/ WriteDocument(FileConfig, NoConfig)
              /\ intended' = IF intended = NoConfig THEN FileConfig ELSE intended
        /\ ingestor' = [j \in Ingestors |->
             [ingestor[j] EXCEPT !.pc = IF j = i THEN "loaded" ELSE @, !.missed = TRUE]]
  /\ UNCHANGED <<edit, editsLeft>>

SubscribeToUpdates(i) ==
  /\ ingestor[i].pc \in {"loaded", "lost"}
  /\ ingestor' = [ingestor EXCEPT ![i].pc = "listening"]
  /\ UNCHANGED <<spreadKey, edit, intended, overwrote, editsLeft, ingestFaults>>

\* The connection drops, and with it the notices that have not reached the
\* client; nothing is reloaded when it is back.
UpdatesLost(i) ==
  /\ ingestor[i].pc = "listening" /\ IngestFault
  /\ \E reached \in 0 .. ingestor[i].notices :
       ingestor' = [ingestor EXCEPT ![i] =
         [@ EXCEPT !.pc = "lost", !.notices = reached, !.missed = @ \/ reached < ingestor[i].notices]]
  /\ UNCHANGED <<spreadKey, edit, intended, overwrote, editsLeft>>

ReloadSpreads(i) ==
  /\ ingestor[i].notices > 0
  /\ \/ /\ spreadKey # NoConfig
        /\ ingestor' = [ingestor EXCEPT ![i] =
             [Loaded(@, spreadKey, @.pc) EXCEPT !.notices = @ - 1]]
        /\ UNCHANGED ingestFaults
     \/ /\ IngestFault
        /\ ingestor' = [ingestor EXCEPT ![i] = [@ EXCEPT !.notices = @ - 1, !.missed = TRUE]]
  /\ UNCHANGED <<spreadKey, edit, intended, overwrote, editsLeft>>

IngestorStops(i) ==
  /\ ingestor[i].pc # "down" /\ IngestFault
  /\ ingestor' = [ingestor EXCEPT ![i] = IngestorDown]
  /\ UNCHANGED <<spreadKey, edit, intended, overwrote, editsLeft>>

SpreadNext ==
  \/ \E a \in SpreadAdmins :
       \/ \E u \in UpdateSymbolSpread \cup DeleteSymbolSpread \cup UpdateDefaultSpread
                    \cup UpdateAssetClassSpread \cup BulkUpdateSpreads :
            ReadSpreadConfig(a, u) \/ ReadSpreadConfigFails(a, u)
       \/ SaveSpreadConfig(a) \/ SaveSpreadConfigFails(a) \/ NotifySpreadUpdate(a)
  \/ \E i \in Ingestors :
       \/ StartIngestor(i) \/ NoSpreadFile(i) \/ SeedSpreadConfig(i)
       \/ SubscribeToUpdates(i) \/ UpdatesLost(i) \/ ReloadSpreads(i) \/ IngestorStops(i)

\* publishTick, in twenty-thousandths of a price: the provider's bid and ask
\* when it gave both, swapped by handleTick when they were inverted, else half
\* the spread to either side of the last price.
Quote(last, bid, ask, bps) ==
  IF bid > 0 /\ ask > 0
  THEN IF bid > ask THEN <<ask * 20000, bid * 20000>> ELSE <<bid * 20000, ask * 20000>>
  ELSE <<last * (20000 - bps), last * (20000 + bps)>>

\* Unless a document was written over one its writer had not read, the one in
\* Redis is what all edits together amount to (handlers_spreads.go).
SettingsKept == ~overwrote => spreadKey = intended

\* An ingestor that is subscribed, has read its notices and lost none holds the
\* document in Redis, once whoever wrote it has told (spread_manager.go).
SpreadsFollow ==
  (\A a \in SpreadAdmins : edit[a].pc # "notify") =>
    \A i \in Ingestors :
      ingestor[i].pc = "listening" /\ ingestor[i].notices = 0 /\ ~ingestor[i].missed =>
        ingestor[i].cfg = spreadKey

\* Whatever admins and files have set, no tick is published with a bid above
\* its ask (publishTick, DeriveSyntheticBidAsk).
QuotesUncrossed ==
  \A bps \in {GetSpreadBps(ingestor[i].cfg) : i \in {j \in Ingestors : ingestor[j].pc # "down"}} :
    \A last \in 1 .. 2, bid, ask \in 0 .. 2 :
      LET q == Quote(last, bid, ask, bps) IN 0 < q[1] /\ q[1] <= q[2]

-----------------------------------------------------------------------------
(* The registry. *)

Canonicals == {"EUR/USD", "BTC/USD", "BTC/USDT"}
AssetTypes == {"forex", "crypto", "stock"}   \* a commodity goes where forex goes
ProviderNames == {"massive", "twelvedata", "nobitex", "binance", "finnhub", "deriv"}
NoName == "none"
NameRange == Canonicals \cup {NoName}

\* A provider's name for a symbol is written as the symbol it spells.  The
\* heuristics: Deriv drops the T of USDT, the exchanges only know USD pairs.
CanonicalToDeriv(c) == IF c = "BTC/USDT" THEN "BTC/USD" ELSE c
IsForexSymbol(c) == c = "EUR/USD"
EnvName(p, c) ==
  CASE p \in {"massive", "twelvedata"} -> c
    [] p = "deriv" -> CanonicalToDeriv(c)
    [] p = "finnhub" -> IF IsForexSymbol(c) THEN c ELSE NoName
    [] OTHER -> IF c = "BTC/USD" THEN c ELSE NoName

\* A row's name: the column, and for Deriv the heuristic where it is null.
RowName(p, c, col) == IF p = "deriv" /\ col = NoName THEN CanonicalToDeriv(c) ELSE col

\* One symbol joins the maps: the later of two with one name is who it means.
AddSymbol(r, c, type, name) ==
  [r EXCEPT !.types = [d \in DOMAIN @ \cup {c} |-> IF d = c THEN type ELSE @[d]],
            !.to = IF name = NoName THEN @ ELSE [d \in DOMAIN @ \cup {c} |-> IF d = c THEN name ELSE @[d]],
            !.from = IF name = NoName THEN @ ELSE [n \in DOMAIN @ \cup {name} |-> IF n = name THEN c ELSE @[n]]]

EmptyMaps == [x \in {} |-> NoName]

RegistryStart(p, t) ==
  [pc |-> "load", provider |-> p,
   rows |-> [c \in Canonicals |-> IF c \in DOMAIN t THEN t[c] ELSE <<"crypto", NoName>>],
   types |-> EmptyMaps, to |-> EmptyMaps, from |-> EmptyMaps]

RegistryInit ==
  \E p \in ProviderNames, t \in [{"EUR/USD", "BTC/USD"} -> AssetTypes \X NameRange] :
    registry = RegistryStart(p, t)

\* loadSymbolsFromDB: rows come in no particular order.
LoadRow ==
  \E c \in DOMAIN registry.rows :
    LET row == registry.rows[c] IN
    /\ registry.pc = "load"
    /\ registry' = [AddSymbol(registry, c, row[1], RowName(registry.provider, c, row[2]))
                    EXCEPT !.rows = [d \in DOMAIN @ \ {c} |-> @[d]]]

\* The last row is read; or the query fails, and with it what was loaded goes.
LoadEnds ==
  /\ registry.pc = "load"
  /\ \/ DOMAIN registry.rows = {} /\ registry' = [registry EXCEPT !.pc = "loaded"]
     \/ registry' = [registry EXCEPT !.pc = "env", !.types = EmptyMaps, !.to = EmptyMaps,
                                     !.from = EmptyMaps, !.rows = EmptyMaps]


KeptMaps(r, keep) ==
  [r EXCEPT !.types = [c \in DOMAIN @ \cap keep |-> @[c]],
            !.to = [c \in DOMAIN @ \cap keep |-> @[c]]]

\* The reverse map is made again from the names kept; of two symbols with one
\* name the one later in CanonicalSymbols wins again, if it is kept.
FilterRegistry ==
  \E keep \in SUBSET Canonicals :
    LET r == KeptMaps(registry, keep)
        names == {r.to[c] : c \in DOMAIN r.to}
    IN \E back \in [names -> Canonicals] :
         /\ registry.pc = "loaded"
         /\ \A n \in names :
              /\ back[n] \in DOMAIN r.to /\ r.to[back[n]] = n
              /\ registry.from[n] \in keep => back[n] = registry.from[n]
         /\ registry' = [r EXCEPT !.pc = "ready", !.from = back]

UseLoaded == registry.pc = "loaded" /\ registry' = [registry EXCEPT !.pc = "ready"]

EnvType(c) == IF IsForexSymbol(c) THEN "forex" ELSE "crypto"

\* buildRegistryFromEnv: SYMBOLS one after the other.
AddFromEnv ==
  \E c \in Canonicals \ DOMAIN registry.types :
    /\ registry.pc = "env"
    /\ registry' = AddSymbol(registry, c, EnvType(c), EnvName(registry.provider, c))

EnvDone == registry.pc = "env" /\ registry' = [registry EXCEPT !.pc = "ready"]

RegistryNext == LoadRow \/ LoadEnds \/ FilterRegistry \/ UseLoaded \/ AddFromEnv \/ EnvDone

SymbolsOfType(r, types) == {c \in DOMAIN r.types : r.types[c] \in types}

\* The registry's names for a provider.
Subscriptions(r) ==
  CASE r.provider = "massive" ->
         {IF c \in DOMAIN r.to THEN r.to[c] ELSE c : c \in SymbolsOfType(r, {"forex", "crypto"})}
    [] r.provider = "twelvedata" -> {r.to[c] : c \in DOMAIN r.to}
    [] r.provider \in {"nobitex", "binance"} ->
         {r.to[c] : c \in SymbolsOfType(r, {"crypto"}) \cap DOMAIN r.to}
    [] OTHER -> {r.to[c] : c \in SymbolsOfType(r, {"forex"}) \cap DOMAIN r.to}

\* The names the provider is asked to stream.  When the registry has none,
\* Finnhub's are spelled from all symbols and Deriv's from those of forex.
SubscribeProvider(r) ==
  CASE r.provider = "finnhub" /\ Subscriptions(r) = {} -> DOMAIN r.types
    [] r.provider = "deriv" /\ Subscriptions(r) = {} ->
         {CanonicalToDeriv(c) : c \in SymbolsOfType(r, {"forex"})}
    [] OTHER -> Subscriptions(r)

\* A streamed name back to its symbol: the map, else the spelling.
ToCanonical(r, n) == IF n \in DOMAIN r.from THEN r.from[n] ELSE n

\* Every name the provider streams is read back as a symbol of the registry
\* that goes by it; two symbols share their ticks' name or neither loses them,
\* after a filter too (symbol_registry.go).
TicksFindSymbol ==
  registry.pc = "ready" =>
    /\ \A n \in SubscribeProvider(registry) :
         LET c == ToCanonical(registry, n) IN
         /\ c \in DOMAIN registry.types
         /\ n = c \/ (c \in DOMAIN registry.to /\ registry.to[c] = n)
    /\ \A c \in DOMAIN registry.to :
         (\A d \in DOMAIN registry.to \ {c} : registry.to[d] # registry.to[c]) =>
           ToCanonical(registry, registry.to[c]) = c

-----------------------------------------------------------------------------
(* The contests' symbols. *)

ContestsOf == {ContestA, ContestB}
ContestSymbols(c) == IF c = ContestB THEN {Shared, Own} ELSE {Shared}
FallbackSymbols == {Shared, Extra}
RegistrySymbols == {Shared, Extra}
LiveStatuses == {"scheduled", "running"}   \* registration_open counts as scheduled does
\* "over" is completed or cancelled: both are handled alike.
NextStatus(s) ==
  CASE s = "draft" -> {"scheduled"} [] s = "scheduled" -> {"running", "over"}
    [] s = "running" -> {"paused", "over"} [] s = "paused" -> {"running", "over"} [] OTHER -> {}

\* RefreshFromDB's query, and the fallback when no contest is live.
NeededSymbols ==
  LET live == {c \in ContestsOf : cstatus[c] \in LiveStatuses}
      syms == UNION {ContestSymbols(c) : c \in live}
  IN IF syms = {} THEN [s \in FallbackSymbols |-> 0]
     ELSE [s \in syms |-> Cardinality({c \in live : s \in ContestSymbols(c)})]

RefreshIdle == [pc |-> "idle", needed |-> EmptyMaps, current |-> FALSE]

ContestSymbolsInit ==
  /\ cstatus = [c \in ContestsOf |-> IF c = ContestA THEN "running" ELSE "draft"]
  /\ cevents = [c \in ContestsOf |-> <<>>]
  /\ counts = EmptyMaps
  /\ listed = RegistrySymbols
  /\ refresh = RefreshIdle
  /\ refused = {}
  /\ redeliveries = 0

\* The state machine's transition commits and its event is on its way.
ContestMoves(c, s) ==
  /\ s \in NextStatus(cstatus[c]) /\ Len(cevents[c]) < MaxBacklog
  /\ cstatus' = [cstatus EXCEPT ![c] = s]
  /\ cevents' = [cevents EXCEPT ![c] = Append(@, s)]
  /\ refresh' = [refresh EXCEPT !.current = FALSE]
  /\ IF cstatus[c] = "paused" /\ s = "running"
     THEN redeliveries < MaxRedeliveries /\ redeliveries' = redeliveries + 1
     ELSE UNCHANGED redeliveries
  /\ UNCHANGED <<counts, listed, refused>>

\* connectAndRun: a connection begins with the registry's symbols.  Deriv asks for
\* those of the manager again; Massive's are gone, and the manager is not told.
ProviderConnects ==
  /\ redeliveries < MaxRedeliveries /\ redeliveries' = redeliveries + 1
  /\ \/ listed' = listed \cup RegistrySymbols /\ UNCHANGED refused
     \/ listed' = RegistrySymbols /\ refused' = refused \cup (listed \ RegistrySymbols)
  /\ UNCHANGED <<cstatus, cevents, counts, refresh>>

RefreshReads ==
  /\ refresh.pc = "idle"
  /\ refresh' = [pc |-> "apply", needed |-> NeededSymbols, current |-> TRUE]
  /\ UNCHANGED <<cstatus, cevents, counts, listed, refused, redeliveries>>

\* subscribe and unsubscribe: an error of the provider is only logged.  (Errors
\* are bounded to one symbol.)
AskProvider(add, drop) ==
  \E no \in SUBSET (add \cup drop) :
    /\ no \subseteq refused \/ Cardinality(refused \cup no) <= 1
    /\ listed' = (listed \ (drop \ no)) \cup (add \ no)
    /\ refused' = refused \cup no

RefreshApplies ==
  /\ refresh.pc = "apply"
  /\ AskProvider(DOMAIN refresh.needed \ DOMAIN counts, DOMAIN counts \ DOMAIN refresh.needed)
  /\ counts' = refresh.needed
  /\ refresh' = [refresh EXCEPT !.pc = "idle"]
  /\ UNCHANGED <<cstatus, cevents, redeliveries>>
CountOf(s) == IF s \in DOMAIN counts THEN counts[s] ELSE 0

AddContestSymbols(c) ==
  /\ AskProvider({s \in ContestSymbols(c) : CountOf(s) = 0}, {})
  /\ counts' = [s \in DOMAIN counts \cup ContestSymbols(c) |->
                  IF s \in ContestSymbols(c) THEN CountOf(s) + 1 ELSE counts[s]]

RemoveContestSymbols(c) ==
  LET last == {s \in ContestSymbols(c) : CountOf(s) <= 1} IN
  /\ AskProvider({}, last)
  /\ counts' = [s \in DOMAIN counts \ last |->
                  IF s \in ContestSymbols(c) THEN counts[s] - 1 ELSE counts[s]]

\* A record is handled, and may be handled again after a rebalance or a crash.
OnContestEvent(c) ==
  /\ cevents[c] # <<>>
  /\ \/ cevents' = [cevents EXCEPT ![c] = Tail(@)] /\ UNCHANGED redeliveries
     \/ /\ redeliveries < MaxRedeliveries
        /\ redeliveries' = redeliveries + 1 /\ UNCHANGED cevents
  /\ CASE Head(cevents[c]) \in LiveStatuses -> AddContestSymbols(c)
       [] Head(cevents[c]) = "paused" -> UNCHANGED <<counts, listed, refused>>
       [] OTHER -> RemoveContestSymbols(c)
  /\ refresh' = [refresh EXCEPT !.current = FALSE]
  /\ UNCHANGED cstatus

\* Its query fails and the event is gone; so is one published before the
\* consumer first joined.
EventIgnored(c) ==
  /\ cevents[c] # <<>>
  /\ cevents' = [cevents EXCEPT ![c] = Tail(@)]
  /\ UNCHANGED <<cstatus, counts, listed, refresh, refused, redeliveries>>

ContestSymbolsNext ==
  \/ RefreshReads \/ RefreshApplies \/ ProviderConnects
  \/ \E c \in ContestsOf :
       (\E s \in NextStatus(cstatus[c]) : ContestMoves(c, s)) \/ OnContestEvent(c) \/ EventIgnored(c)

\* Whatever events were lost, doubled or late, a refresh that nothing overtook
\* leaves the symbols streamed that the live contests need, and beside them only
\* the registry's, save those for which a call to the provider failed or was
\* forgotten with its connection (dynamic_symbols.go).
RefreshHeals ==
  refresh.pc = "idle" /\ refresh.current =>
    \A s \in {Shared, Own, Extra} \ refused :
      /\ s \in DOMAIN NeededSymbols => s \in listed
      /\ s \in listed => s \in DOMAIN NeededSymbols \cup RegistrySymbols

\* The three together.
IngestionHolds == SettingsKept /\ SpreadsFollow /\ QuotesUncrossed /\ TicksFindSymbol /\ RefreshHeals
=============================================================================
