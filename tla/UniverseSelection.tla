---------------------------- MODULE UniverseSelection ----------------------------
(***************************************************************************)
(* Which symbols a scan may trade, and on what evidence.  The scanner      *)
(* reads the exchange, or reuses a snapshot it cached, and stamps the rows *)
(* with the time of reading; build_selected_universe judges and ranks      *)
(* them; the selection is stored as immutable evidence before anything is  *)
(* done with it; the selected symbols get the geometry of the last closed  *)
(* candle, through a second cache, and are processed one after the other.  *)
(*                                                                         *)
(* Leases of both caches, the evidence's age and the candle's boundary are *)
(* read off two clocks: the monotonic one, and the wall clock, which may   *)
(* be stepped.  Time is whole seconds.                                     *)
(*                                                                         *)
(* Rows are a plain row of a symbol with at most one thing out of the      *)
(* ordinary; Oddities lists these.  Where a limit of the market cap is     *)
(* configured, the rows are those of a scanner whose rows are bound to     *)
(* market-cap evidence; the exchange's own rows have none, and are the     *)
(* oddity that lacks it.                                                   *)
(*                                                                         *)
(* The score keeps the weights of the code and replaces the logarithm of   *)
(* the volume by the volume: both grow with it and give the largest volume *)
(* full marks.                                                             *)
(***************************************************************************)
EXTENDS Integers, Sequences, FiniteSets, SequencesExt

CONSTANTS
    Listings,      \* number of listed symbols; a symbol is its place in name order
    TopVolume,     \* the largest daily volume
    Excluded,      \* universe_excluded_symbols
    MinVolume, WidestSpread, TopN, MaxActive,   \* UniverseConstraints
    MinCap, MaxCap,     \* limits of the market cap, Gone where none is configured
    EvidenceAge, StaleAge, ClockSkew,   \* universe_max_evidence_age_sec,
                   \* stale_market_data_sec, max_clock_skew_ms
    Frame,         \* seconds of a candle
    MaxMono, MaxScans, MaxSteps, MaxGone   \* bounds

Names == 1 .. Listings
Volume(s) == TopVolume - (s \div 2)    \* an even symbol and the next have the same
Future == 1        \* tolerance of a timestamp ahead of the decision
Gone == -1         \* None
Bad == -2          \* not a finite non-negative number

ASSUME UniverseAssumption ==
    /\ Listings \in Nat /\ Excluded \subseteq Names /\ TopVolume \in Nat /\ TopVolume > Listings
    /\ {MinVolume, WidestSpread, EvidenceAge, StaleAge, ClockSkew, MaxMono,
        MaxScans, MaxSteps, MaxGone} \subseteq Nat
    /\ {TopN, MaxActive, Frame, WidestSpread} \subseteq Nat \ {0}
    /\ {MinCap, MaxCap} \subseteq Nat \cup {Gone} /\ (Gone \in {MinCap, MaxCap} \/ MinCap <= MaxCap)
    /\ MaxActive <= TopN

VARIABLES
    mono, wall, steps,   \* time.monotonic(), time.time(), how often it was stepped
    snapshot,    \* _BINANCE_SNAPSHOT_CACHE
    geometry,    \* _BINANCE_GEOMETRY_CACHE: of the symbols in it, the last entry
    streak,      \* _market_data_failure_streak
    scan,        \* the scan under way
    stored,      \* universe_selection_cycles with their candidates
    latest,      \* _latest_execution_candle_by_market
    used         \* what the last symbol processed was judged on

universeVars == <<mono, wall, steps, snapshot, geometry, streak, scan, stored, latest, used>>
clocks == <<mono, wall, steps>>

-----------------------------------------------------------------------------
(* Rows.                                                                   *)

RequiredMetrics == {"vol", "spread", "vola"}
PlainRow(s) ==
    [sym |-> s, src |-> 0, wellNamed |-> TRUE, quoted |-> TRUE,
     trading |-> TRUE, perpetual |-> TRUE, complete |-> TRUE, timed |-> TRUE,
     vol |-> Volume(s), spread |-> 1, vola |-> 2,
     status |-> [x \in RequiredMetrics |-> "MEASURED"],
     late |-> [x \in RequiredMetrics |-> "untimed"],
     slip |-> Gone, slipStatus |-> "", liq |-> 7, funding |-> 0, fundingStatus |-> "MEASURED",
     cap |-> 5, capAge |-> "fresh"]

\* What may be out of the ordinary about one row.  Only an injected scanner gives
\* the values the exchange scanner never fills in.
Oddities == <<
    <<"wellNamed", FALSE>>, <<"quoted", FALSE>>, <<"trading", FALSE>>, <<"perpetual", FALSE>>,
    <<"complete", FALSE>>, <<"timed", FALSE>>,
    <<"vol", Gone>>, <<"vol", Bad>>, <<"vol", MinVolume - 1>>,
    <<"spread", Gone>>, <<"spread", Bad>>, <<"spread", 0>>, <<"spread", WidestSpread + 1>>,
    <<"vola", Gone>>, <<"vola", 4>>,
    <<"status", "UNAVAILABLE">>, <<"status", "STALE">>, <<"status", "INVALID">>,
    <<"late", "future">>, <<"late", "old">>,
    <<"slip", Bad>>, <<"slip", 1>>, <<"slip", WidestSpread + 1>>, <<"slipStatus", "STALE">>,
    <<"liq", Gone>>, <<"liq", Bad>>, <<"liq", 2>>,
    <<"funding", Gone>>, <<"funding", Bad>>, <<"funding", 2>>, <<"fundingStatus", "STALE">>,
    <<"cap", Gone>>, <<"cap", Bad>>, <<"cap", MinCap - 1>>, <<"cap", MaxCap + 1>>,
    <<"capAge", "none">>, <<"capAge", "future">>, <<"capAge", "old">> >>
MidOnly == Len(Oddities) + 1

\* A row that says something out of the ordinary.
Altered(row, f, v) ==
    CASE f = "status" -> [row EXCEPT !.status.spread = v]
      [] f = "late"   -> [row EXCEPT !.late.vol = v]
      [] f = "slipStatus" -> [row EXCEPT !.slipStatus = v, !.slip = WidestSpread + 1]
      [] f = "fundingStatus" -> [row EXCEPT !.fundingStatus = v, !.funding = 2]
      [] OTHER        -> [row EXCEPT ![f] = v]

\* A row is a symbol and a kind; the kind also stands for the hash of its content.
\* Kind MidOnly is a row of _scan_hyperliquid: no book and no change of price.
Facts(r) ==
    LET row == PlainRow(r.sym)
    IN  IF r.kind = 0 THEN row
        ELSE IF r.kind = MidOnly
        THEN [row EXCEPT !.src = 1, !.vol = 0, !.spread = Gone, !.vola = Gone,
                         !.funding = Gone, !.liq = 5, !.cap = Gone]
        ELSE Altered(row, Oddities[r.kind][1], Oddities[r.kind][2])

\* What the exchanges may answer: a plain row for every symbol, one symbol unlisted
\* or its row odd, or one listed twice.
Row(s, k) == [sym |-> s, kind |-> k]
Plain == [s \in Names |-> Row(s, 0)]
Payloads ==
    {Plain} \cup UNION {{RemoveAt(Plain, s)} \cup
                         {[Plain EXCEPT ![s] = Row(s, k)] : k \in DOMAIN Oddities} \cup
                         {Append(Plain, Row(s, k)) : k \in 0 .. MidOnly} : s \in Names}

-----------------------------------------------------------------------------
(* _candidate_base_decision.  Each check may force a state, settle for one  *)
(* unless worse is known, or only take eligibility away.                    *)

IsNumber(x) == x >= 0
Above(x, limit) == IsNumber(x) /\ x > limit
Below(x, limit) == IsNumber(x) /\ x < limit

Forced(when, why, state) == [when |-> when, why |-> why, how |-> "force", to |-> state]
Mildly(when, why, state) == [when |-> when, why |-> why, how |-> "mild", to |-> state]
Limited(when, why) == [when |-> when, why |-> why, how |-> "limit", to |-> "INELIGIBLE"]

\* Mutant: a metric's label and time stamp are not looked at.
MetricValueChecks(row, x) ==
    <<Mildly(row[x] = Gone, <<x, "UNAVAILABLE">>, "UNAVAILABLE"),
      Forced(row[x] = Bad, <<x, "INVALID">>, "INVALID")>>

\* A metric's value, its label, and its own time stamp where it has one.
MetricChecks(row, x) ==
    <<Mildly(row[x] = Gone, <<x, "UNAVAILABLE">>, "UNAVAILABLE"),
      Forced(row[x] = Bad, <<x, "INVALID">>, "INVALID"),
      Mildly(IsNumber(row[x]) /\ row.status[x] = "UNAVAILABLE", <<x, "UNAVAILABLE_STATUS">>, "UNAVAILABLE"),
      Forced(IsNumber(row[x]) /\ row.status[x] = "STALE", <<x, "STALE">>, "STALE"),
      Forced(IsNumber(row[x]) /\ row.status[x] = "INVALID", <<x, "INVALID_STATUS">>, "INVALID"),
      Forced(row.late[x] = "future", <<x, "INVALID_TIMESTAMP">>, "INVALID"),
      Forced(row.late[x] = "old", <<x, "STALE">>, "STALE")>>

\* What is known of the market cap, and whether it is within the time of evidence.
CapWanted == MinCap # Gone \/ MaxCap # Gone
CapUnknown(row) == row.cap = Gone \/ row.capAge = "none"
CapStated(row) == ~CapUnknown(row) /\ row.cap # Bad
CapCurrent(row) == CapStated(row) /\ row.capAge = "fresh"
CapTooLow(row) == MinCap # Gone /\ Below(row.cap, MinCap)
CapTooHigh(row) == MaxCap # Gone /\ Above(row.cap, MaxCap)

CapEvidenceChecks(row) ==
    <<Mildly(CapUnknown(row), <<"cap", "UNAVAILABLE">>, "UNAVAILABLE"),
      Forced(~CapUnknown(row) /\ row.cap = Bad, <<"cap", "INVALID">>, "INVALID"),
      Forced(CapStated(row) /\ row.capAge = "future", <<"cap", "INVALID_FUTURE_TIMESTAMP">>, "INVALID"),
      Forced(CapStated(row) /\ row.capAge = "old", <<"cap", "STALE">>, "STALE")>>
CapLimitChecks(row) ==
    <<Limited(CapCurrent(row) /\ CapTooLow(row), "BELOW_MIN_MARKET_CAP"),
      Limited(CapCurrent(row) /\ CapTooHigh(row), "ABOVE_MAX_MARKET_CAP")>>

\* Mutants: the market cap is asked for and its limits are not applied; a cap of
\* just the lowest allowed is refused.
CapChecksUnlimited(row) == IF CapWanted THEN CapEvidenceChecks(row) ELSE << >>
CapChecksAtMinimum(row) ==
    IF ~CapWanted THEN << >> ELSE
    Append(CapEvidenceChecks(row), Limited(CapCurrent(row) /\ row.cap <= MinCap, "BELOW_MIN_MARKET_CAP"))

\* Asked for only where one of its limits is configured.
CapChecks(row) ==
    IF CapWanted THEN CapEvidenceChecks(row) \o CapLimitChecks(row) ELSE << >>

IdentityChecks(row, age) ==
    <<Forced(row.sym \in Excluded, "EXPLICITLY_EXCLUDED", "INELIGIBLE"),
      Forced(~row.quoted, "QUOTE_ASSET_MISMATCH", "INELIGIBLE"),
      Forced(~row.trading, "INSTRUMENT_NOT_TRADING", "INELIGIBLE"),
      Forced(~row.perpetual, "INELIGIBLE_INSTRUMENT_TYPE", "INELIGIBLE"),
      Forced(~row.complete, "INCOMPLETE_CANDIDATE_SNAPSHOT", "UNAVAILABLE"),
      Forced(~row.timed, "MARKET_EVIDENCE_UNAVAILABLE", "UNAVAILABLE"),
      Forced(row.timed /\ age < -Future, "INVALID_FUTURE_TIMESTAMP", "INVALID"),
      Forced(row.timed /\ age > EvidenceAge, "MARKET_EVIDENCE_STALE", "STALE")>>

LimitChecks(row) ==
    <<Limited(Below(row.vol, MinVolume), "BELOW_MIN_VOLUME_24H"),
      Limited(Above(row.spread, WidestSpread), "UNSAFE_SPREAD"),
      Forced(row.slipStatus = "" /\ row.slip = Bad, "SLIPPAGE_INVALID", "INVALID"),
      Limited(row.slipStatus = "" /\ Above(row.slip, WidestSpread), "UNSAFE_EXPECTED_SLIPPAGE"),
      Forced(row.liq = Bad \/ Above(row.liq, 10), "LIQUIDITY_SCORE_INVALID", "INVALID"),
      Limited(Below(row.liq, 3), "LOW_LIQUIDITY"),
      Forced(row.fundingStatus = "MEASURED" /\ row.funding = Bad, "FUNDING_INVALID", "INVALID"),
      Limited(row.fundingStatus = "MEASURED" /\ Above(row.funding, 1), "FUNDING_ANOMALY")>>

Checks(row, age) ==
    IdentityChecks(row, age) \o MetricChecks(row, "vol") \o MetricChecks(row, "spread")
    \o MetricChecks(row, "vola") \o LimitChecks(row) \o CapChecks(row)

Worsened(state, check) ==
    CASE check.how = "force" -> check.to
      [] check.how = "mild"  -> IF state \in {"INVALID", "STALE"} THEN state ELSE check.to
      [] OTHER               -> IF state = "ELIGIBLE" THEN check.to ELSE state

Judged(r, age) ==
    LET row == Facts(r)
        checks == Checks(row, age)
        failed == SelectSeq(checks, LAMBDA c : c.when)
        after[n \in 0 .. Len(checks)] ==
          IF n = 0 THEN "ELIGIBLE"
          ELSE IF checks[n].when THEN Worsened(after[n - 1], checks[n]) ELSE after[n - 1]
    IN  IF ~row.wellNamed
        THEN [row |-> r, state |-> "INVALID", why |-> <<"MALFORMED_SYMBOL">>]
        ELSE [row |-> r, state |-> after[Len(checks)],
              why |-> [i \in DOMAIN failed |-> failed[i].why]]

-----------------------------------------------------------------------------
(* build_selected_universe, over rows in the order they arrived.            *)

EligibleAt(judged) == {i \in DOMAIN judged : judged[i].state = "ELIGIBLE"}
\* The key duplicates of a symbol are compared by; it never looks at the index.
Better(r, q) ==
    LET a == Facts(r)
        b == Facts(q)
    IN  \/ a.vol > b.vol
        \/ a.vol = b.vol /\ a.spread < b.spread
        \/ a.vol = b.vol /\ a.spread = b.spread /\ a.src < b.src
        \/ a.vol = b.vol /\ a.spread = b.spread /\ a.src = b.src /\ r.kind < q.kind
\* Mutant: of two rows of a symbol, the one that came first stays.
ArrivedFirst(judged, i, j) == i < j

\* Of two identical rows min() keeps the first.
Beats(judged, i, j) ==
    \/ Better(judged[i].row, judged[j].row)
    \/ judged[i].row = judged[j].row /\ i < j

Demote(d, why) == [d EXCEPT !.state = "INELIGIBLE", !.why = Append(@, why)]

Deduplicated(judged) ==
    LET rivals(i) == {j \in EligibleAt(judged) \ {i} : judged[j].row.sym = judged[i].row.sym}
    IN  [i \in DOMAIN judged |->
            IF i \in EligibleAt(judged) /\ \E j \in rivals(i) : Beats(judged, j, i)
            THEN Demote(judged[i], "DUPLICATE_SYMBOL_LOWER_QUALITY") ELSE judged[i]]

TopByVolume(judged) ==
    LET in  == EligibleAt(judged)
        vol == [i \in in |-> Facts(judged[i].row).vol]
        ahead(i) == {j \in in : \/ vol[j] > vol[i]
                                \/ vol[j] = vol[i] /\ judged[j].row.sym < judged[i].row.sym}
    IN  [i \in DOMAIN judged |->
        IF i \in in /\ Cardinality(ahead(i)) >= TopN
        THEN Demote(judged[i], "OUTSIDE_TOP_N_VOLUME") ELSE judged[i]]

Largest(S, default) == IF S = {} THEN default ELSE CHOOSE x \in S : \A y \in S : x >= y
Score(row, maxVol, maxVola) ==
    LET volume == IF maxVol = 0 THEN 40 ELSE (40 * row.vol) \div maxVol
        tight  == 30 - (30 * row.spread) \div WidestSpread
        liquid == IF row.liq = Gone THEN 0 ELSE (15 * row.liq) \div 10
        vola   == IF maxVola = 0 THEN 0 ELSE (15 * row.vola) \div maxVola
        slip   == IF row.slip = Gone \/ row.slipStatus # "" THEN 15
                  ELSE (20 * row.slip) \div WidestSpread
        unsure == (IF row.liq = Gone THEN 5 ELSE 0)
                  + (IF row.funding = Gone \/ row.fundingStatus # "MEASURED" THEN 3 ELSE 0)
        trend  == IF row.vola >= 2 THEN 10 ELSE 5 * row.vola
        regime == trend - 5     \* chop_score is what trend_strength lacks of 1
    IN  Largest({0, volume + tight + liquid + vola + regime - slip - unsure}, 0)

Ranked(judged) ==
    LET in     == EligibleAt(judged)
        facts  == [i \in in |-> Facts(judged[i].row)]
        maxVol == Largest({facts[i].vol : i \in in}, 1)
        maxVola == Largest({facts[i].vola : i \in in}, 1)
        score  == [i \in in |-> Score(facts[i], maxVol, maxVola)]
        ahead(i) == {j \in in : \/ score[j] > score[i]
                                \/ score[j] = score[i] /\ judged[j].row.sym < judged[i].row.sym}
        rank(i) == 1 + Cardinality(ahead(i))
    IN  [i \in DOMAIN judged |->
            [d |-> IF i \in in /\ rank(i) > MaxActive
                   THEN [judged[i] EXCEPT !.why = Append(@, "RANKED_BELOW_MAX_ACTIVE")]
                   ELSE judged[i],
             rank |-> IF i \in in THEN rank(i) ELSE 0,
             selected |-> i \in in /\ rank(i) <= MaxActive]]

\* The members of a finite set in an order, a set of pairs.
InOrder(S, order) ==
    [n \in 1 .. Cardinality(S) |-> CHOOSE i \in S : Cardinality({j \in S : <<j, i>> \in order}) = n - 1]
Ascending(S) == InOrder(S, {p \in S \X S : p[1] < p[2]})

\* The canonical order of the decisions: ranked ones first, then by symbol, state
\* and content; decisions that agree in all this stay as they came.
States == <<"ELIGIBLE", "INELIGIBLE", "INVALID", "STALE", "UNAVAILABLE">>
Alphabetical(state) == CHOOSE n \in DOMAIN States : States[n] = state
SortKey(x) ==
    <<IF x.rank = 0 THEN 1 ELSE 0, x.rank, x.d.row.sym, Alphabetical(x.d.state),
      Facts(x.d.row).src, x.d.row.kind>>
Lower(k, l) == \E n \in 1 .. 6 : k[n] < l[n] /\ \A m \in 1 .. n - 1 : k[m] = l[m]
Precedes(decisions, i, j) ==
    LET k == SortKey(decisions[i])
        l == SortKey(decisions[j])
    IN  Lower(k, l) \/ (k = l /\ i < j)
InCanonicalOrder(decisions) ==
    LET all == DOMAIN decisions
        places == InOrder(all, {p \in all \X all : Precedes(decisions, p[1], p[2])})
    IN  [n \in all |-> decisions[places[n]]]

build_selected_universe(rows, age) ==
    InCanonicalOrder(Ranked(TopByVolume(Deduplicated([i \in DOMAIN rows |-> Judged(rows[i], age)]))))

SelectedOf(decisions) == SelectSeq(decisions, LAMBDA x : x.selected)

-----------------------------------------------------------------------------
(* The scanner and its two caches.                                         *)

\* _binance_snapshot_ttl_sec: half the staleness limit, and ten seconds at most.
WithinTtl(age) == age >= 0 /\ 2 * age < StaleAge /\ age < 10
Bucket(t) == (t \div Frame) - 1     \* _latest_closed_candle_bucket

\* No scan under way, after n of them; turn is the place of the symbol processed next.
AtRest(n) == [pc |-> "idle", n |-> n, rows |-> <<>>, at |-> 0, read |-> 0, steps |-> 0,
              todo |-> <<>>, turn |-> 1]
Quiet == AtRest(scan.n)
Uncached == [has |-> FALSE, rows |-> <<>>, at |-> 0, read |-> 0, steps |-> 0]

UniverseInit ==
    /\ mono = Frame /\ wall = Frame /\ steps = 0
    /\ snapshot = Uncached
    /\ geometry = << >>
    /\ streak = 0
    /\ scan = AtRest(0)
    /\ stored = {}
    /\ latest = [s \in Names |-> -2]
    /\ used = [age |-> 0, stepped |-> FALSE]

\* Bound: the clocks stand still once the exchange has answered out of the ordinary.
Ordinary == snapshot.rows \in {<<>>, Plain}

Elapse ==
    /\ mono < MaxMono /\ Ordinary
    /\ mono' = mono + 1 /\ wall' = wall + 1
    /\ UNCHANGED <<steps, snapshot, geometry, streak, scan, stored, latest, used>>

\* The wall clock is set back.  (Set forward it only makes evidence look older.)
StepBack ==
    /\ steps < MaxSteps /\ wall >= 2 /\ Ordinary
    /\ wall' = wall - 2 /\ steps' = steps + 1
    /\ UNCHANGED <<mono, snapshot, geometry, streak, scan, stored, latest, used>>

\* What the scan reads off a snapshot, and when the snapshot was taken.
Rows(rows, at, read, st) == [Quiet EXCEPT !.pc = "select", !.rows = rows, !.at = at,
                                          !.read = read, !.steps = st]

\* _load_cached_binance_snapshot: the lease is counted on the monotonic clock.
CachedSnapshotIsLive == snapshot.has /\ WithinTtl(mono - snapshot.read)

\* A cached row keeps the time it was read at.
Restamped == Rows(snapshot.rows, wall, snapshot.read, steps)
FromCache == Rows(snapshot.rows, snapshot.at, snapshot.read, snapshot.steps)

ScanFromCache ==
    /\ scan.pc = "idle" /\ scan.n < MaxScans
    /\ CachedSnapshotIsLive
    /\ scan' = [FromCache EXCEPT !.n = @ + 1]
    /\ streak' = 0
    /\ UNCHANGED <<clocks, snapshot, geometry, stored, latest, used>>

\* The endpoints are read in turn; any that fails or makes no sense empties the scan.
ScanUnavailable ==
    /\ scan.pc = "idle" /\ scan.n < MaxScans
    /\ ~CachedSnapshotIsLive
    /\ snapshot' = Uncached
    /\ scan' = [Rows(<<>>, wall, mono, steps) EXCEPT !.n = @ + 1]
    /\ streak' = IF streak = 2 THEN 2 ELSE streak + 1
    /\ UNCHANGED <<clocks, geometry, stored, latest, used>>

\* All four answered: the rows that can be quoted, stamped when the last had come.
ScanFetched ==
    /\ scan.pc = "idle" /\ scan.n < MaxScans
    /\ ~CachedSnapshotIsLive
    /\ \E rows \in IF scan.n = 0 /\ mono = Frame THEN Payloads ELSE {Plain} :   \* bound
          /\ snapshot' = [has |-> StaleAge > 0, rows |-> rows, at |-> wall, read |-> mono,
                          steps |-> steps]
          /\ scan' = [Rows(rows, wall, mono, steps) EXCEPT !.n = @ + 1]
    /\ streak' = 0
    /\ UNCHANGED <<clocks, geometry, stored, latest, used>>

-----------------------------------------------------------------------------
(* The selection is stored before it is used.                               *)

\* The orders in which rows may arrive.  A campaign keeps the first row of each symbol.
FirstOfEach(rows) ==
    LET first == {i \in DOMAIN rows : \A j \in 1 .. i - 1 : rows[j].sym # rows[i].sym}
        kept  == Ascending(first)
    IN  [i \in DOMAIN kept |-> rows[kept[i]]]
Arrivals(rows) == {FirstOfEach(rows), rows, Reverse(rows)}

\* The cycle's identity is a hash of everything it decided and the time.
CycleId(decisions) == <<wall, scan.at, decisions>>
Stored(id) == \E c \in stored : c.id = id
Intact(id) == [id |-> id, whole |-> TRUE] \in stored

\* persist_universe_selection: a new cycle is written with all its candidates, a
\* known one is read back and compared, and never filled up.
persist_universe_selection(id) ==
    \/ /\ ~Stored(id)
       /\ stored' = stored \cup {[id |-> id, whole |-> TRUE]}
    \/ /\ Intact(id)
       /\ UNCHANGED stored

Select ==
    /\ scan.pc = "select"
    /\ \E rows \in Arrivals(scan.rows) :
          LET decisions == build_selected_universe(rows, wall - scan.at)
          IN  /\ persist_universe_selection(CycleId(decisions))
              /\ scan' = [scan EXCEPT !.pc = IF SelectedOf(decisions) = <<>> THEN "idle" ELSE "enrich",
                                      !.todo = SelectedOf(decisions), !.rows = <<>>]
    /\ UNCHANGED <<clocks, snapshot, geometry, streak, latest, used>>

\* The database stays locked: the scan ends, and recovery is called for
\* (RuntimeGate has what follows).
SelectionNotStored ==
    /\ scan.pc = "select"
    /\ scan' = Quiet
    /\ UNCHANGED <<clocks, snapshot, geometry, streak, stored, latest, used>>

\* The stored cycle is not what was written: the scan's exception ends the runtime.
SelectionConflicts ==
    /\ scan.pc = "select" /\ \E c \in stored : ~c.whole
    /\ \E rows \in Arrivals(scan.rows) :
          LET id == CycleId(build_selected_universe(rows, wall - scan.at))
          IN  Stored(id) /\ ~Intact(id)
    /\ scan' = [Quiet EXCEPT !.n = MaxScans]
    /\ UNCHANGED <<clocks, snapshot, geometry, streak, stored, latest, used>>

\* Outside this program: rows of a stored cycle are lost.
LoseCandidates ==
    /\ scan.pc = "idle" /\ Cardinality({c \in stored : ~c.whole}) < MaxGone
    /\ \E c \in stored : c.whole /\ stored' = (stored \ {c}) \cup {[c EXCEPT !.whole = FALSE]}
    /\ UNCHANGED <<clocks, snapshot, geometry, streak, scan, latest, used>>

-----------------------------------------------------------------------------
(* Enrichment and the processing of the selected symbols.                   *)

\* _cached_binance_kline_geometry, for every selected symbol at once.  The exchange
\* gives its last closed candle; a failed or malformed answer is not kept.
CachedGeometry(s) == s \in DOMAIN geometry /\ geometry[s].bucket = Bucket(wall)

Enrich ==
    /\ scan.pc = "enrich"
    /\ LET sym(i) == scan.todo[i].d.row.sym
           asked == {sym(i) : i \in DOMAIN scan.todo} \ {s \in DOMAIN geometry : CachedGeometry(s)}
       IN  \E answered \in SUBSET asked :
             LET now == [bucket |-> Bucket(wall), candle |-> Bucket(mono)]
                 candle(s) == IF s \in answered THEN now.candle
                              ELSE IF CachedGeometry(s) THEN geometry[s].candle ELSE -2
             IN  /\ geometry' = [s \in answered \cup DOMAIN geometry |->
                                  IF s \in answered THEN now ELSE geometry[s]]
                 /\ scan' = [scan EXCEPT !.pc = "process",
                             !.todo = [i \in DOMAIN scan.todo |->
                                         [sym |-> sym(i), candle |-> candle(sym(i)),
                                          due |-> Bucket(mono)]]]
    /\ UNCHANGED <<clocks, snapshot, streak, stored, latest, used>>

\* _evaluate_market_timestamp, when the symbol's turn comes.
TimeIsRight == scan.at - wall <= ClockSkew /\ wall - scan.at <= StaleAge

\* One symbol: a candle already processed is skipped, one without geometry has no
\* candle and is refused later; the candle counts as processed either way.
Process ==
    /\ scan.pc = "process"
    /\ LET next == scan.todo[scan.turn]
           fresh == next.candle = -2 \/ next.candle > latest[next.sym]
       IN  /\ scan' = IF scan.turn < Len(scan.todo) THEN [scan EXCEPT !.turn = @ + 1]
                       ELSE [scan EXCEPT !.pc = "idle", !.todo = << >>, !.turn = 1]
           /\ latest' = IF fresh /\ next.candle # -2
                        THEN [latest EXCEPT ![next.sym] = next.candle] ELSE latest
           /\ used' = IF fresh /\ TimeIsRight /\ next.candle # -2
                      THEN [age |-> mono - scan.read, stepped |-> steps # scan.steps]
                      ELSE used
    /\ UNCHANGED <<clocks, snapshot, geometry, streak, stored>>

UniverseNext ==
    \/ Elapse
    \/ StepBack
    \/ ScanFromCache \/ ScanUnavailable \/ ScanFetched
    \/ Select \/ SelectionNotStored \/ SelectionConflicts \/ LoseCandidates
    \/ Enrich \/ Process

UniverseSpec == UniverseInit /\ [][UniverseNext]_universeVars

-----------------------------------------------------------------------------
(* Properties.                                                              *)

\* What a symbol is judged on is fresh.  Unless the wall clock was stepped after
\* the exchange was read, the quotes are no older than stale_market_data_sec in
\* real time, however often the snapshot was reused; and while the clock has
\* always agreed with the exchange's, the candle is the newest one closed when
\* the geometry was looked up (_load_cached_binance_snapshot,
\* _cached_binance_kline_geometry, _evaluate_market_timestamp).
DecisionIsFresh ==
    /\ ~used.stepped => used.age <= StaleAge
    /\ steps = 0 /\ scan.pc = "process" =>
           \A i \in DOMAIN scan.todo : scan.todo[i].candle \in {-2} \cup {scan.todo[i].due}

DecisionsOf(c) == c.id[3]
RowsOf(c) == {[row |-> x.d.row, times |-> Cardinality({i \in DOMAIN DecisionsOf(c) :
                                                     DecisionsOf(c)[i].d.row = x.d.row})] :
                 x \in ToSet(DecisionsOf(c))}

Reproducible ==
    \A c, d \in stored :
        c.id # d.id /\ c.id[1] = d.id[1] /\ c.id[2] = d.id[2] => RowsOf(c) # RowsOf(d)

Tradable(row) ==
    /\ row.sym \notin Excluded
    /\ row.wellNamed /\ row.quoted /\ row.trading /\ row.perpetual /\ row.complete /\ row.timed
    /\ \A x \in RequiredMetrics :
          IsNumber(row[x]) /\ row.status[x] = "MEASURED" /\ row.late[x] = "untimed"
    /\ row.vol >= MinVolume /\ row.spread <= WidestSpread
    /\ row.slipStatus = "" => row.slip = Gone \/ (row.slip # Bad /\ row.slip <= WidestSpread)
    /\ row.liq = Gone \/ (row.liq # Bad /\ row.liq >= 3 /\ row.liq <= 10)
    /\ row.fundingStatus = "MEASURED" => row.funding = Gone \/ (row.funding # Bad /\ row.funding <= 1)
    /\ CapWanted => /\ row.cap \notin {Gone, Bad} /\ row.capAge = "fresh"
                    /\ MinCap # Gone => row.cap >= MinCap
                    /\ MaxCap # Gone => row.cap <= MaxCap

\* The evidence of a cycle is neither of the future nor too old for its decision.
Current(c) == -Future <= c.id[1] - c.id[2] /\ c.id[1] - c.id[2] <= EvidenceAge

\* Not selected, but for a place taken by another: by another row of the symbol,
\* or because all places are taken.
Crowded(x, in) ==
    \/ Cardinality(in) = MaxActive
    \/ \E y \in in : y.d.row.sym = x.d.row.sym

\* Every symbol selected is one that may be traded, on measured and current
\* evidence within every limit, those of the market cap included, once, and no
\* more of them than allowed; and a row that says all this, judged in time, is
\* left out only for a place taken by another
\* (_candidate_base_decision, build_selected_universe).  And a selection can be
\* reproduced: the same rows judged at the same time give the same cycle, in
\* whatever order they arrived and however often they were scanned (the cycle id
\* is a hash of all that was decided).
SelectionIsSound ==
  /\ Reproducible
  /\ \A c \in stored :
        LET all == ToSet(DecisionsOf(c))
            in  == {x \in all : x.selected}
        IN  /\ \A x \in in : Tradable(Facts(x.d.row))
            /\ \A x, y \in in : x.d.row.sym = y.d.row.sym => x = y
            /\ Cardinality(in) <= MaxActive
            /\ in # {} => Current(c)
            /\ \A x \in all \ in : Tradable(Facts(x.d.row)) /\ Current(c) => Crowded(x, in)
=============================================================================
