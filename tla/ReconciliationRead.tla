--------------------------- MODULE ReconciliationRead ---------------------------
(***************************************************************************)
(* One reader of the exchange account                                      *)
(* (BinanceReadonlyReconciliationProvider.snapshot) and what the           *)
(* reconciliation engine finds in the result.  A snapshot is put together  *)
(* from several requests: the positions, the open orders, the trades of    *)
(* every symbol that matters, and the exchange's list of symbols when a    *)
(* name looks odd.  Each request is repeated after a transport failure,    *)
(* the clock is corrected once when the exchange refuses a timestamp, and  *)
(* a rate limit ends the snapshot and silences the reader for the time the *)
(* exchange asks for.  The account changes between any two requests.       *)
(*                                                                         *)
(* A request and its answer are one step.  ReadonlySnapshotReader lets no  *)
(* second read begin before the first has returned (SnapshotReader).       *)
(* Quantities are told apart as far as the code does: none, at most        *)
(* position_epsilon, and more.  The signing of requests and the contents   *)
(* of the trades are left out; every order has an id.                      *)
(***************************************************************************)
EXTENDS Naturals, FiniteSets, FiniteSetsExt

CONSTANTS
    Pairs,            \* symbols of the account
    OddPairs,         \* those whose name is not of the usual form
    Listed,           \* the odd ones that exchangeInfo lists
    Tracked,          \* tracked_symbols
    MaxFillPairs,     \* max_fill_symbols
    TransportRetries, \* transport_retries
    MaxWait,          \* bound: the longest wait a rate limit asks for
    MaxReads,         \* bound: snapshots
    MaxMoves          \* bound: changes of the account

ASSUME ReadAssumption ==
    /\ OddPairs \subseteq Pairs /\ Listed \subseteq OddPairs /\ Tracked \subseteq Pairs
    /\ \A n \in {MaxFillPairs, TransportRetries, MaxWait, MaxReads, MaxMoves} : n \in Nat

VARIABLES
    account,   \* of each symbol, whether it has an open order, and its position
    demanded,  \* how long the exchange still wants no request
    cooldown,  \* _rate_limit_cooldown_until_monotonic, from now on
    read,      \* the snapshot in progress
    snapshot,  \* the last snapshot returned
    standing,  \* the orders and positions that have stood since that read began
    moves, reads

readVars == <<account, demanded, cooldown, read, snapshot, standing, moves, reads>>

Holdings == [order : BOOLEAN, size : {"none", "dust", "some"}]
Exposure == {<<"order", p>> : p \in {q \in Pairs : account[q].order}} \cup
            {<<"position", p>> : p \in {q \in Pairs : account[q].size # "none"}}

NoRead == [pc |-> "idle", time |-> "none", retries |-> 0, stamped |-> FALSE, informed |-> FALSE,
           size |-> [p \in Pairs |-> "none"], orders |-> {}, covered |-> {}]
Incomplete(class) == [status |-> "INCOMPLETE", class |-> class, size |-> NoRead.size, orders |-> {}, covered |-> {}]

ReadInit ==
    /\ account \in [Pairs -> Holdings]
    /\ demanded = 0 /\ cooldown = 0
    /\ read = NoRead
    /\ snapshot = Incomplete("none")
    /\ standing = {}
    /\ moves = 0 /\ reads = 0
-----------------------------------------------------------------------------
\* snapshot, up to its first request: in a cooldown none is sent.
BeginRead ==
    /\ read.pc = "idle" /\ reads < MaxReads
    /\ reads' = reads + 1
    /\ standing' = Exposure
    /\ IF cooldown > 0
       THEN /\ snapshot' = Incomplete("TRANSIENT")
            /\ UNCHANGED read
       ELSE /\ read' = [NoRead EXCEPT !.pc = "positionRisk"]
            /\ snapshot' = Incomplete("none")
    /\ UNCHANGED <<account, demanded, cooldown, moves>>

Asking == read.pc # "idle"
AsksInfo == read.pc \in {"exchangeInfo", "exchangeInfoForOrders"}
AsksTime == read.time # "none"

\* The snapshot is given up, with the class classify_provider_exception gives
\* the exception.
AbandonRead(class) == read' = NoRead /\ snapshot' = Incomplete(class)

\* The next endpoint is asked, with fresh retries.
Ask(r, pc) == read' = [r EXCEPT !.pc = pc, !.retries = 0, !.stamped = FALSE] /\ UNCHANGED snapshot

Valid(r, p) == p \notin OddPairs \/ (r.informed /\ p \in Listed)
Held(r) == {p \in Pairs : r.size[p] # "none"}
Active(r) == {p \in Pairs : r.size[p] = "some"}

\* Mutant: the trades of positions without an order are not asked for.
SymbolsForFillsByOrder(r) == Tracked \cup r.orders

\* _symbols_for_fills
SymbolsForFills(r) == Tracked \cup r.orders \cup Active(r)

\* The trades of the symbols one after the other, then the end.
NextTrades(r) ==
    IF SymbolsForFills(r) \subseteq r.covered
    THEN /\ read' = NoRead
         /\ snapshot' = [status |-> "COMPLETE", class |-> "none", size |-> r.size, orders |-> r.orders, covered |-> r.covered]
    ELSE Ask(r, "userTrades")

\* _normalize_positions: what has a name nobody knows ends the snapshot, unless
\* it is exactly zero.
NormalizePositions(r) ==
    IF \A p \in Held(r) : Valid(r, p) THEN Ask(r, "openOrders") ELSE AbandonRead("UNKNOWN")

\* _normalize_orders, and the scope of the trades.
NormalizeOrders(r) ==
    IF /\ \A p \in r.orders \cup Tracked : Valid(r, p)
       /\ Cardinality(SymbolsForFills(r)) <= MaxFillPairs
    THEN NextTrades(r)
    ELSE AbandonRead("PERMANENT")

\* A request is answered: what each endpoint leads to.  A complete snapshot
\* clears the cooldown.
TakePositions ==
    /\ read.pc = "positionRisk"
    /\ LET r == [read EXCEPT !.size = [p \in Pairs |-> account[p].size]]
       IN  IF (Held(r) \cup Tracked) \cap OddPairs # {} THEN Ask(r, "exchangeInfo") ELSE NormalizePositions(r)

TakeInfo ==
    /\ AsksInfo
    /\ LET r == [read EXCEPT !.informed = TRUE]
       IN  IF read.pc = "exchangeInfo" THEN NormalizePositions(r) ELSE NormalizeOrders(r)

TakeOrders ==
    /\ read.pc = "openOrders"
    /\ LET r == [read EXCEPT !.orders = {p \in Pairs : account[p].order}]
       IN  IF ~r.informed /\ r.orders \cap OddPairs # {} THEN Ask(r, "exchangeInfoForOrders") ELSE NormalizeOrders(r)

TakeTrades ==
    /\ read.pc = "userTrades"
    /\ LET p == CHOOSE q \in SymbolsForFills(read) \ read.covered : TRUE
       IN  NextTrades([read EXCEPT !.covered = @ \cup {p}])

Answered ==
    /\ Asking /\ ~AsksTime
    /\ TakePositions \/ TakeInfo \/ TakeOrders \/ TakeTrades
    /\ cooldown' = (IF snapshot'.status = "COMPLETE" THEN 0 ELSE cooldown)
    /\ UNCHANGED <<account, demanded, standing, moves, reads>>

\* The payload is not what it should be: positions with a malformed amount
\* raise ReconciliationExposureError, which no class is known for.
Malformed ==
    /\ Asking
    /\ AbandonRead("PERMANENT") \/ (read.pc = "positionRisk" /\ ~AsksTime /\ AbandonRead("UNKNOWN"))
    /\ UNCHANGED <<account, demanded, cooldown, standing, moves, reads>>

\* An HTTP status below 500, or an error code in the body.
Refused ==
    /\ Asking
    /\ AbandonRead("PERMANENT")
    /\ UNCHANGED <<account, demanded, cooldown, standing, moves, reads>>

\* The timestamp was refused (-1021), in a body or with an HTTP error: the
\* server's time is asked for, once for each request.
ClockRefused(how) ==
    /\ Asking /\ ~AsksInfo
    /\ IF (~AsksTime /\ ~read.stamped) \/ (read.time = "body" /\ how = "http")
       THEN read' = [read EXCEPT !.time = how] /\ UNCHANGED snapshot
       ELSE AbandonRead("PERMANENT")
    /\ UNCHANGED <<account, demanded, cooldown, standing, moves, reads>>

\* _refresh_server_time
TimeRefreshed ==
    /\ AsksTime
    /\ read' = [read EXCEPT !.time = "none", !.stamped = TRUE]
    /\ UNCHANGED <<account, demanded, cooldown, snapshot, standing, moves, reads>>

\* Mutant: a rate limit is one more transient failure.
LimitedRetried(wait) ==
    /\ Asking
    /\ demanded' = Max({demanded, wait}) /\ cooldown' = Max({cooldown, wait})
    /\ IF ~AsksInfo /\ read.retries < TransportRetries
       THEN read' = [read EXCEPT !.retries = @ + 1, !.time = "none"] /\ UNCHANGED snapshot
       ELSE AbandonRead("TRANSIENT")
    /\ UNCHANGED <<account, standing, moves, reads>>

\* 429, or 418 with -1003: _register_rate_limit_cooldown, and no retry.  A wait
\* of 0: the answer does not say how long.
Limited(wait) ==
    /\ Asking
    /\ demanded' = Max({demanded, wait}) /\ cooldown' = Max({cooldown, wait})
    /\ AbandonRead("TRANSIENT")
    /\ UNCHANGED <<account, standing, moves, reads>>

\* A status of 500 or more, or the transport fails.  The signed request is sent
\* again, also when the request for the time failed that a refused body led to;
\* the other requests are made once.
Failed(class) ==
    /\ Asking
    /\ IF ~AsksInfo /\ read.time # "http" /\ read.retries < TransportRetries
       THEN read' = [read EXCEPT !.retries = @ + 1, !.time = "none"] /\ UNCHANGED snapshot
       ELSE AbandonRead(class)
    /\ UNCHANGED <<account, demanded, cooldown, standing, moves, reads>>
-----------------------------------------------------------------------------
\* An order is placed, filled or cancelled, a position opened or closed.
AccountMoves(p) ==
    /\ moves < MaxMoves
    /\ moves' = moves + 1
    /\ \E h \in Holdings \ {account[p]} : account' = [account EXCEPT ![p] = h]
    /\ standing' = IF Asking THEN standing \cap Exposure' ELSE standing
    /\ UNCHANGED <<demanded, cooldown, read, snapshot, reads>>

WaitPasses ==
    /\ demanded > 0 \/ cooldown > 0
    /\ demanded' = (IF demanded > 0 THEN demanded - 1 ELSE 0)
    /\ cooldown' = (IF cooldown > 0 THEN cooldown - 1 ELSE 0)
    /\ UNCHANGED <<account, read, snapshot, standing, moves, reads>>

ReadNext ==
    \/ BeginRead \/ Answered \/ Malformed \/ Refused \/ TimeRefreshed \/ WaitPasses
    \/ \E how \in {"body", "http"} : ClockRefused(how)
    \/ \E wait \in 0 .. MaxWait : Limited(wait)
    \/ \E class \in {"TRANSIENT", "PERMANENT", "UNKNOWN"} : Failed(class)
    \/ \E p \in Pairs : AccountMoves(p)

ReadSpec == ReadInit /\ [][ReadNext]_readVars
-----------------------------------------------------------------------------
\* ReconciliationEngine.reconcile of a PAPER runtime, which intends no order.
\* STALE_ORDER and LIFECYCLE_DIVERGENCE ask for states that neither this
\* provider (NEW, PARTIALLY_FILLED, PENDING_NEW) nor this runtime has.
Findings ==
    {<<"order", p>> : p \in snapshot.orders} \cup
    {<<"position", p>> : p \in {q \in Pairs : snapshot.size[q] # "none"}}
-----------------------------------------------------------------------------
(* Properties                                                              *)

\* A complete snapshot misses nothing that stood while it was taken: every
\* order and every position, however small and oddly named, that was there from
\* the first request to the last becomes a finding that shuts the gate, and the
\* trades of each order and real position were read (snapshot, reconcile).
StandingExposureIsFound ==
    snapshot.status = "COMPLETE" =>
        /\ standing \subseteq Findings
        /\ snapshot.orders \cup {p \in Pairs : snapshot.size[p] = "some"} \cup Tracked \subseteq snapshot.covered

\* While the exchange wants no request, none is sent: not by a retry, not for
\* the server's time, not by the next snapshot (_register_rate_limit_cooldown,
\* snapshot).
SilentWhileLimited ==
    [][Asking /\ read' # read => demanded = 0]_readVars
=============================================================================
