------------------------------ MODULE MCTradeGates ------------------------------
(***************************************************************************)
(* The gates a trade passes on its way, each over the inputs the others    *)
(* may hand it: the selection of symbols, the evidence of a signal on      *)
(* candles, the decision on one order, the allocation of the account.      *)
(* They are composed in the code by plain calls whose results each model   *)
(* takes as an input, so one gate is at work in a behaviour and the others *)
(* stay as they started.                                                   *)
(***************************************************************************)
EXTENDS PortfolioAllocation, OrderDecision, UniverseSelection, MultiTimeframe

VARIABLE gate

gateVars == <<gate, allocVars, orderVars, universeVars, mtfVars>>

GatesInit ==
    /\ gate \in {"allocation", "order", "universe", "timeframes"}
    /\ AllocInit /\ OrderInit /\ UniverseInit /\ MtfInit
    /\ gate # "order" => market = Sound("LONG")
    /\ gate # "timeframes" => style = "guided"

GatesNext ==
    /\ UNCHANGED gate
    /\ \/ gate = "allocation" /\ AllocNext /\ UNCHANGED <<orderVars, universeVars, mtfVars>>
       \/ gate = "order" /\ OrderNext /\ UNCHANGED <<allocVars, universeVars, mtfVars>>
       \/ gate = "universe" /\ UniverseNext /\ UNCHANGED <<allocVars, orderVars, mtfVars>>
       \/ gate = "timeframes" /\ MtfNext /\ UNCHANGED <<allocVars, orderVars, universeVars>>

GatesSpec == GatesInit /\ [][GatesNext]_gateVars
=============================================================================
