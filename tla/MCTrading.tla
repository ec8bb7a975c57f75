----------------------------- MODULE MCTrading -----------------------------
(***************************************************************************)
(* The portfolio and the two backtests.  They share no state, so a         *)
(* behaviour drives one of them: desk says which, and the others stay in   *)
(* their initial state.                                                    *)
(***************************************************************************)
EXTENDS Portfolio, Microstructure, ReplayBacktest

VARIABLE desk

tradingVars == <<portfolioVars, engineVars, replayVars, desk>>

TradingInit ==
  /\ PortfolioInit /\ EngineInit /\ ReplayInit
  /\ desk \in {"portfolio", "microstructure", "replay"}
  /\ desk # "replay" => strict

TradingNext ==
  /\ \/ desk = "portfolio" /\ PortfolioNext /\ UNCHANGED <<engineVars, replayVars>>
     \/ desk = "microstructure" /\ EngineNext
          /\ UNCHANGED <<portfolioVars, replayVars>>
     \/ desk = "replay" /\ ReplayNext /\ UNCHANGED <<portfolioVars, engineVars>>
  /\ UNCHANGED desk

TradingSpec == TradingInit /\ [][TradingNext]_tradingVars

\* Both backtests implement the ledger: however many fills one event makes, across resting
\* orders and levels, and over repeated calls of run, the position is their sum and no
\* single fill passes max_position.
BacktestsKeepLedger == EngineKeepsLedger /\ ReplayKeepsLedger

-----------------------------------------------------------------------------
(* Two instruments, one of them sold short only with locates.              *)

MCOrders ==
  [instrument : {1}, side : {-1, 1}, quantity : {1, 2}, price : {2, 3}]
    \cup [instrument : {2}, side : {-1, 1}, quantity : {1}, price : {4}]
MCLimits ==
  [net |-> 3, gross |-> 4, notional |-> 9, concentration |-> 8, loss |-> 1,
   allowShort |-> TRUE, requireLocates |-> FALSE, grossCash |-> 14,
   expectedShortfall |-> 90, parametricVar |-> 80]
MCUnit == <<1, 2>>
MCLocateRequired == {1}
MCLoading == << <<1, 0>>, <<2, -1>> >>
MCCovariance == << <<2, -1>>, <<-1, 1>> >>
MCSpecificVariance == <<0, 1>>
MCMarkQuotes == {[bid |-> 2, ask |-> 3], [bid |-> 1, ask |-> 1]}

(* Two quotes, the ask of one better than its ladder, and orders that      *)
(* cross the ladders, rest or do neither.                                  *)

Level(p, s) == [price |-> p, size |-> s]
MCQuotes ==
  {[bid |-> 3, ask |-> 3,
    bids |-> <<Level(3, 2), Level(2, 1)>>, asks |-> <<Level(4, 1), Level(5, 2)>>],
   [bid |-> 2, ask |-> 3, bids |-> <<Level(2, 1)>>, asks |-> <<Level(3, 1), Level(3, 1)>>]}
MCTrades ==
  {[price |-> 3, quantity |-> 2, side |-> -1], [price |-> 3, quantity |-> 1, side |-> -1],
   [price |-> 4, quantity |-> 2, side |-> 1]}
MCSignals ==
  {[type |-> "market", side |-> 1, quantity |-> 2, limit |-> 0, latency |-> 0],
   [type |-> "market", side |-> -1, quantity |-> 3, limit |-> 0, latency |-> 0],
   [type |-> "limit", side |-> 1, quantity |-> 2, limit |-> 3, latency |-> 0],
   [type |-> "limit", side |-> -1, quantity |-> 1, limit |-> 0, latency |-> 0],
   [type |-> "post_only", side |-> 1, quantity |-> 1, limit |-> 3, latency |-> 1]}
MCReplayQuotes == {[bid |-> 2, ask |-> 3], [bid |-> 3, ask |-> 3], [bid |-> 3, ask |-> 2]}
MCReplaySignals ==
  {[side |-> 1, quantity |-> 1], [side |-> 1, quantity |-> 2], [side |-> -1, quantity |-> 2],
   [side |-> -1, quantity |-> 0]}
=============================================================================
