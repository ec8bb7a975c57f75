--------------------------- MODULE ReplayBacktest ---------------------------
(***************************************************************************)
(* ReplayBacktest of python/backtest/engine.py: run indexes the quotes by  *)
(* their timestamps and fills every signal from the quote of its own time. *)
(* It may be called again; position and fills go on.  given is history:    *)
(* the quotes this call was given so far, in their order.                  *)
(***************************************************************************)
EXTENDS Integers, Sequences

CONSTANTS
  ReplayQuotes,    \* [bid, ask]
  ReplaySignals,   \* [side, quantity]
  ReplayMaxPosition,
  MaxReplayTime,   \* bound on the timestamps
  MaxGiven,        \* bound on the quotes of one call
  MaxReplayFills,  \* bound on the fills
  MaxRuns          \* bound on the calls of run

ASSUME ReplayAssumption ==
  /\ ReplayMaxPosition \in Nat \ {0} /\ MaxReplayTime \in Nat /\ MaxGiven \in Nat
  /\ ReplayQuotes \subseteq [bid : Int, ask : Int]
  /\ ReplaySignals \subseteq [side : {-1, 1}, quantity : Int]

VARIABLES
  held, done,      \* position and fills
  strict,          \* strict_unique_timestamps, set once
  given,           \* history: [time, quote]
  quoteAt,         \* quote_by_time of this call
  stage,           \* "quotes", "signals" or "raised"
  run              \* this call, and the fills there were when it began

replayVars == <<held, done, strict, given, quoteAt, stage, run>>

ReplayInit ==
  /\ held = 0 /\ done = << >> /\ strict \in BOOLEAN /\ given = << >>
  /\ quoteAt = << >> /\ stage = "quotes"
  /\ run = [number |-> 1, from |-> 0]

\* Mutant: without strict_unique_timestamps the first quote of a time stays.
LoadQuoteKeepingFirst(q, time) ==
  /\ stage = "quotes" /\ Len(given) < MaxGiven
  /\ given' = Append(given, [time |-> time, quote |-> q])
  /\ IF time \in DOMAIN quoteAt
     THEN stage' = (IF strict THEN "raised" ELSE stage) /\ quoteAt' = quoteAt
     ELSE /\ stage' = stage
          /\ quoteAt' = [t \in DOMAIN quoteAt \cup {time} |-> IF t = time THEN q ELSE quoteAt[t]]
  /\ UNCHANGED <<held, done, strict, run>>

\* A second quote of one time raises, or without strict_unique_timestamps replaces
\* the first.
LoadQuote(q, time) ==
  /\ stage = "quotes" /\ Len(given) < MaxGiven
  /\ given' = Append(given, [time |-> time, quote |-> q])
  /\ IF strict /\ time \in DOMAIN quoteAt
     THEN stage' = "raised" /\ quoteAt' = quoteAt
     ELSE /\ stage' = stage
          /\ quoteAt' = [t \in DOMAIN quoteAt \cup {time} |-> IF t = time THEN q ELSE quoteAt[t]]
  /\ UNCHANGED <<held, done, strict, run>>

AllQuotesLoaded ==
  /\ stage = "quotes"
  /\ stage' = "signals"
  /\ UNCHANGED <<held, done, strict, given, quoteAt, run>>

\* apply, for a signal with a quote of its timestamp; every other signal is skipped
Apply(signal, time) ==
  /\ stage = "signals" /\ Len(done) < MaxReplayFills
  /\ time \in DOMAIN quoteAt
  /\ LET q == quoteAt[time]
     IN /\ time > 0 /\ q.bid > 0 /\ q.ask >= q.bid
        /\ signal.quantity > 0
        /\ held' = held + signal.side * signal.quantity
        /\ held' \in -ReplayMaxPosition .. ReplayMaxPosition
        /\ done' = Append(done, [time |-> time, side |-> signal.side, quantity |-> signal.quantity,
                                 price |-> IF signal.side > 0 THEN q.ask ELSE q.bid])
  /\ UNCHANGED <<strict, given, quoteAt, stage, run>>

RunAgain ==
  /\ stage # "quotes" /\ run.number < MaxRuns
  /\ run' = [number |-> run.number + 1, from |-> Len(done)]
  /\ given' = << >> /\ quoteAt' = << >> /\ stage' = "quotes"
  /\ UNCHANGED <<held, done, strict>>

ReplayNext ==
  \/ \E time \in 0 .. MaxReplayTime, q \in ReplayQuotes : LoadQuote(q, time)
  \/ AllQuotesLoaded
  \/ \E time \in 0 .. MaxReplayTime, signal \in ReplaySignals : Apply(signal, time)
  \/ RunAgain

ReplaySpec == ReplayInit /\ [][ReplayNext]_replayVars

-----------------------------------------------------------------------------
(* Properties                                                              *)

ReplayLedger ==
  INSTANCE TradeLedger WITH position <- held, fills <- done, MaxPosition <- ReplayMaxPosition

\* Over any number of calls of run, one that raised included, the position is the sum
\* of all fills and none of them passed max_position.
ReplayKeepsLedger == ReplayLedger!Spec

\* Which quote a fill of this call was made at, when quotes repeat a timestamp: the last
\* one given with the signal's own timestamp, not a crossed one and never one of another
\* time; under strict_unique_timestamps it is the only one, and a call that raised has
\* filled nothing (run, apply).
FillsUseTheLastQuote ==
  LET at(time) == {k \in DOMAIN given : given[k].time = time}
  IN \A n \in run.from + 1 .. Len(done) :
       \E k \in at(done[n].time) :
         /\ \A j \in at(done[n].time) : j <= k
         /\ strict => \A i, j \in DOMAIN given : given[i].time = given[j].time => i = j
         /\ LET q == given[k].quote
            IN q.bid <= q.ask /\ done[n].price = IF done[n].side > 0 THEN q.ask ELSE q.bid
=============================================================================
