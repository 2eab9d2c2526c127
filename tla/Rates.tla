-------------------------------- MODULE Rates --------------------------------
(***************************************************************************)
(* The table of exchange rates: the updaters that ask CurrencyBeacon, ask  *)
(* again for what is missing, fall back to Frankfurter for RUB and save    *)
(* one transaction (services/rate_fetcher.py, rate_calculator.py,          *)
(* repositories/rate.py, the loop of main.py), and what a quote needs from *)
(* the table (services/exchange.py, cash_delivery_rate.py).  A rate is the *)
(* number of the fetch it was computed from; 0: the row is not there.      *)
(***************************************************************************)
EXTENDS Naturals, FiniteSets

CONSTANTS Updaters,
          Targets,     \* TARGET_CURRENCIES
          MaxFetches   \* bound: how many fetches there are

ASSUME RateConstants ==
    MaxFetches \in Nat /\ Targets # {} /\ {"USDT", "RUB"} \cap Targets = {}

VARIABLES
    table,    \* Rates: the fetch each pair was computed from
    job,      \* what each updater does, and what the providers answered so far
    found,    \* the rows of Rates as each updater read them before it writes
    fetches,  \* how many fetches were begun
    passed    \* history: rows the last save left to another one's rate

rateVars == <<table, job, found, fetches, passed>>

Symbols == {"USDT", "RUB"} \cup Targets
Optional == {"RUB"}

\* The pairs computed from the targets alone, and those that need RUB as well.
TargetPairs == {"USDT"} \X Targets
InternalPairs == {<<"USDT", "RUB">>, <<"RUB", "USDT">>}
RubPairs == ({"RUB"} \X Targets) \cup InternalPairs
Pairs == TargetPairs \cup RubPairs

\* What an updater may have got, as far as the code tells it apart: everything,
\* everything but RUB, or less than it needs.
Parts == {Symbols, Symbols \ Optional, {}}

NoJob == [at |-> "idle", number |-> 0, got |-> {}]
NoRows == [p \in Pairs |-> 0]
JobPlaces == {"idle", "asking", "retrying", "falling back", "saving", "writing"}

RateTypeOK ==
    /\ table \in [Pairs -> 0..MaxFetches]
    /\ job \in [Updaters -> [at : JobPlaces, number : 0..MaxFetches, got : Parts]]
    /\ found \in [Updaters -> [Pairs -> 0..MaxFetches]]
    /\ fetches \in 0..MaxFetches
    /\ passed \subseteq Pairs

RateInit ==
    /\ table = NoRows
    /\ job = [u \in Updaters |-> NoJob]
    /\ found = [u \in Updaters |-> NoRows]
    /\ fetches = 0
    /\ passed = {}

Becomes(u, place, got) ==
    job' = [job EXCEPT ![u] = [@ EXCEPT !.at = place, !.got = got]]

\* The loop's period is over, or a process starts and a pair is missing.
BeginFetch(u) ==
    /\ job[u] = NoJob /\ fetches < MaxFetches
    /\ fetches' = fetches + 1
    /\ job' = [job EXCEPT ![u] = [at |-> "asking", number |-> fetches + 1, got |-> {}]]
    /\ UNCHANGED <<table, found, passed>>

\* Where an updater goes with what it has: on a second request for what is missing;
\* then RUB alone may still come from Frankfurter; without another symbol it fails.
Answered(u, got) ==
    LET missing == Symbols \ got
    IN  IF missing = {} THEN Becomes(u, "saving", got)
        ELSE IF job[u].at = "asking" THEN Becomes(u, "retrying", got)
        ELSE IF missing \subseteq Optional
             THEN Becomes(u, IF job[u].at = "retrying" THEN "falling back" ELSE "saving", got)
             ELSE job' = [job EXCEPT ![u] = NoJob]

\* A provider answers with the valid rates of some of the symbols it was asked for.
Answer(u) ==
    /\ job[u].at \in {"asking", "retrying", "falling back"}
    /\ \E got \in Parts : job[u].got \subseteq got /\ Answered(u, got)
    /\ UNCHANGED <<table, found, fetches, passed>>

\* A timeout, a refused request, a row another updater inserted first, a database
\* error: nothing is saved.
FetchFails(u) ==
    /\ job[u] # NoJob /\ job' = [job EXCEPT ![u] = NoJob]
    /\ found' = [found EXCEPT ![u] = NoRows]
    /\ UNCHANGED <<table, fetches, passed>>

\* Mutant: without RUB its crosses are computed with the stored rate of RUB.
SavedCrosses(got) ==
    IF "RUB" \in got THEN Pairs ELSE TargetPairs \cup ({"RUB"} \X Targets)

\* build_market_rates needs RUB for its crosses and the internal pairs.
Saved(got) == IF "RUB" \in got THEN Pairs ELSE TargetPairs

\* upsert_many reads the rows there are.
LoadRows(u) ==
    /\ job[u].at = "saving"
    /\ Becomes(u, "writing", job[u].got)
    /\ found' = [found EXCEPT ![u] = table]
    /\ UNCHANGED <<table, fetches, passed>>

\* The rows of a save that another one has inserted, and those it has changed, since.
Inserted(u) == {p \in Saved(job[u].got) : found[u][p] = 0 /\ table[p] # 0}
Changed(u) == {p \in Saved(job[u].got) : found[u][p] # table[p]}

\* Then they are written and committed; a row that was inserted since is an error.  A
\* row whose new rate happens to be the one that was read is not written, whatever
\* rate it has got since.
Save(u) ==
    /\ job[u].at = "writing" /\ Inserted(u) = {}
    /\ \E same \in SUBSET Changed(u) :
          LET written == Saved(job[u].got) \ same
          IN  /\ table' = [p \in Pairs |-> IF p \in written THEN job[u].number ELSE table[p]]
              /\ passed' = (passed \ written) \cup same
    /\ job' = [job EXCEPT ![u] = NoJob]
    /\ found' = [found EXCEPT ![u] = NoRows]
    /\ UNCHANGED fetches

RateNext == \E u \in Updaters : BeginFetch(u) \/ Answer(u) \/ FetchFails(u) \/ LoadRows(u) \/ Save(u)

RateSpec == RateInit /\ [][RateNext]_rateVars

\* A pair the clients see and can be quoted.
Quotable(sell, buy) == <<sell, buy>> \in Pairs \ InternalPairs /\ table[<<sell, buy>>] # 0

\* Whatever part of the answers is missing and however two updaters overlap, the
\* rates between RUB and the others come from one fetch, and so do those of USDT:
\* the two internal rates stay each other's inverse and a cross never mixes fetches.
\* The exception: a rate that overlapping saves passed over, until the next one.
PairsOfOneFetch ==
    \A P \in {TargetPairs, RubPairs} : Cardinality({table[p] : p \in P \ passed}) <= 1
=============================================================================
