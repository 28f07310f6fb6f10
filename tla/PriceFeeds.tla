------------------------------ MODULE PriceFeeds ------------------------------
(****************************************************************************)
(* The price feeds of a flux monitor job: the URLs that its deviation       *)
(* checker takes from the job and from the bridges when it is made          *)
(* (fluxmonitor/flux_monitor.go), and a fetch (fluxmonitor/fetchers.go),    *)
(* which asks every feed in turn and takes the median of what they answer.  *)
(* A feed may be out of reach, answer something else than a price, or lie.  *)
(****************************************************************************)
EXTENDS Integers, SequencesExt

CONSTANTS
    FeedLists,      \* the feeds of jobs: sequences of [kind, name]
    BridgeURL,      \* the URL of each bridge
    PollingIntervals,           \* the polling intervals of jobs
    MinimumPollingInterval,     \* MinimumPollingInterval
    Answers,        \* what a feed may answer: [reached, decoded, error, status, result]
    HonestPrices    \* the prices that are no lies

\* An answer has one price or none, and the honest prices are bounded by two of them.
ASSUME FeedAssumption ==
    /\ \A a \in Answers : a.result \in Seq(Int)
    /\ HonestPrices \in SUBSET Int
    /\ \E low, high \in HonestPrices : HonestPrices \subseteq low .. high

VARIABLES
    feedURLs,       \* the URLs of the checker's fetchers
    feedAnswers,        \* the answers of the feeds asked so far
    prices,         \* the prices among them
    fetchErrors,    \* how many of them are errors
    fetch           \* the end of the fetch

feedVars == <<feedURLs, feedAnswers, prices, fetchErrors, fetch>>

Fetching == [status |-> "fetching", price |-> 0]

----------------------------------------------------------------------------
\* GetBridgeURLFromName, and the parse of a URL.
FeedURL(feed) ==
    CASE feed.kind = "url" -> <<feed.name>>
      [] feed.kind = "bridge" /\ feed.name \in DOMAIN BridgeURL -> <<BridgeURL[feed.name]>>
      [] OTHER -> <<>>

\* One feed without a URL leaves the job without a checker.
ExtractFeedURLs(feeds) ==
    IF \E i \in DOMAIN feeds : FeedURL(feeds[i]) = <<>> THEN <<>>
    ELSE FlattenSeq([i \in DOMAIN feeds |-> FeedURL(feeds[i])])

\* pollingDeviationCheckerFactory.New: no checker without a fetcher.
FeedInit ==
    /\ \E feeds \in FeedLists, interval \in PollingIntervals :
        feedURLs = IF interval < MinimumPollingInterval THEN <<>> ELSE ExtractFeedURLs(feeds)
    /\ feedAnswers = <<>> /\ prices = <<>> /\ fetchErrors = 0
    /\ fetch = IF feedURLs = <<>> THEN [Fetching EXCEPT !.status = "refused"] ELSE Fetching

----------------------------------------------------------------------------
\* httpFetcher.Fetch: an error message counts before the status, and the status
\* before the price.
PriceOf(a) ==
    IF a.reached /\ a.decoded /\ ~a.error /\ a.status < 400 THEN a.result ELSE <<>>

FetchOne ==
    /\ fetch = Fetching
    /\ Len(feedAnswers) < Len(feedURLs)
    /\ \E a \in Answers :
        /\ feedAnswers' = Append(feedAnswers, a)
        /\ prices' = prices \o PriceOf(a)
        /\ fetchErrors' = fetchErrors + IF PriceOf(a) = <<>> THEN 1 ELSE 0
    /\ UNCHANGED <<feedURLs, fetch>>

Sorted_AsFetched(s) == s

\* The indices in an order in which the prices do not fall.
Sorted(s) ==
    LET order == CHOOSE p \in Bijection(DOMAIN s, DOMAIN s) :
                     \A i, j \in DOMAIN s : i <= j => s[p[i]] <= s[p[j]]
    IN  [i \in DOMAIN s |-> s[order[i]]]

Median(s) ==
    LET k == Len(s) \div 2
    IN  IF Len(s) % 2 = 1 THEN s[k + 1] ELSE (s[k + 1] + s[k]) \div 2

\* medianFetcher.Fetch, once all have been asked.
MajorityFailed == 2 * fetchErrors >= Len(feedURLs)

FetchEnds ==
    /\ fetch = Fetching
    /\ Len(feedAnswers) = Len(feedURLs)
    /\ fetch' = IF MajorityFailed THEN [status |-> "failed", price |-> 0]
                ELSE [status |-> "fetched", price |-> Median(Sorted(prices))]
    /\ UNCHANGED <<feedURLs, feedAnswers, prices, fetchErrors>>

FeedNext == FetchOne \/ FetchEnds

FeedSpec == FeedInit /\ [][FeedNext]_feedVars

----------------------------------------------------------------------------
Lies == Cardinality({i \in DOMAIN prices : prices[i] \notin HonestPrices})

\* When fewer than half of the prices fetched are lies, the price that the node
\* answers with lies between honest ones, whichever feeds fail and in whichever
\* order they answer.
MedianIsBetweenHonestPrices ==
    fetch.status = "fetched" /\ 2 * Lies < Len(prices) =>
        fetch.price \in Min(HonestPrices) .. Max(HonestPrices)

\* The same of the feeds rather than of the prices: fewer than half of all feeds
\* lie.  It does not hold, for the feeds that fail are left out of the median.
MinorityOfFeedsIsHarmless ==
    fetch.status = "fetched" /\ 2 * Lies < Len(feedURLs) =>
        fetch.price \in Min(HonestPrices) .. Max(HonestPrices)
=============================================================================
