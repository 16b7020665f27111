----------------------------- MODULE SmartFinder ------------------------------
(*****************************************************************************)
(* The search for a strategy (StrategyFinder.NewDialer of                    *)
(* src/x/smart/stream_dialer.go) and the cache of its last winner            *)
(* (strategy_result.go). A call resumes a cached fallback, or else searches  *)
(* the proxyless strategies, the cached ones first, and then the fallbacks;  *)
(* what it finds, or that it found nothing, goes to the cache. A race is one *)
(* step here: module SmartRace shows that its winner has passed its test and *)
(* that it fails only when every entry failed or the caller gave up. Calls   *)
(* may run at the same time and share the cache.                             *)
(*****************************************************************************)
EXTENDS Naturals, Sequences, FiniteSets

CONSTANTS Callers,
          Configs,     \* configurations: [dns, tls, fallback: sequences, hasFallback]
          Leftovers,   \* strategies an earlier program may have left in the cache
          BadDns       \* DNS entries no resolver can be made from

Elements(s) == {s[i]: i \in DOMAIN s}

\* Every entry that is configured or may come from the cache.
KnownEntries == UNION {Elements(x.dns) \cup Elements(x.tls) \cup Elements(x.fallback):
                         x \in Configs \cup Leftovers}

ASSUME FinderAssumption ==
  /\ \A cfg \in Configs: cfg \in [dns: Seq(KnownEntries), tls: Seq(KnownEntries),
                                  fallback: Seq(KnownEntries), hasFallback: BOOLEAN]
  /\ \A w \in Leftovers: w \in [dns: Seq(KnownEntries), tls: Seq(KnownEntries),
                                fallback: Seq(KnownEntries)]

VARIABLES cache,     \* StrategyResultCache: {} or {the winning strategy}
          tcpBase,   \* the base dialer is a *transport.TCPDialer
          stage,     \* stage[c]: "new" | "resume" | "dns" | "tls" | "fallback" | "put" | "done"
          input,     \* input[c]: the configuration the caller gave
          ranked,    \* ranked[c]: the configuration as it is searched
          seen,      \* seen[c]: the cached strategy the call has read, {} or {w}
          chosenDns, \* chosenDns[c]: the resolver that won, <<>> or <<entry>>
          passed,    \* passed[c]: entries that won a race of this call
          found      \* found[c]: the strategy of the dialer returned, {} or {w}

finderVars == <<cache, tcpBase, stage, input, ranked, seen, chosenDns, passed, found>>

\* A winningConfig: one proxyless strategy or one fallback.
Strategy(dns, tls, fallback) == [dns |-> dns, tls |-> tls, fallback |-> fallback]

FinderInit ==
  /\ cache \in {{}} \cup {{w}: w \in Leftovers}
  /\ tcpBase \in BOOLEAN
  /\ stage = [c \in Callers |-> "new"]
  /\ input \in [Callers -> Configs]
  /\ ranked = input
  /\ seen = [c \in Callers |-> {}]
  /\ chosenDns = [c \in Callers |-> <<>>]
  /\ passed = [c \in Callers |-> {}]
  /\ found = [c \in Callers |-> {}]

Goto(c, s) == stage' = [stage EXCEPT ![c] = s]

-------------------------------------------------------------------------------

\* slices.IndexFunc and moveToFront (slice_helper.go): the entry moves to the
\* front, those before it one back; an absent entry changes nothing.
(* Variant: copies over the first entry instead of moving the others back. *)
MoveToFrontOver(s, e) ==
  IF e \in Elements(s) THEN [i \in DOMAIN s |-> IF i = 1 THEN e ELSE s[i]] ELSE s

MoveToFront(s, e) ==
  IF e \in Elements(s)
  THEN LET at == CHOOSE i \in DOMAIN s: s[i] = e
       IN <<e>> \o SubSeq(s, 1, at - 1) \o SubSeq(s, at + 1, Len(s))
  ELSE s

(* Variant: any single cached fallback is resumed. *)
IsExclusiveFallbackAny(w, cfg) ==
  Len(w.fallback) = 1 /\ w.dns = <<>> /\ w.tls = <<>>

\* getFallbackIfExclusive
IsExclusiveFallback(w, cfg) ==
  /\ Len(w.fallback) = 1 /\ w.dns = <<>> /\ w.tls = <<>>
  /\ w.fallback[1] \in Elements(cfg.fallback)

\* promoteProxylessToFront
Promote(w, cfg) ==
  [cfg EXCEPT !.dns = IF Len(w.dns) = 1 THEN MoveToFront(@, w.dns[1]) ELSE @,
              !.tls = IF Len(w.tls) = 1 THEN MoveToFront(@, w.tls[1]) ELSE @]

\* NewDialer reads the cache (rankStrategiesFromCache).
ReadCache(c) ==
  /\ stage[c] = "new"
  /\ seen' = [seen EXCEPT ![c] = cache]
  /\ IF \E w \in cache: IsExclusiveFallback(w, input[c])
     THEN Goto(c, "resume") /\ UNCHANGED ranked
     ELSE /\ Goto(c, "dns")
          /\ ranked' = IF cache = {} THEN ranked
                       ELSE [ranked EXCEPT ![c] = Promote(CHOOSE w \in cache: TRUE, @)]
  /\ UNCHANGED <<cache, tcpBase, input, chosenDns, passed, found>>

\* The race with the cached fallback alone. Its dialer is returned at once and
\* the cache stays as it is.
Resume(c) ==
  /\ stage[c] = "resume"
  /\ \/ LET w == CHOOSE w \in seen[c]: TRUE
        IN /\ passed' = [passed EXCEPT ![c] = @ \cup {w.fallback[1]}]
           /\ found' = [found EXCEPT ![c] = {Strategy(<<>>, <<>>, w.fallback)}]
           /\ Goto(c, "done")
     \/ Goto(c, "dns") /\ UNCHANGED <<passed, found>>
  /\ UNCHANGED <<cache, tcpBase, input, ranked, seen, chosenDns>>

\* newProxylessDialer has failed.
NoProxyless(c) == /\ Goto(c, IF ranked[c].hasFallback THEN "fallback" ELSE "put")
                  /\ UNCHANGED <<cache, tcpBase, input, ranked, seen, passed, found>>

FindDns(c) ==
  /\ stage[c] = "dns"
  /\ \/ \* No entry, an entry that is not valid, or no resolver that works.
        NoProxyless(c) /\ UNCHANGED chosenDns
     \/ \E e \in Elements(ranked[c].dns):
          /\ Elements(ranked[c].dns) \cap BadDns = {}
          /\ IF e = "system" /\ ~tcpBase
             THEN \* "cannot use system resolver with base dialer"
                  NoProxyless(c) /\ UNCHANGED chosenDns
             ELSE /\ chosenDns' = [chosenDns EXCEPT ![c] = <<e>>]
                  /\ passed' = [passed EXCEPT ![c] = @ \cup {e}]
                  /\ IF ranked[c].tls = <<>>
                     THEN /\ found' = [found EXCEPT ![c] = {Strategy(<<e>>, <<>>, <<>>)}]
                          /\ Goto(c, "put")
                     ELSE Goto(c, "tls") /\ UNCHANGED found
                  /\ UNCHANGED <<cache, tcpBase, input, ranked, seen>>

FindTls(c) ==
  /\ stage[c] = "tls"
  /\ \/ NoProxyless(c)
     \/ \E t \in Elements(ranked[c].tls):
          /\ passed' = [passed EXCEPT ![c] = @ \cup {t}]
          /\ found' = [found EXCEPT ![c] = {Strategy(chosenDns[c], <<t>>, <<>>)}]
          /\ Goto(c, "put")
          /\ UNCHANGED <<cache, tcpBase, input, ranked, seen>>
  /\ UNCHANGED chosenDns

FindFallback(c) ==
  /\ stage[c] = "fallback"
  /\ \/ UNCHANGED <<passed, found>>
     \/ \E f \in Elements(ranked[c].fallback):
          /\ passed' = [passed EXCEPT ![c] = @ \cup {f}]
          /\ found' = [found EXCEPT ![c] = {Strategy(<<>>, <<>>, <<f>>)}]
  /\ Goto(c, "put")
  /\ UNCHANGED <<cache, tcpBase, input, ranked, seen, chosenDns>>

(* Variant: only a winner is put into the cache. *)
PutWinner(c) == /\ stage[c] = "put"
                /\ cache' = IF found[c] = {} THEN cache ELSE found[c]
                /\ Goto(c, "done")
                /\ UNCHANGED <<tcpBase, input, ranked, seen, chosenDns, passed, found>>

\* The winner goes to the cache; a search without one clears it.
PutResult(c) == /\ stage[c] = "put"
                /\ cache' = found[c]
                /\ Goto(c, "done")
                /\ UNCHANGED <<tcpBase, input, ranked, seen, chosenDns, passed, found>>

FinderNext == \E c \in Callers: \/ ReadCache(c) \/ Resume(c) \/ FindDns(c)
                                \/ FindTls(c) \/ FindFallback(c) \/ PutResult(c)

FinderSpec == FinderInit /\ [][FinderNext]_finderVars

-------------------------------------------------------------------------------

Parts(w) == Elements(w.dns) \cup Elements(w.tls) \cup Elements(w.fallback)

\* A dialer is made only of entries of the caller's configuration that passed
\* their test in this very call, also when the strategy comes from the cache.
ReturnsTested(c) ==
  \A w \in found[c]:
    /\ Parts(w) \subseteq passed[c]
    /\ Parts(w) \subseteq Elements(input[c].dns) \cup Elements(input[c].tls) \cup Elements(input[c].fallback)
    /\ Cardinality(Parts(w)) >= 1

\* Ranking loses and invents nothing, and tests a cached strategy first.
RanksAll(c) ==
  /\ \A part \in {"dns", "tls", "fallback"}:
       /\ Len(ranked[c][part]) = Len(input[c][part])
       /\ Elements(ranked[c][part]) = Elements(input[c][part])
  /\ stage[c] # "new" =>
       \A w \in seen[c], part \in {"dns", "tls"}:
         Len(w[part]) = 1 /\ w[part][1] \in Elements(input[c][part])
           => ranked[c][part][1] = w[part][1]

\* NewDialer: what it returns was tested, and what was tested follows the input
\* and the cache.
FinderSound == \A c \in Callers: ReturnsTested(c) /\ RanksAll(c)

\* Once a call has ended, the cache holds a strategy some call has returned, or
\* nothing: a strategy that no longer works does not stay.
CacheIsCurrent ==
  (\E c \in Callers: stage[c] = "done")
    => \A w \in cache: \E c \in Callers: stage[c] = "done" /\ w \in found[c]

\* A search trusts the cache for an order only, and leaves in it what was tested.
SearchSound == FinderSound /\ CacheIsCurrent
===============================================================================
