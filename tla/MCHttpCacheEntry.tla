-------------------------- MODULE MCHttpCacheEntry --------------------------
(***************************************************************************)
(* HttpCacheEntry on small instances.                                      *)
(***************************************************************************)
EXTENDS HttpCacheEntry

Plain == [trans |-> Trans, read_only |-> {}, bypass |-> {}, size |-> 1,
          resumable |-> FALSE, faults |-> {}, extras |-> {}]

\* Plain requests, and nothing fails.
ThreeGets == {Plain}

\* One of three reads from the cache only, and waiting transactions time out.
Impatient == {[Plain EXCEPT !.read_only = {t}, !.faults = {"timeout"}] :
                t \in Trans}

\* A longer body, of which a response may be the rest.
Resumed == [Plain EXCEPT !.size = 2, !.resumable = TRUE]

\* One request at a time, and everything happens.
Alone == {[Resumed EXCEPT !.trans = {t}, !.faults = {"network", "disk"},
                          !.extras = {"metadata", "no-store", "stop", "post"}] :
            t \in Trans}

\* Two requests: the disk fails; the network fails or ends short; entries are
\* truncated and resumed; either may stop caching; metadata is written.
Two(ts) == {[Plain EXCEPT !.trans = ts, !.faults = {"disk"}],
            [Plain EXCEPT !.trans = ts, !.faults = {"network", "short"}],
            [Resumed EXCEPT !.trans = ts, !.faults = {"network"}],
            [Plain EXCEPT !.trans = ts, !.extras = {"no-store", "stop"}],
            [Plain EXCEPT !.trans = ts, !.extras = {"metadata"}]}

\* One of two bypasses the cache, and the URL is posted to.
Posting(ts) ==
  {[Plain EXCEPT !.trans = ts, !.bypass = {t}, !.extras = {"post"}] : t \in ts}

MCScenarios ==
  ThreeGets \cup Impatient \cup Alone
    \cup UNION {Two(ts) \cup Posting(ts) :
                  ts \in {s \in SUBSET Trans : Cardinality(s) = 2}}

\* The scenarios are the same for any naming of the transactions.
Symmetry == Permutations(Trans)

=============================================================================
