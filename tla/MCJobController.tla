--------------------------- MODULE MCJobController ---------------------------
(***************************************************************************)
(* JobController on small instances.                                       *)
(***************************************************************************)
EXTENDS JobController

\* Both alternative services; a proxy is tried after the direct connection.
Plain == [https |-> TRUE, services |-> {"quic", "h2"}, alt_proxy |-> FALSE,
          proxies |-> <<"direct", "proxy">>, prompt |-> TRUE,
          preconnects |-> FALSE, others |-> FALSE,
          max_auth |-> 1, max_resolves |-> 1]

\* The consumer keeps its request; both proxies ask for credentials.
Kept == [Plain EXCEPT !.proxies = <<"proxy", "proxy">>, !.prompt = FALSE,
                      !.others = TRUE, !.max_resolves = 0]

KeptDirect == [Kept EXCEPT !.proxies = <<"direct">>]

\* The request, or preconnect, is plain http, with an alternative proxy.
AlternativeProxy ==
    [Plain EXCEPT !.https = FALSE, !.alt_proxy = TRUE,
                  !.proxies = <<"proxy", "direct">>, !.preconnects = TRUE]

MCScenarios == {Plain, Kept, KeptDirect, AlternativeProxy}

=============================================================================
