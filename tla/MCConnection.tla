---------------------------- MODULE MCConnection ----------------------------
(* Connection on a few requests of each kind.                              *)
EXTENDS Connection

CONSTANTS h1, h2

Announce(h, k) ==
  [POST |-> FALSE, scrape |-> FALSE, hasParams |-> TRUE, params |-> {h},
   keepAlive |-> k, hasLength |-> FALSE]
Scrape(H, k) ==
  [POST |-> FALSE, scrape |-> TRUE, hasParams |-> H # {}, params |-> H,
   keepAlive |-> k, hasLength |-> FALSE]
Upload(l) ==
  [POST |-> TRUE, scrape |-> FALSE, hasParams |-> FALSE, params |-> {},
   keepAlive |-> TRUE, hasLength |-> l]

Requests ==
  {Announce(h1, TRUE), Announce(h2, FALSE), Scrape({h1}, TRUE), Upload(TRUE), Upload(FALSE)}

Scrapes == {Scrape({h1}, TRUE), Scrape({h2}, TRUE), Scrape({}, TRUE)}
=============================================================================
