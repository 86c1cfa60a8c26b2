----------------------------- MODULE MCLogProxy -----------------------------
(* Rule maps for LogProxy: three keys, of which the proxy logs to one. *)
EXTENDS LogProxy, TLC

CONSTANTS own, sclog, app

MCKeys == {own, sclog, app}

Rule(limit, samp, expire, warn) ==
    [limit |-> limit, samp |-> samp, expire |-> expire, warn |-> warn, len |-> 0]

Limited   == sclog :> Rule(1, 2, 60, 2)
Unlimited == app :> Rule(-1, 0, 0, 1)

\* Now one key, now the other: rules are added and withdrawn.
Changing == {Limited, Unlimited}
=============================================================================
