------------------------------ MODULE MCGateway ------------------------------
(***************************************************************************)
(* The instance of Gateway that is model-checked: what the environment and *)
(* the flags say, and the requests that are made.                          *)
(***************************************************************************)
EXTENDS Gateway

CONSTANTS Local, Public, Secret, Wrong, c1, c2, p1, a1

MCLoopback == {Local}
MCMatches  == {<<c1, p1>>}

\* Each is a source of the configuration.  The first needs a flag for the
\* address, the second sets a token and would be read-only.
MCEnvironments ==
    {<<>>,
     [token |-> Secret, read_only |-> TRUE, stats_interval |-> Junk, allow_containers |-> {p1}]}

MCCommands ==
    {<<>>,
     [listen_addr |-> Local, deny_containers |-> {p1}],
     [read_only |-> FALSE, base_path |-> "sub"],
     [token |-> Empty],
     [stats_interval |-> Junk],
     [tls_cert |-> "cert"]}

Ask(route, id, tokens) ==
    [route |-> route, id |-> id, tokens |-> tokens, remote |-> a1, below |-> TRUE]

MCQueries ==
    {Ask("stop", c1, {Wrong, Secret}), Ask("start", c2, {}), Ask("stray", c1, {Secret}),
     Ask("get", c2, {Secret}), Ask("list", c1, {Wrong}), Ask("health", c1, {}),
     Ask("stream", c1, {Secret}),
     [Ask("stop", c1, {Secret}) EXCEPT !.below = FALSE]}
=============================================================================
