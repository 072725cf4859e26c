------------------------------- MODULE Config -------------------------------
(***************************************************************************)
(* What the program is told to do: the options of internal/config/config.go*)
(* with their two sources, the environment and the command line, and what  *)
(* other packages decide by them alone, the token (internal/auth/auth.go)  *)
(* and the container patterns (internal/registry/registry.go).             *)
(*                                                                         *)
(* A source is a function from some of the options to the values their     *)
(* texts stand for.  Empty is the text without characters, Junk one that   *)
(* is no number, duration or truth value; allow and deny lists are sets of *)
(* patterns.  An option is named by its field's JSON name.                 *)
(***************************************************************************)
EXTENDS Integers

CONSTANTS
    Empty, Junk,
    AnyAddress,   \* ":8080", every interface
    Loopback,     \* addresses whose host is a literal loopback address
    LogLevels,    \* the levels Validate knows, in any case
    Container,
    Matches       \* <<c, p>>: container c matches pattern p

ASSUME ConfigAssumption == Empty \notin BOOLEAN /\ Junk \notin BOOLEAN

DefaultConfig ==
    [listen_addr |-> AnyAddress, docker_host |-> Empty, token |-> Empty,
     tls_cert |-> Empty, tls_key |-> Empty, stats_interval |-> 2,
     log_ring_size |-> 1000, supervisor_enabled |-> TRUE,
     max_ws_connections |-> 100, log_level |-> "info", base_path |-> "/",
     read_only |-> FALSE, allow_containers |-> {}, deny_containers |-> {}]

Option == DOMAIN DefaultConfig

\* Options whose text has to be parsed.
Parsed == {"stats_interval", "log_ring_size", "max_ws_connections",
           "supervisor_enabled", "read_only"}

\* An environment variable that is empty or cannot be parsed is ignored.
Readable(o, text) == text # Empty /\ (o \in Parsed => text # Junk)

\* A flag on the command line wins, whatever it says, and even when empty.
Chosen(env, args) ==
    [o \in Option |->
        IF o \in DOMAIN args THEN args[o]
        ELSE IF o \in DOMAIN env /\ Readable(o, env[o]) THEN env[o]
        ELSE DefaultConfig[o]]

\* But one that cannot be parsed ends the program.
BadFlag(args) == \E o \in Parsed \cap DOMAIN args : args[o] \in {Empty, Junk}

\* splitCSV and normalizeBasePath.
Patterns(list) == IF list = Empty THEN {} ELSE list
Normal(path) == IF path = Empty THEN "/" ELSE path

Loaded(env, args) ==
    LET chosen == Chosen(env, args)
    IN  [chosen EXCEPT !.allow_containers = Patterns(@),
                       !.deny_containers  = Patterns(@),
                       !.base_path        = Normal(@)]

IsNonLoopback(addr) == addr \notin Loopback

\* A definition named for its fault is a faulty variant of the one after it.
ValidateOptionalToken(c) == c.listen_addr # Empty /\ c.log_level \in LogLevels
Validate(c) ==
    /\ c.listen_addr # Empty
    /\ IsNonLoopback(c.listen_addr) => c.token # Empty
    /\ c.tls_cert = Empty <=> c.tls_key = Empty
    /\ c.stats_interval > 0
    /\ c.log_ring_size > 0
    /\ c.max_ws_connections > 0
    /\ c.log_level \in LogLevels

\* Load returns no error.
Loads(env, args) == ~BadFlag(args) /\ Validate(Loaded(env, args))

----------------------------------------------------------------------------
\* Authenticator: tokens are those of the header, the cookie and the query.
IsRequired(c) == c.token # Empty
AuthenticateRequest(c, tokens) == IsRequired(c) => c.token \in tokens

\* Registry.IsAllowed.
MatchesOne(c, patterns) == \E p \in patterns : <<c, p>> \in Matches

IsAllowed(c, id) ==
    /\ c.allow_containers # {} => MatchesOne(id, c.allow_containers)
    /\ ~MatchesOne(id, c.deny_containers)
=============================================================================
