--------------------------- MODULE Configuration ---------------------------
(***************************************************************************)
(* How the configuration of a server is resolved: defaults, a file, the    *)
(* environment and the command line, each layer naming the fields it       *)
(* likes.  The result is validated as a whole, after the layers have been  *)
(* put on top of each other.                                               *)
(***************************************************************************)
EXTENDS Naturals

CONSTANTS
  Loopback,     \* the socket addresses on the loopback interface
  Maximum,      \* the upper bound of each limit
  Defaults,     \* a value for every field
  Paths,        \* paths of configuration files
  NoPath,       \* --config, or its variable, is not given
  NoRoot,       \* an empty artifact_root
  Malformed     \* a file or an environment that cannot be used

Limits == DOMAIN Maximum
Fields == {"artifact_root", "bind", "grpc_bind"} \cup Limits

Nothing == [f \in {} |-> NoRoot]

\* The answer to a configuration that is no good; it has none of the fields.
Refused == [refused |-> TRUE]

ASSUME DefaultsAssumption ==
  /\ DOMAIN Defaults = Fields
  /\ \A f \in Limits : {Defaults[f], Maximum[f]} \subseteq Nat
  /\ Malformed # Nothing

Overlay(lower, higher) ==
  [f \in DOMAIN lower \cup DOMAIN higher |-> IF f \in DOMAIN higher THEN higher[f] ELSE lower[f]]

Valid(config) ==
  /\ config["artifact_root"] # NoRoot
  /\ {config["bind"], config["grpc_bind"]} \subseteq Loopback
  /\ config["bind"] # config["grpc_bind"]
  /\ \A f \in Limits : config[f] \in 1..Maximum[f]

ResolveLayers(values) ==
  LET config == Overlay(Defaults, values)
  IN IF Valid(config) THEN config ELSE Refused

\* The file the command line names, or else the one the environment names.
File(options, environment, files) ==
  IF options.config # NoPath THEN files[options.config]
  ELSE IF environment.config # NoPath THEN files[environment.config]
  ELSE Nothing

\* Bug: the environment is asked last.
ResolveEnvironmentLast(options, environment, files) ==
  LET file == File(options, environment, files)
  IN IF Malformed \in {file, environment.values} THEN Refused
     ELSE ResolveLayers(Overlay(Overlay(file, options.values), environment.values))

\* Every variable of the environment is parsed, the ones that the command line
\* overrides too.
Resolve(options, environment, files) ==
  LET file == File(options, environment, files)
  IN IF Malformed \in {file, environment.values} THEN Refused
     ELSE ResolveLayers(Overlay(Overlay(file, environment.values), options.values))
=============================================================================
