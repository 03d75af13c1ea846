------------------------- MODULE MCServerLifecycle -------------------------
(***************************************************************************)
(* Three connections: one inside a request, one idle, and one accepted     *)
(* while serve already joins the others.  A file, an environment and a     *)
(* command line that set or leave out both addresses, the two defaults     *)
(* among them, one limit at and past its ends, or an empty artifact root;  *)
(* either of two files, of which one is malformed, may be named on the     *)
(* command line or in the environment.                                     *)
(***************************************************************************)
EXTENDS ServerLifecycle

CONSTANTS http, grpcPort, public, root

MCMaximum == [max_concurrent_requests |-> 9]
MCDefaults == [artifact_root |-> root, bind |-> http, grpc_bind |-> grpcPort,
               max_concurrent_requests |-> 4]

Addressing == UNION {[S -> {http, grpcPort}] : S \in SUBSET {"bind", "grpc_bind"}}
Layers == Addressing \cup {[f \in {"bind"} |-> public], [f \in {"artifact_root"} |-> NoRoot]}
            \cup {[f \in {"max_concurrent_requests"} |-> n] : n \in {0, 9, 10}}

MCInputs ==
  {[options |-> [config |-> c, values |-> v],
    environment |-> [config |-> e, values |-> w],
    files |-> [config1 |-> x, config2 |-> Malformed]] :
     c \in {NoPath, "config1"}, e \in {NoPath, "config1", "config2"}, v \in Layers,
     w \in Layers \cup {Malformed}, x \in Layers \cup {Malformed}}
=============================================================================
