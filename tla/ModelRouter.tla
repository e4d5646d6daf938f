---------------------------- MODULE ModelRouter ----------------------------
(***************************************************************************)
(* The choice of a model for one decision of the agent (agent/router.rs):  *)
(* which models are registered under which capabilities, which of them the *)
(* three profiles and the fallback name, and in which order a request      *)
(* tries them.  A router is a record; ModelCall drives the models.         *)
(***************************************************************************)
EXTENDS Sequences, FiniteSets

\* No model, where the code has None.
NoModel == "none"

\* A router with no models.
NewRouter == [models |-> <<>>, default |-> NoModel, fast |-> NoModel,
              strong |-> NoModel, fallback |-> NoModel]

\* A model is registered under a name that is not blank and not taken; a
\* refusal leaves the router as it is.
Registered(router, name, entry) ==
    IF name = "" \/ name \in DOMAIN router.models THEN router
    ELSE [router EXCEPT !.models =
              [n \in DOMAIN router.models \cup {name} |->
                  IF n = name THEN entry ELSE router.models[n]]]

\* A role is given to a registered model only.
WithRole(router, role, name) ==
    IF name \in DOMAIN router.models THEN [router EXCEPT ![role] = name]
    ELSE router

\* The router of the command line: the default, fast and strong models of the
\* settings, each registered once, and no fallback.
CommandLineRouter(default, fast, strong, entry) ==
    LET all == Registered(Registered(Registered(NewRouter, default, entry), fast, entry),
                          strong, entry)
    IN  WithRole(WithRole(WithRole(all, "default", default), "fast", fast), "strong", strong)

\* The router of a process model: one model for every profile.
ProcessRouter(name, entry) == CommandLineRouter(name, name, name, entry)

\* The model a request prefers: the one it names, or its profile's, or the
\* default one.
Preferred(router, request) ==
    IF request.requested # NoModel THEN request.requested
    ELSE IF router[request.mode] # NoModel THEN router[request.mode]
    ELSE router.default

\* The names a request tries, in order: its preference, then the fallback.
CandidateNames(router, request) ==
    LET first == Preferred(router, request)
    IN  SelectSeq(IF router.fallback = first THEN <<first>> ELSE <<first, router.fallback>>,
                  LAMBDA n : n # NoModel)

\* A name may serve a request if it is registered and has what is required.
Serves(router, name, request) ==
    /\ name \in DOMAIN router.models
    /\ request.tools => router.models[name].tools
    /\ request.streaming => router.models[name].streaming

=============================================================================
