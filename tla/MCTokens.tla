------------------------------ MODULE MCTokens ------------------------------
(* Instances for TLC of the tokens that live outside of agent sessions: of   *)
(* tasks, of the gateway's exchange, of the local proxy, and the SDK's       *)
(* macaroons.  They share no state; a behaviour is one of the part its       *)
(* initial state names.                                                      *)
EXTENDS Tasks, TokenExchange, LocalProxy, Macaroons, TLC

VARIABLE part

WorkerSymmetry == Permutations(Workers)

\* A broad limit, a narrow one, and one that allows something else (bound).
MCLimits ==
  { [resource |-> {"r1", "r2"}, actions |-> {"read", "write"}, ttl |-> 2, count |-> NoCount],
    [resource |-> {"r1"}, actions |-> {"read"}, ttl |-> 1, count |-> 1] }

TokensInit ==
  /\ Init /\ XInit /\ ProxyInit /\ MacInit
  /\ part \in {"tasks", "exchange", "proxy", "macaroons"}
  /\ part # "proxy" => ~target

InTasks(A)     == part = "tasks" /\ A /\ UNCHANGED <<xvars, pvars, mvars, part>>
InExchange(A)  == part = "exchange" /\ A /\ UNCHANGED <<vars, pvars, mvars, part>>
InProxy(A)     == part = "proxy" /\ A /\ UNCHANGED <<vars, xvars, mvars, part>>
InMacaroons(A) == part = "macaroons" /\ A /\ UNCHANGED <<vars, xvars, pvars, part>>

TokensNext ==
  InTasks(Next) \/ InExchange(XNext) \/ InProxy(ProxyNext) \/ InMacaroons(MacNext)

tokenvars == <<vars, xvars, pvars, mvars, part>>

TokensSpec == TokensInit /\ [][TokensNext]_tokenvars
=============================================================================
