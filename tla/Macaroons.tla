----------------------------- MODULE Macaroons -----------------------------
(* The SDK's macaroons: a client makes a token for another agent out of its  *)
(* own by adding caveats, and whoever holds the root key checks all of them. *)
(* Signatures are taken as unforgeable: a token has the caveats it was made  *)
(* with.  No two of one type are added in one call, so that a set of them,   *)
(* each with its place, stands for the list.                                 *)
EXTENDS Naturals, Sequences

CONSTANTS
  Holders,        \* agents
  Limits,         \* what callers ask for: [resource, actions, ttl, count]
  NoCount,        \* a caller that limits no number of requests
  MaxMacaroons,   \* bounds of the instance
  MaxMacTime

VARIABLES
  macaroons,   \* DelegationManager.macaroons and delegation_chains, in order
  macTime

mvars == <<macaroons, macTime>>

\* A caveat, with how many delegations preceded it: the order of a macaroon's list.
Caveat(type, level, value) == <<type, level, value>>
Type(c) == c[1]
Level(c) == c[2]
Value(c) == c[3]

MacInit == macaroons = <<>> /\ macTime = 0

\* delegate_access, create_delegation_chain: the caveats a call asks for.
Restrictions(l, level) ==
  { Caveat("resource_prefix", level, l.resource),
    Caveat("action_limit", level, l.actions),
    Caveat("time_before", level, macTime + l.ttl) }
  \union (IF l.count = NoCount THEN {} ELSE { Caveat("request_count", level, l.count) })

\* _get_delegation_depth: the value of the first caveat of that type.
Depths(caveats) == {c \in caveats : Type(c) = "delegation_depth"}
DepthOf(caveats) ==
  IF Depths(caveats) = {} THEN 0
  ELSE Value(CHOOSE c \in Depths(caveats) : \A d \in Depths(caveats) : Level(c) <= Level(d))

\* delegate_macaroon: the parent's caveats that its child inherits.
InheritedOneLimitOnly(caveats) ==
  {c \in caveats : Type(c) \notin {"agent_id", "time_before"}}
Inherited(caveats) == {c \in caveats : Type(c) # "agent_id"}

\* create_root_macaroon, for the id it will have.
RootMacaroon(a, id) == [caveats |-> { Caveat("agent_id", 0, a) }, chain |-> <<id>>]

\* delegate_macaroon, for the id it will have.
ChildMacaroon(parent, a, l, id) ==
  LET level == Len(parent.chain)
  IN  [caveats |-> Inherited(parent.caveats)
                     \union { Caveat("agent_id", level, a),
                              Caveat("delegation_depth", level, DepthOf(parent.caveats) + 1) }
                     \union Restrictions(l, level),
       chain   |-> Append(parent.chain, id)]

Stored(ms) ==
  /\ Len(macaroons) + Len(ms) <= MaxMacaroons
  /\ macaroons' = macaroons \o ms
  /\ UNCHANGED macTime

DelegateMacaroon(p, a, l) ==
  Stored(<< ChildMacaroon(macaroons[p], a, l, Len(macaroons) + 1) >>)

(* delegate_access: the delegator's own macaroon is never found, so a new    *)
(* root is made for each call.                                               *)
DelegateAccess(a, b, l) ==
  LET id == Len(macaroons) + 1
      root == RootMacaroon(a, id)
  IN  Stored(<< root, ChildMacaroon(root, b, l, id + 1) >>)

(* create_delegation_chain, two levels of it: each level delegates the one   *)
(* before, whoever the specification says it is from.                        *)
CreateChain(a, b, l, c, k) ==
  LET id == Len(macaroons) + 1
      root == RootMacaroon(a, id)
      first == ChildMacaroon(root, b, l, id + 1)
  IN  Stored(<< root, first, ChildMacaroon(first, c, k, id + 2) >>)

MacTick ==
  /\ macTime < MaxMacTime
  /\ macTime' = macTime + 1
  /\ UNCHANGED macaroons

MacNext ==
  \/ \E p \in DOMAIN macaroons, a \in Holders, l \in Limits : DelegateMacaroon(p, a, l)
  \/ \E a, b \in Holders, l \in Limits : DelegateAccess(a, b, l)
  \/ \E a, b, c \in Holders, l, k \in Limits : CreateChain(a, b, l, c, k)
  \/ MacTick

MacSpec == MacInit /\ [][MacNext]_mvars

----------------------------------------------------------------------------

\* _verify_caveat: whether a caveat holds of a request made now.
CaveatHolds(c, r) ==
  CASE Type(c) = "agent_id"         -> r.agent = Value(c)
    [] Type(c) = "resource_prefix"  -> r.resource \in Value(c)
    [] Type(c) = "action_limit"     -> r.action \in Value(c)
    [] Type(c) = "time_before"      -> macTime < Value(c)
    [] Type(c) = "request_count"    -> r.count <= Value(c)
    [] Type(c) = "delegation_depth" -> r.depth <= Value(c)

\* verify
Verifies(m, r) == \A c \in m.caveats : CaveatHolds(c, r)

(* The requests the limits tell apart. *)
MacRequests ==
  [agent : Holders,
   resource : UNION {l.resource : l \in Limits},
   action : UNION {l.actions : l \in Limits},
   count : 0..2, depth : 0..2]

(* "Each caveat can only add restrictions, never remove them": a request a   *)
(* delegated macaroon permits meets every restriction of each macaroon it    *)
(* descends from, but for whom that one was made for, however long the chain. *)
DelegationAttenuates ==
  \A i \in DOMAIN macaroons : \A r \in MacRequests :
    Verifies(macaroons[i], r) =>
      \A j \in DOMAIN macaroons[i].chain :
        \A c \in macaroons[macaroons[i].chain[j]].caveats :
          Type(c) # "agent_id" => CaveatHolds(c, r)

(* The last depth a macaroon carries is the number of delegations behind it. *)
DepthCountsDelegations ==
  \A i \in DOMAIN macaroons :
    \A c \in Depths(macaroons[i].caveats) :
      Level(c) = Len(macaroons[i].chain) - 1 => Value(c) = Level(c)
=============================================================================
