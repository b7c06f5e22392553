----------------------------- MODULE LoadBalancer -----------------------------
(***************************************************************************)
(* GlobalRequestLoadBalancer and LLMServerClient of                        *)
(* verl/workers/rollout/llm_server.py: one Ray actor that gives every turn *)
(* of every agent loop a server.  A conversation stays with its server     *)
(* while an LRU cache remembers it; a new one goes to the server with the  *)
(* fewest requests in flight.                                              *)
(*                                                                         *)
(* A client awaits acquire_server, generates, and sends release_server     *)
(* without waiting for it.  The actor runs one call at a time; calls of    *)
(* one client arrive in the order it made them, calls of different clients *)
(* in any order.  Servers may join and leave at any moment, while requests *)
(* to them are in flight too.                                              *)
(***************************************************************************)
EXTENDS Integers, FiniteSets

CONSTANTS
  Conversations,  \* request IDs: each has one turn in flight at a time
  Servers,        \* the servers that may be in the pool
  NoServer,       \* no server
  MaxCacheSize,   \* max_cache_size
  MaxPoolChanges  \* bound: how often servers join or leave

ASSUME BalancerAssumption ==
  /\ IsFiniteSet(Conversations) /\ IsFiniteSet(Servers) /\ Servers # {}
  /\ NoServer \notin Servers
  /\ MaxCacheSize \in Nat \ {0} /\ MaxPoolChanges \in Nat

VARIABLES
  inflight,  \* _inflight_requests: the pool is its domain
  cache,     \* _request_id_to_server, a function on the cached conversations
  phase,     \* "idle", "asking" for a server, "serving", or "refused" one
  server,    \* the server of a conversation's latest turn, if it got one
  owed,      \* the server its release_server, still under way, is for
  since,     \* conversations served since this one was last: the order of the cache
  changes,   \* pool changes so far
  rejoined   \* history: servers that joined while turns on them were in flight

calls == <<phase, server, owed>>
vars == <<inflight, cache, since, calls, changes, rejoined>>

Pool == DOMAIN inflight

(* The pool that __init__ is given. *)
Init ==
  /\ \E S \in (SUBSET Servers) \ {{}} : inflight = [s \in S |-> 0]
  /\ cache = [c \in {} |-> NoServer]
  /\ phase = [c \in Conversations |-> "idle"]
  /\ server = [c \in Conversations |-> NoServer]
  /\ owed = [c \in Conversations |-> NoServer]
  /\ since = [c \in Conversations |-> {}]
  /\ changes = 0 /\ rejoined = {}

-------------------------------------------------------------------------------
(* The cache: cachetools' LRUCache as far as it is used. *)

Cached == DOMAIN cache
Without(c) == [d \in Cached \ {c} |-> cache[d]]

OldestLast ==   \* seeded fault: the newest entry goes
  {d \in Cached : since[d] \cap Cached = {}}
Oldest == {d \in Cached : Cached \ {d} \subseteq since[d]}

(* An entry that is read or written becomes the most recent one; where there *)
(* is no room for a new one, the least recent goes.                          *)
Remember(c, s) ==
  LET full == c \notin Cached /\ Cardinality(Cached) >= MaxCacheSize
      kept == IF full THEN Cached \ Oldest ELSE Cached
  IN [d \in kept \cup {c} |-> IF d = c THEN s ELSE cache[d]]

-------------------------------------------------------------------------------
(* The client: generate. *)

Ask(c) ==
  /\ phase[c] \in {"idle", "refused"}
  /\ phase' = [phase EXCEPT ![c] = "asking"]
  /\ UNCHANGED <<inflight, cache, server, owed, since, changes, rejoined>>

DoneUnlessFailed(c) ==   \* seeded fault: no release when the server fails
  /\ phase[c] = "serving"
  /\ phase' = [phase EXCEPT ![c] = "idle"]
  /\ owed' \in {owed, [owed EXCEPT ![c] = server[c]]}
  /\ UNCHANGED <<inflight, cache, server, since, changes, rejoined>>

(* The server answered or failed: the finally clause releases it. *)
Done(c) ==
  /\ phase[c] = "serving"
  /\ phase' = [phase EXCEPT ![c] = "idle"]
  /\ owed' = [owed EXCEPT ![c] = server[c]]
  /\ UNCHANGED <<inflight, cache, server, since, changes, rejoined>>

-------------------------------------------------------------------------------
(* The actor. *)

LeastLoaded == {s \in Pool : \A t \in Pool : inflight[s] <= inflight[t]}
Sticky(c) == c \in Cached /\ cache[c] \in Pool
ChoicesIgnoringLoad(c) == IF Sticky(c) THEN {cache[c]} ELSE Pool   \* seeded fault
Choices(c) == IF Sticky(c) THEN {cache[c]} ELSE LeastLoaded

(* acquire_server.  A client's earlier release has arrived before.  min takes *)
(* the first of the least loaded in the order of the dict, which is any.      *)
Acquire(c) ==
  /\ phase[c] = "asking" /\ owed[c] = NoServer
  /\ \E s \in Choices(c) :
       /\ inflight' = [inflight EXCEPT ![s] = @ + 1]
       /\ cache' = Remember(c, s)
       /\ server' = [server EXCEPT ![c] = s]
  /\ phase' = [phase EXCEPT ![c] = "serving"]
  /\ since' = [d \in Conversations |-> IF d = c THEN {} ELSE since[d] \cup {c}]
  /\ UNCHANGED <<owed, changes, rejoined>>

RefuseRetries(c) ==   \* seeded fault: asks again until a server joins
  /\ phase[c] = "asking" /\ owed[c] = NoServer
  /\ Choices(c) = {}
  /\ cache' = Without(c)
  /\ server' = [server EXCEPT ![c] = NoServer]
  /\ UNCHANGED <<inflight, phase, owed, since, changes, rejoined>>

(* acquire_server with an empty pool: the stale entry is gone, and the error *)
(* leaves generate.                                                          *)
Refuse(c) ==
  /\ phase[c] = "asking" /\ owed[c] = NoServer
  /\ Choices(c) = {}
  /\ cache' = Without(c)
  /\ phase' = [phase EXCEPT ![c] = "refused"]
  /\ server' = [server EXCEPT ![c] = NoServer]
  /\ UNCHANGED <<inflight, owed, since, changes, rejoined>>

(* release_server: a server that has left, or whose count is zero, is left   *)
(* alone.                                                                    *)
Release(c) ==
  /\ owed[c] # NoServer
  /\ inflight' = [s \in Pool |-> IF s = owed[c] /\ inflight[s] > 0
                                   THEN inflight[s] - 1 ELSE inflight[s]]
  /\ owed' = [owed EXCEPT ![c] = NoServer]
  /\ UNCHANGED <<cache, phase, server, since, changes, rejoined>>

(* The turns that hold server s: being served by it, or not yet released. *)
Holding(s) == {c \in Conversations : \/ phase[c] = "serving" /\ server[c] = s
                                     \/ owed[c] = s}

(* add_servers: the count of a server starts at zero, of one that was in the *)
(* pool already as well.                                                     *)
AddServers(S) ==
  /\ changes < MaxPoolChanges
  /\ inflight' = [s \in Pool \cup S |-> IF s \in S THEN 0 ELSE inflight[s]]
  /\ rejoined' = rejoined \cup {s \in S : Holding(s) # {}}
  /\ changes' = changes + 1
  /\ UNCHANGED <<cache, since, calls>>

RemoveServers(S) ==
  /\ changes < MaxPoolChanges
  /\ inflight' = [s \in Pool \ S |-> inflight[s]]
  /\ changes' = changes + 1
  /\ UNCHANGED <<cache, calls, rejoined, since>>

Actor == \E c \in Conversations : Acquire(c) \/ Refuse(c) \/ Release(c)
Scale == \E S \in (SUBSET Servers) \ {{}} : AddServers(S) \/ RemoveServers(S)

Next == Actor \/ Scale \/ \E c \in Conversations : Ask(c) \/ Done(c)

(* The actor goes on with the calls it has got, each in its turn; a server   *)
(* answers or fails.  Nobody has to ask, and nobody has to change the pool.  *)
Spec == /\ Init /\ [][Next]_vars
        /\ \A c \in Conversations : /\ WF_vars(Acquire(c) \/ Refuse(c))
                                    /\ WF_vars(Release(c)) /\ WF_vars(Done(c))

-------------------------------------------------------------------------------
(* The types; a count is never negative. *)
TypeOK ==
  /\ inflight \in UNION {[S -> Nat] : S \in SUBSET Servers}
  /\ cache \in UNION {[C -> Servers] : C \in SUBSET Conversations}
  /\ phase \in [Conversations -> {"idle", "asking", "serving", "refused"}]
  /\ server \in [Conversations -> Servers \cup {NoServer}]
  /\ owed \in [Conversations -> Servers \cup {NoServer}]
  /\ changes \in 0 .. MaxPoolChanges /\ rejoined \subseteq Servers
  /\ since \in [Conversations -> SUBSET Conversations]

(* "Atomic acquire": the count of a server is the number of turns that hold  *)
(* it.  One that joined again in the middle of turns counts too few of them, *)
(* never too many, so no server is shunned for turns that are over.          *)
LoadIsTrue ==
  \A s \in Pool :
    /\ inflight[s] <= Cardinality(Holding(s))
    /\ s \notin rejoined => inflight[s] = Cardinality(Holding(s))

(* "Sticky Session": a conversation leaves its server only after the server  *)
(* left the pool, or once as many others were served in between as the cache *)
(* can hold.                                                                 *)
TurnsStay ==
  [][\A c \in Conversations :
       Acquire(c) /\ server[c] \in Pool /\ Cardinality(since[c]) < MaxCacheSize
         => server'[c] = server[c]]_vars

(* "Least-loaded Selection": the server a new conversation gets holds no     *)
(* more turns than any other, as long as no server joined while turns on it  *)
(* were in flight.                                                           *)
NewGoesLeastLoaded ==
  [][\A c \in Conversations :
       Acquire(c) /\ server[c] = NoServer /\ rejoined = {}
         => \A t \in Pool : Cardinality(Holding(server'[c])) <= Cardinality(Holding(t))]_vars

(* Every turn that asks for a server is answered or refused, whatever        *)
(* happens to the pool.                                                      *)
AskingEnds == \A c \in Conversations : phase[c] = "asking" ~> phase[c] # "asking"
=============================================================================
