-------------------------- MODULE LoadBalancerProofs --------------------------
(***************************************************************************)
(* Theorems about LoadBalancer, for any finite number of conversations and *)
(* servers, any size of the cache and any number of pool changes: a count  *)
(* never exceeds the turns it stands for, a new conversation goes where    *)
(* the fewest turns are, and a conversation leaves its server only for one *)
(* of the two reasons there are.                                           *)
(***************************************************************************)
EXTENDS LoadBalancer, FiniteSetTheorems, TLAPS

(* A turn is served by a server it got, after its earlier release arrived. *)
Serving ==
  \A c \in Conversations : phase[c] = "serving" => owed[c] = NoServer /\ server[c] \in Servers

(* What the cache remembers is where the conversation was last; what it      *)
(* forgot was last served before as many others as it can hold.              *)
Remembered ==
  \A c \in Conversations :
    /\ c \in Cached => server[c] = cache[c]
    /\ c \notin Cached /\ server[c] # NoServer => Cardinality(since[c]) >= MaxCacheSize

IInv == TypeOK /\ Serving /\ LoadIsTrue /\ Remembered

-------------------------------------------------------------------------------
(* Sets of conversations are finite, so their sizes are numbers. *)
LEMMA FiniteConversations ==
  ASSUME NEW S \in SUBSET Conversations
  PROVE  IsFiniteSet(S) /\ Cardinality(S) \in Nat
  BY BalancerAssumption, FS_Subset, FS_CardinalityType

LEMMA HoldingFinite ==
  ASSUME NEW s
  PROVE  Holding(s) \in SUBSET Conversations /\ IsFiniteSet(Holding(s)) /\ Cardinality(Holding(s)) \in Nat
  <1>1. Holding(s) \in SUBSET Conversations
    BY DEF Holding
  <1> QED
    BY <1>1, FiniteConversations

LEMMA InitIInv == Init => IInv
  <1> SUFFICES ASSUME Init PROVE IInv
    OBVIOUS
  <1>0. /\ phase = [c \in Conversations |-> "idle"]
        /\ server = [c \in Conversations |-> NoServer]
        /\ owed = [c \in Conversations |-> NoServer]
        /\ since = [c \in Conversations |-> {}]
        /\ changes = 0 /\ rejoined = {}
    BY DEF Init
  <1>1. TypeOK
    <2>1. PICK S \in (SUBSET Servers) \ {{}} : inflight = [s \in S |-> 0]
      BY DEF Init
    <2>2. inflight \in [S -> Nat]
      BY <2>1
    <2>3. cache \in [{} -> Servers]
      BY DEF Init
    <2>4. /\ inflight \in UNION {[T -> Nat] : T \in SUBSET Servers}
          /\ cache \in UNION {[C -> Servers] : C \in SUBSET Conversations}
      BY <2>2, <2>3
    <2> QED
      BY <1>0, <2>4, BalancerAssumption DEF TypeOK
  <1>2. Serving
    BY <1>0 DEF Serving
  <1>3. LoadIsTrue
    <2>1. \A s \in Pool : inflight[s] = 0 /\ s \in Servers
      BY DEF Init, Pool
    <2>2. \A s \in Servers : Holding(s) = {}
      BY <1>0, BalancerAssumption DEF Holding
    <2>3. Cardinality({}) = 0
      BY FS_EmptySet
    <2> QED
      BY <2>1, <2>2, <2>3 DEF LoadIsTrue
  <1>4. Remembered
    BY <1>0 DEF Init, Remembered, Cached
  <1> QED
    BY <1>1, <1>2, <1>3, <1>4 DEF IInv

-------------------------------------------------------------------------------
(* The steps of a client. *)

LEMMA AskStep ==
  ASSUME IInv, NEW c \in Conversations, Ask(c)
  PROVE  IInv'
  <1> USE DEF IInv, Ask
  <1>1. TypeOK'
    BY DEF TypeOK
  <1>2. Serving'
    BY DEF Serving, TypeOK
  <1>3. LoadIsTrue'
    <2>1. ASSUME NEW s PROVE Holding(s)' = Holding(s)
      BY DEF Holding, TypeOK
    <2> QED
      BY <2>1 DEF LoadIsTrue, Pool
  <1>4. Remembered'
    BY DEF Remembered, Cached
  <1> QED
    BY <1>1, <1>2, <1>3, <1>4

LEMMA DoneStep ==
  ASSUME IInv, NEW c \in Conversations, Done(c)
  PROVE  IInv'
  <1> USE DEF IInv, Done
  <1>1. TypeOK'
    BY DEF TypeOK
  <1>2. Serving'
    BY DEF Serving, TypeOK
  <1>3. LoadIsTrue'
    <2>1. ASSUME NEW s \in Servers PROVE Holding(s)' = Holding(s)
      BY BalancerAssumption DEF Holding, TypeOK, Serving
    <2>2. Pool \subseteq Servers
      BY DEF Pool, TypeOK
    <2> QED
      BY <2>1, <2>2 DEF LoadIsTrue, Pool
  <1>4. Remembered'
    BY DEF Remembered, Cached
  <1> QED
    BY <1>1, <1>2, <1>3, <1>4

-------------------------------------------------------------------------------
(* The steps of the actor. *)

LEMMA RememberIs ==
  ASSUME NEW c \in Conversations, NEW s
  PROVE  /\ c \in DOMAIN Remember(c, s) /\ Remember(c, s)[c] = s
         /\ DOMAIN Remember(c, s) \subseteq Cached \cup {c}
         /\ \A d \in DOMAIN Remember(c, s) \ {c} : Remember(c, s)[d] = cache[d]
  BY DEF Remember

(* A conversation that the cache forgets in favour of another was last served *)
(* before all that it keeps, and before that one.                             *)
LEMMA ForgottenIsOld ==
  ASSUME TypeOK, NEW c \in Conversations, NEW s, NEW d \in Cached, d # c,
         d \notin DOMAIN Remember(c, s)
  PROVE  Cardinality(since[d] \cup {c}) >= MaxCacheSize
  <1>1. c \notin Cached /\ Cardinality(Cached) >= MaxCacheSize /\ d \in Oldest
    BY DEF Remember
  <1>2. (Cached \ {d}) \cup {c} \subseteq since[d] \cup {c}
    BY <1>1 DEF Oldest
  <1>3. Cached \in SUBSET Conversations
    BY DEF TypeOK, Cached
  <1>4. d \in Conversations /\ since[d] \cup {c} \in SUBSET Conversations
    BY <1>3 DEF TypeOK
  <1>5. Cardinality(Cached \ {d}) = Cardinality(Cached) - 1
    BY <1>3, FiniteConversations, FS_RemoveElement
  <1>6. Cardinality((Cached \ {d}) \cup {c}) = Cardinality(Cached \ {d}) + 1
    BY <1>1, <1>3, FiniteConversations, FS_AddElement
  <1>7. Cardinality((Cached \ {d}) \cup {c}) <= Cardinality(since[d] \cup {c})
    BY <1>2, <1>4, FiniteConversations, FS_Subset
  <1>8. Cardinality(Cached) \in Nat /\ Cardinality(since[d] \cup {c}) \in Nat
    BY <1>3, <1>4, FiniteConversations
  <1> QED
    BY <1>1, <1>5, <1>6, <1>7, <1>8, BalancerAssumption

LEMMA ChoicesInPool == ASSUME NEW c PROVE Choices(c) \subseteq Pool
  BY DEF Choices, Sticky, LeastLoaded

LEMMA AcquireStep ==
  ASSUME IInv, NEW c \in Conversations, Acquire(c)
  PROVE  IInv'
  <1> USE DEF IInv
  <1>0. PICK s \in Choices(c) : /\ inflight' = [inflight EXCEPT ![s] = @ + 1]
                                /\ cache' = Remember(c, s)
                                /\ server' = [server EXCEPT ![c] = s]
    BY DEF Acquire
  <1>s. s \in Pool /\ s \in Servers /\ s # NoServer
    BY ChoicesInPool, BalancerAssumption DEF Pool, TypeOK
  <1>r. /\ phase[c] = "asking" /\ owed[c] = NoServer
        /\ phase' = [phase EXCEPT ![c] = "serving"]
        /\ since' = [d \in Conversations |-> IF d = c THEN {} ELSE since[d] \cup {c}]
        /\ UNCHANGED <<owed, changes, rejoined>>
    BY DEF Acquire
  <1>1. TypeOK'
    <2>1. inflight' \in UNION {[S -> Nat] : S \in SUBSET Servers}
      BY <1>0, <1>s DEF TypeOK, Pool
    <2>2. cache' \in UNION {[C -> Servers] : C \in SUBSET Conversations}
      <3>1. DOMAIN cache' \in SUBSET Conversations
        BY <1>0, RememberIs DEF TypeOK, Cached
      <3>2. cache' = [d \in DOMAIN cache' |-> cache'[d]]
        BY <1>0 DEF Remember
      <3>3. \A d \in DOMAIN cache' : cache'[d] \in Servers
        BY <1>0, <1>s, RememberIs DEF TypeOK, Cached
      <3>4. cache' \in [DOMAIN cache' -> Servers]
        BY <3>2, <3>3
      <3> QED
        BY <3>1, <3>4
    <2>3. since' \in [Conversations -> SUBSET Conversations]
      BY <1>r DEF TypeOK
    <2> QED
      BY <1>0, <1>s, <1>r, <2>1, <2>2, <2>3 DEF TypeOK
  <1>2. Serving'
    BY <1>0, <1>s, <1>r DEF Serving, TypeOK
  <1>3. LoadIsTrue'
    <2>1. Holding(s)' = Holding(s) \cup {c} /\ c \notin Holding(s)
      BY <1>0, <1>s, <1>r DEF Holding, TypeOK
    <2>2. Cardinality(Holding(s)') = Cardinality(Holding(s)) + 1
      BY <2>1, HoldingFinite, FS_AddElement
    <2>3. ASSUME NEW t \in Servers \ {s} PROVE Holding(t)' = Holding(t)
      BY <1>0, <1>s, <1>r, <2>3, BalancerAssumption DEF Holding, TypeOK
    <2>4. Pool' = Pool /\ Pool \subseteq Servers
      BY <1>0 DEF Pool, TypeOK
    <2>5. inflight'[s] = inflight[s] + 1 /\ inflight[s] \in Nat
      BY <1>0, <1>s DEF TypeOK, Pool
    <2>6. \A t \in Pool \ {s} : inflight'[t] = inflight[t]
      BY <1>0 DEF TypeOK, Pool
    <2>7. ASSUME NEW t \in Pool
          PROVE  /\ inflight'[t] <= Cardinality(Holding(t)')
                 /\ t \notin rejoined' => inflight'[t] = Cardinality(Holding(t)')
      <3>1. CASE t = s
        BY <3>1, <1>r, <2>2, <2>5, HoldingFinite DEF LoadIsTrue
      <3>2. CASE t # s
        BY <3>2, <1>r, <2>3, <2>4, <2>6 DEF LoadIsTrue
      <3> QED
        BY <3>1, <3>2
    <2> QED
      BY <2>4, <2>7 DEF LoadIsTrue
  <1>4. Remembered'
    <2> SUFFICES ASSUME NEW d \in Conversations
                 PROVE  /\ d \in Cached' => server'[d] = cache'[d]
                        /\ d \notin Cached' /\ server'[d] # NoServer
                             => Cardinality(since'[d]) >= MaxCacheSize
      BY DEF Remembered
    <2>1. CASE d = c
      BY <2>1, <1>0, RememberIs DEF Cached, TypeOK
    <2>2. CASE d # c
      <3>1. server'[d] = server[d] /\ since'[d] = since[d] \cup {c}
        BY <2>2, <1>0, <1>r DEF TypeOK
      <3>2. d \in Cached' => d \in Cached /\ cache'[d] = cache[d]
        BY <2>2, <1>0, RememberIs DEF Cached
      <3>3. CASE d \in Cached'
        BY <3>1, <3>2, <3>3 DEF Remembered
      <3>4. CASE d \notin Cached' /\ d \in Cached
        BY <3>1, <3>4, <2>2, <1>0, ForgottenIsOld DEF Cached
      <3>5. CASE d \notin Cached /\ d \notin Cached' /\ server[d] # NoServer
        <4>1. Cardinality(since[d]) >= MaxCacheSize
          BY <3>5 DEF Remembered
        <4>2. since[d] \cup {c} \in SUBSET Conversations /\ since[d] \in SUBSET Conversations
          BY DEF TypeOK
        <4>3. Cardinality(since[d]) <= Cardinality(since[d] \cup {c})
          BY <4>2, FiniteConversations, FS_Subset
        <4> QED
          BY <3>1, <3>5, <4>1, <4>2, <4>3, FiniteConversations, BalancerAssumption
      <3> QED
        BY <3>1, <3>3, <3>4, <3>5
    <2> QED
      BY <2>1, <2>2
  <1> QED
    BY <1>1, <1>2, <1>3, <1>4

LEMMA RefuseStep ==
  ASSUME IInv, NEW c \in Conversations, Refuse(c)
  PROVE  IInv'
  <1> USE DEF IInv, Refuse
  <1>0. cache' = Without(c) /\ Cached' = Cached \ {c} /\ \A d \in Cached' : cache'[d] = cache[d]
    BY DEF Without, Cached
  <1>1. TypeOK'
    <2>1. cache' \in [Cached' -> Servers] /\ Cached' \in SUBSET Conversations
      BY <1>0 DEF TypeOK, Without, Cached
    <2>2. cache' \in UNION {[C -> Servers] : C \in SUBSET Conversations}
      BY <2>1
    <2> QED
      BY <2>2 DEF TypeOK
  <1>2. Serving'
    BY DEF Serving, TypeOK
  <1>3. LoadIsTrue'
    <2>1. ASSUME NEW s PROVE Holding(s)' = Holding(s)
      BY DEF Holding, TypeOK
    <2> QED
      BY <2>1 DEF LoadIsTrue, Pool
  <1>4. Remembered'
    BY <1>0 DEF Remembered, TypeOK
  <1> QED
    BY <1>1, <1>2, <1>3, <1>4

LEMMA ReleaseStep ==
  ASSUME IInv, NEW c \in Conversations, Release(c)
  PROVE  IInv'
  <1> USE DEF IInv
  <1>0. PICK o : /\ o = owed[c] /\ o # NoServer
                 /\ owed' = [owed EXCEPT ![c] = NoServer]
                 /\ inflight' = [s \in Pool |-> IF s = o /\ inflight[s] > 0
                                                  THEN inflight[s] - 1 ELSE inflight[s]]
                 /\ UNCHANGED <<cache, phase, server, since, changes, rejoined>>
    BY DEF Release
  <1>p. Pool' = Pool /\ Pool \in SUBSET Servers /\ \A s \in Pool : inflight[s] \in Nat
    BY <1>0 DEF Pool, TypeOK
  <1>1. TypeOK'
    <2>1. \A s \in Pool : inflight'[s] \in Nat
      BY <1>0, <1>p
    <2>2. inflight' \in [Pool -> Nat]
      BY <1>0, <2>1
    <2>3. inflight' \in UNION {[S -> Nat] : S \in SUBSET Servers}
      BY <2>2, <1>p
    <2> QED
      BY <1>0, <2>3 DEF TypeOK
  <1>2. Serving'
    BY <1>0 DEF Serving, TypeOK
  <1>3. LoadIsTrue'
    <2>1. phase[c] # "serving"
      BY <1>0 DEF Serving
    <2>2. Holding(o)' = Holding(o) \ {c} /\ c \in Holding(o)
      BY <1>0, <2>1 DEF Holding, TypeOK
    <2>3. Cardinality(Holding(o)') = Cardinality(Holding(o)) - 1
      BY <2>2, HoldingFinite, FS_RemoveElement
    <2>4. ASSUME NEW t \in Servers, t # o PROVE Holding(t)' = Holding(t)
      BY <1>0, <2>4, BalancerAssumption DEF Holding, TypeOK
    <2>5. Cardinality(Holding(o)) >= 1
      <3>1. Holding(o)' \in SUBSET Conversations
        BY DEF Holding
      <3> QED
        BY <3>1, <2>3, HoldingFinite, FiniteConversations
    <2>6. ASSUME NEW t \in Pool
          PROVE  /\ inflight'[t] <= Cardinality(Holding(t)')
                 /\ t \notin rejoined' => inflight'[t] = Cardinality(Holding(t)')
      <3>1. CASE t = o
        BY <3>1, <1>0, <1>p, <2>3, <2>5, HoldingFinite DEF LoadIsTrue
      <3>2. CASE t # o
        BY <3>2, <1>0, <1>p, <2>4 DEF LoadIsTrue
      <3> QED
        BY <3>1, <3>2
    <2> QED
      BY <1>p, <2>6 DEF LoadIsTrue
  <1>4. Remembered'
    BY <1>0 DEF Remembered, Cached
  <1> QED
    BY <1>1, <1>2, <1>3, <1>4

-------------------------------------------------------------------------------
(* The steps of the pool. *)

LEMMA AddStep ==
  ASSUME IInv, NEW S \in SUBSET Servers, AddServers(S)
  PROVE  IInv'
  <1> USE DEF IInv
  <1>0. /\ inflight' = [s \in Pool \cup S |-> IF s \in S THEN 0 ELSE inflight[s]]
        /\ rejoined' = rejoined \cup {s \in S : Holding(s) # {}}
        /\ changes' = changes + 1 /\ changes < MaxPoolChanges
        /\ UNCHANGED <<cache, since, calls>>
    BY DEF AddServers
  <1>p. Pool \in SUBSET Servers /\ \A s \in Pool : inflight[s] \in Nat
    BY DEF Pool, TypeOK
  <1>1. TypeOK'
    <2>1. inflight' \in [Pool \cup S -> Nat]
      BY <1>0, <1>p
    <2>2. inflight' \in UNION {[T -> Nat] : T \in SUBSET Servers}
      BY <2>1, <1>p
    <2>3. changes' \in 0 .. MaxPoolChanges /\ rejoined' \subseteq Servers
      BY <1>0, BalancerAssumption DEF TypeOK
    <2> QED
      BY <1>0, <2>2, <2>3 DEF TypeOK, calls
  <1>2. Serving'
    BY <1>0 DEF Serving, calls
  <1>3. LoadIsTrue'
    <2>1. ASSUME NEW s PROVE Holding(s)' = Holding(s)
      BY <1>0 DEF Holding, calls
    <2>2. ASSUME NEW s \in Pool'
          PROVE  /\ inflight'[s] <= Cardinality(Holding(s))
                 /\ s \notin rejoined' => inflight'[s] = Cardinality(Holding(s))
      <3>1. CASE s \in S
        <4>1. inflight'[s] = 0
          BY <3>1, <1>0
        <4>2. s \notin rejoined' => Holding(s) = {}
          BY <3>1, <1>0
        <4>3. Cardinality({}) = 0
          BY FS_EmptySet
        <4> QED
          BY <4>1, <4>2, <4>3, HoldingFinite
      <3>2. CASE s \notin S
        BY <3>2, <1>0 DEF LoadIsTrue, Pool
      <3> QED
        BY <3>1, <3>2
    <2> QED
      BY <2>1, <2>2 DEF LoadIsTrue
  <1>4. Remembered'
    BY <1>0 DEF Remembered, Cached, calls
  <1> QED
    BY <1>1, <1>2, <1>3, <1>4

LEMMA RemoveStep ==
  ASSUME IInv, NEW S \in SUBSET Servers, RemoveServers(S)
  PROVE  IInv'
  <1> USE DEF IInv
  <1>0. /\ inflight' = [s \in Pool \ S |-> inflight[s]]
        /\ changes' = changes + 1 /\ changes < MaxPoolChanges
        /\ UNCHANGED <<cache, since, calls, rejoined>>
    BY DEF RemoveServers
  <1>p. Pool \in SUBSET Servers /\ \A s \in Pool : inflight[s] \in Nat
    BY DEF Pool, TypeOK
  <1>1. TypeOK'
    <2>1. inflight' \in [Pool \ S -> Nat]
      BY <1>0, <1>p
    <2>2. inflight' \in UNION {[T -> Nat] : T \in SUBSET Servers}
      BY <2>1, <1>p
    <2>3. changes' \in 0 .. MaxPoolChanges
      BY <1>0, BalancerAssumption DEF TypeOK
    <2> QED
      BY <1>0, <2>2, <2>3 DEF TypeOK, calls
  <1>2. Serving'
    BY <1>0 DEF Serving, calls
  <1>3. LoadIsTrue'
    <2>1. ASSUME NEW s PROVE Holding(s)' = Holding(s)
      BY <1>0 DEF Holding, calls
    <2> QED
      BY <1>0, <2>1 DEF LoadIsTrue, Pool
  <1>4. Remembered'
    BY <1>0 DEF Remembered, Cached, calls
  <1> QED
    BY <1>1, <1>2, <1>3, <1>4

-------------------------------------------------------------------------------
LEMMA StutterStep == IInv /\ UNCHANGED vars => IInv'
  <1> SUFFICES ASSUME IInv, UNCHANGED vars PROVE IInv'
    OBVIOUS
  <1> USE DEF IInv, vars, calls
  <1>1. TypeOK' /\ Serving' /\ Remembered'
    BY DEF TypeOK, Serving, Remembered, Cached
  <1>2. LoadIsTrue'
    <2>1. ASSUME NEW s PROVE Holding(s)' = Holding(s)
      BY DEF Holding
    <2> QED
      BY <2>1 DEF LoadIsTrue, Pool
  <1> QED
    BY <1>1, <1>2

LEMMA NextStep == IInv /\ [Next]_vars => IInv'
  <1> SUFFICES ASSUME IInv, [Next]_vars PROVE IInv'
    OBVIOUS
  <1>1. CASE \E c \in Conversations : Ask(c) \/ Done(c)
    BY <1>1, AskStep, DoneStep
  <1>2. CASE Actor
    BY <1>2, AcquireStep, RefuseStep, ReleaseStep DEF Actor
  <1>3. CASE Scale
    BY <1>3, AddStep, RemoveStep DEF Scale
  <1>4. CASE UNCHANGED vars
    BY <1>4, StutterStep
  <1> QED
    BY <1>1, <1>2, <1>3, <1>4 DEF Next

(* The inductive invariant holds in every reachable state: types, counts, and *)
(* what cache and clients know of each other.                                 *)
THEOREM BalancerInvariance == Spec => []IInv
  BY InitIInv, NextStep, PTL DEF Spec

(* The count of a server is the number of turns that hold it, and never more, *)
(* however releases are delayed and servers leave and join.                   *)
THEOREM CountsAreTrue == Spec => []LoadIsTrue
  <1>1. IInv => LoadIsTrue
    BY DEF IInv
  <1> QED
    BY <1>1, BalancerInvariance, PTL

(* A new conversation goes to a server that holds no more turns than another, *)
(* as long as no server joined in the middle of turns.                        *)
THEOREM NewLeastLoaded == Spec => NewGoesLeastLoaded
  <1> DEFINE A == \A c \in Conversations :
                   Acquire(c) /\ server[c] = NoServer /\ rejoined = {}
                     => \A t \in Pool :
                          Cardinality(Holding(server'[c])) <= Cardinality(Holding(t))
  <1>1. IInv => A
    <2> SUFFICES ASSUME IInv, NEW c \in Conversations,
                        Acquire(c), server[c] = NoServer, rejoined = {},
                        NEW t \in Pool
                 PROVE  Cardinality(Holding(server'[c])) <= Cardinality(Holding(t))
      OBVIOUS
    <2>1. PICK s \in Choices(c) : server' = [server EXCEPT ![c] = s]
      BY DEF Acquire
    <2>2. c \notin Cached
      BY BalancerAssumption DEF IInv, Remembered, TypeOK, Cached
    <2>3. s \in Pool /\ inflight[s] <= inflight[t]
      BY <2>2 DEF Choices, Sticky, LeastLoaded
    <2>4. server'[c] = s
      BY <2>1 DEF IInv, TypeOK
    <2> QED
      BY <2>3, <2>4 DEF IInv, LoadIsTrue
  <1>2. Spec => [][A]_vars
    BY <1>1, BalancerInvariance, PTL
  <1> QED
    BY <1>2 DEF NewGoesLeastLoaded

(* A conversation leaves its server only after the server left the pool, or   *)
(* once as many others were served in between as the cache can hold.          *)
THEOREM ConversationsStay == Spec => TurnsStay
  <1> DEFINE A == \A c \in Conversations :
                   Acquire(c) /\ server[c] \in Pool /\ Cardinality(since[c]) < MaxCacheSize
                     => server'[c] = server[c]
  <1>1. IInv => A
    <2> SUFFICES ASSUME IInv, NEW c \in Conversations, Acquire(c), server[c] \in Pool,
                        Cardinality(since[c]) < MaxCacheSize
                 PROVE  server'[c] = server[c]
      OBVIOUS
    <2>1. PICK s \in Choices(c) : server' = [server EXCEPT ![c] = s]
      BY DEF Acquire
    <2>2. server[c] # NoServer
      BY BalancerAssumption DEF IInv, TypeOK, Pool
    <2>3. since[c] \in SUBSET Conversations
      BY DEF IInv, TypeOK
    <2>4. c \in Cached /\ server[c] = cache[c]
      BY <2>2, <2>3, FiniteConversations, BalancerAssumption DEF IInv, Remembered
    <2>5. s = server[c]
      BY <2>4 DEF Choices, Sticky
    <2> QED
      BY <2>1, <2>5 DEF IInv, TypeOK
  <1>2. Spec => [][A]_vars
    BY <1>1, BalancerInvariance, PTL
  <1> QED
    BY <1>2 DEF TurnsStay
=============================================================================
