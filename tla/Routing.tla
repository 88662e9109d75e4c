------------------------------ MODULE Routing ------------------------------
(***************************************************************************)
(* In which order a request tries its candidates: the turns of balanced    *)
(* routing (route_hint.rs), the account the administrator prefers, and the *)
(* account a conversation is bound to (conversation_binding.rs), put       *)
(* together by prepare_request_setup; then what the answer does to the     *)
(* binding, and the turn a hybrid key takes among the aggregate APIs when  *)
(* its accounts are used up (proxy.rs).                                    *)
(*                                                                         *)
(* Statements on the database and critical sections of ROUTE_STATE are     *)
(* steps; the route itself is one step, for its reads of the preferred     *)
(* account can differ only in what is logged.  A row of                    *)
(* conversation_bindings is the account it names: its epoch, anchor and    *)
(* times decide nothing here.                                              *)
(***************************************************************************)
EXTENDS Integers, Sequences, FiniteSets, Functions

CONSTANTS
    Requests,
    Kinds,          \* what requests may be: [key, route, conversation, source]
    AccountOrder,   \* the accounts in the order of the candidate pool
    ApiOrder,       \* the aggregate APIs in the order of theirs
    PinnedKeys,     \* keys with an aggregate API of their own, the first of ApiOrder
    Capacity,       \* CODEXMANAGER_ROUTE_STATE_CAPACITY; 0 is no limit
    Expiring,       \* whether CODEXMANAGER_ROUTE_STATE_TTL_SECS is set
    None

Candidates == Range(AccountOrder)
Apis == Range(ApiOrder)

\* A key stands for key_id and model together.
Keys == {k.key : k \in Kinds}
Conversations == {k.conversation : k \in Kinds} \ {None}

\* RouteConversationSource; StickyFallback is treated as NativeConversation.
Source == {"NativeConversation", "PromptCacheKey", "PromptCacheKeyExistingOnly"}
IsPromptCacheKey(source) == source # "NativeConversation"
AllowsInitialBindingCreate(source) == source # "PromptCacheKeyExistingOnly"

ASSUME KindsAssumption ==
    \A k \in Kinds :
       /\ k.route \in {"AccountRotation", "AggregateApi", "HybridAccountFirst"}
       /\ k.source \in Source
ASSUME OrderAssumption ==
    /\ AccountOrder \in Seq(Candidates) /\ IsInjective(AccountOrder)
    /\ ApiOrder \in Seq(Apis) /\ IsInjective(ApiOrder)
ASSUME CapacityAssumption == Capacity \in Nat
ASSUME ExpiringAssumption == Expiring \in BOOLEAN

VARIABLES
    mode,        \* ROUTE_MODE
    turns,       \* next_start_by_key_model, the key seen longest ago first
    preferred,   \* the account marked preferred, or None
    binding,     \* the account of each conversation's row, or None
    pc,
    kind,
    copy,        \* the binding each request has read
    offered,     \* the candidates it was given
    list,        \* those it has left
    named,       \* the conversations whose clients name them in a header
    heads,       \* history: who stood first for each key, by family, since its list last
                 \* changed
    since,       \* history: the keys that have taken a turn since this one did
    served       \* history: the accounts that have answered each conversation

request == <<pc, kind, copy, offered, list>>
turnsTaken == <<turns, heads, since>>
routingVars == <<mode, turnsTaken, preferred, binding, request, named, served>>

Goto(r, label) == pc' = [pc EXCEPT ![r] = label]

\* The lists a pool can yield: its order is fixed, its members come and go.
Before(order, x, y) == \E i, j \in DOMAIN order : i < j /\ order[i] = x /\ order[j] = y
ListsOf(order) ==
    {l \in UNION {[1 .. n -> Range(order)] : n \in 0 .. Len(order)} :
        \A i, j \in DOMAIN l : i < j => Before(order, l[i], l[j])}

Families == {"accounts", "apis"}
NoHeads == [f \in Families |-> [list |-> <<>>, first |-> <<>>]]

RoutingInit ==
    /\ mode \in {"ordered", "balanced"}
    /\ turns = <<>>
    /\ preferred = None
    /\ binding = [c \in Conversations |-> None]
    /\ pc = [r \in Requests |-> "idle"]
    /\ kind = [r \in Requests |-> None]
    /\ copy = [r \in Requests |-> None]
    /\ offered = [r \in Requests |-> {}]
    /\ list = [r \in Requests |-> <<>>]
    /\ named \in SUBSET Conversations
    /\ heads = [k \in Keys |-> NoHeads]
    /\ since = [k \in Keys |-> {}]
    /\ served = [c \in Conversations |-> {}]

-----------------------------------------------------------------------------
(* Turns *)

RotateLeft(l, n) == SubSeq(l, n + 1, Len(l)) \o SubSeq(l, 1, n)

\* rotate_to_account_id
RotateTo(l, a) == RotateLeft(l, CHOOSE n \in 0 .. Len(l) - 1 : l[n + 1] = a)

\* The entry of a key, if it has one; the others; the start it has, by its entry or a new one.
HasEntry(k) == \E i \in DOMAIN turns : turns[i].key = k
Place(k) == CHOOSE i \in DOMAIN turns : turns[i].key = k

Others(k) ==
    IF HasEntry(k) THEN SubSeq(turns, 1, Place(k) - 1) \o SubSeq(turns, Place(k) + 1, Len(turns))
    ELSE turns

Turn(k) == IF HasEntry(k) THEN turns[Place(k)].next ELSE 0

\* Mutant: last_seen is when the entry was made, so that busy keys are evicted too.
SeenWhenMade(k, next) ==
    IF HasEntry(k) THEN [turns EXCEPT ![Place(k)].next = next]
    ELSE Append(turns, [key |-> k, next |-> next])

\* The entry moves to the end: it was seen just now.
Seen(k, next) == Append(Others(k), [key |-> k, next |-> next])

\* Mutant: the capacity is looked at before the new entry is made.
EvictedBefore(entries) ==
    IF Capacity = 0 \/ Len(entries) <= Capacity + 1 THEN entries
    ELSE SubSeq(entries, Len(entries) - Capacity, Len(entries))

\* enforce_capacity_pair
Evicted(entries) ==
    IF Capacity = 0 \/ Len(entries) <= Capacity THEN entries
    ELSE SubSeq(entries, Len(entries) - Capacity + 1, Len(entries))

\* What the list looks like after apply_balanced_round_robin.
Rotated(k, l) == IF Len(l) <= 1 THEN l ELSE RotateLeft(l, Turn(k) % Len(l))

\* History: the last heads of one list, at most one round of them.
Headed(h, l, first) ==
    [list |-> l,
     first |-> IF h.list # l THEN <<first>>
               ELSE Append(IF Len(h.first) = Len(l) THEN Tail(h.first) ELSE h.first, first)]

\* History: nothing to remember, or Capacity others have come since.
Forgotten(j, k) ==
    \/ heads[j] = NoHeads
    \/ Capacity > 0 /\ Cardinality(since[j] \cup {k}) >= Capacity

\* next_start_index, and the rotation by it
TakeTurn(k, family, l) ==
    IF Len(l) <= 1 THEN UNCHANGED turnsTaken
    ELSE /\ turns' = Evicted(Seen(k, ((Turn(k) % Len(l)) + 1) % Len(l)))
         /\ heads' = [j \in Keys |->
              CASE j = k -> [heads[k] EXCEPT ![family] = Headed(@, l, Head(Rotated(k, l)))]
                [] j # k /\ Forgotten(j, k) -> NoHeads
                [] OTHER -> heads[j]]
         /\ since' = [j \in Keys |->
              IF j = k \/ Forgotten(j, k) THEN {} ELSE since[j] \cup {k}]

\* An entry older than the time-to-live is dropped before its next use.
Expire ==
    /\ Expiring /\ turns # <<>>
    /\ turns' = Tail(turns)
    /\ heads' = [heads EXCEPT ![Head(turns).key] = NoHeads]
    /\ since' = [since EXCEPT ![Head(turns).key] = {}]
    /\ UNCHANGED <<mode, preferred, binding, request, named, served>>

-----------------------------------------------------------------------------
(* The administrator *)

\* set_route_strategy.  A turn taken between its store and its critical section is
\* forgotten with the rest, like one taken before both.
SetRouteStrategy(m) ==
    /\ mode' = m
    /\ turns' = <<>>
    /\ heads' = [k \in Keys |-> NoHeads]
    /\ since' = [k \in Keys |-> {}]
    /\ UNCHANGED <<preferred, binding, request, named, served>>

\* set_preferred_account, for an account or for none
SetPreferredAccount(a) ==
    /\ preferred' = a
    /\ UNCHANGED <<mode, turnsTaken, binding, request, named, served>>

\* delete_account: one transaction over all tables
DeleteAccount(a) ==
    /\ preferred' = IF preferred = a THEN None ELSE preferred
    /\ binding' = [c \in Conversations |-> IF binding[c] = a THEN None ELSE binding[c]]
    /\ UNCHANGED <<mode, turnsTaken, request, named, served>>

-----------------------------------------------------------------------------
(* A request *)

Finished(r) ==
    /\ Goto(r, "idle")
    /\ kind' = [kind EXCEPT ![r] = None]
    /\ copy' = [copy EXCEPT ![r] = None]
    /\ offered' = [offered EXCEPT ![r] = {}]
    /\ list' = [list EXCEPT ![r] = <<>>]

\* load_conversation_binding, during validation
Begin(r, k) ==
    /\ pc[r] = "idle"
    /\ k.conversation # None => (k.conversation \in named <=> ~IsPromptCacheKey(k.source))
    /\ kind' = [kind EXCEPT ![r] = k]
    /\ copy' = [copy EXCEPT ![r] = IF k.conversation = None THEN None ELSE binding[k.conversation]]
    /\ Goto(r, IF k.route = "AggregateApi" THEN "apis" ELSE "accounts")
    /\ UNCHANGED <<mode, turnsTaken, preferred, binding, offered, list, named, served>>

\* The account put first whatever the strategy: the preferred one, else the bound one.
Pinned(r, pool) ==
    CASE preferred \in Range(pool) -> preferred
      [] preferred \notin Range(pool) /\ copy[r] \in Range(pool) -> copy[r]
      [] OTHER -> None

\* prepare_conversation_routing_with_source and apply_candidate_rotation
Route(r, pool) ==
    /\ pc[r] = "accounts" /\ pool # <<>>
    /\ offered' = [offered EXCEPT ![r] = Range(pool)]
    /\ \/ /\ Pinned(r, pool) # None
          /\ list' = [list EXCEPT ![r] = RotateTo(pool, Pinned(r, pool))]
          /\ UNCHANGED turnsTaken
       \/ /\ Pinned(r, pool) = None /\ mode = "ordered"
          /\ list' = [list EXCEPT ![r] = pool]
          /\ UNCHANGED turnsTaken
       \/ /\ Pinned(r, pool) = None /\ mode = "balanced"
          /\ list' = [list EXCEPT ![r] = Rotated(kind[r].key, pool)]
          /\ TakeTurn(kind[r].key, "accounts", pool)
    /\ Goto(r, "trying")
    /\ UNCHANGED <<mode, preferred, binding, kind, copy, named, served>>

\* No account is selectable: a hybrid key goes on to its aggregate APIs.
NoAccount(r) ==
    /\ pc[r] = "accounts"
    /\ IF kind[r].route = "HybridAccountFirst"
       THEN Goto(r, "apis") /\ UNCHANGED <<kind, copy, offered, list>>
       ELSE Finished(r)
    /\ UNCHANGED <<mode, turnsTaken, preferred, binding, named, served>>

\* The first candidate left is skipped or fails over to the next.
FailOver(r) ==
    /\ pc[r] = "trying"
    /\ \/ /\ Len(list[r]) > 1
          /\ list' = [list EXCEPT ![r] = Tail(@)]
          /\ UNCHANGED <<pc, kind, copy, offered>>
       \/ /\ Len(list[r]) = 1 /\ kind[r].route = "HybridAccountFirst"
          /\ list' = [list EXCEPT ![r] = <<>>]
          /\ Goto(r, "apis")
          /\ UNCHANGED <<kind, copy, offered>>
       \/ /\ Len(list[r]) = 1 /\ kind[r].route # "HybridAccountFirst"
          /\ Finished(r)
    /\ UNCHANGED <<mode, turnsTaken, preferred, binding, named, served>>

\* The sequence ends with an answer of its own: out of time, or a terminal error.
RespondTerminal(r) ==
    /\ pc[r] = "trying"
    /\ Finished(r)
    /\ UNCHANGED <<mode, turnsTaken, preferred, binding, named, served>>

\* apply_gateway_route_strategy_to_aggregate_candidates; what follows concerns nobody else.
RotateApis(r, apis) ==
    /\ pc[r] = "apis"
    /\ LET mine == kind[r].key \in PinnedKeys /\ apis # <<>> /\ Head(apis) = Head(ApiOrder)
       IN  IF mode = "balanced"
           THEN TakeTurn(kind[r].key, "apis", IF mine THEN Tail(apis) ELSE apis)
           ELSE UNCHANGED turnsTaken
    /\ Finished(r)
    /\ UNCHANGED <<mode, preferred, binding, named, served>>

\* Mutant: any answer counts.
AnyStatus(status) == TRUE

Succeeded(status) == status = "success"

\* Mutant: the touch writes the row it was read from back.
WriteBack(c, a) == [binding EXCEPT ![c] = a]

\* touch_conversation_binding: WHERE account_id is the account's; times are left out.
Touch(c, a) == binding

\* Mutant: a bound account that has failed counts as not selectable.
StillLeft(r) == copy[r] \in Range(list[r])

BoundAccountSelectable(r) == copy[r] \in offered[r]

\* record_conversation_binding_terminal_response
Recorded(r, status) ==
    LET c == kind[r].conversation
        source == kind[r].source
        a == Head(list[r])
        kept == \/ c = None
                \/ ~Succeeded(status)
                \/ copy[r] # None /\ IsPromptCacheKey(source) /\ BoundAccountSelectable(r)
                \/ copy[r] = None /\ ~AllowsInitialBindingCreate(source)
    IN  IF c # None /\ copy[r] = a THEN Touch(c, a)
        ELSE IF kept THEN binding ELSE [binding EXCEPT ![c] = a]

\* The answer of the first candidate left is delivered.
Answer(r, status) ==
    /\ pc[r] = "trying"
    /\ binding' = Recorded(r, status)
    /\ served' = IF kind[r].conversation = None \/ status # "success" THEN served
                 ELSE [served EXCEPT ![kind[r].conversation] = @ \cup {Head(list[r])}]
    /\ Finished(r)
    /\ UNCHANGED <<mode, turnsTaken, preferred, named>>

-----------------------------------------------------------------------------
RoutingNext ==
    \/ Expire
    \/ \E m \in {"ordered", "balanced"} : SetRouteStrategy(m)
    \/ \E a \in Candidates \cup {None} : SetPreferredAccount(a)
    \/ \E a \in Candidates : DeleteAccount(a)
    \/ \E r \in Requests :
          \/ \E k \in Kinds : Begin(r, k)
          \/ \E pool \in ListsOf(AccountOrder) : Route(r, pool)
          \/ NoAccount(r)
          \/ FailOver(r)
          \/ RespondTerminal(r)
          \/ \E apis \in ListsOf(ApiOrder) : RotateApis(r, apis)
          \/ \E status \in {"success", "error"} : Answer(r, status)

RoutingSpec == RoutingInit /\ [][RoutingNext]_routingVars

-----------------------------------------------------------------------------
(* Properties *)

Heads == [list : Seq(Candidates \cup Apis), first : Seq(Candidates \cup Apis)]

TurnsTypeOK ==
    /\ turns \in Seq([key : Keys, next : Nat])
    /\ \A i, j \in DOMAIN turns : turns[i].key = turns[j].key => i = j
    /\ Capacity > 0 => Len(turns) <= Capacity
    /\ heads \in [Keys -> [Families -> Heads]]
    /\ since \in [Keys -> SUBSET Keys]

RequestTypeOK(r) ==
    /\ pc[r] # "idle" => kind[r] \in Kinds
    /\ pc[r] \in {"accounts", "trying"} => kind[r].route # "AggregateApi"
    /\ pc[r] = "apis" => kind[r].route # "AccountRotation"
    /\ pc[r] = "trying" => list[r] # <<>>
    /\ Range(list[r]) \subseteq offered[r]
    /\ IsInjective(list[r])

RequestsTypeOK ==
    /\ pc \in [Requests -> {"idle", "accounts", "trying", "apis"}]
    /\ kind \in [Requests -> Kinds \cup {None}]
    /\ copy \in [Requests -> Candidates \cup {None}]
    /\ offered \in [Requests -> SUBSET Candidates]
    /\ list \in [Requests -> Seq(Candidates)]
    /\ \A r \in Requests : RequestTypeOK(r)

RoutingTypeOK ==
    /\ mode \in {"ordered", "balanced"}
    /\ TurnsTypeOK
    /\ preferred \in Candidates \cup {None}
    /\ binding \in [Conversations -> Candidates \cup {None}]
    /\ RequestsTypeOK
    /\ named \subseteq Conversations
    /\ served \in [Conversations -> SUBSET Candidates]

InTurn(k, f) == IsInjective(heads[k][f].first)

\* The keys that advance their one start for accounts and for aggregate APIs: hybrid ones,
\* and those that are given another strategy while they are used.
OneStartForTwo ==
    {k.key : k \in {x \in Kinds : \/ x.route = "HybridAccountFirst"
                                 \/ \E y \in Kinds : y.key = x.key /\ y.route # x.route}}

\* Balanced routing gives every candidate of an unchanged list its turn before anyone
\* has a second one, whatever requests of other keys, bound conversations and the
\* preferred account do in between, and as long as the key's state is kept (README of
\* the gateway, "balanced": strict round-robin, isolated by key and model).  Not so for a
\* hybrid key: its accounts and the aggregate APIs it falls back to advance one and the
\* same start, so that a request can advance it twice (aggregate_api.rs:461).
EveryoneInTurn == \A k \in Keys \ OneStartForTwo, f \in Families : InTurn(k, f)

\* A conversation is bound only to an account that has answered it.
BoundToWhoServed == \A c \in Conversations : binding[c] # None => binding[c] \in served[c]

Moved(c) == binding[c] # None /\ binding'[c] \notin {None, binding[c]}
MovedBy(c, r) == pc[r] = "trying" /\ pc'[r] = "idle" /\ kind[r].conversation = c

\* A late answer of the account a request found itself bound to does not move the
\* conversation back to it after another request has moved it on.
MovedOnlyByFailover ==
    [][\A c \in Conversations :
          Moved(c) => \E r \in Requests : MovedBy(c, r) /\ copy[r] # binding'[c]]_routingVars

\* A conversation known by its prompt cache key leaves its account, with the upstream
\* cache that is there, only for requests to which that account was not offered, or
\* that had read an older binding (the tests prompt_cache_route_binding_*).
CacheConversationStays ==
    [][\A c \in Conversations :
          Moved(c) => \E r \in Requests :
                         /\ MovedBy(c, r)
                         /\ IsPromptCacheKey(kind[r].source) /\ copy[r] = binding[c]
                               => binding[c] \notin offered[r]]_routingVars

=============================================================================
