----------------------------- MODULE MCRouting -----------------------------
(* Small instances: two accounts, three keys, of which one has conversations. *)
EXTENDS Routing, TLC

Kind(key, route, conversation, source) ==
    [key |-> key, route |-> route, conversation |-> conversation, source |-> source]

NoConversation(key, route) == Kind(key, route, None, "NativeConversation")

CONSTANTS k1, k2, k3, c1, a1, a2, p1, p2

MCKinds == {
    Kind(k1, "AccountRotation", c1, "PromptCacheKey"),
    Kind(k1, "AccountRotation", c1, "PromptCacheKeyExistingOnly"),
    Kind(k1, "AccountRotation", c1, "NativeConversation"),
    NoConversation(k2, "HybridAccountFirst"),
    NoConversation(k3, "AggregateApi")}

MCAccountOrder == <<a1, a2>>
MCApiOrder == <<p1, p2>>
Symmetry == Permutations(Requests)
=============================================================================
