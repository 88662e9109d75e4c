----------------------------- MODULE MCWallets -----------------------------
(* Two users, of whom one is the first administrator, and one key. *)
EXTENDS Wallets, TLC

CONSTANTS root, u1, k1

Job(op, u, next, credit) == [op |-> op, user |-> u, next |-> next, key |-> k1, credit |-> credit]

Admin == [role |-> "admin", active |-> TRUE]
Member == [role |-> "member", active |-> TRUE]
Disabled == [role |-> "member", active |-> FALSE]
MCUsers == {root, u1}

MCJobs ==
    {Job("create", u1, Member, 0),
     Job("update", root, Disabled, 0),
     Job("update", u1, Admin, 0),
     Job("delete", u1, Member, 0),
     Job("top up", u1, Member, 1),
     Job("set available", u1, Member, 0),
     Job("own key", u1, Member, 0)}

Symmetry == Permutations(Requests) \cup Permutations(Threads)
=============================================================================
