-------------------------- MODULE MCAccountCooldown --------------------------
(* Small instance: the order of the durations is the order of the source      *)
(* (6 < 20 < 30 < 45 < 60 < 300 < 1800 = forgetting window < 7200).           *)
EXTENDS AccountCooldown, TLC

MCLadder == <<2, 3, 4, 6>>

MCPlainSecs == [r \in PlainReasons |->
                  CASE r = "Challenge" -> 1
                    [] r = "AnthropicChallenge" -> 3
                    [] r = "Upstream5xx" -> 2
                    [] OTHER -> 1]

AccountSymmetry == Permutations(Accounts)
=============================================================================
