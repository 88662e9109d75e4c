------------------------- MODULE MCCandidateExecutor -------------------------
(* Small instances: two accounts, two requests.                               *)
EXTENDS CandidateExecutor, TLC

\* All accounts act for one ChatGPT account, or each for its own.
OneScope == [a \in Accounts |-> NoAccount]
OwnScope == [a \in Accounts |-> a]

P(anthropic, anchored, retryable, deadline) ==
    [anthropic |-> anthropic, anchored |-> anchored, retryable |-> retryable,
     deadline |-> deadline]

\* An OpenAI style request with a deadline that may be retried, and an Anthropic one
\* with a thread anchor.
MCProfiles == {P(FALSE, FALSE, TRUE, TRUE), P(TRUE, TRUE, TRUE, FALSE)}

\* One request of each profile; which one does not matter.  Safety and progress are
\* checked in one run, so symmetry is broken here and not by TLC.
MCInit ==
    /\ Init
    /\ profile = CHOOSE f \in [Requests -> Profiles] : \A r, s \in Requests : r # s => f[r] # f[s]

MCSpec == MCInit /\ [][Next]_vars /\ \A r \in Requests : WF_vars(Serve(r))
=============================================================================
