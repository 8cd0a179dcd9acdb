--------------------------- MODULE MCRitualLearning ----------------------------
(***************************************************************************)
(* A small instance of RitualLearning for TLC.                             *)
(***************************************************************************)
EXTENDS RitualLearning, TLC

\* What the owner approves: a search of two domains behind a gate, and mail.
MCInitial ==
    [ trigger |-> "SCHEDULED", permissions |-> {"web", "mail"},
      steps |-> << [key |-> "ask", actor |-> "STEWARD", approval |-> "OWNER_REQUIRED"],
                   [key |-> "search", actor |-> "VILLAGER", approval |-> "NONE"] >>,
      ownerReview |-> "EVERY_RUN", learning |-> "PROPOSE_ONLY",
      research |-> {[query |-> "topic", maxResults |-> 2, lookbackDays |-> 2,
                     includeDomains |-> {"a", "b"}]},
      gmailReview |-> {[maxMessages |-> 2, lookbackDays |-> 2, unreadOnly |-> TRUE]} ]

\* Fewer messages and one domain; no mail at all and a step dropped; the first
\* with any domain; a second copy of the gated step without its gate.
MCNarrower ==
    [MCInitial EXCEPT !.gmailReview = {[maxMessages |-> 1, lookbackDays |-> 2,
                                        unreadOnly |-> TRUE]},
                      !.research = {[query |-> "topic", maxResults |-> 2,
                                     lookbackDays |-> 1, includeDomains |-> {"a"}]}]
MCWithoutMail ==
    [MCInitial EXCEPT !.gmailReview = {}, !.permissions = {"web"}, !.steps = Tail(@)]
MCAnywhere ==
    [MCNarrower EXCEPT !.research = {[query |-> "topic", maxResults |-> 2,
                                      lookbackDays |-> 1, includeDomains |-> {}]}]
MCUngated ==
    [MCInitial EXCEPT !.steps = << [key |-> "ask", actor |-> "STEWARD", approval |-> "NONE"] >>
                                   \o @]

MCDefinitions == {MCInitial, MCNarrower, MCWithoutMail, MCAnywhere, MCUngated}

\* Calls are interchangeable.
Symmetry == Permutations(Calls)
===============================================================================
