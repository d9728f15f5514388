---------------------------- MODULE EffectivelyOnce ----------------------------
(***************************************************************************)
(* What a webhook endpoint promises a provider: a delivery is accepted,    *)
(* and answered only then; it takes effect at most once; and it is neither *)
(* forgotten nor undone.  WebhookInbox implements this module.             *)
(***************************************************************************)
EXTENDS Naturals

CONSTANT Deliveries

VARIABLES
    stage,      \* "new", "accepted" or "applied"
    effects,    \* how often each delivery took effect
    answered    \* the deliveries the provider has a positive answer for

Init ==
    /\ stage = [d \in Deliveries |-> "new"]
    /\ effects = [d \in Deliveries |-> 0]
    /\ answered = {}

\* An answer is given for deliveries that are at least accepted by then.
AnswerSome == \E d \in Deliveries :
    /\ answered' \in {answered, answered \cup {d}}
    /\ answered' # answered => stage'[d] # "new"

Accept(d) ==
    /\ stage[d] = "new"
    /\ stage' = [stage EXCEPT ![d] = "accepted"]
    /\ UNCHANGED effects

Take(d) ==
    /\ stage[d] # "applied"
    /\ stage' = [stage EXCEPT ![d] = "applied"]
    /\ effects' = [effects EXCEPT ![d] = 1]

Next ==
    /\ AnswerSome
    /\ \/ \E d \in Deliveries : Accept(d) \/ Take(d)
       \/ UNCHANGED <<stage, effects>>

Spec == Init /\ [][Next]_<<stage, effects, answered>>

==============================================================================
