--------------------------- MODULE MCModelGateway ---------------------------
(* Instances of ModelGateway for TLC.                                      *)
EXTENDS ModelGateway, TLC

CONSTANTS h1, h2, p1

Model(tier, trust, cost, tasks) ==
  [tier |-> tier, enabled |-> TRUE, task_types |-> tasks, trust |-> trust,
   input_cost |-> cost, output_cost |-> cost]

Req(repo, model, downgrade, sensitivity, max) ==
  [org |-> "org", repo |-> repo, model |-> model, task_type |-> "build",
   sensitivity |-> sensitivity, secrets |-> FALSE, allow_downgrade |-> downgrade,
   max_cost |-> max, input |-> 1, output |-> 0]

\* A paid model, a free local one, one of another task, one without provider.
Routes ==
  [models |-> [big |-> Model("frontier", "public", 1, {}),
               house |-> Model("local", "local", 0, {"*"}),
               other |-> Model("cheap", "local", 0, {"docs"}),
               gone |-> Model("balanced", "missing", 0, {})],
   default_order |-> <<"house", "big", "gone", "other">>,
   task_orders |-> [build |-> <<"big", "house">>],
   fallbacks |-> [big |-> <<"house", "big">>]]

Flags == [restricted_requires_local |-> TRUE, redact_secrets |-> FALSE, deny_remote |-> TRUE]

\* Two repositories of one organisation; the second request may not downgrade.
SpendRequests ==
  {Req("a", "auto", TRUE, "internal", NoLimit), Req("b", "big", FALSE, "internal", 1)}

OrgTwo == [o \in {"org"} |-> 2]
RepoOne == [p \in {<<"org", "a">>, <<"org", "b">>} |-> 1]

TwoTokens == {<<2, 0>>}

OneProcess == [h \in Handler |-> p1]
=============================================================================
