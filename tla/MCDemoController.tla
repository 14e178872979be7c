--------------------------- MODULE MCDemoController ---------------------------
(* Instances of the demo controller for TLC. *)
EXTENDS DemoRefinement, TLC

CONSTANTS d1, d2, i1, i2, p1, p2

MCDeploy(name, d, i) == [id |-> name, op |-> "deploy", demo |-> d, image |-> i]
MCDestroy(name, d) == [id |-> name, op |-> "destroy", demo |-> d, image |-> None]
MCConfig(p, env, secret, images) == [port |-> p, env |-> env, secret |-> secret, images |-> images]

MCDeliveryId == {"a", "b", "c", "d"}

\* One demo: deployed twice with different images, and destroyed.
OneDemo == {MCDeploy("a", d1, i1), MCDeploy("b", d1, i2), MCDestroy("c", d1)}
\* One demo that is only deployed.
Deployments == {MCDeploy("a", d1, i1), MCDeploy("b", d1, i2)}
\* Two demos, each deployed and destroyed.
TwoDemos == {MCDeploy("a", d1, i1), MCDestroy("b", d1), MCDeploy("c", d2, i2), MCDestroy("d", d2)}

\* A configuration with everything, and one that drops the environment and the
\* secret, moves the port and no longer admits i2.
EveryConfig == {MCConfig(p1, TRUE, TRUE, {i1, i2}), MCConfig(p2, FALSE, FALSE, {i1})}
\* A configuration that does not admit i2.
Refusing == {MCConfig(p1, TRUE, FALSE, {i1})}
OneConfig == {MCConfig(p1, TRUE, FALSE, {i1, i2})}
=============================================================================
