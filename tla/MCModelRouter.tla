---------------------------- MODULE MCModelRouter ----------------------------
(* Instances of ModelRouter for TLC; the bounds are explained in README.md. *)
EXTENDS ModelRouter, TLC

CONSTANTS d1, fast, general, embeddings, frontier, speed

OneDaemon == {d1}
LocalTiers == {fast, general, embeddings}
CloudTiers == {frontier, speed}

\* The chain of config/models.local.yaml, ending in the cloud as in models.yaml.
Chain == (fast :> general) @@ (general :> frontier) @@ (embeddings :> None)
WithModel == {frontier}
=============================================================================
