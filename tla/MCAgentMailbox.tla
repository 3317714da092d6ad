--------------------------- MODULE MCAgentMailbox ---------------------------
(* Instances of AgentMailbox for TLC. *)
EXTENDS AgentMailbox, TLC

CONSTANTS a1, a2, main, w1, w2

\* Two agents, one below the other, or both below Root.
MCChain == (a1 :> main) @@ (a2 :> a1)
MCSiblings == (a1 :> main) @@ (a2 :> main)

\* The parent waits for its child, in two calls, while Root may wait for the parent.
MCChainWaits == (w1 :> {<<a1, {a2}>>}) @@ (w2 :> {<<a1, {a2}>>, <<main, {a1}>>})
MCSiblingWaits == (w1 :> {<<a1, {a2}>>})

\* The child sends to its parent.
MCChainSends == {<<a2, a1>>}
MCAllSends == {a1, a2, main} \X {a1, a2, main}
=============================================================================
