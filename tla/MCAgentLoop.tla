---------------------------- MODULE MCAgentLoop ----------------------------
(* Instances of AgentLoop for TLC. *)
EXTENDS AgentLoop

CONSTANTS
    gpt, llama, llama70, mini  \* models; gpt, configured, and llama70 are not
                               \* installed, and llama70 stands for llama

MCInstalled == <<llama, mini>>
MCFallbacks == <<llama70, llama, mini>>
MCStem == [m \in Models |-> IF m = llama70 THEN llama ELSE m]
=============================================================================
