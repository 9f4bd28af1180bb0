---- MODULE MCAgentTree ----
EXTENDS AgentTree
====
