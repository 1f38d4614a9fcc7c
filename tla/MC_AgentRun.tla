---------------------------- MODULE MC_AgentRun ----------------------------
EXTENDS AgentRun

Turn0 == <<Message(0, "prompt", 0, 1), Message(0, "call", 1, 1),
           Message(0, "return", 1, 1), Message(0, "reply", 0, 1)>>

(* A session that was saved after a turn with a tool call, intact or corrupt. *)
Sessions == [valid : BOOLEAN, messages : {Turn0}]
=============================================================================
