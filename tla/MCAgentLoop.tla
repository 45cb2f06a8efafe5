---------------------------- MODULE MCAgentLoop ----------------------------
(* AgentLoop with two spellings of one mutation, a counted reader that is  *)
(* never cached, an agent.run and an agent.create.                         *)
EXTENDS AgentLoop

Call(key, shot, rep, cap, creates, agent, returns) ==
    [key |-> key, shot |-> shot, rep |-> rep, cap |-> cap, creates |-> creates, agent |-> agent,
     returns |-> returns]

Grant      == Call("grant", "grant", None, 0, None, FALSE, {"ok", "denied"})
GrantAgain == Call("grant2", "grant", None, 0, None, FALSE, {"ok"})
Read       == Call(None, None, "read", 1, None, FALSE, {"ok", "failed"})
RunAgent   == Call("run", None, "run", 1, None, TRUE, {"ok"})
Create     == Call("create", None, None, 0, "agent", FALSE, {"failed"})

MCCalls   == {Grant, GrantAgain, Read, RunAgent, Create}
MCBatches == {<<c>> : c \in MCCalls} \cup {<<Create, Create>>}

Input(delegation, auto, trusted, subagents, tools, streaming) ==
    [delegation |-> delegation, autoDelegate |-> auto, trusted |-> trusted,
     subagents |-> subagents, tools |-> tools, streaming |-> streaming]
\* Forced modes with and without AutoDelegate; a plan executed; a plan only
\* returned; no runner for sub-agents.
MCInputs == {Input("tool_gated", FALSE, FALSE, TRUE, TRUE, TRUE),
             Input("auto_execute", TRUE, FALSE, TRUE, TRUE, FALSE),
             Input("approve_plan", FALSE, TRUE, TRUE, TRUE, FALSE),
             Input("suggest_only", FALSE, FALSE, TRUE, FALSE, FALSE),
             Input("prompt_only", FALSE, FALSE, FALSE, FALSE, FALSE)}
MCCooldowns == [prompt_only |-> 1, tool_gated |-> 2, auto_execute |-> 3]
MCMarks == {2, 3}
=============================================================================
