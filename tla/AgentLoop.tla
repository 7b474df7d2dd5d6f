------------------------------ MODULE AgentLoop ------------------------------
(***************************************************************************)
(* AgentService: the research agent asks the model for the next action,    *)
(* executes it, and asks again, until the model finishes, the step budget  *)
(* is used up, or no model answers.  /agent/stream sends every event to    *)
(* the client, /agent/run collects them into one result.                   *)
(*                                                                         *)
(* Every question of a run goes through the chain of module LlmChain.      *)
(***************************************************************************)
EXTENDS LlmChain

CONSTANTS
    Actions,       \* tool calls: a tool with its input
    DeepDives,     \* those that read or summarize one document
    Reasoning,     \* those that ask the model (summarize, compare)
    MaxDeepDives,  \* MAX_DEEP_DIVES_PER_RUN
    HardSteps,     \* HARD_MAX_STEPS, and the maximum of the request's schema
    Requested,     \* values of max_steps in the requests of the instance
    MaxRuns        \* bound: runs of the instance

ASSUME AgentAssumption ==
    /\ DeepDives \cup Reasoning \subseteq Actions
    /\ Actions \cap {"finish", "prose", "malformed"} = {}
    /\ Degraded # NoText
    /\ {Degraded, NoText} \cap (Actions \cup {"finish", "prose", "malformed", "text"}) = {}
    /\ HardSteps \in Nat /\ Requested \subseteq 1..HardSteps
    /\ MaxDeepDives \in Nat /\ MaxRuns \in Nat

VARIABLES
    run,    \* the run each caller has under way, or the last one
    runs    \* runs so far

agentVars == <<chainVars, run, runs>>

Waits == {"plan", "replan", "compose", "tool", "synthesize"}

\* out: the last event of the stream, or how the run ended without one.
\* reason and answer: of the result of /agent/run, as AgentResult starts it.
\* calls: history, the questions the run has asked.
NoRun == [pc |-> "idle", budget |-> 1, pad |-> <<>>,
          action |-> "none", out |-> "none", reason |-> "completed",
          answer |-> NoText, calls |-> 0]

AgentTypeOK ==
    /\ ChainTypeOK
    /\ \A a \in Callers :
          /\ run[a].pc \in Waits \cup {"idle", "act"}
          /\ run[a].pc \in Waits <=> call[a].pc # "idle"
          /\ run[a].out \in {"none", "final", "outage", "broken", "abandoned"}
          /\ Len(run[a].pad) <= run[a].budget

AgentInit ==
    /\ ChainInit
    /\ run = [a \in Callers |-> NoRun]
    /\ runs = 0

-----------------------------------------------------------------------------
Step(a, pc) == run[a].pc = pc
Reply(a) == call[a].answer
Replied(a, pc) == Step(a, pc) /\ At(a, "answered")

\* What a model may say to a prompt: a decision, a text without one, a
\* decision whose action is no string; or just a text.
Says(prompt) ==
    IF prompt[1] \in {"plan", "replan"}
    THEN Actions \cup {"finish", "prose", "malformed"}
    ELSE {"text"}

\* Two for a plan and one for a tool in each step, and one for the answer.
MaxCalls(r) == 3 * r.budget + 1

\* The run goes on in r and asks prompt; calls is counted up to one too many.
Asks(a, r, pc, prompt, raw) ==
    /\ run' = [run EXCEPT ![a] = [r EXCEPT
                 !.pc = pc, !.calls = IF @ > MaxCalls(r) THEN @ ELSE @ + 1]]
    /\ call' = [call EXCEPT ![a] = Question(prompt, raw)]
    /\ UNCHANGED <<cache, runs>>

Ends(a, out, reason, answer) ==
    /\ run' = [run EXCEPT ![a] = [@ EXCEPT
                 !.pc = "idle", !.out = out, !.reason = reason, !.answer = answer]]
    /\ call' = [call EXCEPT ![a] = NoCall]
    /\ UNCHANGED <<cache, runs>>

Start(a) ==
    /\ Step(a, "idle") /\ runs < MaxRuns
    /\ \E n \in Requested :
          run' = [run EXCEPT ![a] = [NoRun EXCEPT
                    !.pc = "plan", !.budget = n, !.calls = 1]]
    /\ call' = [call EXCEPT ![a] = Question(<<"plan", <<>>>>, TRUE)]
    /\ runs' = runs + 1
    /\ UNCHANGED cache

\* Mutant: one step too many.
NextStepOneMore(a, action, how) ==
    LET pad == Append(run[a].pad, [action |-> action, how |-> how])
        r == [run[a] EXCEPT !.pad = pad, !.action = "none"]
    IN  IF Len(pad) > r.budget
        THEN Asks(a, r, "synthesize", <<"synthesize", pad>>, TRUE)
        ELSE Asks(a, r, "plan", <<"plan", pad>>, TRUE)

\* The step is written to the scratchpad; then the next plan, or, when that was
\* the last step of the budget, an answer from what there is.
NextStep(a, action, how) ==
    LET pad == Append(run[a].pad, [action |-> action, how |-> how])
        r == [run[a] EXCEPT !.pad = pad, !.action = "none"]
    IN  IF Len(pad) = r.budget
        THEN Asks(a, r, "synthesize", <<"synthesize", pad>>, TRUE)
        ELSE Asks(a, r, "plan", <<"plan", pad>>, TRUE)

\* Mutant: only the step just before is compared.
DidLast(a, action) ==
    run[a].pad # <<>> /\ run[a].pad[Len(run[a].pad)] = [action |-> action, how |-> "ran"]

Did(a, action) ==
    \E i \in DOMAIN run[a].pad : run[a].pad[i] = [action |-> action, how |-> "ran"]

\* Counted over the scratchpad: an action asked for again, or blocked, counts too.
DeepDivesUsed(a) ==
    Cardinality({i \in DOMAIN run[a].pad : run[a].pad[i].action \in DeepDives})

Planned(a) == Replied(a, "plan") \/ Replied(a, "replan")

Repeated(a) ==
    /\ Planned(a) /\ Reply(a) \in Actions /\ Did(a, Reply(a))
    /\ NextStep(a, Reply(a), "repeated")

Blocked(a) ==
    /\ Planned(a) /\ Reply(a) \in DeepDives /\ ~Did(a, Reply(a))
    /\ DeepDivesUsed(a) >= MaxDeepDives
    /\ NextStep(a, Reply(a), "blocked")

\* Mutant: the cap is off by one.
ChosenOneMore(a) ==
    /\ Planned(a) /\ Reply(a) \in Actions /\ ~Did(a, Reply(a))
    /\ Reply(a) \in DeepDives => DeepDivesUsed(a) <= MaxDeepDives
    /\ run' = [run EXCEPT ![a] = [@ EXCEPT !.pc = "act", !.action = Reply(a)]]
    /\ call' = [call EXCEPT ![a] = NoCall]
    /\ UNCHANGED <<cache, runs>>

Chosen(a) ==
    /\ Planned(a) /\ Reply(a) \in Actions /\ ~Did(a, Reply(a))
    /\ Reply(a) \in DeepDives => DeepDivesUsed(a) < MaxDeepDives
    /\ run' = [run EXCEPT ![a] = [@ EXCEPT !.pc = "act", !.action = Reply(a)]]
    /\ call' = [call EXCEPT ![a] = NoCall]
    /\ UNCHANGED <<cache, runs>>

\* A tool that fails is an observation like any other; so is one that finds
\* nothing to ask the model about.
RunTool(a) ==
    /\ Step(a, "act")
    /\ \/ NextStep(a, run[a].action, "ran")
       \/ /\ run[a].action \in Reasoning
          /\ Asks(a, run[a], "tool", <<"tool", run[a].action>>, FALSE)

\* The summary or comparison, an outage text included, is the observation.
ToolAnswered(a) ==
    /\ Replied(a, "tool")
    /\ NextStep(a, run[a].action, "ran")

Finish(a) ==
    /\ Planned(a) /\ Reply(a) = "finish"
    /\ Ends(a, "final", "completed", "text")

\* A TypeError: an error event of the stream, or status 500.
Malformed(a) ==
    /\ Planned(a) /\ Reply(a) = "malformed"
    /\ Ends(a, "broken", "completed", NoText)

\* Mutant: the corrective question is repeated until it is answered.
ReplanAlways(a) ==
    /\ Planned(a) /\ Reply(a) = "prose"
    /\ Asks(a, run[a], "replan", <<"replan", run[a].pad>>, TRUE)

Replan(a) ==
    /\ Replied(a, "plan") /\ Reply(a) = "prose"
    /\ Asks(a, run[a], "replan", <<"replan", run[a].pad>>, TRUE)

\* Mutant: a run without evidence does not give up.
GiveUpWithEvidence(a) ==
    /\ Replied(a, "replan") /\ Reply(a) = "prose" /\ run[a].pad # <<>>
    /\ Asks(a, run[a], "compose", <<"synthesize", run[a].pad>>, TRUE)

\* No decision for the second time: answer from the evidence, or with the text.
GiveUpPlanning(a) ==
    /\ Replied(a, "replan") /\ Reply(a) = "prose"
    /\ IF run[a].pad # <<>>
       THEN Asks(a, run[a], "compose", <<"synthesize", run[a].pad>>, TRUE)
       ELSE Ends(a, "final", "planning_failed", "text")

\* The outage text is recognised wherever the run asks for itself, and is an
\* error event.  run() ignores that event: its result keeps the defaults.
LlmUnavailable(a) ==
    /\ \E pc \in Waits \ {"tool"} : Replied(a, pc)
    /\ Reply(a) = Degraded
    /\ Ends(a, "outage", "completed", NoText)

\* Mutant: what was composed after failed planning is not looked at.
ComposedUnchecked(a) ==
    Replied(a, "compose") /\ Ends(a, "final", "planning_failed", Reply(a))

Composed(a) ==
    /\ Replied(a, "compose") /\ Reply(a) # Degraded
    /\ Ends(a, "final", "planning_failed", Reply(a))

Synthesized(a) ==
    /\ Replied(a, "synthesize") /\ Reply(a) # Degraded
    /\ Ends(a, "final", "max_steps_reached", Reply(a))

\* The client goes away and the stream is cancelled, or the API process ends.
Abandon(a) ==
    /\ ~Step(a, "idle")
    /\ Ends(a, "abandoned", "completed", NoText)

LoopStep(a) ==
    \/ Repeated(a) \/ Blocked(a) \/ Chosen(a)
    \/ RunTool(a) \/ ToolAnswered(a)
    \/ Finish(a) \/ Malformed(a) \/ Replan(a) \/ GiveUpPlanning(a)
    \/ LlmUnavailable(a) \/ Composed(a) \/ Synthesized(a)

RunStep(a) ==
    \/ LoopStep(a)
    \/ ChainStep(a, Says(call[a].prompt)) /\ UNCHANGED <<run, runs>>

\* Every run has ended and no other is asked for.
Quiet ==
    /\ runs = MaxRuns /\ \A a \in Callers : Step(a, "idle")
    /\ UNCHANGED agentVars

AgentNext ==
    \/ \E a \in Callers : Start(a) \/ RunStep(a) \/ Abandon(a)
    \/ Quiet

AgentSpec == AgentInit /\ [][AgentNext]_agentVars

\* A request goes on: models answer, fail or time out, tools return.
AgentFairSpec == AgentSpec /\ \A a \in Callers : WF_agentVars(RunStep(a))

-----------------------------------------------------------------------------
(* Safety                                                                  *)

\* When no model answers, the client is not given the outage text as the
\* brief: wherever in the run the last question failed, planning, the
\* corrective question or either synthesis, there is no final event.
OutageIsNoBrief ==
    \A a \in Callers : run[a].out = "final" => run[a].answer # Degraded

\* No tool call is executed twice in a run, however often it is asked for.
NoActionTwice ==
    \A a \in Callers : \A i, j \in DOMAIN run[a].pad :
        /\ run[a].pad[i].how = "ran" /\ run[a].pad[j].how = "ran"
        /\ run[a].pad[i].action = run[a].pad[j].action
        => i = j

\* The library is not walked document by document: of the calls that read one
\* document, no more than MAX_DEEP_DIVES_PER_RUN are executed in a run.
DeepDivesCapped ==
    \A a \in Callers :
        Cardinality({i \in DOMAIN run[a].pad :
            run[a].pad[i].how = "ran" /\ run[a].pad[i].action \in DeepDives})
        <= MaxDeepDives

\* A run costs a bounded number of questions, whatever the model says, also
\* when it never answers with a decision.
CallsBounded == \A a \in Callers : run[a].calls <= MaxCalls(run[a])

(* Liveness                                                                *)

\* Every run ends, for any sequence of decisions.
EveryRunEnds == \A a \in Callers : ~Step(a, "idle") ~> Step(a, "idle")

-----------------------------------------------------------------------------
(* What a test says                                                        *)

\* tests/test_agent_service.py:198: an outage surfaces as an error, not as a
\* fake completed brief; here for the result of /agent/run.
OutageIsNotCompleted ==
    \A a \in Callers : run[a].out = "outage" => run[a].reason # "completed"
=============================================================================
