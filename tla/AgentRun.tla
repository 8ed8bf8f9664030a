-------------------------------- MODULE AgentRun --------------------------------
(***************************************************************************)
(* One run of the model for a message of a customer: the rounds of tools   *)
(* of runAnthropicProvider, with its budget of time, and of                *)
(* runOpenAIProvider (agent/providers), and the execution of the tools     *)
(* (executeAgentTool of agent/tools.ts).  Time is in seconds.              *)
(***************************************************************************)
EXTENDS Naturals, Sequences

CONSTANTS
  Provider,      \* "anthropic" or "openai"
  Histories,     \* roles of the last messages of the conversation
  CallTimes,     \* what a call of the model may take
  ToolTimes,     \* what the tools of a round may take
  Deadline, MinCall, ToolsMin,  \* the budget of the run, of a call, of a call with tools
  MaxTools       \* bound: tools in one answer of the model

\* What the constants must be, for the instances of this module.
RunAssumption ==
  /\ Provider \in {"anthropic", "openai"}
  /\ CallTimes \cup ToolTimes \cup {Deadline, MinCall, ToolsMin, MaxTools} \subseteq Nat

VARIABLES
  pc,      \* where the loop is
  clock,   \* seconds since the run began
  calls, rounds,
  offered, \* whether the call in course offers tools
  log,     \* the messages of the next request: role, tools asked for, results given
  ended,   \* tools of the round that ended
  flag,    \* ctx.flags.humanTakeover
  handed,  \* the conversation was handed to the team
  told     \* humanTakeover of the result

vars == <<pc, clock, calls, rounds, offered, log, ended, flag, handed, told>>

Tools == 1 .. MaxTools
Message(role, asks, gives) == [role |-> role, asks |-> asks, gives |-> gives]
Roles == {"user", "assistant"}
Done == {"replied", "failed"}

\* The loop, the messages and the flags keep their types.
TypeOK ==
  /\ pc \in {"loop", "call", "tools"} \cup Done
  /\ {clock, calls, rounds} \subseteq Nat
  /\ {offered, flag, handed, told} \subseteq BOOLEAN
  /\ log \in Seq([role : Roles, asks : SUBSET Tools, gives : SUBSET Tools])
  /\ ended \subseteq Tools

\* Mutation: the history as it was cut.
AsCut(history) == history
\* The history from the first message of the customer on, which only Anthropic asks for.
Normalized(history) ==
  IF Provider = "openai" THEN history
  ELSE IF \E i \in DOMAIN history : history[i] = "user"
       THEN SubSeq(history, CHOOSE i \in DOMAIN history :
                     history[i] = "user" /\ \A j \in 1 .. i - 1 : history[j] # "user", Len(history))
       ELSE <<>>

Init ==
  /\ pc = "loop" /\ clock = 0 /\ calls = 0 /\ rounds = 0
  /\ offered = FALSE /\ ended = {} /\ flag = FALSE /\ handed = FALSE /\ told = FALSE
  /\ \E h \in Histories :
       LET kept == Normalized(h) IN
       log = [i \in 1 .. Len(kept) |-> Message(kept[i], {}, {})] \o <<Message("user", {}, {})>>

------------------------------------------------------------------------------
Remaining == IF clock < Deadline THEN Deadline - clock ELSE 0
MaxRounds == IF Provider = "anthropic" THEN 2 ELSE 4
\* The limit of the client: OpenAI tries a second time.
CallLimit == IF Provider = "anthropic" THEN 20 ELSE 60

\* Mutation: no look at the clock before a call.
NeverLate == FALSE
\* Too late for another call.  OpenAI has no budget.
TooLate == Provider = "anthropic" /\ Remaining < MinCall
\* Mutation: the rounds are not counted.
AlwaysOffered(some) == some
\* Tools are offered while there are rounds and time left.
AllowTools(some) ==
  some /\ (Provider = "anthropic" => rounds < MaxRounds /\ Remaining >= ToolsMin)

\* Whether there are tools for this message: none for a greeting, and only those of what the
\* organization uses.
Available == BOOLEAN
Calls ==
  /\ pc = "loop"
  /\ IF TooLate
     THEN pc' = "failed" /\ UNCHANGED <<calls, offered>>
     ELSE /\ pc' = "call" /\ calls' = calls + 1
          /\ \E some \in Available : offered' = AllowTools(some)
  /\ UNCHANGED <<clock, rounds, log, ended, flag, handed, told>>

Passes(times, limit) == \E d \in times : d <= limit /\ clock' = clock + d

\* The call fails, or lasts as long as the client lets it.
CallFails ==
  /\ pc = "call"
  /\ Passes(CallTimes, CallLimit)
  /\ pc' = "failed"
  /\ UNCHANGED <<calls, rounds, offered, log, ended, flag, handed, told>>

\* A text ends the run; no text is an error of Anthropic, and left to the caller by OpenAI.
AnswersText ==
  /\ pc = "call"
  /\ Passes(CallTimes, CallLimit)
  /\ \E text \in BOOLEAN :
       IF text \/ Provider = "openai"
       THEN pc' = "replied" /\ told' = flag
       ELSE pc' = "failed" /\ UNCHANGED told
  /\ UNCHANGED <<calls, rounds, offered, log, ended, flag, handed>>

\* The model asks for tools.  Past its rounds OpenAI leaves them unanswered.
AsksTools ==
  /\ pc = "call" /\ offered
  /\ Passes(CallTimes, CallLimit)
  /\ \E asks \in SUBSET Tools \ {{}} :
       IF Provider = "anthropic" \/ rounds < MaxRounds
       THEN /\ pc' = "tools" /\ rounds' = rounds + 1
            /\ log' = Append(log, Message("assistant", asks, {}))
            /\ UNCHANGED told
       ELSE pc' = "replied" /\ told' = flag /\ UNCHANGED <<rounds, log>>
  /\ ended' = {}
  /\ UNCHANGED <<calls, offered, flag, handed>>

Asked == log[Len(log)].asks
\* A tool at its turn: all of them at once with Anthropic, one after the other with OpenAI.
Runs(tool) ==
  /\ pc = "tools" /\ tool \in Asked \ ended
  /\ Provider = "openai" => \A other \in Asked \ ended : tool <= other
\* Mutation: the error of a tool is not caught.
UnlessThrown(tool) == ended' = IF tool = 1 THEN ended ELSE ended \cup {tool}
\* Whatever happens in it, a tool ends with a result.
Ends(tool) == ended' = ended \cup {tool}

\* A tool that reads, books or looks up, or fails: in any case there is a result.
ToolEnds(tool) ==
  /\ Runs(tool) /\ Ends(tool)
  /\ UNCHANGED <<pc, clock, calls, rounds, offered, log, flag, handed, told>>

\* Mutation: the flag before the handoff is saved.
FlagFirst(saved) == TRUE
\* request_human_support: the flag follows the handoff, which fails, is saved, or is saved
\* and its answer is lost.
FlagOf(saved) == flag \/ saved = "saved"
HandsOver(tool) ==
  /\ Runs(tool) /\ Ends(tool)
  /\ \E saved \in {"saved", "lost", "no"} :
       flag' = FlagOf(saved) /\ handed' = (handed \/ saved # "no")
  /\ UNCHANGED <<pc, clock, calls, rounds, offered, log, told>>

\* Mutation: the results are numbered again, from zero.
FromZero(results) == {tool - 1 : tool \in results}
\* Each result carries the id of its request.
Results(results) == results
\* Every tool of the round has ended, and their results go with the next request.
EndsRound ==
  /\ pc = "tools" /\ ended = Asked
  /\ Passes(ToolTimes, 100)
  /\ log' = Append(log, Message("user", {}, Results(ended)))
  /\ pc' = "loop" /\ ended' = {}
  /\ UNCHANGED <<calls, rounds, offered, flag, handed, told>>

Next ==
  \/ Calls \/ CallFails \/ AnswersText \/ AsksTools \/ EndsRound
  \/ \E tool \in Tools : ToolEnds(tool) \/ HandsOver(tool)
Spec == Init /\ [][Next]_vars
\* The client gives up a call at its limit, and a tool always gives a result.
Fair == WF_vars(Next)
FairSpec == Spec /\ Fair

(***************************************************************************)
(* Properties.                                                             *)
(***************************************************************************)
\* What is sent to Anthropic begins with the customer, and every tool that was asked for has its
\* result in the message that follows; it is refused otherwise.
WellFormed ==
  pc = "call" =>
    /\ log[1].role = "user"
    /\ \A i \in DOMAIN log : log[i].asks # {} =>
         i < Len(log) /\ log[i + 1].role = "user" /\ log[i + 1].gives = log[i].asks

\* The last call offers no tools, so a run is three calls at most.
FewCalls == calls <= 3

\* A result that tells of the team never comes without the handoff.
NeverToldAlone == told => handed

\* The run ends before the server is stopped at sixty seconds.
EndsInTime == pc \in Done => clock < 60

\* Each call is cut to the time that is left of the run.
CallWithinBudget == [][pc = "call" => clock' <= Deadline]_vars

\* Every run ends.
Finishes == <>(pc \in Done)
================================================================================
