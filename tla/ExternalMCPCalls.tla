-------------------------- MODULE ExternalMCPCalls --------------------------
(***************************************************************************)
(* Calls of tools of external MCP servers (mcp/external_manager.go,        *)
(* CallTool): the PreRun of their executions passes the policy, the        *)
(* circuit breaker of the server and the check of its connection, and      *)
(* waits for a slot of the whole manager and then for one of the server;   *)
(* OnDone tells the breaker how the call ended.  A new configuration       *)
(* replaces the channels that count the slots and forgets the breakers,    *)
(* while calls under the old one are waiting or at work.                   *)
(*                                                                         *)
(* Left out: arguments and results, statistics, the connections (module    *)
(* ExternalMCPClients), the record of the execution (ExecutionService).    *)
(***************************************************************************)
EXTENDS Integers, FiniteSets

CONSTANTS
  Servers,
  Calls,        \* tool calls, each made once
  Configs,      \* the configurations, 1..Configs, made one after the other
  Total,        \* MaxConcurrentTotal of each, 0 for no limit
  PerServer,    \* MaxConcurrentPerServer of each, 0 for no limit
  Threshold,    \* CircuitFailureThreshold, negative for no circuit breaker
  Cooldown,     \* CircuitCooldown in ticks of the clock
  NoServer

ASSUME CallsAssumption ==
  /\ IsFiniteSet(Calls)
  /\ Configs \in Nat \ {0}
  /\ Total \in [1..Configs -> Nat] /\ PerServer \in [1..Configs -> Nat]
  /\ Threshold \in Int \ {0} /\ Cooldown \in Nat \ {0}
  /\ NoServer \notin Servers

VARIABLES
  config,       \* the number of the current configuration
  globalUsed,   \* tokens in the globalSemaphore of each configuration
  serverUsed,   \* tokens in the semaphore of each server under each
  failures,     \* consecutiveFailures of each server
  openFor,      \* ticks until circuitOpenUntil, 0 once it has passed or is unset
  call          \* the executions of the calls

vars == <<config, globalUsed, serverUsed, failures, openFor, call>>

Pcs == {"idle", "policy", "circuit", "connection", "global", "server", "running",
        "report", "release", "done"}
\* A refused call is stored as failed, like a call that fails at the server.
Verdicts == {"none", "completed", "failed", "refused", "cancelled", "blocked"}
CallStates ==
  [pc : Pcs, server : Servers \cup {NoServer}, config : 0..Configs,
   held : SUBSET {"global", "server"}, cancelled : BOOLEAN, verdict : Verdicts]

TypeOK ==
  /\ config \in 1..Configs
  /\ globalUsed \in [1..Configs -> Int]
  /\ serverUsed \in [1..Configs -> [Servers -> Int]]
  /\ failures \in [Servers -> Nat]
  /\ openFor \in [Servers -> 0..Cooldown]
  /\ call \in [Calls -> CallStates]

NoCall == [pc |-> "idle", server |-> NoServer, config |-> 0, held |-> {},
           cancelled |-> FALSE, verdict |-> "none"]

Init ==
  /\ config = 1
  /\ globalUsed = [n \in 1..Configs |-> 0]
  /\ serverUsed = [n \in 1..Configs |-> [s \in Servers |-> 0]]
  /\ failures = [s \in Servers |-> 0]
  /\ openFor = [s \in Servers |-> 0]
  /\ call = [c \in Calls |-> NoCall]

-----------------------------------------------------------------------------
(* One call.                                                               *)

Step(c, next) == call' = [call EXCEPT ![c].pc = next]
Ends(c, verdict) ==
  call' = [call EXCEPT ![c] = [@ EXCEPT !.pc = "report", !.verdict = verdict]]
Takes(c, slot, next) ==
  call' = [call EXCEPT ![c] =
    [@ EXCEPT !.pc = next, !.held = call[c].held \cup {slot}]]
GivesBack(c, next, verdict) ==
  call' = [call EXCEPT ![c] = [@ EXCEPT !.pc = next, !.verdict = verdict, !.held = {}]]
Unchanged == UNCHANGED <<config, globalUsed, serverUsed, failures, openFor>>

Submit(c) ==
  /\ call[c].pc = "idle"
  /\ Step(c, "policy")
  /\ Unchanged

\* The authorizer, the tool guard and the name of the tool: only then is the
\* name of the server known to OnDone.
CheckPolicy(c) ==
  /\ call[c].pc = "policy"
  /\ \/ Ends(c, "refused") \/ Ends(c, "blocked")
     \/ \E s \in Servers :
          call' = [call EXCEPT ![c] = [@ EXCEPT !.pc = "circuit", !.server = s]]
  /\ Unchanged

\* GetClient and checkExternalMCPCircuit, which resets a time that has passed.
CheckCircuit(c) ==
  /\ call[c].pc = "circuit"
  /\ \/ Ends(c, "refused")
     \/ (Threshold < 0 \/ openFor[call[c].server] = 0) /\ Step(c, "connection")
  /\ Unchanged

\* The connection is looked at, and then acquireExternalMCPCallSlot takes the
\* channels of the configuration there is now.
CheckConnection(c) ==
  /\ call[c].pc = "connection"
  /\ \/ Ends(c, "refused")
     \/ call' = [call EXCEPT ![c] = [@ EXCEPT !.pc = "global", !.config = config]]
  /\ Unchanged

AcquireGlobal(c) ==
  LET n == call[c].config
  IN /\ call[c].pc = "global"
     /\ IF Total[n] = 0 THEN Step(c, "server") /\ UNCHANGED globalUsed
        ELSE /\ globalUsed[n] < Total[n]
             /\ globalUsed' = [globalUsed EXCEPT ![n] = @ + 1]
             /\ Takes(c, "global", "server")
     /\ UNCHANGED <<config, serverUsed, failures, openFor>>

\* Faulty variant: the limit is the one of the current configuration.
AcquireServerNow(c) ==
  LET n == call[c].config
      s == call[c].server
  IN /\ call[c].pc = "server"
     /\ serverUsed[n][s] < PerServer[config]
     /\ serverUsed' = [serverUsed EXCEPT ![n][s] = @ + 1]
     /\ Takes(c, "server", "running")
     /\ UNCHANGED <<config, globalUsed, failures, openFor>>

AcquireServer(c) ==
  LET n == call[c].config
      s == call[c].server
  IN /\ call[c].pc = "server"
     /\ IF PerServer[n] = 0 THEN Step(c, "running") /\ UNCHANGED serverUsed
        ELSE /\ serverUsed[n][s] < PerServer[n]
             /\ serverUsed' = [serverUsed EXCEPT ![n][s] = @ + 1]
             /\ Takes(c, "server", "running")
     /\ UNCHANGED <<config, globalUsed, failures, openFor>>

\* The context ends while the call waits for its first slot.
CancelledAtGlobal(c) ==
  /\ call[c].pc = "global" /\ call[c].cancelled
  /\ Ends(c, "cancelled")
  /\ Unchanged

\* Faulty variant: the slot of the manager is kept.
CancelledAtServerKeeping(c) ==
  /\ call[c].pc = "server" /\ call[c].cancelled
  /\ GivesBack(c, "report", "cancelled")
  /\ Unchanged

\* The context ends while it waits for its second slot: the first is given back.
CancelledAtServer(c) ==
  LET n == call[c].config
  IN /\ call[c].pc = "server" /\ call[c].cancelled
     /\ globalUsed' = IF "global" \in call[c].held
                      THEN [globalUsed EXCEPT ![n] = @ - 1] ELSE globalUsed
     /\ GivesBack(c, "report", "cancelled")
     /\ UNCHANGED <<config, serverUsed, failures, openFor>>

\* Run: the guard once more, and the server's answer or error; a cancelled call
\* comes back with its context, if not with an answer.
Answer(c) ==
  /\ call[c].pc = "running"
  /\ \/ \E v \in {"completed", "failed", "blocked"} : Ends(c, v)
     \/ call[c].cancelled /\ Ends(c, "cancelled")
  /\ Unchanged

\* OnDone, recordExternalMCPResult under the current configuration: whatever is
\* not stored as failed ends the row of failures.
Report(c) ==
  LET s == call[c].server
      failed == call[c].verdict \in {"failed", "refused"}
      count == failures[s] + 1
  IN /\ call[c].pc = "report"
     /\ Step(c, "release")
     /\ IF s = NoServer \/ call[c].verdict = "blocked" \/ (failed /\ Threshold < 0)
        THEN UNCHANGED <<failures, openFor>>
        ELSE /\ failures' = [failures EXCEPT ![s] = IF failed THEN count ELSE 0]
             /\ openFor' = [openFor EXCEPT ![s] =
                  IF failed THEN IF count >= Threshold THEN Cooldown ELSE @
                  ELSE 0]
     /\ UNCHANGED <<config, globalUsed, serverUsed>>

\* Faulty variant: the slots go back to the channels of the day.
ReleaseToCurrent(c) ==
  LET held == call[c].held
      s == call[c].server
  IN /\ call[c].pc = "release"
     /\ globalUsed' = IF "global" \in held
                      THEN [globalUsed EXCEPT ![config] = @ - 1] ELSE globalUsed
     /\ serverUsed' = IF "server" \in held
                      THEN [serverUsed EXCEPT ![config][s] = @ - 1] ELSE serverUsed
     /\ GivesBack(c, "done", call[c].verdict)
     /\ UNCHANGED <<config, failures, openFor>>

\* The worker's deferred release, to the channels the call took its slots from.
Release(c) ==
  LET n == call[c].config
      s == call[c].server
      held == call[c].held
  IN /\ call[c].pc = "release"
     /\ globalUsed' = IF "global" \in held
                      THEN [globalUsed EXCEPT ![n] = @ - 1] ELSE globalUsed
     /\ serverUsed' = IF "server" \in held
                      THEN [serverUsed EXCEPT ![n][s] = @ - 1] ELSE serverUsed
     /\ GivesBack(c, "done", call[c].verdict)
     /\ UNCHANGED <<config, failures, openFor>>

\* ExecutionService.Cancel, until the verdict.
Cancel(c) ==
  /\ call[c].pc \notin {"idle", "report", "release", "done"}
  /\ ~call[c].cancelled
  /\ call' = [call EXCEPT ![c].cancelled = TRUE]
  /\ Unchanged

WorkerStep(c) ==
  \/ CheckPolicy(c)
  \/ CheckCircuit(c)
  \/ CheckConnection(c)
  \/ CancelledAtGlobal(c)
  \/ CancelledAtServer(c)
  \/ Report(c)
  \/ Release(c)

-----------------------------------------------------------------------------

\* ConfigureResilience: new channels; the runtimes of the servers are forgotten.
ConfigureResilience ==
  /\ config < Configs
  /\ config' = config + 1
  /\ failures' = [s \in Servers |-> 0]
  /\ openFor' = [s \in Servers |-> 0]
  /\ UNCHANGED <<globalUsed, serverUsed, call>>

\* The clock.
Tick ==
  /\ openFor' = [s \in Servers |-> IF openFor[s] > 0 THEN openFor[s] - 1 ELSE 0]
  /\ UNCHANGED <<config, globalUsed, serverUsed, failures, call>>

Next ==
  \/ \E c \in Calls : \/ Submit(c) \/ WorkerStep(c) \/ AcquireGlobal(c)
                      \/ AcquireServer(c) \/ Answer(c) \/ Cancel(c)
  \/ ConfigureResilience
  \/ Tick

Spec == Init /\ [][Next]_vars

\* Goroutines run; the senders of a channel are served in their order, so each
\* gets its turn when slots keep coming free; a cancelled call comes back.
\* Nothing makes a server answer.
FairSpec ==
  /\ Spec
  /\ \A c \in Calls :
       /\ WF_vars(WorkerStep(c))
       /\ SF_vars(AcquireGlobal(c)) /\ SF_vars(AcquireServer(c))
       /\ WF_vars(call[c].cancelled /\ Answer(c))

-----------------------------------------------------------------------------
(* Properties.                                                             *)

GlobalHolders(n) == {c \in Calls : call[c].config = n /\ "global" \in call[c].held}
ServerHolders(n, s) ==
  {c \in Calls : /\ call[c].config = n /\ call[c].server = s
                 /\ "server" \in call[c].held}

\* Every token in a channel belongs to a call that will take it out again,
\* through cancellations, failures and changes of the configuration: no slot is
\* lost and none is given back twice.
SlotsAccounted ==
  \A n \in 1..Configs :
    /\ globalUsed[n] = Cardinality(GlobalHolders(n))
    /\ \A s \in Servers : serverUsed[n][s] = Cardinality(ServerHolders(n, s))

\* However the configuration changes meanwhile, the calls at work under one
\* never exceed its limits.
CallsWithinLimits ==
  \A n \in 1..Configs :
    LET working == {c \in Calls : call[c].config = n /\ call[c].pc = "running"}
    IN /\ Total[n] > 0 => Cardinality(working) <= Total[n]
       /\ PerServer[n] > 0 =>
            \A s \in Servers :
              Cardinality({c \in working : call[c].server = s}) <= PerServer[n]

\* A call that was submitted ends, also when it is cancelled while it waits or
\* runs, unless some server keeps a call for ever that nobody cancels.
CallEnds ==
  \A c \in Calls :
    \/ call[c].pc # "idle" ~> call[c].pc = "done"
    \/ <>[](\E d \in Calls : call[d].pc = "running" /\ ~call[d].cancelled)

\* What the comment on the configuration calls the cooldown after the circuit
\* broke, and the refusal tells the caller to wait for: the time an open circuit
\* stays open is not extended by the calls it refuses.
CooldownNotRestarted ==
  [][\A s \in Servers : openFor[s] > 0 /\ openFor'[s] > openFor[s] =>
       \E c \in Calls : /\ call[c].pc = "report" /\ call'[c].pc = "release"
                        /\ call[c].verdict = "failed"]_vars
=============================================================================
