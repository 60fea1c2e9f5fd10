------------------------- MODULE ExternalMCPClients -------------------------
(***************************************************************************)
(* The connection of one external MCP server (mcp/external_manager.go,     *)
(* connection_recovery.go, lazySDKClient of client_sdk.go).  The manager   *)
(* registers one client of the server; goroutines connect it, calls and    *)
(* listings of tools use it, a call that finds it dead has it marked and a *)
(* reconnection scheduled, and users start, stop, change and remove the    *)
(* server meanwhile.                                                       *)
(*                                                                         *)
(* Left out: what a configuration says beyond being enabled (one that no   *)
(* client can be made of included), the texts of errors, cached tool lists *)
(* and their counts, the growth of the back-off (an attempt is recent      *)
(* until its interval has passed), the timed refresh of tool lists, which  *)
(* uses a client as any user does, and StopAll when the process ends.      *)
(***************************************************************************)
EXTENDS Naturals, FiniteSets

CONSTANTS
  Clients,      \* client objects, 1..n, used again when nobody refers to them
  Tries,        \* goroutines and timers of tryReconnect, at most so many at once
  Users,        \* goroutines that call tools or refresh the list of tools
  Requests,     \* requests of users, each made once
  Prompt,       \* the timing assumption of Quiet is made
  NoClient

\* What a request asks for; "apply" is a saved configuration with an enabled tool
\* of the server.
Kinds == {"start", "stop", "enable", "disable", "remove", "apply", "none"}

ASSUME ClientsAssumption ==
  /\ Clients \subseteq Nat /\ NoClient \notin Clients
  /\ Tries \cap Requests = {} /\ Users \cap Clients = {}

VARIABLES
  kind,         \* what each request asked for, once it is made
  config,       \* configs[name]: absent, or whether the server is enabled
  registered,   \* clients[name]
  client,       \* the client objects, with the goroutine that connects each
  use,          \* calls at work on a client, by users and after a connection
  thread,       \* tryReconnect goroutines and requests, in startClient or about to
  last,         \* reconnectLastTry and reconnectAttempts, which go together
  reconnecting, \* reconnecting[name]
  skipped       \* since the last start an attempt gave way to another, a history variable

vars == <<kind, config, registered, client, use, thread, last, reconnecting,
          skipped>>

Listers == Users \cup Clients
Threads == Tries \cup Requests

ClientStates ==
  [pc : {"idle", "dial", "register", "clear", "list", "listing", "stuck", "failed",
         "retry"},
   by : {"none", "auto", "manual", "direct"},
   connecting : BOOLEAN,
   session : {"none", "open", "broken"},
   lists : Clients \cup {NoClient}]
UseStates ==
  [pc : {"idle", "calling", "mark", "schedule"}, on : Clients \cup {NoClient}]
StartPcs == {"read", "look", "judge", "close", "delete", "recheck", "write", "store"}
TryStates ==
  [pc : {"idle", "timer", "go", "check", "attempt", "unflag"} \cup StartPcs,
   seen : Clients \cup {NoClient}]
RequestStates ==
  [pc : {"idle", "done"} \cup StartPcs, seen : Clients \cup {NoClient}]

TypeOK ==
  /\ kind \in [Requests -> Kinds]
  /\ config \in {"absent", "off", "on"}
  /\ registered \in Clients \cup {NoClient}
  /\ client \in [Clients -> ClientStates]
  /\ use \in [Listers -> UseStates]
  /\ thread \in [Threads -> TryStates \cup RequestStates]
  /\ \A t \in Tries : thread[t] \in TryStates
  /\ \A r \in Requests : thread[r] \in RequestStates
  /\ last \in {"none", "recent", "past"}
  /\ reconnecting \in BOOLEAN
  /\ skipped \in BOOLEAN

\* The status of a client is "connecting" until its goroutine is done with
\* Initialize or somebody closes it.
Unused == [pc |-> "idle", by |-> "none", connecting |-> FALSE, session |-> "none",
           lists |-> NoClient]
Connecting(by) == [Unused EXCEPT !.pc = "dial", !.by = by, !.connecting = TRUE]
NoUse == [pc |-> "idle", on |-> NoClient]
At(pc) == [pc |-> pc, seen |-> NoClient]

\* LoadConfigs and StartAllEnabled have run: a server that is enabled is being
\* connected.
Init ==
  /\ kind = [r \in Requests |-> "none"]
  /\ config \in {"absent", "off", "on"}
  /\ registered = NoClient
  /\ client = [i \in Clients |->
       IF config = "on" /\ \A j \in Clients : i <= j THEN Connecting("direct") ELSE Unused]
  /\ use = [x \in Listers |-> NoUse]
  /\ thread = [p \in Threads |-> At("idle")]
  /\ last = "none"
  /\ reconnecting = FALSE
  /\ skipped = FALSE

-----------------------------------------------------------------------------
(* The read-write lock of the manager, m.mu.  Only connectClient keeps it  *)
(* for longer than one action: it lists the tools under the read lock.     *)

Readers == {i \in Clients : client[i].pc \in {"listing", "stuck"}}
\* A writer waits for every reader, and new readers wait for a waiting writer.
MayWrite == Readers = {}
MayRead == \A i \in Readers : client[i].pc # "stuck"

Registered(P(_)) == registered # NoClient /\ P(client[registered])
\* IsConnected: a broken session is not noticed by it.
Connected(c) == c.session # "none"
ServerOn == config = "on"

\* Client objects nobody refers to any more.
Fresh == {i \in Clients :
  /\ client[i].pc = "idle" /\ client[i].session = "none" /\ registered # i
  /\ \A p \in Threads : thread[p].seen # i
  /\ \A x \in Listers : use[x].on # i
  /\ \A j \in Clients : client[j].lists # i}

Closed(c) == [c EXCEPT !.session = "none", !.connecting = FALSE]
\* The goroutine of the client ends.
Leaves(c) == [c EXCEPT !.pc = "idle", !.by = "none", !.lists = NoClient]
CloseRegistered ==
  [i \in Clients |-> IF i = registered THEN Closed(client[i]) ELSE client[i]]

Goto(p, next) == thread' = [thread EXCEPT ![p].pc = next]
FreeTries == {t \in Tries : thread[t].pc = "idle"}
\* With Prompt network, timers and users are slower than what goroutines do
\* between two waits: their events come when nobody is in the middle of steps it
\* could take.  Only for one of Tries to be free somebody may have to wait.
Quiet ==
  LET waiting == IF FreeTries = {} THEN {"schedule", "retry"} ELSE {}
  IN \/ ~Prompt \/ ~MayRead
     \/ /\ \A i \in Clients : client[i].pc \in {"idle", "dial", "listing"} \cup waiting
        /\ \A x \in Listers : use[x].pc \in {"idle", "calling"} \cup waiting
        /\ \A p \in Threads : thread[p].pc \in {"idle", "timer", "done"}
\* A goroutine or a timer for tryReconnect.
SpawnTry(pc) ==
  \E t \in FreeTries : /\ \A u \in FreeTries : t <= u
                       /\ thread' = [thread EXCEPT ![t] = At(pc)]

-----------------------------------------------------------------------------
(* The goroutine that connects a client: doConnect and what startClient    *)
(* does after it, or connectClient.                                        *)

\* Faulty variant: an automatic attempt that fails is the last.
DialFailsForGood(i) ==
  /\ client[i].pc = "dial" /\ Quiet
  /\ client' = [client EXCEPT ![i] = Unused]
  /\ UNCHANGED <<kind, skipped, config, registered, use, thread, last, reconnecting>>

\* Initialize fails or times out; only automatic attempts are repeated.
DialFails(i) ==
  /\ client[i].pc = "dial" /\ Quiet
  /\ client' = [client EXCEPT ![i] =
       IF @.by = "auto" THEN [@ EXCEPT !.pc = "failed", !.connecting = FALSE] ELSE Unused]
  /\ UNCHANGED <<kind, skipped, config, registered, use, thread, last, reconnecting>>

\* Initialize sets the inner client, also of a client that was closed meanwhile.
DialSucceeds(i) ==
  /\ client[i].pc = "dial" /\ Quiet
  /\ client' = [client EXCEPT ![i] =
       [@ EXCEPT !.connecting = FALSE, !.session = "open",
                 !.pc = IF client[i].by = "direct" THEN "register" ELSE "clear"]]
  /\ UNCHANGED <<kind, skipped, config, registered, use, thread, last, reconnecting>>

\* connectClient registers its client only now, whatever is registered.
Register(i) ==
  /\ client[i].pc = "register" /\ MayWrite
  /\ registered' = i
  /\ client' = [client EXCEPT ![i].pc = "clear"]
  /\ UNCHANGED <<kind, skipped, config, use, thread, last, reconnecting>>

\* onClientConnected, and the listing of the tools that follows a start.
OnClientConnected(i) ==
  /\ client[i].pc = "clear"
  /\ client[i].by = "direct" \/ MayWrite
  /\ last' = "none" /\ reconnecting' = FALSE
  /\ IF client[i].by = "direct"
     THEN client' = [client EXCEPT ![i].pc = "list"] /\ UNCHANGED use
     ELSE /\ client' = [client EXCEPT ![i] = Leaves(@)]
          /\ use' = [use EXCEPT ![i] = [pc |-> "calling", on |-> i]]
  /\ UNCHANGED <<kind, skipped, config, registered, thread>>

\* connectClient takes the read lock and lists the tools of what is registered.
ListLocked(i) ==
  /\ client[i].pc = "list" /\ MayRead
  /\ client' = [client EXCEPT ![i] =
       IF Registered(Connected) THEN [@ EXCEPT !.pc = "listing", !.lists = registered]
       ELSE Leaves(@)]
  /\ UNCHANGED <<kind, skipped, config, registered, use, thread, last, reconnecting>>

\* The list arrives, or the error of the listing it has joined.
ListArrives(i) ==
  LET j == client[i].lists
  IN /\ client[i].pc = "listing"
     /\ \/ client[j].session = "open"
        \/ \E x \in Listers : use[x] = [pc |-> "calling", on |-> j]
     /\ client' = [client EXCEPT ![i] = Leaves(@)]
     /\ UNCHANGED <<kind, skipped, config, registered, use, thread, last, reconnecting>>

\* The connection died: markClientDisconnected closes the client and asks for
\* the write lock while its caller holds the read lock.
ListFindsDead(i) ==
  LET j == client[i].lists
  IN /\ client[i].pc = "listing" /\ client[j].session # "open"
     /\ client' = [[client EXCEPT ![j] = Closed(@)] EXCEPT ![i] =
           [@ EXCEPT !.pc = "stuck", !.lists = NoClient]]
     /\ UNCHANGED <<kind, skipped, config, registered, use, thread, last, reconnecting>>

\* Under the write lock the error is recorded.
RecordError(i) ==
  /\ client[i].pc = "failed" /\ MayWrite
  /\ client' = [client EXCEPT ![i].pc = "retry"]
  /\ UNCHANGED <<kind, skipped, config, registered, use, thread, last, reconnecting>>

\* scheduleReconnectAfterFailure
ScheduleAfterFailure(i) ==
  /\ client[i].pc = "retry" /\ MayRead
  /\ client' = [client EXCEPT ![i] = Leaves(@)]
  /\ IF ServerOn THEN SpawnTry(IF last = "none" THEN "go" ELSE "timer")
     ELSE UNCHANGED thread
  /\ UNCHANGED <<kind, skipped, config, registered, use, last, reconnecting>>

ConnectStep(i) ==
  \/ DialFails(i)
  \/ DialSucceeds(i)
  \/ Register(i)
  \/ OnClientConnected(i)
  \/ ListLocked(i)
  \/ ListArrives(i)
  \/ ListFindsDead(i)
  \/ RecordError(i)
  \/ ScheduleAfterFailure(i)

\* The transport breaks; nobody notices before the next use.
Break(i) ==
  /\ client[i].session = "open" /\ Quiet
  /\ client' = [client EXCEPT ![i].session = "broken"]
  /\ UNCHANGED <<kind, skipped, config, registered, use, thread, last, reconnecting>>

-----------------------------------------------------------------------------
(* Calls and listings.                                                     *)

\* GetClient and the check of the connection.
BeginUse(x) ==
  /\ x \in Users /\ use[x].pc = "idle" /\ MayRead
  /\ Registered(Connected)
  /\ use' = [use EXCEPT ![x] = [pc |-> "calling", on |-> registered]]
  /\ UNCHANGED <<kind, skipped, config, registered, client, thread, last, reconnecting>>

\* An answer, or an error that does not say that the connection is dead.
UseEnds(x) ==
  /\ use[x].pc = "calling" /\ client[use[x].on].session # "broken"
  /\ use' = [use EXCEPT ![x] = NoUse]
  /\ UNCHANGED <<kind, skipped, config, registered, client, thread, last, reconnecting>>

\* handleConnectionDead: first the client, whether or not it is the registered
\* one, then the manager's maps.
UseFindsDead(x) ==
  /\ use[x].pc = "calling" /\ client[use[x].on].session # "open"
  /\ client' = [client EXCEPT ![use[x].on] = Closed(@)]
  /\ use' = [use EXCEPT ![x].pc = "mark"]
  /\ UNCHANGED <<kind, skipped, config, registered, thread, last, reconnecting>>

MarkClientDisconnected(x) ==
  /\ use[x].pc = "mark" /\ MayWrite
  /\ use' = [use EXCEPT ![x].pc = "schedule"]
  /\ UNCHANGED <<kind, skipped, config, registered, client, thread, last, reconnecting>>

ScheduleReconnect(x) ==
  /\ use[x].pc = "schedule" /\ MayRead
  /\ use' = [use EXCEPT ![x] = NoUse]
  /\ IF ServerOn THEN SpawnTry("go") ELSE UNCHANGED thread
  /\ UNCHANGED <<kind, skipped, config, registered, client, last, reconnecting>>

UseStep(x) ==
  \/ BeginUse(x)
  \/ UseEnds(x)
  \/ UseFindsDead(x)
  \/ MarkClientDisconnected(x)
  \/ ScheduleReconnect(x)

-----------------------------------------------------------------------------
(* tryReconnect                                                            *)

TimerFires(t) ==
  /\ thread[t].pc = "timer" /\ Quiet
  /\ Goto(t, "go")
  /\ UNCHANGED <<kind, skipped, config, registered, client, use, last, reconnecting>>

\* Faulty variant: an attempt at work is no reason to give up.
TakeTurnTogether(t) ==
  /\ thread[t].pc = "go"
  /\ IF last = "recent" THEN Goto(t, "timer") /\ UNCHANGED reconnecting
     ELSE Goto(t, "check") /\ reconnecting' = TRUE
  /\ UNCHANGED <<kind, skipped, config, registered, client, use, last>>

\* Faulty variant: the interval since the last attempt is not looked at.
TakeTurnAtOnce(t) ==
  /\ thread[t].pc = "go"
  /\ Goto(t, IF reconnecting THEN "idle" ELSE "check")
  /\ reconnecting' = TRUE
  /\ skipped' = (skipped \/ reconnecting)
  /\ UNCHANGED <<kind, config, registered, client, use, last>>

\* The flag and the back-off, under reconnectMu.
TakeTurn(t) ==
  /\ thread[t].pc = "go"
  /\ IF reconnecting THEN Goto(t, "idle") /\ UNCHANGED reconnecting
     ELSE IF last = "recent" THEN Goto(t, "timer") /\ UNCHANGED reconnecting
     ELSE Goto(t, "check") /\ reconnecting' = TRUE
  /\ skipped' = (skipped \/ reconnecting)
  /\ UNCHANGED <<kind, config, registered, client, use, last>>

CheckEnabled(t) ==
  LET connecting(c) == c.connecting
  IN /\ thread[t].pc = "check" /\ MayRead
     /\ Goto(t, IF ServerOn /\ ~Registered(connecting) THEN "attempt" ELSE "unflag")
     /\ UNCHANGED <<kind, skipped, config, registered, client, use, last, reconnecting>>

CountAttempt(t) ==
  /\ thread[t].pc = "attempt"
  /\ last' = "recent"
  /\ Goto(t, "read")
  /\ UNCHANGED <<kind, skipped, config, registered, client, use, reconnecting>>

\* The deferred delete.
Unflag(t) ==
  /\ thread[t].pc = "unflag"
  /\ reconnecting' = FALSE
  /\ thread' = [thread EXCEPT ![t] = At("idle")]
  /\ UNCHANGED <<kind, skipped, config, registered, client, use, last>>

TryStep(t) ==
  \/ TimerFires(t)
  \/ TakeTurn(t)
  \/ CheckEnabled(t)
  \/ CountAttempt(t)
  \/ Unflag(t)

-----------------------------------------------------------------------------
(* startClient, in a tryReconnect goroutine or for a request.              *)

Automatic(p) == p \in Tries
Returned(p) == IF Automatic(p) THEN "unflag" ELSE "done"
Returns(p) == thread' = [thread EXCEPT ![p] = At(Returned(p))]

ReadConfig(p) ==
  /\ thread[p].pc = "read" /\ MayWrite
  /\ IF config = "absent" \/ (Automatic(p) /\ ~ServerOn) THEN Returns(p) ELSE Goto(p, "look")
  /\ UNCHANGED <<kind, skipped, config, registered, client, use, last, reconnecting>>

LookForClient(p) ==
  /\ thread[p].pc = "look" /\ MayRead
  /\ IF registered # NoClient
     THEN thread' = [thread EXCEPT ![p] = [pc |-> "judge", seen |-> registered]]
     ELSE Goto(p, IF Automatic(p) THEN "recheck" ELSE "write")
  /\ UNCHANGED <<kind, skipped, config, registered, client, use, last, reconnecting>>

\* A connected client is all that was asked for; a start enables its server.
JudgeClient(p) ==
  /\ thread[p].pc = "judge"
  /\ IF Connected(client[thread[p].seen])
     THEN IF Automatic(p) THEN Returns(p) /\ UNCHANGED config
          ELSE MayWrite /\ config' = "on" /\ Returns(p)
     ELSE Goto(p, "close") /\ UNCHANGED config
  /\ UNCHANGED <<kind, skipped, registered, client, use, last, reconnecting>>

CloseOld(p) ==
  /\ thread[p].pc = "close"
  /\ client' = [client EXCEPT ![thread[p].seen] = Closed(@)]
  /\ Goto(p, "delete")
  /\ UNCHANGED <<kind, skipped, config, registered, use, last, reconnecting>>

\* By the name of the server, whichever client is registered now.
DeleteOld(p) ==
  /\ thread[p].pc = "delete" /\ MayWrite
  /\ registered' = NoClient
  /\ thread' = [thread EXCEPT ![p] = At(IF Automatic(p) THEN "recheck" ELSE "write")]
  /\ UNCHANGED <<kind, skipped, config, client, use, last, reconnecting>>

\* Only automatic attempts look again whether the server is enabled.
Recheck(p) ==
  /\ thread[p].pc = "recheck" /\ MayRead
  /\ IF ServerOn THEN Goto(p, "write") ELSE Returns(p)
  /\ UNCHANGED <<kind, skipped, config, registered, client, use, last, reconnecting>>

\* The copy of the configuration is written back, enabled.
WriteConfig(p) ==
  /\ thread[p].pc = "write" /\ MayWrite
  /\ config' = "on"
  /\ Goto(p, "store")
  /\ UNCHANGED <<kind, skipped, registered, client, use, last, reconnecting>>

StoreClient(p) ==
  /\ thread[p].pc = "store" /\ MayWrite
  /\ \E i \in Fresh :
       /\ \A j \in Fresh : i <= j
       /\ registered' = i
       /\ client' = [client EXCEPT ![i] = Connecting(IF Automatic(p) THEN "auto" ELSE "manual")]
  /\ Returns(p)
  /\ skipped' = FALSE
  /\ UNCHANGED <<kind, config, use, last, reconnecting>>

StartStep(p) ==
  \/ ReadConfig(p)
  \/ LookForClient(p)
  \/ JudgeClient(p)
  \/ CloseOld(p)
  \/ DeleteOld(p)
  \/ Recheck(p)
  \/ WriteConfig(p)
  \/ StoreClient(p)

-----------------------------------------------------------------------------
(* Requests.  The handler of external servers serializes its own with its  *)
(* mutex; the one that saves the whole configuration does not take it.     *)

HandlerFree ==
  \A r \in Requests : thread[r].pc \in StartPcs => kind[r] = "apply"
Asks(r, k) ==
  /\ thread[r].pc = "idle" /\ Quiet
  /\ HandlerFree
  /\ kind' = [kind EXCEPT ![r] = k]

StartClient(r) ==
  /\ Asks(r, "start")
  /\ Goto(r, "read")
  /\ UNCHANGED <<skipped, config, registered, client, use, last, reconnecting>>

StopClient(r) ==
  /\ Asks(r, "stop") /\ MayWrite
  /\ Goto(r, "done")
  /\ IF config = "absent" THEN UNCHANGED <<config, registered, client, last, reconnecting>>
     ELSE /\ client' = CloseRegistered /\ registered' = NoClient
          /\ config' = "off"
          /\ last' = "none" /\ reconnecting' = FALSE
  /\ UNCHANGED <<skipped, use>>

RemoveConfig(r) ==
  /\ Asks(r, "remove") /\ MayWrite
  /\ Goto(r, "done")
  /\ client' = CloseRegistered /\ registered' = NoClient
  /\ config' = "absent"
  /\ last' = "none" /\ reconnecting' = FALSE
  /\ UNCHANGED <<skipped, use>>

\* AddOrUpdateConfig; what tryReconnect remembers stays.
AddOrUpdateConfig(r) ==
  /\ MayWrite
  /\ Goto(r, "done")
  /\ registered' = NoClient
  /\ \/ /\ Asks(r, "disable")
        /\ config' = "off"
        /\ client' = CloseRegistered
     \/ /\ Asks(r, "enable")
        /\ config' = "on"
        /\ \E i \in Fresh :
             /\ \A j \in Fresh : i <= j
             /\ client' = [CloseRegistered EXCEPT ![i] = Connecting("direct")]
  /\ UNCHANGED <<skipped, use, last, reconnecting>>

\* ApplyConfig: LoadConfigs, and a start of its own goroutine unless connected.
ApplyConfig(r) ==
  /\ thread[r].pc = "idle" /\ MayWrite /\ Quiet
  /\ kind' = [kind EXCEPT ![r] = "apply"]
  /\ config' = IF config = "absent" THEN config ELSE "on"
  /\ Goto(r, IF config = "absent" \/ Registered(Connected) THEN "done" ELSE "read")
  /\ UNCHANGED <<skipped, registered, client, use, last, reconnecting>>

RequestStep(r) ==
  \/ StartClient(r)
  \/ StopClient(r)
  \/ RemoveConfig(r)
  \/ AddOrUpdateConfig(r)
  \/ ApplyConfig(r)

\* The interval since the last attempt has passed.
Tick ==
  /\ last = "recent" /\ Quiet
  /\ last' = "past"
  /\ UNCHANGED <<kind, skipped, config, registered, client, use, thread, reconnecting>>

Next ==
  \/ \E i \in Clients : ConnectStep(i) \/ Break(i)
  \/ \E x \in Listers : UseStep(x)
  \/ \E t \in Tries : TryStep(t)
  \/ \E p \in Threads : StartStep(p)
  \/ \E r \in Requests : RequestStep(r)
  \/ Tick

Spec == Init /\ [][Next]_vars

\* Goroutines run, timers fire, connecting ends at the latest with its timeout,
\* and time passes.  No user makes a request of necessity.
FairSpec ==
  /\ Spec
  /\ \A i \in Clients : WF_vars(ConnectStep(i))
  /\ \A x \in Listers : WF_vars(UseStep(x))
  /\ \A t \in Tries : WF_vars(TryStep(t) \/ StartStep(t))
  /\ \A r \in Requests : WF_vars(StartStep(r))
  /\ SF_vars(Tick)

-----------------------------------------------------------------------------
(* Properties.                                                             *)

\* So far no user has interfered.
Calm == \A r \in Requests : thread[r].pc = "idle"

\* clearReconnectState and the deferred deletes take the flag away from one
\* another's attempts, but nobody leaves it behind: as long as it keeps others
\* from reconnecting, some tryReconnect is at work.
FlagHasHolder ==
  reconnecting => \E t \in Tries : thread[t].pc \notin {"idle", "timer", "go"}

\* Self-healing alone, with several detections, timers and attempts in any
\* order, never opens a second connection beside one that is open or in the
\* making.
HealsAlone ==
  Calm => Cardinality({i \in Clients : Connected(client[i]) \/ client[i].pc = "dial"}) <= 1

\* Two automatic attempts without a connection in between are kept apart by the
\* back-off: one that comes too early finds the server connected again.
AttemptsSpaced ==
  [][\A t \in Tries : Calm /\ thread[t].pc = "attempt" /\ thread[t]'.pc # "attempt"
       => last # "recent" \/ Registered(Connected)]_vars

\* A client that was found dead or that an automatic attempt could not connect
\* does not stay the client of an enabled server until a user interferes: it is
\* tried again, unless tryReconnect gave way to an attempt that had looked
\* before, or connectClient blocks the manager.
DeadIsReplaced ==
  LET idleAndDead(c) == c.pc = "idle" /\ ~Connected(c)
      lost == ServerOn /\ Calm /\ Registered(idleAndDead)
  IN lost ~> ~lost \/ skipped \/ ~MayRead

\* What the comment of handleConnectionDead promises: a connection found dead is
\* marked in the manager and its reconnection is scheduled.
DeadIsMarked == ~MayRead ~> MayRead
=============================================================================
