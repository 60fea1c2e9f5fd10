---------------------- MODULE ExternalMCPClientsProofs ----------------------
(***************************************************************************)
(* Proofs about ExternalMCPClients for every number of clients, attempts,  *)
(* users and requests: its type invariant, and that the flag which keeps   *)
(* other attempts from reconnecting is never left behind; and, with the    *)
(* timing assumption Prompt, that attempts to reconnect neither overlap    *)
(* nor come sooner than the back-off lets them.                            *)
(***************************************************************************)
EXTENDS ExternalMCPClients, FiniteSetTheorems, TLAPS

\* Client records that the goroutines of the module build are typed.
LEMMA RecordsTyped ==
  ASSUME NEW c \in ClientStates
  PROVE  /\ Closed(c) \in ClientStates /\ Leaves(c) \in ClientStates
         /\ Unused \in ClientStates
         /\ \A by \in {"auto", "manual", "direct"} : Connecting(by) \in ClientStates
BY DEF Closed, Leaves, Unused, Connecting, ClientStates

\* So are the records with which a goroutine goes on.
LEMMA UpdatesTyped ==
  ASSUME NEW c \in ClientStates
  PROVE  /\ [c EXCEPT !.pc = "failed", !.connecting = FALSE] \in ClientStates
         /\ \A pc \in {"register", "clear"} :
              [c EXCEPT !.connecting = FALSE, !.session = "open", !.pc = pc] \in ClientStates
         /\ \A j \in Clients : [c EXCEPT !.pc = "listing", !.lists = j] \in ClientStates
         /\ [c EXCEPT !.pc = "stuck", !.lists = NoClient] \in ClientStates
BY DEF ClientStates

\* Program counters a goroutine may be given are those of its kind.
LEMMA MovesTyped ==
  ASSUME TypeOK, NEW p \in Threads, NEW next,
         p \in Tries => next \in {"idle", "timer", "go", "check", "attempt", "unflag"}
                                   \cup StartPcs,
         p \in Requests => next \in {"idle", "done"} \cup StartPcs,
         NEW s \in Clients \cup {NoClient},
         \/ thread' = [thread EXCEPT ![p].pc = next]
         \/ thread' = [thread EXCEPT ![p] = [pc |-> next, seen |-> s]]
  PROVE  /\ thread' \in [Threads -> TryStates \cup RequestStates]
         /\ \A t \in Tries : thread'[t] \in TryStates
         /\ \A r \in Requests : thread'[r] \in RequestStates
<1>1. CASE thread' = [thread EXCEPT ![p].pc = next]
  BY <1>1, ClientsAssumption DEF TypeOK, Threads, TryStates, RequestStates, StartPcs
<1>2. CASE thread' = [thread EXCEPT ![p] = [pc |-> next, seen |-> s]]
  BY <1>2, ClientsAssumption DEF TypeOK, Threads, TryStates, RequestStates, StartPcs
<1> QED BY <1>1, <1>2

\* A spawned tryReconnect leaves the others as they are.
LEMMA SpawnTyped ==
  ASSUME TypeOK, NEW pc \in {"go", "timer"}, SpawnTry(pc)
  PROVE  /\ thread' \in [Threads -> TryStates \cup RequestStates]
         /\ \A t \in Tries : thread'[t] \in TryStates
         /\ \A r \in Requests : thread'[r] \in RequestStates
         /\ \A t \in Tries : thread[t].pc # "idle" => thread'[t] = thread[t]
<1>1. PICK t \in FreeTries : thread' = [thread EXCEPT ![t] = [pc |-> pc, seen |-> NoClient]]
  BY DEF SpawnTry, At
<1>2. t \in Tries /\ t \in Threads /\ t \notin Requests /\ thread[t].pc = "idle"
  BY ClientsAssumption DEF FreeTries, Threads
<1>3. /\ thread' \in [Threads -> TryStates \cup RequestStates]
      /\ \A u \in Tries : thread'[u] \in TryStates
      /\ \A r \in Requests : thread'[r] \in RequestStates
  BY <1>1, <1>2, MovesTyped
<1>4. \A u \in Tries : thread[u].pc # "idle" => thread'[u] = thread[u]
  BY <1>1, <1>2 DEF TypeOK, Threads
<1> QED BY <1>3, <1>4

\* The connecting goroutine keeps the types.
LEMMA ConnectKeepsTypes ==
  ASSUME TypeOK, NEW i \in Clients, ConnectStep(i)
  PROVE  TypeOK'
<1> USE RecordsTyped
<1>1. CASE DialFails(i)
  BY <1>1, UpdatesTyped DEF DialFails, TypeOK
<1>2. CASE DialSucceeds(i)
  <2>1. PICK pc \in {"register", "clear"} :
           client' = [client EXCEPT ![i] =
             [@ EXCEPT !.connecting = FALSE, !.session = "open", !.pc = pc]]
    BY <1>2 DEF DialSucceeds
  <2>2. client' \in [Clients -> ClientStates]
    BY <2>1, UpdatesTyped DEF TypeOK
  <2> QED BY <1>2, <2>2 DEF DialSucceeds, TypeOK
<1>3. CASE Register(i)
  BY <1>3 DEF Register, TypeOK, ClientStates
<1>4. CASE OnClientConnected(i)
  <2>1. client' \in [Clients -> ClientStates]
    <3>1. CASE client' = [client EXCEPT ![i].pc = "list"]
      BY <3>1 DEF TypeOK, ClientStates
    <3>2. CASE client' = [client EXCEPT ![i] = Leaves(@)]
      BY <3>2 DEF TypeOK
    <3> QED BY <1>4, <3>1, <3>2 DEF OnClientConnected
  <2>2. use' \in [Listers -> UseStates]
    BY SMTT(30), <1>4 DEF OnClientConnected, TypeOK, UseStates, Listers
  <2> QED BY <1>4, <2>1, <2>2 DEF OnClientConnected, TypeOK
<1>5. CASE ListLocked(i)
  <2>1. CASE registered \in Clients
    BY <1>5, <2>1, UpdatesTyped DEF ListLocked, TypeOK
  <2>2. CASE registered = NoClient
    BY <1>5, <2>2 DEF ListLocked, TypeOK, Registered
  <2> QED BY <2>1, <2>2 DEF TypeOK
<1>6. CASE ListArrives(i)
  BY <1>6 DEF ListArrives, TypeOK
<1>7. CASE ListFindsDead(i)
  <2>1. PICK j \in Clients \cup {NoClient} : j = client[i].lists
    BY DEF TypeOK, ClientStates
  <2>2. [client EXCEPT ![j] = Closed(@)] \in [Clients -> ClientStates]
    BY DEF TypeOK
  <2>3. client' \in [Clients -> ClientStates]
    BY <1>7, <2>1, <2>2, UpdatesTyped DEF ListFindsDead
  <2> QED BY <1>7, <2>3 DEF ListFindsDead, TypeOK
<1>8. CASE RecordError(i)
  BY <1>8 DEF RecordError, TypeOK, ClientStates
<1>9. CASE ScheduleAfterFailure(i)
  <2>1. client' \in [Clients -> ClientStates]
    BY <1>9 DEF ScheduleAfterFailure, TypeOK
  <2>2. CASE UNCHANGED thread
    BY <1>9, <2>1, <2>2 DEF ScheduleAfterFailure, TypeOK
  <2>3. CASE \E pc \in {"go", "timer"} : SpawnTry(pc)
    BY <1>9, <2>1, <2>3, SpawnTyped DEF ScheduleAfterFailure, TypeOK
  <2> QED BY <1>9, <2>2, <2>3 DEF ScheduleAfterFailure
<1> QED
  BY SMTT(30), <1>1, <1>2, <1>3, <1>4, <1>5, <1>6, <1>7, <1>8, <1>9 DEF ConnectStep

\* A use of a client keeps the types.
LEMMA UseKeepsTypes ==
  ASSUME TypeOK, NEW x \in Listers, UseStep(x)
  PROVE  TypeOK'
<1>1. CASE BeginUse(x)
  BY <1>1 DEF BeginUse, TypeOK, UseStates
<1>2. CASE UseEnds(x)
  BY <1>2 DEF UseEnds, TypeOK, UseStates, NoUse
<1>3. CASE UseFindsDead(x)
  <2>1. PICK j \in Clients \cup {NoClient} : j = use[x].on
    BY DEF TypeOK, UseStates
  <2>2. client' \in [Clients -> ClientStates]
    BY <1>3, <2>1, RecordsTyped DEF UseFindsDead, TypeOK
  <2>3. use' \in [Listers -> UseStates]
    BY <1>3 DEF UseFindsDead, TypeOK, UseStates
  <2> QED BY <1>3, <2>2, <2>3 DEF UseFindsDead, TypeOK
<1>4. CASE MarkClientDisconnected(x)
  BY <1>4 DEF MarkClientDisconnected, TypeOK, UseStates
<1>5. CASE ScheduleReconnect(x)
  <2>1. use' \in [Listers -> UseStates]
    BY <1>5 DEF ScheduleReconnect, TypeOK, UseStates, NoUse
  <2>2. CASE UNCHANGED thread
    BY <1>5, <2>1, <2>2 DEF ScheduleReconnect, TypeOK
  <2>3. CASE SpawnTry("go")
    BY <1>5, <2>1, <2>3, SpawnTyped DEF ScheduleReconnect, TypeOK
  <2> QED BY <1>5, <2>2, <2>3 DEF ScheduleReconnect
<1> QED BY <1>1, <1>2, <1>3, <1>4, <1>5 DEF UseStep

\* tryReconnect keeps the types.
LEMMA TryKeepsTypes ==
  ASSUME TypeOK, NEW t \in Tries, TryStep(t)
  PROVE  TypeOK'
<1>1. t \in Threads /\ t \notin Requests
  BY ClientsAssumption DEF Threads
<1>2. /\ thread' \in [Threads -> TryStates \cup RequestStates]
      /\ \A u \in Tries : thread'[u] \in TryStates
      /\ \A r \in Requests : thread'[r] \in RequestStates
  <2>1. PICK next \in {"idle", "timer", "go", "check", "attempt", "unflag"} \cup StartPcs :
           \/ thread' = [thread EXCEPT ![t].pc = next]
           \/ thread' = [thread EXCEPT ![t] = [pc |-> next, seen |-> NoClient]]
    BY DEF TryStep, TimerFires, TakeTurn, CheckEnabled, CountAttempt, Unflag, Goto, At,
           StartPcs
  <2> QED BY <1>1, <2>1, MovesTyped
<1>3. TypeOK'
  BY <1>2 DEF TypeOK, TryStep, TimerFires, TakeTurn, CheckEnabled, CountAttempt, Unflag
<1> QED BY <1>3

\* startClient keeps the types, for a request as for tryReconnect.
LEMMA StartKeepsTypes ==
  ASSUME TypeOK, NEW p \in Threads, StartStep(p)
  PROVE  TypeOK'
<1> DEFINE nexts == {Returned(p)} \cup StartPcs
<1>1. \A next \in nexts :
        /\ p \in Tries => next \in {"idle", "timer", "go", "check", "attempt", "unflag"}
                                    \cup StartPcs
        /\ p \in Requests => next \in {"idle", "done"} \cup StartPcs
  <2>1. CASE p \in Tries
    <3>1. p \notin Requests
      BY <2>1, ClientsAssumption
    <3>2. Returned(p) = "unflag"
      BY <2>1, <3>1, Zenon DEF Returned, Automatic
    <3> QED BY <3>1, <3>2
  <2>2. CASE p \in Requests
    <3>1. p \notin Tries
      BY <2>2, ClientsAssumption
    <3>2. Returned(p) = "done"
      BY <2>2, <3>1, Zenon DEF Returned, Automatic
    <3> QED BY <3>1, <3>2
  <2> QED BY <2>1, <2>2 DEF Threads
<1>2. PICK next \in nexts, s \in Clients \cup {NoClient} :
         \/ thread' = [thread EXCEPT ![p].pc = next]
         \/ thread' = [thread EXCEPT ![p] = [pc |-> next, seen |-> s]]
  <2>1. CASE ReadConfig(p) \/ JudgeClient(p) \/ CloseOld(p) \/ Recheck(p) \/ WriteConfig(p)
             \/ StoreClient(p) \/ DeleteOld(p)
    BY <2>1 DEF ReadConfig, JudgeClient, CloseOld, Recheck, WriteConfig, StoreClient,
                DeleteOld, Goto, Returns, At, StartPcs
  <2>2. CASE LookForClient(p)
    BY <2>2 DEF LookForClient, Goto, StartPcs, TypeOK
  <2> QED BY <2>1, <2>2 DEF StartStep
<1>3. /\ thread' \in [Threads -> TryStates \cup RequestStates]
      /\ \A u \in Tries : thread'[u] \in TryStates
      /\ \A r \in Requests : thread'[r] \in RequestStates
  <2> HIDE DEF nexts
  <2> QED BY <1>1, <1>2, MovesTyped
<1>4. client' \in [Clients -> ClientStates]
  <2>1. CASE CloseOld(p)
    BY <2>1, RecordsTyped DEF CloseOld, TypeOK
  <2>2. CASE StoreClient(p)
    <3>1. PICK i \in Fresh, by \in {"auto", "manual"} :
             client' = [client EXCEPT ![i] = Connecting(by)]
      BY <2>2 DEF StoreClient
    <3>2. Connecting(by) \in ClientStates
      BY DEF Connecting, Unused, ClientStates
    <3> QED BY <3>1, <3>2 DEF TypeOK
  <2> QED
    BY <2>1, <2>2 DEF StartStep, ReadConfig, LookForClient, JudgeClient, DeleteOld, Recheck,
                      WriteConfig, TypeOK
<1>5. /\ config' \in {"absent", "off", "on"}
      /\ registered' \in Clients \cup {NoClient}
      /\ UNCHANGED <<kind, use, last, reconnecting>>
      /\ skipped' \in BOOLEAN
  BY DEF StartStep, ReadConfig, LookForClient, JudgeClient, CloseOld, DeleteOld, Recheck,
         WriteConfig, StoreClient, TypeOK, Fresh
<1> QED BY <1>3, <1>4, <1>5 DEF TypeOK

\* A request of a user keeps the types.
LEMMA RequestKeepsTypes ==
  ASSUME TypeOK, NEW r \in Requests, RequestStep(r)
  PROVE  TypeOK'
<1>1. r \in Threads /\ r \notin Tries
  BY ClientsAssumption DEF Threads
<1>2. /\ thread' \in [Threads -> TryStates \cup RequestStates]
      /\ \A u \in Tries : thread'[u] \in TryStates
      /\ \A q \in Requests : thread'[q] \in RequestStates
  <2>1. PICK next \in {"done"} \cup StartPcs : thread' = [thread EXCEPT ![r].pc = next]
    BY DEF RequestStep, StartClient, StopClient, RemoveConfig, AddOrUpdateConfig, ApplyConfig,
           Goto, StartPcs
  <2> QED BY <1>1, <2>1, MovesTyped
<1>3. CloseRegistered \in [Clients -> ClientStates]
  BY RecordsTyped DEF CloseRegistered, TypeOK
<1>4. client' \in [Clients -> ClientStates]
  <2>1. CASE AddOrUpdateConfig(r)
    <3>1. CASE client' = CloseRegistered
      BY <1>3, <3>1
    <3>2. CASE \E i \in Fresh : client' = [CloseRegistered EXCEPT ![i] = Connecting("direct")]
      <4>1. PICK i \in Fresh : client' = [CloseRegistered EXCEPT ![i] = Connecting("direct")]
        BY <3>2
      <4>2. Connecting("direct") \in ClientStates
        BY DEF Connecting, Unused, ClientStates
      <4> QED BY <1>3, <4>1, <4>2
    <3> QED BY <2>1, <3>1, <3>2 DEF AddOrUpdateConfig
  <2> QED
    BY <1>3, <2>1 DEF RequestStep, StartClient, StopClient, RemoveConfig, ApplyConfig, TypeOK
<1>5. kind' \in [Requests -> Kinds]
  BY DEF RequestStep, StartClient, StopClient, RemoveConfig, AddOrUpdateConfig, ApplyConfig,
         Asks, Kinds, TypeOK
<1>6. /\ config' \in {"absent", "off", "on"}
      /\ registered' \in Clients \cup {NoClient}
      /\ last' \in {"none", "recent", "past"}
      /\ reconnecting' \in BOOLEAN
      /\ UNCHANGED <<use, skipped>>
  BY DEF RequestStep, StartClient, StopClient, RemoveConfig, AddOrUpdateConfig, ApplyConfig,
         TypeOK
<1> QED BY <1>2, <1>4, <1>5, <1>6 DEF TypeOK

\* The initial states are typed.
LEMMA TypesInit == Init => TypeOK
<1> SUFFICES ASSUME Init PROVE TypeOK
  OBVIOUS
<1>1. client \in [Clients -> ClientStates]
  BY DEF Init, Connecting, Unused, ClientStates
<1>2. use \in [Listers -> UseStates]
  BY DEF Init, NoUse, UseStates
<1>3. /\ thread \in [Threads -> TryStates \cup RequestStates]
      /\ \A t \in Tries : thread[t] \in TryStates
      /\ \A r \in Requests : thread[r] \in RequestStates
  BY DEF Init, At, TryStates, RequestStates, Threads
<1>4. kind \in [Requests -> Kinds]
  BY DEF Init, Kinds
<1> QED BY <1>1, <1>2, <1>3, <1>4 DEF Init, TypeOK

\* Every step keeps the types.
LEMMA TypesNext == TypeOK /\ [Next]_vars => TypeOK'
<1> SUFFICES ASSUME TypeOK, [Next]_vars PROVE TypeOK'
  OBVIOUS
<1>1. CASE \E i \in Clients : Break(i)
  BY <1>1 DEF Break, TypeOK, ClientStates
<1>2. CASE Tick
  BY <1>2 DEF Tick, TypeOK
<1>3. CASE UNCHANGED vars
  BY <1>3 DEF vars, TypeOK
<1> QED
  BY <1>1, <1>2, <1>3, ConnectKeepsTypes, UseKeepsTypes, TryKeepsTypes, StartKeepsTypes,
     RequestKeepsTypes DEF Next

\* Type correctness of a server's connection for all constants.
THEOREM TypeCorrect == Spec => []TypeOK
BY TypesInit, TypesNext, PTL DEF Spec

-----------------------------------------------------------------------------
(* The flag of reconnectMu.                                                *)

\* An attempt past TakeTurn, whose goroutine will delete the flag.
Holds(t) == thread[t].pc \notin {"idle", "timer", "go"}

\* A step that leaves the flag as it is or clears it, and lets whoever holds it go on,
\* keeps FlagHasHolder.
LEMMA HolderStays ==
  ASSUME FlagHasHolder, reconnecting' => reconnecting,
         \A t \in Tries : Holds(t) /\ reconnecting' => Holds(t)'
  PROVE  FlagHasHolder'
BY DEF FlagHasHolder, Holds

\* Every step of tryReconnect and of the start it makes keeps FlagHasHolder.
LEMMA TryKeepsHolder ==
  ASSUME TypeOK, FlagHasHolder, NEW t \in Tries, TryStep(t)
  PROVE  FlagHasHolder'
<1>1. t \in Threads
  BY DEF Threads
<1>2. CASE TimerFires(t)
  BY <1>1, <1>2, HolderStays DEF TimerFires, Goto, Holds, TypeOK
<1>3. CASE TakeTurn(t)
  <2>1. CASE reconnecting
    <3>1. thread' = [thread EXCEPT ![t].pc = "idle"] /\ thread[t].pc = "go"
      BY <1>3, <2>1, Zenon DEF TakeTurn, Goto
    <3>2. \A u \in Tries : Holds(u) => Holds(u)'
      BY <1>1, <3>1 DEF Holds, TypeOK
    <3> QED BY <2>1, <3>2, HolderStays
  <2>2. CASE ~reconnecting /\ last = "recent"
    BY <1>1, <1>3, <2>2, HolderStays DEF TakeTurn, Goto, Holds, TypeOK
  <2>3. CASE ~reconnecting /\ last # "recent"
    <3>1. thread'[t].pc = "check"
      <4>1. thread' = [thread EXCEPT ![t].pc = "check"]
        BY <1>3, <2>3, Zenon DEF TakeTurn, Goto
      <4> QED BY <1>1, <4>1 DEF TypeOK, TryStates
    <3> QED BY <3>1 DEF FlagHasHolder
  <2> QED BY <2>1, <2>2, <2>3
<1>4. CASE CheckEnabled(t)
  <2>1. thread'[t].pc \in {"attempt", "unflag"}
    BY <1>1, <1>4 DEF CheckEnabled, Goto, TypeOK
  <2> QED BY <2>1 DEF FlagHasHolder
<1>5. CASE CountAttempt(t)
  <2>1. thread'[t].pc = "read"
    BY <1>1, <1>5 DEF CountAttempt, Goto, TypeOK
  <2> QED BY <2>1 DEF FlagHasHolder
<1>6. CASE Unflag(t)
  BY <1>6 DEF Unflag, FlagHasHolder
<1> QED BY <1>2, <1>3, <1>4, <1>5, <1>6 DEF TryStep

\* A start made by tryReconnect stays ahead of the deferred delete.
LEMMA StartKeepsHolder ==
  ASSUME TypeOK, FlagHasHolder, NEW p \in Threads, StartStep(p)
  PROVE  FlagHasHolder'
<1>1. UNCHANGED reconnecting
  BY DEF StartStep, ReadConfig, LookForClient, JudgeClient, CloseOld, DeleteOld, Recheck,
         WriteConfig, StoreClient
<1>2. CASE p \in Tries
  <2>1. thread'[p].pc \in StartPcs \cup {"unflag"}
    <3>1. PICK next \in StartPcs \cup {"unflag"}, s \in Clients \cup {NoClient} :
             \/ thread' = [thread EXCEPT ![p].pc = next]
             \/ thread' = [thread EXCEPT ![p] = [pc |-> next, seen |-> s]]
      <4>1. CASE LookForClient(p)
        BY <1>2, <4>1 DEF LookForClient, Goto, StartPcs, TypeOK
      <4>2. CASE ~LookForClient(p)
        <5>1. Returned(p) = "unflag"
          BY <1>2, Zenon DEF Returned, Automatic
        <5> QED BY <4>2, <5>1 DEF StartStep, ReadConfig, JudgeClient, CloseOld, DeleteOld,
                  Recheck, WriteConfig, StoreClient, Goto, Returns, At, StartPcs
      <4> QED BY <4>1, <4>2
    <3> QED BY <3>1 DEF TypeOK, TryStates, RequestStates
  <2> QED BY <1>2, <2>1 DEF FlagHasHolder, StartPcs
<1>3. CASE p \notin Tries
  <2>1. \A t \in Tries : thread'[t] = thread[t]
    BY <1>3 DEF StartStep, ReadConfig, LookForClient, JudgeClient, CloseOld, DeleteOld,
                Recheck, WriteConfig, StoreClient, Goto, Returns, Threads, TypeOK
  <2> QED BY <1>1, <2>1, HolderStays DEF Holds
<1> QED BY <1>2, <1>3

\* A tryReconnect that is spawned takes the place of none that is at work.
LEMMA SpawnKeepsHolder ==
  ASSUME TypeOK, FlagHasHolder, UNCHANGED reconnecting,
         UNCHANGED thread \/ \E pc \in {"go", "timer"} : SpawnTry(pc)
  PROVE  FlagHasHolder'
<1>1. \A t \in Tries : thread[t].pc # "idle" => thread'[t] = thread[t]
  BY SpawnTyped
<1> QED BY <1>1, HolderStays DEF Holds

\* Every step keeps FlagHasHolder.
LEMMA HolderNext == TypeOK /\ FlagHasHolder /\ [Next]_vars => FlagHasHolder'
<1> SUFFICES ASSUME TypeOK, FlagHasHolder, [Next]_vars PROVE FlagHasHolder'
  OBVIOUS
<1>1. ASSUME NEW i \in Clients, ConnectStep(i) PROVE FlagHasHolder'
  <2>1. CASE ScheduleAfterFailure(i)
    <3>1. UNCHANGED thread \/ \E pc \in {"go", "timer"} : SpawnTry(pc)
      BY <2>1 DEF ScheduleAfterFailure
    <3> QED BY <2>1, <3>1, SpawnKeepsHolder DEF ScheduleAfterFailure
  <2>2. CASE ~ScheduleAfterFailure(i)
    <3>1. UNCHANGED thread /\ (reconnecting' => reconnecting)
      BY <1>1, <2>2 DEF ConnectStep, DialFails, DialSucceeds, Register, OnClientConnected,
                        ListLocked, ListArrives, ListFindsDead, RecordError
    <3> QED BY <3>1, HolderStays DEF Holds
  <2> QED BY <2>1, <2>2
<1>2. ASSUME NEW x \in Listers, UseStep(x) PROVE FlagHasHolder'
  <2>1. /\ UNCHANGED reconnecting
        /\ UNCHANGED thread \/ \E pc \in {"go", "timer"} : SpawnTry(pc)
    BY <1>2 DEF UseStep, BeginUse, UseEnds, UseFindsDead, MarkClientDisconnected,
                ScheduleReconnect
  <2> QED BY <2>1, SpawnKeepsHolder
<1>3. ASSUME NEW r \in Requests, RequestStep(r) PROVE FlagHasHolder'
  <2>1. reconnecting' => reconnecting
    BY <1>3 DEF RequestStep, StartClient, StopClient, RemoveConfig, AddOrUpdateConfig,
                ApplyConfig
  <2>2. \A t \in Tries : thread'[t] = thread[t]
    BY <1>3, ClientsAssumption DEF RequestStep, StartClient, StopClient, RemoveConfig,
       AddOrUpdateConfig, ApplyConfig, Goto, Threads, TypeOK
  <2> QED BY <2>1, <2>2, HolderStays DEF Holds
<1>4. CASE (\E i \in Clients : Break(i)) \/ Tick \/ UNCHANGED vars
  BY <1>4, HolderStays DEF Break, Tick, vars, Holds
<1> QED BY <1>1, <1>2, <1>3, <1>4, TryKeepsHolder, StartKeepsHolder DEF Next

\* However many detections, timers, attempts and requests there are: the flag that
\* makes other attempts give way always belongs to one that is at work.
THEOREM FlagIsHeld == Spec => []FlagHasHolder
<1>1. Init => FlagHasHolder
  BY DEF Init, FlagHasHolder
<1> QED BY <1>1, TypeCorrect, HolderNext, PTL DEF Spec

-----------------------------------------------------------------------------
(* Healing without interference.                                           *)

\* A client with a connection, broken or not, or on the way to one.
Opens(i) == Connected(client[i]) \/ client[i].pc = "dial"
\* The client of StartAllEnabled before it is registered.
Starting(i) == client[i].by = "direct" /\ client[i].pc \in {"dial", "register"}
\* The registered client works, and nobody blocks the manager.
Healthy == registered # NoClient /\ client[registered].session = "open" /\ MayRead
\* A tryReconnect from TakeTurn to its deferred delete.
Mid(t) == thread[t].pc \in {"check", "attempt", "unflag"} \cup StartPcs
\* Its startClient has found nothing connected.
Replacing(t) == thread[t].pc \in {"close", "delete", "recheck", "write", "store"}

\* Before the first connection there is nothing but the client that is connected.
StartInv ==
  \A i \in Clients : Starting(i) =>
    /\ registered = NoClient
    /\ \A j \in Clients : j # i => client[j] = Unused
    /\ \A t \in Tries : thread[t] = At("idle")
    /\ \A x \in Listers : use[x] = NoUse

\* A client that is being connected is new: nobody has seen it yet.
DialInv ==
  \A i \in Clients : client[i].pc = "dial" =>
    /\ client[i].connecting /\ client[i].session = "none"
    /\ \A t \in Tries : thread[t].seen # i
    /\ \A x \in Listers : use[x].on # i
    /\ \A j \in Clients : client[j].lists # i

\* The goroutines that connect clients.
ConnectInv ==
  /\ \A i \in Clients : Opens(i) => registered = i \/ Starting(i)
  /\ \A i \in Clients : client[i].pc = "clear" => registered = i
  /\ \A i \in Clients : client[i].pc \in {"register", "clear"} /\ MayRead =>
       client[i].session = "open"
  /\ \A i, j \in Clients : client[i].by = "direct" /\ client[j].by = "direct" => i = j
  /\ \A i \in Clients : client[i].pc \in {"register", "list", "listing", "stuck"} =>
       client[i].by = "direct"
  /\ \A i \in Clients : client[i].pc = "listing" => client[i].lists = registered

\* The tryReconnect goroutines: more than one is at work, or one that has lost
\* its flag, only beside a working connection, which none of them touches.
TryInv ==
  /\ \A t \in Tries : Mid(t) /\ ~reconnecting => Healthy
  /\ \A t, u \in Tries : Mid(t) /\ Mid(u) /\ t # u => Healthy
  /\ \A t \in Tries : thread[t].pc \in {"check", "attempt"} /\ last = "recent" => Healthy
  /\ \A t \in Tries : Replacing(t) /\ MayRead => \A i \in Clients : ~Opens(i)
  /\ \A t \in Tries :
       thread[t].pc \in {"attempt", "read", "look", "judge", "close"} /\ registered # NoClient
         => client[registered].pc # "dial"
  /\ \A t \in Tries : thread[t].pc \in {"judge", "close"} => thread[t].seen = registered

Healing == StartInv /\ DialInv /\ ConnectInv /\ TryInv
HealInv == Calm /\ Prompt => Healing

\* The fields of a client that is closed or left by its goroutine.
LEMMA RecordFields ==
  ASSUME NEW c \in ClientStates
  PROVE  /\ Closed(c).pc = c.pc /\ Closed(c).by = c.by /\ Closed(c).lists = c.lists
         /\ Closed(c).session = "none" /\ Closed(c).connecting = FALSE
         /\ Leaves(c).pc = "idle" /\ Leaves(c).by = "none" /\ Leaves(c).lists = NoClient
         /\ Leaves(c).session = c.session /\ Leaves(c).connecting = c.connecting
BY DEF Closed, Leaves, ClientStates

\* Who has the write lock is not in the way of a reader.
LEMMA LockModes == /\ MayWrite => MayRead
                   /\ MayRead <=> \A i \in Clients : client[i].pc # "stuck"
BY DEF MayWrite, MayRead, Readers

\* The thread of a tryReconnect after it moved on.
LEMMA TryMoves ==
  ASSUME TypeOK, NEW t \in Tries
  PROVE  /\ \A next : Goto(t, next) =>
              /\ thread'[t].pc = next /\ thread'[t].seen = thread[t].seen
              /\ \A u \in Tries : u # t => thread'[u] = thread[u]
         /\ \A next, s : thread' = [thread EXCEPT ![t] = [pc |-> next, seen |-> s]] =>
              /\ thread'[t].pc = next /\ thread'[t].seen = s
              /\ \A u \in Tries : u # t => thread'[u] = thread[u]
BY DEF TypeOK, Threads, TryStates, Goto

\* A spawned tryReconnect has not yet taken its turn.
LEMMA SpawnMoves ==
  ASSUME TypeOK, NEW pc \in {"go", "timer"}, SpawnTry(pc)
  PROVE  \A t \in Tries : /\ Mid(t)' => thread'[t] = thread[t]
                          /\ thread'[t].seen \in {thread[t].seen, NoClient}
<1>1. PICK t \in FreeTries : thread' = [thread EXCEPT ![t] = [pc |-> pc, seen |-> NoClient]]
  BY DEF SpawnTry, At
<1>2. t \in Tries
  BY DEF FreeTries
<1>3. /\ thread'[t].pc = pc /\ thread'[t].seen = NoClient
      /\ \A u \in Tries : u # t => thread'[u] = thread[u]
  BY <1>1, <1>2, TryMoves
<1> QED
  BY <1>3 DEF Mid, StartPcs

\* A step of anyone but a tryReconnect at work: it opens nothing, and a connection
\* that works goes on to work while a tryReconnect needs it.
LEMMA TriesKept ==
  ASSUME TryInv, UNCHANGED registered,
         last' = "recent" => last = "recent",
         reconnecting /\ ~reconnecting' => Healthy',
         \A t \in Tries : Mid(t)' => thread'[t] = thread[t],
         Healthy => Healthy' \/ \A t \in Tries : ~Mid(t),
         MayRead' => MayRead,
         \A i \in Clients : Opens(i)' => Opens(i),
         registered # NoClient /\ client'[registered].pc = "dial" =>
           client[registered].pc = "dial"
  PROVE  TryInv'
<1>1. \A t \in Tries : Mid(t)' => Mid(t)
  BY DEF Mid
<1>2. \A t \in Tries :
        \/ Mid(t)'
        \/ thread'[t].pc \notin {"check", "attempt", "read", "look", "judge", "close",
                                 "delete", "recheck", "write", "store"}
  BY DEF Mid, StartPcs
<1>3. \A t \in Tries : Replacing(t)' => Mid(t)' /\ Replacing(t)
  BY <1>2 DEF Replacing
<1> QED
  BY <1>1, <1>2, <1>3 DEF TryInv

\* A step in which only one client, the uses of clients and idle goroutines change.
LEMMA StartKept ==
  ASSUME StartInv, UNCHANGED registered, NEW i \in Clients,
         \A j \in Clients : j # i => client'[j] = client[j],
         client[i] # Unused, ~Starting(i), ~Starting(i)'
  PROVE  StartInv'
BY DEF StartInv, Starting

\* The end of Initialize, which comes when nobody is in the middle of anything.
LEMMA DialHeals ==
  ASSUME TypeOK, Healing, Prompt, NEW i \in Clients, DialFails(i) \/ DialSucceeds(i)
  PROVE  Healing'
<1>1. /\ client[i].pc = "dial" /\ Quiet
      /\ UNCHANGED <<registered, use, thread, last, reconnecting>>
      /\ \A j \in Clients : j # i => client'[j] = client[j]
  BY DEF DialFails, DialSucceeds, TypeOK
<1>2. /\ client'[i].connecting = FALSE
      /\ client'[i].lists \in {client[i].lists, NoClient}
      /\ \/ /\ client'[i].pc \in {"failed", "idle"} /\ client'[i].session = "none"
            /\ client'[i].by # "direct"
         \/ /\ client'[i].pc = IF client[i].by = "direct" THEN "register" ELSE "clear"
            /\ client'[i].session = "open" /\ client'[i].by = client[i].by
  <2>1. CASE DialFails(i)
    BY <2>1 DEF DialFails, TypeOK, ClientStates, Unused, Healing, DialInv
  <2>2. CASE DialSucceeds(i)
    BY <2>2 DEF DialSucceeds, TypeOK, ClientStates
  <2> QED
    BY <2>1, <2>2
<1>3. MayRead' <=> MayRead
  <2>1. MayRead' <=> \A j \in Clients : client'[j].pc # "stuck"
    BY DEF MayRead, Readers
  <2> QED
    BY <1>1, <1>2, <2>1, LockModes
<1>4. StartInv'
  <2>1. client[i] # Unused /\ \A j \in Clients \ {i} : ~Starting(j)'
    BY <1>1 DEF Healing, StartInv, Starting, Unused
  <2> QED
    BY <1>1, <1>2, <2>1 DEF Healing, StartInv, Starting
<1>5. DialInv'
  BY <1>1, <1>2, ClientsAssumption DEF Healing, DialInv
<1>6. ConnectInv'
  <2>1. registered = i \/ Starting(i)
    BY <1>1 DEF Healing, ConnectInv, Opens
  <2>2. \A j \in Clients : Opens(j)' => registered = j \/ Starting(j)'
    BY <1>1, <1>2, <2>1 DEF Healing, ConnectInv, Opens, Connected, Starting
  <2>3. client'[i].pc = "clear" => registered = i
    BY <1>1, <1>2, <2>1 DEF Starting
  <2> QED
    BY <1>1, <1>2, <1>3, <2>2, <2>3 DEF Healing, ConnectInv
<1>7. TryInv'
  <2>1. \A j \in Clients : Opens(j)' => Opens(j)
    BY <1>1, <1>2 DEF Opens, Connected
  <2>2. ~Healthy
    BY <1>1 DEF Healing, DialInv, ConnectInv, StartInv, Opens, Healthy
  <2>3. registered # NoClient /\ client'[registered].pc = "dial" => client[registered].pc = "dial"
    BY <1>1, <1>2 DEF TypeOK
  <2> QED
    BY <1>1, <1>3, <2>1, <2>2, <2>3, TriesKept DEF Healing
<1> QED
  BY <1>4, <1>5, <1>6, <1>7 DEF Healing

\* The first client is registered while there is nothing else.
LEMMA RegisterHeals ==
  ASSUME TypeOK, Healing, NEW i \in Clients, Register(i)
  PROVE  Healing'
<1>1. /\ client[i].pc = "register" /\ MayRead /\ registered' = i
      /\ UNCHANGED <<use, thread, last, reconnecting>>
      /\ \A j \in Clients : j # i => client'[j] = client[j]
      /\ client'[i].pc = "clear" /\ client'[i].by = client[i].by
      /\ client'[i].session = client[i].session
      /\ client'[i].connecting = client[i].connecting
      /\ client'[i].lists = client[i].lists
  BY LockModes DEF Register, TypeOK, ClientStates
<1>2. Starting(i)
  BY <1>1 DEF Healing, ConnectInv, Starting
<1>3. /\ \A j \in Clients : j # i => client[j] = Unused
      /\ \A t \in Tries : thread[t] = At("idle")
      /\ \A x \in Listers : use[x] = NoUse
  BY <1>2 DEF Healing, StartInv
<1>4. StartInv'
  BY <1>1, <1>3 DEF StartInv, Starting, Unused
<1>5. DialInv'
  BY <1>1, <1>3 DEF Healing, DialInv, Unused
<1>6. ConnectInv'
  BY <1>1, <1>3 DEF Healing, ConnectInv, Unused, Opens, Connected
<1>7. TryInv'
  BY <1>1, <1>3 DEF TryInv, Mid, StartPcs, Replacing, At
<1> QED
  BY <1>4, <1>5, <1>6, <1>7 DEF Healing

\* A client that has just connected works when the flag and the back-off are cleared.
LEMMA ClearHeals ==
  ASSUME TypeOK, Healing, NEW i \in Clients, OnClientConnected(i)
  PROVE  Healing'
<1>1. MayRead
  <2>1. CASE client[i].by = "direct"
    BY <2>1, LockModes DEF OnClientConnected, Healing, ConnectInv
  <2> QED
    BY <2>1, LockModes DEF OnClientConnected
<1>2. /\ client[i].pc = "clear" /\ last' = "none"
      /\ UNCHANGED <<registered, thread>>
      /\ \A j \in Clients : j # i => client'[j] = client[j]
      /\ client'[i].session = client[i].session
      /\ client'[i].lists \in {client[i].lists, NoClient}
      /\ \/ client'[i].pc = "list" /\ client'[i].by = "direct" /\ client[i].by = "direct"
         \/ client'[i].pc = "idle" /\ client'[i].by = "none"
      /\ \A x \in Listers : use'[x].on \in {use[x].on, i}
  <2>1. CASE client[i].by = "direct"
    BY <2>1 DEF OnClientConnected, TypeOK, ClientStates
  <2>2. CASE client[i].by # "direct"
    <3>1. /\ client' = [client EXCEPT ![i] = Leaves(@)]
          /\ use' = [use EXCEPT ![i] = [pc |-> "calling", on |-> i]]
          /\ client[i].pc = "clear" /\ last' = "none" /\ UNCHANGED <<registered, thread>>
      BY <2>2 DEF OnClientConnected
    <3>2. client'[i] = Leaves(client[i]) /\ \A j \in Clients : j # i => client'[j] = client[j]
      BY <3>1 DEF TypeOK
    <3>3. \A x \in Listers : use'[x].on \in {use[x].on, i}
      BY <3>1 DEF TypeOK
    <3> QED
      BY <3>1, <3>2, <3>3, RecordFields DEF TypeOK
  <2> QED
    BY <2>1, <2>2
<1>3. registered = i /\ client[i].session = "open"
  BY <1>1, <1>2 DEF Healing, ConnectInv
<1>4. MayRead'
  <2>1. MayRead' <=> \A j \in Clients : client'[j].pc # "stuck"
    BY DEF MayRead, Readers
  <2> QED
    BY <1>1, <1>2, <2>1, LockModes
<1>5. Healthy /\ Healthy'
  BY <1>1, <1>2, <1>3, <1>4, ClientsAssumption DEF Healthy
<1>6. StartInv'
  BY <1>2, <1>3, ClientsAssumption DEF Healing, StartInv, Starting
<1>7. DialInv'
  BY <1>2, ClientsAssumption DEF Healing, DialInv
<1>8. ConnectInv'
  BY <1>1, <1>2, <1>3 DEF Healing, ConnectInv, Opens, Connected, Starting
<1>9. TryInv'
  <2>1. \A j \in Clients : Opens(j)' => Opens(j)
    BY <1>2 DEF Opens, Connected
  <2> QED
    BY <1>1, <1>2, <1>3, <1>5, <2>1, TriesKept DEF Healing
<1> QED
  BY <1>6, <1>7, <1>8, <1>9 DEF Healing

\* A listing of the tools closes only a connection that is dead.
LEMMA ListHeals ==
  ASSUME TypeOK, Healing, NEW i \in Clients,
         ListLocked(i) \/ ListArrives(i) \/ ListFindsDead(i)
  PROVE  Healing'
<1>1. /\ UNCHANGED <<registered, use, thread, last, reconnecting>>
      /\ client[i].pc \in {"list", "listing"}
  BY DEF ListLocked, ListArrives, ListFindsDead
<1>2. client[i] # Unused /\ client[i].by = "direct" /\ ~Starting(i)
  BY <1>1 DEF Unused, Healing, ConnectInv, Starting
<1>3. \A j \in Clients \ {i} : ~Starting(j)
  BY <1>2 DEF Healing, StartInv
<1>4. /\ client'[i].pc \in {"listing", "idle", "stuck"}
      /\ client'[i].pc = "listing" => /\ client'[i].lists = registered
                                      /\ registered # NoClient
                                      /\ client[registered].session # "none"
      /\ client'[i].pc # "listing" => client'[i].lists = NoClient
      /\ client'[i].by = IF client'[i].pc = "idle" THEN "none" ELSE "direct"
      /\ \A j \in Clients : j # i => /\ client'[j].pc = client[j].pc
                                     /\ client'[j].by = client[j].by
                                     /\ client'[j].lists = client[j].lists
      /\ \A j \in Clients : client[j].pc = "dial" => client'[j] = client[j]
      /\ \A j \in Clients : \/ client'[j].session = client[j].session
                            \/ client'[j].session = "none" /\ client[j].session # "open"
  <2>1. CASE ListLocked(i)
    <3>1. CASE Registered(Connected)
      BY <1>1, <1>2, <2>1, <3>1 DEF ListLocked, Registered, Connected, TypeOK, ClientStates
    <3>2. CASE ~Registered(Connected)
      <4>1. client' = [client EXCEPT ![i] = Leaves(@)]
        BY <2>1, <3>2 DEF ListLocked
      <4> QED
        BY ZenonT(40), <1>1, <4>1, RecordFields DEF TypeOK
    <3> QED
      BY <3>1, <3>2
  <2>2. CASE ListArrives(i)
    <3>1. client' = [client EXCEPT ![i] = Leaves(@)]
      BY <2>2 DEF ListArrives
    <3> QED
      BY ZenonT(40), <1>1, <3>1, RecordFields DEF TypeOK
  <2>3. CASE ListFindsDead(i)
    <3> DEFINE dead == client[i].lists
    <3>1. CASE dead \in Clients
      <4> DEFINE closed == [client EXCEPT ![dead] = Closed(@)]
      <4>1. client[dead] \in ClientStates /\ client[dead].pc # "dial" /\ client[dead].session # "open"
        BY <2>3, <3>1 DEF ListFindsDead, TypeOK, Healing, DialInv
      <4>2. /\ closed \in [Clients -> ClientStates]
            /\ \A k \in Clients : closed[k] = IF k = dead THEN Closed(client[k]) ELSE client[k]
        BY <3>1, RecordsTyped DEF TypeOK
      <4>3. client' = [closed EXCEPT ![i] = [@ EXCEPT !.pc = "stuck", !.lists = NoClient]]
        BY <2>3 DEF ListFindsDead
      <4> HIDE DEF closed, dead
      <4>4. /\ \A k \in Clients : k # i => client'[k] = closed[k]
            /\ client'[i].pc = "stuck" /\ client'[i].lists = NoClient
            /\ client'[i].by = closed[i].by /\ client'[i].session = closed[i].session
        BY <4>2, <4>3 DEF ClientStates
      <4>5. \A k \in Clients :
              /\ closed[k].pc = client[k].pc
              /\ closed[k].by = client[k].by
              /\ closed[k].lists = client[k].lists
              /\ \/ closed[k].session = client[k].session
                 \/ closed[k].session = "none" /\ client[k].session # "open"
        <5>1. closed[dead] = Closed(client[dead]) /\ \A k \in Clients \ {dead} : closed[k] = client[k]
          BY <3>1, <4>2
        <5>2. /\ Closed(client[dead]).pc = client[dead].pc /\ Closed(client[dead]).by = client[dead].by
              /\ Closed(client[dead]).lists = client[dead].lists
              /\ Closed(client[dead]).session = "none"
          BY <4>1, RecordFields
        <5> QED
          BY <4>1, <5>1, <5>2
      <4>6. \A k \in Clients : client[k].pc = "dial" => client'[k] = client[k]
        BY <1>1, <4>1, <4>2, <4>4
      <4>7. \A k \in Clients : k # i => /\ client'[k].pc = client[k].pc
                                        /\ client'[k].by = client[k].by
                                        /\ client'[k].lists = client[k].lists
        BY <4>4, <4>5
      <4>8. \A k \in Clients : \/ client'[k].session = client[k].session
                               \/ client'[k].session = "none" /\ client[k].session # "open"
        <5>1. \A k \in Clients : client'[k].session = closed[k].session
          BY <4>4
        <5> QED
          BY <4>5, <5>1
      <4>9. client'[i].by = "direct"
        BY <1>2, <4>4, <4>5
      <4> QED
        BY <4>4, <4>6, <4>7, <4>8, <4>9
    <3>2. CASE dead = NoClient
      <4>1. [client EXCEPT ![dead] = Closed(@)] = client
        BY <3>2, ClientsAssumption DEF TypeOK
      <4> QED
        BY <1>1, <1>2, <2>3, <4>1 DEF ListFindsDead, TypeOK, ClientStates
    <3> QED
      BY <3>1, <3>2 DEF TypeOK, ClientStates
  <2> QED
    BY <2>1, <2>2, <2>3
<1>5. StartInv'
  BY <1>3, <1>4 DEF StartInv, Starting
<1>6. \A j \in Clients : client'[j].session # "none" => client[j].session # "none"
  BY <1>4
<1>7. DialInv'
  BY <1>1, <1>4, ClientsAssumption DEF Healing, DialInv, TypeOK
<1>8. MayRead' => MayRead
  <2>1. MayRead' <=> \A j \in Clients : client'[j].pc # "stuck"
    BY DEF MayRead, Readers
  <2> QED
    BY <1>1, <1>4, <2>1, LockModes
<1>9. \A j \in Clients : Opens(j)' => Opens(j)
  BY <1>4, <1>6 DEF Opens, Connected
<1>10. ConnectInv'
  <2>1. \A j \in Clients : Opens(j)' => registered = j
    BY <1>2, <1>3, <1>9 DEF Healing, ConnectInv
  <2>2. \A j \in Clients : client'[j].pc \in {"register", "clear"} /\ MayRead' =>
          client'[j].session = "open"
    BY <1>4, <1>8 DEF Healing, ConnectInv
  <2> QED
    BY <1>1, <1>2, <1>4, <2>1, <2>2 DEF Healing, ConnectInv
<1>11. TryInv'
  <2>1. Healthy => Healthy'
    <3> SUFFICES ASSUME Healthy PROVE Healthy'
      OBVIOUS
    <3>1. registered \in Clients /\ client[registered].session = "open" /\ MayRead
      BY DEF Healthy, TypeOK
    <3>2. client'[registered].session = "open"
      BY <1>4, <3>1
    <3>3. client'[i].pc # "stuck"
      <4>1. client'[i].pc = "stuck" => ListFindsDead(i)
        BY ZenonT(40), RecordFields DEF ListLocked, ListArrives, TypeOK, ClientStates
      <4>2. ListFindsDead(i) => client[registered].session # "open"
        BY DEF ListFindsDead, Healing, ConnectInv
      <4> QED
        BY <3>1, <4>1, <4>2
    <3>4. MayRead'
      <4>1. MayRead' <=> \A j \in Clients : client'[j].pc # "stuck"
        BY DEF MayRead, Readers
      <4> QED
        BY <1>4, <3>1, <3>3, <4>1, LockModes
    <3> QED
      BY <1>1, <3>1, <3>2, <3>4, ClientsAssumption DEF Healthy
  <2>2. registered # NoClient /\ client'[registered].pc = "dial" => client[registered].pc = "dial"
    BY <1>4 DEF TypeOK
  <2> QED
    BY <1>1, <1>8, <1>9, <2>1, <2>2, TriesKept DEF Healing
<1> QED
  BY <1>5, <1>7, <1>10, <1>11 DEF Healing

\* A failed attempt is recorded, and followed by another tryReconnect.
LEMMA RetryHeals ==
  ASSUME TypeOK, Healing, NEW i \in Clients, RecordError(i) \/ ScheduleAfterFailure(i)
  PROVE  Healing'
<1>1. /\ UNCHANGED <<registered, use, last, reconnecting>>
      /\ client[i].pc \in {"failed", "retry"}
      /\ \A j \in Clients : j # i => client'[j] = client[j]
  BY DEF RecordError, ScheduleAfterFailure, TypeOK
<1>2. /\ client'[i].session = client[i].session /\ client'[i].pc \in {"retry", "idle"}
      /\ client'[i].by \in {client[i].by, "none"}
      /\ client'[i].lists \in {client[i].lists, NoClient}
  <2>1. CASE RecordError(i)
    BY <2>1 DEF RecordError, TypeOK, ClientStates
  <2>2. CASE ScheduleAfterFailure(i)
    <3>1. client'[i] = Leaves(client[i])
      BY <2>2 DEF ScheduleAfterFailure, TypeOK
    <3>2. client[i] \in ClientStates
      BY DEF TypeOK
    <3>3. /\ Leaves(client[i]).pc = "idle" /\ Leaves(client[i]).by = "none"
          /\ Leaves(client[i]).lists = NoClient
          /\ Leaves(client[i]).session = client[i].session
      BY <3>2, RecordFields
    <3> QED
      BY <3>1, <3>3
  <2> QED
    BY <2>1, <2>2
<1>3. \A t \in Tries : /\ Mid(t)' => thread'[t] = thread[t]
                       /\ thread'[t].seen \in {thread[t].seen, NoClient}
  <2>1. CASE UNCHANGED thread
    BY <2>1
  <2>2. CASE \E pc \in {"go", "timer"} : SpawnTry(pc)
    BY <2>2, SpawnMoves
  <2> QED
    BY <2>1, <2>2 DEF RecordError, ScheduleAfterFailure
<1>4. MayRead' <=> MayRead
  <2>1. MayRead' <=> \A j \in Clients : client'[j].pc # "stuck"
    BY DEF MayRead, Readers
  <2> QED
    BY <1>1, <1>2, <2>1, LockModes
<1>5. StartInv'
  <2>1. \A j \in Clients : ~Starting(j)
    BY <1>1 DEF Healing, StartInv, Starting, Unused
  <2> QED
    BY <1>1, <1>2, <2>1 DEF StartInv, Starting
<1>6. DialInv'
  BY <1>1, <1>2, <1>3, ClientsAssumption DEF Healing, DialInv
<1>7. \A j \in Clients : Opens(j)' => Opens(j)
  BY <1>1, <1>2 DEF Opens, Connected
<1>8. ConnectInv'
  <2>1. \A j \in Clients : Starting(j) => Starting(j)'
    BY <1>1 DEF Starting
  <2>2. \A j \in Clients : Opens(j)' => registered = j \/ Starting(j)'
    BY <1>7, <2>1 DEF Healing, ConnectInv
  <2> QED
    BY <1>1, <1>2, <1>4, <2>2 DEF Healing, ConnectInv
<1>9. TryInv'
  <2>1. Healthy => Healthy'
    BY <1>1, <1>2, <1>4 DEF Healthy, TypeOK
  <2>2. registered # NoClient /\ client'[registered].pc = "dial" => client[registered].pc = "dial"
    BY <1>1, <1>2 DEF TypeOK
  <2> QED
    BY <1>1, <1>3, <1>4, <1>7, <2>1, <2>2, TriesKept DEF Healing
<1> QED
  BY <1>5, <1>6, <1>8, <1>9 DEF Healing

\* A transport breaks while no tryReconnect is at work.
LEMMA BreakHeals ==
  ASSUME TypeOK, Healing, Prompt, NEW i \in Clients, Break(i)
  PROVE  Healing'
<1>1. /\ UNCHANGED <<registered, use, thread, last, reconnecting>>
      /\ client[i].session = "open" /\ Quiet
      /\ \A j \in Clients : j # i => client'[j] = client[j]
      /\ client'[i].session = "broken" /\ client'[i].pc = client[i].pc
      /\ client'[i].by = client[i].by /\ client'[i].lists = client[i].lists
  BY DEF Break, TypeOK, ClientStates
<1>2. client[i].pc # "dial"
  BY <1>1 DEF Healing, DialInv
<1>3. MayRead' <=> MayRead
  <2>1. MayRead' <=> \A j \in Clients : client'[j].pc # "stuck"
    BY DEF MayRead, Readers
  <2> QED
    BY <1>1, <2>1, LockModes
<1>4. MayRead => /\ client[i].pc \notin {"register", "clear"}
                 /\ \A t \in Tries : ~Mid(t)
  BY <1>1 DEF Quiet, Mid, StartPcs, Threads
<1>5. \A j \in Clients : /\ Opens(j)' => Opens(j)
                         /\ Starting(j)' <=> Starting(j)
  BY <1>1 DEF Opens, Connected, Starting
<1>6. StartInv'
  <2>1. client[i] # Unused
    BY <1>1 DEF Unused
  <2> QED
    BY <1>1, <1>5, <2>1 DEF Healing, StartInv
<1>7. DialInv'
  BY <1>1, <1>2 DEF Healing, DialInv
<1>8. ConnectInv'
  <2>1. \A j \in Clients : Opens(j)' => registered = j \/ Starting(j)'
    BY <1>5 DEF Healing, ConnectInv
  <2> QED
    BY <1>1, <1>3, <1>4, <2>1 DEF Healing, ConnectInv
<1>9. TryInv'
  <2>1. Healthy => \A t \in Tries : ~Mid(t)
    BY <1>4 DEF Healthy
  <2>2. registered # NoClient /\ client'[registered].pc = "dial" => client[registered].pc = "dial"
    BY <1>1 DEF TypeOK
  <2> QED
    BY <1>1, <1>3, <1>5, <2>1, <2>2, TriesKept DEF Healing
<1> QED
  BY <1>6, <1>7, <1>8, <1>9 DEF Healing

\* A call closes only a connection that is dead.
LEMMA UseHeals ==
  ASSUME TypeOK, Healing, NEW x \in Listers, UseStep(x)
  PROVE  Healing'
<1>1. UNCHANGED <<registered, last, reconnecting>>
  BY DEF UseStep, BeginUse, UseEnds, UseFindsDead, MarkClientDisconnected, ScheduleReconnect
<1>2. \A t \in Tries : /\ Mid(t)' => thread'[t] = thread[t]
                       /\ thread'[t].seen \in {thread[t].seen, NoClient}
  <2>1. CASE UNCHANGED thread
    BY <2>1
  <2>2. CASE SpawnTry("go")
    BY <2>2, SpawnMoves
  <2> QED
    BY <2>1, <2>2 DEF UseStep, BeginUse, UseEnds, UseFindsDead, MarkClientDisconnected,
       ScheduleReconnect
<1>3. /\ \A y \in Listers : use'[y].on \in {use[y].on, NoClient, registered}
      /\ (\E y \in Listers : use'[y].on # use[y].on /\ use'[y].on = registered /\ registered # NoClient)
           => client[registered].session # "none"
  BY DEF UseStep, BeginUse, UseEnds, UseFindsDead, MarkClientDisconnected, ScheduleReconnect,
         TypeOK, UseStates, NoUse, Registered, Connected
<1>4. /\ \A j \in Clients :
           /\ client'[j].pc = client[j].pc /\ client'[j].by = client[j].by
           /\ client'[j].lists = client[j].lists
      /\ \A j \in Clients : client[j].pc = "dial" => client'[j] = client[j]
      /\ \A j \in Clients : \/ client'[j].session = client[j].session
                            \/ client'[j].session = "none" /\ client[j].session # "open"
  <2>1. CASE UNCHANGED client
    BY <2>1
  <2>2. CASE UseFindsDead(x)
    <3>1. /\ client' = [client EXCEPT ![use[x].on] = Closed(@)]
          /\ client[use[x].on].session # "open"
      BY <2>2 DEF UseFindsDead
    <3>2. \A j \in Clients : j # use[x].on => client'[j] = client[j]
      BY <3>1 DEF TypeOK
    <3>3. use[x].on \in Clients => client[use[x].on].pc # "dial"
      BY DEF Healing, DialInv
    <3>4. use[x].on \in Clients =>
            /\ client'[use[x].on].pc = client[use[x].on].pc
            /\ client'[use[x].on].by = client[use[x].on].by
            /\ client'[use[x].on].lists = client[use[x].on].lists
            /\ client'[use[x].on].session = "none"
      <4>1. use[x].on \in Clients => client'[use[x].on] = Closed(client[use[x].on])
        BY <3>1 DEF TypeOK
      <4>2. \A c \in ClientStates :
              /\ Closed(c).pc = c.pc /\ Closed(c).by = c.by
              /\ Closed(c).lists = c.lists /\ Closed(c).session = "none"
        BY RecordFields
      <4> QED
        BY <4>1, <4>2 DEF TypeOK
    <3> QED
      BY <3>1, <3>2, <3>3, <3>4
  <2> QED
    BY <2>1, <2>2 DEF UseStep, BeginUse, UseEnds, MarkClientDisconnected, ScheduleReconnect
<1>5. MayRead' <=> MayRead
  <2>1. MayRead' <=> \A j \in Clients : client'[j].pc # "stuck"
    BY DEF MayRead, Readers
  <2> QED
    BY <1>4, <2>1, LockModes
<1>6. \A j \in Clients : /\ Opens(j)' => Opens(j)
                         /\ Starting(j)' <=> Starting(j)
  BY <1>4 DEF Opens, Connected, Starting
<1>7. StartInv'
  <2>1. \A j \in Clients : ~Starting(j)
    <3>1. use[x] # NoUse \/ registered # NoClient
      BY DEF UseStep, BeginUse, UseEnds, UseFindsDead, MarkClientDisconnected,
             ScheduleReconnect, Registered, NoUse
    <3> QED
      BY <3>1 DEF Healing, StartInv
  <2> QED
    BY <1>6, <2>1 DEF StartInv
<1>8. DialInv'
  <2> SUFFICES ASSUME NEW j \in Clients, client[j].pc = "dial"
               PROVE  /\ client'[j].connecting /\ client'[j].session = "none"
                      /\ \A t \in Tries : thread'[t].seen # j
                      /\ \A y \in Listers : use'[y].on # j
                      /\ \A k \in Clients : client'[k].lists # j
    BY <1>4 DEF DialInv
  <2>1. client[j].session = "none" /\ client'[j] = client[j] /\ j # NoClient
    BY <1>4, ClientsAssumption DEF Healing, DialInv
  <2>2. client'[j].connecting /\ client'[j].session = "none"
    BY <2>1 DEF Healing, DialInv
  <2>3. \A y \in Listers : use'[y].on # j
    BY <1>3, <2>1 DEF Healing, DialInv
  <2> QED
    BY <1>2, <1>4, <2>1, <2>2, <2>3 DEF Healing, DialInv
<1>9. ConnectInv'
  <2>1. \A j \in Clients : Opens(j)' => registered = j \/ Starting(j)'
    BY <1>6 DEF Healing, ConnectInv
  <2>2. \A j \in Clients : client'[j].pc \in {"register", "clear"} /\ MayRead' =>
          client'[j].session = "open"
    BY <1>4, <1>5 DEF Healing, ConnectInv
  <2> QED
    BY <1>1, <1>4, <2>1, <2>2 DEF Healing, ConnectInv
<1>10. TryInv'
  <2>1. Healthy => Healthy'
    BY <1>1, <1>4, <1>5 DEF Healthy, TypeOK
  <2>2. registered # NoClient /\ client'[registered].pc = "dial" => client[registered].pc = "dial"
    BY <1>4 DEF TypeOK
  <2> QED
    BY <1>1, <1>2, <1>5, <1>6, <2>1, <2>2, TriesKept DEF Healing
<1> QED
  BY <1>7, <1>8, <1>9, <1>10 DEF Healing

\* A tryReconnect that moves on without touching a client.
LEMMA ThreadKept ==
  ASSUME TypeOK, Healing, UNCHANGED <<registered, client, use>>,
         NEW t \in Tries, thread[t] # At("idle"),
         \A u \in Tries : u # t => thread'[u] = thread[u],
         thread'[t].seen \in {thread[t].seen, NoClient}
           \/ (thread'[t].seen = registered
               /\ (registered # NoClient => client[registered].pc # "dial"))
  PROVE  /\ StartInv' /\ DialInv' /\ ConnectInv'
         /\ (Healthy' <=> Healthy) /\ (MayRead' <=> MayRead)
         /\ \A i \in Clients : Opens(i)' <=> Opens(i)
<1>1. \A i \in Clients : ~Starting(i)
  BY DEF Healing, StartInv
<1>2. StartInv'
  BY <1>1 DEF StartInv, Starting
<1>3. DialInv'
  BY ClientsAssumption DEF Healing, DialInv
<1>4. MayRead' <=> MayRead
  BY DEF MayRead, Readers
<1>5. \A i \in Clients : Opens(i)' <=> Opens(i)
  BY DEF Opens, Connected
<1>6. ConnectInv'
  BY <1>4, <1>5 DEF Healing, ConnectInv, Starting
<1>7. Healthy' <=> Healthy
  BY <1>4 DEF Healthy
<1> QED
  BY <1>2, <1>3, <1>4, <1>5, <1>6, <1>7

\* A tryReconnect goes on with its attempt.
LEMMA TryAhead ==
  ASSUME TypeOK, Healing, UNCHANGED <<registered, client, use, reconnecting>>,
         NEW t \in Tries, Mid(t), last' \in {last, "recent"},
         \A u \in Tries : u # t => thread'[u] = thread[u],
         thread'[t].seen \in {thread[t].seen, NoClient}
           \/ (thread'[t].seen = registered
               /\ (registered # NoClient => client[registered].pc # "dial")),
         thread'[t].pc \in {"check", "attempt"} /\ last' = "recent" => Healthy,
         Replacing(t)' /\ MayRead => \A i \in Clients : ~Opens(i),
         thread'[t].pc \in {"attempt", "read", "look", "judge", "close"}
           /\ registered # NoClient => client[registered].pc # "dial",
         thread'[t].pc \in {"judge", "close"} => thread'[t].seen = registered
  PROVE  Healing'
<1>1. thread[t] # At("idle")
  BY DEF Mid, StartPcs, At
<1>2. /\ StartInv' /\ DialInv' /\ ConnectInv'
      /\ (Healthy' <=> Healthy) /\ (MayRead' <=> MayRead)
      /\ \A i \in Clients : Opens(i)' <=> Opens(i)
  BY <1>1, ThreadKept
<1>3. \A u \in Tries : u # t =>
        /\ Mid(u)' <=> Mid(u)
        /\ Replacing(u)' <=> Replacing(u)
        /\ thread[u].pc \in {"check", "attempt"} => Mid(u)
  BY DEF Mid, Replacing
<1>4. TryInv'
  <2>1. \A u \in Tries : Mid(u)' /\ ~reconnecting' => Healthy
    BY <1>3 DEF Healing, TryInv
  <2>2. \A u, v \in Tries : Mid(u)' /\ Mid(v)' /\ u # v => Healthy
    BY <1>3 DEF Healing, TryInv
  <2>3. \A u \in Tries : thread'[u].pc \in {"check", "attempt"} /\ last' = "recent" => Healthy
    BY <1>3 DEF Healing, TryInv
  <2>4. \A u \in Tries : Replacing(u)' /\ MayRead => \A i \in Clients : ~Opens(i)
    BY <1>3 DEF Healing, TryInv
  <2> QED
    BY <1>2, <2>1, <2>2, <2>3, <2>4 DEF Healing, TryInv
<1> QED
  BY <1>2, <1>4 DEF Healing

\* tryReconnect, up to its attempt and after it.
LEMMA TryHeals ==
  ASSUME TypeOK, Healing, NEW t \in Tries, TryStep(t)
  PROVE  Healing'
<1> USE TryMoves
<1>1. UNCHANGED <<registered, client, use>>
  BY DEF TryStep, TimerFires, TakeTurn, CheckEnabled, CountAttempt, Unflag
<1>2. thread[t] # At("idle")
  BY DEF TryStep, TimerFires, TakeTurn, CheckEnabled, CountAttempt, Unflag, At
<1>3. /\ \A u \in Tries : u # t => thread'[u] = thread[u]
      /\ thread'[t].seen \in {thread[t].seen, NoClient}
  BY DEF TryStep, TimerFires, TakeTurn, CheckEnabled, CountAttempt, Unflag, At
<1>4. /\ StartInv' /\ DialInv' /\ ConnectInv'
      /\ (Healthy' <=> Healthy) /\ (MayRead' <=> MayRead)
      /\ \A i \in Clients : Opens(i)' <=> Opens(i)
  BY <1>1, <1>2, <1>3, ThreadKept
<1>5. \A u \in Tries : u # t => /\ Mid(u)' <=> Mid(u)
                                /\ Replacing(u)' <=> Replacing(u)
  BY <1>3 DEF Mid, Replacing
<1>6. CASE TimerFires(t)
  <2>1. /\ thread'[t].pc = "go" /\ UNCHANGED <<last, reconnecting>>
    BY <1>6 DEF TimerFires
  <2>2. ~Mid(t)' /\ ~Replacing(t)'
    BY <2>1 DEF Mid, Replacing, StartPcs
  <2>3. TryInv'
    BY <1>1, <1>3, <1>4, <1>5, <2>1, <2>2 DEF Healing, TryInv
  <2> QED
    BY <1>4, <2>3 DEF Healing
<1>7. CASE TakeTurn(t)
  <2>1. CASE reconnecting \/ last = "recent"
    <3>1. Goto(t, "idle") \/ Goto(t, "timer")
      BY <1>7, <2>1, Zenon DEF TakeTurn
    <3>2. UNCHANGED reconnecting /\ UNCHANGED last
      BY <1>7, <2>1, Zenon DEF TakeTurn
    <3>3. thread'[t].pc \in {"idle", "timer"} /\ ~Mid(t)' /\ ~Replacing(t)'
      BY <3>1 DEF Mid, Replacing, StartPcs
    <3>4. TryInv'
      BY <1>1, <1>3, <1>4, <1>5, <3>2, <3>3 DEF Healing, TryInv
    <3> QED
      BY <1>4, <3>4 DEF Healing
  <2>2. CASE ~reconnecting /\ last # "recent"
    <3>1. Goto(t, "check") /\ reconnecting' = TRUE /\ UNCHANGED last
      BY <1>7, <2>2, Zenon DEF TakeTurn
    <3>2. thread'[t].pc = "check" /\ ~Replacing(t)'
      BY <3>1 DEF Replacing
    <3>3. \A u, v \in Tries : Mid(u)' /\ Mid(v)' /\ u # v => Healthy
      BY <1>5, <2>2 DEF Healing, TryInv
    <3>4. TryInv'
      BY <1>1, <1>3, <1>4, <1>5, <2>2, <3>1, <3>2, <3>3 DEF Healing, TryInv
    <3> QED
      BY <1>4, <3>4 DEF Healing
  <2> QED
    BY <2>1, <2>2
<1>8. CASE CheckEnabled(t)
  <2>1. /\ thread[t].pc = "check" /\ UNCHANGED <<last, reconnecting>>
        /\ thread'[t].pc \in {"attempt", "unflag"}
        /\ thread'[t].pc = "attempt" /\ registered # NoClient => ~client[registered].connecting
    BY <1>8 DEF CheckEnabled, Registered
  <2>2. registered # NoClient /\ ~client[registered].connecting => client[registered].pc # "dial"
    BY DEF Healing, DialInv, TypeOK
  <2>3. Mid(t) /\ ~Replacing(t)'
    BY <2>1 DEF Mid, Replacing
  <2>4. last = "recent" => Healthy
    BY <2>1 DEF Healing, TryInv
  <2> QED
    BY <1>1, <1>3, <2>1, <2>2, <2>3, <2>4, TryAhead
<1>9. CASE CountAttempt(t)
  <2>1. /\ thread[t].pc = "attempt" /\ last' = "recent" /\ UNCHANGED reconnecting
        /\ thread'[t].pc = "read"
    BY <1>9 DEF CountAttempt
  <2>2. Mid(t) /\ ~Replacing(t)'
    BY <2>1 DEF Mid, Replacing
  <2>3. registered # NoClient => client[registered].pc # "dial"
    BY <2>1 DEF Healing, TryInv
  <2> QED
    BY <1>1, <1>3, <2>1, <2>2, <2>3, TryAhead
<1>10. CASE Unflag(t)
  <2>1. thread[t].pc = "unflag" /\ thread'[t].pc = "idle" /\ UNCHANGED last
    BY <1>10 DEF Unflag, At
  <2>2. Mid(t) /\ ~Mid(t)' /\ ~Replacing(t)'
    BY <2>1 DEF Mid, Replacing, StartPcs
  <2>3. \A u \in Tries : Mid(u)' => Healthy
    BY <1>5, <2>2 DEF Healing, TryInv
  <2>4. TryInv'
    BY <1>1, <1>3, <1>4, <1>5, <2>1, <2>2, <2>3 DEF Healing, TryInv
  <2> QED
    BY <1>4, <2>4 DEF Healing
<1> QED
  BY <1>6, <1>7, <1>8, <1>9, <1>10 DEF TryStep

\* startClient of a tryReconnect up to the point where it replaces the client.
LEMMA LookHeals ==
  ASSUME TypeOK, Healing, NEW t \in Tries,
         ReadConfig(t) \/ LookForClient(t) \/ JudgeClient(t) \/ Recheck(t) \/ WriteConfig(t)
  PROVE  Healing'
<1> USE TryMoves
<1>0. Automatic(t) /\ Returned(t) = "unflag"
  BY Zenon DEF Automatic, Returned
<1>1. UNCHANGED <<registered, client, use, last, reconnecting>>
  BY DEF ReadConfig, LookForClient, JudgeClient, Recheck, WriteConfig
<1>2. Mid(t)
  BY DEF ReadConfig, LookForClient, JudgeClient, Recheck, WriteConfig, Mid, StartPcs
<1>3. Returns(t) => /\ thread'[t].pc = "unflag" /\ thread'[t].seen = NoClient
                    /\ \A u \in Tries : u # t => thread'[u] = thread[u]
  <2>1. Returns(t) => thread' = [thread EXCEPT ![t] = [pc |-> "unflag", seen |-> NoClient]]
    BY <1>0 DEF Returns, At
  <2> QED
    BY <2>1
<1>4. thread[t].pc \in {"read", "look", "judge"} /\ registered # NoClient =>
        client[registered].pc # "dial"
  BY DEF Healing, TryInv
<1>5. CASE ReadConfig(t)
  <2>1. /\ thread[t].pc = "read"
        /\ \/ thread'[t].pc = "look" /\ thread'[t].seen = thread[t].seen
           \/ thread'[t].pc = "unflag" /\ thread'[t].seen = NoClient
        /\ \A u \in Tries : u # t => thread'[u] = thread[u]
    BY <1>3, <1>5 DEF ReadConfig
  <2> QED
    BY <1>1, <1>2, <1>4, <2>1, TryAhead DEF Replacing
<1>6. CASE LookForClient(t)
  <2>1. CASE registered # NoClient
    <3>1. thread[t].pc = "look"
          /\ thread' = [thread EXCEPT ![t] = [pc |-> "judge", seen |-> registered]]
      BY <1>6, <2>1 DEF LookForClient
    <3>2. /\ thread'[t].pc = "judge" /\ thread'[t].seen = registered
          /\ \A u \in Tries : u # t => thread'[u] = thread[u]
      BY <3>1
    <3> QED
      BY <1>1, <1>2, <1>4, <3>1, <3>2, TryAhead DEF Replacing
  <2>2. CASE registered = NoClient
    <3>1. thread[t].pc = "look" /\ Goto(t, "recheck")
      BY <1>0, <1>6, <2>2 DEF LookForClient
    <3>2. /\ thread'[t].pc = "recheck" /\ thread'[t].seen = thread[t].seen
          /\ \A u \in Tries : u # t => thread'[u] = thread[u]
      BY <3>1
    <3>3. \A i \in Clients : ~Opens(i)
      <4>1. \A i \in Clients : ~Starting(i)
        BY <3>1 DEF Healing, StartInv, At
      <4> QED
        BY <2>2, <4>1, ClientsAssumption DEF Healing, ConnectInv
    <3> QED
      BY <1>1, <1>2, <2>2, <3>1, <3>2, <3>3, TryAhead
  <2> QED
    BY <2>1, <2>2
<1>7. CASE JudgeClient(t)
  <2>1. thread[t].pc = "judge" /\ thread[t].seen = registered
    BY <1>7 DEF JudgeClient, Healing, TryInv
  <2>2. CASE Connected(client[thread[t].seen])
    <3>1. Returns(t)
      BY <1>0, <1>7, <2>2 DEF JudgeClient
    <3> QED
      BY <1>1, <1>2, <1>3, <3>1, TryAhead DEF Replacing
  <2>3. CASE ~Connected(client[thread[t].seen])
    <3>1. Goto(t, "close")
      BY <1>7, <2>3 DEF JudgeClient
    <3>2. /\ thread'[t].pc = "close" /\ thread'[t].seen = thread[t].seen
          /\ \A u \in Tries : u # t => thread'[u] = thread[u]
      BY <3>1
    <3>3. \A i \in Clients : ~Opens(i)
      <4>1. \A i \in Clients : ~Starting(i)
        BY <2>1 DEF Healing, StartInv, At
      <4>2. \A i \in Clients : Opens(i) => registered = i
        BY <4>1 DEF Healing, ConnectInv
      <4> QED
        BY ZenonT(40), <1>4, <2>1, <2>3, <4>2, ClientsAssumption DEF Opens
    <3> QED
      BY <1>1, <1>2, <1>4, <2>1, <3>2, <3>3, TryAhead
  <2> QED
    BY <2>2, <2>3
<1>8. CASE Recheck(t) \/ WriteConfig(t)
  <2>1. /\ Replacing(t)
        /\ Goto(t, "write") \/ Goto(t, "store") \/ Returns(t)
    BY <1>8 DEF Recheck, WriteConfig, Replacing
  <2>2. /\ thread'[t].pc \in {"write", "store", "unflag"}
        /\ thread'[t].seen \in {thread[t].seen, NoClient}
        /\ \A u \in Tries : u # t => thread'[u] = thread[u]
    BY <1>3, <2>1
  <2>3. MayRead => \A i \in Clients : ~Opens(i)
    BY <2>1 DEF Healing, TryInv
  <2> QED
    BY <1>1, <1>2, <2>2, <2>3, TryAhead
<1> QED
  BY <1>5, <1>6, <1>7, <1>8

\* Who replaces the client is the only one at work, and has the flag.
LEMMA ReplacesAlone ==
  ASSUME TypeOK, Healing, NEW t \in Tries, Replacing(t)
  PROVE  /\ ~Healthy /\ reconnecting
         /\ \A u \in Tries : Mid(u) => u = t
         /\ \A i \in Clients : ~Starting(i)
         /\ MayRead => \A i \in Clients : ~Opens(i) /\ client[i].pc \notin {"register", "clear"}
<1>1. Mid(t) /\ thread[t] # At("idle")
  BY DEF Mid, Replacing, StartPcs, At
<1>2. MayRead => \A i \in Clients : ~Opens(i)
  BY DEF Healing, TryInv
<1>3. MayRead => \A i \in Clients : client[i].pc \notin {"register", "clear"}
  BY <1>2 DEF Healing, ConnectInv, Opens, Connected
<1>4. ASSUME Healthy PROVE FALSE
  <2>1. MayRead /\ registered \in Clients /\ registered # NoClient /\ client[registered].session = "open"
    BY <1>4 DEF Healthy, TypeOK
  <2> QED
    BY <1>2, <2>1 DEF Opens, Connected
<1>5. reconnecting /\ \A u \in Tries : Mid(u) => u = t
  BY <1>1, <1>4 DEF Healing, TryInv
<1>6. \A i \in Clients : ~Starting(i)
  BY <1>1 DEF Healing, StartInv
<1> QED
  BY <1>2, <1>3, <1>4, <1>5, <1>6

\* The client that a tryReconnect closes is dead, and nobody connects it.
LEMMA CloseHeals ==
  ASSUME TypeOK, Healing, NEW t \in Tries, CloseOld(t)
  PROVE  Healing'
<1>1. /\ thread[t].pc = "close" /\ thread[t].seen = registered /\ Replacing(t)
      /\ UNCHANGED <<registered, use, last, reconnecting>>
      /\ thread'[t].pc = "delete" /\ thread'[t].seen = thread[t].seen
      /\ \A u \in Tries : u # t => thread'[u] = thread[u]
  BY TryMoves DEF CloseOld, Replacing, Healing, TryInv
<1>2. \A i \in Clients :
        /\ client'[i].pc = client[i].pc /\ client'[i].by = client[i].by
        /\ client'[i].lists = client[i].lists
        /\ client'[i].session \in {client[i].session, "none"}
  <2>1. \A c \in ClientStates :
          /\ Closed(c).pc = c.pc /\ Closed(c).by = c.by
          /\ Closed(c).lists = c.lists /\ Closed(c).session = "none"
    BY RecordFields
  <2>2. \A i \in Clients : client'[i] = client[i] \/ client'[i] = Closed(client[i])
    BY DEF CloseOld, TypeOK
  <2> QED
    BY <2>1, <2>2 DEF TypeOK
<1>3. \A i \in Clients : client[i].pc = "dial" => client'[i] = client[i]
  <2>1. \A i \in Clients : client[i].pc = "dial" => i # registered
    BY <1>1, ClientsAssumption DEF Healing, TryInv
  <2> QED
    BY <1>1, <2>1 DEF CloseOld, TypeOK
<1>4. MayRead' <=> MayRead
  <2>1. MayRead' <=> \A j \in Clients : client'[j].pc # "stuck"
    BY DEF MayRead, Readers
  <2> QED
    BY <1>2, <2>1, LockModes
<1>5. \A i \in Clients : /\ Opens(i)' => Opens(i)
                         /\ Starting(i)' <=> Starting(i)
  BY <1>2 DEF Opens, Connected, Starting
<1>6. StartInv'
  BY <1>1, <1>5, ReplacesAlone DEF StartInv
<1>7. DialInv'
  BY <1>1, <1>2, <1>3 DEF Healing, DialInv
<1>8. ConnectInv'
  <2>1. \A j \in Clients : Opens(j)' => registered = j \/ Starting(j)'
    BY <1>5 DEF Healing, ConnectInv
  <2>2. MayRead => \A j \in Clients : client'[j].pc \notin {"register", "clear"}
    BY <1>1, <1>2, ReplacesAlone
  <2> QED
    BY <1>1, <1>2, <1>4, <2>1, <2>2 DEF Healing, ConnectInv
<1>9. TryInv'
  <2>1. \A u \in Tries : /\ Mid(u)' => u = t
                         /\ Replacing(u)' => u = t
                         /\ thread'[u].pc \in {"check", "attempt", "read", "look", "judge", "close"}
                              => u = t
    BY <1>1, ReplacesAlone DEF Mid, Replacing, StartPcs
  <2>2. reconnecting' /\ (MayRead' => \A i \in Clients : ~Opens(i)')
    BY <1>1, <1>4, <1>5, ReplacesAlone
  <2> QED
    BY <1>1, <2>1, <2>2 DEF TryInv
<1> QED
  BY <1>6, <1>7, <1>8, <1>9 DEF Healing

\* Nothing is connected or being connected when the name is given away.
LEMMA DeleteHeals ==
  ASSUME TypeOK, Healing, NEW t \in Tries, DeleteOld(t)
  PROVE  Healing'
<1>0. Automatic(t)
  BY Zenon DEF Automatic
<1>1. /\ Replacing(t) /\ MayWrite /\ MayRead /\ registered' = NoClient
      /\ UNCHANGED <<client, use, last, reconnecting>>
      /\ thread' = [thread EXCEPT ![t] = At("recheck")]
  BY <1>0, LockModes DEF DeleteOld, Replacing
<1>2. /\ thread'[t].pc = "recheck" /\ thread'[t].seen = NoClient
      /\ \A u \in Tries : u # t => thread'[u] = thread[u]
  BY <1>1, TryMoves DEF At
<1>3. \A i \in Clients : /\ ~Opens(i)' /\ ~Starting(i)'
                         /\ client[i].pc \notin {"dial", "register", "clear", "listing"}
  BY <1>1, ReplacesAlone DEF Opens, Connected, Starting, MayWrite, Readers
<1>4. StartInv' /\ DialInv'
  BY <1>1, <1>3 DEF StartInv, DialInv
<1>5. ConnectInv'
  BY <1>1, <1>3 DEF Healing, ConnectInv
<1>6. TryInv'
  <2>1. \A u \in Tries : /\ Mid(u)' => u = t
                         /\ Replacing(u)' => u = t
                         /\ thread'[u].pc \in {"check", "attempt", "read", "look", "judge", "close"}
                              => u = t
    BY <1>1, <1>2, ReplacesAlone DEF Mid, Replacing, StartPcs
  <2>2. reconnecting'
    BY <1>1, ReplacesAlone
  <2> QED
    BY <1>1, <1>2, <1>3, <2>1, <2>2 DEF TryInv
<1> QED
  BY <1>4, <1>5, <1>6 DEF Healing

\* The one client that is connected from now on is new.
LEMMA StoreHeals ==
  ASSUME TypeOK, Healing, NEW t \in Tries, StoreClient(t)
  PROVE  Healing'
<1>0. Automatic(t) /\ Returned(t) = "unflag"
  BY Zenon DEF Automatic, Returned
<1> PICK i \in Fresh : registered' = i /\ client' = [client EXCEPT ![i] = Connecting("auto")]
  BY <1>0 DEF StoreClient
<1>1. /\ Replacing(t) /\ MayWrite /\ MayRead
      /\ UNCHANGED <<use, last, reconnecting>>
      /\ thread' = [thread EXCEPT ![t] = At("unflag")]
  BY <1>0, LockModes DEF StoreClient, Replacing, Returns
<1>2. /\ thread'[t].pc = "unflag" /\ thread'[t].seen = NoClient
      /\ \A u \in Tries : u # t => thread'[u] = thread[u]
  BY <1>1, TryMoves DEF At
<1>3. /\ i \in Clients /\ i # NoClient
      /\ \A u \in Tries : thread[u].seen # i
      /\ \A x \in Listers : use[x].on # i
      /\ \A j \in Clients : client[j].lists # i
  BY ClientsAssumption DEF Fresh, Threads
<1>4. /\ \A j \in Clients : j # i => client'[j] = client[j]
      /\ client'[i].pc = "dial" /\ client'[i].by = "auto" /\ client'[i].connecting
      /\ client'[i].session = "none" /\ client'[i].lists = NoClient
  BY <1>3 DEF TypeOK, Connecting, Unused
<1>5. \A j \in Clients : /\ ~Opens(j) /\ ~Starting(j)
                         /\ client[j].pc \notin {"dial", "register", "clear", "listing"}
  BY <1>1, ReplacesAlone DEF Opens, Connected, MayWrite, Readers
<1>6. StartInv'
  BY <1>4, <1>5 DEF StartInv, Starting
<1>7. DialInv'
  BY <1>1, <1>2, <1>3, <1>4, <1>5 DEF DialInv
<1>8. ConnectInv'
  <2>1. \A j \in Clients : Opens(j)' => registered' = j
    BY <1>4, <1>5 DEF Opens, Connected
  <2> QED
    BY <1>4, <1>5, <2>1 DEF Healing, ConnectInv
<1>9. TryInv'
  <2>1. \A u \in Tries : /\ Mid(u)' => u = t
                         /\ ~Replacing(u)'
                         /\ thread'[u].pc \notin {"check", "attempt", "read", "look", "judge", "close"}
    BY <1>1, <1>2, ReplacesAlone DEF Mid, Replacing, StartPcs
  <2>2. reconnecting'
    BY <1>1, ReplacesAlone
  <2> QED
    BY <1>1, <1>2, <2>1, <2>2 DEF TryInv
<1> QED
  BY <1>6, <1>7, <1>8, <1>9 DEF Healing

\* A request that was made stays made, and a step of a request is its first.
LEMMA CalmBefore ==
  ASSUME TypeOK, [Next]_vars, Calm'
  PROVE  /\ Calm
         /\ \A r \in Requests : ~RequestStep(r) /\ ~StartStep(r)
<1>1. \A r \in Requests : RequestStep(r) => thread'[r].pc # "idle"
  <2> SUFFICES ASSUME NEW r \in Requests, RequestStep(r) PROVE thread'[r].pc # "idle"
    OBVIOUS
  <2>1. Goto(r, "done") \/ Goto(r, "read")
    BY DEF RequestStep, StartClient, StopClient, RemoveConfig, AddOrUpdateConfig, ApplyConfig
  <2> QED
    BY <2>1 DEF Goto, TypeOK, Threads, RequestStates
<1>2. \A r \in Requests : StartStep(r) => thread'[r].pc # "idle"
  <2> SUFFICES ASSUME NEW r \in Requests, StartStep(r) PROVE thread'[r].pc # "idle"
    OBVIOUS
  <2>1. Returned(r) = "done"
    BY ClientsAssumption, Zenon DEF Returned, Automatic
  <2>2. PICK next \in StartPcs \cup {"done"}, s \in Clients \cup {NoClient} :
           \/ thread' = [thread EXCEPT ![r].pc = next]
           \/ thread' = [thread EXCEPT ![r] = [pc |-> next, seen |-> s]]
    <3>1. CASE LookForClient(r)
      BY <3>1 DEF LookForClient, Goto, StartPcs, TypeOK
    <3> QED
      BY <2>1, <3>1 DEF StartStep, ReadConfig, JudgeClient, CloseOld, DeleteOld, Recheck,
         WriteConfig, StoreClient, Goto, Returns, At, StartPcs
  <2> QED
    BY <2>2 DEF TypeOK, Threads, RequestStates, StartPcs
<1>3. \A r \in Requests : ~RequestStep(r) /\ ~StartStep(r)
  BY <1>1, <1>2 DEF Calm
<1>4. \A r \in Requests : thread'[r] = thread[r]
  <2>1. CASE UNCHANGED thread
    BY <2>1
  <2>2. CASE \E pc \in {"go", "timer"} : SpawnTry(pc)
    BY <2>2, ClientsAssumption DEF SpawnTry, FreeTries, TypeOK, Threads
  <2>3. CASE \E t \in Tries : TryStep(t)
    BY <2>3, ClientsAssumption DEF TryStep, TimerFires, TakeTurn, CheckEnabled, CountAttempt,
       Unflag, Goto, TypeOK, Threads
  <2>4. CASE \E t \in Tries : StartStep(t)
    BY <2>4, ClientsAssumption DEF StartStep, ReadConfig, LookForClient, JudgeClient, CloseOld,
       DeleteOld, Recheck, WriteConfig, StoreClient, Goto, Returns, TypeOK, Threads
  <2>5. ASSUME NEW i \in Clients, ConnectStep(i)
        PROVE  UNCHANGED thread \/ \E pc \in {"go", "timer"} : SpawnTry(pc)
    BY <2>5 DEF ConnectStep, DialFails, DialSucceeds, Register, OnClientConnected, ListLocked,
       ListArrives, ListFindsDead, RecordError, ScheduleAfterFailure
  <2>6. ASSUME NEW x \in Listers, UseStep(x)
        PROVE  UNCHANGED thread \/ \E pc \in {"go", "timer"} : SpawnTry(pc)
    BY <2>6 DEF UseStep, BeginUse, UseEnds, UseFindsDead, MarkClientDisconnected,
       ScheduleReconnect
  <2>7. (\E i \in Clients : Break(i)) \/ Tick \/ UNCHANGED vars => UNCHANGED thread
    BY DEF Break, Tick, vars
  <2>8. \A p \in Threads : StartStep(p) => p \in Tries
    BY <1>3 DEF Threads
  <2> QED
    BY <1>3, <2>1, <2>2, <2>3, <2>4, <2>5, <2>6, <2>7, <2>8 DEF Next
<1> QED
  BY <1>3, <1>4 DEF Calm

\* Every step of a server that heals by itself keeps the invariant.
LEMMA HealNext ==
  ASSUME TypeOK, HealInv, [Next]_vars
  PROVE  HealInv'
<1> SUFFICES ASSUME Calm', Prompt PROVE Healing'
  BY DEF HealInv
<1>1. Calm /\ Healing /\ \A r \in Requests : ~RequestStep(r) /\ ~StartStep(r)
  BY CalmBefore DEF HealInv
<1>2. ASSUME NEW i \in Clients, ConnectStep(i) PROVE Healing'
  BY <1>1, <1>2, DialHeals, RegisterHeals, ClearHeals, ListHeals, RetryHeals DEF ConnectStep
<1>3. ASSUME NEW p \in Threads, StartStep(p) PROVE Healing'
  <2>1. p \in Tries
    BY <1>1, <1>3 DEF Threads
  <2> QED
    BY <1>1, <1>3, <2>1, LookHeals, CloseHeals, DeleteHeals, StoreHeals DEF StartStep
<1>4. CASE Tick
  <2>1. /\ UNCHANGED <<registered, client, use, thread, reconnecting>>
        /\ last' = "past"
    BY <1>4 DEF Tick
  <2>2. StartInv' /\ DialInv' /\ ConnectInv'
    BY <1>1, <2>1 DEF Healing, StartInv, DialInv, ConnectInv, Starting, Opens, MayRead, Readers
  <2>3. (Healthy' <=> Healthy) /\ (MayRead' <=> MayRead)
    BY <2>1 DEF Healthy, MayRead, Readers
  <2>4. TryInv'
    BY <1>1, <2>1, <2>3 DEF Healing, TryInv, Mid, Replacing, Opens
  <2> QED
    BY <2>2, <2>4 DEF Healing
<1>5. CASE UNCHANGED vars
  BY <1>1, <1>5 DEF vars, Healing, StartInv, DialInv, ConnectInv, TryInv, Starting, Opens,
     Healthy, Mid, Replacing, MayRead, Readers
<1> QED
  BY <1>1, <1>2, <1>3, <1>4, <1>5, BreakHeals, UseHeals, TryHeals DEF Next

\* A server that nobody interferes with heals one attempt after the other.
THEOREM HealInvariant == Spec => []HealInv
<1>1. Init => HealInv
  <2> SUFFICES ASSUME Init PROVE Healing
    BY DEF HealInv
  <2>1. \A i, j \in Clients : client[i] # Unused /\ client[j] # Unused => i = j
    BY ClientsAssumption DEF Init
  <2>2. /\ \A i \in Clients : client[i] \in {Unused, Connecting("direct")}
        /\ registered = NoClient
        /\ \A t \in Tries : thread[t] = At("idle")
        /\ \A x \in Listers : use[x] = NoUse
    BY DEF Init, Threads
  <2> DEFINE first == Connecting("direct")
  <2>3. /\ Unused.pc = "idle" /\ Unused.by = "none" /\ Unused.session = "none"
        /\ Unused.lists = NoClient
        /\ first.pc = "dial" /\ first.by = "direct" /\ first.session = "none"
        /\ first.lists = NoClient /\ first.connecting
    BY DEF Unused, Connecting
  <2> HIDE DEF first
  <2>4. \A i \in Clients : client[i] \in {Unused, first}
    BY <2>2 DEF first
  <2>5. StartInv
    BY <2>1, <2>2, <2>3, <2>4 DEF StartInv, Starting
  <2>7. DialInv
    BY <2>2, <2>3, <2>4, ClientsAssumption DEF DialInv, At, NoUse
  <2>8. ConnectInv
    BY <2>1, <2>3, <2>4 DEF ConnectInv, Opens, Connected, Starting
  <2>6. TryInv
    BY <2>2 DEF TryInv, Mid, StartPcs, Replacing, At
  <2> QED
    BY <2>5, <2>6, <2>7, <2>8 DEF Healing
<1>2. TypeOK /\ HealInv /\ [Next]_vars => HealInv'
  BY HealNext
<1> QED
  BY <1>1, <1>2, TypeCorrect, PTL DEF Spec

\* With the timing assumption, self-healing opens no second connection.
THEOREM HealingIsAlone == ASSUME Prompt PROVE Spec => []HealsAlone
<1>1. TypeOK /\ HealInv => HealsAlone
  <2> SUFFICES ASSUME TypeOK, Calm, Healing
               PROVE  Cardinality({i \in Clients : Opens(i)}) <= 1
    BY DEF HealInv, HealsAlone, Opens
  <2> DEFINE O == {i \in Clients : Opens(i)}
  <2>1. \A i, j \in O : i = j
    BY ClientsAssumption DEF Healing, ConnectInv, StartInv, Opens, Connected, Unused
  <2>2. CASE O = {}
    BY <2>2, FS_EmptySet
  <2>3. CASE O # {}
    <3>1. PICK i \in O : O = {i}
      BY <2>1, <2>3
    <3> QED
      BY <3>1, FS_Singleton
  <2> QED
    BY <2>2, <2>3
<1> QED
  BY <1>1, TypeCorrect, HealInvariant, PTL

\* With the timing assumption, the back-off keeps attempts apart.
THEOREM BackOffIsKept == ASSUME Prompt PROVE Spec => AttemptsSpaced
<1>1. TypeOK /\ HealInv /\ [Next]_vars =>
        [\A t \in Tries : Calm /\ thread[t].pc = "attempt" /\ thread[t]'.pc # "attempt"
            => last # "recent" \/ Registered(Connected)]_vars
  <2> SUFFICES ASSUME TypeOK, HealInv, NEW t \in Tries, Calm, thread[t].pc = "attempt",
                      last = "recent"
               PROVE  Registered(Connected)
    OBVIOUS
  <2>1. Healthy
    BY DEF HealInv, Healing, TryInv
  <2> QED
    BY <2>1 DEF Healthy, Registered, Connected
<1> QED
  BY <1>1, TypeCorrect, HealInvariant, PTL DEF Spec, AttemptsSpaced
=============================================================================
