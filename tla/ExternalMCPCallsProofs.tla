----------------------- MODULE ExternalMCPCallsProofs -----------------------
(***************************************************************************)
(* What holds of the slots of external tool calls for any finite set of    *)
(* calls, any servers and any sequence of configurations.                  *)
(***************************************************************************)
EXTENDS ExternalMCPCalls, FiniteSetTheorems, TLAPS

\* Which slots a call has where, and that a call at work has all it needs.
HeldInv(x) ==
  /\ x.pc \in {"global", "server", "running"} =>
       x.config \in 1..Configs /\ x.server \in Servers
  /\ x.held # {} => x.config \in 1..Configs /\ x.server \in Servers
  /\ x.pc \in {"idle", "policy", "circuit", "connection", "global", "done"} => x.held = {}
  /\ x.pc = "circuit" \/ x.pc = "connection" => x.server \in Servers
  /\ x.pc = "server" =>
       "server" \notin x.held /\ (Total[x.config] > 0 => "global" \in x.held)
  /\ x.pc = "running" =>
       /\ Total[x.config] > 0 => "global" \in x.held
       /\ PerServer[x.config] > 0 => "server" \in x.held

\* No channel holds more tokens than it has room for.
WithinRoom ==
  \A n \in 1..Configs :
    globalUsed[n] <= Total[n] /\ \A s \in Servers : serverUsed[n][s] <= PerServer[n]

Inv ==
  /\ TypeOK
  /\ \A c \in Calls : HeldInv(call[c])
  /\ SlotsAccounted
  /\ WithinRoom

-----------------------------------------------------------------------------
(* Facts about the holders of slots.                                       *)

\* The holders of a slot are finitely many.
LEMMA HoldersFinite ==
  \A n, s : IsFiniteSet(GlobalHolders(n)) /\ IsFiniteSet(ServerHolders(n, s))
  BY CallsAssumption, FS_Subset DEF GlobalHolders, ServerHolders

\* A finite set that gains or loses one member.
LEMMA OneMore ==
  ASSUME NEW S, NEW T, NEW x, IsFiniteSet(S), x \notin S, T = S \cup {x}
  PROVE  Cardinality(T) = Cardinality(S) + 1 /\ Cardinality(S) \in Nat
  BY FS_AddElement, FS_CardinalityType

\* Taking a member out of a finite set makes it smaller by one.
LEMMA OneLess ==
  ASSUME NEW S, NEW T, NEW x, IsFiniteSet(S), x \in S, T = S \ {x}
  PROVE  Cardinality(T) = Cardinality(S) - 1 /\ Cardinality(S) \in Nat
  BY SMTT(30), FS_RemoveElement, FS_CardinalityType

\* A well-formed call stays well-formed when some of its fields are written.
LEMMA CallFields ==
  ASSUME NEW r \in CallStates
  PROVE  /\ \A p \in Pcs : [r EXCEPT !.pc = p] \in CallStates
         /\ \A p \in Pcs, v \in Verdicts :
              [r EXCEPT !.pc = p, !.verdict = v] \in CallStates
         /\ \A p \in Pcs, s \in Servers : [r EXCEPT !.pc = p, !.server = s] \in CallStates
         /\ \A p \in Pcs, n \in 0..Configs :
              [r EXCEPT !.pc = p, !.config = n] \in CallStates
         /\ \A p \in Pcs, h \in SUBSET {"global", "server"} :
              [r EXCEPT !.pc = p, !.held = h] \in CallStates
         /\ \A p \in Pcs, v \in Verdicts, h \in SUBSET {"global", "server"} :
              [r EXCEPT !.pc = p, !.verdict = v, !.held = h] \in CallStates
         /\ [r EXCEPT !.cancelled = TRUE] \in CallStates
<1>1. \A p \in Pcs : [r EXCEPT !.pc = p] \in CallStates
  BY DEF CallStates
<1>2. \A p \in Pcs, v \in Verdicts : [r EXCEPT !.pc = p, !.verdict = v] \in CallStates
  BY DEF CallStates
<1>3. \A p \in Pcs, s \in Servers : [r EXCEPT !.pc = p, !.server = s] \in CallStates
  BY DEF CallStates
<1>4. \A p \in Pcs, n \in 0..Configs : [r EXCEPT !.pc = p, !.config = n] \in CallStates
  BY DEF CallStates
<1>5. \A p \in Pcs, h \in SUBSET {"global", "server"} :
        [r EXCEPT !.pc = p, !.held = h] \in CallStates
  BY DEF CallStates
<1>6. \A p \in Pcs, v \in Verdicts, h \in SUBSET {"global", "server"} :
        [r EXCEPT !.pc = p, !.verdict = v, !.held = h] \in CallStates
  BY DEF CallStates
<1>7. [r EXCEPT !.cancelled = TRUE] \in CallStates
  BY DEF CallStates
<1>8. QED
  BY <1>1, <1>2, <1>3, <1>4, <1>5, <1>6, <1>7

\* A step of one call to a state that fits what it holds.
LEMMA OneCall ==
  ASSUME Inv, NEW c \in Calls, NEW x \in CallStates, HeldInv(x),
         call' = [call EXCEPT ![c] = x]
  PROVE  /\ call' \in [Calls -> CallStates]
         /\ \A d \in Calls : HeldInv(call'[d])
  BY DEF Inv, TypeOK

\* The step keeps the invariant when the call holds the same slots of the same
\* channels after as before.
LEMMA SameSlots ==
  ASSUME Inv, NEW c \in Calls, NEW x \in CallStates, HeldInv(x),
         call' = [call EXCEPT ![c] = x],
         x.held = call[c].held,
         x.held # {} => x.config = call[c].config /\ x.server = call[c].server,
         UNCHANGED <<config, globalUsed, serverUsed>>,
         failures' \in [Servers -> Nat], openFor' \in [Servers -> 0..Cooldown]
  PROVE  Inv'
<1>1. TypeOK' /\ \A d \in Calls : HeldInv(call[d])'
  BY OneCall DEF Inv, TypeOK
<1>2. ASSUME NEW n, NEW s
      PROVE  GlobalHolders(n)' = GlobalHolders(n) /\ ServerHolders(n, s)' = ServerHolders(n, s)
  BY DEF Inv, TypeOK, GlobalHolders, ServerHolders
<1>3. SlotsAccounted' /\ WithinRoom'
  BY <1>2 DEF Inv, SlotsAccounted, WithinRoom
<1>4. QED
  BY <1>1, <1>3 DEF Inv

-----------------------------------------------------------------------------
(* The steps that move no slot.                                            *)

\* A call ends with its verdict and gives nothing back yet.
LEMMA EndsKeepsInv ==
  ASSUME Inv, NEW c \in Calls, NEW v \in Verdicts, Ends(c, v), Unchanged,
         call[c].pc \in {"policy", "circuit", "connection", "global", "running"}
  PROVE  Inv'
<1> DEFINE x == [call[c] EXCEPT !.pc = "report", !.verdict = v]
<1>1. call[c] \in CallStates /\ HeldInv(call[c])
  BY DEF Inv, TypeOK
<1>2. x \in CallStates
  BY <1>1, CallFields DEF Pcs
<1>3. /\ x.pc = "report" /\ x.held = call[c].held
      /\ x.config = call[c].config /\ x.server = call[c].server
  BY <1>1 DEF CallStates
<1>4. HeldInv(x)
  BY <1>1, <1>3 DEF HeldInv
<1>5. call' = [call EXCEPT ![c] = x]
  BY DEF Ends
<1> HIDE DEF x
<1>6. QED
  BY <1>2, <1>3, <1>4, <1>5, SameSlots DEF Unchanged, Inv, TypeOK

\* A call only moves on.
LEMMA StepKeepsInv ==
  ASSUME Inv, NEW c \in Calls, NEW p \in Pcs, Step(c, p),
         UNCHANGED <<config, globalUsed, serverUsed>>,
         failures' \in [Servers -> Nat], openFor' \in [Servers -> 0..Cooldown],
         HeldInv([call[c] EXCEPT !.pc = p])
  PROVE  Inv'
<1> DEFINE x == [call[c] EXCEPT !.pc = p]
<1>1. call[c] \in CallStates
  BY DEF Inv, TypeOK
<1>2. x \in CallStates
  BY <1>1, CallFields
<1>3. x.held = call[c].held /\ x.config = call[c].config /\ x.server = call[c].server
  BY <1>1 DEF CallStates
<1>4. call' = [call EXCEPT ![c] = x]
  BY DEF Step
<1>5. HeldInv(x)
  OBVIOUS
<1> HIDE DEF x
<1>6. QED
  BY <1>2, <1>3, <1>4, <1>5, SameSlots

\* A submitted call holds nothing.
LEMMA SubmitKeepsInv ==
  ASSUME Inv, NEW c \in Calls, Submit(c)
  PROVE  Inv'
<1>1. call[c] \in CallStates /\ HeldInv(call[c])
  BY DEF Inv, TypeOK
<1>2. HeldInv([call[c] EXCEPT !.pc = "policy"])
  BY <1>1 DEF HeldInv, CallStates, Submit
<1>3. QED
  BY <1>2, StepKeepsInv DEF Submit, Unchanged, Inv, TypeOK, Pcs

\* A refused call reports; the others learn their server before they take slots.
LEMMA CheckPolicyKeepsInv ==
  ASSUME Inv, NEW c \in Calls, CheckPolicy(c)
  PROVE  Inv'
<1>1. CASE Ends(c, "refused") \/ Ends(c, "blocked")
  BY <1>1, EndsKeepsInv DEF CheckPolicy, Verdicts
<1>2. ASSUME NEW s \in Servers,
             call' = [call EXCEPT ![c] = [@ EXCEPT !.pc = "circuit", !.server = s]]
      PROVE  Inv'
  <2> DEFINE x == [call[c] EXCEPT !.pc = "circuit", !.server = s]
  <2>1. call[c] \in CallStates /\ HeldInv(call[c])
    BY SMTT(30) DEF Inv, TypeOK
  <2>2. x \in CallStates
    BY <2>1, CallFields DEF Pcs
  <2>3. x.pc = "circuit" /\ x.held = call[c].held /\ x.server = s
    BY <2>1 DEF CallStates
  <2>4. call[c].held = {}
    BY <2>1 DEF HeldInv, CheckPolicy
  <2>5. HeldInv(x)
    BY <2>3, <2>4 DEF HeldInv
  <2>6. call' = [call EXCEPT ![c] = x]
    BY <1>2
  <2> HIDE DEF x
  <2>7. QED
    BY <2>2, <2>3, <2>4, <2>5, <2>6, SameSlots DEF CheckPolicy, Unchanged, Inv, TypeOK
<1>3. QED
  BY <1>1, <1>2 DEF CheckPolicy

\* The circuit changes no slot.
LEMMA CheckCircuitKeepsInv ==
  ASSUME Inv, NEW c \in Calls, CheckCircuit(c)
  PROVE  Inv'
<1>1. call[c] \in CallStates /\ HeldInv(call[c])
  BY DEF Inv, TypeOK
<1>2. HeldInv([call[c] EXCEPT !.pc = "connection"])
  BY <1>1 DEF HeldInv, CallStates, CheckCircuit
<1>3. CASE Step(c, "connection")
  BY <1>2, <1>3, StepKeepsInv DEF CheckCircuit, Unchanged, Inv, TypeOK, Pcs
<1>4. CASE Ends(c, "refused")
  BY <1>4, EndsKeepsInv DEF CheckCircuit, Verdicts
<1>5. QED
  BY <1>3, <1>4 DEF CheckCircuit

\* The call is bound to the channels of the current configuration, holding none.
LEMMA CheckConnectionKeepsInv ==
  ASSUME Inv, NEW c \in Calls, CheckConnection(c)
  PROVE  Inv'
<1>1. CASE Ends(c, "refused")
  BY <1>1, EndsKeepsInv DEF CheckConnection, Verdicts
<1>2. CASE call' = [call EXCEPT ![c] = [@ EXCEPT !.pc = "global", !.config = config]]
  <2> DEFINE x == [call[c] EXCEPT !.pc = "global", !.config = config]
  <2>1. call[c] \in CallStates /\ HeldInv(call[c]) /\ config \in 1..Configs
    BY DEF Inv, TypeOK
  <2>2. x \in CallStates
    <3>1. config \in 0..Configs
      BY <2>1, CallsAssumption
    <3>2. QED
      BY <2>1, <3>1, CallFields DEF Pcs
  <2>3. /\ x.pc = "global" /\ x.held = call[c].held /\ x.server = call[c].server
        /\ x.config = config
    BY <2>1 DEF CallStates
  <2>4. call[c].held = {} /\ call[c].server \in Servers
    BY <2>1 DEF HeldInv, CheckConnection
  <2>5. HeldInv(x)
    BY <2>1, <2>3, <2>4 DEF HeldInv
  <2>6. call' = [call EXCEPT ![c] = x]
    BY <1>2
  <2> HIDE DEF x
  <2>7. QED
    BY <2>2, <2>3, <2>4, <2>5, <2>6, SameSlots
       DEF CheckConnection, Unchanged, Inv, TypeOK
<1>3. QED
  BY <1>1, <1>2 DEF CheckConnection

\* Reporting a verdict changes no slot.
LEMMA ReportKeepsInv ==
  ASSUME Inv, NEW c \in Calls, Report(c)
  PROVE  Inv'
<1>1. call[c] \in CallStates /\ HeldInv(call[c])
  BY DEF Inv, TypeOK
<1>2. HeldInv([call[c] EXCEPT !.pc = "release"])
  BY <1>1 DEF HeldInv, CallStates, Report
<1>3. failures' \in [Servers -> Nat] /\ openFor' \in [Servers -> 0..Cooldown]
  <2>1. CASE UNCHANGED <<failures, openFor>>
    BY <2>1 DEF Inv, TypeOK
  <2>2. CASE \E s \in Servers, m \in Nat, u \in 0..Cooldown :
               /\ failures' = [failures EXCEPT ![s] = m]
               /\ openFor' = [openFor EXCEPT ![s] = u]
    BY <2>2 DEF Inv, TypeOK
  <2>3. CASE call[c].server # NoServer
    <3> DEFINE s == call[c].server
               failed == call[c].verdict \in {"failed", "refused"}
               m == IF failed THEN failures[s] + 1 ELSE 0
               u == IF failed THEN IF failures[s] + 1 >= Threshold THEN Cooldown
                                   ELSE openFor[s]
                    ELSE 0
    <3>1. s \in Servers
      BY <1>1, <2>3 DEF CallStates
    <3>2. m \in Nat /\ u \in 0..Cooldown
      BY <3>1, CallsAssumption DEF Inv, TypeOK
    <3>3. \/ UNCHANGED <<failures, openFor>>
          \/ /\ failures' = [failures EXCEPT ![s] = m]
             /\ openFor' = [openFor EXCEPT ![s] = u]
      BY DEF Report
    <3> HIDE DEF s, m, u
    <3>4. QED
      BY <2>1, <2>2, <3>1, <3>2, <3>3
  <2>4. QED
    BY <2>1, <2>3 DEF Report
<1>4. QED
  BY <1>2, <1>3, StepKeepsInv DEF Report, Pcs

\* A cancellation only marks the call.
LEMMA CancelKeepsInv ==
  ASSUME Inv, NEW c \in Calls, Cancel(c)
  PROVE  Inv'
<1> DEFINE x == [call[c] EXCEPT !.cancelled = TRUE]
<1>1. call[c] \in CallStates /\ HeldInv(call[c])
  BY DEF Inv, TypeOK
<1>2. x \in CallStates
  BY <1>1, CallFields
<1>3. /\ x.pc = call[c].pc /\ x.held = call[c].held
      /\ x.config = call[c].config /\ x.server = call[c].server
  BY <1>1 DEF CallStates
<1>4. HeldInv(x)
  BY <1>1, <1>3 DEF HeldInv
<1>5. call' = [call EXCEPT ![c] = x]
  BY <1>1 DEF Cancel, CallStates
<1> HIDE DEF x
<1>6. QED
  BY <1>2, <1>3, <1>4, <1>5, SameSlots DEF Cancel, Unchanged, Inv, TypeOK

-----------------------------------------------------------------------------
(* The steps that take a slot or give one back.                            *)

\* The token of a new holder is counted, and there was room for it.
LEMMA AcquireGlobalKeepsInv ==
  ASSUME Inv, NEW c \in Calls, AcquireGlobal(c)
  PROVE  Inv'
<1>0. PICK n : n = call[c].config
  OBVIOUS
<1>1. /\ call[c] \in CallStates /\ HeldInv(call[c]) /\ call[c].held = {}
      /\ n \in 1..Configs /\ call[c].server \in Servers
  BY <1>0 DEF Inv, TypeOK, HeldInv, AcquireGlobal
<1>2. CASE Total[n] = 0
  <2>1. HeldInv([call[c] EXCEPT !.pc = "server"])
    BY <1>0, <1>1, <1>2 DEF HeldInv, CallStates
  <2>2. QED
    BY <1>0, <1>2, <2>1, StepKeepsInv DEF AcquireGlobal, Inv, TypeOK, Pcs
<1>3. CASE Total[n] # 0
  <2> DEFINE x == [call[c] EXCEPT !.pc = "server", !.held = call[c].held \cup {"global"}]
  <2>1. x \in CallStates
    BY <1>0, <1>1, CallFields DEF Pcs
  <2>2. /\ x.pc = "server" /\ x.held = {"global"} /\ x.config = n
        /\ x.server = call[c].server
    BY <1>0, <1>1 DEF CallStates
  <2>3. HeldInv(x)
    BY <1>0, <1>1, <2>2 DEF HeldInv
  <2>4. call' = [call EXCEPT ![c] = x]
    BY <1>0, <1>3 DEF AcquireGlobal, Takes
  <2> HIDE DEF x
  <2>5. TypeOK' /\ \A d \in Calls : HeldInv(call[d])'
    BY <1>0, <1>1, <1>3, <2>1, <2>3, <2>4, OneCall DEF AcquireGlobal, Inv, TypeOK
  <2>6. \A k, s : ServerHolders(k, s)' = ServerHolders(k, s)
    BY <1>0, <1>1, <2>2, <2>4 DEF ServerHolders, Inv, TypeOK
  <2>7. \A k : k # n => GlobalHolders(k)' = GlobalHolders(k)
    BY <1>0, <1>1, <2>2, <2>4 DEF GlobalHolders, Inv, TypeOK
  <2>8. c \notin GlobalHolders(n) /\ GlobalHolders(n)' = GlobalHolders(n) \cup {c}
    BY <1>0, <1>1, <2>2, <2>4 DEF GlobalHolders, Inv, TypeOK
  <2>9. Cardinality(GlobalHolders(n)') = Cardinality(GlobalHolders(n)) + 1
    BY <2>8, HoldersFinite, OneMore
  <2>10. /\ globalUsed' = [globalUsed EXCEPT ![n] = @ + 1] /\ serverUsed' = serverUsed
         /\ globalUsed[n] < Total[n]
    BY <1>0, <1>3 DEF AcquireGlobal
  <2>11. \A k \in 1..Configs :
           globalUsed'[k] = IF k = n THEN globalUsed[k] + 1 ELSE globalUsed[k]
    BY <1>0, <1>1, <2>10 DEF Inv, TypeOK
  <2>12. globalUsed[n] \in Int /\ Total[n] \in Nat
    BY <1>0, <1>1, CallsAssumption DEF Inv, TypeOK
  <2>13. SlotsAccounted'
    BY <1>0, <1>1, <2>6, <2>7, <2>9, <2>10, <2>11 DEF SlotsAccounted, Inv
  <2>14. WithinRoom'
    BY <1>0, <1>1, <2>10, <2>11, <2>12 DEF WithinRoom, Inv
  <2>15. QED
    BY <2>5, <2>13, <2>14 DEF Inv
<1>4. QED
  BY <1>2, <1>3

\* Taking a server slot adds the call to the holders of that server alone.
LEMMA AcquireServerKeepsInv ==
  ASSUME Inv, NEW c \in Calls, AcquireServer(c)
  PROVE  Inv'
<1>0. PICK n, s : n = call[c].config /\ s = call[c].server
  OBVIOUS
<1>1. /\ call[c] \in CallStates /\ HeldInv(call[c]) /\ "server" \notin call[c].held
      /\ n \in 1..Configs /\ s \in Servers
      /\ Total[n] > 0 => "global" \in call[c].held
  BY <1>0 DEF Inv, TypeOK, HeldInv, AcquireServer
<1>2. CASE PerServer[n] = 0
  <2>1. HeldInv([call[c] EXCEPT !.pc = "running"])
    BY <1>0, <1>1, <1>2 DEF HeldInv, CallStates
  <2>2. QED
    BY <1>0, <1>2, <2>1, StepKeepsInv DEF AcquireServer, Inv, TypeOK, Pcs
<1>3. CASE PerServer[n] # 0
  <2> DEFINE x == [call[c] EXCEPT !.pc = "running", !.held = call[c].held \cup {"server"}]
  <2>1. x \in CallStates
    <3>1. call[c].held \cup {"server"} \in SUBSET {"global", "server"}
      BY <1>0, <1>1 DEF CallStates
    <3>2. QED
      BY <1>0, <1>1, <3>1, CallFields DEF Pcs
  <2>2. /\ x.pc = "running" /\ x.held = call[c].held \cup {"server"} /\ x.config = n
        /\ x.server = s
    BY <1>0, <1>1 DEF CallStates
  <2>3. HeldInv(x)
    BY <1>0, <1>1, <2>2 DEF HeldInv
  <2>4. call' = [call EXCEPT ![c] = x]
    BY <1>0, <1>3 DEF AcquireServer, Takes
  <2> HIDE DEF x
  <2>5. TypeOK' /\ \A d \in Calls : HeldInv(call[d])'
    <3>1. [serverUsed EXCEPT ![n][s] = @ + 1] \in [1..Configs -> [Servers -> Int]]
      BY <1>1 DEF Inv, TypeOK
    <3>2. QED
      BY <1>0, <1>3, <2>1, <2>3, <2>4, <3>1, OneCall DEF AcquireServer, Inv, TypeOK
  <2>6. \A k : GlobalHolders(k)' = GlobalHolders(k)
    BY <1>0, <1>1, <2>2, <2>4 DEF GlobalHolders, Inv, TypeOK
  <2>7. \A k, u : k # n \/ u # s => ServerHolders(k, u)' = ServerHolders(k, u)
    BY <1>0, <1>1, <2>2, <2>4 DEF ServerHolders, Inv, TypeOK
  <2>8. c \notin ServerHolders(n, s) /\ ServerHolders(n, s)' = ServerHolders(n, s) \cup {c}
    BY <1>0, <1>1, <2>2, <2>4 DEF ServerHolders, Inv, TypeOK
  <2>9. Cardinality(ServerHolders(n, s)') = Cardinality(ServerHolders(n, s)) + 1
    BY <2>8, HoldersFinite, OneMore
  <2>10. /\ serverUsed' = [serverUsed EXCEPT ![n][s] = @ + 1] /\ globalUsed' = globalUsed
         /\ serverUsed[n][s] < PerServer[n]
    BY <1>0, <1>3 DEF AcquireServer
  <2>11. \A k \in 1..Configs, u \in Servers :
           serverUsed'[k][u] = IF k = n /\ u = s THEN serverUsed[k][u] + 1
                               ELSE serverUsed[k][u]
    BY <1>0, <1>1, <2>10 DEF Inv, TypeOK
  <2>12. serverUsed[n][s] \in Int /\ PerServer[n] \in Nat
    BY SMTT(30), <1>0, <1>1, CallsAssumption DEF Inv, TypeOK
  <2>13. SlotsAccounted'
    BY <1>0, <1>1, <2>6, <2>7, <2>9, <2>10, <2>11 DEF SlotsAccounted, Inv
  <2>14. WithinRoom'
    BY <1>0, <1>1, <2>10, <2>11, <2>12 DEF WithinRoom, Inv
  <2>15. QED
    BY <2>5, <2>13, <2>14 DEF Inv
<1>4. QED
  BY <1>2, <1>3

\* A call at work holds no slot twice, so giving back counts each slot once.
LEMMA GlobalGivenBack ==
  ASSUME Inv, NEW c \in Calls, NEW n \in 1..Configs, n = call[c].config,
         NEW x \in CallStates, x.held = {}, call' = [call EXCEPT ![c] = x],
         "global" \in call[c].held,
         globalUsed' = [globalUsed EXCEPT ![n] = @ - 1]
  PROVE  \A k \in 1..Configs : /\ globalUsed'[k] = Cardinality(GlobalHolders(k)')
                               /\ globalUsed'[k] <= globalUsed[k]
<1>1. \A k : k # n => GlobalHolders(k)' = GlobalHolders(k)
  BY DEF GlobalHolders, Inv, TypeOK
<1>2. c \in GlobalHolders(n) /\ GlobalHolders(n)' = GlobalHolders(n) \ {c}
  BY DEF GlobalHolders, Inv, TypeOK
<1>3. Cardinality(GlobalHolders(n)') = Cardinality(GlobalHolders(n)) - 1
  BY <1>2, HoldersFinite, OneLess
<1>4. \A k \in 1..Configs :
        /\ globalUsed[k] \in Int
        /\ globalUsed'[k] = IF k = n THEN globalUsed[k] - 1 ELSE globalUsed[k]
  BY DEF Inv, TypeOK
<1>5. \A k \in 1..Configs : globalUsed[k] = Cardinality(GlobalHolders(k))
  BY DEF Inv, SlotsAccounted
<1>6. QED
  BY <1>1, <1>3, <1>4, <1>5

\* Giving a server slot back takes the call out of the holders of that server alone.
LEMMA ServerGivenBack ==
  ASSUME Inv, NEW c \in Calls, NEW x \in CallStates, x.held = {},
         call' = [call EXCEPT ![c] = x], "server" \in call[c].held
  PROVE  \A k \in 1..Configs, u \in Servers :
           Cardinality(ServerHolders(k, u)') =
             IF k = call[c].config /\ u = call[c].server THEN serverUsed[k][u] - 1
             ELSE serverUsed[k][u]
<1>0. PICK n, s : n = call[c].config /\ s = call[c].server
  OBVIOUS
<1>1. \A k, u : k # n \/ u # s => ServerHolders(k, u)' = ServerHolders(k, u)
  BY <1>0 DEF ServerHolders, Inv, TypeOK
<1>2. c \in ServerHolders(n, s) /\ ServerHolders(n, s)' = ServerHolders(n, s) \ {c}
  BY <1>0 DEF ServerHolders, Inv, TypeOK
<1>3. Cardinality(ServerHolders(n, s)') = Cardinality(ServerHolders(n, s)) - 1
  BY <1>2, HoldersFinite, OneLess
<1>4. \A k \in 1..Configs, u \in Servers :
        serverUsed[k][u] = Cardinality(ServerHolders(k, u))
  BY DEF Inv, SlotsAccounted
<1>5. QED
  BY <1>0, <1>1, <1>3, <1>4

\* Channels whose holders stay.
LEMMA NoneGivenBack ==
  ASSUME Inv, NEW c \in Calls, NEW x \in CallStates, x.held = {},
         call' = [call EXCEPT ![c] = x]
  PROVE  /\ "global" \notin call[c].held => \A k : GlobalHolders(k)' = GlobalHolders(k)
         /\ "server" \notin call[c].held =>
              \A k, u : ServerHolders(k, u)' = ServerHolders(k, u)
  BY DEF GlobalHolders, ServerHolders, Inv, TypeOK

\* A call that gives back all it holds, each slot where it was taken.
LEMMA GiveBackKeepsInv ==
  ASSUME Inv, NEW c \in Calls, NEW p \in {"report", "done"}, NEW v \in Verdicts,
         GivesBack(c, p, v), UNCHANGED <<config, failures, openFor>>,
         globalUsed' = IF "global" \in call[c].held
                       THEN [globalUsed EXCEPT ![call[c].config] = @ - 1]
                       ELSE globalUsed,
         serverUsed' = IF "server" \in call[c].held
                       THEN [serverUsed EXCEPT ![call[c].config][call[c].server] = @ - 1]
                       ELSE serverUsed
  PROVE  Inv'
<1> DEFINE x == [call[c] EXCEPT !.pc = p, !.verdict = v, !.held = {}]
<1>1. /\ call[c] \in CallStates
      /\ call[c].held # {} => call[c].config \in 1..Configs /\ call[c].server \in Servers
  BY SMTT(30) DEF Inv, TypeOK, HeldInv
<1>2. x \in CallStates
  BY <1>1, CallFields DEF Pcs
<1>3. x.pc = p /\ x.held = {}
  BY <1>1 DEF CallStates
<1>4. HeldInv(x)
  BY <1>3 DEF HeldInv
<1>5. call' = [call EXCEPT ![c] = x]
  BY DEF GivesBack
<1> HIDE DEF x
<1>6. PICK n, s : n = call[c].config /\ s = call[c].server
  OBVIOUS
<1>7. call' \in [Calls -> CallStates] /\ \A d \in Calls : HeldInv(call[d])'
  BY <1>2, <1>4, <1>5, OneCall
<1>8. /\ globalUsed' \in [1..Configs -> Int]
      /\ \A k \in 1..Configs : /\ globalUsed'[k] = Cardinality(GlobalHolders(k)')
                               /\ globalUsed'[k] <= globalUsed[k]
  <2>1. CASE "global" \in call[c].held
    <3>1. n \in 1..Configs /\ globalUsed' = [globalUsed EXCEPT ![n] = @ - 1]
      BY <1>1, <1>6, <2>1
    <3>2. globalUsed' \in [1..Configs -> Int]
      <4>1. globalUsed \in [1..Configs -> Int]
        BY DEF Inv, TypeOK
      <4>2. QED
        BY <3>1, <4>1
    <3>3. QED
      <4>1. /\ n = call[c].config /\ x \in CallStates /\ x.held = {}
            /\ call' = [call EXCEPT ![c] = x] /\ "global" \in call[c].held
        BY <1>2, <1>3, <1>5, <1>6, <2>1
      <4>2. \A k \in 1..Configs : /\ globalUsed'[k] = Cardinality(GlobalHolders(k)')
                                  /\ globalUsed'[k] <= globalUsed[k]
        BY <4>1, <3>1, GlobalGivenBack, Zenon
      <4> QED BY <3>2, <4>2
  <2>2. CASE "global" \notin call[c].held
    <3>1. \A k : GlobalHolders(k)' = GlobalHolders(k)
      BY <1>2, <1>3, <1>5, <2>2, NoneGivenBack
    <3>2. globalUsed' = globalUsed /\ globalUsed \in [1..Configs -> Int]
      BY <2>2 DEF Inv, TypeOK
    <3>3. \A k \in 1..Configs : globalUsed[k] = Cardinality(GlobalHolders(k))
      BY DEF Inv, SlotsAccounted
    <3>4. \A k \in 1..Configs : globalUsed[k] <= globalUsed[k]
      BY <3>2
    <3>5. \A k \in 1..Configs : globalUsed'[k] = Cardinality(GlobalHolders(k)')
      BY <3>1, <3>2, <3>3, Zenon
    <3>6. QED
      BY <3>2, <3>4, <3>5, Zenon
  <2>3. QED
    BY <2>1, <2>2
<1>9. /\ serverUsed' \in [1..Configs -> [Servers -> Int]]
      /\ \A k \in 1..Configs, u \in Servers :
           /\ serverUsed'[k][u] = Cardinality(ServerHolders(k, u)')
           /\ serverUsed'[k][u] <= serverUsed[k][u]
  <2>1. CASE "server" \in call[c].held
    <3>1. /\ n \in 1..Configs /\ s \in Servers
          /\ serverUsed' = [serverUsed EXCEPT ![n][s] = @ - 1]
      BY <1>1, <1>6, <2>1
    <3>2. serverUsed' \in [1..Configs -> [Servers -> Int]]
      <4>1. serverUsed \in [1..Configs -> [Servers -> Int]]
        BY DEF Inv, TypeOK
      <4>2. QED
        BY <3>1, <4>1
    <3>3. \A k \in 1..Configs, u \in Servers :
            Cardinality(ServerHolders(k, u)') =
              IF k = n /\ u = s THEN serverUsed[k][u] - 1 ELSE serverUsed[k][u]
      <4>1. \A k \in 1..Configs, u \in Servers :
              Cardinality(ServerHolders(k, u)') =
                IF k = call[c].config /\ u = call[c].server THEN serverUsed[k][u] - 1
                ELSE serverUsed[k][u]
        BY <1>2, <1>3, <1>5, <2>1, ServerGivenBack, Zenon
      <4> QED BY <1>6, <4>1
    <3>4. ASSUME NEW k \in 1..Configs, NEW u \in Servers
          PROVE  /\ serverUsed[k][u] \in Int
                 /\ serverUsed'[k][u] = IF k = n /\ u = s THEN serverUsed[k][u] - 1
                                        ELSE serverUsed[k][u]
      <4>1. serverUsed \in [1..Configs -> [Servers -> Int]]
        BY DEF Inv, TypeOK
      <4> QED BY <3>1, <4>1
    <3>5. ASSUME NEW k \in 1..Configs, NEW u \in Servers
          PROVE  /\ serverUsed'[k][u] = Cardinality(ServerHolders(k, u)')
                 /\ serverUsed'[k][u] <= serverUsed[k][u]
      BY <3>3, <3>4
    <3>6. QED
      BY <3>2, <3>5
  <2>2. CASE "server" \notin call[c].held
    <3>1. \A k, u : ServerHolders(k, u)' = ServerHolders(k, u)
      BY <1>2, <1>3, <1>5, <2>2, NoneGivenBack
    <3>2. serverUsed' = serverUsed /\ serverUsed \in [1..Configs -> [Servers -> Int]]
      BY <2>2 DEF Inv, TypeOK
    <3>3. \A k \in 1..Configs, u \in Servers :
            serverUsed[k][u] = Cardinality(ServerHolders(k, u))
      BY DEF Inv, SlotsAccounted
    <3>4. ASSUME NEW k \in 1..Configs, NEW u \in Servers
          PROVE  serverUsed[k][u] <= serverUsed[k][u]
      <4>1. serverUsed[k] \in [Servers -> Int]
        BY <3>2
      <4>2. serverUsed[k][u] \in Int
        BY <4>1
      <4>3. QED
        BY <4>2
    <3>5. \A k \in 1..Configs, u \in Servers :
            serverUsed'[k][u] = Cardinality(ServerHolders(k, u)')
      BY <3>1, <3>2, <3>3, Zenon
    <3>6. QED
      BY <3>2, <3>4, <3>5, Zenon
  <2>3. QED
    BY <2>1, <2>2
<1>10. TypeOK'
  BY <1>7, <1>8, <1>9 DEF Inv, TypeOK
<1>11. SlotsAccounted'
  BY <1>8, <1>9 DEF SlotsAccounted
<1>12. WithinRoom'
  <2>1. ASSUME NEW k \in 1..Configs
        PROVE  /\ globalUsed'[k] <= Total[k]
               /\ \A u \in Servers : serverUsed'[k][u] <= PerServer[k]
    <3>1. globalUsed[k] \in Int /\ globalUsed'[k] \in Int /\ Total[k] \in Int
      BY <1>8, CallsAssumption DEF Inv, TypeOK
    <3>2. \A u \in Servers : /\ serverUsed[k][u] \in Int /\ serverUsed'[k][u] \in Int
                             /\ PerServer[k] \in Int
      <4>1. PerServer[k] \in Int
        BY CallsAssumption
      <4>2. serverUsed \in [1..Configs -> [Servers -> Int]]
        BY DEF Inv, TypeOK
      <4>3. QED
        BY <1>9, <4>1, <4>2
    <3>3. QED
      BY <1>8, <1>9, <3>1, <3>2 DEF Inv, WithinRoom
  <2>2. QED
    BY <2>1 DEF WithinRoom
<1>13. QED
  BY <1>7, <1>10, <1>11, <1>12 DEF Inv

-----------------------------------------------------------------------------
(* The theorems.                                                           *)

\* Nobody holds a slot at first.
LEMMA InvInit == Init => Inv
<1> SUFFICES ASSUME Init PROVE Inv
  OBVIOUS
<1>1. TypeOK
  BY CallsAssumption DEF Init, TypeOK, CallStates, NoCall, Pcs, Verdicts
<1>2. \A c \in Calls : HeldInv(call[c])
  BY DEF Init, NoCall, HeldInv
<1>3. \A n, s : GlobalHolders(n) = {} /\ ServerHolders(n, s) = {}
  BY DEF Init, NoCall, GlobalHolders, ServerHolders
<1>4. SlotsAccounted
  BY <1>3, FS_EmptySet DEF Init, SlotsAccounted
<1>5. WithinRoom
  BY CallsAssumption DEF Init, WithinRoom
<1>6. QED
  BY <1>1, <1>2, <1>4, <1>5 DEF Inv

\* Whatever leaves the calls and the channels alone.
LEMMA SlotsStand ==
  ASSUME Inv, TypeOK', UNCHANGED <<globalUsed, serverUsed, call>>
  PROVE  Inv'
<1>1. \A n, s : GlobalHolders(n)' = GlobalHolders(n) /\ ServerHolders(n, s)' = ServerHolders(n, s)
  BY DEF GlobalHolders, ServerHolders
<1>2. SlotsAccounted' /\ WithinRoom'
  BY <1>1 DEF Inv, SlotsAccounted, WithinRoom
<1>3. QED
  BY <1>2 DEF Inv

\* Every step keeps the inductive invariant.
LEMMA InvNext ==
  ASSUME Inv, [Next]_vars
  PROVE  Inv'
<1>1. ASSUME NEW c \in Calls, CancelledAtGlobal(c) PROVE Inv'
  BY <1>1, EndsKeepsInv DEF CancelledAtGlobal, Verdicts
<1>2. ASSUME NEW c \in Calls, CancelledAtServer(c) PROVE Inv'
  <2>1. "server" \notin call[c].held
    BY <1>2 DEF CancelledAtServer, Inv, HeldInv
  <2>2. QED
    BY <1>2, <2>1, GiveBackKeepsInv DEF CancelledAtServer, Verdicts
<1>3. ASSUME NEW c \in Calls, Answer(c) PROVE Inv'
  BY <1>3, EndsKeepsInv DEF Answer, Verdicts
<1>4. ASSUME NEW c \in Calls, Release(c) PROVE Inv'
  <2>1. call[c].verdict \in Verdicts
    BY DEF Inv, TypeOK, CallStates
  <2>2. QED
    BY <1>4, <2>1, GiveBackKeepsInv DEF Release
<1>5. CASE ConfigureResilience
  <2>1. TypeOK'
    BY <1>5, CallsAssumption DEF ConfigureResilience, Inv, TypeOK
  <2>2. QED
    BY <1>5, <2>1, SlotsStand DEF ConfigureResilience
<1>6. CASE Tick
  <2>1. openFor' \in [Servers -> 0..Cooldown]
    BY <1>6, CallsAssumption DEF Tick, Inv, TypeOK
  <2>2. TypeOK'
    BY <1>6, <2>1 DEF Tick, Inv, TypeOK
  <2>3. QED
    BY <1>6, <2>2, SlotsStand DEF Tick
<1>7. CASE UNCHANGED vars
  <2>1. TypeOK'
    BY <1>7 DEF vars, Inv, TypeOK
  <2>2. QED
    BY <1>7, <2>1, SlotsStand DEF vars
<1>8. QED
  BY <1>1, <1>2, <1>3, <1>4, <1>5, <1>6, <1>7, SubmitKeepsInv, CheckPolicyKeepsInv,
     CheckCircuitKeepsInv, CheckConnectionKeepsInv, ReportKeepsInv, CancelKeepsInv,
     AcquireGlobalKeepsInv, AcquireServerKeepsInv DEF Next, WorkerStep

\* The calls at work hold the slots they count for, of which there is no more
\* than room.
LEMMA InvGivesLimits == Inv => CallsWithinLimits
<1> SUFFICES ASSUME Inv, NEW n \in 1..Configs
             PROVE  LET working == {c \in Calls : call[c].config = n
                                                  /\ call[c].pc = "running"}
                    IN /\ Total[n] > 0 => Cardinality(working) <= Total[n]
                       /\ PerServer[n] > 0 =>
                            \A s \in Servers :
                              Cardinality({c \in working : call[c].server = s})
                                <= PerServer[n]
  BY DEF CallsWithinLimits
<1> DEFINE working == {c \in Calls : call[c].config = n /\ call[c].pc = "running"}
<1>1. Total[n] \in Nat /\ PerServer[n] \in Nat
  BY CallsAssumption
<1>2. IsFiniteSet(working)
  BY CallsAssumption, FS_Subset
<1>3. ASSUME Total[n] > 0 PROVE Cardinality(working) <= Total[n]
  <2>1. working \in SUBSET GlobalHolders(n)
    BY <1>3 DEF GlobalHolders, Inv, HeldInv
  <2>2. Cardinality(working) <= Cardinality(GlobalHolders(n))
    BY <2>1, HoldersFinite, FS_Subset
  <2>3. Cardinality(GlobalHolders(n)) <= Total[n]
    BY DEF Inv, SlotsAccounted, WithinRoom
  <2>4. Cardinality(working) \in Int /\ Cardinality(GlobalHolders(n)) \in Int
    BY <1>2, HoldersFinite, FS_CardinalityType
  <2>5. QED
    BY <1>1, <2>2, <2>3, <2>4
<1>4. ASSUME PerServer[n] > 0, NEW s \in Servers
      PROVE  Cardinality({c \in working : call[c].server = s}) <= PerServer[n]
  <2> DEFINE here == {c \in working : call[c].server = s}
  <2>1. here \in SUBSET ServerHolders(n, s)
    BY <1>4 DEF ServerHolders, Inv, HeldInv
  <2>2. Cardinality(here) <= Cardinality(ServerHolders(n, s)) /\ IsFiniteSet(here)
    BY <2>1, HoldersFinite, FS_Subset
  <2>3. Cardinality(ServerHolders(n, s)) <= PerServer[n]
    BY DEF Inv, SlotsAccounted, WithinRoom
  <2>4. Cardinality(here) \in Int /\ Cardinality(ServerHolders(n, s)) \in Int
    BY <2>2, HoldersFinite, FS_CardinalityType
  <2> HIDE DEF here
  <2>5. QED
    BY <1>1, <2>2, <2>3, <2>4 DEF here
<1>5. QED
  BY <1>3, <1>4

\* The inductive invariant holds in every reachable state.
LEMMA InvAlways == Spec => []Inv
<1>1. QED
  BY InvInit, InvNext, PTL DEF Spec

\* Every variable keeps its type.
THEOREM TypeCorrect == Spec => []TypeOK
<1>1. Inv => TypeOK
  BY DEF Inv
<1>2. QED
  BY <1>1, InvAlways, PTL

\* No slot is lost or given back twice (acquireExternalMCPCallSlot), for any
\* number of calls, servers and configurations.
THEOREM NoSlotLost == Spec => []SlotsAccounted
<1>1. Inv => SlotsAccounted
  BY DEF Inv
<1>2. QED
  BY <1>1, InvAlways, PTL

\* The limits of every configuration hold for the calls made under it.
THEOREM LimitsHold == Spec => []CallsWithinLimits
<1>1. QED
  BY InvGivesLimits, InvAlways, PTL
=============================================================================
