------------------------- MODULE TaskEventBusProofs -------------------------
(* Theorems about the mirror of a task's events, for any numbers of requests, *)
(* listeners and events and any room in the channels, with the sweep.         *)
EXTENDS TaskEventBus, TLAPS

\* The places of a request that has not published "done".
Early == {"idle", "starting", "refused", "running"}

\* Nobody has waited for, or closed a channel after, a "done" still to come; whoever
\* closes channels has sent its "done" before.
FinishInv ==
  \A r \in Requests :
    /\ pc[r] \in Early => /\ left[Done(r)] = {}
                          /\ \A l \in Listeners : closer[l] # r /\ r \notin due[l]
    /\ pc[r] \in {"removed", "closing"} => left[Done(r)] = {}
    /\ \A l \in Listeners : closer[l] = r => left[Done(r)] = {}

\* Listeners are taken out by who is closing; none of them is registered.
CutInv ==
  \A f \in Finishers :
    /\ cut[f] # {} => pc[f] = "closing"
    /\ \A l \in cut[f] : l \notin subs /\ at[l] \notin {"idle", "found"}

\* What a listener's place says of its channel.
PlaceInv ==
  \A l \in Listeners :
    /\ at[l] \in {"idle", "found"} => l \notin closed /\ l \notin subs
    /\ at[l] = "ended" => l \in closed /\ chan[l] = <<>>

\* A "done" is on its way to the listener, in its channel, or written.
OnItsWay(r, l) ==
  \/ l \in left[Done(r)]
  \/ \E i \in 1 .. Len(chan[l]) : chan[l][i] = Done(r)
  \/ r \in told[l]

DueInv ==
  \A l \in Listeners : \A r \in due[l] :
    l \notin closed \/ closer[l] = r => OnItsWay(r, l)

\* The accounts of listeners alone, and with it that of the last event.
BusInv == TypeOK /\ CutInv /\ PlaceInv /\ ListenerAccounted

Inv == BusInv /\ FinishInv /\ DueInv

-----------------------------------------------------------------------------
(* Types.                                                                  *)

\* Every variable keeps its type.
LEMMA TypeStep ==
  ASSUME TypeOK, [Next]_vars
  PROVE  TypeOK'
<1> USE BusAssumption DEF TypeOK, Finishers, Goto, RequestPcs, Places,
                         reqVars, busVars, outVars
<1>0. \A r \in Requests : \A n \in 0 .. MaxEvents : <<r, n>> \in Events
  BY DEF Events
<1>1. ASSUME NEW e \in Events, NEW l \in Listeners, Send(e, l) PROVE TypeOK'
  <2>1. chan' \in [Listeners -> Seq(Events)]
    BY <1>1 DEF Send
  <2>2. due' \in [Listeners -> SUBSET Requests]
    BY <1>1 DEF Send
  <2>3. left' \in [Events -> SUBSET Listeners]
    BY <1>1 DEF Send
  <2> QED
    BY <1>1, <2>1, <2>2, <2>3 DEF Send
<1>2. ASSUME NEW r \in Requests, Announce(r) PROVE TypeOK'
  <2>1. published' \in [Requests -> 0 .. MaxEvents]
    <3>1. MaxEvents # 0 => 1 \in 0 .. MaxEvents
      OBVIOUS
    <3>2. \/ published' = published
          \/ MaxEvents # 0 /\ published' = [published EXCEPT ![r] = 1]
      BY <1>2 DEF Announce
    <3> QED
      BY <3>1, <3>2
  <2>2. left' \in [Events -> SUBSET Listeners]
    BY <1>2 DEF Announce, Publish
  <2> QED
    BY <1>2, <2>1, <2>2 DEF Announce
<1>3. ASSUME NEW r \in Requests, Reject(r) PROVE TypeOK'
  BY <1>3 DEF Reject
<1>4. ASSUME NEW r \in Requests, StartTask(r) PROVE TypeOK'
  BY <1>4 DEF StartTask
<1>5. ASSUME NEW r \in Requests, Progress(r) PROVE TypeOK'
  <2>1. published[r] + 1 \in 0 .. MaxEvents
    BY <1>5 DEF Progress
  <2> QED
    BY <1>5, <2>1 DEF Progress, Publish
<1>6. ASSUME NEW r \in Requests, PublishDone(r) PROVE TypeOK'
  BY ZenonT(40), <1>6 DEF PublishDone, Publish
<1>7. ASSUME NEW f \in Finishers, FinishTask(f) PROVE TypeOK'
  BY <1>7 DEF FinishTask
<1>8. ASSUME NEW f \in Finishers, CloseConversation(f) PROVE TypeOK'
  BY <1>8 DEF CloseConversation
<1>9. ASSUME NEW f \in Finishers, NEW l \in Listeners, CloseOnce(f, l) PROVE TypeOK'
  BY <1>9 DEF CloseOnce
<1>10. ASSUME NEW f \in Finishers, CloseReturns(f) PROVE TypeOK'
  BY <1>10 DEF CloseReturns
<1>11. ASSUME NEW l \in Listeners, Attach(l) PROVE TypeOK'
  BY <1>11 DEF Attach
<1>12. ASSUME NEW l \in Listeners, Subscribe(l) PROVE TypeOK'
  BY <1>12 DEF Subscribe
<1>13. ASSUME NEW l \in Listeners, Receive(l) PROVE TypeOK'
  <2>1. Tail(chan[l]) \in Seq(Events)
    BY <1>13 DEF Receive
  <2> QED
    BY <1>13, <2>1 DEF Receive
<1>14. ASSUME NEW l \in Listeners, EndOfStream(l) PROVE TypeOK'
  BY <1>14 DEF EndOfStream
<1>15. ASSUME NEW l \in Listeners, Disconnect(l) PROVE TypeOK'
  BY <1>15 DEF Disconnect
<1>16. ASSUME NEW l \in Listeners, Unsubscribe(l) PROVE TypeOK'
  BY <1>16 DEF Unsubscribe
<1>17. CASE UNCHANGED vars
  BY <1>17 DEF vars
<1> QED
  BY <1>1, <1>2, <1>3, <1>4, <1>5, <1>6, <1>7, <1>8, <1>9, <1>10, <1>11, <1>12,
     <1>13, <1>14, <1>15, <1>16, <1>17
     DEF Next, Sends, RequestStep, Closing, Reads

-----------------------------------------------------------------------------
(* The account of listeners.                                               *)

\* What leaves registrations, places and cuts alone, and changes no channel that
\* has ended, keeps the account.
LEMMA QuietStep ==
  ASSUME BusInv, UNCHANGED <<cut, subs, closed, at>>,
         \A f \in Finishers : pc[f] = "closing" => pc'[f] = "closing" \/ cut[f] = {},
         \A l \in Listeners : at[l] = "ended" => chan'[l] = chan[l]
  PROVE  CutInv' /\ PlaceInv' /\ ListenerAccounted'
<1>1. CutInv'
  BY DEF BusInv, CutInv
<1>2. PlaceInv'
  BY DEF BusInv, PlaceInv
<1>3. ListenerAccounted'
  BY DEF BusInv, ListenerAccounted
<1> QED
  BY <1>1, <1>2, <1>3

\* Sending, and what requests do before CloseConversation, is quiet.
LEMMA RequestKeepsBus ==
  ASSUME BusInv,
         \/ Sends
         \/ \E r \in Requests : Announce(r) \/ RequestStep(r)
         \/ \E f \in Finishers : FinishTask(f) \/ CloseReturns(f)
         \/ UNCHANGED vars
  PROVE  CutInv' /\ PlaceInv' /\ ListenerAccounted'
<1> USE DEF Finishers, Goto, reqVars, busVars, outVars
<1>1. CASE Sends
  <2>1. PICK e \in Events, l \in Listeners : Send(e, l)
    BY <1>1 DEF Sends
  <2>2. UNCHANGED <<cut, subs, closed, at, pc>>
    BY <2>1 DEF Send
  <2>3. \A k \in Listeners : at[k] = "ended" => chan'[k] = chan[k]
    <3>1. chan \in [Listeners -> Seq(Events)] /\ (at[l] = "ended" => l \in closed)
      BY DEF BusInv, TypeOK, PlaceInv
    <3>2. \/ chan' = chan
          \/ l \notin closed /\ chan' = [chan EXCEPT ![l] = Append(@, e)]
      BY <2>1 DEF Send
    <3> QED
      BY <3>1, <3>2
  <2> QED
    BY <2>2, <2>3, QuietStep
<1>2. CASE (\E r \in Requests : Announce(r) \/ Reject(r) \/ StartTask(r) \/ Progress(r)
                               \/ PublishDone(r))
           \/ (\E f \in Finishers : FinishTask(f) \/ CloseReturns(f))
  <2>1. UNCHANGED <<cut, subs, closed, at, chan>>
    BY <1>2 DEF Announce, Reject, StartTask, Progress, PublishDone, FinishTask, CloseReturns
  <2>2. \A f \in Finishers : pc[f] = "closing" => pc'[f] = "closing" \/ cut[f] = {}
    BY <1>2 DEF Announce, Reject, StartTask, Progress, PublishDone, FinishTask, CloseReturns,
               BusInv, TypeOK
  <2> QED
    BY <2>1, <2>2, QuietStep
<1>3. CASE UNCHANGED vars
  BY <1>3, QuietStep DEF vars
<1>4. (\E r \in Requests : FinishTask(r)) => \E f \in Finishers : FinishTask(f)
  OBVIOUS
<1> QED
  BY <1>1, <1>2, <1>3, <1>4 DEF RequestStep

\* CloseConversation takes the registered out and closes them one by one.
LEMMA CloseKeepsBus ==
  ASSUME BusInv, NEW f \in Finishers,
         CloseConversation(f) \/ \E l \in Listeners : CloseOnce(f, l)
  PROVE  CutInv' /\ PlaceInv' /\ ListenerAccounted'
<1> USE DEF BusInv, TypeOK, Goto, reqVars, busVars, outVars
<1>1. CASE CloseConversation(f)
  <2>1. /\ cut' = [cut EXCEPT ![f] = subs] /\ subs' = {}
        /\ pc' = [pc EXCEPT ![f] = "closing"] /\ cut[f] = {}
        /\ UNCHANGED <<chan, closed, at>>
    BY <1>1 DEF CloseConversation, CutInv
  <2>2. CutInv'
    BY <2>1 DEF CutInv, PlaceInv
  <2>3. PlaceInv'
    BY <2>1 DEF PlaceInv
  <2>4. ListenerAccounted'
    BY <2>1 DEF ListenerAccounted
  <2> QED
    BY <2>2, <2>3, <2>4
<1>2. ASSUME NEW l \in Listeners, CloseOnce(f, l)
      PROVE  CutInv' /\ PlaceInv' /\ ListenerAccounted'
  <2>1. /\ l \in cut[f] /\ cut' = [cut EXCEPT ![f] = @ \ {l}]
        /\ closed' = closed \cup {l} /\ UNCHANGED <<pc, subs, chan, at>>
    BY <1>2 DEF CloseOnce
  <2>2. CutInv'
    BY <2>1 DEF CutInv
  <2>3. PlaceInv'
    BY <2>1 DEF PlaceInv, CutInv
  <2>4. ListenerAccounted'
    BY <2>1 DEF ListenerAccounted, CutInv
  <2> QED
    BY <2>2, <2>3, <2>4
<1> QED
  BY <1>1, <1>2

\* Listeners come, read and go.
LEMMA ListenerKeepsBus ==
  ASSUME BusInv, NEW l \in Listeners,
         Attach(l) \/ Subscribe(l) \/ Disconnect(l) \/ Reads(l)
  PROVE  CutInv' /\ PlaceInv' /\ ListenerAccounted'
<1> USE DEF BusInv, TypeOK, reqVars, busVars, outVars
<1>1. CASE Attach(l)
  BY <1>1 DEF Attach, CutInv, PlaceInv, ListenerAccounted
<1>2. CASE Subscribe(l)
  BY <1>2 DEF Subscribe, CutInv, PlaceInv, ListenerAccounted
<1>3. CASE Disconnect(l)
  BY <1>3 DEF Disconnect, CutInv, PlaceInv, ListenerAccounted
<1>4. CASE Receive(l)
  BY <1>4, QuietStep DEF Receive
<1>5. CASE EndOfStream(l)
  BY <1>5 DEF EndOfStream, CutInv, PlaceInv, ListenerAccounted
<1>6. CASE Unsubscribe(l)
  BY <1>6 DEF Unsubscribe, CutInv, PlaceInv, ListenerAccounted
<1> QED
  BY <1>1, <1>2, <1>3, <1>4, <1>5, <1>6 DEF Reads

\* Every step keeps the account.
LEMMA BusStep == ASSUME BusInv, [Next]_vars PROVE BusInv'
<1>1. TypeOK'
  BY TypeStep DEF BusInv
<1>2. CutInv' /\ PlaceInv' /\ ListenerAccounted'
  BY RequestKeepsBus, CloseKeepsBus, ListenerKeepsBus DEF Next, Closing, Finishers
<1> QED
  BY <1>1, <1>2 DEF BusInv

-----------------------------------------------------------------------------
(* The last event.                                                         *)

\* The "done" of one request is not an earlier event of any, nor another's "done".
LEMMA DoneIsItself ==
  ASSUME NEW r \in Requests
  PROVE  /\ Done(r) \in Events
         /\ \A q \in Requests : Done(q) = Done(r) => q = r
         /\ \A q \in Requests, n \in Nat : n # 0 => <<q, n>> # Done(r)
         /\ Done(r)[1] = r
  BY BusAssumption DEF Done, Events

\* Requests and the sweep: nobody closes channels before its "done" is sent.
LEMMA FinishStep ==
  ASSUME BusInv, FinishInv, [Next]_vars
  PROVE  FinishInv'
<1> USE BusAssumption DEF BusInv, TypeOK, Finishers, Goto, reqVars, busVars, outVars
<1> SUFFICES ASSUME NEW r \in Requests
             PROVE  /\ pc'[r] \in Early =>
                         /\ left'[Done(r)] = {}
                         /\ \A l \in Listeners : closer'[l] # r /\ r \notin due'[l]
                    /\ pc'[r] \in {"removed", "closing"} => left'[Done(r)] = {}
                    /\ \A l \in Listeners : closer'[l] = r => left'[Done(r)] = {}
  BY DEF FinishInv
<1>0. /\ pc[r] \in Early => /\ left[Done(r)] = {}
                             /\ \A l \in Listeners : closer[l] # r /\ r \notin due[l]
      /\ pc[r] \in {"removed", "closing"} => left[Done(r)] = {}
      /\ \A l \in Listeners : closer[l] = r => left[Done(r)] = {}
  BY DEF FinishInv
<1>1. ASSUME NEW e \in Events, NEW l \in Listeners, Send(e, l)
      PROVE  /\ UNCHANGED <<pc, closer>> /\ left'[Done(r)] \subseteq left[Done(r)]
             /\ \A k \in Listeners : due'[k] \subseteq due[k]
  <2>1. left'[Done(r)] \subseteq left[Done(r)]
    BY <1>1, DoneIsItself DEF Send
  <2>2. \A k \in Listeners : due'[k] \subseteq due[k]
    BY <1>1 DEF Send
  <2> QED
    BY <1>1, <2>1, <2>2 DEF Send
<1>2. ASSUME NEW q \in Requests, Announce(q) \/ Progress(q)
      PROVE  UNCHANGED <<closer, due>> /\ left'[Done(r)] = left[Done(r)]
             /\ (pc'[r] = pc[r] \/ (pc[r] \in Early /\ pc'[r] \in Early))
  <2>1. <<q, 1>> # Done(r) /\ <<q, published[q] + 1>> # Done(r)
    BY DoneIsItself
  <2>2. left'[Done(r)] = left[Done(r)]
    BY <1>2, <2>1, DoneIsItself DEF Announce, Progress, Publish
  <2>3. pc'[r] = pc[r] \/ (pc[r] \in Early /\ pc'[r] \in Early)
    BY <1>2 DEF Announce, Progress, Early
  <2> QED
    BY <1>2, <2>2, <2>3 DEF Announce, Progress
<1>3. ASSUME NEW q \in Requests, Reject(q) \/ StartTask(q)
      PROVE  UNCHANGED <<closer, due, left>>
             /\ (pc'[r] = pc[r] \/ (pc[r] \in Early /\ pc'[r] \in Early))
  BY <1>3 DEF Reject, StartTask, Early
<1>4. ASSUME NEW q \in Requests, PublishDone(q), q # r
      PROVE  /\ UNCHANGED closer /\ left'[Done(r)] = left[Done(r)] /\ pc'[r] = pc[r]
             /\ \A l \in Listeners : r \in due'[l] => r \in due[l]
  <2>1. left'[Done(r)] = left[Done(r)]
    BY <1>4, DoneIsItself DEF PublishDone, Publish
  <2> QED
    BY <1>4, <2>1 DEF PublishDone
<1>5. ASSUME PublishDone(r)
      PROVE  /\ UNCHANGED closer /\ pc'[r] \in {"finish", "over"}
             /\ pc[r] \in Early
  BY <1>5 DEF PublishDone, Early
<1>6. ASSUME NEW f \in Finishers, FinishTask(f)
      PROVE  /\ UNCHANGED <<closer, due, left>>
             /\ pc'[r] = pc[r] \/ (pc'[r] \in {"over", "removed"} /\ left[Done(r)] = {})
  BY <1>6 DEF FinishTask, Sent
<1>7. ASSUME NEW f \in Finishers, CloseConversation(f) \/ CloseReturns(f)
      PROVE  /\ UNCHANGED <<closer, due, left>>
             /\ \/ pc'[r] = pc[r]
                \/ pc[r] \in {"removed", "closing"} /\ pc'[r] \in {"closing", "over"}
  BY <1>7 DEF CloseConversation, CloseReturns
<1>8. ASSUME NEW f \in Finishers, NEW l \in Listeners, CloseOnce(f, l)
      PROVE  /\ UNCHANGED <<pc, due, left>> /\ pc[f] = "closing"
             /\ \A k \in Listeners : closer'[k] = closer[k] \/ closer'[k] = f
  BY <1>8 DEF CloseOnce, CutInv
<1>9. ASSUME \/ \E l \in Listeners : Attach(l) \/ Subscribe(l) \/ Disconnect(l) \/ Reads(l)
             \/ UNCHANGED vars
      PROVE  UNCHANGED <<pc, closer, due, left>>
  BY <1>9 DEF Attach, Subscribe, Disconnect, Reads, Receive, EndOfStream, Unsubscribe, vars
<1> DEFINE Kept == /\ pc'[r] \in Early =>
                        /\ left'[Done(r)] = {}
                        /\ \A l \in Listeners : closer'[l] # r /\ r \notin due'[l]
                   /\ pc'[r] \in {"removed", "closing"} => left'[Done(r)] = {}
                   /\ \A l \in Listeners : closer'[l] = r => left'[Done(r)] = {}
<1>11. ASSUME NEW e \in Events, NEW l \in Listeners, Send(e, l) PROVE Kept
  BY <1>0, <1>1, <1>11
<1>12. ASSUME NEW q \in Requests, Announce(q) \/ Progress(q) PROVE Kept
  BY <1>0, <1>2, <1>12 DEF Early
<1>13. ASSUME NEW q \in Requests, Reject(q) \/ StartTask(q) PROVE Kept
  BY <1>0, <1>3, <1>13 DEF Early
<1>14. ASSUME NEW q \in Requests, PublishDone(q) PROVE Kept
  BY <1>0, <1>4, <1>5, <1>14 DEF Early
<1>15. ASSUME NEW f \in Finishers, FinishTask(f) PROVE Kept
  BY <1>0, <1>6, <1>15 DEF Early
<1>16. ASSUME NEW f \in Finishers, CloseConversation(f) \/ CloseReturns(f) PROVE Kept
  BY <1>0, <1>7, <1>16 DEF Early
<1>17. ASSUME NEW f \in Finishers, NEW l \in Listeners, CloseOnce(f, l) PROVE Kept
  BY <1>0, <1>8, <1>17 DEF Early
<1>18. ASSUME \/ \E l \in Listeners : Attach(l) \/ Subscribe(l) \/ Disconnect(l) \/ Reads(l)
              \/ UNCHANGED vars
       PROVE Kept
  BY <1>0, <1>9, <1>18
<1> QED
  BY <1>11, <1>12, <1>13, <1>14, <1>15, <1>16, <1>17, <1>18
     DEF Next, Sends, RequestStep, Closing

\* What loses nothing on its way, makes nothing due and closes nothing keeps the
\* promise.
LEMMA NothingLost ==
  ASSUME DueInv,
         \A l \in Listeners : \A r \in due'[l] :
           /\ r \in due[l]
           /\ closer'[l] = r /\ l \in closed' => l \notin closed \/ closer[l] = r
           /\ l \notin closed' => l \notin closed
           /\ OnItsWay(r, l) => OnItsWay(r, l)'
  PROVE  DueInv'
<1> SUFFICES ASSUME NEW l \in Listeners, NEW r \in due'[l],
                    l \notin closed' \/ closer'[l] = r
             PROVE  OnItsWay(r, l)'
  BY DEF DueInv
<1> QED
  BY DEF DueInv

\* A "done" stays on its way until it is written.
LEMMA DueStep ==
  ASSUME BusInv, FinishInv, DueInv, [Next]_vars
  PROVE  DueInv'
<1> USE BusAssumption DEF BusInv, TypeOK, Finishers, Goto, reqVars, busVars, outVars
<1>1. ASSUME NEW e \in Events, NEW l \in Listeners, Send(e, l) PROVE DueInv'
  <2> SUFFICES ASSUME NEW k \in Listeners, NEW r \in due'[k],
                      k \notin closed \/ closer[k] = r
               PROVE  OnItsWay(r, k)'
    BY <1>1 DEF Send, DueInv
  <2>1. r \in Requests /\ r \in due[k] /\ OnItsWay(r, k)
    BY <1>1 DEF Send, DueInv
  <2>2. CASE e # Done(r) \/ k # l
    <3>1. k \in left[Done(r)] => k \in left'[Done(r)]
      BY <1>1, <2>1, <2>2, DoneIsItself DEF Send
    <3>2. \A i \in 1 .. Len(chan[k]) : i \in 1 .. Len(chan'[k]) /\ chan'[k][i] = chan[k][i]
      BY <1>1 DEF Send
    <3> QED
      BY <1>1, <2>1, <3>1, <3>2 DEF Send, OnItsWay
  <2>3. CASE e = Done(r) /\ k = l
    <3>1. l \notin closed
      BY <1>1, <2>1, <2>3 DEF Send, FinishInv
    <3>2. Len(chan[l]) < Room
      <4>1. Done(r)[1] = r
        BY <2>1, DoneIsItself
      <4>2. CASE Len(chan[l]) >= Room
        <5>1. due' = [due EXCEPT ![l] = @ \ {r}]
          BY <1>1, <2>3, <3>1, <4>1, <4>2 DEF Send
        <5> QED
          BY <2>3, <5>1
      <4> QED
        BY <4>2
    <3>3. chan'[l] = Append(chan[l], Done(r))
      BY <1>1, <2>3, <3>1, <3>2 DEF Send
    <3>4. chan'[l][Len(chan[l]) + 1] = Done(r) /\ Len(chan'[l]) = Len(chan[l]) + 1
      BY <2>1, <3>3, DoneIsItself
    <3> QED
      BY <2>3, <3>4 DEF OnItsWay
  <2> QED
    BY <2>2, <2>3
<1>2. ASSUME NEW q \in Requests, Announce(q) \/ Progress(q) PROVE DueInv'
  <2>1. \A r \in Requests : <<q, 1>> # Done(r) /\ <<q, published[q] + 1>> # Done(r)
    BY DoneIsItself
  <2>2. \A r \in Requests : left'[Done(r)] = left[Done(r)]
    BY <1>2, <2>1, DoneIsItself DEF Announce, Progress, Publish
  <2>3. UNCHANGED <<due, closer, closed, chan, told>>
    BY <1>2 DEF Announce, Progress
  <2> QED
    BY <2>2, <2>3, NothingLost DEF OnItsWay
<1>3. ASSUME NEW q \in Requests, PublishDone(q) PROVE DueInv'
  <2> SUFFICES ASSUME NEW k \in Listeners, NEW r \in due'[k],
                      k \notin closed \/ closer[k] = r
               PROVE  OnItsWay(r, k)'
    BY <1>3 DEF PublishDone, DueInv
  <2>1. UNCHANGED <<chan, told>> /\ left' = [left EXCEPT ![Done(q)] = subs]
        /\ (r \in due[k] \/ (r = q /\ k \in subs)) /\ pc[q] \in Early
    BY <1>3 DEF PublishDone, Publish, Early
  <2>2. CASE r = q
    <3>1. r \notin due[k]
      BY <2>1, <2>2 DEF FinishInv
    <3>2. left'[Done(r)] = subs
      BY <2>1, <2>2, DoneIsItself
    <3> QED
      BY <2>1, <3>1, <3>2 DEF OnItsWay
  <2>3. CASE r # q
    <3>1. r \in Requests /\ r \in due[k] /\ OnItsWay(r, k)
      BY <2>1, <2>3 DEF DueInv
    <3>2. left'[Done(r)] = left[Done(r)]
      BY <2>1, <2>3, <3>1, DoneIsItself
    <3> QED
      BY <2>1, <3>1, <3>2 DEF OnItsWay
  <2> QED
    BY <2>2, <2>3
<1>4. ASSUME NEW f \in Finishers, NEW l \in Listeners, CloseOnce(f, l) PROVE DueInv'
  <2>1. /\ UNCHANGED <<due, left, chan, told>> /\ closed' = closed \cup {l}
        /\ closer' = IF l \in closed THEN closer ELSE [closer EXCEPT ![l] = f]
    BY <1>4 DEF CloseOnce
  <2> QED
    BY <2>1, NothingLost DEF OnItsWay
<1>5. ASSUME NEW l \in Listeners, Receive(l) PROVE DueInv'
  <2>1. /\ UNCHANGED <<due, left, closed, closer>> /\ chan[l] # <<>>
        /\ chan' = [chan EXCEPT ![l] = Tail(@)]
        /\ told' = [told EXCEPT ![l] = @ \cup {r \in Requests : Head(chan[l]) = Done(r)}]
    BY <1>5 DEF Receive
  <2>2. ASSUME NEW k \in Listeners, NEW r \in Requests, OnItsWay(r, k)
        PROVE  OnItsWay(r, k)'
    <3>1. CASE k # l
      BY <2>1, <2>2, <3>1 DEF OnItsWay
    <3>2. CASE k = l /\ ~\E i \in 1 .. Len(chan[l]) : chan[l][i] = Done(r)
      BY <2>1, <2>2, <3>2 DEF OnItsWay
    <3>3. ASSUME k = l, NEW i \in 1 .. Len(chan[l]), chan[l][i] = Done(r)
          PROVE  OnItsWay(r, k)'
      <4>1. chan[l] \in Seq(Events)
        OBVIOUS
      <4>2. CASE i = 1
        BY <2>1, <3>3, <4>1, <4>2 DEF OnItsWay
      <4>3. CASE i # 1
        <5>1. /\ i - 1 \in 1 .. Len(Tail(chan[l]))
              /\ Tail(chan[l])[i - 1] = chan[l][i]
          BY <2>1, <3>3, <4>1, <4>3
        <5> QED
          BY <2>1, <3>3, <5>1 DEF OnItsWay
      <4> QED
        BY <4>2, <4>3
    <3> QED
      BY <3>1, <3>2, <3>3
  <2> QED
    BY <2>1, <2>2, NothingLost
<1>6. ASSUME NEW l \in Listeners, Unsubscribe(l) PROVE DueInv'
  <2>1. UNCHANGED <<due, left, chan, told, closer>> /\ closed \subseteq closed'
    BY <1>6 DEF Unsubscribe
  <2> QED
    BY <2>1 DEF DueInv, OnItsWay
<1>7. ASSUME UNCHANGED <<due, left, chan, told, closer, closed>> PROVE DueInv'
  BY <1>7 DEF DueInv, OnItsWay
<1>8. ASSUME \/ \E q \in Requests : Reject(q) \/ StartTask(q)
             \/ \E f \in Finishers : FinishTask(f) \/ CloseConversation(f) \/ CloseReturns(f)
             \/ \E l \in Listeners : Attach(l) \/ Subscribe(l) \/ Disconnect(l) \/ EndOfStream(l)
             \/ UNCHANGED vars
      PROVE  DueInv'
  <2>1. UNCHANGED <<due, left, chan, told, closer, closed>>
    BY <1>8 DEF Reject, StartTask, FinishTask, CloseConversation, CloseReturns, Attach,
                Subscribe, Disconnect, EndOfStream, vars
  <2> QED
    BY <2>1, <1>7
<1> QED
  BY <1>1, <1>2, <1>3, <1>4, <1>5, <1>6, <1>8
     DEF Next, Sends, RequestStep, Closing, Reads

-----------------------------------------------------------------------------
(* The theorems.                                                           *)

\* The account holds at first.
LEMMA BusInit == Init => BusInv
<1> SUFFICES ASSUME Init PROVE BusInv
  OBVIOUS
<1>1. TypeOK
  <2>1. chan \in [Listeners -> Seq(Events)]
    <3>1. <<>> \in Seq(Events)
      OBVIOUS
    <3> QED
      BY <3>1 DEF Init
  <2>2. published \in [Requests -> 0 .. MaxEvents]
    BY BusAssumption DEF Init
  <2> QED
    BY <2>1, <2>2 DEF Init, TypeOK, Finishers, RequestPcs, Places
<1>2. CutInv /\ PlaceInv /\ ListenerAccounted
  BY DEF Init, CutInv, PlaceInv, ListenerAccounted
<1> QED
  BY <1>1, <1>2 DEF BusInv

\* Every variable keeps its type.
THEOREM TypeCorrect == Spec => []TypeOK
<1>1. BusInv => TypeOK
  BY DEF BusInv
<1> QED
  BY <1>1, BusInit, BusStep, PTL DEF Spec

\* However Subscribe, Unsubscribe and the two halves of CloseConversation meet: no
\* connection is forgotten and none is kept for nothing.
THEOREM ListenersAccounted == Spec => []ListenerAccounted
<1>1. BusInv => ListenerAccounted
  BY DEF BusInv
<1> QED
  BY <1>1, BusInit, BusStep, PTL DEF Spec

\* The end of the stream never overtakes the last event of the request that ends it
\* (PublishDone before FinishTask, and a closed channel gives what is in it).
THEOREM LastEventFirst == Spec => []DoneIsHeard
<1>1. Init => Inv
  <2> SUFFICES ASSUME Init PROVE Inv
    OBVIOUS
  <2>1. FinishInv
    <3>1. \A r \in Requests : r # NoOne /\ left[Done(r)] = {}
      BY BusAssumption, DoneIsItself DEF Init
    <3> QED
      BY <3>1 DEF Init, FinishInv
  <2>2. DueInv
    BY DEF Init, DueInv
  <2> QED
    BY <2>1, <2>2, BusInit DEF Inv
<1>2. Inv /\ [Next]_vars => Inv'
  BY BusStep, FinishStep, DueStep DEF Inv
<1>3. Inv => DoneIsHeard
  <2> SUFFICES ASSUME Inv, NEW l \in Listeners, at[l] = "ended",
                      NEW r \in due[l], closer[l] = r
               PROVE  r \in told[l]
    BY DEF DoneIsHeard
  <2>1. r \in Requests /\ OnItsWay(r, l)
    BY DEF Inv, BusInv, TypeOK, DueInv
  <2>2. left[Done(r)] = {} /\ chan[l] = <<>>
    BY <2>1 DEF Inv, BusInv, FinishInv, PlaceInv
  <2> QED
    BY <2>1, <2>2 DEF OnItsWay
<1> QED
  BY <1>1, <1>2, <1>3, PTL DEF Spec
=============================================================================
