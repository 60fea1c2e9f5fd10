---------------------------- MODULE TaskEventBus ----------------------------
(***************************************************************************)
(* The mirror of a running task's events (handler/task_event_bus.go), for  *)
(* one conversation.  Stream requests publish what they send to their own  *)
(* client; listeners (GET task-events, agent.go) come and go; whoever      *)
(* finishes the task closes the channels of all who listen.  Publish       *)
(* copies the set of listeners under the lock and sends afterwards,        *)
(* CloseConversation takes the set out under the lock and closes           *)
(* afterwards: both meet listeners that have come or gone meanwhile.       *)
(*                                                                         *)
(* Left out: what the events say, the own SSE connection of a request, the *)
(* other callers of Publish (multi_agent.go and the batch executor follow  *)
(* the same order), tasks beyond who owns the table entry (AgentTaskManager *)
(* models them).                                                           *)
(***************************************************************************)
EXTENDS Naturals, Sequences

CONSTANTS
  Requests,    \* stream requests for the conversation, each made once
  Listeners,   \* requests for the mirror, each made once
  Sweep,       \* the ticker that finishes tasks stuck in cancelling
  MaxEvents,   \* bound on the events a request publishes before "done"
  Room,        \* capacity of a listener's channel (256 in the code)
  NoOne

ASSUME BusAssumption ==
  /\ MaxEvents \in Nat /\ Room \in Nat \ {0}
  /\ Sweep \notin Requests /\ NoOne \notin Requests \cup {Sweep}

\* Event 0 of a request is its "done".
Done(r) == <<r, 0>>
Events == Requests \X (0 .. MaxEvents)

\* Those who call FinishTask.
Finishers == Requests \cup {Sweep}

VARIABLES
  task,       \* whose task is in the table
  pc,         \* where each request, and the sweep, is
  published,  \* how many events each request published before "done"
  left,       \* the listeners each Publish has yet to send its event to
  cut,        \* the listeners each CloseConversation has yet to close
  subs,       \* TaskEventBus.subs of the conversation
  chan,       \* what is in each listener's channel
  closed,     \* the listeners whose channel is closed
  at,         \* where each listener's handler is
  told,       \* the requests whose "done" was written to each listener's connection
  found,      \* history: whose task each listener found
  due,        \* history: the requests whose "done" had to reach the listener
  closer      \* history: whose FinishTask closed the listener's channel

reqVars == <<task, pc, published>>
busVars == <<left, cut, subs, chan, closed>>
outVars == <<at, told, found>>
vars == <<reqVars, busVars, outVars, due, closer>>

RequestPcs == {"idle", "starting", "refused", "running", "finish", "removed",
               "closing", "over"}
Places == {"idle", "found", "open", "ended", "left", "gone"}

Init ==
  /\ task = NoOne
  /\ pc = [f \in Finishers |-> IF f = Sweep THEN "finish" ELSE "idle"]
  /\ published = [r \in Requests |-> 0]
  /\ left = [e \in Events |-> {}]
  /\ cut = [f \in Finishers |-> {}]
  /\ subs = {} /\ closed = {}
  /\ chan = [l \in Listeners |-> <<>>]
  /\ at = [l \in Listeners |-> "idle"]
  /\ told = [l \in Listeners |-> {}]
  /\ found = [l \in Listeners |-> NoOne]
  /\ due = [l \in Listeners |-> {}]
  /\ closer = [l \in Listeners |-> NoOne]

Goto(f, next) == pc' = [pc EXCEPT ![f] = next]

-----------------------------------------------------------------------------
(* Publishing.                                                             *)

\* Publish as far as the lock reaches: the event is for those registered now.
Publish(e) == left' = [left EXCEPT ![e] = subs]

\* A publishing that has begun is over.
Sent(e) == left[e] = {}

\* sendNonBlocking, under the listener's own lock: a closed or a full channel
\* loses the event.
Send(e, l) ==
  /\ l \in left[e]
  /\ left' = [left EXCEPT ![e] = @ \ {l}]
  /\ LET full == Len(chan[l]) >= Room
     IN  /\ chan' = IF l \in closed \/ full THEN chan
                    ELSE [chan EXCEPT ![l] = Append(@, e)]
         /\ due' = IF e = Done(e[1]) /\ l \notin closed /\ full
                   THEN [due EXCEPT ![l] = @ \ {e[1]}] ELSE due
  /\ UNCHANGED <<reqVars, cut, subs, closed, outVars, closer>>

-----------------------------------------------------------------------------
(* Stream requests.                                                        *)

\* The first progress event, before StartTask.
Announce(r) ==
  /\ pc[r] = "idle"
  /\ Goto(r, "starting")
  /\ IF MaxEvents = 0 THEN UNCHANGED <<published, left>>
     ELSE /\ published' = [published EXCEPT ![r] = 1]
          /\ Publish(<<r, 1>>)
  /\ UNCHANGED <<task, cut, subs, chan, closed, outVars, due, closer>>

\* No configuration, or no channel: the request ends before it has a task.
Reject(r) ==
  /\ pc[r] = "starting" /\ Sent(<<r, published[r]>>)
  /\ Goto(r, "refused")
  /\ UNCHANGED <<task, published, busVars, outVars, due, closer>>

\* The conversation has one task at a time.
StartTask(r) ==
  /\ pc[r] = "starting" /\ Sent(<<r, published[r]>>)
  /\ IF task = NoOne THEN task' = r /\ Goto(r, "running")
     ELSE Goto(r, "refused") /\ UNCHANGED task
  /\ UNCHANGED <<published, busVars, outVars, due, closer>>

\* Progress of the run, from whichever goroutine; the error of a refused request.
Progress(r) ==
  /\ published[r] < MaxEvents
  /\ pc[r] = "running" \/ (pc[r] = "refused" /\ Sent(<<r, published[r]>>))
  /\ published' = [published EXCEPT ![r] = @ + 1]
  /\ Publish(<<r, published[r] + 1>>)
  /\ UNCHANGED <<task, pc, cut, subs, chan, closed, outVars, due, closer>>

\* Every way out publishes "done" after what the handler itself published.
PublishDone(r) ==
  /\ \/ pc[r] = "running" /\ Goto(r, "finish")
     \/ pc[r] = "refused" /\ Sent(<<r, published[r]>>) /\ Goto(r, "over")
  /\ Publish(Done(r))
  /\ due' = [l \in Listeners |-> IF l \in subs THEN due[l] \cup {r} ELSE due[l]]
  /\ UNCHANGED <<task, published, cut, subs, chan, closed, outVars, closer>>

\* Faulty variant: "done" is published by a goroutine nobody waits for.
FinishTaskEarly(f) ==
  /\ pc[f] = "finish"
  /\ IF task = NoOne THEN f # Sweep /\ Goto(f, "over") /\ UNCHANGED task
     ELSE task' = NoOne /\ Goto(f, "removed")
  /\ UNCHANGED <<published, busVars, outVars, due, closer>>

\* Faulty variant: the sweep removes the task and leaves the bus alone.
FinishTaskSilently(f) ==
  /\ pc[f] = "finish"
  /\ f \in Requests => Sent(Done(f))
  /\ IF task = NoOne THEN f # Sweep /\ Goto(f, "over") /\ UNCHANGED task
     ELSE task' = NoOne /\ Goto(f, IF f = Sweep THEN "over" ELSE "removed")
  /\ UNCHANGED <<published, busVars, outVars, due, closer>>

\* The deferred FinishTask, or the sweep's: the task in the table goes, whoever
\* owns it; the tools are cancelled before the bus is asked.
FinishTask(f) ==
  /\ pc[f] = "finish"
  /\ f \in Requests => Sent(Done(f))
  /\ IF task = NoOne THEN f # Sweep /\ Goto(f, "over") /\ UNCHANGED task
     ELSE task' = NoOne /\ Goto(f, "removed")
  /\ UNCHANGED <<published, busVars, outVars, due, closer>>

\* CloseConversation as far as the lock reaches.
CloseConversation(f) ==
  /\ pc[f] = "removed"
  /\ Goto(f, "closing")
  /\ cut' = [cut EXCEPT ![f] = subs] /\ subs' = {}
  /\ UNCHANGED <<task, published, left, chan, closed, outVars, due, closer>>

\* closeOnce of a listener that was taken out.
CloseOnce(f, l) ==
  /\ l \in cut[f]
  /\ cut' = [cut EXCEPT ![f] = @ \ {l}]
  /\ closed' = closed \cup {l}
  /\ closer' = IF l \in closed THEN closer ELSE [closer EXCEPT ![l] = f]
  /\ UNCHANGED <<reqVars, left, subs, chan, outVars, due>>

CloseReturns(f) ==
  /\ pc[f] = "closing" /\ cut[f] = {}
  /\ Goto(f, "over")
  /\ UNCHANGED <<task, published, busVars, outVars, due, closer>>

-----------------------------------------------------------------------------
(* Listeners.                                                              *)

\* SubscribeAgentTaskEvents looks for a task first: 404 without one.
Attach(l) ==
  /\ at[l] = "idle"
  /\ at' = [at EXCEPT ![l] = IF task = NoOne THEN "gone" ELSE "found"]
  /\ found' = [found EXCEPT ![l] = task]
  /\ UNCHANGED <<reqVars, busVars, told, due, closer>>

\* It registers later, whatever has become of the task.
Subscribe(l) ==
  /\ at[l] = "found"
  /\ at' = [at EXCEPT ![l] = "open"]
  /\ subs' = subs \cup {l}
  /\ UNCHANGED <<reqVars, left, cut, chan, closed, told, found, due, closer>>

\* A closed channel still gives what is in it.
Receive(l) ==
  /\ at[l] = "open" /\ chan[l] # <<>>
  /\ told' = [told EXCEPT ![l] = @ \cup {r \in Requests : Head(chan[l]) = Done(r)}]
  /\ chan' = [chan EXCEPT ![l] = Tail(@)]
  /\ UNCHANGED <<reqVars, left, cut, subs, closed, at, found, due, closer>>

EndOfStream(l) ==
  /\ at[l] = "open" /\ chan[l] = <<>> /\ l \in closed
  /\ at' = [at EXCEPT ![l] = "ended"]
  /\ UNCHANGED <<reqVars, busVars, told, found, due, closer>>

\* The client goes, or a write to it fails.
Disconnect(l) ==
  /\ at[l] = "open"
  /\ at' = [at EXCEPT ![l] = "left"]
  /\ UNCHANGED <<reqVars, busVars, told, found, due, closer>>

\* Faulty variant: the channel is closed, the registration stays.
UnsubscribeHalf(l) ==
  /\ at[l] \in {"ended", "left"}
  /\ at' = [at EXCEPT ![l] = "gone"]
  /\ closed' = closed \cup {l}
  /\ UNCHANGED <<reqVars, left, cut, subs, chan, told, found, due, closer>>

\* The deferred Unsubscribe: nothing to do when nobody listens any more.
Unsubscribe(l) ==
  /\ at[l] \in {"ended", "left"}
  /\ at' = [at EXCEPT ![l] = "gone"]
  /\ subs' = subs \ {l}
  /\ closed' = IF subs = {} THEN closed ELSE closed \cup {l}
  /\ UNCHANGED <<reqVars, left, cut, chan, told, found, due, closer>>

-----------------------------------------------------------------------------
Sends == \E e \in Events, l \in Listeners : Send(e, l)

\* What follows of itself once a request is made, or a sweep has begun.
RequestStep(r) ==
  Reject(r) \/ StartTask(r) \/ Progress(r) \/ PublishDone(r) \/ FinishTask(r)

Closing(f) ==
  CloseConversation(f) \/ CloseReturns(f) \/ \E l \in Listeners : CloseOnce(f, l)

Reads(l) == Receive(l) \/ EndOfStream(l) \/ Unsubscribe(l)

Next ==
  \/ Sends
  \/ \E r \in Requests : Announce(r) \/ RequestStep(r)
  \/ FinishTask(Sweep)
  \/ \E f \in Finishers : Closing(f)
  \/ \E l \in Listeners : Attach(l) \/ Subscribe(l) \/ Disconnect(l) \/ Reads(l)

Spec == Init /\ [][Next]_vars

\* Goroutines run on, a run ends (it has a timeout), a client that stays takes
\* what it is written.  Nobody need ask for anything, and the sweep need not come.
Fairness ==
  /\ WF_vars(Sends)
  /\ \A r \in Requests : WF_vars(RequestStep(r))
  /\ \A f \in Finishers : WF_vars(Closing(f))
  /\ \A l \in Listeners : WF_vars(Reads(l))

FairSpec == Spec /\ Fairness

-----------------------------------------------------------------------------
(* Properties.                                                             *)

\* Every variable has its type.
TypeOK ==
  /\ task \in Requests \cup {NoOne}
  /\ pc \in [Finishers -> RequestPcs]
  /\ published \in [Requests -> 0 .. MaxEvents]
  /\ left \in [Events -> SUBSET Listeners]
  /\ cut \in [Finishers -> SUBSET Listeners]
  /\ subs \subseteq Listeners /\ closed \subseteq Listeners
  /\ chan \in [Listeners -> Seq(Events)]
  /\ at \in [Listeners -> Places]
  /\ told \in [Listeners -> SUBSET Requests]
  /\ found \in [Listeners -> Requests \cup {NoOne}]
  /\ due \in [Listeners -> SUBSET Requests]
  /\ closer \in [Listeners -> Finishers \cup {NoOne}]

\* No connection is forgotten, and none is kept for nothing: who is registered has
\* a handler and an open channel; a handler that reads is registered, or its
\* channel is closed or about to be (Subscribe, Unsubscribe, CloseConversation).
ListenerAccounted ==
  \A l \in Listeners :
    /\ l \in subs => at[l] \in {"open", "left"} /\ l \notin closed
    /\ at[l] = "open" => \/ l \in subs \/ l \in closed
                         \/ \E f \in Finishers : l \in cut[f]

\* The end of the stream does not overtake the last event: a listener registered
\* when a request published "done" has written it, unless its channel was full,
\* before the FinishTask of that request ends its stream.
DoneIsHeard ==
  \A l \in Listeners :
    at[l] = "ended" => \A r \in due[l] : closer[l] = r => r \in told[l]

\* Whoever is registered while a task runs is let go in the end, even if another
\* handler or the sweep removes the task.  (Who registers after the
\* last CloseConversation is not: nobody will close that channel.)
ListenersAreReleased ==
  \A l \in Listeners : (l \in subs /\ task # NoOne) ~> (at[l] = "gone")

\* The mirror is that of the task (agent.go, SubscribeAgentTaskEvents): while the
\* task a listener found runs, no other request's "done" is written to it.
MirrorOfRunningTask ==
  \A l \in Listeners :
    at[l] = "open" /\ task # NoOne /\ found[l] = task =>
      told[l] \subseteq {task}

\* The stream of a listener is not ended while the task it found runs.
OpenWhileRunning ==
  \A l \in Listeners :
    at[l] = "open" /\ task # NoOne /\ found[l] = task => l \notin closed
=============================================================================
