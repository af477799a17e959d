------------------------- MODULE ResourceScheduler -------------------------
(***************************************************************************)
(* Who may look at the desktop and who may change it, and when: the lanes  *)
(* of computer-use-core/scheduler.ts, one for each window (a "resource")   *)
(* and one for physical input, the sessions of session-manager.ts, and     *)
(* the calls of coordinator.ts and computer-use/service.ts that go through *)
(* them.  A native helper carries out one request; desk counts the changes *)
(* helpers have made to a resource.  A helper that fails may leave its     *)
(* process behind (an unsafe failure): the back end is then quarantined    *)
(* until the process is known to be gone.  What the action ledger does     *)
(* with the outcome is in ActionLedger.                                    *)
(***************************************************************************)
EXTENDS Integers, SequencesExt, FiniteSetsExt

CONSTANTS
    Calls,      \* the calls of the tools; one that observes opens a session
    RunOf,      \* the run each call belongs to
    Toggles,    \* the calls of setEnabled
    Starts      \* the situations to begin with: the windows, which calls have
                \* observed which, which calls and switches were over before, and whether
                \* a run or the service may be closed

ASSUME ConstantsAssumption ==
    /\ DOMAIN RunOf = Calls
    /\ \A start \in Starts :
          /\ DOMAIN start.observed \subseteq Calls
          /\ \A c \in DOMAIN start.observed : start.observed[c] \in start.windows
          /\ start.over \subseteq (Calls \cup Toggles) \ DOMAIN start.observed
          /\ start.closes \in BOOLEAN

VARIABLES
    call,        \* where each call stands
    lane,        \* the calls with a place in the lane of each resource
    hands,       \* those with a place in the lane of physical input
    epoch,       \* the epoch of each resource
    desk,        \* the changes made to each resource
    states,      \* the observation store
    stopped,     \* the calls whose own signal is aborted
    quarantines, \* the failures whose process may still be there
    active,      \* the open sessions, by the call that opened them
    granted,     \* those with an authorization
    aborted,     \* the sessions whose signal is aborted
    closing,     \* the sessions the back end is disposing of
    enabled,     \* session manager: enabled
    desired,     \* session manager: desiredEnabled
    disabling,   \* the sessions the running disposeAll waits for
    generation,  \* session manager: enablementGeneration
    toggle,      \* where each call of setEnabled stands
    service,     \* how far the service is closed
    closes       \* bound: whether a run or the service may be closed

lanes == <<call, lane, hands>>
sessions == <<active, granted, aborted, closing, disabling>>
switch == <<enabled, desired, generation, toggle>>
ending == <<service, closes>>
vars == <<call, lane, hands, epoch, desk, states, stopped, quarantines, active,
          granted, aborted, closing, enabled, desired, disabling, generation,
          toggle, service, closes>>

-----------------------------------------------------------------------------
(* Calls, lanes and signals *)

\* The windows there are.
Resources == DOMAIN epoch

NoSession == "none"

\* A call: where it is, what it is about, what it has seen of its resource and
\* in which epoch, the session it acts under, how often its action was sent and
\* whether the helper that carries it out is there and has made its change.
NewCall == [at |-> "idle", op |-> "none", res |-> "none", epoch |-> 0, seen |-> 0,
            session |-> NoSession, sends |-> 0, hand |-> "none"]

Opening(observed, over) ==
    /\ call = [c \in Calls |->
                 IF c \in DOMAIN observed
                 THEN [NewCall EXCEPT !.at = "returned", !.op = "observe",
                                      !.res = observed[c]]
                 ELSE IF c \in over THEN [NewCall EXCEPT !.at = "returned"]
                 ELSE NewCall]
    /\ states = {[res |-> observed[c], epoch |-> 0, seen |-> 0] : c \in DOMAIN observed}
    /\ active = DOMAIN observed /\ granted = DOMAIN observed
    /\ toggle = [t \in Toggles |-> IF t \in over
                                   THEN [at |-> "returned", on |-> TRUE, generation |-> 1]
                                   ELSE [at |-> "idle", on |-> FALSE, generation |-> 0]]

Init ==
    /\ \E start \in Starts :
          /\ Opening(start.observed, start.over)
          /\ lane = [r \in start.windows |-> <<>>] /\ epoch = [r \in start.windows |-> 0]
          /\ desk = [r \in start.windows |-> 0]
          /\ closes = start.closes
    /\ hands = <<>>
    /\ stopped = {} /\ quarantines = {}
    /\ aborted = {} /\ closing = {} /\ disabling = {}
    /\ enabled = TRUE /\ desired = TRUE /\ generation = 1
    /\ service = "open"

\* assertBackendAvailable, of the scheduler and of the session manager: both
\* keep the same failures.
Available == quarantines = {}
IsEnabled == enabled /\ disabling = {} /\ Available

\* AbortSignal.any of the caller's signal and the session's.
SignalAborted(c) == c \in stopped \/ call[c].session \in aborted
Authorized(c) == IsEnabled /\ call[c].session \in granted

\* What an action makes of the calls and of their places.
Now == [call |-> call, lane |-> lane, hands |-> hands]
Become(w) == call' = w.call /\ lane' = w.lane /\ hands' = w.hands

FirstIn(s, c) == s # <<>> /\ Head(s) = c

\* The work of a call is over: the places it holds are free.  One it waits for
\* is not taken out of the queue, it is passed over when its turn comes.
Leave(w, c, at) ==
    [call  |-> [w.call EXCEPT ![c].at = at],
     lane  |-> [r \in Resources |->
                  IF FirstIn(w.lane[r], c) THEN Tail(w.lane[r]) ELSE w.lane[r]],
     hands |-> IF FirstIn(w.hands, c) THEN Tail(w.hands) ELSE w.hands]

\* enqueueAfter, onAbort: a call whose turn has not come returns at once.  One
\* that waits for the hands gives its resource free.
Reject(w, S) ==
    LET hit == {c \in S : w.call[c].at \in {"queued", "waiting"}}
    IN  [call  |-> [c \in Calls |->
                      IF c \in hit THEN [w.call[c] EXCEPT !.at = "returned"] ELSE w.call[c]],
         lane  |-> [r \in Resources |->
                      IF \E c \in hit : FirstIn(w.lane[r], c)
                      THEN Tail(w.lane[r]) ELSE w.lane[r]],
         hands |-> w.hands]

UnderSession(S) == {c \in Calls : call[c].session \in S}

\* enqueue of a call that has not been refused.
Queue(w, c, at) ==
    [call  |-> [w.call EXCEPT ![c].at = at],
     lane  |-> [w.lane EXCEPT ![w.call[c].res] = Append(@, c)],
     hands |-> w.hands]

Admits == service \in {"open", "closing"} /\ Available

-----------------------------------------------------------------------------
(* Unsafe failures *)

\* quarantineAfterUnsafeTermination of both, after what the failure does to its
\* own call: every session is aborted and forgotten.
Quarantine(w, failure) ==
    /\ quarantines' = quarantines \cup {failure}
    /\ Become(Reject(w, UnderSession(active)))
    /\ aborted' = aborted \cup active
    /\ active' = {} /\ granted' = {}

\* Mutant: an aborted call ends with the reason of its abort, and what has become
\* of the process is not looked at.
Failed_Aborted(w, c, unsafe) ==
    IF unsafe /\ ~SignalAborted(c)
    THEN Quarantine(w, <<"helper", c>>) /\ UNCHANGED <<closing, disabling>>
    ELSE Become(w) /\ UNCHANGED <<quarantines, sessions>>

\* A helper of the call has failed; what follows depends on whether its process
\* is gone.  The quarantine is there before the lanes are free.
Failed(w, c, unsafe) ==
    IF unsafe
    THEN Quarantine(w, <<"helper", c>>) /\ UNCHANGED <<closing, disabling>>
    ELSE Become(w) /\ UNCHANGED <<quarantines, sessions>>

\* The process a failure left behind has closed; it changes nothing any more.
Confirm(failure) ==
    /\ failure \in quarantines
    /\ quarantines' = quarantines \ {failure}
    /\ call' = IF failure[1] = "helper" THEN [call EXCEPT ![failure[2]].hand = "none"]
               ELSE call
    /\ UNCHANGED <<lane, hands, epoch, desk, states, stopped, sessions, switch, ending>>

\* The helper that acts for the call changes the resource, at some moment of its
\* life; one that was left behind too.
Lands(c) ==
    /\ call[c].hand = "sent"
    /\ call' = [call EXCEPT ![c].hand = "landed"]
    /\ desk' = [desk EXCEPT ![call[c].res] = @ + 1]
    /\ UNCHANGED <<lane, hands, epoch, states, stopped, quarantines, sessions, switch,
                   ending>>

-----------------------------------------------------------------------------
(* Observing: ComputerUseApplicationService.observeAndOpenSession *)

Identify(c, r) ==
    /\ call[c].at = "idle" /\ service = "open" /\ Available /\ c \notin stopped
    /\ call' = [call EXCEPT ![c].at = "identifying", ![c].op = "observe", ![c].res = r]
    /\ UNCHANGED <<lane, hands, epoch, desk, states, stopped, quarantines, sessions,
                   switch, ending>>

Identified(c) ==
    /\ call[c].at = "identifying"
    /\ Become(IF c \in stopped \/ ~Admits THEN Leave(Now, c, "returned")
              ELSE Queue(Now, c, "queued"))
    /\ UNCHANGED <<epoch, desk, states, stopped, quarantines, sessions, switch, ending>>

IdentifyFails(c, unsafe) ==
    /\ call[c].at = "identifying"
    /\ Failed(Leave(Now, c, "returned"), c, unsafe)
    /\ UNCHANGED <<epoch, desk, states, stopped, switch, ending>>

\* The turn of a read comes, of an observation or of the look at what an action
\* with an unknown outcome has left.
StartRead(c) ==
    /\ call[c].at \in {"queued", "surveyQueued"}
    /\ call[c].at = "queued" => call[c].op = "observe"
    /\ FirstIn(lane[call[c].res], c)
    /\ IF Available
       THEN /\ call' = [call EXCEPT
                 ![c].at = IF @ = "queued" THEN "reading" ELSE "surveying",
                 ![c].epoch = epoch[call[c].res], ![c].seen = desk[call[c].res]]
            /\ UNCHANGED <<lane, hands>>
       ELSE Become(Leave(Now, c, "returned"))
    /\ UNCHANGED <<epoch, desk, states, stopped, quarantines, sessions, switch, ending>>

\* What is published: the state the helper saw at some moment of its life, with
\* the given epoch.
Publish(c, e) ==
    \E seen \in {call[c].seen, desk[call[c].res]} :
        states' = states \cup {[res |-> call[c].res, epoch |-> e, seen |-> seen]}

\* An observation is stored; the session is opened if nothing stands against it.
ReadEnds(c) ==
    /\ call[c].at \in {"reading", "surveying"}
    /\ Publish(c, call[c].epoch)
    /\ Become(Leave(Now, c, "returned"))
    /\ LET opens == call[c].at = "reading" /\ c \notin stopped /\ IsEnabled
       IN  /\ active' = IF opens THEN active \cup {c} ELSE active
           /\ granted' = IF opens THEN granted \cup {c} ELSE granted
    /\ UNCHANGED <<epoch, desk, stopped, quarantines, aborted, closing, disabling, switch,
                   ending>>

ReadFails(c, unsafe) ==
    /\ call[c].at \in {"reading", "surveying"}
    /\ Failed(Leave(Now, c, "returned"), c, unsafe)
    /\ UNCHANGED <<epoch, desk, states, stopped, switch, ending>>

-----------------------------------------------------------------------------
(* Acting: ComputerUseTransactionCoordinator.execute *)

\* The session and its signal are captured before the ledger is asked.
Execute(c, o, s) ==
    /\ call[c].at = "idle" /\ service = "open" /\ IsEnabled
    /\ s \in active \cap granted /\ RunOf[s] = RunOf[c] /\ call[s].res = o.res
    /\ call' = [call EXCEPT ![c].at = "asked", ![c].op = "execute", ![c].res = o.res,
                            ![c].epoch = o.epoch, ![c].seen = o.seen, ![c].session = s]
    /\ UNCHANGED <<lane, hands, epoch, desk, states, stopped, quarantines, sessions,
                   switch, ending>>

\* The attempt is recorded; scheduler.write.
Write(c) ==
    /\ call[c].at = "asked"
    /\ Become(IF SignalAborted(c) \/ ~Admits THEN Leave(Now, c, "returned")
              ELSE Queue(Now, c, "queued"))
    /\ UNCHANGED <<epoch, desk, states, stopped, quarantines, sessions, switch, ending>>

\* A write that has its resource takes a place in the lane of physical input.
WantHands(c) ==
    /\ call' = [call EXCEPT ![c].at = "waiting"]
    /\ hands' = Append(hands, c)
    /\ UNCHANGED lane

\* Mutant: the epoch is only compared when the write is asked for.
StartWrite_Unchecked(c) ==
    /\ call[c].at = "queued" /\ call[c].op = "execute"
    /\ FirstIn(lane[call[c].res], c)
    /\ IF Available THEN WantHands(c) ELSE Become(Leave(Now, c, "returned"))
    /\ UNCHANGED <<epoch, desk, states, stopped, quarantines, sessions, switch, ending>>

\* The turn of a write comes on its resource: it wants the hands.
StartWrite(c) ==
    /\ call[c].at = "queued" /\ call[c].op = "execute"
    /\ FirstIn(lane[call[c].res], c)
    /\ IF Available /\ epoch[call[c].res] = call[c].epoch
       THEN WantHands(c) ELSE Become(Leave(Now, c, "returned"))
    /\ UNCHANGED <<epoch, desk, states, stopped, quarantines, sessions, switch, ending>>

\* It has the hands, and tells the ledger that it is going to act.
StartDispatch(c) ==
    /\ call[c].at = "waiting" /\ FirstIn(hands, c)
    /\ Become(IF Authorized(c) /\ ~SignalAborted(c)
              THEN [Now EXCEPT !.call[c].at = "recording"]
              ELSE Leave(Now, c, "returned"))
    /\ UNCHANGED <<epoch, desk, states, stopped, quarantines, sessions, switch, ending>>

\* The ledger has another record of the attempt, or fails.
NotRecorded(c) ==
    /\ call[c].at = "recording"
    /\ Become(Leave(Now, c, "returned"))
    /\ UNCHANGED <<epoch, desk, states, stopped, quarantines, sessions, switch, ending>>

\* The outcome is unknown: observeAfterUnknown takes a place of its own.
Survey(w, c) ==
    LET left == Leave([w EXCEPT !.call[c].hand = "none"], c, "returned")
    IN  IF Admits THEN Queue(left, c, "surveyQueued") ELSE left

\* Mutant: the signal is not looked at again after the ledger has answered.
Dispatch_Unchecked(c) ==
    /\ call[c].at = "recording"
    /\ epoch' = [epoch EXCEPT ![call[c].res] = @ + 1]
    /\ call' = [call EXCEPT ![c].at = "acting", ![c].epoch = @ + 1,
                            ![c].sends = 1, ![c].hand = "sent"]
    /\ UNCHANGED <<lane, hands, desk, states, stopped, quarantines, sessions, switch,
                   ending>>

\* The ledger has the dispatch: commit, and the action is sent.
Dispatch(c) ==
    /\ call[c].at = "recording"
    /\ IF SignalAborted(c)
       THEN Become(Survey(Now, c)) /\ UNCHANGED epoch
       ELSE /\ epoch' = [epoch EXCEPT ![call[c].res] = @ + 1]
            /\ call' = [call EXCEPT ![c].at = "acting", ![c].epoch = @ + 1,
                                    ![c].sends = 1, ![c].hand = "sent"]
            /\ UNCHANGED <<lane, hands>>
    /\ UNCHANGED <<desk, states, stopped, quarantines, sessions, switch, ending>>

\* The helper proves it has done nothing: the action is sent again, in the
\* foreground.
Retry(c) ==
    /\ call[c].at = "acting" /\ call[c].hand = "sent" /\ call[c].sends = 1
    /\ Become(IF ~SignalAborted(c) /\ Authorized(c)
              THEN [Now EXCEPT !.call[c].sends = 2]
              ELSE Survey(Now, c))
    /\ UNCHANGED <<epoch, desk, states, stopped, quarantines, sessions, switch, ending>>

\* The helper has acted, or not; the successor is observed, the lanes still held.
ActEnds(c) ==
    /\ call[c].at = "acting"
    /\ call' = [call EXCEPT ![c].at = "watching", ![c].hand = "none",
                            ![c].seen = desk[call[c].res]]
    /\ UNCHANGED <<lane, hands, epoch, desk, states, stopped, quarantines, sessions,
                   switch, ending>>

\* The successor is published, unless the window is not the one acted on, and
\* the outcome settled.
WatchEnds(c) ==
    /\ call[c].at = "watching"
    /\ Publish(c, call[c].epoch) \/ UNCHANGED states
    /\ Become(Leave(Now, c, "returned"))
    /\ UNCHANGED <<epoch, desk, stopped, quarantines, sessions, switch, ending>>

\* The helper that acts, or the one that watches, fails.
ActFails(c, unsafe) ==
    /\ call[c].at \in {"acting", "watching"}
    /\ Failed(IF unsafe THEN Leave(Now, c, "returned") ELSE Survey(Now, c), c, unsafe)
    /\ UNCHANGED <<epoch, desk, states, stopped, switch, ending>>

\* The turn of a call that has returned comes.
Pass ==
    \/ /\ \E r \in Resources :
             /\ lane[r] # <<>> /\ call[Head(lane[r])].at = "returned"
             /\ lane' = [lane EXCEPT ![r] = Tail(@)]
       /\ UNCHANGED <<call, hands, epoch, desk, states, stopped, quarantines, sessions,
                      switch, ending>>
    \/ /\ hands # <<>> /\ call[Head(hands)].at = "returned"
       /\ hands' = Tail(hands)
       /\ UNCHANGED <<call, lane, epoch, desk, states, stopped, quarantines, sessions,
                      switch, ending>>

\* The caller's signal is aborted.
Abort(c) ==
    /\ call[c].at \notin {"idle", "returned"} /\ c \notin stopped
    /\ stopped' = stopped \cup {c}
    /\ Become(Reject(Now, {c}))
    /\ UNCHANGED <<epoch, desk, states, quarantines, sessions, switch, ending>>

-----------------------------------------------------------------------------
(* Sessions: ComputerUseSessionManager *)

\* closeSession of every session of S whose closing has not begun.
CloseSessions(S) ==
    /\ Become(Reject(Now, UnderSession(S)))
    /\ aborted' = aborted \cup S
    /\ closing' = closing \cup S

\* disposeAll, and what startDisabling waits for.
StartDisabling ==
    /\ CloseSessions(active)
    /\ granted' = {}
    /\ disabling' = active
    /\ UNCHANGED <<active, quarantines>>

CloseRun(run) ==
    LET mine == {s \in active : RunOf[s] = run}
    IN  /\ service = "open" /\ mine \ closing # {}
        /\ closes
        /\ CloseSessions(mine)
        /\ granted' = {s \in granted : RunOf[s] # run}
        /\ UNCHANGED <<active, disabling, epoch, desk, states, stopped, quarantines, switch,
                       ending>>

\* Mutant: every call that enables has its way.
Settled_Any(well) ==
    /\ disabling' = {}
    /\ toggle' = [t \in Toggles |-> IF toggle[t].at = "waiting"
                                    THEN [toggle[t] EXCEPT !.at = "returned"]
                                    ELSE toggle[t]]
    /\ enabled' = \/ enabled
                  \/ well /\ \E t \in Toggles : toggle[t].at = "waiting" /\ toggle[t].on
    /\ service' = IF service = "closing" THEN "draining" ELSE service
    /\ UNCHANGED closes

\* The disposeAll that is waited for is over: whoever waits goes on.  Of the
\* calls that enable, the last call of all has its way if it went well.
Settled(well) ==
    /\ disabling' = {}
    /\ toggle' = [t \in Toggles |-> IF toggle[t].at = "waiting"
                                    THEN [toggle[t] EXCEPT !.at = "returned"]
                                    ELSE toggle[t]]
    /\ enabled' = \/ enabled
                  \/ /\ well /\ desired
                     /\ \E t \in Toggles : /\ toggle[t].at = "waiting" /\ toggle[t].on
                                           /\ toggle[t].generation = generation
    /\ service' = IF service = "closing" THEN "draining" ELSE service
    /\ UNCHANGED closes

Disposed(s) ==
    /\ s \in closing
    /\ closing' = closing \ {s} /\ active' = active \ {s}
    /\ IF disabling = {s} THEN Settled(TRUE)
       ELSE disabling' = disabling \ {s} /\ UNCHANGED <<toggle, enabled, ending>>
    /\ UNCHANGED <<lanes, epoch, desk, states, stopped, quarantines, granted, aborted,
                   desired, generation>>

\* Mutant: a failure is left to the caller of the session's own close.
DisposeFails_Own(s, unsafe) ==
    /\ s \in closing
    /\ closing' = closing \ {s}
    /\ IF unsafe THEN Quarantine(Now, <<"dispose", s>>)
       ELSE UNCHANGED <<lanes, quarantines, active, granted, aborted>>
    /\ UNCHANGED <<disabling, toggle, enabled, ending, epoch, desk, states, stopped,
                   desired, generation>>

\* The session stays open: it is closed again by whoever closes it next.
DisposeFails(s, unsafe) ==
    /\ s \in closing
    /\ closing' = closing \ {s}
    /\ IF s \in disabling THEN Settled(FALSE)
       ELSE UNCHANGED <<disabling, toggle, enabled, ending>>
    /\ IF unsafe THEN Quarantine(Now, <<"dispose", s>>)
       ELSE UNCHANGED <<lanes, quarantines, active, granted, aborted>>
    /\ UNCHANGED <<epoch, desk, states, stopped, desired, generation>>

Called(t, on, at) ==
    /\ generation' = generation + 1 /\ desired' = on
    /\ toggle' = [toggle EXCEPT ![t] = [at |-> at, on |-> on, generation |-> generation + 1]]

\* setEnabled(false)
Disable(t) ==
    /\ toggle[t].at = "idle" /\ service = "open"
    /\ Called(t, FALSE, IF disabling \cup active = {} THEN "returned" ELSE "waiting")
    /\ enabled' = FALSE
    /\ IF disabling = {} THEN StartDisabling ELSE UNCHANGED <<lanes, sessions, quarantines>>
    /\ UNCHANGED <<epoch, desk, states, stopped, ending>>

\* setEnabled(true): a disposeAll under way is waited for, one that has failed
\* is tried again first.
Enable(t) ==
    /\ toggle[t].at = "idle" /\ service = "open"
    /\ LET clean == disabling = {} /\ (enabled \/ active = {})
       IN  /\ Called(t, TRUE, IF clean THEN "returned" ELSE "waiting")
           /\ enabled' = (enabled \/ clean)
           /\ IF ~clean /\ disabling = {} THEN StartDisabling
              ELSE UNCHANGED <<lanes, sessions, quarantines>>
    /\ UNCHANGED <<epoch, desk, states, stopped, ending>>

\* ComputerUseApplicationService.close: setEnabled(false), then, however that
\* ends, the scheduler is closed and its lanes are waited for.
Close ==
    /\ service = "open"
    /\ closes
    /\ service' = IF disabling \cup active = {} THEN "draining" ELSE "closing"
    /\ generation' = generation + 1 /\ desired' = FALSE /\ enabled' = FALSE
    /\ IF disabling = {} THEN StartDisabling ELSE UNCHANGED <<lanes, sessions, quarantines>>
    /\ UNCHANGED <<epoch, desk, states, stopped, toggle, closes>>

Closed ==
    /\ service = "draining"
    /\ hands = <<>> /\ \A r \in Resources : lane[r] = <<>>
    /\ service' = "closed"
    /\ UNCHANGED <<lanes, epoch, desk, states, stopped, quarantines, sessions, switch,
                   closes>>

-----------------------------------------------------------------------------

Next ==
    \/ \E c \in Calls :
          \/ \E r \in Resources : Identify(c, r)
          \/ Identified(c) \/ StartRead(c) \/ ReadEnds(c)
          \/ \E o \in states, s \in Calls : Execute(c, o, s)
          \/ Write(c) \/ StartWrite(c) \/ StartDispatch(c) \/ NotRecorded(c)
          \/ Dispatch(c) \/ Lands(c) \/ Retry(c) \/ ActEnds(c) \/ WatchEnds(c)
          \/ \E unsafe \in BOOLEAN :
                IdentifyFails(c, unsafe) \/ ReadFails(c, unsafe) \/ ActFails(c, unsafe)
          \/ Abort(c)
    \/ Pass
    \/ \E failure \in quarantines : Confirm(failure)
    \/ \E run \in {RunOf[c] : c \in Calls} : CloseRun(run)
    \/ \E s \in Calls : Disposed(s) \/ \E unsafe \in BOOLEAN : DisposeFails(s, unsafe)
    \/ \E t \in Toggles : Disable(t) \/ Enable(t)
    \/ Close \/ Closed

Spec == Init /\ [][Next]_vars

\* What the event loop does next, and the helpers, which are given a time to
\* end in (native-process.ts).  Nothing is assumed of a process left behind.
Fairness ==
    /\ WF_vars(Pass) /\ WF_vars(Closed)
    /\ \A c \in Calls :
          /\ WF_vars(Identified(c)) /\ WF_vars(Write(c)) /\ WF_vars(StartRead(c))
          /\ WF_vars(StartWrite(c)) /\ WF_vars(StartDispatch(c)) /\ WF_vars(Dispatch(c))
          /\ WF_vars(ReadEnds(c)) /\ WF_vars(ActEnds(c)) /\ WF_vars(WatchEnds(c))
          /\ WF_vars(Disposed(c))

FairSpec == Spec /\ Fairness

-----------------------------------------------------------------------------
(* Properties *)

Places == {"idle", "identifying", "asked", "queued", "waiting", "recording", "acting",
           "watching", "reading", "surveyQueued", "surveying", "returned"}

TypeOK ==
    /\ call \in [Calls -> [at : Places, op : {"none", "observe", "execute"},
                            res : Resources \cup {"none"}, epoch : Nat, seen : Nat,
                            session : Calls \cup {NoSession}, sends : 0..2,
                            hand : {"none", "sent", "landed"}]]
    /\ lane \in [Resources -> Seq(Calls)] /\ hands \in Seq(Calls)
    /\ epoch \in [Resources -> Nat] /\ desk \in [Resources -> Nat]
    /\ states \subseteq [res : Resources, epoch : Nat, seen : Nat]
    /\ stopped \subseteq Calls
    /\ quarantines \subseteq {"helper", "dispose"} \X Calls
    /\ active \subseteq Calls /\ granted \subseteq active \ aborted
    /\ aborted \subseteq Calls /\ closing \subseteq aborted
    /\ disabling \subseteq closing
    /\ enabled \in BOOLEAN /\ desired \in BOOLEAN /\ generation \in Nat
    /\ toggle \in [Toggles -> [at : {"idle", "waiting", "returned"}, on : BOOLEAN,
                               generation : Nat]]
    /\ service \in {"open", "closing", "draining", "closed"} /\ closes \in BOOLEAN

\* There is never more than one process that may still change the desktop, the
\* ones left behind by failures included, whatever resources they are about
\* (withGlobalPhysicalInput; the quarantine is set before the lane is free).
NoTwoHands == Cardinality({c \in Calls : call[c].hand # "none"}) <= 1

\* When the service is closed no call has a helper at work or a place in a lane,
\* also one that was waiting for another's lane when the closing began.
ClosedIsQuiet ==
    service = "closed" =>
        \A c \in Calls : call[c].at \in {"idle", "identifying", "asked", "returned"}

\* One pair of hands, which is at rest when the service is closed.
OnePairOfHands == TypeOK /\ NoTwoHands /\ ClosedIsQuiet

\* An action is sent to a resource that is as its caller has seen it: between
\* the observation it is based on and its dispatch nothing has changed it, not
\* even a process that was left behind.
ActsOnWhatWasSeen ==
    [][\A c \in Calls : call[c].at = "recording" /\ call'[c].at = "acting"
                          => desk[call[c].res] = call[c].seen]_vars

\* Nothing is sent for a call, a first or a second time, once its caller has
\* aborted it, its session is closed, computer use is switched off, the back end
\* is quarantined or the service is being closed; the last moments at which
\* the code looks are before and after it waits for the ledger.
NothingSentAfterTheStop ==
    [][\A c \in Calls : call'[c].sends > call[c].sends
                          => /\ ~SignalAborted(c) /\ enabled /\ Available
                             /\ service = "open"]_vars

\* Computer use is on only as the last call of setEnabled has asked for, whatever
\* calls are still waiting, and it is only switched on again when no session from
\* before is left, also if disposing of them failed the first time.
SwitchedAsLastAsked ==
    /\ [](enabled => desired)
    /\ [][~enabled /\ enabled' => active' = {}]_vars

\* Every call comes to an end, also one that waits behind a call that was aborted
\* while it was queued, or whose back end is quarantined before its turn; so does
\* every call of setEnabled and the closing of the service, whichever of the
\* sessions in the way can be disposed of.
CallsReturn ==
    /\ \A c \in Calls : call[c].at # "idle" ~> call[c].at = "returned"
    /\ \A t \in Toggles : toggle[t].at = "waiting" ~> toggle[t].at = "returned"
    /\ service # "open" ~> service = "closed"
=============================================================================
