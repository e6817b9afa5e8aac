------------------------------ MODULE PaneLife ------------------------------
(***************************************************************************)
(* The panes of one agent.  An agent keeps its name; the pane object under *)
(* the name is replaced by every resume, restart and start, and whoever    *)
(* holds the old pointer must not strand mail on it.  The goroutines are   *)
(*   - a sender per message (ipc.go, pane.go), the drain of each pane;     *)
(*   - the wake of the name (resource.go): triggers that wait for the      *)
(*     per-name resume lock, and the one that holds it;                    *)
(*   - one restart, start or add at a time, beside stop, remove and        *)
(*     suspend (ipc_lifecycle.go, manual_suspend.go).                      *)
(* Each action is one section of the main goroutine, of p.mu or of sendMu. *)
(* Dialogs, do-not-disturb, stuck input and the cap are in HeldMail: a     *)
(* message is typed unless the pane is going or gone.                      *)
(***************************************************************************)
EXTENDS Queue, FiniteSets

CONSTANTS
    Msg,        \* one message each, sent once
    Obj,        \* pane objects that can be made: the bound of the model
    NoObj,      \* no pane
    MaxWakes,   \* bound on the triggers of one pane object waiting at once
    Ops,        \* what the operator does in this instance
    MaxActs,    \* bound on how often the operator or a child's exit intervenes
    Troubles    \* what may go wrong in this instance

ASSUME NameAssumption == /\ NoObj \notin Obj /\ Obj # {}
                         /\ Msg \cap Obj = {} /\ NoObj \notin Msg
                         /\ {"wake", "cmd", "park"} \cap (Msg \cup Obj) = {}
ASSUME BoundsAssumption == MaxWakes \in Nat \ {0} /\ MaxActs \in Nat

Actor  == Msg \cup Obj \cup {"wake", "cmd", "park"}
MayBe  == Obj \cup {NoObj}

VARIABLES
    current,   \* the pane t.panes has under the name
    life,      \* life[o]: Pane.alive and Pane.suspended
    term,      \* term[o]: the PTY: open, closing, being torn down, gone
    queue,     \* queue[o]: Pane.messageQueue
    inHand,    \* inHand[o]: heldInHand, which the held file lists
    atCeiling, \* atCeiling[o]: Pane.ceilingHeld
    fate,      \* fate[m]: what has become of m (history)
    pc, ptr,   \* where each goroutine is; the pane it holds a pointer to
    new,       \* the successor the wake or the command has made or found
    hand,      \* messages in its local variables
    wakes,     \* wakes[o]: triggers holding o that wait for the resume lock
    cut,       \* history: see NothingStranded
    acts       \* how often the operator or a child's exit has intervened

panes == <<current, life, term, atCeiling>>
mail  == <<queue, inHand, fate>>
procs == <<pc, ptr, new, hand>>
vars  == <<current, life, term, queue, inHand, atCeiling, fate,
           pc, ptr, new, hand, wakes, cut, acts>>

Lives    == {"unmade", "live", "dead", "parked"}
Terms    == {"open", "closing", "tearing", "gone"}
Fates    == {"new", "held", "typed", "unsure", "refused", "surfaced", "lost"}
Terminal == Fates \ {"new", "held"}
SendPcs  == {"check", "enqueue", "type"}
WakePcs  == {"resolve", "stale", "judge", "spawn", "swap", "list", "init"}
CmdPcs   == {"take", "respawn", "reswap", "startSwap"}
Pcs      == {"idle", "done", "pop", "park"} \cup SendPcs \cup WakePcs \cup CmdPcs

Init ==
    \E o \in Obj :
        /\ current = o
        /\ life = [p \in Obj |-> IF p = o THEN "live" ELSE "unmade"]
        /\ term = [p \in Obj |-> IF p = o THEN "open" ELSE "gone"]
        /\ queue = [p \in Obj |-> <<>>] /\ inHand = [p \in Obj |-> <<>>]
        /\ atCeiling = [p \in Obj |-> FALSE]
        /\ fate = [m \in Msg |-> "new"]
        /\ pc = [a \in Actor |-> "idle"] /\ ptr = [a \in Actor |-> NoObj]
        /\ new = [a \in Actor |-> NoObj]
        /\ hand = [a \in Actor |-> IF a \in Msg THEN <<a>> ELSE <<>>]
        /\ wakes = [p \in Obj |-> 0] /\ cut = FALSE /\ acts = 0

Unmade == {o \in Obj : life[o] = "unmade"}

\* Somebody from outside intervenes; the model bounds how often.
Intervenes == acts < MaxActs /\ acts' = acts + 1

\* The main goroutine is in no section of the model that another of its sections
\* could fall into: a swap is two, with a write of the held file in each.
MainFree == pc["wake"] # "list"

-----------------------------------------------------------------------------
(* The send path: a sender, a drain, the hand-over of a stale wake, and the *)
(* delivery loop of a wake, which starts at "type" (injectText).            *)

\* What an actor is sending.
Carried(a) == Head(hand[a])

\* A goroutine goes on to p; or ends, and its locals with it.
Goes(a, p) == pc' = [pc EXCEPT ![a] = p]
EndsIn(a, p) == /\ pc' = [pc EXCEPT ![a] = p]
                /\ ptr' = [ptr EXCEPT ![a] = NoObj]
                /\ new' = [new EXCEPT ![a] = NoObj]
Ends(a) == EndsIn(a, "idle")

\* ... after a message: a wake goes on to the next it has in hand.
Sent(a) ==
    /\ hand' = [hand EXCEPT ![a] = IF a \in Msg THEN <<a>> ELSE Tail(@)]
    /\ IF a = "wake" /\ Len(hand[a]) > 1
         THEN Goes(a, IF new[a] = NoObj THEN "type" ELSE "check") /\ UNCHANGED <<ptr, new>>
         ELSE EndsIn(a, IF a \in Msg THEN "done" ELSE "idle")

\* wireSuspendResume's callback, and the wake handleIPCSend asks for.
Trigger(o) == wakes' = [wakes EXCEPT ![o] = IF @ < MaxWakes THEN @ + 1 ELSE @]

\* handleIPCSend, on the main goroutine: refused for a process that is gone,
\* queued with a wake for a suspended agent, else sent by this pointer.
Send(m) ==
    /\ pc[m] = "idle" /\ MainFree
    /\ IF current = NoObj \/ (current # NoObj /\ life[current] = "dead")
         THEN /\ fate' = [fate EXCEPT ![m] = "refused"]
              /\ Goes(m, "done")
              /\ UNCHANGED <<ptr, queue, wakes>>
         ELSE IF life[current] = "parked"
         THEN /\ queue' = [queue EXCEPT ![current] = Append(@, m)]
              /\ fate' = [fate EXCEPT ![m] = "held"]
              /\ Goes(m, "done")
              /\ Trigger(current)
              /\ UNCHANGED ptr
         ELSE /\ Goes(m, "check")
              /\ ptr' = [ptr EXCEPT ![m] = current]
              /\ UNCHANGED <<fate, queue, wakes>>
    /\ UNCHANGED <<panes, inHand, new, hand, cut, acts>>

\* queueIfSuspended reads the flag and lets p.mu go (the code reads it again
\* after its waits: the last reading is the one that counts).
Check(a) ==
    /\ pc[a] = "check"
    /\ pc' = [pc EXCEPT ![a] = IF life[ptr[a]] = "parked" THEN "enqueue" ELSE "type"]
    /\ UNCHANGED <<panes, mail, ptr, new, hand, wakes, cut, acts>>

\* ... then appends to the queue and triggers a wake with the same pointer.
Enqueue(a) ==
    /\ pc[a] = "enqueue"
    /\ queue' = [queue EXCEPT ![ptr[a]] = Append(@, Carried(a))]
    /\ fate' = [fate EXCEPT ![Carried(a)] = "held"]
    /\ Trigger(ptr[a])
    /\ Sent(a)
    /\ UNCHANGED <<panes, inHand, cut, acts>>

\* A message held inside the send: the drain's goes back to the front.
HoldInSend(a) ==
    LET o == ptr[a] IN
    /\ queue' = [queue EXCEPT ![o] = IF a \in Obj THEN <<Carried(a)>> \o @
                                                  ELSE Append(@, Carried(a))]
    /\ fate' = [fate EXCEPT ![Carried(a)] = "held"]

\* typingNext and typedOne: the message leaves what the held file lists in hand.
\* (A pane with nothing in hand is left alone.)
TypedFromHand(a) ==
    inHand' = IF a = "wake" /\ new[a] = NoObj
                THEN [inHand EXCEPT ![ptr[a]] = IF @ = <<>> THEN @ ELSE Tail(@)]
                ELSE inHand

\* sendPaneTextLocked under sendMu.  A pane that has gone drops the text: its
\* sender is told so, a loop's message is lost.  A pane going away may not have
\* taken it (held), may have taken a part (unsure), or all of it.
Type(a) ==
    LET o == ptr[a] IN
    /\ pc[a] = "type"
    /\ \/ /\ term[o] = "gone"
          /\ fate' = [fate EXCEPT ![Carried(a)] = IF a \in Msg THEN "refused" ELSE "lost"]
          /\ UNCHANGED queue
       \/ /\ term[o] # "gone"
          /\ fate' = [fate EXCEPT ![Carried(a)] = "typed"]
          /\ UNCHANGED queue
       \/ /\ term[o] \in {"closing", "tearing"} \/ (term[o] = "open" /\ life[o] # "live")
          /\ \/ fate' = [fate EXCEPT ![Carried(a)] = "unsure"] /\ UNCHANGED queue
             \/ HoldInSend(a)
    /\ TypedFromHand(a)
    /\ Sent(a)
    /\ UNCHANGED <<panes, wakes, cut, acts>>

\* The tick and readLoop start a drain on a live pane of the list; it pops one
\* message in a section after the check.
DrainStart(o) ==
    /\ pc[o] = "idle" /\ current = o
    /\ life[o] = "live" /\ queue[o] # <<>>
    /\ Goes(o, "pop")
    /\ UNCHANGED <<panes, mail, ptr, new, hand, wakes, cut, acts>>

DrainPop(o) ==
    /\ pc[o] = "pop"
    /\ IF queue[o] = <<>>
         THEN Ends(o) /\ UNCHANGED <<queue, hand>>
         ELSE /\ Goes(o, "check")
              /\ UNCHANGED new
              /\ ptr' = [ptr EXCEPT ![o] = o]
              /\ hand' = [hand EXCEPT ![o] = <<Head(queue[o])>>]
              /\ queue' = [queue EXCEPT ![o] = Tail(@)]
    /\ UNCHANGED <<panes, inHand, fate, wakes, cut, acts>>

\* resolveHeldMail and surfaceHeldMail: a dead pane's mail is reported, a
\* suspended one's is resume mail.
TickReports ==
    /\ MainFree /\ current # NoObj
    /\ life[current] = "dead" /\ queue[current] # <<>>
    /\ fate' = [m \in Msg |-> IF m \in Elems(queue[current]) THEN "surfaced" ELSE fate[m]]
    /\ queue' = [queue EXCEPT ![current] = <<>>]
    /\ UNCHANGED <<panes, inHand, procs, wakes, cut, acts>>

SendStep(a)  == Check(a) \/ Enqueue(a) \/ Type(a)
DrainStep(o) == DrainStart(o) \/ DrainPop(o)

-----------------------------------------------------------------------------
(* resumePaneDrain, by the one trigger that holds the name's resume lock.   *)

\* A new process under a fresh object (spawnPane, NewPane), not in t.panes yet.
Spawned(np) ==
    /\ np \in Unmade
    /\ life' = [life EXCEPT ![np] = "live"]
    /\ term' = [term EXCEPT ![np] = "open"]

\* The successor is discarded (np.Close).
Discard(np) ==
    /\ life' = [life EXCEPT ![np] = "dead"]
    /\ term' = [term EXCEPT ![np] = "gone"]

WakeBegin(o) ==
    /\ pc["wake"] = "idle" /\ wakes[o] > 0
    /\ wakes' = [wakes EXCEPT ![o] = @ - 1]
    /\ Goes("wake", "resolve")
    /\ ptr' = [ptr EXCEPT !["wake"] = o]
    /\ UNCHANGED <<panes, mail, new, hand, cut, acts>>

\* Seeded bug (before ini-x23q): the trigger trusts the pointer it came with.
ResolveTrusting ==
    /\ pc["wake"] = "resolve"
    /\ IF current = NoObj THEN Ends("wake") ELSE Goes("wake", "judge") /\ UNCHANGED <<ptr, new>>
    /\ UNCHANGED <<panes, mail, hand, wakes, cut, acts>>

\* The pane the name has now: none, another (a winner has resumed), this one.
Resolve ==
    /\ pc["wake"] = "resolve"
    /\ \/ current = NoObj /\ Ends("wake")
       \/ current = ptr["wake"] /\ Goes("wake", "judge") /\ UNCHANGED <<ptr, new>>
       \/ /\ current \notin {NoObj, ptr["wake"]}
          /\ new' = [new EXCEPT !["wake"] = current]
          /\ Goes("wake", "stale")
          /\ UNCHANGED ptr
    /\ UNCHANGED <<panes, mail, hand, wakes, cut, acts>>

\* The loser hands the old object's mail to the pane it found, one at a time.
Stale ==
    LET o == ptr["wake"] IN
    /\ pc["wake"] = "stale"
    /\ hand' = [hand EXCEPT !["wake"] = queue[o]]
    /\ queue' = [queue EXCEPT ![o] = <<>>]
    /\ \/ queue[o] = <<>> /\ Ends("wake")
       \/ /\ queue[o] # <<>> /\ Goes("wake", "check")
          /\ ptr' = [ptr EXCEPT !["wake"] = new["wake"]]
          /\ UNCHANGED new
    /\ UNCHANGED <<panes, inHand, fate, wakes, cut, acts>>

\* The pane is suspended (one that was parked stays so until it is replaced),
\* and the machine ceiling refuses the wake or lets it (admitAgent).
Judge ==
    LET o == ptr["wake"] IN
    /\ pc["wake"] = "judge" /\ life[o] = "parked"
    /\ \/ /\ "ceiling" \in Troubles
          /\ atCeiling' = [atCeiling EXCEPT ![o] = @ \/ queue[o] # <<>>]
          /\ Ends("wake")
       \/ /\ atCeiling' = [atCeiling EXCEPT ![o] = FALSE]
          /\ Goes("wake", "spawn") /\ UNCHANGED <<ptr, new>>
    /\ UNCHANGED <<current, life, term, mail, hand, wakes, cut, acts>>

\* awaitTeardown, which can time out ("slow"), and the spawn, which can fail.
Spawn ==
    LET o == ptr["wake"] IN
    /\ pc["wake"] = "spawn"
    /\ term[o] # "tearing" \/ "slow" \in Troubles
    /\ \/ /\ "spawn" \in Troubles
          /\ Ends("wake")
          /\ UNCHANGED <<life, term, cut>>
       \/ \E np \in Obj :
          /\ Spawned(np)
          /\ new' = [new EXCEPT !["wake"] = np]
          /\ Goes("wake", "swap")
          /\ cut' = (cut \/ term[o] = "tearing")
          /\ UNCHANGED ptr
    /\ UNCHANGED <<current, atCeiling, mail, hand, wakes, acts>>

\* Seeded bug: a wake that lost the race leaves its new process running.
SwapLeaks ==
    LET o == ptr["wake"] IN
    /\ pc["wake"] = "swap" /\ current # o
    /\ Ends("wake")
    /\ UNCHANGED <<panes, mail, hand, wakes, cut, acts>>

\* Main goroutine: the successor takes the name and DrainQueue empties the old
\* pane's queue, whose hook writes the held file without it; or the pane was removed
\* meanwhile, and the successor is closed.
Swap ==
    LET o == ptr["wake"]  np == new["wake"] IN
    /\ pc["wake"] = "swap"
    /\ \/ /\ current = o
          /\ current' = np
          /\ hand' = [hand EXCEPT !["wake"] = queue[o]]
          /\ queue' = [queue EXCEPT ![o] = <<>>]
          /\ ptr' = [ptr EXCEPT !["wake"] = np]
          /\ new' = [new EXCEPT !["wake"] = NoObj]
          /\ Goes("wake", "list")
          /\ UNCHANGED <<life, term>>
       \/ /\ current # o
          /\ Discard(np)
          /\ Ends("wake")
          /\ UNCHANGED <<current, hand, queue>>
    /\ UNCHANGED <<atCeiling, inHand, fate, wakes, cut, acts>>

\* Seeded bug (before ini-8rkg): the mail is in the loop's variable alone.
TypeInHandSkipped ==
    /\ pc["wake"] = "list"
    /\ Goes("wake", "init")
    /\ UNCHANGED <<panes, mail, ptr, new, hand, wakes, cut, acts>>

\* typeInHand, still on the main goroutine: the successor has the mail in hand, and
\* its hook writes the file with it.
TypeInHand ==
    /\ pc["wake"] = "list"
    /\ inHand' = [inHand EXCEPT ![ptr["wake"]] = hand["wake"]]
    /\ Goes("wake", "init")
    /\ UNCHANGED <<panes, queue, fate, ptr, new, hand, wakes, cut, acts>>

\* waitForInit is over.  A successor whose child died takes the mail on its
\* queue (and keeps it in hand) and is parked; else the delivery loop starts.
WakeInit ==
    LET np == ptr["wake"] IN
    /\ pc["wake"] = "init"
    /\ \/ /\ life[np] # "live"
          /\ queue' = [queue EXCEPT ![np] = @ \o hand["wake"]]
          /\ hand' = [hand EXCEPT !["wake"] = <<>>]
          /\ life' = [life EXCEPT ![np] = "parked"]
          /\ Ends("wake")
          /\ cut' = TRUE
       \/ /\ life[np] = "live" /\ hand["wake"] = <<>>
          /\ Ends("wake")
          /\ UNCHANGED <<queue, hand, life, cut>>
       \/ /\ life[np] = "live" /\ hand["wake"] # <<>>
          /\ Goes("wake", "type")
          /\ UNCHANGED <<queue, hand, life, cut, ptr, new>>
    /\ UNCHANGED <<current, term, atCeiling, inHand, fate, wakes, acts>>

Wake == (\E o \in Obj : WakeBegin(o)) \/ Resolve \/ Stale \/ Judge \/ Spawn \/ Swap \/ TypeInHand
        \/ WakeInit

-----------------------------------------------------------------------------
(* What the operator does.  restartOffMain and handleIPCStart resolve the   *)
(* pane first and come back to main for the swap; one of them runs at a     *)
(* time here, beside the wake, stop, remove and suspend.                    *)

\* The command found a pane and the ceiling lets it (a refusal changes nothing).
RestartMark ==
    /\ "restart" \in Ops /\ pc["cmd"] = "idle" /\ current # NoObj /\ MainFree
    /\ term' = [term EXCEPT ![current] = IF @ = "open" THEN "closing" ELSE @]
    /\ atCeiling' = [atCeiling EXCEPT ![current] = FALSE]
    /\ ptr' = [ptr EXCEPT !["cmd"] = current]
    /\ Goes("cmd", "take")
    /\ cut' = TRUE
    /\ Intervenes
    /\ UNCHANGED <<current, life, mail, new, hand, wakes>>

\* Seeded bug: the queue is copied, and stays on the old pane too.
RestartCopies ==
    LET o == ptr["cmd"] IN
    /\ pc["cmd"] = "take"
    /\ hand' = [hand EXCEPT !["cmd"] = queue[o]]
    /\ life' = [life EXCEPT ![o] = IF @ = "parked" THEN @ ELSE "dead"]
    /\ term' = [term EXCEPT ![o] = "gone"]
    /\ Goes("cmd", "respawn")
    /\ UNCHANGED <<current, atCeiling, queue, inHand, fate, ptr, new, wakes, cut, acts>>

\* Under sendMu: the queue is in a local variable from here, and in no pane.
RestartTake ==
    LET o == ptr["cmd"] IN
    /\ pc["cmd"] = "take"
    /\ hand' = [hand EXCEPT !["cmd"] = queue[o]]
    /\ queue' = [queue EXCEPT ![o] = <<>>]
    /\ life' = [life EXCEPT ![o] = IF @ = "parked" THEN @ ELSE "dead"]
    /\ term' = [term EXCEPT ![o] = "gone"]
    /\ Goes("cmd", "respawn")
    /\ UNCHANGED <<current, atCeiling, inHand, fate, ptr, new, wakes, cut, acts>>

\* restoreQueueAfterFailedRestart, or giveQueueToRestartedPane.
RestartSpawn ==
    LET o == ptr["cmd"] IN
    /\ pc["cmd"] = "respawn"
    /\ \/ /\ "spawn" \in Troubles
          /\ queue' = [queue EXCEPT ![o] = hand["cmd"] \o @]
          /\ Ends("cmd")
          /\ UNCHANGED <<life, term>>
       \/ \E np \in Obj :
          /\ Spawned(np)
          /\ queue' = [queue EXCEPT ![np] = hand["cmd"]]
          /\ new' = [new EXCEPT !["cmd"] = np]
          /\ Goes("cmd", "reswap")
          /\ UNCHANGED ptr
    /\ hand' = [hand EXCEPT !["cmd"] = <<>>]
    /\ UNCHANGED <<current, atCeiling, inHand, fate, wakes, cut, acts>>

\* Seeded bug: the new pane that did not go in is closed with its mail.
RestartSwapForgets ==
    LET o == ptr["cmd"]  np == new["cmd"] IN
    /\ pc["cmd"] = "reswap" /\ MainFree
    /\ \/ current = o /\ current' = np /\ UNCHANGED <<life, term, queue>>
       \/ /\ current # o /\ Discard(np)
          /\ queue' = [queue EXCEPT ![np] = <<>>]
          /\ UNCHANGED current
    /\ Ends("cmd")
    /\ UNCHANGED <<atCeiling, inHand, fate, hand, wakes, cut, acts>>

\* Main goroutine; when the list has changed the mail goes back to the old pane.
RestartSwap ==
    LET o == ptr["cmd"]  np == new["cmd"] IN
    /\ pc["cmd"] = "reswap" /\ MainFree
    /\ \/ current = o /\ current' = np /\ UNCHANGED <<life, term, queue>>
       \/ /\ current # o /\ Discard(np)
          /\ queue' = [queue EXCEPT ![o] = queue[np] \o @, ![np] = <<>>]
          /\ UNCHANGED current
    /\ Ends("cmd")
    /\ UNCHANGED <<atCeiling, inHand, fate, hand, wakes, cut, acts>>

\* handleIPCStart: a dead pane that is not suspended; its queue is not carried.
Start ==
    /\ "start" \in Ops /\ pc["cmd"] = "idle" /\ current # NoObj /\ MainFree
    /\ life[current] = "dead"
    /\ \E np \in Obj : Spawned(np) /\ new' = [new EXCEPT !["cmd"] = np]
    /\ atCeiling' = [atCeiling EXCEPT ![current] = FALSE]
    /\ ptr' = [ptr EXCEPT !["cmd"] = current]
    /\ Goes("cmd", "startSwap")
    /\ cut' = TRUE
    /\ UNCHANGED <<current, mail, hand, wakes, acts>>

StartSwap ==
    LET o == ptr["cmd"]  np == new["cmd"] IN
    /\ pc["cmd"] = "startSwap" /\ MainFree
    /\ \/ current = o /\ current' = np /\ UNCHANGED <<life, term>>
       \/ current # o /\ Discard(np) /\ UNCHANGED current
    /\ Ends("cmd")
    /\ UNCHANGED <<atCeiling, mail, hand, wakes, cut, acts>>

\* handleIPCStop, under sendMu.
Stop ==
    /\ "stop" \in Ops /\ current # NoObj
    /\ life[current] = "live"
    /\ life' = [life EXCEPT ![current] = "dead"]
    /\ term' = [term EXCEPT ![current] = "gone"]
    /\ Intervenes
    /\ UNCHANGED <<current, atCeiling, mail, procs, wakes, cut>>

\* closeOffMain: reads closed at once, torn down by a goroutine of its own.
CloseOffMain(o) == term' = [term EXCEPT ![o] = IF @ = "gone" THEN @ ELSE "tearing"]

Teardown(o) ==
    /\ term[o] = "tearing"
    /\ term' = [term EXCEPT ![o] = "gone"]
    /\ UNCHANGED <<current, life, atCeiling, mail, procs, wakes, cut, acts>>

\* removePane, on the main goroutine: the mail is reported first.
Remove ==
    /\ "remove" \in Ops /\ current # NoObj /\ MainFree
    /\ fate' = [m \in Msg |-> IF m \in Elems(queue[current]) THEN "surfaced" ELSE fate[m]]
    /\ queue' = [queue EXCEPT ![current] = <<>>]
    /\ life' = [life EXCEPT ![current] = IF @ = "live" THEN "dead" ELSE @]
    /\ CloseOffMain(current)
    /\ current' = NoObj
    /\ cut' = TRUE
    /\ Intervenes
    /\ UNCHANGED <<atCeiling, inHand, procs, wakes>>

\* addPane: nothing else puts a pane under a name that has none.
Add ==
    /\ "add" \in Ops /\ current = NoObj /\ MainFree
    /\ \E np \in Obj : Spawned(np) /\ current' = np
    /\ UNCHANGED <<atCeiling, mail, procs, wakes, cut, acts>>

\* suspendAgent and the pressure loop choose a live pane, and park it on the
\* main goroutine later, whatever has become of it.
ParkPick ==
    /\ "park" \in Ops /\ pc["park"] = "idle" /\ current # NoObj /\ MainFree
    /\ life[current] = "live"
    /\ ptr' = [ptr EXCEPT !["park"] = current]
    /\ Goes("park", "park")
    /\ Intervenes
    /\ UNCHANGED <<panes, mail, new, hand, wakes, cut>>

Park ==
    LET o == ptr["park"] IN
    /\ pc["park"] = "park" /\ MainFree
    /\ life' = [life EXCEPT ![o] = "parked"]
    /\ CloseOffMain(o)
    /\ Ends("park")
    /\ UNCHANGED <<current, atCeiling, mail, hand, wakes, cut, acts>>

\* A child that exits by itself: the pane reads dead, its terminal stays.
ChildExit(o) ==
    /\ "exit" \in Troubles /\ life[o] = "live"
    /\ life' = [life EXCEPT ![o] = "dead"]
    /\ Intervenes
    /\ UNCHANGED <<current, term, atCeiling, mail, procs, wakes, cut>>

\* The operator's resume, and wakeCeilingHeld: a trigger for a suspended pane.
Rewake ==
    /\ current # NoObj /\ MainFree
    /\ life[current] = "parked" /\ wakes[current] = 0
    /\ "resume" \in Ops \/ (atCeiling[current] /\ queue[current] # <<>>)
    /\ Trigger(current)
    /\ UNCHANGED <<panes, mail, procs, cut, acts>>

Operate == \/ RestartMark \/ RestartTake \/ RestartSpawn \/ RestartSwap
           \/ Start \/ StartSwap \/ Stop \/ Remove \/ Add \/ ParkPick \/ Park \/ Rewake

Next == \/ \E m \in Msg : Send(m) \/ SendStep(m)
        \/ \E o \in Obj : DrainStep(o) \/ SendStep(o) \/ Teardown(o) \/ ChildExit(o)
        \/ SendStep("wake") \/ TickReports \/ Wake \/ Operate

Spec == Init /\ [][Next]_vars

-----------------------------------------------------------------------------
Loops == Actor \ Msg

\* Where a message told "held" is: on queues and in the hands of loops.
Places(m) == {o \in Obj : m \in Elems(queue[o])} \cup
             {<<a>> : a \in {b \in Loops : m \in Elems(hand[b])}}

\* What the held file lists: every pane object's hand and queue (heldWriter).
Listed == UNION {Elems(queue[o]) \cup Elems(inHand[o]) : o \in Obj}

\* The type invariant of the state above.
TypeOK ==
    /\ current \in MayBe /\ cut \in BOOLEAN
    /\ life \in [Obj -> Lives] /\ term \in [Obj -> Terms]
    /\ queue \in [Obj -> Seq(Msg)] /\ inHand \in [Obj -> Seq(Msg)]
    /\ atCeiling \in [Obj -> BOOLEAN] /\ fate \in [Msg -> Fates]
    /\ pc \in [Actor -> Pcs] /\ ptr \in [Actor -> MayBe]
    /\ new \in [Actor -> MayBe]
    /\ hand \in [Actor -> Seq(Msg)]
    /\ wakes \in [Obj -> 0 .. MaxWakes] /\ acts \in 0 .. MaxActs

\* Whatever replaces a pane, a message told "held" is in exactly one queue or
\* hand, once, and one with a verdict is in none: a carry moves and a failed
\* restart puts back (queue_carry.go, resource.go).
MailInOnePlace ==
    /\ \A m \in Msg : Cardinality(Places(m)) = IF fate[m] = "held" THEN 1 ELSE 0
    /\ \A o \in Obj : NoDup(queue[o])

\* A held message is in the held file, or a crash now costs it, and these are all
\* the places where one does: the one message a drain is about to send, what a
\* restart has taken into its variable, what a stale wake is handing over, and a
\* wake's mail between its swap's two sections, DrainQueue and typeInHand.  From
\* then on the file keeps it until it is typed, although it is on no queue
\* (resource.go, "the held file keeps them"; held_store.go, typeInHand).
WakeKeepsFile ==
    \A m \in Msg : fate[m] = "held" =>
        \/ m \in Listed
        \/ \E a \in Obj \cup {"cmd"} : m \in Elems(hand[a])
        \/ m \in Elems(hand["wake"]) /\ (new["wake"] # NoObj \/ pc["wake"] = "list")

\* Nobody strands mail on a replaced object: what is queued on one has a
\* trigger on its way to hand it over (resource.go, ini-x23q).  Not so once a
\* restart, a start or a removal has cut in, a resume did not wait for the
\* teardown, or its child died before the delivery (cut).
NothingStranded ==
    cut \/ \A o \in Obj \ {current} :
              queue[o] # <<>> => \/ wakes[o] > 0
                                 \/ ptr["wake"] = o /\ pc["wake"] \in {"resolve", "stale"}

\* At most the pane under the name has a running child, beside one being swapped
\* in and one the restart is about to take: no process is left behind by the
\* loser of a race (resource.go, ipc_lifecycle.go).
NoChildLeaked ==
    \A o \in Obj : life[o] = "live" =>
        \/ o = current
        \/ o = new["wake"] /\ pc["wake"] = "swap"
        \/ o = new["cmd"] /\ pc["cmd"] \in {"reswap", "startSwap"}

\* A message's verdict is final: what was typed, refused, reported or lost is
\* never sent, held or reported again by another pane of the name.
FateFinal == [][\A m \in Msg : fate[m] \in Terminal => fate'[m] = fate[m]]_vars

\* A message leaves the held file once typed, reported or told: the file lists
\* only held mail, or a restart would type it again (pane.go, heldInHand).
FileListsHeld == \A m \in Msg : m \in Listed => fate[m] \notin Terminal
=============================================================================
