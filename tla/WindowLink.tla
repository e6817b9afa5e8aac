----------------------------- MODULE WindowLink -----------------------------
(***************************************************************************)
(* Window 1 and a second window over one connection: who renders which     *)
(* agent (internal/tui/partition_authority.go), and which agents the       *)
(* second window has a pane and a stream for (daemon.go, remote_conn.go,   *)
(* reconnect.go, control_mux.go, stream_binder.go).                        *)
(*                                                                         *)
(* Window 1 decides the partition on its main goroutine and serves it in   *)
(* the handshake and after every change.  The control stream delivers in   *)
(* order, and so does the stream of accepts, but not one against the       *)
(* other; and past the viewer's reader a stream_added waits in a queue of  *)
(* its own, everything else in a buffer that drops its oldest.             *)
(***************************************************************************)
EXTENDS Queue, FiniteSets

CONSTANTS
    Agent,      \* the agents of window 1; each is a group of its own
    AtStart,    \* those that run at the start, in the order of the list
    AwayAtStart, \* those assigned to the second window at the start
    EventCap,   \* the viewer's event buffer (32 in the code)
    Ticks,      \* window 1's layout mode plans again every second (live)
    MaxChanges  \* how often the operator changes something or the viewer connects,
                \* in this instance

ASSUME LinkAssumption ==
    /\ EventCap \in Nat \ {0} /\ Ticks \in BOOLEAN
    /\ MaxChanges \in Nat
    /\ AtStart \in Seq(Agent) /\ NoDup(AtStart) /\ AwayAtStart \subseteq Agent

One == "window-1"
Two == "window-2"
Window == {One, Two}

VARIABLES
    served,    \* d.panes, and t.panes: the same list, changed in one step
    assigned,  \* WindowAssignment: the window of each agent's group
    snap,      \* ownershipSnap: what a handshake decides from
    mine,      \* paneOwnership of window 1
    servedTo,  \* lastServedTo: the second window was attached
    main,      \* where the main goroutine is
    attached,  \* onWindowAttached has been called and waits for the main goroutine
    jobs,      \* per agent, announcements not yet made (targetSerializer)
    ann,       \* an announcement between its stream and its message, under clientCtrlMu
    srv,       \* where handleConnection is, for the newest connection
    peer,      \* d.clients[window-2]: nobody, this connection, or an older one
    hs,        \* the handshake's local variables: the panes, the owner map
    wire,      \* the newest connection's control stream, from window 1
    opened,    \* its streams: opened[id] is the agent of stream id
    cli,       \* where the viewer's managePeer is
    pre,       \* the owner map of the handshake so far
    owner,     \* paneOwnership of the viewer
    map,       \* the ids of the stream map
    events,    \* ControlMux.events
    anns,      \* ControlMux.anns, a queue without a bound that is taken whole
    taken,     \* streams accepted so far
    waiting,   \* streamBinder.streams: accepted and not announced
    expected,  \* streamBinder.anns: announced and not accepted
    panes,     \* the viewer's panes of window 1
    faults,    \* what has gone wrong on this connection (history)
    changes    \* so far

decide  == <<assigned, snap, mine, servedTo>>
sends   == <<jobs, ann>>
server  == <<srv, peer, hs>>
link    == <<wire, opened>>
mux     == <<events, anns>>
binder  == <<taken, waiting, expected>>
viewer  == <<cli, pre, owner, map, mux, binder, panes>>
window1 == <<served, decide, main, attached, sends>>
vars    == <<window1, server, link, viewer, faults, changes>>

Connected == peer # "nobody"
Pane(id, name) == [id |-> id, name |-> name]
NoPane      == Pane(0, "none")
NoHandshake == [panes |-> <<>>, owner |-> <<>>, ids |-> {}]

\* Seeded bug: no fold-back.
OwnerInAssigned(in, a, connected) == in.assigned[a]

\* ownerIn: an agent whose window is absent is covered by window 1.
OwnerIn(in, a, connected) ==
    IF in.assigned[a] = Two /\ ~connected THEN One ELSE in.assigned[a]

OwnershipFor(in, connected) == [a \in in.agents |-> OwnerIn(in, a, connected)]

Inputs == [agents |-> Elems(served), assigned |-> assigned]

Init ==
    /\ served = AtStart
    /\ assigned = [a \in Agent |-> IF a \in AwayAtStart THEN Two ELSE One]
    /\ snap = Inputs /\ mine = OwnershipFor(Inputs, FALSE) /\ servedTo = FALSE
    /\ main = "idle" /\ attached = FALSE
    /\ jobs = [a \in Agent |-> <<>>] /\ ann = NoPane
    /\ srv = "none" /\ peer = "nobody" /\ hs = NoHandshake
    /\ wire = <<>> /\ opened = <<>>
    /\ cli = "off" /\ pre = <<>> /\ owner = <<>> /\ map = {}
    /\ events = <<>> /\ anns = {}
    /\ taken = 0 /\ waiting = {} /\ expected = {} /\ panes = {}
    /\ faults = {} /\ changes = 0

\* The session of the newest connection is up.
Up == cli # "off"

\* A frame to the newest connection; on one that is down the write fails.
Write(frames) == wire' = IF Up THEN wire \o frames ELSE wire

Ownership(m) == [kind |-> "ownership", owner |-> m]

-----------------------------------------------------------------------------
(* Window 1's main goroutine. *)

\* A step of the operator's; it ends in applyLayout.
Operation ==
    /\ main = "idle" /\ changes < MaxChanges /\ changes' = changes + 1
    /\ UNCHANGED <<mine, servedTo, attached, ann, server, link, viewer>>

MoveGroup(a) ==
    /\ Operation /\ main' = "decide"
    /\ assigned' = [assigned EXCEPT ![a] = IF @ = One THEN Two ELSE One]
    /\ UNCHANGED <<served, jobs, faults>>
    /\ snap' = Inputs'

\* appendPane, AddLocalPane: served first; the windows to tell are read after.
AddAgent(a) ==
    /\ Operation /\ main' = "announce"
    /\ a \notin Elems(served)
    /\ served' = Append(served, a)
    /\ UNCHANGED <<assigned, snap, jobs, faults>>

Announce ==
    /\ main = "announce" /\ main' = "publish"
    /\ jobs' = IF Connected THEN [jobs EXCEPT ![served[Len(served)]] = Append(@, "added")] ELSE jobs
    /\ UNCHANGED <<served, decide, attached, ann, server, link, viewer, faults, changes>>

\* removePaneAt, RemoveLocalPane.
RemoveAgent(a) ==
    /\ Operation /\ main' = "publish"
    /\ \E i \in 1 .. Len(served) :
          /\ served[i] = a
          /\ served' = SubSeq(served, 1, i - 1) \o SubSeq(served, i + 1, Len(served))
    /\ jobs' = [jobs EXCEPT ![a] = Append(@, "removed")]
    /\ UNCHANGED <<assigned, snap, faults>>

\* applyLayout for another reason: the operator's, or the live tick's.
Relayout ==
    /\ main = "idle" /\ main' = "decide"
    /\ UNCHANGED <<served, decide, attached, sends, server, link, viewer, faults, changes>>

\* The callback of an attach, once the main goroutine gets to it.
OnAttached ==
    /\ main = "idle" /\ attached
    /\ main' = "decide" /\ attached' = FALSE
    /\ UNCHANGED <<served, decide, sends, server, link, viewer, faults, changes>>

\* publishPaneOwnership: the inputs a handshake may read ...
Publish ==
    /\ main = "publish" /\ main' = "decide"
    /\ snap' = Inputs
    /\ UNCHANGED <<served, assigned, mine, servedTo, attached, sends, server, link, viewer,
                   faults, changes>>

\* ... the decision, served again when it or the attached set changed ...
Decide ==
    /\ main = "decide"
    /\ LET new == OwnershipFor(Inputs, Connected) IN
       IF new = mine /\ servedTo = Connected
         THEN main' = "idle" /\ UNCHANGED <<mine, servedTo>>
         ELSE main' = "broadcast" /\ mine' = new /\ servedTo' = Connected
    /\ UNCHANGED <<served, assigned, snap, attached, sends, server, link, viewer, faults, changes>>

\* ... and the push, to every control stream there is (ctrlConns), also one whose
\* handshake is not over.
Broadcast ==
    /\ main = "broadcast" /\ main' = "idle"
    /\ IF srv = "none" THEN UNCHANGED wire ELSE Write(<<Ownership(mine)>>)
    /\ faults' = faults \ {"lost"}
    /\ UNCHANGED <<served, decide, attached, sends, server, opened, viewer, changes>>

-----------------------------------------------------------------------------
(* Announcements: off the main goroutine, in order per agent. *)

Registered == peer = "current"
InHandshake == srv \in {"registered", "listed", "decided", "greeted", "opened"}

\* An announcement that falls into a handshake may be told twice, or not at all.
Crossing == IF InHandshake THEN faults \cup {"crossed"} ELSE faults

\* A stream_added is handled before a removal of the agent that is still unread.
Removals(frames, a) == {i \in DOMAIN frames : frames[i] = [kind |-> "removed", name |-> a]}
Overtaking(a) == IF Removals(wire, a) \cup Removals(events, a) = {} THEN {} ELSE {"overtaken"}

Job(a, what) == ann = NoPane /\ jobs[a] # <<>> /\ Head(jobs[a]) = what
Done(a)      == jobs' = [jobs EXCEPT ![a] = Tail(@)]

\* allocateStreamForPushedPane: an agent removed meanwhile, or a window gone, is
\* not announced ...
SkipAdded(a) ==
    /\ Job(a, "added") /\ Done(a)
    /\ ~Registered \/ ~Up \/ a \notin Elems(served)
    /\ UNCHANGED <<served, decide, main, attached, ann, server, link, viewer, faults, changes>>

\* ... another gets a stream, and then its message.
OpenPushed(a) ==
    /\ Job(a, "added") /\ Done(a)
    /\ Registered /\ Up /\ a \in Elems(served)
    /\ opened' = Append(opened, a)
    /\ ann' = Pane(Len(opened) + 1, a)
    /\ faults' = Crossing
    /\ UNCHANGED <<served, decide, main, attached, server, wire, viewer, changes>>

SendAdded ==
    /\ ann # NoPane /\ ann' = NoPane
    /\ Write(<<[kind |-> "added", pane |-> ann]>>)
    /\ faults' = Crossing \cup Overtaking(ann.name)
    /\ UNCHANGED <<served, decide, main, attached, jobs, server, opened, viewer, changes>>

\* broadcastAgentRemoved, to the registered windows.
SendRemoved(a) ==
    /\ Job(a, "removed") /\ Done(a)
    /\ IF Registered THEN Write(<<[kind |-> "removed", name |-> a]>>) ELSE UNCHANGED wire
    /\ faults' = Crossing
    /\ UNCHANGED <<served, decide, main, attached, ann, server, opened, viewer, changes>>

-----------------------------------------------------------------------------
(* handleConnection. *)

Handler(from, to) ==
    /\ srv = from /\ srv' = to
    /\ UNCHANGED <<window1, viewer, changes>>

\* The hello is good: an older connection of the same identity is evicted.
Register ==
    /\ Handler("ctrl", "registered")
    /\ peer' = "current"
    /\ UNCHANGED <<hs, wire, opened, faults>>

\* snapshotPanes.  An agent in it that is still to be announced is told twice.
ListPanes ==
    /\ Handler("registered", "listed")
    /\ hs' = [hs EXCEPT !.panes = served]
    /\ faults' = IF main = "announce" \/ \E a \in Agent : jobs[a] # <<>>
                   THEN faults \cup {"crossed"} ELSE faults
    /\ UNCHANGED <<peer, wire, opened>>

\* currentPaneOwnership: the newcomer counts as attached.
DecideForPeer ==
    /\ Handler("listed", "decided")
    /\ hs' = [hs EXCEPT !.owner = OwnershipFor(snap, TRUE)]
    /\ UNCHANGED <<peer, wire, opened, faults>>

SendHelloOK ==
    /\ Handler("decided", "greeted")
    /\ Write(<<[kind |-> "hello_ok", owner |-> hs.owner]>>)
    /\ hs' = [hs EXCEPT !.owner = <<>>]
    /\ UNCHANGED <<peer, opened, faults>>

OpenStreams ==
    /\ Handler("greeted", "opened") /\ Up
    /\ opened' = opened \o hs.panes
    /\ hs' = [NoHandshake EXCEPT !.ids = Len(opened) + 1 .. Len(opened')]
    /\ UNCHANGED <<peer, wire, faults>>

SendStreamMap ==
    /\ Handler("opened", "mapped")
    /\ Write(<<[kind |-> "map", ids |-> hs.ids]>>)
    /\ hs' = NoHandshake
    /\ UNCHANGED <<peer, opened, faults>>

\* replay_done is on the wire: window 1 is told that a window has attached.
Attach ==
    /\ srv = "mapped" /\ srv' = "live" /\ Up
    /\ attached' = TRUE
    /\ UNCHANGED <<served, decide, main, sends, peer, hs, link, viewer, faults, changes>>

\* The session has ended: the handler's deferred calls.
Leave ==
    /\ ~Up /\ srv # "none" /\ srv' = "none"
    /\ peer' = IF Registered THEN "nobody" ELSE peer
    /\ UNCHANGED <<window1, hs, link, viewer, faults, changes>>

\* Those of an older connection's: it has the identity only until another registers.
OldLeaves ==
    /\ peer = "old"
    /\ peer' = "nobody"
    /\ UNCHANGED <<window1, srv, hs, link, viewer, faults, changes>>

-----------------------------------------------------------------------------
(* The viewer. *)

\* connectPeer: a new connection, whose server may still have the last one.
Dial ==
    /\ cli = "off" /\ cli' = "hello"
    /\ changes < MaxChanges /\ changes' = changes + 1
    /\ srv' = "ctrl" /\ hs' = NoHandshake
    /\ peer' = IF Registered THEN "old" ELSE peer
    /\ UNCHANGED <<window1, link, pre, owner, map, mux, binder, panes, faults>>

\* The session ends, and the viewer's half of the connection goes with its panes;
\* the owner map stays.
GivesUp ==
    /\ cli' = "off" /\ pre' = <<>> /\ map' = {}
    /\ wire' = <<>> /\ opened' = <<>> /\ events' = <<>> /\ anns' = {} /\ ann' = NoPane
    /\ taken' = 0 /\ waiting' = {} /\ expected' = {} /\ panes' = {} /\ faults' = {}
    /\ UNCHANGED <<served, decide, main, attached, jobs, server, owner, changes>>

\* A network fault, a missed ping, the yamux bound.  Neither side can tell whether the
\* viewer handles what it has read before that or after; before it is.
SessionEnds == cli # "off" /\ GivesUp

Reads == wire # <<>> /\ wire' = Tail(wire)
Frame == Head(wire)

\* connectPeer takes the first frame for the answer to its hello.
ReadHelloOK ==
    /\ cli = "hello" /\ Reads /\ Frame.kind = "hello_ok"
    /\ pre' = Frame.owner /\ cli' = "map"
    /\ UNCHANGED <<window1, server, opened, owner, map, mux, binder, panes, faults, changes>>
ReadOther ==
    /\ cli = "hello" /\ wire # <<>> /\ Frame.kind # "hello_ok"
    /\ GivesUp

\* Seeded bug: every frame but the stream map is skipped.
ReadStreamMapOnly ==
    /\ cli = "map" /\ Reads
    /\ IF Frame.kind = "map"
         THEN map' = Frame.ids /\ cli' = "mux"
         ELSE UNCHANGED <<map, cli>>
    /\ UNCHANGED <<window1, server, opened, pre, owner, mux, binder, panes, faults, changes>>

\* readStreamMap: an owner map is kept, anything else before the map is skipped.
ReadStreamMap ==
    /\ cli = "map" /\ Reads
    /\ IF Frame.kind = "map"
         THEN map' = Frame.ids /\ cli' = "mux" /\ UNCHANGED pre
         ELSE /\ pre' = IF Frame.kind = "ownership" THEN Frame.owner ELSE pre
              /\ UNCHANGED <<map, cli>>
    /\ UNCHANGED <<window1, server, opened, owner, mux, binder, panes, faults, changes>>

Lost(frame) == IF frame.kind = "ownership" THEN {"lost"} ELSE {"dropped"}

\* connectPeer gives up the handshake's scanner for the mux's own, which reads the same
\* stream: the frames read along with the map, as many as came with it, go unseen ...
LeaveBuffered ==
    /\ cli = "mux" /\ Reads
    /\ faults' = faults \cup Lost(Frame)
    /\ UNCHANGED <<window1, server, opened, cli, pre, owner, map, mux, binder, panes, changes>>

\* ... and from NewControlMux on the mux reads.
StartMux ==
    /\ cli = "mux" /\ cli' = "accept"
    /\ UNCHANGED <<window1, server, link, pre, owner, map, mux, binder, panes, faults, changes>>

\* As many streams as the map has are accepted, and one that is not in it is closed;
\* then managePeer applies the owner map, and the panes.
AcceptMapped ==
    /\ cli = "accept" /\ cli' = "run"
    /\ Cardinality(map) <= Len(opened)
    /\ taken' = Cardinality(map)
    /\ owner' = pre /\ pre' = <<>> /\ map' = {}
    /\ panes' = {Pane(i, opened[i]) : i \in map \cap (1 .. taken')}
    /\ UNCHANGED <<window1, server, link, mux, waiting, expected, faults, changes>>

\* Seeded bug: a buffer that grows.
MuxReadsAll ==
    /\ cli \in {"accept", "run"} /\ Reads
    /\ IF Frame.kind = "added"
         THEN anns' = anns \cup {Frame.pane} /\ UNCHANGED events
         ELSE events' = Append(events, Frame) /\ UNCHANGED anns
    /\ UNCHANGED <<window1, server, opened, cli, pre, owner, map, binder, panes, faults, changes>>

\* ControlMux.readLoop: a buffer that is full drops its oldest, announcements have a
\* queue of their own.
MuxReads ==
    /\ cli \in {"accept", "run"} /\ Reads
    /\ IF Frame.kind = "added"
         THEN anns' = anns \cup {Frame.pane} /\ UNCHANGED <<events, faults>>
         ELSE /\ UNCHANGED anns
              /\ IF Len(events) < EventCap
                   THEN events' = Append(events, Frame) /\ UNCHANGED faults
                   ELSE /\ events' = Append(Tail(events), Frame)
                        /\ faults' = faults \cup Lost(Head(events))
    /\ UNCHANGED <<window1, server, opened, cli, pre, owner, map, binder, panes, changes>>

\* Seeded bug: a stream is bound to the oldest announcement.
OfferInOrder ==
    /\ cli = "run" /\ taken < Len(opened)
    /\ taken' = taken + 1
    /\ LET first == {x \in expected : \A y \in expected : x.id <= y.id} IN
       /\ panes' = panes \cup {Pane(taken', x.name) : x \in first}
       /\ expected' = expected \ first
       /\ waiting' = IF first = {} THEN waiting \cup {taken'} ELSE waiting
    /\ UNCHANGED <<window1, server, link, cli, pre, owner, map, mux, faults, changes>>

\* streamBinder.offerStream: bound by the id of its announcement, or it waits.
OfferStream ==
    /\ cli = "run" /\ taken < Len(opened)
    /\ taken' = taken + 1
    /\ LET known == {x \in expected : x.id = taken'} IN
       /\ panes' = panes \cup known
       /\ expected' = expected \ known
       /\ waiting' = IF known = {} THEN waiting \cup {taken'} ELSE waiting
    /\ UNCHANGED <<window1, server, link, cli, pre, owner, map, mux, faults, changes>>

\* streamBinder.announce, for every announcement in the queue.  An id is given
\* once, so the refusals of one seen before are left out.
Bound  == {x \in anns : x.id \in waiting}
Claims == /\ anns' = {}
          /\ waiting' = waiting \ {x.id : x \in Bound}
\* Seeded bug: an announcement whose stream is still to come is not kept.
TakeAnnouncementsBound ==
    /\ cli = "run" /\ anns # {} /\ Claims
    /\ panes' = panes \cup Bound
    /\ UNCHANGED <<window1, server, link, cli, pre, owner, map, events, taken, expected, faults,
                   changes>>

TakeAnnouncements ==
    /\ cli = "run" /\ anns # {} /\ Claims
    /\ panes' = panes \cup Bound
    /\ expected' = expected \cup (anns \ Bound)
    /\ UNCHANGED <<window1, server, link, cli, pre, owner, map, events, taken, faults, changes>>

TakesEvent == cli = "run" /\ events # <<>> /\ events' = Tail(events) /\ Claims

\* applyServedPaneOwnership.
TakeOwnership ==
    /\ TakesEvent /\ Head(events).kind = "ownership"
    /\ owner' = Head(events).owner
    /\ panes' = panes \cup Bound
    /\ expected' = expected \cup (anns \ Bound)
    /\ UNCHANGED <<window1, server, link, cli, pre, map, taken, faults, changes>>

\* handleAgentRemoved: announcements first; then what is expected for the agent is
\* forgotten, and the oldest pane of its name leaves.
TakeRemoved ==
    /\ TakesEvent /\ Head(events).kind = "removed"
    /\ LET a == Head(events).name
           now == panes \cup Bound
           named == {p \in now : p.name = a}
       IN /\ panes' = {p \in now : p \notin named \/ \E q \in named : q.id < p.id}
          /\ expected' = {x \in expected \cup (anns \ Bound) : x.name # a}
    /\ UNCHANGED <<window1, server, link, cli, pre, owner, map, taken, faults, changes>>

\* streamBinder.expire: whichever half of a pair is waiting is dropped.
Expire(id) ==
    /\ cli = "run"
    /\ id \in waiting \cup {x.id : x \in expected}
    /\ waiting' = waiting \ {id}
    /\ expected' = {x \in expected : x.id # id}
    /\ faults' = faults \cup {"late"}
    /\ UNCHANGED <<window1, server, link, cli, pre, owner, map, mux, taken, panes, changes>>

-----------------------------------------------------------------------------
Main ==
    \/ \E a \in Agent : MoveGroup(a) \/ AddAgent(a) \/ RemoveAgent(a)
    \/ Relayout \/ OnAttached \/ Announce \/ Publish \/ Decide \/ Broadcast
Announcer ==
    \/ SendAdded
    \/ \E a \in Agent : SkipAdded(a) \/ OpenPushed(a) \/ SendRemoved(a)
Serve ==
    \/ Register \/ ListPanes \/ DecideForPeer \/ SendHelloOK \/ OpenStreams \/ SendStreamMap
    \/ Attach \/ Leave \/ OldLeaves
Viewer ==
    \/ Dial \/ SessionEnds \/ ReadHelloOK \/ ReadOther \/ ReadStreamMap
    \/ LeaveBuffered \/ StartMux \/ AcceptMapped
    \/ MuxReads \/ OfferStream \/ TakeAnnouncements \/ TakeOwnership \/ TakeRemoved
    \/ \E id \in 1 .. Len(opened) : Expire(id)

Next == Main \/ Announcer \/ Serve \/ Viewer

Spec == Init /\ [][Next]_vars

\* The main goroutine goes on with what it has begun, window 1 plans again every
\* second in a live mode, and a handler sees that its session has ended.
FairSpec ==
    /\ Spec
    /\ WF_vars(OnAttached) /\ WF_vars(Announce \/ Publish \/ Decide \/ Broadcast)
    /\ WF_vars(Leave) /\ WF_vars(OldLeaves)
    /\ Ticks => WF_vars(Relayout)

-----------------------------------------------------------------------------
(* Properties. *)

Names  == {p.name : p \in panes}
OwnerMap == UNION {[A -> Window] : A \in SUBSET Agent}

\* The type invariant of the state above; a list of agents has each once.
TypeOK ==
    /\ served \in Seq(Agent) /\ NoDup(served) /\ assigned \in [Agent -> Window]
    /\ snap.agents \subseteq Agent /\ mine \in OwnerMap /\ servedTo \in BOOLEAN
    /\ main \in {"idle", "announce", "publish", "decide", "broadcast"} /\ attached \in BOOLEAN
    /\ srv \in {"none", "ctrl", "registered", "listed", "decided", "greeted", "opened",
                "mapped", "live"}
    /\ peer \in {"nobody", "current", "old"}
    /\ cli \in {"off", "hello", "map", "mux", "accept", "run"}
    /\ owner \in OwnerMap \cup {<<>>} /\ pre \in OwnerMap \cup {<<>>}
    /\ opened \in Seq(Agent) /\ taken \in 0 .. Len(opened) /\ Len(events) <= EventCap
    /\ waiting \subseteq 1 .. taken /\ Names \subseteq Agent

\* A key typed into a pane of the second window goes to the agent of its name, and
\* what the pane shows is that agent's, whatever was lost or came out of order
\* (stream_binder.go).
KeysReachTheirAgent == \A p \in panes : p.id \in 1 .. Len(opened) /\ opened[p.id] = p.name

\* The last owner map the viewer will have taken, when nothing more is sent.
Maps(frames) == {i \in DOMAIN frames : frames[i].kind \in {"hello_ok", "ownership"}}
Told(frames) == {frames[i].owner : i \in {j \in Maps(frames) : \A k \in Maps(frames) : k <= j}}
LastTold ==
    IF Told(wire) # {} THEN Told(wire)
    ELSE IF Told(events) # {} THEN Told(events)
    ELSE IF cli \in {"map", "mux", "accept"} THEN {pre}
    ELSE {owner}

\* Once a window is attached, what it has been told or is about to be is what
\* window 1 has decided and renders by, through every race of a handshake with a
\* change: no agent is in two windows, or in none.  But for an owner map that was
\* read along with the stream map, or that the event buffer dropped, until the next.
OwnershipAgrees ==
    /\ srv = "live" /\ cli \notin {"off", "hello"}
    /\ main = "idle" /\ ~attached
    /\ "lost" \notin faults
    => LastTold = {mine}

\* Nothing is under way.
Quiet ==
    /\ srv = "live" /\ cli = "run" /\ main = "idle"
    /\ \A a \in Agent : jobs[a] = <<>>
    /\ ann = NoPane /\ wire = <<>> /\ events = <<>> /\ anns = {} /\ taken = Len(opened)

\* A second window has one pane for each agent of window 1, and no other, once
\* nothing is under way; but for what this connection has seen go wrong: an
\* announcement that fell into the handshake, or was older than it; one, or a removal,
\* that was read along with the stream map; a removal that the event buffer dropped,
\* or that an announcement overtook; a pair that took longer than streamBindTimeout.
PanesAgree ==
    Quiet /\ faults \subseteq {"lost"}
        => Names = Elems(served) /\ \A p, q \in panes : p.name = q.name => p = q

\* The agents of a window that has gone are folded back into window 1, in the live
\* layout modes, which plan again every second (Ticks).  In a static one a window that
\* leaves is folded back no sooner than at the operator's next step.
FoldsBack ==
    ~Connected ~> Connected \/ \A a \in Elems(served) : a \in DOMAIN mine /\ mine[a] = One
=============================================================================
