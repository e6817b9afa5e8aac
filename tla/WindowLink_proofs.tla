-------------------------- MODULE WindowLink_proofs --------------------------
(***************************************************************************)
(* What holds of WindowLink for any agents, any size of the event buffer,  *)
(* any number of connections and of the operator's changes.                *)
(*                                                                         *)
(* KeysReach: a pane is bound to the stream its announcement named.  What  *)
(* is known of a pane is known of everything it is made from, back to the  *)
(* frame on the wire (LinkInv).                                            *)
(*                                                                         *)
(* OneOwner: the second window's owner map is window 1's.  The map of a    *)
(* handshake and the broadcasts have two writers; the proof follows the    *)
(* last map told (LastTold), which is the one window 1 renders by or is    *)
(* about to be replaced (Cur), and shows that a broadcast can only come    *)
(* before the answer to a hello on a connection the viewer gives up on     *)
(* (Doomed).                                                               *)
(*                                                                         *)
(* OnePaneEach: the second window has a pane for each agent and no other.  *)
(* The proof says for each agent what the viewer will have of it once it   *)
(* has read everything (Shows) and once window 1 has announced everything  *)
(* (InTheEnd), and shows that the second is what window 1 serves; an agent *)
(* is on its way in one place at most, and what removes it comes after.    *)
(*                                                                         *)
(* LinkTypes: the type invariant, from these and the owner maps on the way.*)
(***************************************************************************)
EXTENDS WindowLink, Queue_proofs, FiniteSetTheorems, SequenceTheorems

-----------------------------------------------------------------------------
(* Frames on their way. *)

\* A sequence, of whatever.
IsSeq(s) == \E S : s \in Seq(S)

\* Writing a frame.
LEMMA FrameAdded ==
    ASSUME NEW s, IsSeq(s), NEW f
    PROVE  /\ IsSeq(s \o <<f>>) /\ s \o <<f>> = Append(s, f)
           /\ Len(s) \in Nat /\ DOMAIN s = 1..Len(s)
           /\ Len(s \o <<f>>) = Len(s) + 1 /\ DOMAIN (s \o <<f>>) = 1..(Len(s) + 1)
           /\ \A i \in 1..Len(s) : (s \o <<f>>)[i] = s[i]
           /\ (s \o <<f>>)[Len(s) + 1] = f
<1>1. PICK S : s \in Seq(S)
  BY DEF IsSeq
<1>2. s \in Seq(S \cup {f}) /\ Len(s) \in Nat /\ DOMAIN s = 1..Len(s)
  BY <1>1
<1>3. s \o <<f>> \in Seq(S \cup {f})
  BY <1>2
<1> QED
  BY <1>2, <1>3 DEF IsSeq

\* Reading one.
LEMMA FrameTaken ==
    ASSUME NEW s, IsSeq(s), s # <<>>
    PROVE  /\ IsSeq(Tail(s))
           /\ Len(s) \in Nat \ {0} /\ DOMAIN s = 1..Len(s) /\ Head(s) = s[1]
           /\ Len(Tail(s)) = Len(s) - 1 /\ DOMAIN Tail(s) = 1..(Len(s) - 1)
           /\ \A i \in 1..(Len(s) - 1) : Tail(s)[i] = s[i + 1]
<1>1. PICK S : s \in Seq(S)
  BY DEF IsSeq
<1>2. Tail(s) \in Seq(S)
  BY <1>1
<1> QED
  BY <1>1, <1>2 DEF IsSeq

LEMMA NoFrames == IsSeq(<<>>) /\ DOMAIN <<>> = {} /\ Len(<<>>) = 0
<1>1. <<>> \in Seq({})
  OBVIOUS
<1> QED
  BY <1>1 DEF IsSeq

-----------------------------------------------------------------------------
(* A pane is its own agent's. *)

\* A stream of those in o was opened for the agent its announcement or pane names.
GoodIn(p, o) == p.id \in 1..Len(o) /\ o[p.id] = p.name

FrameGoodIn(f, o) == /\ f.kind = "added" => GoodIn(f.pane, o)
                     /\ f.kind = "map" => IsFiniteSet(f.ids)

WireGood(w, o) == IsSeq(w) /\ \A i \in DOMAIN w : FrameGoodIn(w[i], o)

AllGood(P, o) == \A p \in P : GoodIn(p, o)

Lists ==
    /\ served \in Seq(Agent) /\ opened \in Seq(Agent) /\ hs.panes \in Seq(Agent)
    /\ hs = [panes |-> hs.panes, owner |-> hs.owner, ids |-> hs.ids]
    /\ IsFiniteSet(hs.ids) /\ IsFiniteSet(map)

WireInv == WireGood(wire, opened)

PairInv ==
    /\ ann = NoPane \/ GoodIn(ann, opened)
    /\ AllGood(anns, opened) /\ AllGood(expected, opened) /\ AllGood(panes, opened)

\* KeysReachTheirAgent is its last part, of panes; a pane is made from an
\* announcement that waited, was queued, was on the wire, or was about to be.
LinkInv == Lists /\ WireInv /\ PairInv

LEMMA LinkInit == Init => LinkInv
<1> SUFFICES ASSUME Init PROVE LinkInv
  OBVIOUS
<1>1. Lists
  <2>1. <<>> \in Seq(Agent) /\ IsFiniteSet({})
    BY FS_EmptySet
  <2> QED
    BY <2>1, LinkAssumption DEF Init, Lists, NoHandshake
<1>2. WireInv
  BY NoFrames DEF Init, WireInv, WireGood
<1>3. PairInv
  BY DEF Init, PairInv, AllGood
<1> QED
  BY <1>1, <1>2, <1>3 DEF LinkInv

\* More streams than before.
Grows(o, q) ==
    /\ o \in Seq(Agent) /\ q \in Seq(Agent)
    /\ Len(o) <= Len(q) /\ \A i \in 1..Len(o) : q[i] = o[i]

\* What was known of the others stands.
LEMMA GoodGrows ==
    ASSUME NEW o, NEW q, Grows(o, q)
    PROVE  /\ \A p : GoodIn(p, o) => GoodIn(p, q)
           /\ \A P : AllGood(P, o) => AllGood(P, q)
           /\ \A w : WireGood(w, o) => WireGood(w, q)
<1>1. Len(o) \in Nat /\ Len(q) \in Nat
  BY DEF Grows
<1>2. ASSUME NEW p, GoodIn(p, o) PROVE GoodIn(p, q)
  BY <1>1, <1>2 DEF GoodIn, Grows
<1>3. ASSUME NEW f, FrameGoodIn(f, o) PROVE FrameGoodIn(f, q)
  BY <1>2, <1>3 DEF FrameGoodIn
<1> QED
  BY <1>2, <1>3 DEF AllGood, WireGood

\* A good frame is written.
LEMMA GoodWritten ==
    ASSUME NEW w, NEW o, NEW f, WireGood(w, o), FrameGoodIn(f, o)
    PROVE  WireGood(w \o <<f>>, o)
<1> DEFINE v == w \o <<f>>
<1>1. /\ IsSeq(v) /\ Len(w) \in Nat /\ DOMAIN w = 1..Len(w) /\ DOMAIN v = 1..(Len(w) + 1)
      /\ \A i \in 1..Len(w) : v[i] = w[i]
      /\ v[Len(w) + 1] = f
  BY FrameAdded DEF WireGood
<1> HIDE DEF v
<1>2. \A i \in 1..(Len(w) + 1) : i \in 1..Len(w) \/ i = Len(w) + 1
  BY <1>1
<1>3. \A i \in DOMAIN v : FrameGoodIn(v[i], o)
  BY <1>1, <1>2 DEF WireGood
<1>4. WireGood(v, o)
  BY <1>1, <1>3 DEF WireGood
<1> QED
  BY <1>4 DEF v

\* The first frame is taken.
LEMMA GoodRead ==
    ASSUME NEW w, NEW o, WireGood(w, o), w # <<>>
    PROVE  FrameGoodIn(Head(w), o) /\ WireGood(Tail(w), o)
<1>1. /\ IsSeq(Tail(w)) /\ Len(w) \in Nat \ {0} /\ DOMAIN w = 1..Len(w) /\ Head(w) = w[1]
      /\ DOMAIN Tail(w) = 1..(Len(w) - 1)
      /\ \A i \in 1..(Len(w) - 1) : Tail(w)[i] = w[i + 1]
  BY FrameTaken DEF WireGood
<1>2. 1 \in 1..Len(w) /\ \A i \in 1..(Len(w) - 1) : i + 1 \in 1..Len(w)
  BY <1>1
<1> QED
  BY <1>1, <1>2 DEF WireGood

LEMMA WriteGood ==
    ASSUME LinkInv, NEW f, Write(<<f>>), FrameGoodIn(f, opened)
    PROVE  WireGood(wire', opened)
BY GoodWritten DEF LinkInv, WireInv, Write

\* Frames that carry no stream.
LEMMA PlainGood ==
    \A o, m, a : /\ FrameGoodIn([kind |-> "hello_ok", owner |-> m], o)
                 /\ FrameGoodIn([kind |-> "ownership", owner |-> m], o)
                 /\ FrameGoodIn([kind |-> "removed", name |-> a], o)
BY DEF FrameGoodIn

-----------------------------------------------------------------------------
(* Window 1's steps. *)

\* Without one of them, a list is a list of agents.
LEMMA WithoutOne ==
    ASSUME NEW s \in Seq(Agent), NEW i \in 1 .. Len(s)
    PROVE  SubSeq(s, 1, i - 1) \o SubSeq(s, i + 1, Len(s)) \in Seq(Agent)
<1>1. /\ Len(s) \in Nat
      /\ \A j \in 1..(i - 1) : s[j] \in Agent
      /\ \A j \in (i + 1)..Len(s) : s[j] \in Agent
  OBVIOUS
<1>2. SubSeq(s, 1, i - 1) \in Seq(Agent)
  BY <1>1, SubSeqProperties
<1>3. SubSeq(s, i + 1, Len(s)) \in Seq(Agent)
  BY <1>1, SubSeqProperties
<1> QED
  BY <1>2, <1>3

LEMMA MainLink == LinkInv /\ Main => LinkInv'
<1> SUFFICES ASSUME LinkInv, Main PROVE LinkInv'
  OBVIOUS
<1> USE DEF server, link, viewer, mux, binder, sends
<1>1. ASSUME UNCHANGED <<opened, hs, wire, map, ann, anns, expected, panes>>,
             served' \in Seq(Agent)
      PROVE  LinkInv'
  BY <1>1 DEF LinkInv, Lists, WireInv, PairInv
<1>2. ASSUME NEW a \in Agent, MoveGroup(a) PROVE LinkInv'
  BY <1>1, <1>2 DEF MoveGroup, Operation, LinkInv, Lists
<1>3. ASSUME NEW a \in Agent, AddAgent(a) PROVE LinkInv'
  BY <1>1, <1>3 DEF AddAgent, Operation, LinkInv, Lists
<1>4. ASSUME NEW a \in Agent, RemoveAgent(a) PROVE LinkInv'
  <2>1. served' \in Seq(Agent)
    BY <1>4, WithoutOne DEF RemoveAgent, LinkInv, Lists
  <2> QED
    BY <1>1, <1>4, <2>1 DEF RemoveAgent, Operation
<1>5. CASE Relayout \/ OnAttached \/ Announce \/ Publish \/ Decide
  BY <1>1, <1>5 DEF Relayout, OnAttached, Announce, Publish, Decide, LinkInv, Lists
<1>6. CASE Broadcast
  <2>1. WireGood(wire', opened)
    BY <1>6, WriteGood, PlainGood DEF Broadcast, Ownership, LinkInv, WireInv
  <2>2. UNCHANGED <<served, opened, hs, map, ann, anns, expected, panes>>
    BY <1>6 DEF Broadcast
  <2> QED
    BY <2>1, <2>2 DEF LinkInv, Lists, WireInv, PairInv
<1> QED
  BY <1>2, <1>3, <1>4, <1>5, <1>6 DEF Main

LEMMA AnnouncerLink == LinkInv /\ Announcer => LinkInv'
<1> SUFFICES ASSUME LinkInv, Announcer PROVE LinkInv'
  OBVIOUS
<1> USE DEF server, link, viewer, mux, binder, sends
<1>1. ASSUME UNCHANGED <<served, opened, hs, map, anns, expected, panes>>,
             WireGood(wire', opened), ann' \in {ann, NoPane}
      PROVE  LinkInv'
  BY <1>1 DEF LinkInv, Lists, WireInv, PairInv
<1>2. CASE SendAdded
  <2>1. GoodIn(ann, opened)
    BY <1>2 DEF SendAdded, LinkInv, PairInv
  <2>2. FrameGoodIn([kind |-> "added", pane |-> ann], opened)
    BY <2>1 DEF FrameGoodIn
  <2>3. WireGood(wire', opened)
    BY <1>2, <2>2, WriteGood DEF SendAdded
  <2> QED
    BY <1>1, <1>2, <2>3 DEF SendAdded
<1>3. ASSUME NEW a \in Agent, SkipAdded(a) PROVE LinkInv'
  BY <1>1, <1>3 DEF SkipAdded, LinkInv, WireInv
<1>4. ASSUME NEW a \in Agent, OpenPushed(a) PROVE LinkInv'
  <2>1. opened \in Seq(Agent) /\ opened' = Append(opened, a)
    BY <1>4 DEF OpenPushed, LinkInv, Lists
  <2>2. /\ opened' \in Seq(Agent) /\ Len(opened) \in Nat /\ Len(opened') = Len(opened) + 1
        /\ opened'[Len(opened) + 1] = a
        /\ \A i \in 1..Len(opened) : opened'[i] = opened[i]
    BY <2>1
  <2>3. Grows(opened, opened')
    BY <2>1, <2>2 DEF Grows
  <2>4. GoodIn(Pane(Len(opened) + 1, a), opened')
    BY <2>2 DEF GoodIn, Pane
  <2>5. /\ UNCHANGED <<served, hs, map, wire, anns, expected, panes>>
        /\ ann' = Pane(Len(opened) + 1, a)
    BY <1>4 DEF OpenPushed
  <2>6. WireGood(wire, opened') /\ AllGood(anns, opened') /\ AllGood(expected, opened')
        /\ AllGood(panes, opened')
    BY <2>3, GoodGrows DEF LinkInv, WireInv, PairInv
  <2> QED
    BY <2>2, <2>4, <2>5, <2>6 DEF LinkInv, Lists, WireInv, PairInv
<1>5. ASSUME NEW a \in Agent, SendRemoved(a) PROVE LinkInv'
  <2>1. WireGood(wire', opened)
    BY <1>5, WriteGood, PlainGood DEF SendRemoved, LinkInv, WireInv
  <2> QED
    BY <1>1, <1>5, <2>1 DEF SendRemoved
<1> QED
  BY <1>2, <1>3, <1>4, <1>5 DEF Announcer

LEMMA ServeLink == LinkInv /\ Serve => LinkInv'
<1> SUFFICES ASSUME LinkInv, Serve PROVE LinkInv'
  OBVIOUS
<1> USE DEF server, link, viewer, mux, binder, sends, window1
<1>1. ASSUME UNCHANGED <<served, opened, map, ann, anns, expected, panes>>,
             WireGood(wire', opened), Lists'
      PROVE  LinkInv'
  BY <1>1 DEF LinkInv, WireInv, PairInv
<1>2. CASE Register \/ Attach \/ Leave \/ OldLeaves
  <2>1. UNCHANGED <<served, opened, hs, map, wire, ann, anns, expected, panes>>
    BY <1>2 DEF Register, Attach, Leave, OldLeaves, Handler
  <2> QED
    BY <2>1, <1>1 DEF LinkInv, WireInv, Lists
<1>3. CASE ListPanes \/ DecideForPeer
  <2>1. UNCHANGED <<served, opened, map, wire, ann, anns, expected, panes>>
    BY <1>3 DEF ListPanes, DecideForPeer, Handler
  <2>2. Lists'
    BY <1>3, <2>1 DEF ListPanes, DecideForPeer, LinkInv, Lists
  <2> QED
    BY <2>1, <2>2, <1>1 DEF LinkInv, WireInv
<1>4. CASE SendHelloOK
  <2>1. UNCHANGED <<served, opened, map, ann, anns, expected, panes>>
    BY <1>4 DEF SendHelloOK, Handler
  <2>2. Lists'
    BY <1>4, <2>1 DEF SendHelloOK, LinkInv, Lists
  <2>3. WireGood(wire', opened)
    BY <1>4, WriteGood, PlainGood DEF SendHelloOK
  <2> QED
    BY <2>1, <2>2, <2>3, <1>1
<1>5. CASE OpenStreams
  <2>1. /\ UNCHANGED <<served, map, wire, ann, anns, expected, panes>>
        /\ opened' = opened \o hs.panes
        /\ hs' = [NoHandshake EXCEPT !.ids = Len(opened) + 1 .. Len(opened')]
    BY <1>5 DEF OpenStreams, Handler
  <2>2. opened \in Seq(Agent) /\ hs.panes \in Seq(Agent)
    BY DEF LinkInv, Lists
  <2>3. /\ opened' \in Seq(Agent) /\ Len(opened) \in Nat /\ Len(opened') \in Nat
        /\ Len(opened) <= Len(opened')
        /\ \A i \in 1..Len(opened) : opened'[i] = opened[i]
    BY <2>1, <2>2
  <2>4. Grows(opened, opened')
    BY <2>2, <2>3 DEF Grows
  <2>5. WireGood(wire, opened') /\ AllGood(anns, opened') /\ AllGood(expected, opened')
        /\ AllGood(panes, opened') /\ (ann = NoPane \/ GoodIn(ann, opened'))
    BY <2>4, GoodGrows DEF LinkInv, WireInv, PairInv
  <2>6. IsFiniteSet(Len(opened) + 1 .. Len(opened'))
    BY <2>3, FS_Interval
  <2>7. hs' = [panes |-> <<>>, owner |-> <<>>, ids |-> Len(opened) + 1 .. Len(opened')]
    BY <2>1 DEF NoHandshake
  <2>8. <<>> \in Seq(Agent)
    OBVIOUS
  <2>9. hs'.panes = <<>> /\ hs'.owner = <<>> /\ hs'.ids = Len(opened) + 1 .. Len(opened')
    BY <2>7
  <2>10. served' \in Seq(Agent) /\ IsFiniteSet(map')
    BY <2>1 DEF LinkInv, Lists
  <2>11. Lists'
    BY <2>3, <2>6, <2>7, <2>8, <2>9, <2>10 DEF Lists
  <2> QED
    BY <2>1, <2>5, <2>11 DEF LinkInv, WireInv, PairInv
<1>6. CASE SendStreamMap
  <2>1. UNCHANGED <<served, opened, map, ann, anns, expected, panes>>
    BY <1>6 DEF SendStreamMap, Handler
  <2>2. IsFiniteSet({}) /\ hs' = NoHandshake /\ <<>> \in Seq(Agent)
    BY <1>6, FS_EmptySet DEF SendStreamMap
  <2>3. Lists'
    BY <2>1, <2>2 DEF NoHandshake, LinkInv, Lists
  <2>4. FrameGoodIn([kind |-> "map", ids |-> hs.ids], opened)
    BY DEF FrameGoodIn, LinkInv, Lists
  <2>5. WireGood(wire', opened)
    BY <1>6, <2>4, WriteGood DEF SendStreamMap
  <2> QED
    BY <2>1, <2>3, <2>5, <1>1
<1> QED
  BY <1>2, <1>3, <1>4, <1>5, <1>6 DEF Serve

-----------------------------------------------------------------------------
(* The viewer's steps. *)

\* What is left of a connection that has ended: nothing.
LEMMA EndedLink == LinkInv /\ GivesUp => LinkInv'
<1> SUFFICES ASSUME LinkInv, GivesUp PROVE LinkInv'
  OBVIOUS
<1>1. /\ map' = {} /\ wire' = <<>> /\ opened' = <<>> /\ anns' = {} /\ ann' = NoPane
      /\ expected' = {} /\ panes' = {} /\ UNCHANGED <<served, hs>>
  BY DEF GivesUp, server
<1>2. IsSeq(<<>>) /\ DOMAIN <<>> = {} /\ <<>> \in Seq(Agent) /\ IsFiniteSet({})
  BY NoFrames, FS_EmptySet
<1> QED
  BY <1>1, <1>2 DEF LinkInv, Lists, WireInv, WireGood, PairInv, AllGood

\* A frame is read and none of its streams taken up.
LEMMA ReadLink ==
    ASSUME LinkInv, Reads, IsFiniteSet(map'), UNCHANGED <<served, opened, hs, ann, expected, panes>>,
           anns' \subseteq anns \/ (Frame.kind = "added" /\ anns' = anns \cup {Frame.pane})
    PROVE  LinkInv'
<1>1. FrameGoodIn(Frame, opened) /\ WireGood(wire', opened)
  BY GoodRead DEF LinkInv, WireInv, Reads, Frame
<1>2. AllGood(anns', opened)
  BY <1>1 DEF LinkInv, PairInv, AllGood, FrameGoodIn
<1> QED
  BY <1>1, <1>2 DEF LinkInv, Lists, WireInv, PairInv

LEMMA ViewerLink == LinkInv /\ Viewer => LinkInv'
<1> SUFFICES ASSUME LinkInv, Viewer PROVE LinkInv'
  OBVIOUS
<1> USE DEF server, link, mux, binder, sends, window1
<1>1. ASSUME UNCHANGED <<served, opened, hs, wire, map, ann>>, anns' \subseteq anns,
             expected' \subseteq expected \cup anns, panes' \subseteq panes \cup expected \cup anns
      PROVE  LinkInv'
  BY <1>1 DEF LinkInv, Lists, WireInv, PairInv, AllGood
<1>2. CASE Dial
  <2>1. Lists'
    <3>1. <<>> \in Seq(Agent) /\ IsFiniteSet({})
      BY FS_EmptySet
    <3> QED
      BY <1>2, <3>1 DEF Dial, NoHandshake, LinkInv, Lists
  <2>2. UNCHANGED <<opened, wire, ann, anns, expected, panes>>
    BY <1>2 DEF Dial
  <2> QED
    BY <2>1, <2>2 DEF LinkInv, WireInv, PairInv
<1>3. CASE SessionEnds \/ ReadOther
  BY <1>3, EndedLink DEF SessionEnds, ReadOther
<1>4. CASE ReadHelloOK
  <2>1. Reads /\ UNCHANGED <<served, opened, hs, map, ann, anns, expected, panes>>
    BY <1>4 DEF ReadHelloOK
  <2> QED
    BY <2>1, ReadLink DEF LinkInv, Lists
<1>5. CASE ReadStreamMap
  <2>1. /\ Reads /\ UNCHANGED <<served, opened, hs, ann, anns, expected, panes>>
        /\ map' = map \/ (Frame.kind = "map" /\ map' = Frame.ids)
    BY <1>5 DEF ReadStreamMap
  <2>2. FrameGoodIn(Frame, opened)
    BY <2>1, GoodRead DEF LinkInv, WireInv, Reads, Frame
  <2>3. IsFiniteSet(map')
    BY <2>1, <2>2 DEF FrameGoodIn, LinkInv, Lists
  <2> QED
    BY <2>1, <2>3, ReadLink
<1>6. CASE AcceptMapped
  <2>1. /\ Cardinality(map) <= Len(opened) /\ taken' = Cardinality(map) /\ map' = {}
        /\ panes' = {Pane(i, opened[i]) : i \in map \cap (1 .. taken')}
        /\ UNCHANGED <<served, opened, hs, wire, ann, anns, expected>>
    BY <1>6 DEF AcceptMapped
  <2>2. taken' \in Nat /\ Len(opened) \in Nat /\ IsFiniteSet({})
    BY <2>1, FS_CardinalityType, FS_EmptySet DEF LinkInv, Lists
  <2>3. AllGood(panes', opened)
    BY <2>1, <2>2 DEF AllGood, GoodIn, Pane
  <2> QED
    BY <2>1, <2>2, <2>3 DEF LinkInv, Lists, WireInv, PairInv
<1>7. CASE MuxReads
  <2>1. /\ Reads /\ UNCHANGED <<served, opened, hs, map, ann, expected, panes>>
        /\ anns' = anns \/ (Frame.kind = "added" /\ anns' = anns \cup {Frame.pane})
    BY <1>7 DEF MuxReads
  <2> QED
    BY <2>1, ReadLink DEF LinkInv, Lists
<1>8. CASE OfferStream
  BY <1>1, <1>8 DEF OfferStream
<1>9. CASE TakeAnnouncements
  BY <1>1, <1>9 DEF TakeAnnouncements, Claims, Bound
<1>10. CASE TakeOwnership
  BY <1>1, <1>10 DEF TakeOwnership, TakesEvent, Claims, Bound
<1>11. CASE TakeRemoved
  BY <1>1, <1>11 DEF TakeRemoved, TakesEvent, Claims, Bound
<1>12. ASSUME NEW id, Expire(id) PROVE LinkInv'
  BY <1>1, <1>12 DEF Expire
<1>13. CASE LeaveBuffered
  <2>1. Reads /\ UNCHANGED <<served, opened, hs, map, ann, anns, expected, panes>>
    BY <1>13 DEF LeaveBuffered
  <2> QED
    BY <2>1, ReadLink DEF LinkInv, Lists
<1>14. CASE StartMux
  BY <1>1, <1>14 DEF StartMux
<1> QED
  BY <1>2, <1>3, <1>4, <1>5, <1>6, <1>7, <1>8, <1>9, <1>10, <1>11, <1>12,
     <1>13, <1>14 DEF Viewer

LEMMA LinkStutter == LinkInv /\ UNCHANGED vars => LinkInv'
BY DEF vars, window1, server, link, viewer, mux, binder, sends, LinkInv, Lists, WireInv, PairInv

LEMMA LinkNext == LinkInv /\ [Next]_vars => LinkInv'
BY MainLink, AnnouncerLink, ServeLink, ViewerLink, LinkStutter DEF Next

\* A key typed into a pane of the second window goes to the agent of its name, for
\* every number of agents, connections and changes, and whatever the event buffer
\* drops: a pane is bound by the id its announcement gave its stream
\* (internal/tui/stream_binder.go).
THEOREM KeysReach == Spec => []KeysReachTheirAgent
<1>1. LinkInv => KeysReachTheirAgent
  BY DEF LinkInv, PairInv, AllGood, GoodIn, KeysReachTheirAgent
<1> QED
  BY LinkInit, LinkNext, <1>1, PTL DEF Spec

-----------------------------------------------------------------------------
(* The last owner map among some frames. *)

\* If any frame has one, one is the last.
HasLast(s) == IsSeq(s) /\ (Maps(s) # {} => Told(s) # {})

LEMMA ToldNothing == Told(<<>>) = {} /\ HasLast(<<>>)
BY NoFrames DEF Told, Maps, HasLast

\* A frame more.
LEMMA ToldMore ==
    ASSUME NEW s, HasLast(s), NEW f
    PROVE  /\ HasLast(s \o <<f>>)
           /\ Told(s \o <<f>>) = 
                 IF f.kind \in {"hello_ok", "ownership"} THEN {f.owner} ELSE Told(s)
<1> DEFINE v == s \o <<f>>
           n == Len(s)
<1>1. /\ n \in Nat /\ DOMAIN s = 1..n /\ IsSeq(v) /\ DOMAIN v = 1..(n + 1)
      /\ \A i \in 1..n : v[i] = s[i]
      /\ v[n + 1] = f
  BY FrameAdded DEF HasLast
<1> HIDE DEF v, n
<1>2. \A i \in 1..(n + 1) : i \in 1..n \/ i = n + 1
  BY <1>1
<1>3. CASE f.kind \in {"hello_ok", "ownership"}
  <2>1. n + 1 \in Maps(v) /\ \A k \in Maps(v) : k <= n + 1
    BY <1>1, <1>3 DEF Maps
  <2>2. \A j \in Maps(v) : (\A k \in Maps(v) : k <= j) => j = n + 1
    BY <1>1, <2>1 DEF Maps
  <2>3. Told(v) = {f.owner}
    BY <1>1, <2>1, <2>2 DEF Told
  <2> QED
    BY <1>1, <1>3, <2>3 DEF v, HasLast
<1>4. CASE f.kind \notin {"hello_ok", "ownership"}
  <2>1. Maps(v) = Maps(s)
    BY <1>1, <1>2, <1>4 DEF Maps
  <2>2. \A j \in Maps(s) : v[j] = s[j]
    BY <1>1 DEF Maps
  <2>3. Told(v) = Told(s)
    BY <2>1, <2>2 DEF Told
  <2> QED
    BY <1>1, <1>4, <2>1, <2>3 DEF v, HasLast
<1> QED
  BY <1>3, <1>4

\* The first frame taken: what it says is what was told, unless more follows.
LEMMA ToldLess ==
    ASSUME NEW s, HasLast(s), s # <<>>
    PROVE  /\ HasLast(Tail(s))
           /\ Told(s) = IF Told(Tail(s)) # {} \/ Head(s).kind \notin {"hello_ok", "ownership"}
                         THEN Told(Tail(s)) ELSE {Head(s).owner}
<1> DEFINE t == Tail(s)
           n == Len(s)
<1>1. /\ IsSeq(t) /\ n \in Nat \ {0} /\ DOMAIN s = 1..n /\ Head(s) = s[1]
      /\ DOMAIN t = 1..(n - 1)
      /\ \A i \in 1..(n - 1) : t[i] = s[i + 1]
  BY FrameTaken DEF HasLast
<1> HIDE DEF t, n
<1>2. \A i \in Maps(t) : i + 1 \in Maps(s) /\ t[i] = s[i + 1] /\ i \in Nat
  BY <1>1 DEF Maps
<1>3. \A i \in Maps(s) : i \in Nat /\ (i = 1 \/ (i - 1 \in Maps(t) /\ t[i - 1] = s[i]))
  BY <1>1 DEF Maps
<1>4. 1 \in Maps(s) <=> Head(s).kind \in {"hello_ok", "ownership"}
  BY <1>1 DEF Maps
<1>5. ASSUME Maps(t) # {} \/ 1 \notin Maps(s)
      PROVE  Told(s) = Told(t)
  <2>1. ASSUME NEW j \in Maps(s), \A k \in Maps(s) : k <= j
        PROVE  \E i \in Maps(t) : (\A k \in Maps(t) : k <= i) /\ t[i] = s[j]
    <3>1. j # 1
      <4>1. CASE Maps(t) # {}
        <5>1. PICK i \in Maps(t) : i + 1 \in Maps(s) /\ i \in Nat
          BY <1>2, <4>1
        <5>2. i >= 1
          BY <1>1 DEF Maps
        <5> QED
          BY <2>1, <5>1, <5>2
      <4> QED
        BY <1>5, <2>1, <4>1
    <3>2. j - 1 \in Maps(t) /\ t[j - 1] = s[j] /\ j \in Nat
      BY <1>3, <3>1
    <3>3. \A k \in Maps(t) : k <= j - 1
      BY <1>2, <2>1, <3>2
    <3> QED
      BY <3>2, <3>3
  <2>2. ASSUME NEW i \in Maps(t), \A k \in Maps(t) : k <= i
        PROVE  \E j \in Maps(s) : (\A k \in Maps(s) : k <= j) /\ t[i] = s[j]
    <3>1. i + 1 \in Maps(s) /\ t[i] = s[i + 1] /\ i \in Nat
      BY <1>2
    <3>2. \A k \in Maps(s) : k <= i + 1
      BY <1>3, <2>2, <3>1
    <3> QED
      BY <3>1, <3>2
  <2> QED
    BY <2>1, <2>2 DEF Told
<1>6. CASE Maps(t) = {} /\ 1 \in Maps(s)
  <2>1. Maps(s) = {1}
    BY <1>3, <1>6
  <2>2. Told(s) = {Head(s).owner} /\ Told(t) = {}
    BY <1>1, <1>6, <2>1 DEF Told
  <2> QED
    BY <1>1, <1>4, <1>6, <2>2 DEF t, HasLast
<1>7. CASE Maps(t) = {} /\ 1 \notin Maps(s)
  BY <1>1, <1>4, <1>5, <1>7 DEF t, HasLast
<1>8. CASE Maps(t) # {}
  <2>1. Told(s) = Told(t) /\ Maps(s) # {}
    BY <1>2, <1>5, <1>8
  <2> QED
    BY <1>1, <2>1 DEF t, HasLast
<1> QED
  BY <1>6, <1>7, <1>8

-----------------------------------------------------------------------------
(* What the second window has been told is what window 1 has decided. *)

Early == {"ctrl", "registered", "listed", "decided"}
Late  == {"greeted", "opened", "mapped", "live"}

\* Window 1: what it renders by was decided from what a handshake may read, but
\* for a decision it is about to take; a window that is served is attached.
MainInv ==
    /\ main \in {"idle", "announce", "publish", "decide", "broadcast"} /\ servedTo \in BOOLEAN
    /\ main # "decide" => mine = OwnershipFor(snap, servedTo)
    /\ main \in {"idle", "decide", "broadcast"} => snap = Inputs
    /\ srv \in {"registered", "listed", "decided"} \cup Late => peer = "current"
    /\ srv = "live" => attached \/ main = "decide" \/ servedTo

\* The viewer gives up on what it reads first.
DoomedBy(w, c) == c = "hello" /\ w # <<>> /\ w[1].kind # "hello_ok"

\* A hello_ok is the first of what the viewer reads.
HelloFirst(w, c) ==
    DoomedBy(w, c) \/ \A i \in DOMAIN w : w[i].kind = "hello_ok" => i = 1 /\ c = "hello"

NoHello(w) == \A i \in DOMAIN w : w[i].kind # "hello_ok"

Doomed == DoomedBy(wire, cli)

HelloInv ==
    /\ HasLast(wire) /\ HasLast(events)
    /\ cli \in {"off", "hello", "map", "mux", "accept", "run"}
    /\ Up => srv # "none"
    /\ ~Up => wire = <<>>
    /\ cli \in {"off", "hello", "map"} => events = <<>>
    /\ NoHello(events)
    /\ Up /\ srv \in Early => cli = "hello" /\ NoHello(wire)
    /\ srv \in Late /\ cli = "hello" => wire # <<>>
    /\ HelloFirst(wire, cli)

\* T is the owner map window 1 renders by, or another is on its way.
Cur(T) ==
    \/ main = "broadcast" \/ ~servedTo
    \/ main = "decide" /\ T = OwnershipFor(snap, TRUE)
    \/ T = mine

ToldCur == \E T : LastTold = {T} /\ Cur(T)

ToldInv ==
    /\ srv = "decided" /\ Up /\ ~Doomed => Cur(hs.owner)
    /\ srv \in Late /\ Up /\ ~Doomed /\ "lost" \notin faults => ToldCur

AgreeInv == MainInv /\ HelloInv /\ ToldInv

LEMMA AgreeInit == Init => AgreeInv
<1> SUFFICES ASSUME Init PROVE AgreeInv
  OBVIOUS
<1>1. MainInv
  BY DEF Init, MainInv, Late
<1>2. HelloInv
  BY ToldNothing, NoFrames DEF Init, HelloInv, Up, NoHello, HelloFirst, Early, Late
<1>3. ToldInv
  BY DEF Init, ToldInv, Up, Late
<1> QED
  BY <1>1, <1>2, <1>3 DEF AgreeInv

\* Window 1's own part.
LEMMA MainKeeps == MainInv /\ Main => MainInv'
<1> SUFFICES ASSUME MainInv, Main PROVE MainInv'
  OBVIOUS
<1> USE DEF server, decide, sends, MainInv
<1>1. ASSUME NEW a \in Agent, MoveGroup(a) PROVE MainInv'
  BY <1>1 DEF MoveGroup, Operation
<1>2. ASSUME NEW a \in Agent, AddAgent(a) PROVE MainInv'
  BY <1>2 DEF AddAgent, Operation
<1>3. ASSUME NEW a \in Agent, RemoveAgent(a) PROVE MainInv'
  BY <1>3 DEF RemoveAgent, Operation
<1>4. CASE Relayout \/ OnAttached \/ Broadcast
  BY <1>4 DEF Relayout, OnAttached, Broadcast, Inputs
<1>5. CASE Announce
  BY <1>5 DEF Announce
<1>6. CASE Publish
  BY <1>6 DEF Publish, Inputs
<1>7. CASE Decide
  <2>1. Inputs' = Inputs /\ UNCHANGED <<snap, attached, srv, peer>> /\ snap = Inputs
    BY <1>7 DEF Decide, Inputs
  <2>2. srv = "live" => Connected
    BY DEF Connected, Late
  <2>3. Connected \in BOOLEAN
    BY DEF Connected
  <2> QED
    BY <1>7, <2>1, <2>2, <2>3 DEF Decide
<1> QED
  BY <1>1, <1>2, <1>3, <1>4, <1>5, <1>6, <1>7 DEF Main

\* Everyone else leaves window 1's decision alone.
OfMain == <<main, mine, servedTo, snap, served, assigned>>

LEMMA OthersKeep == MainInv /\ (Announcer \/ Serve \/ Viewer) => MainInv' /\ UNCHANGED OfMain
<1> SUFFICES ASSUME MainInv, Announcer \/ Serve \/ Viewer PROVE MainInv' /\ UNCHANGED OfMain
  OBVIOUS
<1> USE DEF server, decide, sends, window1, OfMain
<1>1. CASE Announcer
  <2>1. UNCHANGED OfMain /\ UNCHANGED <<srv, peer, attached>>
    BY <1>1 DEF Announcer, SendAdded, SkipAdded, OpenPushed, SendRemoved
  <2> QED
    BY <2>1 DEF MainInv, Inputs
<1>2. CASE Serve
  <2>1. UNCHANGED OfMain
    BY <1>2 DEF Serve, Register, ListPanes, DecideForPeer, SendHelloOK, OpenStreams, SendStreamMap,
                Attach, Leave, OldLeaves, Handler
  <2>2. /\ srv' \in {"registered", "listed", "decided"} \cup Late => peer' = "current"
        /\ srv' = "live" => attached' \/ main = "decide" \/ servedTo
    BY <1>2 DEF Serve, Register, ListPanes, DecideForPeer, SendHelloOK, OpenStreams, SendStreamMap,
                Attach, Leave, OldLeaves, Handler, MainInv, Late
  <2> QED
    BY <2>1, <2>2 DEF MainInv, Inputs
<1>3. CASE Viewer
  <2>1. UNCHANGED OfMain /\ attached' = attached
    BY <1>3 DEF Viewer, Dial, SessionEnds, GivesUp, ReadHelloOK, ReadOther, ReadStreamMap,
                LeaveBuffered, StartMux, AcceptMapped,
                MuxReads, OfferStream, TakeAnnouncements, TakeOwnership, TakeRemoved, Expire
  <2>2. UNCHANGED <<srv, peer>> \/ srv' = "ctrl"
    BY <1>3 DEF Viewer, Dial, SessionEnds, GivesUp, ReadHelloOK, ReadOther, ReadStreamMap,
                LeaveBuffered, StartMux, AcceptMapped,
                MuxReads, OfferStream, TakeAnnouncements, TakeOwnership, TakeRemoved, Expire
  <2> QED
    BY <2>1, <2>2 DEF MainInv, Inputs, Late
<1> QED
  BY <1>1, <1>2, <1>3

\* What was current stays so, whatever window 1 does but the broadcast itself.
LEMMA CurKept ==
    ASSUME MainInv, UNCHANGED OfMain \/ (Main /\ ~Broadcast)
    PROVE  \A T : Cur(T) => Cur(T)'
<1> USE DEF server, decide, sends, OfMain, Cur
<1>1. CASE UNCHANGED OfMain
  BY <1>1
<1>2. CASE Main /\ ~Broadcast
  <2>1. CASE Decide
    BY <2>1 DEF Decide, MainInv, Connected
  <2>2. CASE ~Decide
    BY <1>2, <2>2 DEF Main, MoveGroup, AddAgent, RemoveAgent, Operation, Relayout, OnAttached,
                      Announce, Publish
  <2> QED
    BY <2>1, <2>2
<1> QED
  BY <1>1, <1>2

\* A frame more, and it is no answer to a hello.
LEMMA HelloMore ==
    ASSUME NEW w, HasLast(w), NEW c, NEW f, f.kind # "hello_ok"
    PROVE  /\ HelloFirst(w, c) => HelloFirst(w \o <<f>>, c)
           /\ NoHello(w) => NoHello(w \o <<f>>)
           /\ NoHello(w) /\ c = "hello" => DoomedBy(w \o <<f>>, c)
           /\ DoomedBy(w, c) => DoomedBy(w \o <<f>>, c)
           /\ w \o <<f>> # <<>>
<1> DEFINE v == w \o <<f>>
           n == Len(w)
<1>1. /\ n \in Nat /\ DOMAIN w = 1..n /\ DOMAIN v = 1..(n + 1)
      /\ \A i \in 1..n : v[i] = w[i]
      /\ v[n + 1] = f
  BY FrameAdded DEF HasLast
<1>2. v # <<>> /\ (w # <<>> => n >= 1)
  <2>1. 1 \in DOMAIN v /\ DOMAIN <<>> = {}
    BY <1>1, NoFrames
  <2>2. w # <<>> => 1 \in DOMAIN w
    BY FrameTaken DEF HasLast
  <2> QED
    BY <1>1, <2>1, <2>2
<1> HIDE DEF v, n
<1>3. \A i \in 1..(n + 1) : i \in 1..n \/ i = n + 1
  BY <1>1
<1>4. NoHello(w) => NoHello(v)
  BY <1>1, <1>3 DEF NoHello
<1>5. NoHello(w) /\ c = "hello" => DoomedBy(v, c)
  BY <1>1, <1>2, <1>4 DEF NoHello, DoomedBy
<1>6. DoomedBy(w, c) => DoomedBy(v, c)
  BY <1>1, <1>2 DEF DoomedBy
<1>7. HelloFirst(w, c) => HelloFirst(v, c)
  BY <1>1, <1>3, <1>6 DEF HelloFirst
<1> QED
  BY <1>2, <1>4, <1>5, <1>6, <1>7 DEF v

\* A frame less.
LEMMA HelloLess ==
    ASSUME NEW w, HasLast(w), w # <<>>
    PROVE  /\ 1 \in DOMAIN w /\ Head(w) = w[1]
           /\ \A i \in DOMAIN Tail(w) : i \in Nat \ {0} /\ i + 1 \in DOMAIN w /\ Tail(w)[i] = w[i + 1]
           /\ NoHello(w) => NoHello(Tail(w))
<1>1. /\ Len(w) \in Nat \ {0} /\ DOMAIN w = 1..Len(w) /\ Head(w) = w[1]
      /\ DOMAIN Tail(w) = 1..(Len(w) - 1)
      /\ \A i \in 1..(Len(w) - 1) : Tail(w)[i] = w[i + 1]
  BY FrameTaken DEF HasLast
<1>2. \A i \in DOMAIN Tail(w) : i \in Nat \ {0} /\ i + 1 \in DOMAIN w /\ Tail(w)[i] = w[i + 1]
  BY <1>1
<1> QED
  BY <1>1, <1>2 DEF NoHello

\* A step that leaves what is told alone, or moves the handler on without telling.
LEMMA NothingTold ==
    ASSUME AgreeInv, UNCHANGED <<wire, events, cli, pre, owner>>,
           "lost" \in faults => "lost" \in faults', \A T : Cur(T) => Cur(T)',
           \/ srv' = srv
           \/ srv \in Early /\ srv' \in Early
           \/ srv \in Late /\ srv' \in Late
           \/ ~Up /\ srv' = "none",
           srv' = "decided" /\ Up /\ ~Doomed => Cur(hs.owner)'
    PROVE  HelloInv' /\ ToldInv'
<1>1. Up' = Up /\ Doomed' = Doomed /\ LastTold' = LastTold
  BY DEF Up, Doomed, LastTold
<1>2. HelloInv'
  BY <1>1 DEF AgreeInv, HelloInv, Early, Late
<1>3. srv' \in Late /\ Up => srv \in Late
  BY DEF Early, Late
<1>4. ToldCur => ToldCur'
  BY <1>1 DEF ToldCur
<1>5. (srv \in Late /\ Up /\ ~Doomed /\ "lost" \notin faults => ToldCur)
  BY DEF AgreeInv, ToldInv
<1>6. (srv' = "decided" /\ Up /\ ~Doomed => Cur(hs.owner)')
  OBVIOUS
<1> QED
  BY <1>1, <1>2, <1>3, <1>4, <1>5, <1>6 DEF ToldInv

\* A frame without an owner map is sent.
LEMMA PlainSent ==
    ASSUME AgreeInv, NEW f, Write(<<f>>), f.kind \notin {"hello_ok", "ownership"},
           UNCHANGED <<events, cli, pre, owner>>,
           "lost" \in faults => "lost" \in faults', \A T : Cur(T) => Cur(T)',
           srv' = srv \/ (srv \in Late /\ srv' \in Late),
           srv' = "decided" => hs'.owner = hs.owner
    PROVE  HelloInv' /\ ToldInv'
<1>1. CASE ~Up
  <2>1. UNCHANGED <<wire>>
    BY <1>1 DEF Write
  <2> QED
    BY <1>1, <2>1, NothingTold
<1>2. CASE Up
  <2>1. wire' = wire \o <<f>> /\ Up'
    BY <1>2 DEF Write, Up
  <2>2. HasLast(wire) /\ HelloFirst(wire, cli)
    BY DEF AgreeInv, HelloInv
  <2>3. HasLast(wire') /\ Told(wire') = Told(wire)
    BY <2>1, <2>2, ToldMore
  <2>4. /\ HelloFirst(wire', cli) /\ wire' # <<>>
        /\ NoHello(wire) => NoHello(wire')
        /\ Doomed => Doomed'
    BY <2>1, <2>2, HelloMore DEF Doomed
  <2>5. HelloInv'
    BY <1>2, <2>1, <2>3, <2>4 DEF AgreeInv, HelloInv, Early, Late
  <2>6. LastTold' = LastTold
    BY <2>3 DEF LastTold
  <2>7. ToldCur => ToldCur'
    BY <2>6 DEF ToldCur
  <2>8. srv' = "decided" /\ ~Doomed' => Cur(hs.owner)'
    <3> SUFFICES ASSUME srv' = "decided", ~Doomed' PROVE Cur(hs.owner)'
      OBVIOUS
    <3>1. srv = "decided" /\ hs'.owner = hs.owner /\ ~Doomed
      BY <2>4 DEF Late
    <3>2. Cur(hs.owner)
      BY <1>2, <3>1 DEF AgreeInv, ToldInv
    <3>3. \A T : T = hs.owner /\ Cur(T) => Cur(T)'
      OBVIOUS
    <3> QED
      BY <3>1, <3>2, <3>3 DEF Cur
  <2>9. srv' \in Late /\ ~Doomed' /\ "lost" \notin faults' => ToldCur'
    <3> SUFFICES ASSUME srv' \in Late, ~Doomed', "lost" \notin faults' PROVE ToldCur'
      OBVIOUS
    <3>1. srv \in Late /\ ~Doomed /\ "lost" \notin faults
      BY <2>4
    <3> QED
      BY <1>2, <2>7, <3>1 DEF AgreeInv, ToldInv
  <2> QED
    BY <2>5, <2>8, <2>9 DEF ToldInv
<1> QED
  BY <1>1, <1>2

LEMMA BroadcastTells == AgreeInv /\ Broadcast => HelloInv' /\ ToldInv'
<1> SUFFICES ASSUME AgreeInv, Broadcast PROVE HelloInv' /\ ToldInv'
  OBVIOUS
<1> USE DEF server, decide, sends, viewer, mux, binder
<1>1. /\ UNCHANGED <<mine, servedTo, snap, srv, hs, events, cli, pre, owner>> /\ main' = "idle"
      /\ IF srv = "none" THEN wire' = wire ELSE Write(<<Ownership(mine)>>)
  BY DEF Broadcast
<1>2. Up' = Up
  BY <1>1 DEF Up
<1>3. CASE ~Up
  <2>1. wire' = wire
    BY <1>1, <1>3 DEF Write
  <2> QED
    BY <1>1, <1>2, <1>3, <2>1 DEF AgreeInv, HelloInv, ToldInv
<1>4. CASE Up
  <2> DEFINE f == Ownership(mine)
  <2>1. srv # "none"
    BY <1>4 DEF AgreeInv, HelloInv
  <2>2. wire' = wire \o <<f>>
    BY <1>1, <1>4, <2>1 DEF Write
  <2>3. f.kind = "ownership" /\ f.owner = mine
    BY DEF Ownership
  <2>4. HasLast(wire) /\ HelloFirst(wire, cli)
    BY DEF AgreeInv, HelloInv
  <2> HIDE DEF f
  <2>5. HasLast(wire') /\ Told(wire') = {mine}
    BY <2>2, <2>3, <2>4, ToldMore
  <2>6. /\ HelloFirst(wire', cli) /\ wire' # <<>>
        /\ NoHello(wire) => NoHello(wire')
        /\ NoHello(wire) /\ cli = "hello" => DoomedBy(wire', cli)
    BY <2>2, <2>3, <2>4, HelloMore
  <2>7. HelloInv'
    BY <1>1, <1>2, <1>4, <2>5, <2>6 DEF AgreeInv, HelloInv
  <2>8. srv = "decided" => Doomed'
    BY <1>1, <1>4, <2>6 DEF AgreeInv, HelloInv, Early, Doomed
  <2>9. ToldCur'
    <3>1. LastTold' = {mine}
      BY <2>5 DEF LastTold
    <3>2. Cur(mine)'
      BY DEF Cur
    <3> QED
      BY <1>1, <3>1, <3>2 DEF ToldCur, Cur
  <2> QED
    BY <1>1, <2>7, <2>8, <2>9 DEF ToldInv
<1> QED
  BY <1>3, <1>4

LEMMA MainTells == AgreeInv /\ Main => HelloInv' /\ ToldInv'
<1> SUFFICES ASSUME AgreeInv, Main, ~Broadcast PROVE HelloInv' /\ ToldInv'
  BY BroadcastTells
<1>1. \A T : Cur(T) => Cur(T)'
  BY CurKept DEF AgreeInv
<1>2. UNCHANGED <<wire, events, cli, pre, owner, srv, hs, faults>>
  BY DEF Main, MoveGroup, AddAgent, RemoveAgent, Operation, Relayout, OnAttached, Announce, Publish,
         Decide, server, link, viewer, mux, binder
<1>3. srv' = "decided" /\ Up /\ ~Doomed => Cur(hs.owner)'
  <2>1. srv = "decided" /\ Up /\ ~Doomed => Cur(hs.owner)
    BY DEF AgreeInv, ToldInv
  <2>2. \A T : T = hs.owner /\ Cur(T) => Cur(T)'
    BY <1>1
  <2> QED
    BY <1>2, <2>1, <2>2 DEF Cur
<1> QED
  BY <1>1, <1>2, <1>3, NothingTold

LEMMA AnnouncerTells == AgreeInv /\ Announcer => HelloInv' /\ ToldInv'
<1> SUFFICES ASSUME AgreeInv, Announcer PROVE HelloInv' /\ ToldInv'
  OBVIOUS
<1> USE DEF server, decide, sends, viewer, mux, binder, link
<1>1. \A T : Cur(T) => Cur(T)'
  BY OthersKeep, CurKept DEF AgreeInv
<1>2. UNCHANGED <<events, cli, pre, owner, srv, hs>>
  BY DEF Announcer, SendAdded, SkipAdded, OpenPushed, SendRemoved
<1>3. "lost" \in faults => "lost" \in faults'
  BY DEF Announcer, SendAdded, SkipAdded, OpenPushed, SendRemoved, Crossing
<1>4. CASE wire' = wire
  <2>1. srv' = "decided" /\ Up /\ ~Doomed => Cur(hs.owner)'
    <3>1. srv = "decided" /\ Up /\ ~Doomed => Cur(hs.owner)
      BY DEF AgreeInv, ToldInv
    <3>2. \A T : T = hs.owner /\ Cur(T) => Cur(T)'
      BY <1>1
    <3> QED
      BY <1>2, <3>1, <3>2 DEF Cur
  <2> QED
    BY <1>1, <1>2, <1>3, <1>4, <2>1, NothingTold
<1>5. ASSUME NEW f, f.kind \notin {"hello_ok", "ownership"}, Write(<<f>>)
      PROVE  HelloInv' /\ ToldInv'
  BY <1>1, <1>2, <1>3, <1>5, PlainSent
<1>6. CASE SendAdded
  <2>1. [kind |-> "added", pane |-> ann].kind \notin {"hello_ok", "ownership"}
    OBVIOUS
  <2>2. Write(<<[kind |-> "added", pane |-> ann]>>)
    BY <1>6 DEF SendAdded
  <2> QED
    BY <1>5, <2>1, <2>2
<1>7. ASSUME NEW a \in Agent, SkipAdded(a) \/ OpenPushed(a) PROVE wire' = wire
  BY <1>7 DEF SkipAdded, OpenPushed
<1>8. ASSUME NEW a \in Agent, SendRemoved(a) PROVE HelloInv' /\ ToldInv'
  <2>1. [kind |-> "removed", name |-> a].kind \notin {"hello_ok", "ownership"}
    OBVIOUS
  <2>2. wire' = wire \/ Write(<<[kind |-> "removed", name |-> a]>>)
    BY <1>8 DEF SendRemoved
  <2> QED
    BY <1>4, <1>5, <2>1, <2>2
<1> QED
  BY <1>4, <1>6, <1>7, <1>8 DEF Announcer

LEMMA HelloTells == AgreeInv /\ SendHelloOK => HelloInv' /\ ToldInv'
<1> SUFFICES ASSUME AgreeInv, SendHelloOK PROVE HelloInv' /\ ToldInv'
  OBVIOUS
<1> DEFINE f == [kind |-> "hello_ok", owner |-> hs.owner]
<1>1. /\ srv = "decided" /\ srv' = "greeted" /\ Write(<<f>>)
      /\ UNCHANGED <<events, cli, pre, owner, faults>> /\ UNCHANGED OfMain
  BY DEF SendHelloOK, Handler, viewer, mux, binder, window1, decide, OfMain
<1>2. Up' = Up /\ f.kind = "hello_ok" /\ f.owner = hs.owner
  BY <1>1 DEF Up
<1> HIDE DEF f
<1>3. CASE ~Up
  <2>1. wire' = wire /\ cli = "off"
    BY <1>1, <1>3 DEF Write, Up
  <2> QED
    BY <1>1, <1>2, <1>3, <2>1 DEF AgreeInv, HelloInv, ToldInv, Early, Late
<1>4. CASE Up
  <2>1. wire' = wire \o <<f>>
    BY <1>1, <1>4 DEF Write
  <2>2. HasLast(wire) /\ NoHello(wire) /\ cli = "hello"
    BY <1>1, <1>4 DEF AgreeInv, HelloInv, Early
  <2>3. HasLast(wire') /\ Told(wire') = {hs.owner}
    BY <1>2, <2>1, <2>2, ToldMore
  <2>4. /\ Len(wire) \in Nat /\ DOMAIN wire = 1..Len(wire) /\ DOMAIN wire' = 1..(Len(wire) + 1)
        /\ \A i \in 1..Len(wire) : wire'[i] = wire[i]
        /\ wire'[Len(wire) + 1] = f
    BY <2>1, <2>2, FrameAdded DEF HasLast
  <2>5. wire' # <<>>
    <3>1. Len(wire) + 1 \in DOMAIN wire' /\ DOMAIN <<>> = {}
      BY <2>4, NoFrames
    <3> QED
      BY <3>1
  <2>6. CASE wire = <<>>
    <3>1. Len(wire) = 0
      BY <2>6, NoFrames
    <3>2. \A i \in DOMAIN wire' : i = 1
      BY <2>4, <3>1
    <3>3. HelloFirst(wire', cli)
      BY <2>2, <3>2 DEF HelloFirst
    <3>4. ~Doomed
      BY <2>6 DEF Doomed, DoomedBy
    <3> QED
      <4>1. HelloInv'
        BY <1>1, <1>2, <1>4, <2>2, <2>3, <2>5, <3>3 DEF AgreeInv, HelloInv, Early
      <4>2. Cur(hs.owner)
        BY <1>1, <1>4, <3>4 DEF AgreeInv, ToldInv
      <4>3. LastTold' = {hs.owner}
        BY <2>3 DEF LastTold
      <4>4. ToldCur'
        BY <1>1, <4>2, <4>3 DEF ToldCur, Cur, OfMain
      <4> QED
        BY <1>1, <4>1, <4>4 DEF ToldInv
  <2>7. CASE wire # <<>>
    <3>1. 1 \in DOMAIN wire
      BY <2>2, <2>7, HelloLess
    <3>2. wire'[1] = wire[1] /\ wire[1].kind # "hello_ok"
      BY <2>2, <2>4, <3>1 DEF NoHello
    <3>3. DoomedBy(wire', cli)
      BY <2>2, <2>5, <3>2 DEF DoomedBy
    <3>4. HelloInv'
      BY <1>1, <1>2, <1>4, <2>2, <2>3, <2>5, <3>3 DEF AgreeInv, HelloInv, HelloFirst, Early
    <3> QED
      BY <1>1, <3>3, <3>4 DEF ToldInv, Doomed
  <2> QED
    BY <2>6, <2>7
<1> QED
  BY <1>3, <1>4

LEMMA ServeTells == AgreeInv /\ Serve => HelloInv' /\ ToldInv'
<1> SUFFICES ASSUME AgreeInv, Serve PROVE HelloInv' /\ ToldInv'
  OBVIOUS
<1> USE DEF server, decide, sends, viewer, mux, binder, link, window1
<1>1. UNCHANGED OfMain /\ \A T : Cur(T) => Cur(T)'
  BY OthersKeep, CurKept DEF AgreeInv
<1>2. CASE DecideForPeer
  <2>1. /\ srv = "listed" /\ srv' = "decided" /\ UNCHANGED <<wire, events, cli, pre, owner, faults>>
        /\ hs' = [hs EXCEPT !.owner = OwnershipFor(snap, TRUE)]
    BY <1>2 DEF DecideForPeer, Handler
  <2>2. Cur(OwnershipFor(snap, TRUE))
    BY DEF AgreeInv, MainInv, Cur
  <2>3. hs'.owner = OwnershipFor(snap, TRUE)
    BY <2>1
  <2>4. Cur(hs.owner)'
    BY <1>1, <2>2, <2>3 DEF Cur, OfMain
  <2> QED
    BY <1>1, <2>1, <2>4, NothingTold DEF Early
<1>3. CASE SendHelloOK
  BY <1>3, HelloTells
<1>4. CASE SendStreamMap
  <2>1. /\ srv = "opened" /\ srv' = "mapped" /\ UNCHANGED <<events, cli, pre, owner, faults>>
        /\ Write(<<[kind |-> "map", ids |-> hs.ids]>>)
    BY <1>4 DEF SendStreamMap, Handler
  <2>2. [kind |-> "map", ids |-> hs.ids].kind \notin {"hello_ok", "ownership"}
    OBVIOUS
  <2> QED
    BY <1>1, <2>1, <2>2, PlainSent DEF Late
<1>5. CASE Register \/ ListPanes \/ OpenStreams \/ Attach \/ Leave \/ OldLeaves
  <2>1. /\ UNCHANGED <<wire, events, cli, pre, owner>>
        /\ "lost" \in faults => "lost" \in faults'
        /\ \/ srv' = srv /\ hs' = hs
           \/ srv \in Early /\ srv' \in Early \ {"decided"}
           \/ srv \in Late /\ srv' \in Late
           \/ ~Up /\ srv' = "none"
    BY <1>5 DEF Register, ListPanes, OpenStreams, Attach, Leave, OldLeaves, Handler, Early, Late
  <2>2. srv' = "decided" /\ Up /\ ~Doomed => Cur(hs.owner)'
    <3> SUFFICES ASSUME srv' = "decided", Up, ~Doomed PROVE Cur(hs.owner)'
      OBVIOUS
    <3>1. hs' = hs /\ srv = "decided"
      BY <2>1 DEF Early, Late
    <3>2. Cur(hs.owner)
      BY <3>1 DEF AgreeInv, ToldInv
    <3>3. \A T : T = hs.owner /\ Cur(T) => Cur(T)'
      BY <1>1
    <3> QED
      BY <3>1, <3>2, <3>3 DEF Cur
  <2> QED
    BY <1>1, <2>1, <2>2, NothingTold
<1> QED
  BY <1>2, <1>3, <1>4, <1>5 DEF Serve

\* The session's end: nothing is told any more.
LEMMA EndTells == AgreeInv /\ GivesUp => HelloInv' /\ ToldInv'
<1> SUFFICES ASSUME AgreeInv, GivesUp PROVE HelloInv' /\ ToldInv'
  OBVIOUS
<1>1. cli' = "off" /\ wire' = <<>> /\ events' = <<>>
  BY DEF GivesUp
<1> QED
  BY <1>1, ToldNothing, NoFrames DEF HelloInv, ToldInv, Up, NoHello, HelloFirst

\* A step of the viewer's that leaves the last owner map it will have.
LEMMA ToldStays ==
    ASSUME AgreeInv, UNCHANGED OfMain, UNCHANGED <<srv, hs>>, HelloInv',
           Up, ~Doomed, ToldCur => LastTold' = LastTold,
           "lost" \in faults => "lost" \in faults'
    PROVE  ToldInv'
<1>1. \A T : Cur(T) => Cur(T)'
  BY CurKept DEF AgreeInv
<1>2. srv = "decided" => Cur(hs.owner)
  BY DEF AgreeInv, ToldInv
<1>3. srv = "decided" => Cur(hs.owner)'
  <2>1. \A T : T = hs.owner /\ Cur(T) => Cur(T)'
    BY <1>1
  <2> QED
    BY <1>2, <2>1 DEF Cur
<1>4. srv \in Late /\ "lost" \notin faults => ToldCur
  BY DEF AgreeInv, ToldInv
<1>5. ToldCur => ToldCur'
  BY <1>1 DEF ToldCur
<1> QED
  BY <1>3, <1>4, <1>5 DEF ToldInv

LEMMA ReadHelloTells == AgreeInv /\ ReadHelloOK => HelloInv' /\ ToldInv'
<1> SUFFICES ASSUME AgreeInv, ReadHelloOK PROVE HelloInv' /\ ToldInv'
  OBVIOUS
<1>1. /\ cli = "hello" /\ cli' = "map" /\ wire # <<>> /\ wire' = Tail(wire)
      /\ Head(wire).kind = "hello_ok" /\ pre' = Head(wire).owner
      /\ UNCHANGED <<srv, hs, events, owner, faults>> /\ UNCHANGED OfMain
  BY DEF ReadHelloOK, Reads, Frame, server, mux, binder, window1, decide, OfMain
<1>2. HasLast(wire) /\ HelloFirst(wire, cli) /\ events = <<>> /\ Up
  BY <1>1 DEF AgreeInv, HelloInv, Up
<1>3. /\ 1 \in DOMAIN wire /\ Head(wire) = wire[1]
      /\ \A i \in DOMAIN wire' : i \in Nat \ {0} /\ i + 1 \in DOMAIN wire /\ wire'[i] = wire[i + 1]
  BY <1>1, <1>2, HelloLess
<1>4. ~Doomed /\ ~NoHello(wire)
  BY <1>1, <1>3 DEF Doomed, DoomedBy, NoHello
<1>5. HasLast(wire') /\ NoHello(wire')
  <2>1. \A i \in DOMAIN wire : wire[i].kind = "hello_ok" => i = 1
    BY <1>2, <1>4 DEF HelloFirst, Doomed
  <2>2. NoHello(wire')
    BY <1>3, <2>1 DEF NoHello
  <2> QED
    BY <1>1, <1>2, <2>2, ToldLess
<1>6. HelloInv'
  BY <1>1, <1>2, <1>4, <1>5 DEF AgreeInv, HelloInv, Up, Early, Late, HelloFirst, NoHello
<1>7. LastTold' = LastTold
  <2>1. Told(wire) = IF Told(wire') # {} THEN Told(wire') ELSE {pre'}
    BY <1>1, <1>2, ToldLess
  <2>2. Told(events') = {}
    BY <1>1, <1>2, ToldNothing
  <2> QED
    BY <1>1, <2>1, <2>2 DEF LastTold
<1> QED
  BY <1>1, <1>2, <1>4, <1>6, <1>7, ToldStays

\* Past the hello nothing is a hello_ok, and the connection is not given up for one.
LEMMA PastHello ==
    ASSUME AgreeInv, cli \in {"map", "mux", "accept", "run"}
    PROVE  /\ HasLast(wire) /\ HasLast(events) /\ NoHello(wire) /\ NoHello(events)
           /\ Up /\ ~Doomed /\ srv \notin Early
BY DEF AgreeInv, HelloInv, HelloFirst, NoHello, Up, Doomed, DoomedBy

\* And then it stays so.
LEMMA StillPast ==
    ASSUME AgreeInv, cli \in {"map", "mux", "accept", "run"}, cli' \in {"map", "mux", "accept", "run"},
           HasLast(wire'), NoHello(wire'), HasLast(events'), NoHello(events'), srv' = srv,
           cli' = "map" => events' = <<>>
    PROVE  HelloInv'
<1>1. srv \notin Early /\ srv # "none"
  BY PastHello DEF AgreeInv, HelloInv
<1> QED
  BY <1>1 DEF HelloInv, HelloFirst, NoHello, Up

LEMMA ReadMapTells == AgreeInv /\ ReadStreamMap => HelloInv' /\ ToldInv'
<1> SUFFICES ASSUME AgreeInv, ReadStreamMap PROVE HelloInv' /\ ToldInv'
  OBVIOUS
<1>1. /\ cli = "map" /\ cli' \in {"map", "mux"} /\ wire # <<>> /\ wire' = Tail(wire)
      /\ pre' = IF Head(wire).kind = "ownership" THEN Head(wire).owner ELSE pre
      /\ UNCHANGED <<srv, hs, events, owner, faults>> /\ UNCHANGED OfMain
  BY DEF ReadStreamMap, Reads, Frame, server, mux, binder, window1, decide, OfMain
<1>2. /\ HasLast(wire) /\ NoHello(wire) /\ HasLast(events) /\ NoHello(events)
      /\ events = <<>> /\ Up /\ ~Doomed
  BY <1>1, PastHello DEF AgreeInv, HelloInv
<1>3. Head(wire).kind # "hello_ok" /\ NoHello(wire')
  BY <1>1, <1>2, HelloLess DEF NoHello
<1>4. /\ HasLast(wire')
      /\ Told(wire) = IF Told(wire') # {} \/ Head(wire).kind # "ownership"
                        THEN Told(wire') ELSE {Head(wire).owner}
  BY <1>1, <1>2, <1>3, ToldLess
<1>5. HelloInv'
  BY <1>1, <1>2, <1>3, <1>4, StillPast
<1>6. LastTold' = LastTold
  <2>1. Told(events) = {}
    BY <1>2, ToldNothing
  <2> QED
    BY <1>1, <1>4, <2>1 DEF LastTold
<1> QED
  BY <1>1, <1>2, <1>5, <1>6, ToldStays

\* A frame that was read along with the stream map.
LEMMA LeaveTells == AgreeInv /\ LeaveBuffered => HelloInv' /\ ToldInv'
<1> SUFFICES ASSUME AgreeInv, LeaveBuffered PROVE HelloInv' /\ ToldInv'
  OBVIOUS
<1>1. /\ cli = "mux" /\ cli' = "mux" /\ wire # <<>> /\ wire' = Tail(wire)
      /\ UNCHANGED <<srv, hs, events, pre, owner>> /\ UNCHANGED OfMain
      /\ faults' = faults \cup Lost(Head(wire))
  BY DEF LeaveBuffered, Reads, Frame, server, mux, binder, window1, decide, OfMain
<1>2. HasLast(wire) /\ NoHello(wire) /\ HasLast(events) /\ NoHello(events) /\ Up /\ ~Doomed
  BY <1>1, PastHello
<1>3. Head(wire).kind # "hello_ok" /\ NoHello(wire')
  BY <1>1, <1>2, HelloLess DEF NoHello
<1>4. HasLast(wire') /\ (Head(wire).kind # "ownership" => Told(wire) = Told(wire'))
  BY <1>1, <1>2, <1>3, ToldLess
<1>5. HelloInv'
  BY <1>1, <1>2, <1>3, <1>4, StillPast
<1>6. CASE Head(wire).kind = "ownership"
  <2>1. "lost" \in faults' /\ srv' # "decided"
    BY <1>1, <1>6, PastHello DEF Lost, Early
  <2> QED
    BY <1>5, <2>1 DEF ToldInv
<1>7. CASE Head(wire).kind # "ownership"
  <2>1. LastTold' = LastTold
    BY <1>1, <1>4, <1>7 DEF LastTold
  <2>2. "lost" \in faults => "lost" \in faults'
    BY <1>1
  <2> QED
    BY <1>1, <1>2, <1>5, <2>1, <2>2, ToldStays
<1> QED
  BY <1>6, <1>7

LEMMA MuxTells == AgreeInv /\ MuxReads => HelloInv' /\ ToldInv'
<1> SUFFICES ASSUME AgreeInv, MuxReads PROVE HelloInv' /\ ToldInv'
  OBVIOUS
<1> DEFINE f == Head(wire)
<1>1. /\ cli \in {"accept", "run"} /\ cli' = cli /\ wire # <<>> /\ wire' = Tail(wire)
      /\ UNCHANGED <<srv, hs, pre, owner>> /\ UNCHANGED OfMain
      /\ IF f.kind = "added" THEN UNCHANGED <<events, faults>>
         ELSE IF Len(events) < EventCap
           THEN events' = Append(events, f) /\ faults' = faults
           ELSE events' = Append(Tail(events), f) /\ faults' = faults \cup Lost(Head(events))
  BY DEF MuxReads, Reads, Frame, server, binder, window1, decide, OfMain
<1>2. /\ HasLast(wire) /\ NoHello(wire) /\ HasLast(events) /\ NoHello(events) /\ Up /\ ~Doomed
  BY <1>1, PastHello
<1>3. f.kind # "hello_ok" /\ NoHello(wire')
  BY <1>1, <1>2, HelloLess DEF NoHello
<1>4. /\ HasLast(wire')
      /\ Told(wire) = IF Told(wire') # {} \/ f.kind # "ownership" THEN Told(wire') ELSE {f.owner}
  BY <1>1, <1>2, <1>3, ToldLess
<1> HIDE DEF f
<1>5. ASSUME NEW q, HasLast(q), NoHello(q), events' = Append(q, f),
             Told(q) = Told(events) \/ "lost" \in faults',
             "lost" \in faults => "lost" \in faults', f.kind # "added"
      PROVE  HelloInv' /\ ToldInv'
  <2>1. Append(q, f) = q \o <<f>>
    BY <1>5, FrameAdded DEF HasLast
  <2>2. /\ HasLast(events') /\ NoHello(events')
        /\ Told(events') = IF f.kind = "ownership" THEN {f.owner} ELSE Told(q)
    <3>1. HasLast(q \o <<f>>) /\ NoHello(q \o <<f>>)
      BY <1>3, <1>5, ToldMore, HelloMore
    <3>2. Told(q \o <<f>>) = IF f.kind \in {"hello_ok", "ownership"} THEN {f.owner} ELSE Told(q)
      BY <1>5, ToldMore
    <3> QED
      BY <1>3, <1>5, <2>1, <3>1, <3>2
  <2>3. HelloInv'
    BY <1>1, <1>2, <1>3, <1>4, <2>2, StillPast
  <2>4. CASE "lost" \notin faults'
    <3>1. LastTold' = LastTold
      BY <1>1, <1>4, <1>5, <2>2, <2>4 DEF LastTold
    <3> QED
      BY <1>1, <1>2, <1>5, <2>3, <3>1, ToldStays
  <2>5. CASE "lost" \in faults'
    <3>1. srv' # "decided"
      BY <1>1, PastHello DEF Early
    <3> QED
      BY <2>3, <2>5, <3>1 DEF ToldInv
  <2> QED
    BY <2>4, <2>5
<1>6. CASE f.kind = "added"
  <2>1. HelloInv'
    BY <1>1, <1>2, <1>3, <1>4, <1>6, StillPast
  <2>2. LastTold' = LastTold
    BY <1>1, <1>4, <1>6 DEF LastTold
  <2> QED
    BY <1>1, <1>2, <1>6, <2>1, <2>2, ToldStays
<1>7. CASE f.kind # "added" /\ Len(events) < EventCap
  BY <1>1, <1>2, <1>5, <1>7
<1>8. CASE f.kind # "added" /\ ~(Len(events) < EventCap)
  <2>1. events # <<>>
    BY <1>8, LinkAssumption, NoFrames
  <2>2. /\ HasLast(Tail(events)) /\ NoHello(Tail(events)) /\ Head(events).kind # "hello_ok"
        /\ Head(events).kind # "ownership" => Told(Tail(events)) = Told(events)
    BY <1>2, <2>1, HelloLess, ToldLess DEF NoHello
  <2>3. Head(events).kind = "ownership" => "lost" \in faults'
    BY <1>1, <1>8 DEF Lost
  <2>4. /\ events' = Append(Tail(events), f)
        /\ "lost" \in faults => "lost" \in faults'
    BY <1>1, <1>8
  <2> QED
    BY <1>5, <1>8, <2>2, <2>3, <2>4
<1> QED
  BY <1>6, <1>7, <1>8

LEMMA EventTells == AgreeInv /\ (TakeOwnership \/ TakeRemoved) => HelloInv' /\ ToldInv'
<1> SUFFICES ASSUME AgreeInv, TakeOwnership \/ TakeRemoved PROVE HelloInv' /\ ToldInv'
  OBVIOUS
<1> DEFINE f == Head(events)
<1>1. /\ cli = "run" /\ cli' = cli /\ events # <<>> /\ events' = Tail(events)
      /\ UNCHANGED <<srv, hs, wire, faults>> /\ UNCHANGED OfMain
      /\ \/ f.kind = "ownership" /\ owner' = f.owner
         \/ f.kind = "removed" /\ owner' = owner
  BY DEF TakeOwnership, TakeRemoved, TakesEvent, server, link, window1, decide, OfMain
<1>2. /\ HasLast(wire) /\ NoHello(wire) /\ HasLast(events) /\ NoHello(events) /\ Up /\ ~Doomed
  BY <1>1, PastHello
<1>3. /\ HasLast(events') /\ NoHello(events')
      /\ Told(events) = IF Told(events') # {} \/ f.kind # "ownership" THEN Told(events') ELSE {f.owner}
  BY <1>1, <1>2, HelloLess, ToldLess DEF NoHello
<1> HIDE DEF f
<1>4. HelloInv'
  BY <1>1, <1>2, <1>3, StillPast
<1>5. LastTold' = LastTold
  BY <1>1, <1>3 DEF LastTold
<1> QED
  BY <1>1, <1>2, <1>4, <1>5, ToldStays

LEMMA ViewerTells == AgreeInv /\ Viewer => HelloInv' /\ ToldInv'
<1> SUFFICES ASSUME AgreeInv, Viewer PROVE HelloInv' /\ ToldInv'
  OBVIOUS
<1> USE DEF server, decide, mux, binder, link, window1
<1>1. CASE Dial
  <2>1. cli = "off" /\ cli' = "hello" /\ srv' = "ctrl" /\ UNCHANGED <<wire, events>>
    BY <1>1 DEF Dial
  <2>2. wire = <<>> /\ events = <<>>
    BY <2>1 DEF AgreeInv, HelloInv, Up
  <2> QED
    BY <2>1, <2>2, ToldNothing, NoFrames
    DEF HelloInv, ToldInv, Up, NoHello, HelloFirst, Early, Late
<1>2. CASE SessionEnds \/ ReadOther
  BY <1>2, EndTells DEF SessionEnds, ReadOther
<1>3. CASE ReadHelloOK \/ ReadStreamMap \/ LeaveBuffered \/ MuxReads \/ TakeOwnership \/ TakeRemoved
  BY <1>3, ReadHelloTells, ReadMapTells, LeaveTells, MuxTells, EventTells
<1>4. CASE StartMux \/ AcceptMapped
  <2>1. /\ \/ cli = "mux" /\ cli' = "accept" /\ pre' = pre
           \/ cli = "accept" /\ cli' = "run" /\ owner' = pre
        /\ UNCHANGED <<wire, events, srv, hs, faults>> /\ UNCHANGED OfMain
    BY <1>4 DEF StartMux, AcceptMapped, OfMain
  <2>2. /\ HasLast(wire) /\ HasLast(events) /\ NoHello(wire) /\ NoHello(events) /\ Up /\ ~Doomed
    BY <2>1, PastHello
  <2>3. HelloInv'
    BY <2>1, <2>2, StillPast
  <2>4. LastTold' = LastTold
    BY <2>1 DEF LastTold
  <2> QED
    BY <2>1, <2>2, <2>3, <2>4, ToldStays
<1>5. CASE OfferStream \/ TakeAnnouncements \/ \E id \in 1 .. Len(opened) : Expire(id)
  <2>1. /\ cli = "run" /\ UNCHANGED <<wire, events, cli, pre, owner, srv, hs>> /\ UNCHANGED OfMain
        /\ "lost" \in faults => "lost" \in faults'
    BY <1>5 DEF OfferStream, TakeAnnouncements, Expire, Claims, OfMain
  <2>2. /\ HasLast(wire) /\ HasLast(events) /\ NoHello(wire) /\ NoHello(events) /\ Up /\ ~Doomed
    BY <2>1, PastHello
  <2>3. HelloInv'
    BY <2>1, <2>2, StillPast
  <2>4. LastTold' = LastTold
    BY <2>1 DEF LastTold
  <2> QED
    BY <2>1, <2>2, <2>3, <2>4, ToldStays
<1> QED
  BY <1>1, <1>2, <1>3, <1>4, <1>5 DEF Viewer

LEMMA AgreeNext == AgreeInv /\ [Next]_vars => AgreeInv'
<1> SUFFICES ASSUME AgreeInv, [Next]_vars PROVE AgreeInv'
  OBVIOUS
<1>1. CASE Main
  BY <1>1, MainKeeps, MainTells DEF AgreeInv
<1>2. CASE Announcer \/ Serve \/ Viewer
  BY <1>2, OthersKeep, AnnouncerTells, ServeTells, ViewerTells DEF AgreeInv
<1>3. CASE UNCHANGED vars
  <2>1. UNCHANGED <<main, mine, servedTo, snap, served, assigned, attached, srv, peer, hs, wire,
                    events, cli, pre, owner, faults>>
    BY <1>3 DEF vars, window1, server, link, viewer, decide, mux
  <2>2. UNCHANGED <<Inputs, Up, Doomed, LastTold>>
    BY <2>1 DEF Inputs, Up, Doomed, LastTold
  <2>3. MainInv' /\ HelloInv'
    BY <2>1, <2>2 DEF AgreeInv, MainInv, HelloInv
  <2>4. ToldCur => ToldCur'
    BY <2>1, <2>2 DEF ToldCur, Cur
  <2>5. ToldInv'
    BY <2>1, <2>2, <2>4 DEF AgreeInv, ToldInv, Cur
  <2> QED
    BY <2>3, <2>5 DEF AgreeInv
<1> QED
  BY <1>1, <1>2, <1>3 DEF Next

\* What a second window has been told, or is about to be, is what window 1 has
\* decided and renders by, through every race of a handshake with a change
\* (internal/tui/partition_authority.go, daemon.go): no agent is rendered by two
\* windows, or by none; but for an owner map that was read along with the stream map
\* or that the event buffer dropped, until the next.
THEOREM OneOwner == Spec => []OwnershipAgrees
<1>1. AgreeInv => OwnershipAgrees
  <2> SUFFICES ASSUME AgreeInv, srv = "live", cli \notin {"off", "hello"}, main = "idle", ~attached,
                      "lost" \notin faults
               PROVE  LastTold = {mine}
    BY DEF OwnershipAgrees
  <2>1. Up /\ ~Doomed /\ srv \in Late
    BY DEF Up, Doomed, DoomedBy, Late
  <2>2. PICK T : LastTold = {T} /\ Cur(T)
    BY <2>1 DEF AgreeInv, ToldInv, ToldCur
  <2> QED
    BY <2>2 DEF Cur, AgreeInv, MainInv
<1> QED
  BY AgreeInit, AgreeNext, <1>1, PTL DEF Spec
-----------------------------------------------------------------------------
(* One pane for each agent: what is on its way from an agent served to a pane. *)

\* Nothing has gone wrong on this connection but an owner map lost.
Clean == faults \subseteq {"lost"}

\* What some frames announce, whom they remove, and the ids of a stream map.
AddedIn(w)   == {w[i].pane : i \in {j \in DOMAIN w : w[j].kind = "added"}}
RemovedIn(w) == {a \in Agent : Removals(w, a) # {}}
MapsIn(w)    == {w[i].ids : i \in {j \in DOMAIN w : w[j].kind = "map"}}

Formed(w) == \A i \in DOMAIN w : w[i].kind = "removed" => w[i] = [kind |-> "removed", name |-> w[i].name]

\* Announcements and removals follow the stream map.
MapFirst(w) == \A i \in DOMAIN w : w[i].kind \in {"added", "removed"} =>
                  \E j \in DOMAIN w : j < i /\ w[j].kind = "map"

\* An agent is announced once at most, and then before it is removed.
AddsOf(w, a) == {i \in DOMAIN w : w[i].kind = "added" /\ w[i].pane.name = a}
Once(w, a)   == \A i \in AddsOf(w, a) : /\ \A j \in AddsOf(w, a) : j = i
                                        /\ \A j \in Removals(w, a) : i < j

Unlisted == {"ctrl", "registered"}
Unopened == {"listed", "decided", "greeted"}
Unmapped == Unlisted \cup Unopened \cup {"opened"}

\* Streams and their halves are those of a session that is up, and past its map.
Stages ==
    /\ ~Up => opened = <<>> /\ ann = NoPane
    /\ cli \in {"off", "hello", "map"} => anns = {}
    /\ cli # "run" => panes = {} /\ expected = {} /\ waiting = {} /\ taken = 0
    /\ taken \in 0 .. Len(opened) /\ waiting \subseteq 1 .. taken
    /\ Formed(wire) /\ Formed(events)

\* The agents are listed once, and an announcement is of one of two kinds.
JobKind == {"added", "removed"}
Listing ==
    /\ NoDup(served)
    /\ main = "announce" => served # <<>>
    /\ jobs \in [Agent -> Seq(JobKind)]
    /\ srv \in {"none"} \cup Early \cup Late
    /\ srv = "ctrl" => peer # "current"

\* Nothing is pushed before the stream map is sent.
Handshake ==
    /\ srv \in Unmapped => /\ cli \in {"hello", "map"} /\ ann = NoPane
                           /\ AddedIn(wire) = {} /\ RemovedIn(wire) = {} /\ MapsIn(wire) = {}
    /\ srv \in Unlisted \cup Unopened => opened = <<>>
    /\ cli \in {"hello", "map"} => /\ MapFirst(wire)
                                   /\ srv \notin Unmapped => MapsIn(wire) # {}

\* Of the agents listed, n have a place in the stream map.
Mapped(n) ==
    /\ srv \in Unopened => n = Len(hs.panes)
    /\ srv \notin Unopened => n <= Len(opened)
    /\ srv = "opened" => n = Len(opened) /\ hs.ids = 1 .. n
    /\ MapsIn(wire) \subseteq {1 .. n}
    /\ cli \in {"mux", "accept"} => map = 1 .. n

\* The panes the viewer has, or will have of the map, and what is announced to it.
Listed(s, n) == {Pane(i, s[i]) : i \in 1 .. n}
Base(n)      == IF cli = "run" THEN panes
                ELSE Listed(IF srv \in Unopened THEN hs.panes ELSE opened, n)
Arrived(n)   == Base(n) \cup anns \cup expected

Has(P, a)  == \E p \in P : p.name = a
Leaving(a) == a \in RemovedIn(wire) \cup RemovedIn(events)
Opening(a) == ann # NoPane /\ ann.name = a

\* Once it has read everything, the viewer has a.
Shows(n, a) == ~Leaving(a) /\ (Has(Arrived(n), a) \/ Has(AddedIn(wire), a))

\* An agent is on its way once, and what removes it comes after.
OnceInv(n) ==
    /\ \A p, q \in Arrived(n) : p.name = q.name => p = q
    /\ \A a \in Agent :
          /\ Opening(a) => ~Shows(n, a)
          /\ Once(wire, a)
          /\ Has(AddedIn(wire), a) => ~Has(Arrived(n), a) /\ a \notin RemovedIn(events)

\* Window 1 announces what the viewer will not have, and what it has removed; in the
\* end the viewer has the agents served.
Will(n, a)    == Shows(n, a) \/ Opening(a)
InTheEnd(n, a) == IF jobs[a] = <<>> THEN Will(n, a) ELSE jobs[a][Len(jobs[a])] = "added"
AboutTo(a)    == main = "announce" /\ a = served[Len(served)]
InTurn(s, w)  == \A k \in DOMAIN s : s[k] = "added" => IF k = 1 THEN ~w ELSE s[k - 1] = "removed"
TurnsInv(n) ==
    \A a \in Agent : /\ InTheEnd(n, a) <=> a \in Elems(served) /\ ~AboutTo(a)
                     /\ InTurn(jobs[a], Will(n, a))

\* A stream accepted before its announcement waits for it.
Comes(n, x) == x.id > n /\ (cli = "run" => x.id > taken \/ x.id \in waiting)
IdsInv(n) ==
    /\ \A x \in expected : x.id > taken
    /\ anns \cap expected = {}
    /\ \A x \in anns \cup AddedIn(wire) : Comes(n, x)
    /\ ann # NoPane =>
          Comes(n, ann) /\ \A x \in anns \cup AddedIn(wire) \cup expected : x.id # ann.id

Pushed(n) == n \in Nat /\ Mapped(n) /\ OnceInv(n) /\ TurnsInv(n) /\ IdsInv(n)

PushInv ==
    /\ Stages /\ Listing
    /\ Up /\ Clean => Handshake /\ (srv \notin Unlisted => \E n : Pushed(n))

-----------------------------------------------------------------------------
(* Frames written and read. *)

LEMMA FramesMore ==
    ASSUME NEW w, IsSeq(w), NEW f
    PROVE  LET v == w \o <<f>> IN
           /\ AddedIn(v) = IF f.kind = "added" THEN AddedIn(w) \cup {f.pane} ELSE AddedIn(w)
           /\ MapsIn(v) = IF f.kind = "map" THEN MapsIn(w) \cup {f.ids} ELSE MapsIn(w)
           /\ RemovedIn(v) = RemovedIn(w) \cup {a \in Agent : f = [kind |-> "removed", name |-> a]}
           /\ Formed(w) /\ (f.kind = "removed" => f = [kind |-> "removed", name |-> f.name])
                 => Formed(v)
           /\ MapFirst(w) /\ (f.kind \in {"added", "removed"} => MapsIn(w) # {}) => MapFirst(v)
           /\ \A a \in Agent :
                 Once(w, a) /\ (f.kind = "added" /\ f.pane.name = a
                                   => ~Has(AddedIn(w), a) /\ a \notin RemovedIn(w))
                    => Once(v, a)
<1> DEFINE v == w \o <<f>>
           n == Len(w)
<1>1. /\ n \in Nat /\ DOMAIN w = 1..n /\ DOMAIN v = 1..(n + 1)
      /\ \A i \in 1..n : v[i] = w[i]
      /\ v[n + 1] = f
  BY FrameAdded
<1> HIDE DEF v, n
<1>2. \A i \in DOMAIN v : i \in DOMAIN w \/ i = n + 1
  BY <1>1
<1>3. \A i \in DOMAIN w : i \in DOMAIN v /\ v[i] = w[i] /\ i \in Nat /\ i < n + 1
  BY <1>1
<1>4. n + 1 \in DOMAIN v /\ n + 1 \in Nat
  BY <1>1
<1>5. AddedIn(v) = IF f.kind = "added" THEN AddedIn(w) \cup {f.pane} ELSE AddedIn(w)
  BY <1>1, <1>2, <1>3, <1>4 DEF AddedIn
<1>6. MapsIn(v) = IF f.kind = "map" THEN MapsIn(w) \cup {f.ids} ELSE MapsIn(w)
  BY <1>1, <1>2, <1>3, <1>4 DEF MapsIn
<1>7. ASSUME NEW a
      PROVE  /\ Removals(v, a) \subseteq Removals(w, a) \cup {n + 1}
             /\ Removals(w, a) \subseteq Removals(v, a)
             /\ n + 1 \in Removals(v, a) <=> f = [kind |-> "removed", name |-> a]
  BY <1>1, <1>2, <1>3, <1>4 DEF Removals
<1>8. RemovedIn(v) = RemovedIn(w) \cup {a \in Agent : f = [kind |-> "removed", name |-> a]}
  BY <1>7 DEF RemovedIn
<1>9. Formed(w) /\ (f.kind = "removed" => f = [kind |-> "removed", name |-> f.name]) => Formed(v)
  BY <1>1, <1>2, <1>3 DEF Formed
<1>10. ASSUME MapFirst(w), f.kind \in {"added", "removed"} => MapsIn(w) # {}
       PROVE  MapFirst(v)
  <2> SUFFICES ASSUME NEW i \in DOMAIN v, v[i].kind \in {"added", "removed"}
               PROVE  \E j \in DOMAIN v : j < i /\ v[j].kind = "map"
    BY DEF MapFirst
  <2>1. CASE i \in DOMAIN w
    BY <1>3, <1>10, <2>1 DEF MapFirst
  <2>2. CASE i = n + 1
    <3>1. PICK j \in DOMAIN w : w[j].kind = "map"
      BY <1>1, <1>10, <2>2 DEF MapsIn
    <3> QED
      BY <1>3, <2>2, <3>1
  <2> QED
    BY <1>2, <2>1, <2>2
<1>11. ASSUME NEW a \in Agent, Once(w, a),
              f.kind = "added" /\ f.pane.name = a => ~Has(AddedIn(w), a) /\ a \notin RemovedIn(w)
       PROVE  Once(v, a)
  <2>1. /\ AddsOf(v, a) \subseteq AddsOf(w, a) \cup {n + 1}
        /\ AddsOf(w, a) \subseteq DOMAIN w
        /\ n + 1 \in AddsOf(v, a) <=> f.kind = "added" /\ f.pane.name = a
    BY <1>1, <1>2, <1>3, <1>4 DEF AddsOf
  <2>2. CASE f.kind = "added" /\ f.pane.name = a
    <3>1. AddsOf(w, a) = {}
      BY <1>11, <2>2 DEF AddsOf, AddedIn, Has
    <3>2. Removals(w, a) = {} /\ n + 1 \notin Removals(v, a)
      BY <1>7, <1>11, <2>2 DEF RemovedIn
    <3> QED
      BY <1>7, <2>1, <3>1, <3>2 DEF Once
  <2>3. CASE ~(f.kind = "added" /\ f.pane.name = a)
    <3>1. AddsOf(v, a) \subseteq AddsOf(w, a)
      BY <2>1, <2>3
    <3>2. \A i \in AddsOf(w, a) : i < n + 1
      BY <1>3, <2>1
    <3> QED
      BY <1>7, <1>11, <3>1, <3>2 DEF Once
  <2> QED
    BY <2>2, <2>3
<1> QED
  BY <1>5, <1>6, <1>8, <1>9, <1>10, <1>11 DEF v

LEMMA FramesLess ==
    ASSUME NEW w, IsSeq(w), w # <<>>
    PROVE  LET f == Head(w)
               t == Tail(w)
           IN
           /\ IsSeq(t)
           /\ AddedIn(w) = IF f.kind = "added" THEN AddedIn(t) \cup {f.pane} ELSE AddedIn(t)
           /\ MapsIn(w) = IF f.kind = "map" THEN MapsIn(t) \cup {f.ids} ELSE MapsIn(t)
           /\ RemovedIn(w) = RemovedIn(t) \cup {a \in Agent : f = [kind |-> "removed", name |-> a]}
           /\ Formed(w) => /\ Formed(t)
                           /\ f.kind = "removed" => f = [kind |-> "removed", name |-> f.name]
           /\ MapFirst(w) => /\ f.kind \notin {"added", "removed"}
                             /\ f.kind # "map" => MapFirst(t)
           /\ \A a \in Agent : Once(w, a) =>
                 /\ Once(t, a)
                 /\ f.kind = "added" /\ f.pane.name = a => ~Has(AddedIn(t), a)
                 /\ f = [kind |-> "removed", name |-> a] => ~Has(AddedIn(w), a)
<1> DEFINE f == Head(w)
           t == Tail(w)
           n == Len(w)
<1>1. /\ IsSeq(t) /\ n \in Nat \ {0} /\ DOMAIN w = 1..n /\ f = w[1] /\ DOMAIN t = 1..(n - 1)
      /\ \A i \in 1..(n - 1) : t[i] = w[i + 1]
  BY FrameTaken
<1> HIDE DEF f, t, n
<1>2. 1 \in DOMAIN w /\ \A i \in DOMAIN w : i \in Nat /\ i >= 1
  BY <1>1
<1>3. \A i \in DOMAIN t : i \in Nat /\ i >= 1 /\ i + 1 \in DOMAIN w /\ t[i] = w[i + 1]
  BY <1>1
<1>4. \A i \in DOMAIN w : i = 1 \/ (i - 1 \in DOMAIN t /\ t[i - 1] = w[i])
  BY <1>1
<1>5. AddedIn(w) = IF f.kind = "added" THEN AddedIn(t) \cup {f.pane} ELSE AddedIn(t)
  BY <1>1, <1>2, <1>3, <1>4 DEF AddedIn
<1>6. MapsIn(w) = IF f.kind = "map" THEN MapsIn(t) \cup {f.ids} ELSE MapsIn(t)
  <2>1. \A i \in DOMAIN t : w[i + 1].kind = "map" => w[i + 1].ids \in MapsIn(w)
    BY <1>3 DEF MapsIn
  <2>2. MapsIn(t) \subseteq MapsIn(w)
    BY <1>3, <2>1 DEF MapsIn
  <2>3. MapsIn(w) \subseteq MapsIn(t) \cup {w[i].ids : i \in {j \in {1} : w[j].kind = "map"}}
    BY <1>1, <1>4 DEF MapsIn
  <2>4. f.kind = "map" => f.ids \in MapsIn(w)
    BY <1>1, <1>2 DEF MapsIn
  <2> QED
    BY <1>1, <2>2, <2>3, <2>4
<1>7. ASSUME NEW a
      PROVE  /\ \A i \in Removals(w, a) : i = 1 \/ i - 1 \in Removals(t, a)
             /\ \A i \in Removals(t, a) : i + 1 \in Removals(w, a)
             /\ 1 \in Removals(w, a) <=> f = [kind |-> "removed", name |-> a]
  BY <1>1, <1>2, <1>3, <1>4 DEF Removals
<1>8. RemovedIn(w) = RemovedIn(t) \cup {a \in Agent : f = [kind |-> "removed", name |-> a]}
  <2>1. ASSUME NEW a
        PROVE  Removals(w, a) # {} <=> Removals(t, a) # {} \/ f = [kind |-> "removed", name |-> a]
    BY <1>7
  <2> QED
    BY <2>1 DEF RemovedIn
<1>9. Formed(w) => Formed(t) /\ (f.kind = "removed" => f = [kind |-> "removed", name |-> f.name])
  BY <1>1, <1>2, <1>3 DEF Formed
<1>10. ASSUME MapFirst(w) PROVE f.kind \notin {"added", "removed"}
  BY <1>1, <1>2, <1>10 DEF MapFirst
<1>11. ASSUME MapFirst(w), f.kind # "map" PROVE MapFirst(t)
  <2> SUFFICES ASSUME NEW i \in DOMAIN t, t[i].kind \in {"added", "removed"}
               PROVE  \E j \in DOMAIN t : j < i /\ t[j].kind = "map"
    BY DEF MapFirst
  <2>1. i + 1 \in DOMAIN w /\ w[i + 1] = t[i] /\ i \in Nat
    BY <1>3
  <2>2. PICK j \in DOMAIN w : j < i + 1 /\ w[j].kind = "map"
    BY <1>11, <2>1 DEF MapFirst
  <2>3. j # 1 /\ j \in Nat
    BY <1>1, <1>2, <1>11, <2>2
  <2>4. j - 1 \in DOMAIN t /\ t[j - 1] = w[j]
    BY <1>4, <2>3
  <2>5. j - 1 < i
    BY <2>1, <2>2, <2>3
  <2> QED
    BY <2>2, <2>4, <2>5
<1>12. ASSUME NEW a \in Agent, Once(w, a)
       PROVE  /\ Once(t, a)
              /\ f.kind = "added" /\ f.pane.name = a => ~Has(AddedIn(t), a)
              /\ f = [kind |-> "removed", name |-> a] => ~Has(AddedIn(w), a)
  <2>1. /\ \A i \in AddsOf(t, a) : i \in DOMAIN t /\ i \in Nat /\ i >= 1 /\ i + 1 \in AddsOf(w, a)
        /\ 1 \in AddsOf(w, a) <=> f.kind = "added" /\ f.pane.name = a
        /\ \A i \in AddsOf(w, a) : i \in Nat /\ i >= 1
    BY <1>1, <1>2, <1>3 DEF AddsOf
  <2>2. \A j \in Removals(t, a) : j \in Nat
    BY <1>3 DEF Removals
  <2>3. Once(t, a)
    <3> SUFFICES ASSUME NEW i \in AddsOf(t, a)
                 PROVE  /\ \A j \in AddsOf(t, a) : j = i
                        /\ \A j \in Removals(t, a) : i < j
      BY DEF Once
    <3>1. i + 1 \in AddsOf(w, a) /\ i \in Nat
      BY <2>1
    <3>2. ASSUME NEW j \in AddsOf(t, a) PROVE j = i
      <4>1. j \in Nat /\ j + 1 \in AddsOf(w, a)
        BY <2>1
      <4>2. j + 1 = i + 1
        BY <1>12, <3>1, <4>1 DEF Once
      <4> QED
        BY <3>1, <4>1, <4>2
    <3>3. ASSUME NEW j \in Removals(t, a) PROVE i < j
      <4>1. j \in Nat /\ j + 1 \in Removals(w, a)
        BY <1>7, <2>2
      <4>2. i + 1 < j + 1
        BY <1>12, <3>1, <4>1 DEF Once
      <4> QED
        BY <3>1, <4>1, <4>2
    <3> QED
      BY <3>2, <3>3
  <2>4. ASSUME f.kind = "added" /\ f.pane.name = a, Has(AddedIn(t), a) PROVE FALSE
    <3>1. PICK i \in AddsOf(t, a) : TRUE
      BY <2>4 DEF Has, AddedIn, AddsOf
    <3>2. i + 1 \in AddsOf(w, a) /\ 1 \in AddsOf(w, a) /\ i \in Nat /\ i >= 1
      BY <2>1, <2>4
    <3>3. i + 1 = 1
      BY <1>12, <3>2 DEF Once
    <3> QED
      BY <3>2, <3>3
  <2>5. ASSUME f = [kind |-> "removed", name |-> a], Has(AddedIn(w), a) PROVE FALSE
    <3>1. PICK i \in AddsOf(w, a) : TRUE
      BY <2>5 DEF Has, AddedIn, AddsOf
    <3>2. 1 \in Removals(w, a) /\ i \in Nat /\ i >= 1
      BY <1>7, <2>1, <2>5
    <3>3. i < 1
      BY <1>12, <3>2 DEF Once
    <3> QED
      BY <3>2, <3>3
  <2> QED
    BY <2>3, <2>4, <2>5
<1> QED
  BY <1>1, <1>5, <1>6, <1>8, <1>9, <1>10, <1>11, <1>12 DEF f, t

LEMMA FramesNone ==
    /\ AddedIn(<<>>) = {} /\ MapsIn(<<>>) = {} /\ RemovedIn(<<>>) = {} /\ Formed(<<>>)
    /\ MapFirst(<<>>) /\ \A a \in Agent : Once(<<>>, a)
BY NoFrames DEF AddedIn, MapsIn, RemovedIn, Removals, Formed, MapFirst, Once, AddsOf

-----------------------------------------------------------------------------
(* Lists of agents and of announcements. *)

\* One of them taken out.
LEMMA TakenOut ==
    ASSUME NEW s \in Seq(Agent), NoDup(s), NEW i \in 1 .. Len(s)
    PROVE  LET t == SubSeq(s, 1, i - 1) \o SubSeq(s, i + 1, Len(s)) IN
           NoDup(t) /\ Elems(t) = Elems(s) \ {s[i]}
<1> DEFINE b == SubSeq(s, 1, i - 1)
           e == SubSeq(s, i + 1, Len(s))
           t == b \o e
           n == Len(s)
<1>1. n \in Nat /\ i \in Nat /\ 1 <= i /\ i <= n /\ DOMAIN s = 1..n
  OBVIOUS
<1>2. /\ b \in Seq(Agent) /\ Len(b) = i - 1 /\ \A j \in 1..(i - 1) : b[j] = s[j]
  <2>1. \A j \in 1..(i - 1) : s[j] \in Agent
    BY <1>1
  <2> QED
    BY <1>1, <2>1, SubSeqProperties
<1>3. /\ e \in Seq(Agent) /\ Len(e) = n - i /\ \A j \in 1..(n - i) : e[j] = s[i + j]
  <2>1. \A j \in (i + 1)..n : s[j] \in Agent
    BY <1>1
  <2>2. e \in Seq(Agent)
    BY <1>1, <2>1, SubSeqProperties
  <2>3. Len(e) = IF i + 1 <= n THEN n - (i + 1) + 1 ELSE 0
    BY <1>1, <2>1, SubSeqProperties
  <2>4. \A j \in 1..(n - (i + 1) + 1) : e[j] = s[i + 1 + j - 1]
    BY <1>1, <2>1, SubSeqProperties
  <2> HIDE DEF e, n
  <2>5. Len(e) = n - i /\ n - (i + 1) + 1 = n - i
    BY <1>1, <2>3
  <2>6. \A j \in 1..(n - i) : i + 1 + j - 1 = i + j
    BY <1>1
  <2> QED
    BY <2>2, <2>4, <2>5, <2>6
<1> HIDE DEF b, e, n
<1>4. /\ DOMAIN t = 1..(n - 1)
      /\ \A j \in 1..(n - 1) : t[j] = IF j < i THEN s[j] ELSE s[j + 1]
  <2>1. DOMAIN t = 1..(n - 1)
    BY <1>1, <1>2, <1>3
  <2>2. ASSUME NEW j \in 1..(n - 1) PROVE t[j] = IF j < i THEN s[j] ELSE s[j + 1]
    <3>1. CASE j < i
      <4>1. j \in 1..(i - 1) /\ t[j] = b[j]
        BY <1>1, <1>2, <1>3, <3>1
      <4> QED
        BY <1>2, <3>1, <4>1
    <3>2. CASE ~(j < i)
      <4>1. t[j] = e[j - (i - 1)]
        BY <1>1, <1>2, <1>3, <3>2
      <4>2. j - (i - 1) \in 1..(n - i) /\ i + (j - (i - 1)) = j + 1
        BY <1>1, <3>2
      <4> QED
        BY <1>3, <3>2, <4>1, <4>2
    <3> QED
      BY <3>1, <3>2
  <2> QED
    BY <2>1, <2>2
<1> HIDE DEF t
<1>5. NoDup(t)
  <2> SUFFICES ASSUME NEW j \in 1..(n - 1), NEW k \in 1..(n - 1), t[j] = t[k]
               PROVE  j = k
    BY <1>4 DEF NoDup
  <2> DEFINE J == IF j < i THEN j ELSE j + 1
             K == IF k < i THEN k ELSE k + 1
  <2>1. J \in 1..n /\ K \in 1..n /\ t[j] = s[J] /\ t[k] = s[K]
    BY <1>1, <1>4
  <2>2. J = K
    BY <1>1, <2>1 DEF NoDup
  <2> QED
    BY <1>1, <2>2
<1>6. Elems(t) \subseteq Elems(s) \ {s[i]}
  <2> SUFFICES ASSUME NEW j \in 1..(n - 1) PROVE t[j] \in Elems(s) \ {s[i]}
    BY <1>4 DEF Elems
  <2> DEFINE J == IF j < i THEN j ELSE j + 1
  <2>1. J \in 1..n /\ J # i /\ t[j] = s[J]
    BY <1>1, <1>4
  <2> QED
    BY <1>1, <2>1 DEF Elems, NoDup
<1>7. ASSUME NEW j \in 1..n, s[j] # s[i] PROVE s[j] \in Elems(t)
  <2>1. j # i
    BY <1>7
  <2> DEFINE J == IF j < i THEN j ELSE j - 1
  <2>2. J \in 1..(n - 1) /\ t[J] = s[j]
    BY <1>1, <1>4, <2>1
  <2> QED
    BY <1>4, <2>2 DEF Elems
<1>8. Elems(s) \ {s[i]} \subseteq Elems(t)
  BY <1>1, <1>7 DEF Elems
<1> QED
  BY <1>5, <1>6, <1>8 DEF t, b, e

\* One more announcement: it takes its turn after the last.
LEMMA JobMore ==
    ASSUME NEW s \in Seq(JobKind), NEW k \in JobKind, NEW w \in BOOLEAN, InTurn(s, w),
           k = "added" => IF s = <<>> THEN ~w ELSE s[Len(s)] # "added"
    PROVE  LET t == Append(s, k) IN
           /\ t \in Seq(JobKind) /\ t # <<>> /\ t[Len(t)] = k
           /\ InTurn(t, w)
<1> DEFINE t == Append(s, k)
           n == Len(s)
<1>1. /\ t \in Seq(JobKind) /\ n \in Nat /\ Len(t) = n + 1 /\ DOMAIN s = 1..n
      /\ DOMAIN t = 1..(n + 1) /\ t[n + 1] = k
      /\ \A i \in 1..n : t[i] = s[i] /\ s[i] \in JobKind
      /\ s = <<>> <=> n = 0
  OBVIOUS
<1>2. t # <<>>
  OBVIOUS
<1> HIDE DEF t, n
<1>3. ASSUME NEW i \in DOMAIN t, t[i] = "added"
      PROVE  IF i = 1 THEN ~w ELSE t[i - 1] = "removed"
  <2>1. CASE i \in 1..n
    <3>1. s[i] = "added" /\ i \in DOMAIN s
      BY <1>1, <1>3, <2>1
    <3>2. i # 1 => i - 1 \in 1..n
      BY <2>1, <1>1
    <3> QED
      BY <1>1, <3>1, <3>2 DEF InTurn
  <2>2. CASE i = n + 1
    <3>1. k = "added"
      BY <1>1, <1>3, <2>2
    <3>2. CASE n = 0
      BY <1>1, <2>2, <3>1, <3>2
    <3>3. CASE n # 0
      <4>1. s[n] # "added" /\ n \in 1..n
        BY <1>1, <3>1, <3>3 DEF n
      <4>2. s[n] = "removed"
        BY <1>1, <4>1 DEF JobKind
      <4>3. i # 1 /\ i - 1 = n
        BY <1>1, <2>2, <3>3
      <4> QED
        BY <1>1, <4>1, <4>2, <4>3
    <3> QED
      BY <3>2, <3>3
  <2> QED
    BY <1>1, <2>1, <2>2
<1>4. InTurn(t, w)
  BY <1>3 DEF InTurn
<1>5. t[Len(t)] = k
  BY <1>1
<1> QED
  BY <1>1, <1>2, <1>4, <1>5 DEF t

\* The first one made: what is left has its turns, whatever it did, and the same last.
LEMMA JobLess ==
    ASSUME NEW s \in Seq(JobKind), s # <<>>, NEW w, InTurn(s, w)
    PROVE  LET t == Tail(s) IN
           /\ t \in Seq(JobKind)
           /\ t = <<>> => s[Len(s)] = Head(s)
           /\ t # <<>> => t[Len(t)] = s[Len(s)]
           /\ \A v : (Head(s) = "removed" => ~v) => InTurn(t, v)
           /\ Head(s) = "added" => ~w
<1> DEFINE t == Tail(s)
           n == Len(s)
<1>1. /\ t \in Seq(JobKind) /\ n \in Nat \ {0} /\ Len(t) = n - 1 /\ DOMAIN s = 1..n
      /\ DOMAIN t = 1..(n - 1) /\ Head(s) = s[1]
      /\ \A i \in 1..(n - 1) : t[i] = s[i + 1]
      /\ t = <<>> <=> n = 1
  <2>1. /\ t \in Seq(JobKind) /\ n \in Nat \ {0} /\ Len(t) = n - 1
        /\ DOMAIN t = 1..(n - 1) /\ Head(s) = s[1] /\ DOMAIN s = 1..n
    OBVIOUS
  <2>2. \A i \in 1..(n - 1) : t[i] = s[i + 1]
    OBVIOUS
  <2> HIDE DEF t
  <2>3. t = <<>> <=> Len(t) = 0
    BY <2>1
  <2> QED
    BY <2>1, <2>2, <2>3
<1> HIDE DEF t, n
<1>2. t = <<>> => s[n] = Head(s)
  BY <1>1
<1>3. t # <<>> => t[Len(t)] = s[n]
  BY <1>1
<1>4. ASSUME NEW v, Head(s) = "removed" => ~v
      PROVE  InTurn(t, v)
  <2> SUFFICES ASSUME NEW i \in DOMAIN t, t[i] = "added"
               PROVE  IF i = 1 THEN ~v ELSE t[i - 1] = "removed"
    BY DEF InTurn
  <2>1. i \in 1..(n - 1) /\ i + 1 \in DOMAIN s /\ s[i + 1] = "added" /\ i + 1 # 1 /\ i + 1 - 1 = i
    BY <1>1
  <2>2. s[i] = "removed"
    <3>1. \A j \in DOMAIN s : s[j] = "added" /\ j # 1 => s[j - 1] = "removed"
      BY DEF InTurn
    <3>2. PICK j \in DOMAIN s : j = i + 1 /\ s[j] = "added" /\ j # 1
      BY <2>1
    <3>3. j - 1 = i
      BY <2>1, <3>2
    <3>4. s[j - 1] = "removed"
      BY <3>1, <3>2
    <3> QED
      BY <3>3, <3>4
  <2>3. CASE i = 1
    BY <1>1, <1>4, <2>2, <2>3
  <2>4. CASE i # 1
    <3>1. i - 1 \in 1..(n - 1) /\ i - 1 + 1 = i
      BY <1>1, <2>1, <2>4
    <3> QED
      BY <1>1, <2>2, <2>4, <3>1
  <2> QED
    BY <2>3, <2>4
<1>5. Head(s) = "added" => ~w
  <2>1. 1 \in DOMAIN s
    BY <1>1
  <2> QED
    BY <1>1, <2>1 DEF InTurn
<1> QED
  BY <1>1, <1>2, <1>3, <1>4, <1>5 DEF t, n

-----------------------------------------------------------------------------
(* The stages of a session. *)

LEMMA StagesInit == Init => Stages /\ Listing
<1> SUFFICES ASSUME Init PROVE Stages /\ Listing
  OBVIOUS
<1>1. Stages
  BY FramesNone, NoFrames DEF Init, Stages, Up
<1>2. Listing
  <2>1. [a \in Agent |-> <<>>] \in [Agent -> Seq(JobKind)]
    OBVIOUS
  <2> QED
    BY <2>1, LinkAssumption DEF Init, Listing
<1> QED
  BY <1>1, <1>2

LEMMA FormedWritten ==
    ASSUME LinkInv, Stages, NEW f, Write(<<f>>),
           f.kind = "removed" => f = [kind |-> "removed", name |-> f.name]
    PROVE  Formed(wire')
BY FramesMore DEF LinkInv, WireInv, WireGood, Stages, Write

LEMMA FormedRead ==
    ASSUME LinkInv, Stages, Reads
    PROVE  Formed(wire') /\ (Frame.kind = "removed" => Frame = [kind |-> "removed", name |-> Frame.name])
BY FramesLess DEF LinkInv, WireInv, WireGood, Stages, Reads, Frame

LEMMA PlainFormed ==
    \A m, a, p, ids :
       /\ Ownership(m).kind = "ownership"
       /\ [kind |-> "hello_ok", owner |-> m].kind = "hello_ok"
       /\ [kind |-> "added", pane |-> p].kind = "added" /\ [kind |-> "added", pane |-> p].pane = p
       /\ [kind |-> "map", ids |-> ids].kind = "map" /\ [kind |-> "map", ids |-> ids].ids = ids
       /\ [kind |-> "removed", name |-> a].kind = "removed"
       /\ [kind |-> "removed", name |-> a].name = a
BY DEF Ownership

LEMMA StagesHeld ==
    ASSUME Stages, UNCHANGED <<cli, opened, ann, anns, panes, expected, waiting, taken>>,
           Formed(wire'), Formed(events')
    PROVE  Stages'
BY DEF Stages, Up

LEMMA MainStages == LinkInv /\ Stages /\ Main => Stages'
<1> SUFFICES ASSUME LinkInv, Stages, Main PROVE Stages'
  OBVIOUS
<1> USE DEF server, link, viewer, mux, binder, sends
<1>1. UNCHANGED <<cli, opened, ann, anns, panes, expected, waiting, taken, events>>
  BY DEF Main, MoveGroup, AddAgent, RemoveAgent, Operation, Relayout, OnAttached, Announce, Publish,
         Decide, Broadcast
<1>2. Formed(wire')
  <2>1. CASE Broadcast
    <3>1. UNCHANGED wire \/ Write(<<Ownership(mine)>>)
      BY <2>1 DEF Broadcast
    <3>2. Ownership(mine).kind # "removed"
      BY PlainFormed
    <3> QED
      BY <3>1, <3>2, FormedWritten DEF Stages
  <2>2. CASE ~Broadcast
    <3>1. UNCHANGED wire
      BY <2>2 DEF Main, MoveGroup, AddAgent, RemoveAgent, Operation, Relayout, OnAttached, Announce,
                  Publish, Decide
    <3> QED
      BY <3>1 DEF Stages
  <2> QED
    BY <2>1, <2>2
<1> QED
  BY <1>1, <1>2, StagesHeld DEF Stages

LEMMA AnnouncerStages == LinkInv /\ Stages /\ Announcer => Stages'
<1> SUFFICES ASSUME LinkInv, Stages, Announcer PROVE Stages'
  OBVIOUS
<1> USE DEF server, link, viewer, mux, binder, sends
<1>1. CASE SendAdded
  <2>1. /\ UNCHANGED <<cli, opened, anns, panes, expected, waiting, taken, events>> /\ ann' = NoPane
        /\ Write(<<[kind |-> "added", pane |-> ann]>>)
    BY <1>1 DEF SendAdded
  <2>2. Formed(wire')
    BY <2>1, FormedWritten, PlainFormed
  <2> QED
    BY <2>1, <2>2 DEF Stages, Up
<1>2. ASSUME NEW a \in Agent, SkipAdded(a) PROVE Stages'
  <2>1. UNCHANGED <<cli, opened, ann, anns, panes, expected, waiting, taken, wire, events>>
    BY <1>2 DEF SkipAdded
  <2> QED
    BY <2>1, StagesHeld DEF Stages
<1>3. ASSUME NEW a \in Agent, OpenPushed(a) PROVE Stages'
  <2>1. /\ UNCHANGED <<cli, anns, panes, expected, waiting, taken, wire, events>>
        /\ Up /\ opened' = Append(opened, a)
    BY <1>3 DEF OpenPushed
  <2>2. Len(opened) \in Nat /\ Len(opened') = Len(opened) + 1
    BY <2>1 DEF LinkInv, Lists
  <2>3. taken \in 0 .. Len(opened')
    BY <2>2 DEF Stages
  <2> QED
    BY <2>1, <2>3 DEF Stages, Up
<1>4. ASSUME NEW a \in Agent, SendRemoved(a) PROVE Stages'
  <2>1. /\ UNCHANGED <<cli, opened, ann, anns, panes, expected, waiting, taken, events>>
        /\ UNCHANGED wire \/ Write(<<[kind |-> "removed", name |-> a]>>)
    BY <1>4 DEF SendRemoved
  <2>2. Formed(wire')
    BY <2>1, FormedWritten, PlainFormed DEF Stages
  <2> QED
    BY <2>1, <2>2, StagesHeld DEF Stages
<1> QED
  BY <1>1, <1>2, <1>3, <1>4 DEF Announcer

LEMMA ServeStages == LinkInv /\ Stages /\ Serve => Stages'
<1> SUFFICES ASSUME LinkInv, Stages, Serve PROVE Stages'
  OBVIOUS
<1> USE DEF server, link, viewer, mux, binder, sends, window1
<1>1. CASE Register \/ ListPanes \/ DecideForPeer \/ Attach \/ Leave \/ OldLeaves
  <2>1. UNCHANGED <<cli, opened, ann, anns, panes, expected, waiting, taken, wire, events>>
    BY <1>1 DEF Register, ListPanes, DecideForPeer, Attach, Leave, OldLeaves, Handler
  <2> QED
    BY <2>1, StagesHeld DEF Stages
<1>2. CASE SendHelloOK \/ SendStreamMap
  <2>1. /\ UNCHANGED <<cli, opened, ann, anns, panes, expected, waiting, taken, events>>
        /\ \/ Write(<<[kind |-> "hello_ok", owner |-> hs.owner]>>)
           \/ Write(<<[kind |-> "map", ids |-> hs.ids]>>)
    BY <1>2 DEF SendHelloOK, SendStreamMap, Handler
  <2>2. Formed(wire')
    BY <2>1, FormedWritten, PlainFormed
  <2> QED
    BY <2>1, <2>2, StagesHeld DEF Stages
<1>3. CASE OpenStreams
  <2>1. /\ UNCHANGED <<cli, ann, anns, panes, expected, waiting, taken, wire, events>>
        /\ Up /\ opened' = opened \o hs.panes
    BY <1>3 DEF OpenStreams, Handler
  <2>2. opened \in Seq(Agent) /\ hs.panes \in Seq(Agent)
    BY DEF LinkInv, Lists
  <2>3. Len(opened) \in Nat /\ Len(hs.panes) \in Nat /\ Len(opened') = Len(opened) + Len(hs.panes)
    BY <2>1, <2>2
  <2>4. taken \in 0 .. Len(opened')
    BY <2>3 DEF Stages
  <2> QED
    BY <2>1, <2>4 DEF Stages, Up
<1> QED
  BY <1>1, <1>2, <1>3 DEF Serve

\* An event is taken, or put behind the others.
LEMMA FormedEvents ==
    ASSUME AgreeInv, Stages, events # <<>>
    PROVE  /\ Formed(Tail(events)) /\ IsSeq(Tail(events))
           /\ Head(events).kind = "removed"
                 => Head(events) = [kind |-> "removed", name |-> Head(events).name]
BY FramesLess DEF AgreeInv, HelloInv, HasLast, Stages

LEMMA MuxStages == LinkInv /\ AgreeInv /\ Stages /\ MuxReads => Stages'
<1> SUFFICES ASSUME LinkInv, AgreeInv, Stages, MuxReads PROVE Stages'
  OBVIOUS
<1> USE DEF server, binder, window1, sends
<1>1. /\ cli \in {"accept", "run"} /\ UNCHANGED <<cli, opened, ann, panes, expected, waiting, taken>>
      /\ Reads
      /\ \/ UNCHANGED events
         \/ UNCHANGED anns /\ events' = Append(events, Frame)
         \/ UNCHANGED anns /\ events' = Append(Tail(events), Frame) /\ ~(Len(events) < EventCap)
  BY DEF MuxReads
<1>2. Formed(wire') /\ (Frame.kind = "removed" => Frame = [kind |-> "removed", name |-> Frame.name])
  BY <1>1, FormedRead
<1>3. ASSUME NEW s, IsSeq(s), Formed(s) PROVE Formed(Append(s, Frame))
  <2>1. Append(s, Frame) = s \o <<Frame>>
    BY <1>3, FrameAdded
  <2> QED
    BY <1>2, <1>3, <2>1, FramesMore
<1>4. ~(Len(events) < EventCap) => events # <<>>
  BY LinkAssumption, NoFrames
<1>5. Formed(events')
  BY <1>1, <1>3, <1>4, FormedEvents DEF AgreeInv, HelloInv, HasLast, Stages
<1> QED
  BY <1>1, <1>2, <1>5 DEF Stages, Up

LEMMA ViewerStages == LinkInv /\ AgreeInv /\ Stages /\ Viewer => Stages'
<1> SUFFICES ASSUME LinkInv, AgreeInv, Stages, Viewer PROVE Stages'
  OBVIOUS
<1> USE DEF server, link, mux, binder, sends, window1
<1>1. CASE Dial
  <2>1. /\ cli = "off" /\ cli' = "hello"
        /\ UNCHANGED <<opened, ann, anns, panes, expected, waiting, taken, wire, events>>
    BY <1>1 DEF Dial
  <2> QED
    BY <2>1 DEF Stages, Up
<1>2. CASE SessionEnds \/ ReadOther
  <2>1. /\ cli' = "off" /\ opened' = <<>> /\ ann' = NoPane /\ anns' = {} /\ panes' = {} /\ expected' = {}
        /\ waiting' = {} /\ taken' = 0 /\ wire' = <<>> /\ events' = <<>>
    BY <1>2 DEF SessionEnds, ReadOther, GivesUp
  <2> QED
    BY <2>1, FramesNone, NoFrames DEF Stages
<1>3. CASE ReadHelloOK \/ ReadStreamMap
  <2>1. /\ Reads /\ UNCHANGED <<opened, ann, anns, panes, expected, waiting, taken, events>>
        /\ cli \in {"hello", "map"} /\ cli' \in {"map", "mux"}
    BY <1>3 DEF ReadHelloOK, ReadStreamMap
  <2>2. Formed(wire')
    BY <2>1, FormedRead
  <2> QED
    BY <2>1, <2>2 DEF Stages, Up
<1>4. CASE AcceptMapped
  <2>1. /\ cli = "accept" /\ cli' = "run" /\ Cardinality(map) <= Len(opened)
        /\ taken' = Cardinality(map)
        /\ UNCHANGED <<opened, ann, anns, waiting, expected, wire, events>>
    BY <1>4 DEF AcceptMapped
  <2>2. Cardinality(map) \in Nat /\ Len(opened) \in Nat
    BY FS_CardinalityType DEF LinkInv, Lists
  <2>3. taken' \in 0 .. Len(opened) /\ waiting = {}
    BY <2>1, <2>2 DEF Stages
  <2> QED
    BY <2>1, <2>3 DEF Stages, Up
<1>5. CASE MuxReads
  BY <1>5, MuxStages
<1>6. CASE OfferStream
  <2>1. /\ cli = "run" /\ taken < Len(opened) /\ taken' = taken + 1
        /\ waiting' \subseteq waiting \cup {taken'}
        /\ UNCHANGED <<cli, opened, ann, anns, wire, events>>
    BY <1>6 DEF OfferStream
  <2>2. Len(opened) \in Nat
    BY DEF LinkInv, Lists
  <2>3. taken' \in 0 .. Len(opened) /\ taken' \in 1 .. taken' /\ 1 .. taken \subseteq 1 .. taken'
    BY <2>1, <2>2 DEF Stages
  <2>4. waiting' \subseteq 1 .. taken'
    BY <2>1, <2>3 DEF Stages
  <2> QED
    BY <2>1, <2>3, <2>4 DEF Stages, Up
<1>7. CASE TakeAnnouncements \/ TakeOwnership \/ TakeRemoved
  <2>1. /\ cli = "run" /\ UNCHANGED <<cli, opened, ann, taken, wire>>
        /\ waiting' \subseteq waiting /\ anns' = {}
        /\ UNCHANGED events \/ (events # <<>> /\ events' = Tail(events))
    BY <1>7 DEF TakeAnnouncements, TakeOwnership, TakeRemoved, TakesEvent, Claims
  <2>2. Formed(events')
    BY <2>1, FormedEvents DEF Stages
  <2> QED
    BY <2>1, <2>2 DEF Stages, Up
<1>8. ASSUME NEW id, Expire(id) PROVE Stages'
  <2>1. /\ cli = "run" /\ UNCHANGED <<cli, opened, ann, anns, taken, wire, events>>
        /\ waiting' \subseteq waiting
    BY <1>8 DEF Expire
  <2> QED
    BY <2>1 DEF Stages, Up
<1>9. CASE LeaveBuffered \/ StartMux
  <2>1. /\ UNCHANGED <<opened, ann, anns, panes, expected, waiting, taken, events>>
        /\ cli = "mux" /\ cli' \in {"mux", "accept"} /\ (Reads \/ UNCHANGED wire)
    BY <1>9 DEF LeaveBuffered, StartMux
  <2>2. Formed(wire')
    BY <2>1, FormedRead DEF Stages
  <2> QED
    BY <2>1, <2>2 DEF Stages, Up
<1> QED
  BY <1>1, <1>2, <1>3, <1>4, <1>5, <1>6, <1>7, <1>8, <1>9 DEF Viewer

-----------------------------------------------------------------------------
(* The agents served, and the announcements to come. *)

LEMMA JobsSet ==
    ASSUME jobs \in [Agent -> Seq(JobKind)], NEW a \in Agent, NEW s \in Seq(JobKind),
           jobs' = [jobs EXCEPT ![a] = s]
    PROVE  /\ jobs' \in [Agent -> Seq(JobKind)] /\ jobs'[a] = s
           /\ \A b \in Agent : b # a => jobs'[b] = jobs[b]
OBVIOUS

\* The agent announced is the last of the list.
LEMMA LastServed ==
    ASSUME LinkInv, Listing, main = "announce"
    PROVE  served[Len(served)] \in Agent /\ served[Len(served)] \in Elems(served)
<1>1. served \in Seq(Agent) /\ served # <<>>
  BY DEF LinkInv, Lists, Listing
<1>2. Len(served) \in Nat \ {0} /\ DOMAIN served = 1..Len(served)
  BY <1>1
<1>3. Len(served) \in DOMAIN served
  BY <1>2
<1> QED
  BY <1>1, <1>3 DEF Elems

LEMMA JobKinds == "added" \in JobKind /\ "removed" \in JobKind
BY DEF JobKind

LEMMA AnnounceJobs ==
    ASSUME LinkInv, Listing, Announce, Connected
    PROVE  LET a == served[Len(served)] IN
           /\ a \in Agent
           /\ jobs' \in [Agent -> Seq(JobKind)] /\ jobs'[a] = Append(jobs[a], "added")
           /\ \A b \in Agent : b # a => jobs'[b] = jobs[b]
<1> DEFINE a == served[Len(served)]
<1>1. a \in Agent /\ jobs \in [Agent -> Seq(JobKind)]
  BY LastServed DEF Announce, Listing
<1>2. jobs' = [jobs EXCEPT ![a] = Append(jobs[a], "added")]
  BY DEF Announce
<1> HIDE DEF a
<1>3. Append(jobs[a], "added") \in Seq(JobKind)
  BY <1>1, JobKinds
<1> QED
  BY ONLY <1>1, <1>2, <1>3, JobsSet DEF a

LEMMA RemoveServed ==
    ASSUME LinkInv, Listing, NEW a \in Agent, RemoveAgent(a)
    PROVE  /\ NoDup(served') /\ Elems(served') = Elems(served) \ {a}
           /\ jobs' \in [Agent -> Seq(JobKind)] /\ jobs'[a] = Append(jobs[a], "removed")
           /\ \A b \in Agent : b # a => jobs'[b] = jobs[b]
<1>1. /\ served \in Seq(Agent) /\ NoDup(served) /\ jobs \in [Agent -> Seq(JobKind)]
  BY DEF LinkInv, Lists, Listing
<1>2. PICK i \in 1 .. Len(served) :
         /\ served[i] = a
         /\ served' = SubSeq(served, 1, i - 1) \o SubSeq(served, i + 1, Len(served))
  BY DEF RemoveAgent
<1>3. NoDup(served') /\ Elems(served') = Elems(served) \ {a}
  BY <1>1, <1>2, TakenOut
<1>4. jobs' = [jobs EXCEPT ![a] = Append(jobs[a], "removed")]
  BY DEF RemoveAgent
<1>5. Append(jobs[a], "removed") \in Seq(JobKind)
  BY <1>1, JobKinds
<1>6. /\ jobs' \in [Agent -> Seq(JobKind)] /\ jobs'[a] = Append(jobs[a], "removed")
      /\ \A b \in Agent : b # a => jobs'[b] = jobs[b]
  BY ONLY <1>1, <1>4, <1>5, JobsSet
<1> QED
  BY <1>3, <1>6

LEMMA AddServed ==
    ASSUME LinkInv, Listing, NEW a \in Agent, AddAgent(a)
    PROVE  /\ NoDup(served') /\ Elems(served') = Elems(served) \cup {a} /\ a \notin Elems(served)
           /\ served' # <<>> /\ served'[Len(served')] = a
<1>1. served \in Seq(Agent) /\ NoDup(served) /\ served' = Append(served, a) /\ a \notin Elems(served)
  BY DEF LinkInv, Lists, Listing, AddAgent
<1>2. served' # <<>> /\ served'[Len(served')] = a
  BY <1>1
<1> QED
  BY <1>1, <1>2, AppendElems

\* A job done is the first of its agent's, and no other agent's.
LEMMA DoneJobs ==
    ASSUME Listing, NEW a \in Agent, NEW k, Job(a, k), Done(a)
    PROVE  /\ jobs[a] # <<>> /\ Head(jobs[a]) = k /\ jobs[a] \in Seq(JobKind)
           /\ jobs' \in [Agent -> Seq(JobKind)] /\ jobs'[a] = Tail(jobs[a])
           /\ \A b \in Agent : b # a => jobs'[b] = jobs[b]
<1>1. jobs \in [Agent -> Seq(JobKind)] /\ jobs[a] # <<>> /\ Head(jobs[a]) = k
  BY DEF Listing, Job
<1>2. Tail(jobs[a]) \in Seq(JobKind) /\ jobs' = [jobs EXCEPT ![a] = Tail(jobs[a])]
  BY <1>1 DEF Done
<1>3. /\ jobs' \in [Agent -> Seq(JobKind)] /\ jobs'[a] = Tail(jobs[a])
      /\ \A b \in Agent : b # a => jobs'[b] = jobs[b]
  BY ONLY <1>1, <1>2, JobsSet
<1> QED
  BY <1>1, <1>3

LEMMA MainListing == LinkInv /\ Listing /\ Main => Listing'
<1> SUFFICES ASSUME LinkInv, Listing, Main PROVE Listing'
  OBVIOUS
<1> USE DEF server, sends, decide
<1>1. UNCHANGED <<srv, peer>>
  BY DEF Main, MoveGroup, AddAgent, RemoveAgent, Operation, Relayout, OnAttached, Announce, Publish,
         Decide, Broadcast
<1>2. ASSUME NEW a \in Agent, MoveGroup(a) PROVE Listing'
  BY <1>1, <1>2 DEF MoveGroup, Listing
<1>3. ASSUME NEW a \in Agent, AddAgent(a) PROVE Listing'
  <2>1. UNCHANGED jobs
    BY <1>3 DEF AddAgent
  <2> QED
    BY <1>1, <1>3, <2>1, AddServed DEF Listing
<1>4. ASSUME NEW a \in Agent, RemoveAgent(a) PROVE Listing'
  <2>1. main' = "publish"
    BY <1>4 DEF RemoveAgent
  <2> QED
    BY <1>1, <1>4, <2>1, RemoveServed DEF Listing
<1>5. CASE Announce
  <2>1. main' = "publish" /\ UNCHANGED served
    BY <1>5 DEF Announce
  <2>2. jobs' \in [Agent -> Seq(JobKind)]
    <3>1. CASE Connected
      BY <1>5, <3>1, AnnounceJobs
    <3>2. CASE ~Connected
      BY <1>5, <3>2 DEF Announce, Listing
    <3> QED
      BY <3>1, <3>2
  <2> QED
    BY <1>1, <2>1, <2>2 DEF Listing
<1>6. CASE Relayout \/ OnAttached \/ Publish \/ Decide \/ Broadcast
  <2>1. main' # "announce" /\ UNCHANGED <<served, jobs>>
    BY <1>6 DEF Relayout, OnAttached, Publish, Decide, Broadcast
  <2> QED
    BY <1>1, <2>1 DEF Listing
<1> QED
  BY <1>2, <1>3, <1>4, <1>5, <1>6 DEF Main

LEMMA OthersListing == Listing /\ (Announcer \/ Serve \/ Viewer) => Listing'
<1> SUFFICES ASSUME Listing, Announcer \/ Serve \/ Viewer PROVE Listing'
  OBVIOUS
<1> USE DEF server, sends, decide, window1
<1>1. CASE Announcer
  <2>1. UNCHANGED <<served, main, srv, peer>>
    BY <1>1 DEF Announcer, SendAdded, SkipAdded, OpenPushed, SendRemoved
  <2>2. jobs' \in [Agent -> Seq(JobKind)]
    <3>1. CASE SendAdded
      BY <3>1 DEF SendAdded, Listing
    <3>2. ASSUME NEW a \in Agent, SkipAdded(a) \/ OpenPushed(a) \/ SendRemoved(a)
          PROVE  jobs' \in [Agent -> Seq(JobKind)]
      <4>1. PICK k : Job(a, k) /\ Done(a)
        BY <3>2 DEF SkipAdded, OpenPushed, SendRemoved
      <4> QED
        BY <4>1, DoneJobs
    <3> QED
      BY <1>1, <3>1, <3>2 DEF Announcer
  <2> QED
    BY <2>1, <2>2 DEF Listing
<1>2. CASE Serve
  <2>1. /\ UNCHANGED <<served, main, jobs>>
        /\ srv' \in {"none", "registered", "listed", "decided"} \cup Late \/ (srv' = srv /\ peer' = "nobody")
    BY <1>2 DEF Serve, Register, ListPanes, DecideForPeer, SendHelloOK, OpenStreams, SendStreamMap,
                Attach, Leave, OldLeaves, Handler, Late
  <2> QED
    BY <2>1 DEF Listing, Early, Late
<1>3. CASE Viewer
  <2>1. /\ UNCHANGED <<served, main, jobs>>
        /\ UNCHANGED <<srv, peer>> \/ (srv' = "ctrl" /\ peer' = IF Registered THEN "old" ELSE peer)
    BY <1>3 DEF Viewer, Dial, SessionEnds, GivesUp, ReadHelloOK, ReadOther, ReadStreamMap,
                LeaveBuffered, StartMux, AcceptMapped,
                MuxReads, OfferStream, TakeAnnouncements, TakeOwnership, TakeRemoved, Expire
  <2> QED
    BY <2>1 DEF Listing, Early, Registered
<1> QED
  BY <1>1, <1>2, <1>3

-----------------------------------------------------------------------------
(* A session nothing has gone wrong with. *)

Ctx == LinkInv /\ AgreeInv /\ Stages /\ Listing

LEMMA CtxFacts ==
    ASSUME Ctx
    PROVE  /\ served \in Seq(Agent) /\ opened \in Seq(Agent) /\ hs.panes \in Seq(Agent)
           /\ Len(opened) \in Nat /\ Len(hs.panes) \in Nat /\ Len(served) \in Nat
           /\ IsSeq(wire) /\ IsSeq(events)
           /\ taken \in Nat /\ taken <= Len(opened)
           /\ Up => srv # "none"
           /\ ~Up => wire = <<>>
           /\ cli \in {"off", "hello", "map"} => events = <<>>
           /\ srv \in {"listed", "decided", "registered"} \cup Late => Registered /\ Connected
BY DEF Ctx, LinkInv, Lists, WireInv, WireGood, AgreeInv, HelloInv, HasLast, Stages, MainInv,
       Registered, Connected

\* What has gone wrong stays so while the session lasts.
LEMMA StillClean == Next /\ Up' /\ Clean' => Clean /\ (Up \/ Dial)
<1> SUFFICES ASSUME Next, Up', Clean' PROVE Clean /\ (Up \/ Dial)
  OBVIOUS
<1> USE DEF server, link, viewer, window1, Clean, Up
<1>1. CASE Main
  <2>1. cli' = cli /\ faults \subseteq faults' \cup {"lost"}
    BY <1>1 DEF Main, MoveGroup, AddAgent, RemoveAgent, Operation, Relayout, OnAttached, Announce, Publish,
         Decide, Broadcast
  <2> QED
    BY <2>1
<1>2. CASE Announcer
  <2>1. cli' = cli /\ faults \subseteq faults'
    BY <1>2 DEF Announcer, SendAdded, SkipAdded, OpenPushed, SendRemoved, Crossing
  <2> QED
    BY <2>1
<1>3. CASE Serve
  <2>1. cli' = cli /\ faults \subseteq faults'
    BY <1>3 DEF Serve, Register, ListPanes, DecideForPeer, SendHelloOK, OpenStreams, SendStreamMap,
                Attach, Leave, OldLeaves, Handler
  <2> QED
    BY <2>1
<1>4. CASE Viewer
  <2>1. CASE SessionEnds \/ ReadOther
    BY <2>1 DEF SessionEnds, ReadOther, GivesUp
  <2>2. CASE ~(SessionEnds \/ ReadOther)
    <3>1. faults \subseteq faults' /\ (Dial \/ cli # "off")
      BY <1>4, <2>2 DEF Viewer, Dial, ReadHelloOK, ReadStreamMap,
                LeaveBuffered, StartMux, AcceptMapped,
                MuxReads, OfferStream, TakeAnnouncements, TakeOwnership, TakeRemoved, TakesEvent, Expire
    <3> QED
      BY <3>1
  <2> QED
    BY <2>1, <2>2
<1> QED
  BY <1>1, <1>2, <1>3, <1>4 DEF Next

\* A frame with an owner map is written.
LEMMA PlainWritten ==
    ASSUME Ctx, Up, NEW f, Write(<<f>>), f.kind \in {"hello_ok", "ownership"}
    PROVE  /\ AddedIn(wire') = AddedIn(wire) /\ MapsIn(wire') = MapsIn(wire)
           /\ RemovedIn(wire') = RemovedIn(wire)
           /\ MapFirst(wire) => MapFirst(wire')
           /\ \A a \in Agent : Once(wire, a) => Once(wire', a)
<1>1. wire' = wire \o <<f>> /\ IsSeq(wire)
  BY CtxFacts DEF Write
<1>2. \A a : f # [kind |-> "removed", name |-> a]
  OBVIOUS
<1>3. f.kind \notin {"added", "removed", "map"} /\ {a \in Agent : f = [kind |-> "removed", name |-> a]} = {}
  BY <1>2
<1> DEFINE v == wire \o <<f>>
<1>4. /\ AddedIn(v) = AddedIn(wire) /\ MapsIn(v) = MapsIn(wire)
      /\ RemovedIn(v) = RemovedIn(wire) \cup {a \in Agent : f = [kind |-> "removed", name |-> a]}
      /\ MapFirst(wire) => MapFirst(v)
  BY <1>1, <1>3, FramesMore
<1>5. \A a \in Agent : Once(wire, a) => Once(v, a)
  BY <1>1, <1>3, FramesMore
<1> QED
  BY <1>1, <1>3, <1>4, <1>5

\* A frame that is neither an announcement nor a removal is read.
LEMMA PlainRead ==
    ASSUME Ctx, Reads, MapFirst(wire)
    PROVE  /\ AddedIn(wire') = AddedIn(wire)
           /\ MapsIn(wire) = IF Frame.kind = "map" THEN MapsIn(wire') \cup {Frame.ids} ELSE MapsIn(wire')
           /\ RemovedIn(wire') = RemovedIn(wire)
           /\ Frame.kind # "map" => MapFirst(wire')
           /\ \A a \in Agent : Once(wire, a) => Once(wire', a)
<1>1. wire # <<>> /\ wire' = Tail(wire) /\ IsSeq(wire)
  BY CtxFacts DEF Reads
<1>2. Frame.kind \notin {"added", "removed"}
  BY <1>1, FramesLess DEF Frame
<1>3. \A a : Frame # [kind |-> "removed", name |-> a]
  BY <1>2
<1> QED
  BY <1>1, <1>2, <1>3, FramesLess DEF Frame

\* Where a clean session can announce from.
LEMMA NotCrossed ==
    ASSUME Ctx, Up, Handshake, srv # "ctrl", faults' = Crossing, Clean'
    PROVE  srv \notin Unmapped
BY DEF Clean, Crossing, InHandshake, Unmapped, Unlisted, Unopened

LEMMA HandshakeHeld ==
    ASSUME Handshake, UNCHANGED <<srv, cli, ann, opened>>, AddedIn(wire') = AddedIn(wire),
           MapsIn(wire') = MapsIn(wire), RemovedIn(wire') = RemovedIn(wire),
           MapFirst(wire) => MapFirst(wire')
    PROVE  Handshake'
BY DEF Handshake

LEMMA MainHandshake == Ctx /\ Up /\ Handshake /\ Main => Handshake'
<1> SUFFICES ASSUME Ctx, Up, Handshake, Main PROVE Handshake'
  OBVIOUS
<1> USE DEF server, link, viewer, sends
<1>1. UNCHANGED <<srv, cli, ann, opened>>
  BY DEF Main, MoveGroup, AddAgent, RemoveAgent, Operation, Relayout, OnAttached, Announce, Publish,
         Decide, Broadcast
<1>2. UNCHANGED wire \/ Write(<<Ownership(mine)>>)
  BY DEF Main, MoveGroup, AddAgent, RemoveAgent, Operation, Relayout, OnAttached, Announce, Publish,
         Decide, Broadcast
<1>3. Ownership(mine).kind = "ownership"
  BY PlainFormed
<1> QED
  BY <1>1, <1>2, <1>3, PlainWritten, HandshakeHeld

LEMMA AnnouncerHandshake == Ctx /\ Up /\ Handshake /\ Clean' /\ Announcer => Handshake'
<1> SUFFICES ASSUME Ctx, Up, Handshake, Clean', Announcer PROVE Handshake'
  OBVIOUS
<1> USE DEF server, link, viewer, sends
<1>1. IsSeq(wire)
  BY CtxFacts
<1>2. CASE SendAdded
  <2>1. /\ UNCHANGED <<srv, cli, opened>> /\ wire' = wire \o <<[kind |-> "added", pane |-> ann]>>
        /\ ann # NoPane /\ Crossing \subseteq faults'
    BY <1>2 DEF SendAdded, Write
  <2>2. srv \notin Unmapped
    BY <2>1 DEF Handshake, Clean, Crossing, InHandshake, Unmapped, Unlisted, Unopened
  <2>3. cli \in {"hello", "map"} => MapFirst(wire') /\ MapsIn(wire') # {}
    BY <1>1, <2>1, <2>2, FramesMore DEF Handshake
  <2> QED
    BY <2>1, <2>2, <2>3 DEF Handshake, Unmapped
<1>3. ASSUME NEW a \in Agent, SkipAdded(a) PROVE Handshake'
  BY <1>3, HandshakeHeld DEF SkipAdded
<1>4. ASSUME NEW a \in Agent, OpenPushed(a) PROVE Handshake'
  <2>1. UNCHANGED <<srv, cli, wire>> /\ faults' = Crossing /\ Registered
    BY <1>4 DEF OpenPushed
  <2>2. srv \notin Unmapped
    BY <2>1, NotCrossed DEF Ctx, Listing, Registered
  <2> QED
    BY <2>1, <2>2 DEF Handshake, Unmapped
<1>5. ASSUME NEW a \in Agent, SendRemoved(a) PROVE Handshake'
  <2>1. UNCHANGED <<srv, cli, ann, opened>> /\ faults' = Crossing
    BY <1>5 DEF SendRemoved
  <2>2. CASE ~Registered
    BY <1>5, <2>1, <2>2, HandshakeHeld DEF SendRemoved
  <2>3. CASE Registered
    <3>1. wire' = wire \o <<[kind |-> "removed", name |-> a]>>
      BY <1>5, <2>3 DEF SendRemoved, Write
    <3>2. srv \notin Unmapped
      BY <2>1, <2>3, NotCrossed DEF Ctx, Listing, Registered
    <3>3. cli \in {"hello", "map"} => MapFirst(wire') /\ MapsIn(wire') # {}
      BY <1>1, <3>1, <3>2, FramesMore DEF Handshake
    <3> QED
      BY <2>1, <3>2, <3>3 DEF Handshake, Unmapped
  <2> QED
    BY <2>2, <2>3
<1> QED
  BY <1>2, <1>3, <1>4, <1>5 DEF Announcer

LEMMA ServeHandshake == Ctx /\ Up /\ Handshake /\ Serve => Handshake'
<1> SUFFICES ASSUME Ctx, Up, Handshake, Serve PROVE Handshake'
  OBVIOUS
<1> USE DEF server, link, viewer, sends, window1, Unmapped, Unlisted, Unopened
<1>1. CASE Register \/ ListPanes \/ DecideForPeer
  <2>1. /\ UNCHANGED <<cli, ann, opened, wire>>
        /\ srv \in {"ctrl", "registered", "listed"} /\ srv' \in {"registered", "listed", "decided"}
    BY <1>1 DEF Register, ListPanes, DecideForPeer, Handler
  <2> QED
    BY <2>1 DEF Handshake
<1>2. CASE SendHelloOK
  <2>1. /\ UNCHANGED <<cli, ann, opened>> /\ srv = "decided" /\ srv' = "greeted"
        /\ Write(<<[kind |-> "hello_ok", owner |-> hs.owner]>>)
    BY <1>2 DEF SendHelloOK, Handler
  <2>2. /\ AddedIn(wire') = AddedIn(wire) /\ MapsIn(wire') = MapsIn(wire)
        /\ RemovedIn(wire') = RemovedIn(wire) /\ (MapFirst(wire) => MapFirst(wire'))
    BY <2>1, PlainWritten, PlainFormed
  <2> QED
    BY <2>1, <2>2 DEF Handshake
<1>3. CASE OpenStreams
  <2>1. /\ UNCHANGED <<cli, ann, wire>> /\ srv = "greeted" /\ srv' = "opened"
    BY <1>3 DEF OpenStreams, Handler
  <2> QED
    BY <2>1 DEF Handshake
<1>4. CASE SendStreamMap
  <2>1. /\ UNCHANGED <<cli, ann, opened>> /\ srv = "opened" /\ srv' = "mapped"
        /\ wire' = wire \o <<[kind |-> "map", ids |-> hs.ids]>>
    BY <1>4 DEF SendStreamMap, Handler, Write
  <2> DEFINE f == [kind |-> "map", ids |-> hs.ids]
  <2>2. f.kind = "map" /\ wire' = wire \o <<f>> /\ IsSeq(wire)
    BY <2>1, CtxFacts
  <2> HIDE DEF f
  <2>3. MapsIn(wire') = MapsIn(wire) \cup {f.ids} /\ (MapFirst(wire) => MapFirst(wire'))
    BY <2>2, FramesMore
  <2> QED
    BY <2>1, <2>3 DEF Handshake
<1>5. CASE Attach \/ OldLeaves
  <2>1. UNCHANGED <<cli, ann, opened, wire>> /\ (srv' = srv \/ (srv = "mapped" /\ srv' = "live"))
    BY <1>5 DEF Attach, OldLeaves
  <2> QED
    BY <2>1 DEF Handshake
<1>6. CASE Leave
  BY <1>6 DEF Leave
<1> QED
  BY <1>1, <1>2, <1>3, <1>4, <1>5, <1>6 DEF Serve

LEMMA DialHandshake == Ctx /\ Dial => Handshake' /\ srv' = "ctrl"
<1> SUFFICES ASSUME Ctx, Dial PROVE Handshake' /\ srv' = "ctrl"
  OBVIOUS
<1>1. /\ cli = "off" /\ cli' = "hello" /\ srv' = "ctrl" /\ UNCHANGED <<ann, opened, wire>>
  BY DEF Dial, window1, link, sends
<1>2. wire' = <<>> /\ ann' = NoPane /\ opened' = <<>>
  BY <1>1, CtxFacts DEF Ctx, Stages, Up
<1> QED
  BY <1>1, <1>2, FramesNone DEF Handshake, Unmapped, Unlisted, Unopened

LEMMA ViewerHandshake == Ctx /\ Up /\ Up' /\ Handshake /\ Viewer => Handshake'
<1> SUFFICES ASSUME Ctx, Up, Up', Handshake, Viewer PROVE Handshake'
  OBVIOUS
<1> USE DEF server, link, window1, sends
<1>1. CASE Dial
  BY <1>1 DEF Dial, Up
<1>2. CASE SessionEnds \/ ReadOther
  BY <1>2 DEF SessionEnds, ReadOther, GivesUp, Up
<1>3. CASE ReadHelloOK
  <2>1. /\ Reads /\ cli = "hello" /\ cli' = "map" /\ Frame.kind # "map" /\ UNCHANGED <<srv, ann, opened>>
    BY <1>3 DEF ReadHelloOK
  <2> QED
    BY <2>1, PlainRead DEF Handshake
<1>4. CASE ReadStreamMap
  <2>1. /\ Reads /\ cli = "map" /\ UNCHANGED <<srv, ann, opened>>
        /\ cli' = IF Frame.kind = "map" THEN "mux" ELSE "map"
    BY <1>4 DEF ReadStreamMap
  <2>2. CASE Frame.kind = "map"
    <3>1. srv \notin Unmapped
      BY <2>1, <2>2, PlainRead DEF Handshake
    <3> QED
      BY <2>1, <2>2, <3>1 DEF Handshake, Unmapped
  <2>3. CASE Frame.kind # "map"
    BY <2>1, <2>3, PlainRead DEF Handshake
  <2> QED
    BY <2>2, <2>3
<1>5. CASE LeaveBuffered \/ StartMux \/ AcceptMapped \/ MuxReads \/ OfferStream
           \/ TakeAnnouncements \/ TakeOwnership \/ TakeRemoved \/ \E id \in 1 .. Len(opened) : Expire(id)
  <2>1. /\ UNCHANGED <<srv, ann, opened>>
        /\ cli \in {"mux", "accept", "run"} /\ cli' \in {"mux", "accept", "run"}
    BY <1>5 DEF LeaveBuffered, StartMux, AcceptMapped, MuxReads, OfferStream, TakeAnnouncements,
                TakeOwnership, TakeRemoved, TakesEvent, Expire
  <2> QED
    BY <2>1 DEF Handshake, Unmapped
<1> QED
  BY <1>1, <1>2, <1>3, <1>4, <1>5 DEF Viewer

-----------------------------------------------------------------------------
(* From an agent served to its pane. *)

\* What an agent of the viewer's depends on.
LEMMA ShowsSame ==
    ASSUME NEW n, NEW a \in Agent, Has(Arrived(n), a)' <=> Has(Arrived(n), a),
           Has(AddedIn(wire), a)' <=> Has(AddedIn(wire), a), Leaving(a)' <=> Leaving(a)
    PROVE  Shows(n, a)' <=> Shows(n, a)
BY DEF Shows

LEMMA TurnsSame ==
    ASSUME NEW n, TurnsInv(n), \A a \in Agent : Will(n, a)' <=> Will(n, a),
           UNCHANGED <<jobs, served>>, (main' = "announce") <=> (main = "announce")
    PROVE  TurnsInv(n)'
<1> SUFFICES ASSUME NEW a \in Agent
             PROVE  /\ InTheEnd(n, a)' <=> a \in Elems(served) /\ ~AboutTo(a)'
                    /\ InTurn(jobs'[a], Will(n, a)')
  BY DEF TurnsInv
<1>1. /\ InTheEnd(n, a) <=> a \in Elems(served) /\ ~AboutTo(a)
      /\ InTurn(jobs[a], Will(n, a))
      /\ Will(n, a)' <=> Will(n, a)
  BY DEF TurnsInv
<1>2. AboutTo(a)' <=> AboutTo(a)
  BY DEF AboutTo
<1>3. InTheEnd(n, a)' <=> InTheEnd(n, a)
  BY <1>1 DEF InTheEnd
<1>4. InTurn(jobs'[a], Will(n, a)')
  BY <1>1 DEF InTurn
<1> QED
  BY <1>1, <1>2, <1>3, <1>4

LEMMA PushedSame ==
    ASSUME NEW n, Pushed(n), Mapped(n)', IdsInv(n)', Arrived(n)' = Arrived(n),
           AddedIn(wire') = AddedIn(wire),
           RemovedIn(wire') \cup RemovedIn(events') = RemovedIn(wire) \cup RemovedIn(events),
           \A a \in Agent : Once(wire', a),
           \A a \in Agent : Has(AddedIn(wire), a) => a \notin RemovedIn(events'),
           UNCHANGED <<jobs, ann, served>>, (main' = "announce") <=> (main = "announce")
    PROVE  Pushed(n)'
<1>1. ASSUME NEW a
      PROVE  Leaving(a)' <=> Leaving(a)
  BY DEF Leaving
<1>2. ASSUME NEW a \in Agent
      PROVE  (Shows(n, a)' <=> Shows(n, a)) /\ (Will(n, a)' <=> Will(n, a)) /\ (Opening(a)' <=> Opening(a))
  <2>1. Shows(n, a)' <=> Shows(n, a)
    BY <1>1, ShowsSame DEF Has
  <2>2. Opening(a)' <=> Opening(a)
    BY DEF Opening
  <2> QED
    BY <2>1, <2>2 DEF Will
<1>3. OnceInv(n)'
  BY <1>2 DEF Pushed, OnceInv, Has
<1>4. TurnsInv(n)'
  BY <1>2, TurnsSame DEF Pushed
<1> QED
  BY <1>3, <1>4 DEF Pushed

LEMMA OnceFacts ==
    ASSUME NEW n, Pushed(n)
    PROVE  /\ \A a \in Agent : Once(wire, a)
           /\ \A a \in Agent : Has(AddedIn(wire), a) => a \notin RemovedIn(events)
BY DEF Pushed, OnceInv

LEMMA IdsSame ==
    ASSUME NEW n, Pushed(n), UNCHANGED <<expected, anns, taken, waiting, ann>>,
           AddedIn(wire') = AddedIn(wire), (cli' = "run") <=> (cli = "run")
    PROVE  IdsInv(n)'
BY DEF Pushed, IdsInv, Comes

\* A step that moves no pane, announcement or removal.
LEMMA PushedHeld ==
    ASSUME Ctx, NEW n, Pushed(n),
           UNCHANGED <<expected, anns, taken, waiting, ann, panes, jobs, served, events>>,
           AddedIn(wire') = AddedIn(wire), RemovedIn(wire') = RemovedIn(wire),
           \A a \in Agent : Once(wire, a) => Once(wire', a),
           (cli' = "run") <=> (cli = "run"), (main' = "announce") <=> (main = "announce"),
           Mapped(n)', Base(n)' = Base(n)
    PROVE  Pushed(n)'
<1>1. Arrived(n)' = Arrived(n)
  BY DEF Arrived
<1>2. IdsInv(n)'
  BY IdsSame
<1> QED
  BY <1>1, <1>2, OnceFacts, PushedSame

LEMMA BaseSame ==
    ASSUME NEW n, UNCHANGED <<hs, opened, panes>>, (cli' = "run") <=> (cli = "run"),
           (srv' \in Unopened) <=> (srv \in Unopened)
    PROVE  Base(n)' = Base(n)
BY DEF Base

LEMMA MappedSame ==
    ASSUME NEW n, Mapped(n), UNCHANGED <<hs, opened, map>>, MapsIn(wire') \subseteq MapsIn(wire),
           srv' = "opened" => srv = "opened", (srv' \in Unopened) <=> (srv \in Unopened),
           cli' \in {"mux", "accept"} => cli \in {"mux", "accept"}
    PROVE  Mapped(n)'
BY DEF Mapped

\* The panes of the map do not change with the streams opened later.
LEMMA ListedGrows ==
    ASSUME NEW n \in Nat, NEW o, NEW q, Grows(o, q), n <= Len(o)
    PROVE  Listed(q, n) = Listed(o, n)
<1>1. Len(o) \in Nat
  BY DEF Grows
<1>2. \A i \in 1 .. n : q[i] = o[i]
  BY <1>1 DEF Grows
<1> QED
  BY <1>2 DEF Listed

-----------------------------------------------------------------------------
(* Window 1's steps, one by one. *)

LEMMA PlainMainPushed ==
    ASSUME Ctx, Up, NEW n, Pushed(n), Main,
           UNCHANGED <<served, jobs>>, main # "announce", main' # "announce"
    PROVE  Pushed(n)'
<1> USE DEF server, link, viewer, mux, binder, sends
<1>1. /\ UNCHANGED <<expected, anns, taken, waiting, ann, panes, events, cli, srv, hs, opened, map>>
      /\ UNCHANGED wire \/ Write(<<Ownership(mine)>>)
  BY DEF Main, MoveGroup, AddAgent, RemoveAgent, Operation, Relayout, OnAttached, Announce, Publish,
         Decide, Broadcast
<1>2. /\ AddedIn(wire') = AddedIn(wire) /\ MapsIn(wire') = MapsIn(wire)
      /\ RemovedIn(wire') = RemovedIn(wire) /\ (\A a \in Agent : Once(wire, a) => Once(wire', a))
  <2>1. Ownership(mine).kind = "ownership"
    BY PlainFormed
  <2> QED
    BY <1>1, <2>1, PlainWritten
<1>3. Mapped(n)' /\ Base(n)' = Base(n)
  BY <1>1, <1>2, MappedSame, BaseSame DEF Pushed
<1> QED
  BY <1>1, <1>2, <1>3, PushedHeld

\* What an agent's place is made of but for its jobs, when only the list or the jobs
\* change.
LEMMA OnlyTurns ==
    ASSUME NEW n, Pushed(n),
           UNCHANGED <<expected, anns, taken, waiting, ann, panes, events, cli, srv, hs, opened, map, wire>>
    PROVE  /\ n \in Nat /\ Mapped(n)' /\ OnceInv(n)' /\ IdsInv(n)'
           /\ \A a \in Agent : Will(n, a)' <=> Will(n, a)
<1>1. Mapped(n)' /\ IdsInv(n)' /\ n \in Nat
  BY DEF Pushed, Mapped, IdsInv, Comes
<1>2. Arrived(n)' = Arrived(n)
  BY DEF Arrived, Base
<1>3. ASSUME NEW a \in Agent
      PROVE  /\ Will(n, a)' <=> Will(n, a)
             /\ Shows(n, a)' <=> Shows(n, a)
             /\ Opening(a)' <=> Opening(a)
  BY <1>2 DEF Will, Shows, Opening, Leaving, Has
<1>4. OnceInv(n)'
  BY <1>2, <1>3 DEF Pushed, OnceInv
<1> QED
  BY <1>1, <1>3, <1>4

LEMMA AddPushed ==
    ASSUME Ctx, NEW n, Pushed(n), NEW a \in Agent, AddAgent(a)
    PROVE  Pushed(n)'
<1>1. /\ UNCHANGED <<expected, anns, taken, waiting, ann, panes, events, cli, srv, hs, opened, map, wire>>
      /\ UNCHANGED jobs /\ main = "idle" /\ main' = "announce"
  BY DEF AddAgent, Operation, server, link, viewer, mux, binder
<1>2. /\ Elems(served') = Elems(served) \cup {a} /\ a \notin Elems(served)
      /\ served'[Len(served')] = a
  BY AddServed DEF Ctx
<1>3. /\ n \in Nat /\ Mapped(n)' /\ OnceInv(n)' /\ IdsInv(n)'
      /\ \A b \in Agent : Will(n, b)' <=> Will(n, b)
  BY <1>1, OnlyTurns
<1>4. ASSUME NEW b \in Agent
      PROVE  /\ InTheEnd(n, b)' <=> b \in Elems(served') /\ ~AboutTo(b)'
             /\ InTurn(jobs'[b], Will(n, b)')
  <2>1. /\ InTheEnd(n, b) <=> b \in Elems(served) /\ ~AboutTo(b)
        /\ InTurn(jobs[b], Will(n, b))
    BY DEF Pushed, TurnsInv
  <2>2. ~AboutTo(b) /\ (AboutTo(b)' <=> b = a)
    BY <1>1, <1>2 DEF AboutTo
  <2>3. InTheEnd(n, b)' <=> InTheEnd(n, b)
    BY <1>1, <1>3 DEF InTheEnd
  <2>4. InTurn(jobs'[b], Will(n, b)')
    BY <1>1, <1>3, <2>1 DEF InTurn
  <2> QED
    BY <1>2, <2>1, <2>2, <2>3, <2>4
<1> QED
  BY <1>3, <1>4 DEF Pushed, TurnsInv

\* A job put behind the others of its agent.
LEMMA MoreTurns ==
    ASSUME Listing, NEW n, NEW a \in Agent, NEW k \in JobKind, InTurn(jobs[a], Will(n, a)),
           jobs'[a] = Append(jobs[a], k), Will(n, a)' <=> Will(n, a),
           k = "added" => ~InTheEnd(n, a)
    PROVE  InTurn(jobs'[a], Will(n, a)') /\ (InTheEnd(n, a)' <=> k = "added")
<1> DEFINE s == jobs[a]
           w == Will(n, a)
           t == Append(s, k)
<1>1. s \in Seq(JobKind)
  BY DEF Listing
<1>2. w \in BOOLEAN
  BY DEF Will, Shows, Opening
<1>3. k = "added" => IF s = <<>> THEN ~w ELSE s[Len(s)] # "added"
  BY DEF InTheEnd
<1>4. InTurn(s, w)
  OBVIOUS
<1>5. t # <<>> /\ t[Len(t)] = k /\ InTurn(t, w)
  BY ONLY <1>1, <1>2, <1>3, <1>4, k \in JobKind, JobMore
<1>6. InTurn(jobs'[a], Will(n, a)')
  BY <1>5 DEF InTurn
<1>7. jobs'[a] # <<>> /\ jobs'[a][Len(jobs'[a])] = k
  BY <1>5
<1> QED
  BY <1>6, <1>7 DEF InTheEnd

\* The other agents' turns.
LEMMA OtherTurns ==
    ASSUME NEW n, TurnsInv(n), NEW b \in Agent, Will(n, b)' <=> Will(n, b), jobs'[b] = jobs[b],
           b \in Elems(served)' /\ ~AboutTo(b)' <=> b \in Elems(served) /\ ~AboutTo(b)
    PROVE  /\ InTheEnd(n, b)' <=> b \in Elems(served)' /\ ~AboutTo(b)'
           /\ InTurn(jobs'[b], Will(n, b)')
<1>1. /\ InTheEnd(n, b) <=> b \in Elems(served) /\ ~AboutTo(b)
      /\ InTurn(jobs[b], Will(n, b))
  BY DEF TurnsInv
<1>2. InTheEnd(n, b)' <=> InTheEnd(n, b)
  BY DEF InTheEnd
<1>3. InTurn(jobs'[b], Will(n, b)')
  BY <1>1 DEF InTurn
<1> QED
  BY <1>1, <1>2, <1>3

LEMMA AnnouncePushed ==
    ASSUME Ctx, NEW n, Pushed(n), Connected, Announce
    PROVE  Pushed(n)'
<1>0. main = "announce"
  BY DEF Announce
<1> PICK a \in Agent : a = served[Len(served)]
  BY <1>0, LastServed DEF Ctx
<1>1. /\ UNCHANGED <<expected, anns, taken, waiting, ann, panes, events, cli, srv, hs, opened, map, wire>>
      /\ UNCHANGED served /\ main = "announce" /\ main' = "publish"
  BY DEF Announce, server, link, viewer, mux, binder
<1>2. /\ a \in Agent /\ jobs'[a] = Append(jobs[a], "added")
      /\ \A b \in Agent : b # a => jobs'[b] = jobs[b]
  BY AnnounceJobs DEF Ctx
<1>3. a \in Elems(served) /\ AboutTo(a) /\ \A b : AboutTo(b) => b = a
  BY <1>1, LastServed DEF Ctx, AboutTo
<1>4. /\ n \in Nat /\ Mapped(n)' /\ OnceInv(n)' /\ IdsInv(n)'
      /\ \A b \in Agent : Will(n, b)' <=> Will(n, b)
  BY <1>1, OnlyTurns
<1>5. /\ ~InTheEnd(n, a) /\ InTurn(jobs[a], Will(n, a))
  BY <1>2, <1>3 DEF Pushed, TurnsInv
<1>6. InTurn(jobs'[a], Will(n, a)') /\ InTheEnd(n, a)'
  <2>1. Will(n, a)' <=> Will(n, a)
    BY <1>2, <1>4
  <2> QED
    BY <1>2, <1>5, <2>1, JobKinds, MoreTurns DEF Ctx
<1>7. ASSUME NEW b \in Agent
      PROVE  /\ InTheEnd(n, b)' <=> b \in Elems(served)' /\ ~AboutTo(b)'
             /\ InTurn(jobs'[b], Will(n, b)')
  <2>1. ~AboutTo(b)'
    BY <1>1 DEF AboutTo
  <2>2. CASE b = a
    BY <1>1, <1>3, <1>6, <2>1, <2>2
  <2>3. CASE b # a
    <3>1. ~AboutTo(b)
      BY <1>3, <2>3
    <3>2. jobs'[b] = jobs[b] /\ (Will(n, b)' <=> Will(n, b)) /\ TurnsInv(n)
      BY <1>2, <1>4, <2>3 DEF Pushed
    <3>3. Elems(served)' = Elems(served)
      BY <1>1
    <3> QED
      BY <2>1, <3>1, <3>2, <3>3, OtherTurns
  <2> QED
    BY <2>2, <2>3
<1> QED
  BY <1>4, <1>7 DEF Pushed, TurnsInv

LEMMA RemovePushed ==
    ASSUME Ctx, NEW n, Pushed(n), NEW a \in Agent, RemoveAgent(a)
    PROVE  Pushed(n)'
<1>1. /\ UNCHANGED <<expected, anns, taken, waiting, ann, panes, events, cli, srv, hs, opened, map, wire>>
      /\ main = "idle" /\ main' = "publish"
  BY DEF RemoveAgent, Operation, server, link, viewer, mux, binder
<1>2. /\ Elems(served)' = Elems(served) \ {a} /\ jobs'[a] = Append(jobs[a], "removed")
      /\ \A b \in Agent : b # a => jobs'[b] = jobs[b]
  BY RemoveServed DEF Ctx
<1>3. \A b : ~AboutTo(b) /\ ~AboutTo(b)'
  BY <1>1 DEF AboutTo
<1>4. /\ n \in Nat /\ Mapped(n)' /\ OnceInv(n)' /\ IdsInv(n)'
      /\ \A b \in Agent : Will(n, b)' <=> Will(n, b)
  BY <1>1, OnlyTurns
<1>5. InTurn(jobs'[a], Will(n, a)') /\ ~InTheEnd(n, a)'
  <2>1. Will(n, a)' <=> Will(n, a)
    BY <1>4
  <2>2. InTurn(jobs[a], Will(n, a))
    BY DEF Pushed, TurnsInv
  <2> QED
    BY <1>2, <2>1, <2>2, JobKinds, MoreTurns DEF Ctx
<1>6. ASSUME NEW b \in Agent
      PROVE  /\ InTheEnd(n, b)' <=> b \in Elems(served)' /\ ~AboutTo(b)'
             /\ InTurn(jobs'[b], Will(n, b)')
  <2>1. CASE b = a
    BY <1>2, <1>5, <2>1
  <2>2. CASE b # a
    <3>1. jobs'[b] = jobs[b] /\ (Will(n, b)' <=> Will(n, b)) /\ TurnsInv(n)
      BY <1>2, <1>4, <2>2 DEF Pushed
    <3>2. b \in Elems(served)' <=> b \in Elems(served)
      BY <1>2, <2>2
    <3> QED
      BY <1>3, <3>1, <3>2, OtherTurns
  <2> QED
    BY <2>1, <2>2
<1> QED
  BY <1>4, <1>6 DEF Pushed, TurnsInv

LEMMA MainPushed ==
    ASSUME Ctx, Up, srv \notin Unlisted, NEW n, Pushed(n), Main
    PROVE  Pushed(n)'
<1>1. Connected
  <2>1. srv \in {"listed", "decided"} \cup Late
    BY CtxFacts DEF Ctx, Listing, Unlisted, Early
  <2> QED
    BY <2>1, CtxFacts
<1>2. ASSUME NEW a \in Agent, MoveGroup(a) PROVE Pushed(n)'
  BY <1>2, PlainMainPushed DEF MoveGroup, Operation
<1>3. ASSUME NEW a \in Agent, AddAgent(a) PROVE Pushed(n)'
  BY <1>3, AddPushed
<1>4. ASSUME NEW a \in Agent, RemoveAgent(a) PROVE Pushed(n)'
  BY <1>4, RemovePushed
<1>5. CASE Announce
  BY <1>1, <1>5, AnnouncePushed
<1>6. CASE Relayout \/ OnAttached \/ Publish \/ Decide \/ Broadcast
  <2>1. UNCHANGED <<served, jobs>> /\ main # "announce" /\ main' # "announce"
    BY <1>6 DEF Relayout, OnAttached, Publish, Decide, Broadcast, sends
  <2> QED
    BY <2>1, PlainMainPushed
<1> QED
  BY <1>2, <1>3, <1>4, <1>5, <1>6 DEF Main

-----------------------------------------------------------------------------
(* The announcements. *)

LEMMA GoodFacts ==
    ASSUME Ctx
    PROVE  /\ \A x \in anns \cup expected \cup panes \cup AddedIn(wire) :
                 x.id \in 1..Len(opened) /\ opened[x.id] = x.name /\ x.name \in Agent
           /\ ann # NoPane => ann.id \in 1..Len(opened) /\ opened[ann.id] = ann.name /\ ann.name \in Agent
           /\ \A x, y \in anns \cup expected \cup panes \cup AddedIn(wire) :
                 x.id = y.id => x.name = y.name
<1>1. opened \in Seq(Agent)
  BY CtxFacts
<1>2. \A i \in 1..Len(opened) : opened[i] \in Agent
  BY <1>1
<1>3. \A x \in AddedIn(wire) : GoodIn(x, opened)
  BY DEF Ctx, LinkInv, WireInv, WireGood, FrameGoodIn, AddedIn
<1>4. \A x \in anns \cup expected \cup panes \cup AddedIn(wire) : GoodIn(x, opened)
  BY <1>3 DEF Ctx, LinkInv, PairInv, AllGood
<1>5. ann # NoPane => GoodIn(ann, opened)
  BY DEF Ctx, LinkInv, PairInv
<1> QED
  BY <1>2, <1>4, <1>5 DEF GoodIn

\* A job of agent a is done, and nobody else's place changes.
LEMMA DoneTurns ==
    ASSUME Ctx, NEW n, TurnsInv(n), NEW a \in Agent, NEW k, Job(a, k), Done(a), UNCHANGED <<served, main>>,
           \A b \in Agent : b # a => (Will(n, b)' <=> Will(n, b)),
           k = "removed" => ~Will(n, a)',
           k = "added" => Will(n, a)' \/ (a \notin Elems(served))
    PROVE  TurnsInv(n)'
<1>1. /\ jobs[a] # <<>> /\ Head(jobs[a]) = k /\ jobs[a] \in Seq(JobKind)
      /\ jobs'[a] = Tail(jobs[a])
      /\ \A b \in Agent : b # a => jobs'[b] = jobs[b]
  BY DoneJobs DEF Ctx
<1>2. k \in JobKind
  BY <1>1
<1>3. /\ InTheEnd(n, a) <=> a \in Elems(served) /\ ~AboutTo(a)
      /\ InTurn(jobs[a], Will(n, a))
  BY DEF TurnsInv
<1>4. \A b : AboutTo(b)' <=> AboutTo(b)
  BY DEF AboutTo
<1> DEFINE s == jobs[a]
           t == Tail(s)
           w == Will(n, a)
<1>5. s # <<>> /\ s \in Seq(JobKind) /\ InTurn(s, w)
  BY <1>1, <1>3
<1>6. /\ t = <<>> => s[Len(s)] = Head(s)
      /\ t # <<>> => t[Len(t)] = s[Len(s)]
      /\ \A v : (Head(s) = "removed" => ~v) => InTurn(t, v)
  BY ONLY <1>5, JobLess
<1>7. InTurn(jobs'[a], Will(n, a)')
  BY <1>1, <1>6
<1>8. InTheEnd(n, a)' <=> InTheEnd(n, a)
  <2>1. CASE t # <<>>
    BY <1>1, <1>6, <2>1 DEF InTheEnd
  <2>2. CASE t = <<>>
    <3>1. InTheEnd(n, a) <=> k = "added"
      BY <1>1, <1>6, <2>2 DEF InTheEnd
    <3>2. InTheEnd(n, a)' <=> Will(n, a)'
      BY <1>1, <2>2 DEF InTheEnd
    <3>3. k = "added" => a \in Elems(served)
      BY <1>3, <3>1
    <3> QED
      BY <1>2, <3>1, <3>2, <3>3 DEF JobKind
  <2> QED
    BY <2>1, <2>2
<1>9. ASSUME NEW b \in Agent
      PROVE  /\ InTheEnd(n, b)' <=> b \in Elems(served)' /\ ~AboutTo(b)'
             /\ InTurn(jobs'[b], Will(n, b)')
  <2>1. Elems(served)' = Elems(served)
    OBVIOUS
  <2>2. CASE b = a
    BY <1>3, <1>4, <1>7, <1>8, <2>1, <2>2
  <2>3. CASE b # a
    BY <1>1, <1>4, <2>1, <2>3, OtherTurns
  <2> QED
    BY <2>2, <2>3
<1> QED
  BY <1>9 DEF TurnsInv

LEMMA SkipPushed ==
    ASSUME Ctx, Up, Registered, NEW n, Pushed(n), NEW a \in Agent, SkipAdded(a)
    PROVE  Pushed(n)'
<1>1. /\ UNCHANGED <<expected, anns, taken, waiting, ann, panes, events, cli, srv, hs, opened, map, wire>>
      /\ UNCHANGED <<served, main>> /\ a \notin Elems(served) /\ Job(a, "added") /\ Done(a)
  BY DEF SkipAdded, server, link, viewer, mux, binder
<1>2. /\ n \in Nat /\ Mapped(n)' /\ OnceInv(n)' /\ IdsInv(n)'
      /\ \A b \in Agent : Will(n, b)' <=> Will(n, b)
  BY <1>1, OnlyTurns
<1>3. TurnsInv(n)'
  BY <1>1, <1>2, DoneTurns DEF Pushed
<1> QED
  BY <1>2, <1>3 DEF Pushed

LEMMA OpenPushedPushed ==
    ASSUME Ctx, Up, Handshake, srv \notin Unlisted, NEW n, Pushed(n), NEW a \in Agent, OpenPushed(a), Clean'
    PROVE  Pushed(n)'
<1>1. /\ UNCHANGED <<expected, anns, taken, waiting, panes, events, cli, srv, hs, map, wire>>
      /\ UNCHANGED <<served, main>> /\ Job(a, "added") /\ Done(a) /\ ann = NoPane
      /\ opened' = Append(opened, a) /\ ann' = Pane(Len(opened) + 1, a) /\ faults' = Crossing
  BY DEF OpenPushed, Job, server, link, viewer, mux, binder
<1>2. srv \notin Unmapped
  BY <1>1, NotCrossed DEF Unlisted
<1>3. /\ opened \in Seq(Agent) /\ Len(opened) \in Nat /\ taken \in Nat /\ taken <= Len(opened)
      /\ n \in Nat /\ n <= Len(opened)
  BY <1>2, CtxFacts DEF Pushed, Mapped, Unmapped
<1>4. Len(opened') = Len(opened) + 1 /\ Grows(opened, opened')
  BY <1>1, <1>3 DEF Grows
<1>5. Mapped(n)'
  BY <1>1, <1>2, <1>3, <1>4 DEF Pushed, Mapped, Unmapped
<1>6. Arrived(n)' = Arrived(n)
  <2>1. Listed(opened', n) = Listed(opened, n)
    BY <1>3, <1>4, ListedGrows
  <2>2. Base(n)' = Base(n)
    BY <1>1, <1>2, <2>1 DEF Base, Unmapped
  <2> QED
    BY <1>1, <2>2 DEF Arrived
<1>7. /\ ann' # NoPane /\ ann'.name = a /\ ann'.id = Len(opened) + 1
  BY <1>1, <1>3 DEF Pane, NoPane
<1>8. ASSUME NEW b \in Agent
      PROVE  /\ Shows(n, b)' <=> Shows(n, b)
             /\ ~Opening(b) /\ (Opening(b)' <=> b = a)
  BY <1>1, <1>6, <1>7 DEF Shows, Opening, Leaving, Has
<1>9. ~Shows(n, a)
  <2>1. jobs[a] # <<>> /\ Head(jobs[a]) = "added" /\ jobs[a] \in Seq(JobKind)
    BY <1>1, DoneJobs DEF Ctx
  <2>2. InTurn(jobs[a], Will(n, a))
    BY DEF Pushed, TurnsInv
  <2>3. ~Will(n, a)
    BY ONLY <2>1, <2>2, JobLess
  <2> QED
    BY <2>3 DEF Will
<1>10. OnceInv(n)'
  <2>1. \A p, q \in Arrived(n)' : p.name = q.name => p = q
    BY <1>6 DEF Pushed, OnceInv
  <2>2. ASSUME NEW b \in Agent
        PROVE  /\ Opening(b)' => ~Shows(n, b)'
               /\ Once(wire', b)
               /\ Has(AddedIn(wire'), b) => ~Has(Arrived(n)', b) /\ b \notin RemovedIn(events')
    BY <1>1, <1>6, <1>8, <1>9 DEF Pushed, OnceInv
  <2> QED
    BY <2>1, <2>2 DEF OnceInv
<1>11. TurnsInv(n)'
  <2>1. \A b \in Agent : b # a => (Will(n, b)' <=> Will(n, b))
    BY <1>8 DEF Will
  <2>2. Will(n, a)'
    BY <1>8 DEF Will
  <2> QED
    BY <1>1, <2>1, <2>2, DoneTurns DEF Pushed
<1>12. IdsInv(n)'
  <2>1. ASSUME NEW x \in anns \cup AddedIn(wire) \cup expected PROVE x.id # Len(opened) + 1
    BY <1>3, GoodFacts
  <2>2. Comes(n, ann)'
    BY <1>3, <1>7, <1>1 DEF Comes
  <2>3. \A x : Comes(n, x)' <=> Comes(n, x)
    BY <1>1 DEF Comes
  <2> QED
    BY <1>1, <1>7, <2>1, <2>2, <2>3 DEF Pushed, IdsInv
<1> QED
  BY <1>3, <1>5, <1>10, <1>11, <1>12 DEF Pushed

LEMMA SendAddedPushed ==
    ASSUME Ctx, Up, Handshake, NEW n, Pushed(n), SendAdded, Clean'
    PROVE  Pushed(n)'
<1>1. /\ UNCHANGED <<expected, anns, taken, waiting, panes, events, cli, srv, hs, opened, map>>
      /\ UNCHANGED <<served, main, jobs>> /\ ann # NoPane /\ ann' = NoPane
      /\ wire' = wire \o <<[kind |-> "added", pane |-> ann]>>
      /\ Overtaking(ann.name) \subseteq faults'
  BY DEF SendAdded, Write, server, viewer, mux, binder, decide
<1>2. PICK a \in Agent : a = ann.name
  BY <1>1, GoodFacts
<1>3. a \notin RemovedIn(wire) /\ a \notin RemovedIn(events)
  <2>1. "overtaken" \notin faults'
    BY DEF Clean
  <2>2. Removals(wire, a) \cup Removals(events, a) = {}
    BY <1>1, <1>2, <2>1 DEF Overtaking
  <2> QED
    BY <2>2 DEF RemovedIn
<1>4. Opening(a) /\ \A b : Opening(b) => b = a
  BY <1>1, <1>2 DEF Opening
<1>5. ~Has(Arrived(n), a) /\ ~Has(AddedIn(wire), a)
  BY <1>3, <1>4 DEF Pushed, OnceInv, Shows, Leaving
<1> DEFINE f == [kind |-> "added", pane |-> ann]
<1>6. f.kind = "added" /\ f.pane = ann /\ {b \in Agent : f = [kind |-> "removed", name |-> b]} = {}
  <2>1. \A b : f # [kind |-> "removed", name |-> b]
    BY PlainFormed
  <2> QED
    BY <2>1
<1>7. wire' = wire \o <<f>> /\ IsSeq(wire)
  BY <1>1, CtxFacts
<1> HIDE DEF f
<1>8. /\ AddedIn(wire') = AddedIn(wire) \cup {ann} /\ MapsIn(wire') = MapsIn(wire)
      /\ RemovedIn(wire') = RemovedIn(wire)
  <2>1. AddedIn(wire') = AddedIn(wire) \cup {ann} /\ MapsIn(wire') = MapsIn(wire)
    BY <1>6, <1>7, FramesMore
  <2>2. RemovedIn(wire') = RemovedIn(wire) \cup {b \in Agent : f = [kind |-> "removed", name |-> b]}
    BY <1>7, FramesMore
  <2> QED
    BY <1>6, <2>1, <2>2
<1>9. \A b \in Agent : Once(wire', b)
  <2>1. \A b \in Agent : Once(wire, b)
    BY OnceFacts
  <2>2. \A b \in Agent :
           f.kind = "added" /\ f.pane.name = b => ~Has(AddedIn(wire), b) /\ b \notin RemovedIn(wire)
    BY <1>2, <1>3, <1>5, <1>6
  <2> QED
    BY <1>7, <2>1, <2>2, FramesMore
<1>10. Mapped(n)' /\ Arrived(n)' = Arrived(n)
  BY <1>1, <1>8 DEF Pushed, Mapped, Arrived, Base
<1>11. ASSUME NEW b \in Agent
       PROVE  /\ Has(AddedIn(wire'), b) <=> Has(AddedIn(wire), b) \/ b = a
              /\ ~Opening(b)'
              /\ Leaving(b)' <=> Leaving(b)
  BY <1>1, <1>2, <1>8 DEF Has, Opening, Leaving
<1>12. ASSUME NEW b \in Agent
       PROVE  Will(n, b)' <=> Will(n, b)
  <2>1. CASE b = a
    BY <1>3, <1>4, <1>8, <1>11, <1>1, <2>1 DEF Will, Shows, Leaving
  <2>2. CASE b # a
    <3>1. Shows(n, b)' <=> Shows(n, b)
      BY <1>10, <1>11, <2>2 DEF Shows, Has
    <3> QED
      BY <1>4, <1>11, <2>2, <3>1 DEF Will
  <2> QED
    BY <2>1, <2>2
<1>13. OnceInv(n)'
  <2>1. \A p, q \in Arrived(n)' : p.name = q.name => p = q
    BY <1>10 DEF Pushed, OnceInv
  <2>2. ASSUME NEW b \in Agent
        PROVE  /\ Opening(b)' => ~Shows(n, b)'
               /\ Once(wire', b)
               /\ Has(AddedIn(wire'), b) => ~Has(Arrived(n)', b) /\ b \notin RemovedIn(events')
    BY <1>1, <1>3, <1>5, <1>9, <1>10, <1>11 DEF Pushed, OnceInv
  <2> QED
    BY <2>1, <2>2 DEF OnceInv
<1>14. TurnsInv(n)'
  BY <1>1, <1>12, TurnsSame DEF Pushed
<1>15. IdsInv(n)'
  <2>1. \A x : Comes(n, x)' <=> Comes(n, x)
    BY <1>1 DEF Comes
  <2> QED
    BY <1>1, <1>8, <2>1 DEF Pushed, IdsInv
<1> QED
  BY <1>10, <1>13, <1>14, <1>15 DEF Pushed

LEMMA SendRemovedPushed ==
    ASSUME Ctx, Up, Registered, NEW n, Pushed(n), NEW a \in Agent, SendRemoved(a)
    PROVE  Pushed(n)'
<1> DEFINE f == [kind |-> "removed", name |-> a]
<1>1. /\ UNCHANGED <<expected, anns, taken, waiting, ann, panes, events, cli, srv, hs, opened, map>>
      /\ UNCHANGED <<served, main>> /\ Job(a, "removed") /\ Done(a) /\ ann = NoPane
      /\ wire' = wire \o <<f>>
  BY DEF SendRemoved, Write, Job, server, viewer, mux, binder, decide
<1>2. f.kind = "removed" /\ {b \in Agent : f = [kind |-> "removed", name |-> b]} = {a}
  <2>1. \A b : f = [kind |-> "removed", name |-> b] => b = a
    BY PlainFormed
  <2> QED
    BY <2>1
<1>3. IsSeq(wire)
  BY CtxFacts
<1> HIDE DEF f
<1>4. /\ AddedIn(wire') = AddedIn(wire) /\ MapsIn(wire') = MapsIn(wire)
      /\ RemovedIn(wire') = RemovedIn(wire) \cup {a}
  BY <1>1, <1>2, <1>3, FramesMore
<1>5. \A b \in Agent : Once(wire', b)
  <2>1. \A b \in Agent : Once(wire, b)
    BY OnceFacts
  <2> QED
    BY <1>1, <1>2, <1>3, <2>1, FramesMore
<1>6. Mapped(n)' /\ Arrived(n)' = Arrived(n)
  BY <1>1, <1>4 DEF Pushed, Mapped, Arrived, Base
<1>7. \A b : ~Opening(b) /\ ~Opening(b)'
  BY <1>1 DEF Opening
<1>8. ~Shows(n, a)' /\ \A b \in Agent : b # a => (Shows(n, b)' <=> Shows(n, b))
  BY <1>1, <1>4, <1>6 DEF Shows, Leaving, Has
<1>9. OnceInv(n)'
  BY <1>1, <1>4, <1>5, <1>6, <1>7 DEF Pushed, OnceInv
<1>10. TurnsInv(n)'
  BY <1>1, <1>7, <1>8, DoneTurns DEF Pushed, Will
<1>11. IdsInv(n)'
  BY <1>1, <1>4, IdsSame
<1> QED
  BY <1>6, <1>9, <1>10, <1>11 DEF Pushed

LEMMA AnnouncerPushed ==
    ASSUME Ctx, Up, Handshake, srv \notin Unlisted, NEW n, Pushed(n), Announcer, Clean'
    PROVE  Pushed(n)'
<1>1. Registered
  <2>1. srv \in {"listed", "decided"} \cup Late
    BY CtxFacts DEF Ctx, Listing, Unlisted, Early
  <2> QED
    BY <2>1, CtxFacts
<1> QED
  BY <1>1, SendAddedPushed, SkipPushed, OpenPushedPushed, SendRemovedPushed DEF Announcer

-----------------------------------------------------------------------------
(* The handshake. *)

LEMMA ListPushed ==
    ASSUME Ctx, Up, Handshake, ListPanes, Clean'
    PROVE  \E n : Pushed(n)'
<1> PICK m : m = Len(served)
  OBVIOUS
<1>1. /\ UNCHANGED <<served, main, jobs, ann, anns, expected, panes, taken, waiting, events, cli, wire,
                      opened>>
      /\ srv = "registered" /\ srv' = "listed" /\ hs'.panes = served
      /\ main # "announce" /\ \A a \in Agent : jobs[a] = <<>>
  BY DEF ListPanes, Handler, window1, sends, viewer, mux, binder, Clean, Ctx, LinkInv, Lists
<1>2. /\ cli \in {"hello", "map"} /\ ann = NoPane /\ AddedIn(wire) = {} /\ RemovedIn(wire) = {}
      /\ MapsIn(wire) = {} /\ opened = <<>>
  BY <1>1 DEF Handshake, Unmapped, Unlisted
<1>3. /\ anns = {} /\ expected = {} /\ events = <<>> /\ RemovedIn(events) = {}
  BY <1>2, CtxFacts, FramesNone DEF Ctx, Stages
<1>4. m \in Nat /\ DOMAIN served = 1..m
  BY <1>1, CtxFacts
<1>5. Mapped(m)'
  BY <1>1, <1>2, <1>4 DEF Mapped, Unopened
<1>6. Arrived(m)' = Listed(served, m)
  BY <1>1, <1>2, <1>3, <1>4 DEF Arrived, Base, Unopened
<1>7. NoDup(served)
  BY DEF Ctx, Listing
<1>8. \A p, q \in Listed(served, m) : p.name = q.name => p = q
  <2> SUFFICES ASSUME NEW i \in 1..m, NEW j \in 1..m, Pane(i, served[i]).name = Pane(j, served[j]).name
               PROVE  Pane(i, served[i]) = Pane(j, served[j])
    BY DEF Listed
  <2>1. served[i] = served[j]
    BY DEF Pane
  <2>2. i = j
    BY <1>4, <1>7, <2>1 DEF NoDup
  <2> QED
    BY <2>2
<1>9. \A a : Has(Listed(served, m), a) <=> a \in Elems(served)
  <2>1. \A i : Pane(i, served[i]).name = served[i]
    BY DEF Pane
  <2> QED
    BY <1>4, <2>1 DEF Has, Listed, Elems
<1>10. ASSUME NEW a \in Agent
       PROVE  ~Opening(a)' /\ (Shows(m, a)' <=> a \in Elems(served)) /\ AddedIn(wire') = {}
  BY <1>1, <1>2, <1>3, <1>6, <1>9, <1>4 DEF Opening, Shows, Leaving, Has
<1>11. OnceInv(m)'
  <2>1. \A a \in Agent : Once(wire', a)
    BY <1>1, <1>2 DEF Once, AddedIn, AddsOf
  <2>2. \A a : ~Has(AddedIn(wire'), a)
    BY <1>1, <1>2 DEF Has
  <2> QED
    BY <1>4, <1>6, <1>8, <1>10, <2>1, <2>2 DEF OnceInv
<1>12. TurnsInv(m)'
  <2> SUFFICES ASSUME NEW a \in Agent
               PROVE  /\ InTheEnd(m, a)' <=> a \in Elems(served)' /\ ~AboutTo(a)'
                      /\ InTurn(jobs'[a], Will(m, a)')
    BY <1>4 DEF TurnsInv
  <2>1. jobs'[a] = <<>> /\ ~AboutTo(a)' /\ Elems(served)' = Elems(served)
    BY <1>1 DEF AboutTo
  <2>2. InTheEnd(m, a)' <=> a \in Elems(served)
    BY <1>10, <2>1 DEF InTheEnd, Will
  <2>3. InTurn(jobs'[a], Will(m, a)')
    BY <2>1, NoFrames DEF InTurn
  <2> QED
    BY <2>1, <2>2, <2>3
<1>13. IdsInv(m)'
  BY <1>1, <1>2, <1>3 DEF IdsInv
<1>14. Pushed(m)'
  BY <1>4, <1>5, <1>11, <1>12, <1>13 DEF Pushed
<1> QED
  BY <1>14

LEMMA ServePushed ==
    ASSUME Ctx, Up, Handshake, srv \notin Unlisted, NEW n, Pushed(n), Serve
    PROVE  Pushed(n)'
<1> USE DEF window1, sends, viewer, mux, binder, link, server
<1>1. ~Register /\ ~ListPanes /\ ~Leave
  BY DEF Register, ListPanes, Handler, Leave, Unlisted
<1>2. UNCHANGED <<expected, anns, taken, waiting, ann, panes, jobs, served, main, events, cli, map>>
  BY <1>1 DEF Serve, DecideForPeer, SendHelloOK, OpenStreams, SendStreamMap, Attach, OldLeaves, Handler
<1>3. CASE DecideForPeer \/ Attach \/ OldLeaves
  <2>1. /\ UNCHANGED <<opened, wire>> /\ hs'.panes = hs.panes /\ hs'.ids = hs.ids
        /\ \/ srv' = srv
           \/ srv \in Unopened /\ srv' \in Unopened
           \/ srv = "mapped" /\ srv' = "live"
    BY <1>3 DEF DecideForPeer, Attach, OldLeaves, Handler, Unopened, Ctx, LinkInv, Lists
  <2>2. Mapped(n)' /\ Base(n)' = Base(n)
    BY <1>2, <2>1 DEF Pushed, Mapped, Base, Unopened
  <2> QED
    BY <1>2, <2>1, <2>2, PushedHeld
<1>4. CASE SendHelloOK
  <2>1. /\ UNCHANGED opened /\ hs'.panes = hs.panes /\ srv = "decided" /\ srv' = "greeted"
        /\ Write(<<[kind |-> "hello_ok", owner |-> hs.owner]>>)
    BY <1>4 DEF SendHelloOK, Handler, Ctx, LinkInv, Lists
  <2>2. /\ AddedIn(wire') = AddedIn(wire) /\ MapsIn(wire') = MapsIn(wire)
        /\ RemovedIn(wire') = RemovedIn(wire) /\ (\A a \in Agent : Once(wire, a) => Once(wire', a))
    BY <2>1, PlainWritten, PlainFormed
  <2>3. Mapped(n)' /\ Base(n)' = Base(n)
    BY <1>2, <2>1, <2>2 DEF Pushed, Mapped, Base, Unopened
  <2> QED
    BY <1>2, <2>1, <2>2, <2>3, PushedHeld
<1>5. CASE OpenStreams
  <2>1. /\ UNCHANGED wire /\ srv = "greeted" /\ srv' = "opened" /\ opened' = opened \o hs.panes
        /\ hs'.ids = Len(opened) + 1 .. Len(opened')
    BY <1>5 DEF OpenStreams, Handler, NoHandshake
  <2>2. opened = <<>> /\ cli \in {"hello", "map"} /\ hs.panes \in Seq(Agent) /\ n = Len(hs.panes)
    BY <2>1, CtxFacts DEF Handshake, Unmapped, Unopened, Pushed, Mapped
  <2>3. opened' = hs.panes /\ Len(opened) = 0
    BY <2>1, <2>2
  <2>4. n \in Nat /\ Len(opened') = n /\ hs'.ids = 1 .. n
    BY <2>1, <2>2, <2>3 DEF Pushed
  <2>5. Mapped(n)'
    BY <1>2, <2>1, <2>2, <2>4 DEF Pushed, Mapped, Unopened
  <2>6. Base(n)' = Base(n)
    BY <1>2, <2>1, <2>2, <2>3 DEF Base, Unopened
  <2> QED
    BY <1>2, <2>1, <2>5, <2>6, PushedHeld
<1>6. CASE SendStreamMap
  <2> DEFINE f == [kind |-> "map", ids |-> hs.ids]
  <2>1. /\ UNCHANGED opened /\ srv = "opened" /\ srv' = "mapped" /\ wire' = wire \o <<f>>
    BY <1>6 DEF SendStreamMap, Handler, Write
  <2>2. f.kind = "map" /\ f.ids = hs.ids /\ {b \in Agent : f = [kind |-> "removed", name |-> b]} = {}
    <3>1. \A b : f # [kind |-> "removed", name |-> b]
      BY PlainFormed
    <3> QED
      BY <3>1
  <2>3. IsSeq(wire)
    BY CtxFacts
  <2> HIDE DEF f
  <2>4. AddedIn(wire') = AddedIn(wire) /\ MapsIn(wire') = MapsIn(wire) \cup {hs.ids}
    BY <2>1, <2>2, <2>3, FramesMore
  <2>5. RemovedIn(wire') = RemovedIn(wire) \cup {b \in Agent : f = [kind |-> "removed", name |-> b]}
    BY <2>1, <2>3, FramesMore
  <2>6. \A b \in Agent : Once(wire, b) => Once(wire', b)
    BY <2>1, <2>2, <2>3, FramesMore
  <2>7. Mapped(n)' /\ Base(n)' = Base(n)
    BY <1>2, <2>1, <2>4 DEF Pushed, Mapped, Base, Unopened
  <2> QED
    BY <1>2, <2>1, <2>2, <2>4, <2>5, <2>6, <2>7, PushedHeld
<1> QED
  BY <1>1, <1>3, <1>4, <1>5, <1>6 DEF Serve

-----------------------------------------------------------------------------
(* The viewer's steps, one by one. *)

LEMMA ReadPushed ==
    ASSUME Ctx, Handshake, NEW n, Pushed(n), ReadHelloOK \/ ReadStreamMap
    PROVE  Pushed(n)'
<1> USE DEF window1, sends, server, mux, binder
<1>1. /\ UNCHANGED <<expected, anns, taken, waiting, ann, panes, jobs, served, main, events, srv, hs, opened>>
      /\ Reads /\ cli \in {"hello", "map"} /\ cli' # "run"
      /\ \/ map' = map /\ cli' \notin {"mux", "accept"}
         \/ Frame.kind = "map" /\ map' = Frame.ids
  BY DEF ReadHelloOK, ReadStreamMap
<1>2. MapFirst(wire)
  BY <1>1 DEF Handshake
<1>3. /\ AddedIn(wire') = AddedIn(wire) /\ RemovedIn(wire') = RemovedIn(wire)
      /\ MapsIn(wire) = IF Frame.kind = "map" THEN MapsIn(wire') \cup {Frame.ids} ELSE MapsIn(wire')
      /\ \A a \in Agent : Once(wire, a) => Once(wire', a)
  BY <1>1, <1>2, PlainRead
<1>4. Mapped(n)'
  BY <1>1, <1>3 DEF Pushed, Mapped
<1>5. Base(n)' = Base(n)
  BY <1>1, BaseSame
<1> QED
  BY <1>1, <1>3, <1>4, <1>5, PushedHeld

\* What was read along with the map, on a session nothing has gone wrong with, was an
\* owner map.
LEMMA LeavePushed ==
    ASSUME Ctx, NEW n, Pushed(n), LeaveBuffered, Clean'
    PROVE  Pushed(n)'
<1> USE DEF window1, sends, server, mux, binder
<1>1. /\ UNCHANGED <<expected, anns, taken, waiting, ann, panes, jobs, served, main, events, srv, hs, cli,
                      map, opened>>
      /\ wire # <<>> /\ wire' = Tail(wire) /\ faults' = faults \cup Lost(Frame)
  BY DEF LeaveBuffered, Reads
<1>2. Frame.kind = "ownership"
  BY <1>1 DEF Lost, Clean
<1>3. IsSeq(wire) /\ \A a : Frame # [kind |-> "removed", name |-> a]
  BY <1>2, CtxFacts
<1>4. /\ AddedIn(wire') = AddedIn(wire) /\ RemovedIn(wire') = RemovedIn(wire)
      /\ MapsIn(wire') \subseteq MapsIn(wire)
      /\ \A a \in Agent : Once(wire, a) => Once(wire', a)
  BY <1>1, <1>2, <1>3, FramesLess DEF Frame
<1>5. Mapped(n)' /\ Base(n)' = Base(n)
  BY <1>1, <1>4, MappedSame, BaseSame DEF Pushed
<1> QED
  BY <1>1, <1>4, <1>5, PushedHeld

LEMMA StartPushed ==
    ASSUME Ctx, NEW n, Pushed(n), StartMux
    PROVE  Pushed(n)'
<1> USE DEF window1, sends, server, link, mux, binder
<1>1. /\ UNCHANGED <<expected, anns, taken, waiting, ann, panes, jobs, served, main, events, srv, hs, wire,
                      map, opened>>
      /\ cli = "mux" /\ cli' = "accept"
  BY DEF StartMux
<1>2. Mapped(n)' /\ Base(n)' = Base(n)
  BY <1>1, MappedSame, BaseSame DEF Pushed
<1> QED
  BY <1>1, <1>2, PushedHeld

LEMMA AcceptPushed ==
    ASSUME Ctx, Handshake, NEW n, Pushed(n), AcceptMapped
    PROVE  Pushed(n)'
<1> USE DEF window1, sends, server, mux, link
<1>1. /\ UNCHANGED <<expected, anns, waiting, ann, jobs, served, main, events, srv, hs, wire, opened>>
      /\ cli = "accept" /\ cli' = "run" /\ taken' = Cardinality(map)
      /\ panes' = {Pane(i, opened[i]) : i \in map \cap (1 .. taken')}
  BY DEF AcceptMapped
<1>2. srv \notin Unopened
  BY <1>1 DEF Handshake, Unmapped
<1>3. n \in Nat /\ map = 1 .. n
  BY <1>1 DEF Pushed, Mapped
<1>4. taken' = n
  BY <1>1, <1>3, FS_Interval
<1>5. panes' = Listed(opened, n)
  BY <1>1, <1>3, <1>4 DEF Listed
<1>6. Arrived(n)' = Arrived(n)
  BY <1>1, <1>2, <1>5 DEF Arrived, Base
<1>7. Mapped(n)'
  BY <1>1 DEF Pushed, Mapped
<1>8. IdsInv(n)'
  <2>1. expected = {}
    BY <1>1 DEF Ctx, Stages
  <2>2. \A x : Comes(n, x) => Comes(n, x)'
    BY <1>1, <1>4 DEF Comes
  <2> QED
    BY <1>1, <2>1, <2>2 DEF Pushed, IdsInv
<1> QED
  BY <1>1, <1>6, <1>7, <1>8, OnceFacts, PushedSame

\* An announcement leaves the wire for its queue.
LEMMA MuxAddedPushed ==
    ASSUME Ctx, NEW n, Pushed(n), MuxReads, Frame.kind = "added"
    PROVE  Pushed(n)'
<1> USE DEF window1, sends, server, binder
<1>1. /\ UNCHANGED <<expected, panes, taken, waiting, ann, jobs, served, main, events, srv, hs, cli, map,
                      opened>>
      /\ anns' = anns \cup {Frame.pane} /\ wire # <<>> /\ wire' = Tail(wire)
  BY DEF MuxReads, Reads
<1>2. IsSeq(wire)
  BY CtxFacts
<1> DEFINE p == Frame.pane
           a == p.name
<1>3. AddedIn(wire) = AddedIn(wire') \cup {p} /\ MapsIn(wire') = MapsIn(wire)
  BY <1>1, <1>2, FramesLess DEF Frame
<1>4. RemovedIn(wire') = RemovedIn(wire)
  <2>1. RemovedIn(wire) = RemovedIn(wire') \cup {b \in Agent : Frame = [kind |-> "removed", name |-> b]}
    BY <1>1, <1>2, FramesLess DEF Frame
  <2>2. \A b : Frame # [kind |-> "removed", name |-> b]
    BY PlainFormed
  <2> QED
    BY <2>1, <2>2
<1>5. a \in Agent
  BY <1>3, GoodFacts
<1>6. \A b \in Agent : Once(wire', b) /\ (b = a => ~Has(AddedIn(wire'), b))
  BY <1>1, <1>2, OnceFacts, FramesLess DEF Frame
<1>7. ~Has(Arrived(n), a)
  BY <1>3, <1>5 DEF Pushed, OnceInv, Has
<1>8. Arrived(n)' = Arrived(n) \cup {p} /\ Mapped(n)'
  BY <1>1, <1>3 DEF Arrived, Base, Pushed, Mapped
<1>9. ASSUME NEW b \in Agent
      PROVE  /\ Has(Arrived(n)', b) <=> Has(Arrived(n), b) \/ b = a
             /\ Has(AddedIn(wire), b) <=> Has(AddedIn(wire'), b) \/ b = a
             /\ Leaving(b)' <=> Leaving(b)
             /\ Opening(b)' <=> Opening(b)
  BY <1>1, <1>3, <1>4, <1>8 DEF Has, Leaving, Opening
<1> HIDE DEF p
<1>10. ASSUME NEW b \in Agent
       PROVE  (Shows(n, b)' <=> Shows(n, b)) /\ (Will(n, b)' <=> Will(n, b))
  BY <1>9 DEF Shows, Will
<1>11. OnceInv(n)'
  <2>1. \A x, y \in Arrived(n)' : x.name = y.name => x = y
    BY <1>7, <1>8 DEF Pushed, OnceInv, Has
  <2>2. ASSUME NEW b \in Agent
        PROVE  /\ Opening(b)' => ~Shows(n, b)'
               /\ Once(wire', b)
               /\ Has(AddedIn(wire'), b) => ~Has(Arrived(n)', b) /\ b \notin RemovedIn(events')
    BY <1>1, <1>6, <1>9, <1>10 DEF Pushed, OnceInv
  <2> QED
    BY <2>1, <2>2 DEF OnceInv
<1>12. TurnsInv(n)'
  BY <1>1, <1>10, TurnsSame DEF Pushed
<1>13. IdsInv(n)'
  <2>1. p \notin expected
    BY <1>7 DEF Has, Arrived
  <2>2. \A x : Comes(n, x)' <=> Comes(n, x)
    BY <1>1 DEF Comes
  <2>3. anns' \cup AddedIn(wire') = anns \cup AddedIn(wire)
    BY <1>1, <1>3 DEF p
  <2>4. anns' = anns \cup {p}
    BY <1>1 DEF p
  <2> QED
    BY <1>1, <2>1, <2>2, <2>3, <2>4 DEF Pushed, IdsInv
<1> QED
  BY <1>8, <1>11, <1>12, <1>13 DEF Pushed

\* Another frame goes to the buffer, and what that drops is an owner map.
LEMMA MuxOtherPushed ==
    ASSUME Ctx, NEW n, Pushed(n), MuxReads, Frame.kind # "added", Clean'
    PROVE  Pushed(n)'
<1> USE DEF window1, sends, server, binder
<1>1. /\ UNCHANGED <<expected, panes, taken, waiting, ann, jobs, served, main, anns, srv, hs, cli, map,
                      opened>>
      /\ wire # <<>> /\ wire' = Tail(wire)
      /\ \/ events' = Append(events, Frame)
         \/ /\ events' = Append(Tail(events), Frame) /\ ~(Len(events) < EventCap)
            /\ faults' = faults \cup Lost(Head(events))
  BY DEF MuxReads, Reads
<1>2. IsSeq(wire) /\ IsSeq(events)
  BY CtxFacts
<1> DEFINE R == {b \in Agent : Frame = [kind |-> "removed", name |-> b]}
<1>3. AddedIn(wire') = AddedIn(wire) /\ MapsIn(wire') \subseteq MapsIn(wire)
  BY <1>1, <1>2, FramesLess DEF Frame
<1>4. RemovedIn(wire) = RemovedIn(wire') \cup R
  BY <1>1, <1>2, FramesLess DEF Frame
<1>5. \A b \in Agent : Once(wire', b) /\ (b \in R => ~Has(AddedIn(wire), b))
  BY <1>1, <1>2, OnceFacts, FramesLess DEF Frame
<1>6. ASSUME NEW E, IsSeq(E) PROVE RemovedIn(Append(E, Frame)) = RemovedIn(E) \cup R
  <2>1. E \o <<Frame>> = Append(E, Frame)
    BY <1>6, FrameAdded
  <2>2. RemovedIn(E \o <<Frame>>) = RemovedIn(E) \cup R
    BY <1>6, FramesMore
  <2> QED
    BY <2>1, <2>2
<1> HIDE DEF R
<1>7. RemovedIn(events') = RemovedIn(events) \cup R
  <2>1. CASE events' = Append(events, Frame)
    BY <1>2, <1>6, <2>1
  <2>2. CASE /\ events' = Append(Tail(events), Frame) /\ ~(Len(events) < EventCap)
             /\ faults' = faults \cup Lost(Head(events))
    <3>1. events # <<>>
      BY <2>2, LinkAssumption, NoFrames
    <3>2. Head(events).kind = "ownership"
      BY <2>2 DEF Lost, Clean
    <3>3. {b \in Agent : Head(events) = [kind |-> "removed", name |-> b]} = {}
      <4>1. \A b : Head(events) # [kind |-> "removed", name |-> b]
        BY <3>2, PlainFormed
      <4> QED
        BY <4>1
    <3>4. /\ IsSeq(Tail(events))
          /\ RemovedIn(events) = RemovedIn(Tail(events))
                                   \cup {b \in Agent : Head(events) = [kind |-> "removed", name |-> b]}
      BY <1>2, <3>1, FramesLess
    <3> QED
      BY <1>6, <2>2, <3>3, <3>4
  <2> QED
    BY <1>1, <2>1, <2>2
<1>8. Arrived(n)' = Arrived(n) /\ Mapped(n)' /\ IdsInv(n)'
  <2>1. Arrived(n)' = Arrived(n)
    BY <1>1 DEF Arrived, Base
  <2>2. Mapped(n)'
    BY <1>1, <1>3, MappedSame DEF Pushed
  <2> QED
    BY <1>1, <1>3, <2>1, <2>2, IdsSame
<1>9. \A b \in Agent : Has(AddedIn(wire), b) => b \notin RemovedIn(events')
  BY <1>5, <1>7, OnceFacts
<1> QED
  BY <1>1, <1>3, <1>4, <1>5, <1>7, <1>8, <1>9, PushedSame

\* A stream finds its announcement, or waits for it.
LEMMA OfferPushed ==
    ASSUME Ctx, NEW n, Pushed(n), OfferStream
    PROVE  Pushed(n)'
<1> USE DEF window1, sends, server, mux, link
<1> DEFINE known == {x \in expected : x.id = taken + 1}
<1>1. /\ UNCHANGED <<anns, ann, jobs, served, main, events, srv, hs, cli, map, wire, opened>>
      /\ cli = "run" /\ taken' = taken + 1
      /\ panes' = panes \cup known /\ expected' = expected \ known
      /\ waiting' = IF known = {} THEN waiting \cup {taken'} ELSE waiting
  BY DEF OfferStream
<1>2. known \subseteq expected
  OBVIOUS
<1>3. Arrived(n)' = Arrived(n) /\ Mapped(n)'
  BY <1>1, <1>2 DEF Arrived, Base, Pushed, Mapped
<1>4. taken \in Nat
  BY CtxFacts
<1>5. /\ \A x \in anns \cup expected \cup AddedIn(wire) : x.id \in Nat /\ x.name \in Agent
      /\ \A x, y \in anns \cup expected \cup AddedIn(wire) : x.id = y.id => x.name = y.name
      /\ ann # NoPane => ann.id \in Nat
  BY GoodFacts, CtxFacts
<1>6. ASSUME NEW x \in anns \cup AddedIn(wire), NEW y \in known PROVE x.id # y.id
  <2> SUFFICES ASSUME x.id = y.id PROVE FALSE
    OBVIOUS
  <2>1. x.name = y.name /\ x.name \in Agent
    BY <1>5
  <2>2. y \in Arrived(n) /\ y \in expected
    BY DEF Arrived
  <2>3. CASE x \in anns
    BY <2>1, <2>2, <2>3 DEF Pushed, OnceInv, Arrived, IdsInv
  <2>4. CASE x \in AddedIn(wire)
    BY <2>1, <2>2, <2>4 DEF Pushed, OnceInv, Has
  <2> QED
    BY <2>3, <2>4
<1>7. ann # NoPane => \A y \in known : ann.id # y.id
  BY DEF Pushed, IdsInv
<1>8. ASSUME NEW x, x.id \in Nat, Comes(n, x), \A y \in known : x.id # y.id
      PROVE  Comes(n, x)'
  <2>1. x.id > n /\ (x.id > taken \/ x.id \in waiting)
    BY <1>1, <1>8 DEF Comes
  <2>2. waiting \subseteq waiting'
    BY <1>1
  <2>3. x.id = taken + 1 => x.id \in waiting'
    <3>1. x.id = taken + 1 => known = {}
      BY <1>8
    <3> QED
      BY <1>1, <3>1
  <2>4. x.id > taken => x.id > taken + 1 \/ x.id = taken + 1
    BY <1>4, <1>8
  <2> QED
    BY <1>1, <2>1, <2>2, <2>3, <2>4 DEF Comes
<1>9. IdsInv(n)'
  <2>1. \A x \in expected' : x.id > taken'
    <3> SUFFICES ASSUME NEW x \in expected' PROVE x.id > taken'
      OBVIOUS
    <3>1. x \in expected /\ x.id # taken + 1 /\ x.id \in Nat
      BY <1>1, <1>5
    <3>2. x.id > taken
      BY <3>1 DEF Pushed, IdsInv
    <3> QED
      BY <1>1, <1>4, <3>1, <3>2
  <2>2. anns' \cap expected' = {}
    BY <1>1 DEF Pushed, IdsInv
  <2>3. \A x \in anns \cup AddedIn(wire) : Comes(n, x)'
    BY <1>5, <1>6, <1>8 DEF Pushed, IdsInv
  <2>4. ann # NoPane => Comes(n, ann)'
    <3> SUFFICES ASSUME ann # NoPane PROVE Comes(n, ann)'
      OBVIOUS
    <3>1. Comes(n, ann) /\ ann.id \in Nat /\ \A y \in known : ann.id # y.id
      BY <1>5, <1>7 DEF Pushed, IdsInv
    <3> QED
      BY <1>1, <1>8, <3>1 DEF Comes
  <2>5. ann # NoPane => \A x \in anns \cup AddedIn(wire) \cup expected : x.id # ann.id
    BY DEF Pushed, IdsInv
  <2> HIDE DEF known
  <2> QED
    BY <1>1, <2>1, <2>2, <2>3, <2>4, <2>5 DEF IdsInv
<1> QED
  BY <1>1, <1>3, <1>9, OnceFacts, PushedSame

\* The announcements in the queue are taken.
LEMMA ClaimsIds ==
    ASSUME Ctx, NEW n, Pushed(n), cli = "run", Claims, UNCHANGED <<cli, taken, ann, wire>>,
           expected' \subseteq expected \cup (anns \ Bound)
    PROVE  IdsInv(n)'
<1>1. anns' = {} /\ waiting' = waiting \ {x.id : x \in Bound}
  BY DEF Claims
<1>2. /\ \A x \in anns \cup AddedIn(wire) : Comes(n, x)
      /\ \A x \in expected : x.id > taken
      /\ ann # NoPane =>
            Comes(n, ann) /\ \A x \in anns \cup AddedIn(wire) \cup expected : x.id # ann.id
  BY DEF Pushed, IdsInv
<1>3. \A x \in expected' : x.id > taken'
  BY <1>2 DEF Bound, Comes
<1>4. ASSUME NEW x, Comes(n, x), \A y \in Bound : x.id # y.id PROVE Comes(n, x)'
  BY <1>1, <1>4 DEF Comes
<1>5. ASSUME NEW x \in AddedIn(wire), NEW y \in Bound PROVE x.id # y.id
  <2>1. y \in anns /\ y \in Arrived(n)
    BY DEF Bound, Arrived
  <2>2. x.id = y.id => x.name = y.name /\ x.name \in Agent
    BY <2>1, GoodFacts
  <2> QED
    BY <2>1, <2>2 DEF Pushed, OnceInv, Has
<1>6. \A x \in AddedIn(wire) : Comes(n, x)'
  BY <1>2, <1>4, <1>5
<1>7. ann # NoPane => Comes(n, ann)'
  <2>1. ann # NoPane => \A y \in Bound : ann.id # y.id
    BY <1>2 DEF Bound
  <2> QED
    BY <1>2, <1>4, <2>1
<1> QED
  BY <1>1, <1>2, <1>3, <1>6, <1>7 DEF IdsInv

LEMMA TakePushed ==
    ASSUME Ctx, NEW n, Pushed(n), TakeAnnouncements \/ TakeOwnership
    PROVE  Pushed(n)'
<1> USE DEF window1, sends, server, link
<1>1. /\ UNCHANGED <<ann, jobs, served, main, srv, hs, cli, map, taken, wire, opened>>
      /\ cli = "run" /\ Claims /\ anns' = {}
      /\ panes' = panes \cup Bound /\ expected' = expected \cup (anns \ Bound)
      /\ \/ UNCHANGED events
         \/ events # <<>> /\ events' = Tail(events) /\ Head(events).kind = "ownership"
  BY DEF TakeAnnouncements, TakeOwnership, TakesEvent, Claims
<1>2. RemovedIn(events') = RemovedIn(events)
  <2>1. CASE events # <<>> /\ events' = Tail(events) /\ Head(events).kind = "ownership"
    <3>1. {b \in Agent : Head(events) = [kind |-> "removed", name |-> b]} = {}
      <4>1. \A b : Head(events) # [kind |-> "removed", name |-> b]
        BY <2>1, PlainFormed
      <4> QED
        BY <4>1
    <3>2. RemovedIn(events) = RemovedIn(Tail(events))
                                \cup {b \in Agent : Head(events) = [kind |-> "removed", name |-> b]}
      BY <2>1, CtxFacts, FramesLess
    <3> QED
      BY <2>1, <3>1, <3>2
  <2> QED
    BY <1>1, <2>1
<1>3. Arrived(n)' = Arrived(n) /\ Mapped(n)'
  <2>1. Bound \subseteq anns
    BY DEF Bound
  <2> QED
    BY <1>1, <2>1 DEF Arrived, Base, Pushed, Mapped
<1>4. IdsInv(n)'
  BY <1>1, ClaimsIds
<1> QED
  BY <1>1, <1>2, <1>3, <1>4, OnceFacts, PushedSame

LEMMA TakeRemovedPushed ==
    ASSUME Ctx, NEW n, Pushed(n), TakeRemoved
    PROVE  Pushed(n)'
<1> USE DEF window1, sends, server, link
<1> DEFINE a == Head(events).name
           now == panes \cup Bound
<1>1. /\ UNCHANGED <<ann, jobs, served, main, srv, hs, cli, map, taken, wire, opened>>
      /\ cli = "run" /\ Claims /\ anns' = {}
      /\ events # <<>> /\ events' = Tail(events) /\ Head(events).kind = "removed"
      /\ panes' = {p \in now : p \notin {r \in now : r.name = a}
                                 \/ \E q \in {r \in now : r.name = a} : q.id < p.id}
      /\ expected' = {x \in expected \cup (anns \ Bound) : x.name # a}
  BY DEF TakeRemoved, TakesEvent, Claims
<1>2. RemovedIn(events) = RemovedIn(events') \cup {b \in Agent : b = a}
  <2>1. Head(events) = [kind |-> "removed", name |-> a]
    BY <1>1, FormedEvents DEF Ctx
  <2>2. \A b : Head(events) = [kind |-> "removed", name |-> b] <=> b = a
    BY <2>1, PlainFormed
  <2>3. RemovedIn(events) = RemovedIn(Tail(events))
                              \cup {b \in Agent : Head(events) = [kind |-> "removed", name |-> b]}
    BY <1>1, CtxFacts, FramesLess
  <2>4. {b \in Agent : Head(events) = [kind |-> "removed", name |-> b]} = {b \in Agent : b = a}
    BY <2>2
  <2> QED
    BY <1>1, <2>3, <2>4
<1> HIDE DEF a
<1>3. Bound \subseteq anns /\ now \subseteq Arrived(n)
  BY <1>1 DEF Bound, Arrived, Base
<1>4. panes' = {p \in now : p.name # a}
  <2>1. ASSUME NEW p \in now, NEW q \in now, p.name = q.name PROVE ~(q.id < p.id)
    <3>1. p = q
      BY <1>3, <2>1 DEF Pushed, OnceInv
    <3>2. p.id \in Nat
      BY <1>3, GoodFacts, CtxFacts
    <3> QED
      BY <3>1, <3>2
  <2> HIDE DEF now
  <2> QED
    BY <1>1, <2>1
<1>5. Arrived(n)' = {p \in Arrived(n) : p.name # a}
  BY <1>1, <1>3, <1>4 DEF Arrived, Base
<1>6. Mapped(n)' /\ IdsInv(n)'
  <2>1. Mapped(n)'
    BY <1>1 DEF Pushed, Mapped
  <2>2. expected' \subseteq expected \cup (anns \ Bound)
    BY <1>1
  <2> QED
    BY <1>1, <2>1, <2>2, ClaimsIds
<1>7. ASSUME NEW b \in Agent
      PROVE  /\ Shows(n, b)' <=> Shows(n, b)
             /\ Opening(b)' <=> Opening(b)
             /\ Has(Arrived(n)', b) => Has(Arrived(n), b)
  <2>1. CASE b = a
    <3>1. ~Shows(n, b)
      BY <1>2, <2>1 DEF Shows, Leaving
    <3>2. ~Has(AddedIn(wire'), b)
      BY <1>1, <1>2, <2>1 DEF Pushed, OnceInv
    <3>3. ~Has(Arrived(n)', b)
      BY <1>5, <2>1 DEF Has
    <3> QED
      BY <1>1, <3>1, <3>2, <3>3 DEF Shows, Opening
  <2>2. CASE b # a
    <3>1. Leaving(b)' <=> Leaving(b)
      BY <1>1, <1>2, <2>2 DEF Leaving
    <3>2. Has(Arrived(n)', b) <=> Has(Arrived(n), b)
      BY <1>5, <2>2 DEF Has
    <3> QED
      BY <1>1, <3>1, <3>2 DEF Shows, Opening
  <2> QED
    BY <2>1, <2>2
<1>8. OnceInv(n)'
  <2>1. \A x, y \in Arrived(n)' : x.name = y.name => x = y
    BY <1>5 DEF Pushed, OnceInv
  <2>2. ASSUME NEW b \in Agent
        PROVE  /\ Opening(b)' => ~Shows(n, b)'
               /\ Once(wire', b)
               /\ Has(AddedIn(wire'), b) => ~Has(Arrived(n)', b) /\ b \notin RemovedIn(events')
    BY <1>1, <1>2, <1>7 DEF Pushed, OnceInv
  <2> QED
    BY <2>1, <2>2 DEF OnceInv
<1>9. TurnsInv(n)'
  BY <1>1, <1>7, TurnsSame DEF Pushed, Will
<1> QED
  BY <1>6, <1>8, <1>9 DEF Pushed

LEMMA ViewerPushed ==
    ASSUME Ctx, Up, Up', Handshake, NEW n, Pushed(n), Viewer, Clean'
    PROVE  Pushed(n)'
<1>1. ~Dial /\ ~SessionEnds /\ ~ReadOther
  BY DEF Dial, SessionEnds, ReadOther, GivesUp, Up
<1>2. \A id : ~Expire(id)
  BY DEF Expire, Clean
<1> QED
  BY <1>1, <1>2, ReadPushed, LeavePushed, StartPushed, AcceptPushed, MuxAddedPushed, MuxOtherPushed, OfferPushed, TakePushed,
     TakeRemovedPushed DEF Viewer

-----------------------------------------------------------------------------
(* One pane for each agent. *)

LEMMA PushInit == Init => PushInv
BY StagesInit DEF Init, PushInv, Up

\* Only window 1's handler, and a new connection, move the handshake.
LEMMA OthersServe == Up /\ (Main \/ Announcer \/ Viewer) => srv' = srv
<1> SUFFICES ASSUME Up, Main \/ Announcer \/ Viewer PROVE srv' = srv
  OBVIOUS
<1> USE DEF server, window1
<1>1. CASE Main
  BY <1>1 DEF Main, MoveGroup, AddAgent, RemoveAgent, Operation, Relayout, OnAttached, Announce, Publish,
         Decide, Broadcast
<1>2. CASE Announcer
  BY <1>2 DEF Announcer, SendAdded, SkipAdded, OpenPushed, SendRemoved
<1>3. CASE Viewer
  BY <1>3 DEF Viewer, Dial, SessionEnds, GivesUp, ReadHelloOK, ReadOther, ReadStreamMap,
                LeaveBuffered, StartMux, AcceptMapped,
              MuxReads, OfferStream, TakeAnnouncements, TakeOwnership, TakeRemoved, Expire, Up
<1> QED
  BY <1>1, <1>2, <1>3

LEMMA PushStep ==
    ASSUME LinkInv, AgreeInv, PushInv, Next
    PROVE  PushInv'
<1>1. Ctx
  BY DEF Ctx, PushInv
<1>2. Stages'
  BY MainStages, AnnouncerStages, ServeStages, ViewerStages DEF Next, PushInv
<1>3. Listing'
  BY MainListing, OthersListing DEF Next, PushInv
<1>4. ASSUME Up', Clean'
      PROVE  Handshake' /\ (srv' \notin Unlisted => (\E n : Pushed(n))')
  <2>1. Clean /\ (Up \/ Dial)
    BY <1>4, StillClean
  <2>2. CASE ~Up
    <3>1. Handshake' /\ srv' = "ctrl"
      BY <1>1, <2>1, <2>2, DialHandshake
    <3> QED
      BY <3>1 DEF Unlisted
  <2>3. CASE Up
    <3>1. Handshake /\ (srv \notin Unlisted => \E n : Pushed(n))
      BY <2>1, <2>3 DEF PushInv
    <3>2. Handshake'
      BY <1>1, <1>4, <2>3, <3>1, MainHandshake, AnnouncerHandshake, ServeHandshake, ViewerHandshake DEF Next
    <3>3. CASE srv \notin Unlisted
      <4> PICK n : Pushed(n)
        BY <3>1, <3>3
      <4>1. Pushed(n)'
        BY <1>1, <1>4, <2>3, <3>1, <3>3, MainPushed, AnnouncerPushed, ServePushed, ViewerPushed DEF Next
      <4> QED
        BY <3>2, <4>1
    <3>4. CASE srv \in Unlisted /\ srv' \notin Unlisted
      <4>1. ListPanes
        <5>1. CASE Main \/ Announcer \/ Viewer
          <6>1. srv' = srv
            BY <5>1, <2>3, OthersServe
          <6> QED
            BY <3>4, <6>1
        <5>2. CASE Serve
          BY <5>2, <2>3, <3>4 DEF Serve, Register, ListPanes, DecideForPeer, SendHelloOK, OpenStreams,
             SendStreamMap, Attach, Leave, OldLeaves, Handler, Unlisted
        <5> QED
          BY <5>1, <5>2 DEF Next
      <4>2. \E n : Pushed(n)'
        BY <1>1, <1>4, <2>3, <3>1, <4>1, ListPushed
      <4> QED
        BY <3>2, <4>2
    <3> QED
      BY <3>2, <3>3, <3>4
  <2> QED
    BY <2>2, <2>3
<1> QED
  BY <1>2, <1>3, <1>4 DEF PushInv

LEMMA PushStutter ==
    ASSUME LinkInv, AgreeInv, PushInv, UNCHANGED vars
    PROVE  PushInv'
<1> USE DEF vars, window1, server, link, viewer, mux, binder, sends
<1>1. Stages'
  BY StagesHeld DEF PushInv, Stages
<1>2. Listing'
  BY DEF PushInv, Listing
<1>3. ASSUME Up', Clean'
      PROVE  Handshake' /\ (srv' \notin Unlisted => (\E n : Pushed(n))')
  <2>1. Handshake /\ (srv \notin Unlisted => \E n : Pushed(n))
    BY <1>3 DEF PushInv, Up, Clean
  <2>2. Handshake'
    BY <2>1, HandshakeHeld
  <2>3. ASSUME NEW n, Pushed(n) PROVE Pushed(n)'
    <3>1. Mapped(n)' /\ Base(n)' = Base(n)
      BY <2>3, MappedSame, BaseSame DEF Pushed
    <3>2. Ctx
      BY DEF Ctx, PushInv
    <3> QED
      BY <2>3, <3>1, <3>2, PushedHeld
  <2> QED
    BY <2>1, <2>2, <2>3
<1> QED
  BY <1>1, <1>2, <1>3 DEF PushInv

LEMMA PushNext == LinkInv /\ AgreeInv /\ PushInv /\ [Next]_vars => PushInv'
BY PushStep, PushStutter

\* When nothing is under way, what the viewer has is what it will have in the end.
LEMMA PushAgrees == LinkInv /\ AgreeInv /\ PushInv => PanesAgree
<1> SUFFICES ASSUME LinkInv, AgreeInv, PushInv, Quiet, faults \subseteq {"lost"}
             PROVE  Names = Elems(served) /\ \A p, q \in panes : p.name = q.name => p = q
  BY DEF PanesAgree
<1>1. /\ cli = "run" /\ srv = "live" /\ main = "idle" /\ ann = NoPane /\ anns = {}
      /\ wire = <<>> /\ events = <<>> /\ taken = Len(opened)
      /\ \A a \in Agent : jobs[a] = <<>>
  BY DEF Quiet
<1>2. Ctx /\ \E n : Pushed(n)
  BY <1>1 DEF Ctx, PushInv, Up, Clean, Unlisted
<1> PICK n : Pushed(n)
  BY <1>2
<1>3. expected = {}
  <2>1. ASSUME NEW x \in expected PROVE FALSE
    <3>1. x.id > Len(opened)
      BY <1>1 DEF Pushed, IdsInv
    <3>2. x.id \in 1 .. Len(opened) /\ Len(opened) \in Nat
      BY <1>2, GoodFacts, CtxFacts
    <3> QED
      BY <3>1, <3>2
  <2> QED
    BY <2>1
<1>4. Arrived(n) = panes
  BY <1>1, <1>3 DEF Arrived, Base
<1>5. ASSUME NEW a \in Agent PROVE Has(panes, a) <=> a \in Elems(served)
  <2>1. ~Leaving(a) /\ ~Has(AddedIn(wire), a) /\ ~Opening(a)
    BY <1>1, FramesNone DEF Leaving, Has, Opening
  <2>2. InTheEnd(n, a) <=> Has(panes, a)
    BY <1>1, <1>4, <2>1 DEF InTheEnd, Will, Shows
  <2>3. ~AboutTo(a)
    BY <1>1 DEF AboutTo
  <2> QED
    BY <2>2, <2>3 DEF Pushed, TurnsInv
<1>6. Elems(served) \subseteq Agent
  BY <1>2, CtxFacts DEF Elems
<1>7. Names \subseteq Agent
  BY <1>2, GoodFacts DEF Names
<1>8. \A a : Has(panes, a) <=> a \in Names
  BY DEF Has, Names
<1> QED
  BY <1>4, <1>5, <1>6, <1>7, <1>8 DEF Pushed, OnceInv

\* Once nothing is under way, a second window has one pane for each agent of window 1
\* and no other, whatever was added, removed and pushed meanwhile
\* (internal/tui/daemon.go, control_mux.go, stream_binder.go); but for what went wrong
\* on the connection.
THEOREM OnePaneEach == Spec => []PanesAgree
<1>1. LinkInv /\ AgreeInv /\ PushInv /\ [Next]_vars => (LinkInv /\ AgreeInv /\ PushInv)'
  BY LinkNext, AgreeNext, PushNext
<1> QED
  BY LinkInit, AgreeInit, PushInit, PushAgrees, <1>1, PTL DEF Spec

-----------------------------------------------------------------------------
(* The types. *)

Map0 == OwnerMap \cup {<<>>}

OwnersIn(w) == \A i \in DOMAIN w : w[i].kind \in {"hello_ok", "ownership"} => w[i].owner \in Map0

OwnerInv ==
    /\ assigned \in [Agent -> Window]
    /\ snap.agents \subseteq Agent /\ snap.assigned \in [Agent -> Window]
    /\ mine \in OwnerMap /\ hs.owner \in Map0 /\ pre \in Map0 /\ owner \in Map0
    /\ OwnersIn(wire) /\ OwnersIn(events)
    /\ attached \in BOOLEAN /\ peer \in {"nobody", "current", "old"} /\ Len(events) <= EventCap

LEMMA OwnerMaps ==
    ASSUME NEW in, in.agents \subseteq Agent, in.assigned \in [Agent -> Window], NEW c
    PROVE  OwnershipFor(in, c) \in OwnerMap
<1>1. \A a \in in.agents : OwnerIn(in, a, c) \in Window
  BY DEF OwnerIn, Window
<1>2. OwnershipFor(in, c) \in [in.agents -> Window]
  BY <1>1 DEF OwnershipFor
<1> QED
  BY <1>2 DEF OwnerMap

LEMMA InputsTyped ==
    ASSUME served \in Seq(Agent), assigned \in [Agent -> Window]
    PROVE  Inputs.agents \subseteq Agent /\ Inputs.assigned \in [Agent -> Window]
BY DEF Inputs, Elems

LEMMA OwnersMore ==
    ASSUME NEW w, IsSeq(w), OwnersIn(w), NEW f,
           f.kind \in {"hello_ok", "ownership"} => f.owner \in Map0
    PROVE  OwnersIn(w \o <<f>>)
<1> DEFINE v == w \o <<f>>
           m == Len(w)
<1>1. /\ m \in Nat /\ DOMAIN w = 1..m /\ DOMAIN v = 1..(m + 1)
      /\ \A i \in 1..m : v[i] = w[i]
      /\ v[m + 1] = f
  BY FrameAdded
<1> HIDE DEF v, m
<1>2. \A i \in 1..(m + 1) : i \in 1..m \/ i = m + 1
  BY <1>1
<1>3. OwnersIn(v)
  BY <1>1, <1>2 DEF OwnersIn
<1> QED
  BY <1>3 DEF v

LEMMA OwnersLess ==
    ASSUME NEW w, IsSeq(w), w # <<>>, OwnersIn(w)
    PROVE  /\ OwnersIn(Tail(w)) /\ IsSeq(Tail(w)) /\ Len(Tail(w)) < Len(w)
           /\ Head(w).kind \in {"hello_ok", "ownership"} => Head(w).owner \in Map0
<1> DEFINE t == Tail(w)
           m == Len(w)
<1>1. PICK S : w \in Seq(S)
  BY DEF IsSeq
<1>2. /\ t \in Seq(S) /\ m \in Nat \ {0} /\ DOMAIN w = 1..m /\ Head(w) = w[1]
      /\ Len(t) = m - 1 /\ DOMAIN t = 1..(m - 1) /\ \A i \in 1..(m - 1) : t[i] = w[i + 1]
  BY <1>1
<1>3. IsSeq(t)
  BY <1>2 DEF IsSeq
<1> HIDE DEF t, m
<1>4. \A i \in 1..(m - 1) : i + 1 \in 1..m
  BY <1>2
<1>5. OwnersIn(t)
  BY <1>2, <1>4 DEF OwnersIn
<1>6. 1 \in 1..m
  BY <1>2
<1>7. Len(t) < m
  BY <1>2
<1> QED
  BY <1>2, <1>3, <1>5, <1>6, <1>7 DEF OwnersIn, t, m

LEMMA OwnerInit == Init => OwnerInv
<1> SUFFICES ASSUME Init PROVE OwnerInv
  OBVIOUS
<1>1. assigned \in [Agent -> Window] /\ served \in Seq(Agent) /\ snap = Inputs
  BY LinkAssumption DEF Init, Window
<1>2. mine \in OwnerMap /\ snap.agents \subseteq Agent /\ snap.assigned \in [Agent -> Window]
  BY <1>1, InputsTyped, OwnerMaps DEF Init
<1>3. OwnersIn(<<>>) /\ Len(<<>>) <= EventCap
  BY NoFrames, LinkAssumption DEF OwnersIn
<1> QED
  BY <1>1, <1>2, <1>3 DEF Init, OwnerInv, Map0, NoHandshake

LEMMA MainOwners == LinkInv /\ OwnerInv /\ Main => OwnerInv'
<1> SUFFICES ASSUME LinkInv, OwnerInv, Main PROVE OwnerInv'
  OBVIOUS
<1> USE DEF server, link, viewer, mux, binder, sends, decide
<1>1. UNCHANGED <<hs, pre, owner, events, peer>>
  BY DEF Main, MoveGroup, AddAgent, RemoveAgent, Operation, Relayout, OnAttached, Announce, Publish,
         Decide, Broadcast
<1>2. attached' \in BOOLEAN
  BY DEF OwnerInv, Main, MoveGroup, AddAgent, RemoveAgent, Operation, Relayout, OnAttached, Announce,
         Publish, Decide, Broadcast
<1>3. served \in Seq(Agent) /\ assigned \in [Agent -> Window]
  BY DEF LinkInv, Lists, OwnerInv
<1>4. OwnersIn(wire')
  <2>1. UNCHANGED wire \/ Write(<<Ownership(mine)>>)
    BY DEF Main, MoveGroup, AddAgent, RemoveAgent, Operation, Relayout, OnAttached, Announce, Publish,
           Decide, Broadcast
  <2>2. Ownership(mine).owner \in Map0
    BY DEF OwnerInv, Map0, Ownership
  <2> QED
    BY <2>1, <2>2, OwnersMore DEF OwnerInv, Write, LinkInv, WireInv, WireGood
<1>5. /\ assigned' \in [Agent -> Window] /\ mine' \in OwnerMap
      /\ snap'.agents \subseteq Agent /\ snap'.assigned \in [Agent -> Window]
  <2>1. ASSUME NEW a \in Agent, MoveGroup(a)
        PROVE  /\ assigned' \in [Agent -> Window] /\ mine' \in OwnerMap
               /\ snap'.agents \subseteq Agent /\ snap'.assigned \in [Agent -> Window]
    <3>1. assigned' \in [Agent -> Window]
      BY <1>3, <2>1 DEF MoveGroup, Window
    <3>2. snap' = Inputs' /\ served' = served /\ mine' = mine
      BY <2>1 DEF MoveGroup, Operation
    <3>3. Inputs'.agents \subseteq Agent /\ Inputs'.assigned \in [Agent -> Window]
      BY <1>3, <3>1, <3>2 DEF Inputs, Elems
    <3> QED
      BY <3>1, <3>2, <3>3 DEF OwnerInv
  <2>2. CASE Publish
    BY <1>3, <2>2, InputsTyped DEF Publish, OwnerInv
  <2>3. CASE Decide
    <3>1. UNCHANGED <<assigned, snap>> /\ (mine' = mine \/ mine' = OwnershipFor(Inputs, Connected))
      BY <2>3 DEF Decide
    <3> QED
      BY <1>3, <3>1, InputsTyped, OwnerMaps DEF OwnerInv
  <2>4. CASE ~Publish /\ ~Decide /\ \A a \in Agent : ~MoveGroup(a)
    <3>1. UNCHANGED <<assigned, snap, mine>>
      BY <2>4 DEF Main, AddAgent, RemoveAgent, Operation, Relayout, OnAttached, Announce, Broadcast
    <3> QED
      BY <3>1 DEF OwnerInv
  <2> QED
    BY <2>1, <2>2, <2>3, <2>4
<1> QED
  BY <1>1, <1>2, <1>4, <1>5 DEF OwnerInv

LEMMA AnnouncerOwners == LinkInv /\ OwnerInv /\ Announcer => OwnerInv'
<1> SUFFICES ASSUME LinkInv, OwnerInv, Announcer PROVE OwnerInv'
  OBVIOUS
<1> USE DEF server, link, viewer, mux, binder, sends, decide
<1>1. UNCHANGED <<assigned, snap, mine, hs, pre, owner, events, attached, peer>>
  BY DEF Announcer, SendAdded, SkipAdded, OpenPushed, SendRemoved
<1>2. \/ UNCHANGED wire \/ Write(<<[kind |-> "added", pane |-> ann]>>)
      \/ \E a \in Agent : Write(<<[kind |-> "removed", name |-> a]>>)
  BY DEF Announcer, SendAdded, SkipAdded, OpenPushed, SendRemoved
<1>3. OwnersIn(wire')
  <2>1. OwnersIn(wire)
    BY DEF OwnerInv
  <2>2. ASSUME NEW f, f.kind \in {"added", "removed"}, Write(<<f>>) PROVE OwnersIn(wire')
    BY <2>1, <2>2, OwnersMore DEF Write, LinkInv, WireInv, WireGood
  <2>3. CASE Write(<<[kind |-> "added", pane |-> ann]>>)
    BY <2>2, <2>3, PlainFormed
  <2>4. ASSUME NEW a \in Agent, Write(<<[kind |-> "removed", name |-> a]>>) PROVE OwnersIn(wire')
    BY <2>2, <2>4, PlainFormed
  <2> QED
    BY <1>2, <2>1, <2>3, <2>4
<1> QED
  BY <1>1, <1>3 DEF OwnerInv

LEMMA ServeOwners == LinkInv /\ OwnerInv /\ Serve => OwnerInv'
<1> SUFFICES ASSUME LinkInv, OwnerInv, Serve PROVE OwnerInv'
  OBVIOUS
<1> USE DEF server, link, viewer, mux, binder, sends, decide, window1
<1>1. UNCHANGED <<assigned, snap, mine, pre, owner, events>>
  BY DEF Serve, Register, ListPanes, DecideForPeer, SendHelloOK, OpenStreams, SendStreamMap,
         Attach, Leave, OldLeaves, Handler
<1>2. attached' \in BOOLEAN /\ peer' \in {"nobody", "current", "old"}
  BY DEF OwnerInv, Serve, Register, ListPanes, DecideForPeer, SendHelloOK, OpenStreams, SendStreamMap,
         Attach, Leave, OldLeaves, Handler
<1>3. hs'.owner \in Map0
  <2>1. hs = [panes |-> hs.panes, owner |-> hs.owner, ids |-> hs.ids]
    BY DEF LinkInv, Lists
  <2>2. CASE DecideForPeer
    <3>1. hs'.owner = OwnershipFor(snap, TRUE)
      BY <2>1, <2>2 DEF DecideForPeer
    <3>2. snap.agents \subseteq Agent /\ snap.assigned \in [Agent -> Window]
      BY DEF OwnerInv
    <3>3. OwnershipFor(snap, TRUE) \in OwnerMap
      BY ONLY <3>2, OwnerMaps
    <3> QED
      BY <3>1, <3>3 DEF Map0
  <2>3. CASE ListPanes
    BY <2>1, <2>3 DEF ListPanes, OwnerInv
  <2>4. CASE SendHelloOK \/ OpenStreams \/ SendStreamMap
    BY <2>1, <2>4 DEF SendHelloOK, OpenStreams, SendStreamMap, NoHandshake, Map0
  <2>5. CASE Register \/ Attach \/ Leave \/ OldLeaves
    BY <2>5 DEF Register, Attach, Leave, OldLeaves, OwnerInv
  <2> QED
    BY <2>2, <2>3, <2>4, <2>5 DEF Serve
<1>4. OwnersIn(wire')
  <2>1. \/ UNCHANGED wire \/ Write(<<[kind |-> "hello_ok", owner |-> hs.owner]>>)
        \/ Write(<<[kind |-> "map", ids |-> hs.ids]>>)
    BY DEF Serve, Register, ListPanes, DecideForPeer, SendHelloOK, OpenStreams, SendStreamMap,
           Attach, Leave, OldLeaves, Handler
  <2>2. OwnersIn(wire) /\ [kind |-> "hello_ok", owner |-> hs.owner].owner \in Map0
    BY DEF OwnerInv
  <2>3. ASSUME NEW f, f.kind \in {"hello_ok", "ownership"} => f.owner \in Map0, Write(<<f>>)
        PROVE  OwnersIn(wire')
    BY <2>2, <2>3, OwnersMore DEF Write, LinkInv, WireInv, WireGood
  <2>4. CASE Write(<<[kind |-> "hello_ok", owner |-> hs.owner]>>)
    BY <2>2, <2>3, <2>4
  <2>5. CASE Write(<<[kind |-> "map", ids |-> hs.ids]>>)
    BY <2>3, <2>5, PlainFormed
  <2> QED
    BY <2>1, <2>2, <2>4, <2>5
<1> QED
  BY <1>1, <1>2, <1>3, <1>4 DEF OwnerInv

LEMMA ViewerOwners == LinkInv /\ AgreeInv /\ OwnerInv /\ Viewer => OwnerInv'
<1> SUFFICES ASSUME LinkInv, AgreeInv, OwnerInv, Viewer PROVE OwnerInv'
  OBVIOUS
<1> USE DEF server, link, mux, binder, sends, decide, window1
<1>1. UNCHANGED <<assigned, snap, mine, attached>>
  BY DEF Viewer, Dial, SessionEnds, GivesUp, ReadHelloOK, ReadOther, ReadStreamMap,
                LeaveBuffered, StartMux, AcceptMapped,
         MuxReads, OfferStream, TakeAnnouncements, TakeOwnership, TakeRemoved, Expire
<1>2. peer' \in {"nobody", "current", "old"} /\ hs'.owner \in Map0
  BY DEF OwnerInv, Viewer, Dial, SessionEnds, GivesUp, ReadHelloOK, ReadOther, ReadStreamMap,
                LeaveBuffered, StartMux, AcceptMapped,
         MuxReads, OfferStream, TakeAnnouncements, TakeOwnership, TakeRemoved, Expire, NoHandshake, Map0
<1>3. IsSeq(wire) /\ IsSeq(events) /\ OwnersIn(wire) /\ OwnersIn(events) /\ Len(events) <= EventCap
  BY DEF LinkInv, WireInv, WireGood, AgreeInv, HelloInv, HasLast, OwnerInv
<1>4. /\ wire # <<>> => /\ OwnersIn(Tail(wire))
                        /\ Frame.kind \in {"hello_ok", "ownership"} => Frame.owner \in Map0
      /\ events # <<>> =>
            /\ OwnersIn(Tail(events)) /\ IsSeq(Tail(events)) /\ Len(Tail(events)) < Len(events)
            /\ Head(events).kind \in {"hello_ok", "ownership"} => Head(events).owner \in Map0
  BY <1>3, OwnersLess DEF Frame
<1>5. OwnersIn(<<>>) /\ Len(<<>>) <= EventCap /\ <<>> \in Map0
  BY NoFrames, LinkAssumption DEF OwnersIn, Map0
<1>6. OwnersIn(wire')
  <2>1. wire' = wire \/ wire' = <<>> \/ (wire # <<>> /\ wire' = Tail(wire))
    BY DEF Viewer, Dial, SessionEnds, GivesUp, Reads, ReadHelloOK, ReadOther, ReadStreamMap,
                LeaveBuffered, StartMux, AcceptMapped,
           MuxReads, OfferStream, TakeAnnouncements, TakeOwnership, TakeRemoved, Expire
  <2> QED
    BY <1>3, <1>4, <1>5, <2>1
<1>7. OwnersIn(events') /\ Len(events') <= EventCap
  <2>1. CASE MuxReads
    <3>1. /\ wire # <<>>
          /\ \/ events' = events
             \/ events' = Append(events, Frame) /\ Len(events) < EventCap
             \/ events' = Append(Tail(events), Frame) /\ ~(Len(events) < EventCap)
      BY <2>1 DEF MuxReads, Reads
    <3>2. ASSUME NEW s, IsSeq(s), OwnersIn(s), Len(s) < EventCap
          PROVE  OwnersIn(Append(s, Frame)) /\ Len(Append(s, Frame)) <= EventCap
      <4>1. s \o <<Frame>> = Append(s, Frame) /\ Len(s) \in Nat /\ Len(s \o <<Frame>>) = Len(s) + 1
        BY <3>2, FrameAdded
      <4>2. OwnersIn(s \o <<Frame>>)
        BY <1>4, <3>1, <3>2, OwnersMore
      <4>3. Len(s) + 1 <= EventCap
        BY <3>2, <4>1, LinkAssumption
      <4> QED
        BY <4>1, <4>2, <4>3
    <3>3. ~(Len(events) < EventCap) => events # <<>> /\ Len(Tail(events)) < EventCap
      <4>1. ~(Len(events) < EventCap) => events # <<>>
        BY LinkAssumption, NoFrames
      <4>2. Len(events) \in Nat /\ (events # <<>> => Len(Tail(events)) \in Nat)
        BY <1>3, <1>4, FrameAdded
      <4> QED
        BY <1>3, <1>4, <4>1, <4>2, LinkAssumption
    <3> QED
      BY <1>3, <1>4, <3>1, <3>2, <3>3
  <2>2. CASE ~MuxReads
    <3>1. events' = events \/ events' = <<>> \/ (events # <<>> /\ events' = Tail(events))
      BY <2>2 DEF Viewer, Dial, SessionEnds, GivesUp, ReadHelloOK, ReadOther, ReadStreamMap,
                LeaveBuffered, StartMux, AcceptMapped,
           OfferStream, TakeAnnouncements, TakeOwnership, TakeRemoved, TakesEvent, Expire
    <3>2. events # <<>> => Len(Tail(events)) <= EventCap
      <4>1. Len(events) \in Nat /\ (events # <<>> => Len(Tail(events)) \in Nat)
        BY <1>3, <1>4, FrameAdded
      <4> QED
        BY <1>3, <1>4, <4>1, LinkAssumption
    <3> QED
      BY <1>3, <1>4, <1>5, <3>1, <3>2
  <2> QED
    BY <2>1, <2>2
<1>8. pre' \in Map0 /\ owner' \in Map0
  <2>1. pre \in Map0 /\ owner \in Map0
    BY DEF OwnerInv
  <2>2. CASE ReadHelloOK \/ ReadStreamMap
    BY <1>4, <2>1, <2>2 DEF ReadHelloOK, ReadStreamMap, Reads
  <2>3. CASE TakeOwnership
    BY <1>4, <2>1, <2>3 DEF TakeOwnership, TakesEvent
  <2>4. CASE ~(ReadHelloOK \/ ReadStreamMap \/ TakeOwnership)
    BY <1>5, <2>1, <2>4 DEF Viewer, Dial, SessionEnds, GivesUp, ReadOther, LeaveBuffered, StartMux, AcceptMapped,
           MuxReads, OfferStream, TakeAnnouncements, TakeRemoved, Expire
  <2> QED
    BY <2>2, <2>3, <2>4
<1> QED
  BY <1>1, <1>2, <1>6, <1>7, <1>8 DEF OwnerInv

LEMMA OwnerNext == LinkInv /\ AgreeInv /\ OwnerInv /\ [Next]_vars => OwnerInv'
<1> SUFFICES ASSUME LinkInv, AgreeInv, OwnerInv, [Next]_vars PROVE OwnerInv'
  OBVIOUS
<1>1. CASE UNCHANGED vars
  BY <1>1 DEF vars, window1, server, link, viewer, mux, binder, sends, decide, OwnerInv
<1>2. CASE Next
  BY <1>2, MainOwners, AnnouncerOwners, ServeOwners, ViewerOwners DEF Next
<1> QED
  BY <1>1, <1>2

\* The lists, the owner maps and the stages of window 1 and of its viewer stay what
\* they are, the viewer's buffer within its bound, and no stream waits that was not
\* accepted (internal/tui/partition_authority.go, control_mux.go, stream_binder.go).
THEOREM LinkTypes == Spec => []TypeOK
<1>1. /\ Init => LinkInv /\ AgreeInv /\ PushInv /\ OwnerInv
      /\ LinkInv /\ AgreeInv /\ PushInv /\ OwnerInv /\ [Next]_vars
            => (LinkInv /\ AgreeInv /\ PushInv /\ OwnerInv)'
  BY LinkInit, AgreeInit, PushInit, OwnerInit, LinkNext, AgreeNext, PushNext, OwnerNext
<1>2. LinkInv /\ AgreeInv /\ PushInv /\ OwnerInv => TypeOK
  <2> SUFFICES ASSUME LinkInv, AgreeInv, PushInv, OwnerInv PROVE TypeOK
    OBVIOUS
  <2>1. Ctx
    BY DEF Ctx, PushInv
  <2>2. Names \subseteq Agent
    BY <2>1, GoodFacts DEF Names
  <2>3. /\ srv \in {"none", "ctrl", "registered", "listed", "decided", "greeted", "opened", "mapped", "live"}
        /\ served \in Seq(Agent) /\ NoDup(served) /\ opened \in Seq(Agent)
        /\ taken \in 0 .. Len(opened) /\ waiting \subseteq 1 .. taken
    BY DEF LinkInv, Lists, PushInv, Listing, Stages, Early, Late
  <2>4. /\ main \in {"idle", "announce", "publish", "decide", "broadcast"} /\ servedTo \in BOOLEAN
        /\ cli \in {"off", "hello", "map", "mux", "accept", "run"}
    BY DEF AgreeInv, MainInv, HelloInv
  <2> QED
    BY <2>2, <2>3, <2>4 DEF TypeOK, OwnerInv, Map0
<1> QED
  BY <1>1, <1>2, PTL DEF Spec
=============================================================================
