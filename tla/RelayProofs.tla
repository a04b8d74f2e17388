---------------------------- MODULE RelayProofs ----------------------------
(***************************************************************************)
(* The relay's table and its list, for any number of nodes, links and      *)
(* dials and every fault.                                                  *)
(***************************************************************************)
EXTENDS Relay, TLAPS

-----------------------------------------------------------------------------
(***************************************************************************)
(* Types, variable by variable.                                            *)
(***************************************************************************)
Types ==
  /\ control \in [Node -> Link \cup {None}]
  /\ pending \subseteq Dial
  /\ link \in [Link -> LinkRecord]
  /\ agent \in [Node -> AgentRecord]
  /\ dial \in [Dial -> DialRecord]

LinksNamed == \A l \in Link : link[l].server # "none" => link[l].node \in Node

AgentsNamed == \A n \in Node : agent[n].doing # "off" => agent[n].link \in Link

DialsNamed ==
  \A d \in Dial : /\ dial[d].handler # "none" => dial[d].node \in Node
                  /\ dial[d].handler = "signal" => dial[d].link \in Link

Named == LinksNamed /\ AgentsNamed /\ DialsNamed

LEMMA TypeParts == TypeOK <=> Types /\ Named
BY DEF TypeOK, Types, Named, LinksNamed, AgentsNamed, DialsNamed

LEMMA InitType == Init => TypeOK
BY DEF Init, TypeOK, LinkRecord, AgentRecord, DialRecord

-----------------------------------------------------------------------------
(***************************************************************************)
(* Which steps change a variable.                                          *)
(***************************************************************************)
LEMMA LinkSteps ==
  ASSUME Next
  PROVE  \/ \E n \in Node, l \in Link : Connect(n, l)
         \/ \E n \in Node, d \in Dial : AnswerSignal(n, d)
         \/ \E n \in Node : Die(n)
         \/ \E l \in Link : ControlThread(l)
         \/ \E d \in Dial : Signal(d)
         \/ UNCHANGED <<control, link>>
<1>1. ASSUME NEW n \in Node, LinkClosed(n) \/ IdleTimeout(n)
      PROVE  UNCHANGED <<control, link>>
  BY <1>1 DEF LinkClosed, IdleTimeout
<1>2. ASSUME NEW d \in Dial, NEW n \in Node, Ask(d, n) PROVE UNCHANGED <<control, link>>
  BY <1>2 DEF Ask
<1>3. ASSUME NEW d \in Dial,
             \/ LookUp(d) \/ SignalBreaks(d) \/ Accept(d) \/ AcceptBreaks(d)
             \/ HandOff(d) \/ WaitTimeout(d) \/ Abandon(d)
             \/ DataThread(d) \/ HangUp(d) \/ PipeEnds(d)
      PROVE  UNCHANGED <<control, link>>
  BY <1>3 DEF LookUp, SignalBreaks, Refuse, Accept, AcceptBreaks, HandOff, WaitTimeout,
              Abandon, DataThread, Claim, StartPipe, HangUp, PipeEnds
<1> QED
  BY <1>1, <1>2, <1>3 DEF Next, Client, DialThread

LEMMA AgentSteps ==
  ASSUME Next
  PROVE  \/ \E n \in Node, l \in Link : Connect(n, l)
         \/ \E n \in Node : LinkClosed(n) \/ IdleTimeout(n) \/ Die(n)
         \/ UNCHANGED agent
<1>1. ASSUME NEW n \in Node, NEW d \in Dial, AnswerSignal(n, d) \/ Ask(d, n)
      PROVE  UNCHANGED agent
  BY <1>1 DEF AnswerSignal, Ask
<1>2. ASSUME NEW l \in Link, ControlThread(l) PROVE UNCHANGED agent
  BY <1>2 DEF ControlThread, Register, AuthBreaks, ControlEnds
<1>3. ASSUME NEW d \in Dial, DialThread(d) \/ DataThread(d) \/ HangUp(d) \/ PipeEnds(d)
      PROVE  UNCHANGED agent
  BY <1>3 DEF DialThread, LookUp, Signal, SignalBreaks, Refuse, Accept, AcceptBreaks,
              HandOff, WaitTimeout, Abandon, DataThread, Claim, StartPipe, HangUp, PipeEnds
<1> QED
  BY <1>1, <1>2, <1>3 DEF Next, Client

LEMMA DialSteps ==
  ASSUME Next
  PROVE  \/ \E d \in Dial, n \in Node : Ask(d, n) \/ AnswerSignal(n, d)
         \/ \E d \in Dial : DialThread(d) \/ DataThread(d) \/ HangUp(d) \/ PipeEnds(d)
         \/ UNCHANGED <<dial, pending>>
<1>1. ASSUME NEW n \in Node,
             (\E l \in Link : Connect(n, l)) \/ LinkClosed(n) \/ IdleTimeout(n) \/ Die(n)
      PROVE  UNCHANGED <<dial, pending>>
  BY <1>1 DEF Connect, LinkClosed, IdleTimeout, Die
<1>2. ASSUME NEW l \in Link, ControlThread(l) PROVE UNCHANGED <<dial, pending>>
  BY <1>2 DEF ControlThread, Register, AuthBreaks, ControlEnds
<1> QED
  BY <1>1, <1>2 DEF Next, Client

-----------------------------------------------------------------------------
(***************************************************************************)
(* Type correctness.                                                       *)
(***************************************************************************)
LEMMA ControlAndListType ==
  ASSUME Types, Named, Next
  PROVE  control' \in [Node -> Link \cup {None}] /\ pending' \subseteq Dial
<1>1. ASSUME NEW l \in Link, ControlThread(l) PROVE control' \in [Node -> Link \cup {None}]
  BY <1>1 DEF Types, ControlThread, Register, AuthBreaks, ControlEnds, Unlist
<1>2. control' \in [Node -> Link \cup {None}]
  <2>1. ASSUME NEW n \in Node,
               \/ \E l \in Link : Connect(n, l)
               \/ \E d \in Dial : AnswerSignal(n, d)
               \/ Die(n)
        PROVE  control' = control
    BY <2>1 DEF Connect, AnswerSignal, Die
  <2>2. ASSUME NEW d \in Dial, Signal(d) PROVE control' = control
    BY <2>2 DEF Signal
  <2>3. control \in [Node -> Link \cup {None}]
    BY DEF Types
  <2> QED
    BY <1>1, <2>1, <2>2, <2>3, LinkSteps
<1>3. ASSUME NEW d \in Dial, NEW n \in Node, Ask(d, n) \/ AnswerSignal(n, d)
      PROVE  pending' \subseteq Dial
  BY <1>3 DEF Types, Ask, List, AnswerSignal
<1>4. ASSUME NEW d \in Dial, DialThread(d) \/ DataThread(d) \/ HangUp(d) \/ PipeEnds(d)
      PROVE  pending' \subseteq Dial
  BY <1>4 DEF Types, DialThread, LookUp, Signal, SignalBreaks, Refuse, Accept, AcceptBreaks,
              HandOff, WaitTimeout, Abandon, DataThread, Claim, StartPipe, HangUp, PipeEnds
<1>5. pending \subseteq Dial
  BY DEF Types
<1> QED
  BY <1>2, <1>3, <1>4, <1>5, DialSteps

LEMMA LinkType == ASSUME Types, Named, Next PROVE link' \in [Link -> LinkRecord]
<1> USE DEF Types, LinkRecord
<1>1. ASSUME NEW n \in Node, NEW l \in Link, Connect(n, l) PROVE link' \in [Link -> LinkRecord]
  BY <1>1 DEF Connect, Left
<1>2. ASSUME NEW n \in Node, NEW d \in Dial, AnswerSignal(n, d)
      PROVE  link' \in [Link -> LinkRecord]
  BY <1>2 DEF AnswerSignal, Named, AgentsNamed
<1>3. ASSUME NEW n \in Node, Die(n) PROVE link' \in [Link -> LinkRecord]
  <2>1. link' = [k \in Link |-> IF k = agent[n].link
                                THEN [link[k] EXCEPT !.signals = {}] ELSE link[k]]
    BY <1>3 DEF Die, Left
  <2>2. \A k \in Link : [link[k] EXCEPT !.signals = {}] \in LinkRecord
    OBVIOUS
  <2> QED
    BY <2>1, <2>2
<1>4. ASSUME NEW l \in Link, Register(l) \/ AuthBreaks(l) \/ ControlEnds(l)
      PROVE  link' \in [Link -> LinkRecord]
  BY <1>4 DEF Register, AuthBreaks, ControlEnds
<1>5. ASSUME NEW d \in Dial, Signal(d) PROVE link' \in [Link -> LinkRecord]
  BY <1>5 DEF Signal, Named, DialsNamed
<1> HIDE DEF Types, LinkRecord
<1>6. link \in [Link -> LinkRecord]
  BY DEF Types
<1> QED
  BY <1>1, <1>2, <1>3, <1>4, <1>5, <1>6, LinkSteps DEF ControlThread

LEMMA AgentType == ASSUME Types, Next PROVE agent' \in [Node -> AgentRecord]
<1> USE DEF Types, AgentRecord
<1>1. ASSUME NEW n \in Node, NEW l \in Link, Connect(n, l)
      PROVE  agent' \in [Node -> AgentRecord]
  BY <1>1 DEF Connect
<1>2. ASSUME NEW n \in Node, LinkClosed(n) \/ IdleTimeout(n) \/ Die(n)
      PROVE  agent' \in [Node -> AgentRecord]
  BY <1>2 DEF LinkClosed, IdleTimeout, Die
<1> HIDE DEF Types, AgentRecord
<1>3. agent \in [Node -> AgentRecord]
  BY DEF Types
<1> QED
  BY <1>1, <1>2, <1>3, AgentSteps

\* A dial that gets a record of the type stays of the type.
LEMMA DialUpdate ==
  ASSUME dial \in [Dial -> DialRecord], NEW d \in Dial, NEW r \in DialRecord,
         dial' = [dial EXCEPT ![d] = r]
  PROVE  dial' \in [Dial -> DialRecord]
OBVIOUS

LEMMA DialType == ASSUME Types, Named, Next PROVE dial' \in [Dial -> DialRecord]
<1>0. dial \in [Dial -> DialRecord] /\ control \in [Node -> Link \cup {None}]
  BY DEF Types
<1>1. ASSUME NEW d \in Dial, NEW n \in Node, Ask(d, n) PROVE dial' \in [Dial -> DialRecord]
  <2> DEFINE r == [dial[d] EXCEPT !.node = n, !.handler = "lookup", !.caller = "asking"]
  <2>1. r \in DialRecord
    BY <1>0 DEF DialRecord
  <2>2. dial' = [dial EXCEPT ![d] = r]
    BY <1>1 DEF Ask
  <2> QED
    BY <1>0, <2>1, <2>2, DialUpdate
<1>2. ASSUME NEW d \in Dial, Refuse(d) PROVE dial' \in [Dial -> DialRecord]
  <2> DEFINE r == [dial[d] EXCEPT !.handler = "done", !.link = None, !.socket = "closed",
                     !.caller = IF @ = "asking" THEN "refused" ELSE @]
  <2>1. r \in DialRecord
    BY <1>0 DEF DialRecord
  <2>2. dial' = [dial EXCEPT ![d] = r]
    BY <1>2 DEF Refuse
  <2> QED
    BY <1>0, <2>1, <2>2, DialUpdate
<1>3. ASSUME NEW d \in Dial, LookUp(d) PROVE dial' \in [Dial -> DialRecord]
  <2> DEFINE l == control[dial[d].node]
             r == [dial[d] EXCEPT !.handler = "signal", !.link = l]
  <2>1. CASE l = None
    BY <1>2, <1>3, <2>1 DEF LookUp
  <2>2. CASE l # None
    <3>1. l \in Link
      BY <1>0, <1>3, <2>2 DEF Named, DialsNamed, LookUp
    <3>2. r \in DialRecord
      BY <1>0, <3>1 DEF DialRecord
    <3>3. dial' = [dial EXCEPT ![d] = r]
      BY <1>3, <2>2 DEF LookUp
    <3> QED
      BY <1>0, <3>2, <3>3, DialUpdate
  <2> QED
    BY <2>1, <2>2
<1>4. ASSUME NEW d \in Dial, Signal(d) PROVE dial' \in [Dial -> DialRecord]
  <2> DEFINE r == [dial[d] EXCEPT !.handler = "accept", !.link = None]
  <2>1. r \in DialRecord
    BY <1>0 DEF DialRecord
  <2>2. dial' = [dial EXCEPT ![d] = r]
    BY <1>4 DEF Signal
  <2> QED
    BY <1>0, <2>1, <2>2, DialUpdate
<1>5. ASSUME NEW d \in Dial, Accept(d) PROVE dial' \in [Dial -> DialRecord]
  <2> DEFINE r == [dial[d] EXCEPT !.handler = "wait",
                     !.caller = IF @ = "asking" THEN "told" ELSE @]
  <2>1. r \in DialRecord
    BY <1>0 DEF DialRecord
  <2>2. dial' = [dial EXCEPT ![d] = r]
    BY <1>5 DEF Accept
  <2> QED
    BY <1>0, <2>1, <2>2, DialUpdate
<1>6. ASSUME NEW d \in Dial, AcceptBreaks(d) \/ Abandon(d)
      PROVE  dial' \in [Dial -> DialRecord]
  <2> DEFINE r == [dial[d] EXCEPT !.handler = "done", !.socket = "closed"]
  <2>1. r \in DialRecord
    BY <1>0 DEF DialRecord
  <2>2. dial' = [dial EXCEPT ![d] = r]
    BY <1>6 DEF AcceptBreaks, Abandon
  <2> QED
    BY <1>0, <2>1, <2>2, DialUpdate
<1>7. ASSUME NEW d \in Dial, PipeEnds(d) PROVE dial' \in [Dial -> DialRecord]
  <2> DEFINE r == [dial[d] EXCEPT !.data = "ended", !.socket = "closed"]
  <2>1. r \in DialRecord
    BY <1>0 DEF DialRecord
  <2>2. dial' = [dial EXCEPT ![d] = r]
    BY <1>7 DEF PipeEnds
  <2> QED
    BY <1>0, <2>1, <2>2, DialUpdate
<1>8. ASSUME NEW d \in Dial,
             HandOff(d) \/ WaitTimeout(d) \/ Claim(d) \/ StartPipe(d) \/ HangUp(d)
      PROVE  dial' \in [Dial -> DialRecord]
  BY <1>0, <1>8 DEF DialRecord, HandOff, WaitTimeout, Claim, StartPipe, HangUp
<1>9. ASSUME NEW n \in Node, NEW d \in Dial, AnswerSignal(n, d)
      PROVE  dial' \in [Dial -> DialRecord]
  BY <1>0, <1>9 DEF DialRecord, AnswerSignal
<1> QED
  BY <1>0, <1>1, <1>2, <1>3, <1>4, <1>5, <1>6, <1>7, <1>8, <1>9, DialSteps
  DEF DialThread, DataThread, SignalBreaks

LEMMA LinkNamesKept ==
  ASSUME Types, Named, TableIsExact, Next
  PROVE  LinksNamed'
<1> USE DEF Types, Named, LinksNamed, AgentsNamed, DialsNamed, LinkRecord
<1>1. ASSUME NEW n \in Node, NEW l \in Link, Connect(n, l)
      PROVE  LinksNamed'
  BY <1>1 DEF Connect, Left
<1>2. ASSUME NEW n \in Node, NEW d \in Dial, AnswerSignal(n, d)
      PROVE  LinksNamed'
  BY <1>2 DEF AnswerSignal
<1>3. ASSUME NEW n \in Node, Die(n)
      PROVE  LinksNamed'
  BY <1>3 DEF Die, Left
<1>4. ASSUME NEW l \in Link, Register(l)
      PROVE  LinksNamed'
  BY <1>4 DEF Register, TableIsExact
<1>5. ASSUME NEW l \in Link, AuthBreaks(l) \/ ControlEnds(l)
      PROVE  LinksNamed'
  BY <1>5 DEF AuthBreaks, ControlEnds
<1>6. ASSUME NEW d \in Dial, Signal(d)
      PROVE  LinksNamed'
  BY <1>6 DEF Signal
<1> HIDE DEF LinkRecord, AgentsNamed, DialsNamed
<1> QED
  BY <1>1, <1>2, <1>3, <1>4, <1>5, <1>6, LinkSteps DEF ControlThread

LEMMA TableStep ==
  ASSUME Types, Named, TableIsExact, Next PROVE TableIsExact'
<1> USE DEF Types, Named, LinksNamed, AgentsNamed, DialsNamed, LinkRecord, TableIsExact
<1>1. ASSUME NEW n \in Node, NEW l \in Link, Connect(n, l)
      PROVE  TableIsExact'
  BY <1>1 DEF Connect, Left, Unused
<1>2. ASSUME NEW n \in Node, NEW d \in Dial, AnswerSignal(n, d)
      PROVE  TableIsExact'
  BY <1>2 DEF AnswerSignal
<1>3. ASSUME NEW n \in Node, Die(n)
      PROVE  TableIsExact'
  BY <1>3 DEF Die, Left
<1>4. ASSUME NEW l \in Link, Register(l)
      PROVE  TableIsExact'
  BY <1>4, RelayAssumption DEF Register
<1>5. ASSUME NEW l \in Link, AuthBreaks(l) \/ ControlEnds(l)
      PROVE  TableIsExact'
  BY <1>5, RelayAssumption DEF AuthBreaks, ControlEnds, Unlist
<1>6. ASSUME NEW d \in Dial, Signal(d)
      PROVE  TableIsExact'
  BY <1>6 DEF Signal
<1> HIDE DEF LinkRecord, Types, Named
<1> QED
  BY <1>1, <1>2, <1>3, <1>4, <1>5, <1>6, LinkSteps DEF ControlThread

LEMMA AgentNamesKept ==
  ASSUME Types, Named, Next
  PROVE  AgentsNamed'
<1> USE DEF Types, Named, AgentsNamed, AgentRecord
<1>1. ASSUME NEW m \in Node, NEW l \in Link, Connect(m, l)
      PROVE  AgentsNamed'
  BY <1>1 DEF Connect
<1>2. ASSUME NEW m \in Node, LinkClosed(m) \/ IdleTimeout(m) \/ Die(m)
      PROVE  AgentsNamed'
  BY <1>2 DEF LinkClosed, IdleTimeout, Die
<1> QED
  BY <1>1, <1>2, AgentSteps

LEMMA DialNamesKept ==
  ASSUME Types, Named, Next
  PROVE  DialsNamed'
<1>0. /\ dial \in [Dial -> DialRecord] /\ control \in [Node -> Link \cup {None}]
      /\ DialsNamed
  BY DEF Types, Named
<1> USE DEF DialsNamed
<1>1. ASSUME NEW d \in Dial, NEW n \in Node, Ask(d, n) PROVE DialsNamed'
  BY <1>0, <1>1 DEF Ask, DialRecord
<1>2. ASSUME NEW d \in Dial, dial[d].handler \in {"lookup", "signal"}, Refuse(d)
      PROVE  DialsNamed'
  BY <1>0, <1>2 DEF Refuse, DialRecord
<1>3. ASSUME NEW d \in Dial, LookUp(d) PROVE DialsNamed'
  BY <1>0, <1>2, <1>3 DEF LookUp, DialRecord
<1>4. ASSUME NEW d \in Dial,
             \/ Signal(d) \/ Accept(d) \/ AcceptBreaks(d)
             \/ HandOff(d) \/ WaitTimeout(d) \/ Abandon(d)
      PROVE  DialsNamed'
  BY <1>0, <1>4 DEF Signal, Accept, AcceptBreaks, HandOff, WaitTimeout, Abandon, DialRecord
<1>5. ASSUME NEW d \in Dial, Claim(d) \/ StartPipe(d) \/ HangUp(d) \/ PipeEnds(d) PROVE DialsNamed'
  BY <1>0, <1>5 DEF Claim, StartPipe, HangUp, PipeEnds, DialRecord
<1>6. ASSUME NEW n \in Node, NEW d \in Dial, AnswerSignal(n, d)
      PROVE  DialsNamed'
  BY <1>0, <1>6 DEF AnswerSignal, DialRecord
<1>7. ASSUME UNCHANGED <<dial, pending>> PROVE DialsNamed'
  BY <1>0, <1>7
<1> HIDE DEF DialsNamed
<1> QED
  BY <1>1, <1>2, <1>3, <1>4, <1>5, <1>6, <1>7, DialSteps
  DEF DialThread, DataThread, SignalBreaks

-----------------------------------------------------------------------------
(***************************************************************************)
(* Dials, their signals and the list.  A dial is on the list from before   *)
(* it is signalled until its data connection comes or it gives up, and it  *)
(* is signalled once.                                                      *)
(***************************************************************************)
Listed ==
  \A d \in Dial :
    /\ dial[d].handler = "none" => d \notin pending /\ dial[d].data = "none"
    /\ dial[d].handler \in {"lookup", "signal"} => dial[d].data = "none"
    /\ dial[d].handler \notin {"none", "done"} /\ dial[d].data \in {"none", "opened"}
         => d \in pending
    /\ dial[d].data \notin {"none", "opened"} => d \notin pending

Sockets ==
  \A d \in Dial :
    /\ dial[d].handler = "done" /\ dial[d].socket = "open" => Met(d)
    /\ dial[d].handler # "done" /\ dial[d].socket = "closed" => dial[d].data = "ended"

Signalled ==
  \A d \in Dial, l \in Link : d \in link[l].signals =>
    /\ dial[d].data = "none" /\ dial[d].handler \notin {"none", "lookup", "signal"}
    /\ \A k \in Link : d \in link[k].signals => k = l

Meeting == Listed /\ Sockets /\ Signalled /\ NoMeetingMissed /\ ListIsAwaited

LEMMA InitMeeting == Init => TableIsExact /\ Meeting
BY RelayAssumption DEF Init, TableIsExact, Meeting, Listed, Sockets, Signalled,
   NoMeetingMissed, ListIsAwaited, Met

\* A step that changes no dial and adds no signal.
LEMMA QuietMeeting ==
  ASSUME Meeting, UNCHANGED <<dial, pending>>,
         \A l \in Link : link'[l].signals \subseteq link[l].signals
  PROVE  Meeting'
BY DEF Meeting, Listed, Sockets, Signalled, NoMeetingMissed, ListIsAwaited, Met

LEMMA DialMeeting ==
  ASSUME Types, Meeting, NEW d \in Dial,
         \/ LookUp(d) \/ SignalBreaks(d) \/ Accept(d) \/ AcceptBreaks(d)
         \/ HandOff(d) \/ WaitTimeout(d) \/ Abandon(d)
         \/ DataThread(d) \/ HangUp(d) \/ PipeEnds(d)
  PROVE  Meeting'
<1> USE DEF Types, DialRecord, Meeting, Listed, Sockets, Signalled, NoMeetingMissed,
            ListIsAwaited, Met
<1>1. ASSUME dial[d].handler \in {"lookup", "signal"}, Refuse(d) PROVE Meeting'
  BY <1>1 DEF Refuse
<1>2. CASE LookUp(d)
  <2>1. CASE control[dial[d].node] = None
    BY ONLY <1>1, <1>2, <2>1 DEF LookUp
  <2>2. CASE control[dial[d].node] # None
    BY <1>2, <2>2 DEF LookUp
  <2> QED
    BY <2>1, <2>2
<1>3. CASE Accept(d)
  BY <1>3 DEF Accept
<1>4. CASE AcceptBreaks(d)
  BY <1>4 DEF AcceptBreaks
<1>5. CASE HandOff(d)
  BY <1>5 DEF HandOff
<1>6. CASE WaitTimeout(d)
  BY <1>6 DEF WaitTimeout
<1>7. CASE Abandon(d)
  BY <1>7 DEF Abandon
<1>8. CASE Claim(d)
  BY <1>8 DEF Claim
<1>9. CASE StartPipe(d)
  BY <1>9 DEF StartPipe
<1>10. CASE HangUp(d)
  BY <1>10 DEF HangUp
<1>11. CASE PipeEnds(d)
  BY <1>11 DEF PipeEnds
<1> QED
  BY <1>1, <1>2, <1>3, <1>4, <1>5, <1>6, <1>7, <1>8, <1>9, <1>10, <1>11
  DEF SignalBreaks, DataThread

LEMMA SignalMeeting ==
  ASSUME Types, Named, Meeting, NEW d \in Dial, Signal(d) PROVE Meeting'
BY DEF Types, DialRecord, LinkRecord, Meeting, Listed, Sockets, Signalled, NoMeetingMissed,
            ListIsAwaited, Met, Signal, Named, DialsNamed

LEMMA AskMeeting ==
  ASSUME Types, Meeting, NEW d \in Dial, NEW n \in Node, Ask(d, n) PROVE Meeting'
BY DEF Types, DialRecord, LinkRecord, Meeting, Listed, Sockets, Signalled, NoMeetingMissed,
            ListIsAwaited, Met, Ask, List

LEMMA AnswerMeeting ==
  ASSUME Types, Named, Meeting, NEW d \in Dial, NEW n \in Node, AnswerSignal(n, d)
  PROVE  Meeting'
<1> DEFINE k == agent[n].link
<1>1. k \in Link
  BY DEF Types, AgentRecord, Named, AgentsNamed, AnswerSignal
<1>2. /\ d \in link[k].signals /\ pending' = pending
      /\ \A l \in Link : link'[l].signals = link[l].signals \ (IF l = k THEN {d} ELSE {})
  BY <1>1 DEF Types, LinkRecord, AnswerSignal
<1>3. dial[d].data = "none" /\ dial[d].handler \notin {"none", "lookup", "signal"}
      /\ \A l \in Link : d \notin link'[l].signals
  BY <1>1, <1>2 DEF Meeting, Signalled
<1>4. /\ \A e \in Dial \ {d} : dial'[e] = dial[e]
      /\ dial'[d].handler = dial[d].handler /\ dial'[d].socket = dial[d].socket
      /\ dial'[d].caller = dial[d].caller /\ dial'[d].data \in {"none", "opened"}
  BY <1>3 DEF Types, DialRecord, AnswerSignal
<1> HIDE DEF k
<1>5. Listed' /\ NoMeetingMissed'
  BY <1>2, <1>3, <1>4 DEF Meeting, Listed, NoMeetingMissed
<1>6. Sockets'
  <2> SUFFICES ASSUME NEW e \in Dial
               PROVE  /\ dial'[e].handler = "done" /\ dial'[e].socket = "open" => Met(e)'
                      /\ dial'[e].handler # "done" /\ dial'[e].socket = "closed"
                           => dial'[e].data = "ended"
    BY DEF Sockets
  <2>1. /\ dial[e].handler = "done" /\ dial[e].socket = "open" => Met(e)
        /\ dial[e].handler # "done" /\ dial[e].socket = "closed" => dial[e].data = "ended"
    BY DEF Meeting, Sockets
  <2>2. CASE e = d
    BY <1>3, <1>4, <2>1, <2>2 DEF Met
  <2>3. CASE e # d
    BY <1>4, <2>1, <2>3 DEF Met
  <2> QED
    BY <2>2, <2>3
<1>7. Signalled'
  BY <1>2, <1>3, <1>4 DEF Meeting, Signalled
<1>8. ListIsAwaited'
  <2>1. \A e \in Dial : dial'[e].handler = dial[e].handler /\ dial'[e].caller = dial[e].caller
    BY <1>4
  <2>2. pending \subseteq Dial
    BY DEF Types
  <2> QED
    BY <1>2, <2>1, <2>2 DEF Meeting, ListIsAwaited
<1> QED
  BY <1>5, <1>6, <1>7, <1>8 DEF Meeting

LEMMA QuietSteps ==
  ASSUME Types, Named, Next
  PROVE  \/ \E d \in Dial, n \in Node : Ask(d, n) \/ AnswerSignal(n, d)
         \/ \E d \in Dial : DialThread(d) \/ DataThread(d) \/ HangUp(d) \/ PipeEnds(d)
         \/ /\ UNCHANGED <<dial, pending>>
            /\ \A l \in Link : link'[l].signals \subseteq link[l].signals
<1>1. ASSUME NEW n \in Node, NEW l \in Link, Connect(n, l)
      PROVE  /\ UNCHANGED <<dial, pending>>
             /\ \A k \in Link : link'[k].signals \subseteq link[k].signals
  BY <1>1 DEF Connect, Left, Types, LinkRecord
<1>2. ASSUME NEW n \in Node, Die(n)
      PROVE  /\ UNCHANGED <<dial, pending>>
             /\ \A k \in Link : link'[k].signals \subseteq link[k].signals
  BY <1>2 DEF Die, Left, Types, LinkRecord
<1>3. ASSUME NEW n \in Node, LinkClosed(n) \/ IdleTimeout(n)
      PROVE  /\ UNCHANGED <<dial, pending>>
             /\ \A k \in Link : link'[k].signals \subseteq link[k].signals
  BY <1>3 DEF LinkClosed, IdleTimeout
<1>4. ASSUME NEW l \in Link, ControlThread(l)
      PROVE  /\ UNCHANGED <<dial, pending>>
             /\ \A k \in Link : link'[k].signals \subseteq link[k].signals
  BY <1>4 DEF ControlThread, Register, AuthBreaks, ControlEnds, Types, LinkRecord
<1> QED
  BY <1>1, <1>2, <1>3, <1>4 DEF Next, Client

LEMMA NextMeeting == ASSUME Types, Named, Meeting, Next PROVE Meeting'
BY QuietSteps, QuietMeeting, DialMeeting, SignalMeeting, AskMeeting, AnswerMeeting
DEF DialThread

-----------------------------------------------------------------------------
(***************************************************************************)
(* The theorems.                                                           *)
(***************************************************************************)
Inv == TypeOK /\ TableIsExact /\ Meeting

LEMMA InitInv == Init => Inv
BY InitType, InitMeeting DEF Inv

LEMMA NextInv == Inv /\ [Next]_vars => Inv'
<1> SUFFICES ASSUME Inv, [Next]_vars PROVE Inv'
  OBVIOUS
<1>1. Types /\ Named /\ TableIsExact /\ Meeting
  BY TypeParts DEF Inv
<1>2. CASE Next
  <2>1. Types'
    BY <1>1, <1>2, ControlAndListType, LinkType, AgentType, DialType DEF Types
  <2>2. Named'
    BY <1>1, <1>2, LinkNamesKept, AgentNamesKept, DialNamesKept DEF Named
  <2>3. TypeOK'
    BY <2>1, <2>2 DEF TypeOK, Types, Named, LinksNamed, AgentsNamed, DialsNamed
  <2>4. TableIsExact' /\ Meeting'
    BY <1>1, <1>2, TableStep, NextMeeting
  <2> QED
    BY <2>3, <2>4 DEF Inv
<1>3. CASE UNCHANGED vars
  BY <1>3 DEF vars, Inv, TypeOK, TableIsExact, Meeting, Listed, Sockets, Signalled,
              NoMeetingMissed, ListIsAwaited, Met
<1> QED
  BY <1>2, <1>3

\* Every reachable state is well typed, and a dial signals only on a link it
\* found in the table (relay.py:192-203).
THEOREM TypeCorrect == Spec => []TypeOK
<1>1. Inv => TypeOK
  BY DEF Inv
<1> QED
  BY InitInv, NextInv, <1>1, PTL DEF Spec

\* The table of control connections is exact, however links end and replace
\* one another (relay.py:170-189).
THEOREM TableCorrect == Spec => []TableIsExact
<1>1. Inv => TableIsExact
  BY DEF Inv
<1> QED
  BY InitInv, NextInv, <1>1, PTL DEF Spec

\* No data connection is turned away while its dial waits
\* (relay.py:211-213, 225-229).
THEOREM NoMeetingIsMissed == Spec => []NoMeetingMissed
<1>1. Inv => NoMeetingMissed
  BY DEF Inv, Meeting
<1> QED
  BY InitInv, NextInv, <1>1, PTL DEF Spec

\* The list of waiting dials holds none that is over, unless its coordinator
\* hung up (relay.py:205-222).
THEOREM ListCorrect == Spec => []ListIsAwaited
<1>1. Inv => ListIsAwaited
  BY DEF Inv, Meeting
<1> QED
  BY InitInv, NextInv, <1>1, PTL DEF Spec

=============================================================================
