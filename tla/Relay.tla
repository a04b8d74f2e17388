------------------------------- MODULE Relay -------------------------------
(***************************************************************************)
(* The NAT relay, engine/relay.py, with the two parties it brings          *)
(* together: the client of a node (_relay_client, engine/stage_worker.py)  *)
(* and a dialing coordinator (_relay_dial, engine/coordinator.py).         *)
(*                                                                         *)
(* A node holds a control link to the relay.  A dial puts itself on the    *)
(* pending list, signals the node over its link and waits; the node        *)
(* answers with a data connection that is piped to the dial.  Every        *)
(* connection has a thread of its own in the relay, and a step here is     *)
(* what such a thread does between two points where another may come in.   *)
(*                                                                         *)
(* A tag is the dial it was made for.  Signatures and tokens are those of  *)
(* honest parties, and the bytes of a pipe are left out.                   *)
(***************************************************************************)
EXTENDS Naturals

CONSTANTS
  Node,
  Link,   \* control connections; one that is over may be used again
  Dial,   \* dials, and their tags
  None,
  Fault   \* subset of {"die", "unreachable", "hangup"}

ASSUME RelayAssumption == None \notin Node \cup Link

VARIABLES
  control,  \* _controls: the link each node is signalled on
  pending,  \* _pending: dials that wait for a data connection
  link,     \* each control connection: its node, its thread in the relay
            \* and the signals written to it and not read
  agent,    \* the node's client: its link and what it does
  dial      \* each dial: its node, its thread in the relay, the link it
            \* signals on, its socket, its coordinator, its data connection

vars == <<control, pending, link, agent, dial>>

\* A thread is "auth" until its node is in the table; "replaced" is one whose
\* socket the relay closed when the node came on another link.
LinkRecord ==
  [node : Node \cup {None},
   server : {"none", "auth", "serving", "replaced", "ended"},
   signals : SUBSET Dial]

\* "backoff" is a client that left its read loop; its socket stays open until
\* it has another.
AgentRecord ==
  [link : Link \cup {None}, doing : {"off", "reading", "backoff"}]

DialRecord ==
  [node : Node \cup {None},
   handler : {"none", "lookup", "signal", "accept", "wait", "expired", "done"},
   link : Link \cup {None},
   socket : {"open", "closed"},
   caller : {"none", "asking", "told", "refused", "gone"},
   data : {"none", "opened", "claimed", "piped", "ended", "refused"}]

Init ==
  /\ control = [n \in Node |-> None]
  /\ pending = {}
  /\ link = [l \in Link |-> [node |-> None, server |-> "none", signals |-> {}]]
  /\ agent = [n \in Node |-> [link |-> None, doing |-> "off"]]
  /\ dial = [d \in Dial |->
       [node |-> None, handler |-> "none", link |-> None, socket |-> "open",
        caller |-> "none", data |-> "none"]]

-----------------------------------------------------------------------------
(***************************************************************************)
(* The node's client.                                                      *)
(***************************************************************************)
Unused(l) ==
  /\ link[l].server \in {"none", "ended"}
  /\ \A n \in Node : agent[n].link # l
  /\ \A d \in Dial : dial[d].handler = "signal" => dial[d].link # l

\* Signals that were not read are lost with the socket.
Left(n) ==
  [k \in Link |-> IF k = agent[n].link THEN [link[k] EXCEPT !.signals = {}] ELSE link[k]]

\* Connected and told ok; a link it still had is closed by this.
Connect(n, l) ==
  /\ agent[n].doing # "reading" /\ Unused(l)
  /\ agent' = [agent EXCEPT ![n] = [link |-> l, doing |-> "reading"]]
  /\ link' = [Left(n) EXCEPT ![l] = [node |-> n, server |-> "auth", signals |-> {}]]
  /\ UNCHANGED <<control, pending, dial>>

\* The socket keeps the 15 s timeout it was connected with.
IdleTimeout(n) ==
  /\ agent[n].doing = "reading" /\ link[agent[n].link].signals = {}
  /\ agent' = [agent EXCEPT ![n].doing = "backoff"]
  /\ UNCHANGED <<control, pending, link, dial>>

LinkClosed(n) ==
  /\ agent[n].doing = "reading"
  /\ link[agent[n].link].server \in {"replaced", "ended"}
  /\ agent' = [agent EXCEPT ![n].doing = "backoff"]
  /\ UNCHANGED <<control, pending, link, dial>>

\* A signal is answered with a data connection, if one can be made.
AnswerSignal(n, d) ==
  /\ agent[n].doing = "reading" /\ d \in link[agent[n].link].signals
  /\ link' = [link EXCEPT ![agent[n].link].signals = @ \ {d}]
  /\ \/ dial' = [dial EXCEPT ![d].data = "opened"]
     \/ "unreachable" \in Fault /\ UNCHANGED dial
  /\ UNCHANGED <<control, pending, agent>>

Die(n) ==
  /\ "die" \in Fault /\ agent[n].doing # "off"
  /\ agent' = [agent EXCEPT ![n] = [link |-> None, doing |-> "off"]]
  /\ link' = Left(n)
  /\ UNCHANGED <<control, pending, dial>>

-----------------------------------------------------------------------------
(***************************************************************************)
(* _handle_control.                                                        *)
(***************************************************************************)
PeerGone(l) == agent[link[l].node].link # l

\* The newer link takes over and the older one's socket is closed.
Register(l) ==
  LET n == link[l].node
  IN  /\ link[l].server = "auth"
      /\ control' = [control EXCEPT ![n] = l]
      /\ link' = [k \in Link |->
           IF k = l THEN [link[k] EXCEPT !.server = "serving"]
           ELSE IF k = control[n] THEN [link[k] EXCEPT !.server = "replaced"]
           ELSE link[k]]
      /\ UNCHANGED <<pending, agent, dial>>

\* The ok could not be written.
AuthBreaks(l) ==
  /\ link[l].server = "auth" /\ PeerGone(l)
  /\ link' = [link EXCEPT ![l].server = "ended"]
  /\ UNCHANGED <<control, pending, agent, dial>>

\* Fault: the node is taken off the table whichever link it is on.
UnlistAny(l) == control' = [control EXCEPT ![link[l].node] = None]

Unlist(l) ==
  control' = [control EXCEPT ![link[l].node] = IF @ = l THEN None ELSE @]

ControlEnds(l) ==
  /\ \/ link[l].server = "serving" /\ PeerGone(l)
     \/ link[l].server = "replaced"
  /\ Unlist(l)
  /\ link' = [link EXCEPT ![l].server = "ended"]
  /\ UNCHANGED <<pending, agent, dial>>

-----------------------------------------------------------------------------
(***************************************************************************)
(* _handle_dial and its coordinator.                                       *)
(***************************************************************************)
\* Fault: the dial is not on the list when the node is signalled.
ListLater(d) == UNCHANGED pending

List(d) == pending' = pending \cup {d}

Ask(d, n) ==
  /\ dial[d].handler = "none"
  /\ List(d)
  /\ dial' = [dial EXCEPT ![d].node = n, ![d].handler = "lookup", ![d].caller = "asking"]
  /\ UNCHANGED <<control, link, agent>>

\* Fault: a refused dial stays on the list.
RefuseListed(d) ==
  /\ dial' = [dial EXCEPT ![d].handler = "done", ![d].link = None,
                          ![d].socket = "closed",
                          ![d].caller = IF @ = "asking" THEN "refused" ELSE @]
  /\ UNCHANGED <<control, pending, link, agent>>

Refuse(d) ==
  /\ pending' = pending \ {d}
  /\ dial' = [dial EXCEPT ![d].handler = "done", ![d].link = None,
                          ![d].socket = "closed",
                          ![d].caller = IF @ = "asking" THEN "refused" ELSE @]
  /\ UNCHANGED <<control, link, agent>>

\* Fault: a node that is not in the table is signalled.
LookUpAnyway(d) ==
  /\ dial[d].handler = "lookup"
  /\ dial' = [dial EXCEPT ![d].handler = "signal", ![d].link = control[dial[d].node]]
  /\ UNCHANGED <<control, pending, link, agent>>

\* The link is read under the lock and written to after it.
LookUp(d) ==
  LET l == control[dial[d].node]
  IN  /\ dial[d].handler = "lookup"
      /\ IF l = None
         THEN Refuse(d)
         ELSE /\ dial' = [dial EXCEPT ![d].handler = "signal", ![d].link = l]
              /\ UNCHANGED <<control, pending, link, agent>>

Signal(d) ==
  /\ dial[d].handler = "signal" /\ link[dial[d].link].server = "serving"
  /\ link' = IF PeerGone(dial[d].link) THEN link
             ELSE [link EXCEPT ![dial[d].link].signals = @ \cup {d}]
  /\ dial' = [dial EXCEPT ![d].handler = "accept", ![d].link = None]
  /\ UNCHANGED <<control, pending, agent>>

SignalBreaks(d) ==
  /\ dial[d].handler = "signal"
  /\ link[dial[d].link].server # "serving" \/ PeerGone(dial[d].link)
  /\ Refuse(d)

Accept(d) ==
  /\ dial[d].handler = "accept" /\ dial[d].socket = "open"
  /\ dial' = [dial EXCEPT ![d].handler = "wait",
                          ![d].caller = IF @ = "asking" THEN "told" ELSE @]
  /\ UNCHANGED <<control, pending, link, agent>>

\* The ok could not be written; the dial stays on the list.
AcceptBreaks(d) ==
  /\ dial[d].handler = "accept"
  /\ dial[d].caller = "gone" \/ dial[d].socket = "closed"
  /\ dial' = [dial EXCEPT ![d].handler = "done", ![d].socket = "closed"]
  /\ UNCHANGED <<control, pending, link, agent>>

\* The event is set when the pipe starts.
Met(d) == dial[d].data \in {"piped", "ended"}

HandOff(d) ==
  /\ dial[d].handler = "wait" /\ Met(d)
  /\ dial' = [dial EXCEPT ![d].handler = "done"]
  /\ UNCHANGED <<control, pending, link, agent>>

\* The wait returned FALSE; the event may still be set before the next step.
WaitTimeout(d) ==
  /\ dial[d].handler = "wait" /\ ~Met(d)
  /\ dial' = [dial EXCEPT ![d].handler = "expired"]
  /\ UNCHANGED <<control, pending, link, agent>>

\* Fault: the dial says its socket was handed off.
AbandonOpen(d) ==
  /\ dial[d].handler = "expired"
  /\ pending' = pending \ {d}
  /\ dial' = [dial EXCEPT ![d].handler = "done"]
  /\ UNCHANGED <<control, link, agent>>

Abandon(d) ==
  /\ dial[d].handler = "expired"
  /\ pending' = pending \ {d}
  /\ dial' = [dial EXCEPT ![d].handler = "done", ![d].socket = "closed"]
  /\ UNCHANGED <<control, link, agent>>

\* The coordinator's own timeout, or the socket the relay closed on it.
HangUp(d) ==
  /\ dial[d].caller \in {"asking", "told"}
  /\ "hangup" \in Fault \/ dial[d].socket = "closed"
  /\ dial' = [dial EXCEPT ![d].caller = "gone"]
  /\ UNCHANGED <<control, pending, link, agent>>

-----------------------------------------------------------------------------
(***************************************************************************)
(* _handle_data and _pipe.                                                 *)
(***************************************************************************)
Claim(d) ==
  /\ dial[d].data = "opened"
  /\ pending' = pending \ {d}
  /\ dial' = [dial EXCEPT ![d].data = IF d \in pending THEN "claimed" ELSE "refused"]
  /\ UNCHANGED <<control, link, agent>>

StartPipe(d) ==
  /\ dial[d].data = "claimed"
  /\ dial' = [dial EXCEPT ![d].data = "piped"]
  /\ UNCHANGED <<control, pending, link, agent>>

\* Either side is closed; the node closes its side when it idles.
PipeEnds(d) ==
  /\ dial[d].data = "piped"
  /\ dial' = [dial EXCEPT ![d].data = "ended", ![d].socket = "closed"]
  /\ UNCHANGED <<control, pending, link, agent>>

-----------------------------------------------------------------------------
ControlThread(l) == Register(l) \/ AuthBreaks(l) \/ ControlEnds(l)

DialThread(d) ==
  \/ LookUp(d) \/ Signal(d) \/ SignalBreaks(d) \/ Accept(d) \/ AcceptBreaks(d)
  \/ HandOff(d) \/ WaitTimeout(d) \/ Abandon(d)

DataThread(d) == Claim(d) \/ StartPipe(d)

Client(n) ==
  \/ \E l \in Link : Connect(n, l)
  \/ LinkClosed(n)
  \/ \E d \in Dial : AnswerSignal(n, d)

Next ==
  \/ \E n \in Node : Client(n) \/ IdleTimeout(n) \/ Die(n)
  \/ \E l \in Link : ControlThread(l)
  \/ \E d \in Dial, n \in Node : Ask(d, n)
  \/ \E d \in Dial : DialThread(d) \/ DataThread(d) \/ HangUp(d) \/ PipeEnds(d)

Spec == Init /\ [][Next]_vars

\* Threads of the relay go on; nobody is assumed to come back, to dial or to
\* answer.
FairSpec ==
  /\ Spec
  /\ \A l \in Link : WF_vars(ControlThread(l))
  /\ \A d \in Dial : WF_vars(DialThread(d)) /\ WF_vars(DataThread(d))

-----------------------------------------------------------------------------
(***************************************************************************)
(* Properties.                                                             *)
(***************************************************************************)
\* Every variable has its type, and a dial signals on a link it found.
TypeOK ==
  /\ control \in [Node -> Link \cup {None}]
  /\ pending \subseteq Dial
  /\ link \in [Link -> LinkRecord]
  /\ agent \in [Node -> AgentRecord]
  /\ dial \in [Dial -> DialRecord]
  /\ \A l \in Link : link[l].server # "none" => link[l].node \in Node
  /\ \A n \in Node : agent[n].doing # "off" => agent[n].link \in Link
  /\ \A d \in Dial : /\ dial[d].handler # "none" => dial[d].node \in Node
                     /\ dial[d].handler = "signal" => dial[d].link \in Link

\* The table holds exactly the links that are served: a link that ends late
\* never takes its successor off the table, and a node is never served on two
\* (relay.py:170-189).
TableIsExact ==
  \A n \in Node, l \in Link :
    control[n] = l <=> link[l].node = n /\ link[l].server = "serving"

\* A data connection is turned away only after its dial has given up: the dial
\* is on the list before its node can know the tag (relay.py:211-213,225-229).
NoMeetingMissed ==
  \A d \in Dial : dial[d].data = "refused" =>
    dial[d].handler = "done" /\ dial[d].socket = "closed"

\* The list holds no dial that is over, unless its coordinator hung up before
\* it was told ok (relay.py:205-222).
ListIsAwaited ==
  \A d \in pending : dial[d].handler # "done" \/ dial[d].caller = "gone"

\* A coordinator told to go ahead is connected to its node, or its socket is
\* closed, or it has left (relay.py:217-222).
GoAheadIsKept ==
  \A d \in Dial : dial[d].caller = "told" ~>
    Met(d) \/ dial[d].socket = "closed" \/ dial[d].caller = "gone"

\* docs/RELAY.md:70: the relay "holds the connection open (keepalive/PING)".
\* While no node fails, a signal is on the link its node is reading.
SignalsAreHeard ==
  \A l \in Link : link[l].signals # {} =>
    agent[link[l].node] = [link |-> l, doing |-> "reading"]

=============================================================================
