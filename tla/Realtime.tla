------------------------------ MODULE Realtime ------------------------------
(***************************************************************************)
(* Live events: hubs of WebSockets, one per replica, joined by NOTIFY and  *)
(* LISTEN in Postgres, and the clients that keep what they show up to date *)
(* with them.                                                              *)
(*                                                                         *)
(* Two kinds of client show the two ways the code uses a hub. A page that  *)
(* shows the history of the transfers its user has sent reloads it over    *)
(* HTTP when an event comes and when its socket reopens; the event is only *)
(* a hint. A watcher, a device that waits for its enrollment to be         *)
(* decided, shows the snapshot that its socket starts with and then what   *)
(* the events carry. The list of received transfers, which the page        *)
(* reloads by count, is left out.                                          *)
(*                                                                         *)
(* What a client shows is the number of changes it has seen. A page's      *)
(* requests are answered; events, sockets and replicas may fail.           *)
(***************************************************************************)
EXTENDS Naturals, Sequences, FiniteSets

CONSTANTS
  Replicas,
  Pages,          \* open transfers pages of one user, with the sent history
  Watchers,       \* Android devices waiting on one enrollment
  Tasks,          \* requests that change something and tell about it
  Changes,        \* how often the subject of each topic changes
  SendBuffer,     \* sendBuffer
  MaxFaults,      \* sockets, listeners and replicas that fail
  MaxOpen         \* clients that are open at the same time

Clients == Pages \cup Watchers
Topics == {"sent", "enrollment"}

ASSUME ClientsAssumption == Pages \cap Watchers = {}
\* An enrollment is decided once.
ASSUME ChangesAssumption ==
  Changes \in [Topics -> Nat] /\ Changes["enrollment"] <= 1
ASSUME BoundsAssumption ==
  SendBuffer \in Nat \ {0} /\ MaxFaults \in Nat /\ MaxOpen \in Nat

VARIABLES
  state,       \* changes committed, by topic
  task,
  lost,        \* changes whose event did not get to every replica
  hub,
  listening,   \* the replica's LISTEN connection is up
  inbox,       \* notifications the listener has not handed on yet
  sock,        \* the client's socket
  out,         \* the queue of the socket
  opened,      \* the page's socket has been open before
  load,        \* the page's request for the history
  shows,
  gap,         \* changes made before the client was sure to hear of them
  faults

client == <<sock, out, opened, load, shows>>
vars == <<state, task, lost, hub, listening, inbox, client, gap, faults>>

Versions == 0 .. Changes["sent"] \cup 0 .. Changes["enrollment"]
Idle == [at |-> "idle"]
Shut == [at |-> "shut"]
Away == [at |-> "away"]
Quiet == [at |-> "quiet"]
Asked == [at |-> "asked"]
Resync == [topic |-> "all"]
Event == [topic: Topics, n: Versions]
Hub == {"open", "closing", "dropped", "gone"}
Conn == [at: {"upgraded", "added", "served", "closed", "ghost"},
         on: Replicas, read: Versions]

TypeOK ==
  /\ state \in [Topics -> Nat] /\ \A t \in Topics : state[t] <= Changes[t]
  /\ task \in [Tasks -> {Idle} \cup [at: {"gather", "publish"}, on: Replicas,
                                     topic: Topics, n: Versions]]
  /\ lost \subseteq Event
  /\ hub \in [Replicas -> Hub]
  /\ listening \in [Replicas -> BOOLEAN]
  /\ inbox \in [Replicas -> Seq(Event \cup {Resync})]
  /\ sock \in [Clients -> {Shut, Away} \cup Conn]
  /\ out \in [Clients -> Seq(Versions)]
  /\ \A c \in Clients : Len(out[c]) <= SendBuffer
  /\ opened \in [Pages -> BOOLEAN]
  /\ load \in [Pages -> {Quiet, Asked} \cup [at: {"answered"}, n: Versions]]
  /\ shows \in [Clients -> Versions]
  /\ gap \in [Clients -> SUBSET Versions]
  /\ faults \in 0 .. MaxFaults

\* Some clients are open: a page asks for its history and connects.
Init ==
  /\ state = [t \in Topics |-> 0]
  /\ task = [t \in Tasks |-> Idle]
  /\ lost = {}
  /\ hub = [r \in Replicas |-> "open"]
  /\ listening = [r \in Replicas |-> TRUE]
  /\ inbox = [r \in Replicas |-> <<>>]
  /\ \E open \in SUBSET Clients :
       /\ Cardinality(open) <= MaxOpen
       /\ sock = [c \in Clients |-> IF c \in open THEN Away ELSE Shut]
       /\ load = [p \in Pages |-> IF p \in open THEN Asked ELSE Quiet]
  /\ out = [c \in Clients |-> <<>>]
  /\ opened = [p \in Pages |-> FALSE]
  /\ shows = [c \in Clients |-> 0]
  /\ gap = [c \in Clients |-> {}]
  /\ faults = 0

Topic(c) == IF c \in Pages THEN "sent" ELSE "enrollment"
On(c, r) == sock[c] \notin {Shut, Away} /\ sock[c].on = r
Joined(c) == sock[c].at \in {"added", "served"}
Running(r) == hub[r] # "gone"

Fault == faults < MaxFaults /\ faults' = faults + 1

-----------------------------------------------------------------------------
(* The hub *)

\* DropAll closes the sockets of C.
Dropped(C) == [c \in Clients |->
  IF c \in C /\ Joined(c) THEN [sock[c] EXCEPT !.at = "closed"] ELSE sock[c]]

\* Mutant: a client that does not read misses the event instead.
DeliverIfRoom(topic, n, R) ==
  LET to == {c \in Clients : Joined(c) /\ Topic(c) = topic /\ sock[c].on \in R}
  IN /\ out' = [c \in Clients |-> IF c \in to /\ Len(out[c]) < SendBuffer
                                  THEN Append(out[c], n) ELSE out[c]]
     /\ UNCHANGED <<sock, opened, load, shows>>

\* Deliver: queue the event on the sockets that R holds for the topic; one
\* whose queue is full is closed.
Deliver(topic, n, R) ==
  LET to == {c \in Clients : Joined(c) /\ Topic(c) = topic /\ sock[c].on \in R}
      full == {c \in to : Len(out[c]) = SendBuffer}
  IN /\ out' = [c \in Clients |-> IF c \in to \ full THEN Append(out[c], n)
                                  ELSE out[c]]
     /\ sock' = Dropped(full)
     /\ UNCHANGED <<opened, load, shows>>

\* deliverEnvelope: a notification reaches the sockets of its replica.
DeliverEnvelope(e, r) == Deliver(e.topic, e.n, {r})

\* pg_notify: every session that listens gets the event.
Notify(topic, n) ==
  inbox' = [r \in Replicas |->
    IF Running(r) /\ listening[r] THEN Append(inbox[r], [topic |-> topic, n |-> n])
    ELSE inbox[r]]

\* A request commits its change; a client that is between reading and joining
\* may not hear of it. A change that no client watches is left out.
Change(t, r, topic) ==
  LET n == state[topic] + 1
      Deaf(c) == \/ sock[c] = Away /\ c \in Pages /\ ~opened[c]
                 \/ sock[c].at = "upgraded"
                 \/ sock[c].at = "added" /\ c \in Watchers
  IN /\ task[t] = Idle
     /\ Running(r)
     /\ n <= Changes[topic]
     /\ \E c \in Clients : Topic(c) = topic /\ sock[c] # Shut
     /\ state' = [state EXCEPT ![topic] = n]
     /\ task' = [task EXCEPT ![t] =
          [at |-> IF topic = "sent" THEN "publish" ELSE "gather",
           on |-> r, topic |-> topic, n |-> n]]
     /\ gap' = [c \in Clients |->
          IF Topic(c) = topic /\ Deaf(c) THEN gap[c] \cup {n} ELSE gap[c]]
     /\ UNCHANGED <<lost, hub, listening, inbox, client, faults>>

Lose(t) == lost' = lost \cup {[topic |-> task[t].topic, n |-> task[t].n]}
Ends(t) == task' = [task EXCEPT ![t] = Idle]

\* publishEnrollmentChange reads what it publishes, and publishes nothing when
\* that fails.
GatherEnrollmentEventData(t) ==
  /\ task[t].at = "gather"
  /\ \/ /\ task' = [task EXCEPT ![t].at = "publish",
                                ![t].n = state[task[t].topic]]
        /\ UNCHANGED <<lost, faults>>
     \/ Fault /\ Lose(t) /\ Ends(t)
  /\ UNCHANGED <<state, hub, listening, inbox, client, gap>>

\* Publish: the event goes through Postgres, or to the own sockets when the
\* NOTIFY fails, which a lost answer may only seem to say.
Publish(t) ==
  /\ task[t].at = "publish"
  /\ \/ /\ Notify(task[t].topic, task[t].n)
        /\ UNCHANGED <<lost, client, faults>>
     \/ /\ Fault
        /\ Deliver(task[t].topic, task[t].n, {task[t].on})
        /\ \/ Lose(t) /\ UNCHANGED inbox
           \/ Notify(task[t].topic, task[t].n) /\ UNCHANGED lost
  /\ Ends(t)
  /\ UNCHANGED <<state, hub, listening, gap>>

\* The listener hands on the next notification; after a reconnect, every
\* socket is closed.
Listen(r) ==
  /\ Running(r)
  /\ inbox[r] # <<>>
  /\ inbox' = [inbox EXCEPT ![r] = Tail(@)]
  /\ LET next == Head(inbox[r]) IN
       IF next = Resync
       THEN /\ sock' = Dropped({c \in Clients : On(c, r)})
            /\ UNCHANGED <<out, opened, load, shows>>
       ELSE DeliverEnvelope(next, r)
  /\ UNCHANGED <<state, task, lost, hub, listening, gap, faults>>

ListenerLost(r) ==
  /\ Running(r) /\ listening[r]
  /\ Fault
  /\ listening' = [listening EXCEPT ![r] = FALSE]
  /\ UNCHANGED <<state, task, lost, hub, inbox, client, gap>>

\* pq reconnects the listener and then sends nil.
ListenerBack(r) ==
  /\ Running(r) /\ ~listening[r]
  /\ listening' = [listening EXCEPT ![r] = TRUE]
  /\ inbox' = [inbox EXCEPT ![r] = Append(@, Resync)]
  /\ UNCHANGED <<state, task, lost, hub, client, gap, faults>>

\* Shutdown: refuse new sockets, then close the open ones.
Shutdown(r) ==
  /\ \/ /\ hub[r] = "open"
        /\ Fault
        /\ hub' = [hub EXCEPT ![r] = "closing"]
        /\ UNCHANGED sock
     \/ /\ hub[r] = "closing"
        /\ hub' = [hub EXCEPT ![r] = "dropped"]
        /\ sock' = Dropped({c \in Clients : On(c, r)})
        /\ UNCHANGED faults
  /\ UNCHANGED <<state, task, lost, listening, inbox, out, opened, load,
                 shows, gap>>

\* The process ends, at the deadline or at once: its requests and sockets
\* with it.
Exit(r) ==
  LET cut == {t \in Tasks : task[t] # Idle /\ task[t].on = r}
  IN /\ Running(r)
     /\ IF hub[r] = "dropped" THEN UNCHANGED faults ELSE Fault
     /\ hub' = [hub EXCEPT ![r] = "gone"]
     /\ inbox' = [inbox EXCEPT ![r] = <<>>]
     /\ task' = [t \in Tasks |-> IF t \in cut THEN Idle ELSE task[t]]
     /\ lost' = lost \cup {[topic |-> task[t].topic, n |-> task[t].n] : t \in cut}
     /\ sock' = [c \in Clients |-> IF On(c, r) THEN Away ELSE sock[c]]
     /\ out' = [c \in Clients |-> IF On(c, r) THEN <<>> ELSE out[c]]
     /\ UNCHANGED <<state, listening, opened, load, shows, gap>>

Start(r) ==
  /\ hub[r] = "gone"
  /\ hub' = [hub EXCEPT ![r] = "open"]
  /\ listening' = [listening EXCEPT ![r] = TRUE]
  /\ UNCHANGED <<state, task, lost, inbox, client, gap, faults>>

-----------------------------------------------------------------------------
(* Sockets *)

\* What the handler has read before it upgrades the request.
ReadFirst(c) == IF c \in Watchers THEN state["enrollment"] ELSE 0

\* Mutant: the page takes the history for current when its socket reopens.
UpgradeOnly(c, r) ==
  /\ sock[c] = Away /\ Running(r)
  /\ sock' = [sock EXCEPT ![c] =
       [at |-> "upgraded", on |-> r, read |-> ReadFirst(c)]]
  /\ IF c \in Pages THEN opened' = [opened EXCEPT ![c] = TRUE]
     ELSE UNCHANGED opened
  /\ UNCHANGED <<state, task, lost, hub, listening, inbox, out, load, shows,
                 gap, faults>>

\* connectSocket, when the socket opens: a page that was connected before asks
\* for its history again.
Opens(c) ==
  IF c \in Pages
  THEN /\ opened' = [opened EXCEPT ![c] = TRUE]
       /\ load' = [load EXCEPT ![c] = IF opened[c] THEN Asked ELSE @]
  ELSE UNCHANGED <<opened, load>>

\* DeviceEvents and WaitingForApprovalWS up to the upgrade, which opens the
\* client's socket; the watcher's handler has read the enrollment.
Upgrade(c, r) ==
  /\ sock[c] = Away /\ Running(r)
  /\ sock' = [sock EXCEPT ![c] =
       [at |-> "upgraded", on |-> r, read |-> ReadFirst(c)]]
  /\ Opens(c)
  /\ UNCHANGED <<state, task, lost, hub, listening, inbox, out, shows, gap,
                 faults>>

\* Mutant: a hub that shuts down takes new sockets.
AddUnchecked(c) ==
  /\ sock[c].at = "upgraded"
  /\ sock' = [sock EXCEPT ![c].at = "added"]
  /\ UNCHANGED <<state, task, lost, hub, listening, inbox, out, opened, load,
                 shows, gap, faults>>

\* Add: a hub that shuts down takes the socket no more, and nothing closes it
\* before the process ends.
Add(c) ==
  /\ sock[c].at = "upgraded"
  /\ sock' = [sock EXCEPT ![c].at =
       IF hub[sock[c].on] = "open" THEN "added" ELSE "ghost"]
  /\ UNCHANGED <<state, task, lost, hub, listening, inbox, out, opened, load,
                 shows, gap, faults>>

\* WriteJSON of the snapshot that WaitingForApprovalWS has read.
WriteSnapshot(c) ==
  /\ c \in Watchers
  /\ sock[c].at = "added"
  /\ IF Len(out[c]) < SendBuffer
     THEN /\ out' = [out EXCEPT ![c] = Append(@, sock[c].read)]
          /\ sock' = [sock EXCEPT ![c].at = "served", ![c].read = 0]
     ELSE /\ sock' = [sock EXCEPT ![c].at = "closed"]
          /\ UNCHANGED out
  /\ UNCHANGED <<state, task, lost, hub, listening, inbox, opened, load, shows,
                 gap, faults>>

\* The client's handler of a message: a page that shows sent transfers asks
\* for its history again, a watcher shows what the message says.
Hear(c, n) ==
  IF c \in Pages
  THEN load' = [load EXCEPT ![c] = Asked] /\ UNCHANGED shows
  ELSE shows' = [shows EXCEPT ![c] = n] /\ UNCHANGED load

\* serve writes the next message.
Serve(c) ==
  /\ out[c] # <<>>
  /\ out' = [out EXCEPT ![c] = Tail(@)]
  /\ Hear(c, Head(out[c]))
  /\ UNCHANGED <<state, task, lost, hub, listening, inbox, sock, opened, gap,
                 faults>>

\* The socket is closed by the server, or by the network.
Close(c) ==
  /\ \/ sock[c].at = "closed" /\ UNCHANGED faults
     \/ Joined(c) /\ Fault
  /\ sock' = [sock EXCEPT ![c] = Away]
  /\ out' = [out EXCEPT ![c] = <<>>]
  /\ UNCHANGED <<state, task, lost, hub, listening, inbox, opened, load, shows,
                 gap>>

\* The history is read; loadHistory drops the answer of a request that a later
\* one has replaced.
ListTransfers(p) ==
  /\ load[p] = Asked
  /\ load' = [load EXCEPT ![p] = [at |-> "answered", n |-> state["sent"]]]
  /\ UNCHANGED <<state, task, lost, hub, listening, inbox, sock, out, opened,
                 shows, gap, faults>>

LoadHistory(p) ==
  /\ load[p].at = "answered"
  /\ shows' = [shows EXCEPT ![p] = load[p].n]
  /\ load' = [load EXCEPT ![p] = Quiet]
  /\ UNCHANGED <<state, task, lost, hub, listening, inbox, sock, out, opened,
                 gap, faults>>

-----------------------------------------------------------------------------
ReplicaStep(r) == \/ Listen(r) \/ ListenerLost(r) \/ ListenerBack(r)
                  \/ Shutdown(r) \/ Exit(r) \/ Start(r)
TaskStep(t) == GatherEnrollmentEventData(t) \/ Publish(t)
SocketStep(c) == Add(c) \/ WriteSnapshot(c) \/ Serve(c) \/ Close(c)
PageStep(p) == ListTransfers(p) \/ LoadHistory(p)

Next ==
  \/ \E t \in Tasks, r \in Replicas, topic \in Topics : Change(t, r, topic)
  \/ \E t \in Tasks : TaskStep(t)
  \/ \E r \in Replicas : ReplicaStep(r)
  \/ \E c \in Clients : SocketStep(c) \/ \E r \in Replicas : Upgrade(c, r)
  \/ \E p \in Pages : PageStep(p)

Spec == Init /\ [][Next]_vars

\* What is under way goes on, a listener reconnects, a replica that has shut
\* down exits and is replaced, and pages reconnect. Nobody has to change
\* anything, a watcher need not come back, and nothing has to fail.
Fairness ==
  /\ \A t \in Tasks : WF_vars(TaskStep(t))
  /\ \A r \in Replicas :
       /\ WF_vars(Listen(r))
       /\ WF_vars(ListenerBack(r))
       /\ WF_vars(hub[r] = "closing" /\ Shutdown(r))
       /\ WF_vars(hub[r] = "dropped" /\ Exit(r))
       /\ WF_vars(Start(r))
  /\ \A c \in Clients :
       /\ WF_vars(Add(c)) /\ WF_vars(WriteSnapshot(c)) /\ WF_vars(Serve(c))
       /\ WF_vars(sock[c].at = "closed" /\ Close(c))
  /\ \A p \in Pages : WF_vars(\E r \in Replicas : Upgrade(p, r))
                      /\ WF_vars(ListTransfers(p)) /\ WF_vars(LoadHistory(p))

FairSpec == Spec /\ Fairness

-----------------------------------------------------------------------------
(* Properties *)

\* The client can count on hearing of change n: its event was not lost, and
\* the client was not just connecting when it was made.
Owed(c, n) ==
  /\ n <= state[Topic(c)]
  /\ n \notin gap[c]
  /\ [topic |-> Topic(c), n |-> n] \notin lost

\* The notification will make the client see change n, or reconnect.
Tells(e, c, n) == e = Resync \/ (e.topic = Topic(c) /\ e.n >= n)

OnTheWay(c, n) ==
  LET r == sock[c].on
  IN \/ \E t \in Tasks : task[t] # Idle /\ task[t].topic = Topic(c)
                                        /\ task[t].n >= n
     \/ ~listening[r]
     \/ \E i \in DOMAIN inbox[r] : Tells(inbox[r][i], c, n)
     \/ \E i \in DOMAIN out[c] : out[c][i] >= n
     \/ c \in Pages /\ load[c] = Asked
     \/ c \in Pages /\ load[c].at = "answered" /\ load[c].n >= n

\* While its socket is held by a hub, a client that does not show a change yet
\* is still going to be told: no interleaving of publishers, listeners that
\* reconnect and full queues loses an event unnoticed, but for the changes that
\* Owed leaves out: a snapshot read before the change is one of those. "events sent
\* while it was away are lost, so the hub's sockets are then closed and their
\* clients reload on reconnecting" (realtime/listener.go).
NothingMissed ==
  \A c \in Clients :
    (IF c \in Pages THEN Joined(c) ELSE sock[c].at = "served") =>
      \A n \in Versions :
        Owed(c, n) /\ shows[c] < n => OnTheWay(c, n)

\* A replica that has closed its sockets to shut down serves none and takes none
\* on, and a socket that no hub serves is held by no replica but one that goes
\* away: "shutdown refuses new sockets and closes the open ones" (realtime/
\* hub.go). Such a ghost is not closed at all, see ShutdownTellsAll.
ShutdownLeavesNone ==
  \A r \in Replicas, c \in Clients : On(c, r) =>
    /\ hub[r] = "dropped" => ~Joined(c)
    /\ sock[c].at = "ghost" => hub[r] \in {"closing", "dropped"}

\* What the comment of Shutdown goes on to say, "telling clients to reconnect
\* elsewhere right away", and Hub.Add does not give: closeWith only tells the
\* goroutine that serves a socket, and a refused one has none, so that it hears
\* nothing before the process ends.
ShutdownTellsAll ==
  \A r \in Replicas, c \in Clients :
    hub[r] = "dropped" /\ On(c, r) => sock[c].at \in {"upgraded", "closed"}

\* A page comes to show every change of a sent transfer that it could count on
\* hearing of, whatever happens to sockets, listeners and replicas meanwhile:
\* "sent transfers answered while the socket was down: let an open transfers
\* page reload its history" (web/static/js/account-menu.js).
CatchesUp ==
  \A p \in Pages : \A n \in Versions :
    state["sent"] >= n /\ sock[p] # Shut ~>
      \/ shows[p] >= n
      \/ n \in gap[p] \/ [topic |-> "sent", n |-> n] \in lost

\* What WaitingForApprovalWS is for, and what its order of read, Add and
\* snapshot does not give: a device whose socket is served comes to know that
\* its enrollment was decided. It holds only for what Owed leaves out.
WatchersHear ==
  \A c \in Watchers : \A n \in Versions :
    sock[c].at = "served" /\ n <= state["enrollment"] /\ shows[c] < n
      /\ [topic |-> "enrollment", n |-> n] \notin lost
      => OnTheWay(c, n)

-----------------------------------------------------------------------------
(* What NothingMissed and ShutdownLeavesNone rest on: the parts of an       *)
(* inductive invariant.                                                     *)

\* A process that has ended holds no socket.
HeldByRunning == \A c \in Clients, r \in Replicas : On(c, r) => Running(r)

\* What requests and notifications tell has been committed. Only the requests
\* about an enrollment gather anything.
EventsCommitted ==
  /\ \A t \in Tasks : task[t] # Idle =>
       /\ task[t].n \in 1 .. state[task[t].topic]
       /\ task[t].at = "gather" => task[t].topic = "enrollment"
  /\ \A r \in Replicas : \A i \in DOMAIN inbox[r] :
       inbox[r][i] # Resync => inbox[r][i].n \in 1 .. state[inbox[r][i].topic]

\* So has what a client shows, or is about to, and that is not older than what a
\* page shows. A socket that is not in a hub yet has nothing in its queue.
ShowsCommitted(c) ==
  /\ shows[c] <= state[Topic(c)]
  /\ \A i \in DOMAIN out[c] : out[c][i] <= state[Topic(c)]
  /\ sock[c].at \in {"shut", "away", "upgraded", "ghost"} => out[c] = <<>>
  /\ c \in Watchers /\ sock[c] \in Conn => sock[c].read <= state["enrollment"]
  /\ c \in Pages /\ load[c].at = "answered" =>
       shows[c] <= load[c].n /\ load[c].n <= state["sent"]

\* The page's request will show it change n.
Reloads(p, n) ==
  load[p] = Asked \/ (load[p].at = "answered" /\ load[p].n >= n)

\* OnTheWay, without what the request of a later change would tell the client
\* besides: that change's event may be lost, and then n is still owed.
Told(c, n) ==
  LET r == sock[c].on
  IN \/ \E t \in Tasks : task[t] # Idle /\ task[t].topic = Topic(c)
                                        /\ task[t].n = n
     \/ ~listening[r]
     \/ \E i \in DOMAIN inbox[r] : Tells(inbox[r][i], c, n)
     \/ \E i \in DOMAIN out[c] : out[c][i] >= n
     \/ c \in Pages /\ Reloads(c, n)

\* A page that never had a socket is owed nothing. One that reopens its socket
\* reloads what it may have missed, and is told of what comes later.
PageKnows(p) ==
  IF opened[p]
    THEN \A n \in Versions : Owed(p, n) /\ shows[p] < n =>
           /\ sock[p].at = "upgraded" => Reloads(p, n)
           /\ Joined(p) => Told(p, n)
    ELSE /\ sock[p] \in {Shut, Away}
         /\ sock[p] = Away => 1 .. state["sent"] \subseteq gap[p]

\* Before its snapshot a watcher is owed no more than the snapshot says. Then it
\* is told, and no older message is queued behind one that tells it.
WatcherKnows(c) ==
  /\ sock[c].at = "added" => \A i \in DOMAIN out[c] : out[c][i] >= 1
  /\ \A n \in Versions : Owed(c, n) =>
       /\ sock[c].at \in {"upgraded", "added"} => sock[c].read >= n
       /\ sock[c].at = "served" =>
            /\ shows[c] < n => Told(c, n)
            /\ \A i \in DOMAIN out[c] : out[c][i] < n =>
                 shows[c] < n /\ \A j \in 1 .. i : out[c][j] < n

ClientKnows(c) ==
  /\ ShowsCommitted(c)
  /\ c \in Pages => PageKnows(c)
  /\ c \in Watchers => WatcherKnows(c)

RealtimeInv ==
  /\ TypeOK
  /\ HeldByRunning
  /\ EventsCommitted
  /\ \A c \in Clients : ClientKnows(c)
  /\ ShutdownLeavesNone
=============================================================================
