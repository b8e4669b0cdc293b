------------------------------ MODULE Sockets ------------------------------
(***************************************************************************)
(* The WebSocket side of one Gateway process (server/ws.ts): the registry  *)
(* agentSockets (agent -> Set of sockets), its cap, the close events that  *)
(* arrive late, the ping timer that reaps dead peers, and the message      *)
(* budget each agent keeps across reconnects.                              *)
(*                                                                         *)
(* A Set is an object: a socket's 'close' handler captures the Set it was  *)
(* added to, which may no longer be the one in the map.  Sets are numbered *)
(* in the order they are created; 0 is "no entry".                         *)
(***************************************************************************)
EXTENDS Integers, Sequences, FiniteSets, Listener

CONSTANTS
  Agents,
  SocketIds,         \* the connections of a behaviour
  MaxAgentSockets,   \* MAX_AGENT_SOCKETS
  BucketCapacity,    \* WS_MESSAGE_BUCKET_CAPACITY
  MaxRefills         \* bound: tokens refilled in a behaviour

ASSUME SocketsAssumption == /\ Agents # {}
                            /\ MaxAgentSockets \in Nat \ {0}
                            /\ BucketCapacity \in Nat

VARIABLES
  socket,      \* each connection, see Socket
  sets,        \* the Sets ever created, each a sequence in insertion order
  registry,    \* agentSockets: the number of each agent's Set, or 0
  bucket,      \* wsMessageBucketsByAgentId: tokens left, or -1 if no entry
  refills,     \* tokens' worth of time that has passed, per agent
  handled      \* messages let through to handleAgentMessage, per agent

socketVars == <<socket, sets, registry, bucket, refills, handled>>

Socket == [agent : Agents,
           secret: Nat,         \* the credential validateAgent accepted
           state : {"none", "open", "closing", "closed"},
           set   : Nat,         \* the Set its close handler captured
           alive : BOOLEAN,     \* isAlive
           peer  : BOOLEAN]     \* the agent's end still answers

SocketTypeOK ==
  /\ ListenerTypeOK
  /\ socket \in [SocketIds -> Socket]
  /\ registry \in [Agents -> 0..Len(sets)]
  /\ \A i \in 1..Len(sets) : sets[i] \in Seq(SocketIds)
  /\ bucket \in [Agents -> -1..BucketCapacity]
  /\ {refills[a] : a \in Agents} \union {handled[a] : a \in Agents} \subseteq Nat

SocketInit ==
  /\ ListenerInit
  /\ socket = [s \in SocketIds |->
       [agent |-> CHOOSE a \in Agents : TRUE, secret |-> 0, state |-> "none",
        set |-> 0, alive |-> FALSE, peer |-> FALSE]]
  /\ sets = <<>>
  /\ registry = [a \in Agents |-> 0]
  /\ bucket = [a \in Agents |-> -1]
  /\ refills = [a \in Agents |-> 0]
  /\ handled = [a \in Agents |-> 0]

Members(k) == IF k = 0 THEN <<>> ELSE sets[k]
InSeq(q) == {q[i] : i \in 1..Len(q)}

(* Set.delete: a Set holds x once at most.                                 *)
Without(q, x) ==
  IF x \notin InSeq(q) THEN q
  ELSE LET i == CHOOSE i \in 1..Len(q) : q[i] = x
       IN  SubSeq(q, 1, i-1) \o SubSeq(q, i+1, Len(q))

Open(s) == socket[s].state = "open"

(* getAgentWsCount / hasOpenAgentSocket: what the map's Set holds.         *)
HasOpenSocket(a) == \E s \in InSeq(Members(registry[a])) : Open(s)

(* Sockets whose close has been asked for; their 'close' is still to come. *)
Terminated(S) == [s \in SocketIds |->
  IF s \in S /\ Open(s) THEN [socket[s] EXCEPT !.state = "closing"] ELSE socket[s]]

(* trackAgentSocket, called by handleUpgrade once validateAgent accepted   *)
(* the secret: the oldest member goes when the Set is full (it never holds *)
(* more than the cap, so one eviction is enough), then the socket is added;*)
(* the agent's message bucket is left as it is.                            *)
TrackWith(s, a, secret, tokens) ==
  LET fresh   == registry[a] = 0
      k       == IF fresh THEN Len(sets) + 1 ELSE registry[a]
      q       == Members(registry[a])
      victims == IF Len(q) >= MaxAgentSockets THEN {Head(q)} ELSE {}
      kept    == IF victims = {} THEN q ELSE Tail(q)
  IN /\ socket[s].state = "none"
     /\ socket' = [Terminated(victims) EXCEPT ![s] =
          [agent |-> a, secret |-> secret, state |-> "open", set |-> k,
           alive |-> TRUE, peer |-> TRUE]]
     /\ sets' = IF fresh THEN Append(sets, <<s>>) ELSE [sets EXCEPT ![k] = Append(kept, s)]
     /\ registry' = [registry EXCEPT ![a] = k]
     /\ bucket' = [bucket EXCEPT ![a] = tokens]
     /\ UNCHANGED <<refills, handled, listenerVars>>

(* Slip: every connection starts with a bucket of its own.                 *)
TrackNewBucket(s, a, secret) == TrackWith(s, a, secret, BucketCapacity)

Track(s, a, secret) == TrackWith(s, a, secret, bucket[a])

(* Slip: the close handler drops the agent's entry whenever its own Set is *)
(* empty, without checking that the map still holds that Set.              *)
CloseEventNoIdentity(s) ==
  LET a == socket[s].agent
      rest == Without(sets[socket[s].set], s)
  IN /\ socket[s].state = "closing"
     /\ socket' = [socket EXCEPT ![s].state = "closed"]
     /\ sets' = [sets EXCEPT ![socket[s].set] = rest]
     /\ registry' = IF rest = <<>> THEN [registry EXCEPT ![a] = 0] ELSE registry
     /\ UNCHANGED <<bucket, refills, handled, listenerVars>>

(* 'close': the socket leaves the Set it was added to; the map's entry     *)
(* goes with an empty Set only if it still is that Set.                    *)
CloseEvent(s) ==
  LET a == socket[s].agent
      rest == Without(sets[socket[s].set], s)
  IN /\ socket[s].state = "closing"
     /\ socket' = [socket EXCEPT ![s].state = "closed"]
     /\ sets' = [sets EXCEPT ![socket[s].set] = rest]
     /\ registry' = IF rest = <<>> /\ registry[a] = socket[s].set
                      THEN [registry EXCEPT ![a] = 0] ELSE registry
     /\ UNCHANGED <<bucket, refills, handled, listenerVars>>

(* The agent closes, or the connection errors and the handler closes it.   *)
PeerCloses(s) ==
  /\ Open(s)
  /\ socket' = [socket EXCEPT ![s].state = "closing"]
  /\ UNCHANGED <<sets, registry, bucket, refills, handled, listenerVars>>

(* The agent's machine goes away without closing.                          *)
PeerVanishes(s) ==
  /\ Open(s) /\ socket[s].peer
  /\ socket' = [socket EXCEPT ![s].peer = FALSE]
  /\ UNCHANGED <<sets, registry, bucket, refills, handled, listenerVars>>

(* closeAgentSockets: every member of the agent's Set is closed; the Set   *)
(* itself is left to the close events.                                     *)
ClosedFor(a) == Terminated(InSeq(Members(registry[a])))

(* Slip: the ping timer terminates the dead but never lowers isAlive.      *)
PingSweepForgetful ==
  /\ \E s \in SocketIds : Open(s)
  /\ socket' = [s \in SocketIds |->
       IF Open(s) /\ ~socket[s].alive THEN [socket[s] EXCEPT !.state = "closing"]
       ELSE socket[s]]
  /\ UNCHANGED <<sets, registry, bucket, refills, handled, listenerVars>>

(* The 30 s timer: a client that did not answer the last ping is           *)
(* terminated, the others are marked and pinged.                           *)
PingSweep ==
  /\ \E s \in SocketIds : Open(s)
  /\ socket' = [s \in SocketIds |->
       IF ~Open(s) THEN socket[s]
       ELSE IF socket[s].alive THEN [socket[s] EXCEPT !.alive = FALSE]
       ELSE [socket[s] EXCEPT !.state = "closing"]]
  /\ UNCHANGED <<sets, registry, bucket, refills, handled, listenerVars>>

Pong(s) ==
  /\ Open(s) /\ socket[s].peer /\ ~socket[s].alive
  /\ socket' = [socket EXCEPT ![s].alive = TRUE]
  /\ UNCHANGED <<sets, registry, bucket, refills, handled, listenerVars>>

(* A message arrives: it proves the peer alive and spends a token of the   *)
(* agent's bucket (created full on first use); with none left the socket   *)
(* is closed (4429) and the message is dropped.                            *)
Message(s) ==
  LET a == socket[s].agent
      tokens == IF bucket[a] = -1 THEN BucketCapacity ELSE bucket[a]
  IN /\ Open(s) /\ socket[s].peer
     /\ IF tokens >= 1
          THEN /\ bucket' = [bucket EXCEPT ![a] = tokens - 1]
               /\ handled' = [handled EXCEPT ![a] = @ + 1]
               /\ socket' = [socket EXCEPT ![s].alive = TRUE]
          ELSE /\ bucket' = [bucket EXCEPT ![a] = tokens]
               /\ socket' = [socket EXCEPT ![s].alive = TRUE, ![s].state = "closing"]
               /\ UNCHANGED handled
     /\ UNCHANGED <<sets, registry, refills, listenerVars>>

(* Slip: the refill is not capped.                                         *)
RefillUncapped(a) ==
  /\ refills[a] < MaxRefills
  /\ refills' = [refills EXCEPT ![a] = @ + 1]
  /\ bucket' = [bucket EXCEPT ![a] = IF @ = -1 THEN @ ELSE @ + 1]
  /\ UNCHANGED <<socket, sets, registry, handled, listenerVars>>

(* Time passes: the bucket (whose refill is computed on the next use)      *)
(* earns a token, up to its capacity.                                      *)
Refill(a) ==
  /\ refills[a] < MaxRefills
  /\ refills' = [refills EXCEPT ![a] = @ + 1]
  /\ bucket' = [bucket EXCEPT ![a] = IF @ \in {-1, BucketCapacity} THEN @ ELSE @ + 1]
  /\ UNCHANGED <<socket, sets, registry, handled, listenerVars>>

(* pruneIdleWsBuckets: an hour without a message refills any bucket long   *)
(* before its entry is dropped.                                            *)
PruneBucket(a) ==
  /\ bucket[a] = BucketCapacity
  /\ bucket' = [bucket EXCEPT ![a] = -1]
  /\ UNCHANGED <<socket, sets, registry, refills, handled, listenerVars>>

(***************************************************************************)
(* Properties                                                              *)
(***************************************************************************)

(* A socket the process still holds open is found by the pushes, the       *)
(* closes and the delete guard that look the agent up, however late the    *)
(* close events of evicted or closed sockets arrive (trackAgentSocket).          *)
OpenSocketIsReachable ==
  \A s \in SocketIds : Open(s) => s \in InSeq(Members(registry[socket[s].agent]))

(* Reconnecting earns no messages: what an agent gets through, over all    *)
(* its connections, is one bucket plus what time refilled (the map keyed   *)
(* by agent and not by socket; its idle pruning).                          *)
BudgetSurvivesReconnect ==
  \A a \in Agents : handled[a] <= BucketCapacity + refills[a]

=============================================================================
