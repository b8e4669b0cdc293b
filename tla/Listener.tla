------------------------------ MODULE Listener ------------------------------
(***************************************************************************)
(* The PostgreSQL notification listener of one Gateway process             *)
(* (startJobNotificationListener in server/ws.ts): a client borrowed from  *)
(* the pool LISTENs for the other instances' jobs and session closes; when *)
(* it breaks, another is borrowed after a delay; when the WebSocket server *)
(* closes, the stop function gives the client back.                        *)
(*                                                                         *)
(* Every await of connect() is a step boundary, so the events of an old    *)
(* client ('error', then 'end') may arrive while a new one is being set    *)
(* up, and the server may close in the middle of anything.                 *)
(***************************************************************************)
EXTENDS Integers, FiniteSets

CONSTANTS
  Clients,       \* pool clients the listener can borrow, one per connection
  NoClient

ASSUME ListenerAssumption == NoClient \notin Clients

VARIABLES
  held,          \* clients checked out of the pool and not released
  broken,        \* client -> how many of its 'error'/'end' events have fired
  activeClient,  \* the adopted client
  setup,         \* the client connect() is LISTENing on, before adoption
  connecting,    \* "no", "pool" (awaiting pool.connect) or "listen"
  reconnectTimer,
  stopped,
  stopKnown,     \* startJobNotificationListener() has resolved: ws.ts holds stop
  wssClosed      \* the WebSocketServer emitted 'close'

listenerVars == <<held, broken, activeClient, setup, connecting,
                  reconnectTimer, stopped, stopKnown, wssClosed>>

ListenerTypeOK ==
  /\ held \subseteq Clients
  /\ broken \in [Clients -> 0..2]
  /\ {activeClient, setup} \subseteq Clients \union {NoClient}
  /\ connecting \in {"no", "pool", "listen"}
  /\ {reconnectTimer, stopped, stopKnown, wssClosed} \subseteq BOOLEAN

(* attachAgentWSS starts the listener: connect() runs up to pool.connect.  *)
ListenerInit ==
  /\ held = {}
  /\ broken = [c \in Clients |-> 0]
  /\ activeClient = NoClient
  /\ setup = NoClient
  /\ connecting = "pool"
  /\ reconnectTimer = FALSE
  /\ stopped = FALSE
  /\ stopKnown = FALSE
  /\ wssClosed = FALSE

(* scheduleReconnect: at most one timer, none once stopped.                *)
ScheduleReconnect == reconnectTimer' = (reconnectTimer \/ ~stopped)

(* connect() returns: the first return also resolves the caller's promise. *)
ConnectReturns == connecting' = "no" /\ setup' = NoClient /\ stopKnown' = TRUE

(* A name is used again for a new connection once its old one's events are *)
(* all behind.                                                             *)
Unused == {c \in Clients : c \notin held /\ broken[c] # 1}

(* The reconnect delay elapses.                                            *)
Reconnect ==
  /\ reconnectTimer
  /\ reconnectTimer' = FALSE
  /\ connecting' = IF stopped \/ activeClient # NoClient THEN connecting ELSE "pool"
  /\ UNCHANGED <<held, broken, activeClient, setup, stopped, stopKnown, wssClosed>>

(* pool.connect resolves: a listener stopped meanwhile gives it back.      *)
PoolConnects(c) ==
  /\ connecting = "pool"
  /\ c \in Unused
  /\ IF stopped
       THEN ConnectReturns /\ UNCHANGED held
       ELSE /\ connecting' = "listen"
            /\ setup' = c
            /\ held' = held \union {c}
            /\ UNCHANGED stopKnown
  /\ broken' = [broken EXCEPT ![c] = 0]
  /\ UNCHANGED <<activeClient, reconnectTimer, stopped, wssClosed>>

PoolFails ==
  /\ connecting = "pool"
  /\ ScheduleReconnect
  /\ ConnectReturns
  /\ UNCHANGED <<held, broken, activeClient, stopped, wssClosed>>

(* Both LISTENs succeeded: the client is adopted, or returned if the       *)
(* listener was stopped in between.                                        *)
Adopt ==
  /\ connecting = "listen"
  /\ broken[setup] = 0
  /\ IF stopped
       THEN held' = held \ {setup} /\ UNCHANGED activeClient
       ELSE activeClient' = setup /\ UNCHANGED held
  /\ ConnectReturns
  /\ UNCHANGED <<broken, reconnectTimer, stopped, wssClosed>>

(* Slip: the catch block releases the client and returns: nobody           *)
(* reconnects.                                                             *)
ListenFailsQuietly ==
  /\ connecting = "listen"
  /\ held' = held \ {setup}
  /\ broken' = [broken EXCEPT ![setup] = IF @ = 0 THEN 1 ELSE @]
  /\ UNCHANGED reconnectTimer
  /\ ConnectReturns
  /\ UNCHANGED <<activeClient, stopped, wssClosed>>

(* A LISTEN fails, on its own or because the client broke: the client is   *)
(* destroyed (release(true); its 'end' is still to come) and a reconnect   *)
(* is scheduled.                                                           *)
ListenFails ==
  /\ connecting = "listen"
  /\ held' = held \ {setup}
  /\ broken' = [broken EXCEPT ![setup] = IF @ = 0 THEN 1 ELSE @]
  /\ ScheduleReconnect
  /\ ConnectReturns
  /\ UNCHANGED <<activeClient, stopped, wssClosed>>

(* Slip: disconnect() does not check which client the event came from.     *)
ClientEventAnyClient(c) ==
  /\ broken[c] < 2
  /\ c \in held \/ broken[c] = 1
  /\ broken' = [broken EXCEPT ![c] = @ + 1]
  /\ activeClient' = NoClient
  /\ held' = held \ {c}
  /\ ScheduleReconnect
  /\ UNCHANGED <<setup, connecting, stopped, stopKnown, wssClosed>>

(* A borrowed client emits 'error', and later 'end': disconnect() acts     *)
(* only on the adopted client, so an event during set-up is left to the    *)
(* LISTEN that fails with it, and a second event finds nothing to do.      *)
ClientEvent(c) ==
  /\ broken[c] < 2
  /\ c \in held \/ broken[c] = 1
  /\ broken' = [broken EXCEPT ![c] = @ + 1]
  /\ IF activeClient = c
       THEN /\ activeClient' = NoClient
            /\ held' = held \ {c}
            /\ ScheduleReconnect
       ELSE UNCHANGED <<activeClient, held, reconnectTimer>>
  /\ UNCHANGED <<setup, connecting, stopped, stopKnown, wssClosed>>

(* wss 'close': stop() is called if the listener's promise has resolved.   *)
WssClose ==
  /\ ~wssClosed
  /\ wssClosed' = TRUE
  /\ IF stopKnown
       THEN /\ stopped' = TRUE
            /\ reconnectTimer' = FALSE
            /\ held' = held \ {activeClient}
            /\ activeClient' = NoClient
       ELSE UNCHANGED <<stopped, reconnectTimer, held, activeClient>>
  /\ UNCHANGED <<broken, setup, connecting, stopKnown>>

ListenerNext ==
  \/ \E c \in Clients : PoolConnects(c) \/ ClientEvent(c)
  \/ PoolFails \/ Adopt \/ ListenFails \/ Reconnect \/ WssClose

Listening == activeClient # NoClient

(* No pool slot leaks: every client checked out is the adopted one or the  *)
(* one connect() is still setting up, whatever events of earlier clients   *)
(* arrive late and wherever set-up or shutdown is interrupted (the         *)
(* release(true) of the catch block, the identity test of disconnect).     *)
NoLeakedClient == held \subseteq {activeClient, setup}

=============================================================================
