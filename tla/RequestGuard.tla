---------------------------- MODULE RequestGuard ----------------------------
(***************************************************************************)
(* The body guard in front of the Gateway's API (server/request-guard.ts): *)
(* what a request declares as its length is reserved against one budget    *)
(* for the process before its body is read, and given back by whichever of *)
(* four events of the request and its response comes first.                *)
(*                                                                         *)
(* Requests without a body, and those to routes that carry no payload, are *)
(* passed on untouched and left out.  Lengths count in units of 4 MiB.     *)
(***************************************************************************)
EXTENDS Integers, FiniteSetsExt

CONSTANTS Bodies,       \* requests with a body
          MaxLength,    \* MAX_API_BODY_BYTES
          Capacity      \* MAX_CONCURRENT_CHUNKED_BYTES

ASSUME GuardAssumption == IsFiniteSet(Bodies) /\ MaxLength \in Nat /\ Capacity \in Nat

VARIABLES reserved,     \* reservedRequestBytes
          body          \* what became of each request

guardVars == <<reserved, body>>

Lengths == 0 .. MaxLength      \* of the requests that are admitted at all
Listeners == 4                 \* response finish and close, request close and error

Untouched == [state |-> "none", length |-> 0, released |-> FALSE, heard |-> 0]

GuardTypeOK ==
  /\ reserved \in Nat
  /\ body \in [Bodies -> [state : {"none", "refused", "passed", "open"}, length : Lengths,
                          released : BOOLEAN, heard : 0 .. Listeners]]

GuardInit == reserved = 0 /\ body = [r \in Bodies |-> Untouched]

Settles(r, state) == body[r].state = "none" /\ body' = [body EXCEPT ![r].state = state]

(* guardApiRequest.  A request that declares no length, or too much, is    *)
(* answered and destroyed before anything is reserved.                     *)
RefuseUnsized(r) == Settles(r, "refused") /\ UNCHANGED reserved

(* Nothing is reserved for a request without credentials: its route        *)
(* answers it.                                                             *)
PassAnonymous(r) == Settles(r, "passed") /\ UNCHANGED reserved

Fits(length) == reserved + length <= Capacity

RefuseForRoom(r, length) == ~Fits(length) /\ Settles(r, "refused") /\ UNCHANGED reserved

Reserve(r, length) ==
  /\ body[r].state = "none" /\ Fits(length)
  /\ body' = [body EXCEPT ![r].state = "open", ![r].length = length]
  /\ reserved' = reserved + length

(* Slip: the flag is not looked at, each event releases.                   *)
ReleaseEach(r) ==
  /\ body[r].state = "open" /\ body[r].heard < Listeners
  /\ body' = [body EXCEPT ![r].heard = @ + 1, ![r].released = TRUE]
  /\ reserved' = IF reserved > body[r].length THEN reserved - body[r].length ELSE 0

(* One of the four events: releaseOnce looks at its own flag, so the order *)
(* and the number of the events do not matter.                             *)
ReleaseOnce(r) ==
  /\ body[r].state = "open" /\ body[r].heard < Listeners
  /\ body' = [body EXCEPT ![r].heard = @ + 1, ![r].released = TRUE]
  /\ reserved' = IF body[r].released THEN reserved
                 ELSE IF reserved > body[r].length THEN reserved - body[r].length ELSE 0

GuardNext ==
  \E r \in Bodies : \/ RefuseUnsized(r) \/ PassAnonymous(r) \/ ReleaseOnce(r)
                    \/ \E length \in Lengths : RefuseForRoom(r, length) \/ Reserve(r, length)

(* The bodies admitted and not yet done with fit the process's budget, and *)
(* the counter knows exactly their sum: whatever events follow each other, *)
(* none is given back twice (which would admit too much) and none is kept  *)
(* (which would end in answering 503 for ever).                            *)
BodiesFitTheBudget ==
  /\ reserved = MapThenSumSet(LAMBDA r : body[r].length,
                   {r \in Bodies : body[r].state = "open" /\ body[r].heard = 0})
  /\ reserved <= Capacity
=============================================================================
