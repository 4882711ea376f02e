------------------------------ MODULE ScopeHub ------------------------------
(***************************************************************************)
(* The oscilloscope applications connected to the server, and the requests *)
(* sent down their sockets.                                                *)
(*   deviceHub.js   register, unregister, request, handleMessage, close    *)
(*   ws.js          which socket event calls which                         *)
(*                                                                         *)
(* Connections are numbered as they come, so the greatest is the latest.   *)
(* One user's connections are modelled, byUser keeping users apart.  An    *)
(* application that has heard a request may answer it late, twice, or over *)
(* the socket it has opened since; a socket that is closing drops what is  *)
(* sent, and says nothing of it.  An ask is one request of one caller.     *)
(*                                                                         *)
(* The window (Races.tla):                                                 *)
(*   "stale"  a request goes to a connection that has gone since its       *)
(*            caller picked it                                             *)
(***************************************************************************)
EXTENDS Naturals, FiniteSets, Races

CONSTANTS Asks,
          MaxConnections   \* bound: connections ever made

ASSUME HubAssumption == MaxConnections \in Nat

Connections == 1..MaxConnections

VARIABLES socket,   \* of a connection: "none", "open", "closing" or "gone"
          listed,   \* the connections in byUser
          pending,  \* connection.pending: the asks in each connection's map
          timers,   \* the asks whose timer is armed
          sentTo,   \* the connection an ask went to, 0 before
          heard,    \* the asks that have reached the application
          outcome   \* of an ask's promise, as its caller sees it

hubVars == <<socket, listed, pending, timers, sentTo, heard, outcome>>

HubInit == /\ socket = [c \in Connections |-> "none"]
           /\ listed = {}
           /\ pending = [c \in Connections |-> {}]
           /\ timers = {}
           /\ sentTo = [a \in Asks |-> 0]
           /\ heard = {}
           /\ outcome = [a \in Asks |-> "unasked"]

\* Promises are settled, and their timers cleared.
SettleAsks(asks, how) ==
  /\ outcome' = [a \in Asks |-> IF a \in asks THEN how ELSE outcome[a]]
  /\ timers' = timers \ asks

Register(c) ==
  /\ socket[c] = "none" /\ \A b \in 1..(c - 1) : socket[b] # "none"
  /\ socket' = [socket EXCEPT ![c] = "open"]
  /\ listed' = listed \cup {c}
  /\ UNCHANGED <<pending, timers, sentTo, heard, outcome>>

\* (mutant of Unregister: a connection that is not listed any more is let be)
UnregisterListed(c) ==
  /\ socket[c] \in {"open", "closing"}
  /\ socket' = [socket EXCEPT ![c] = "gone"]
  /\ listed' = listed \ {c}
  /\ IF c \in listed
     THEN pending' = [pending EXCEPT ![c] = {}] /\ SettleAsks(pending[c], "failed")
     ELSE UNCHANGED <<pending, timers, outcome>>
  /\ UNCHANGED <<sentTo, heard>>

\* The socket closes, or errors, for whatever reason; a second such event
\* finds the connection gone and does nothing.
Unregister(c) ==
  /\ socket[c] \in {"open", "closing"}
  /\ socket' = [socket EXCEPT ![c] = "gone"]
  /\ listed' = listed \ {c}
  /\ pending' = [pending EXCEPT ![c] = {}]
  /\ SettleAsks(pending[c], "failed")
  /\ UNCHANGED <<sentTo, heard>>

\* closeToken, and closeAll when the server stops: sockets are told to close,
\* and closeAll forgets the connections at once.
CloseSockets(cs, forget) ==
  /\ \E c \in cs : socket[c] = "open"
  /\ socket' = [c \in Connections |->
                  IF c \in cs /\ socket[c] = "open" THEN "closing" ELSE socket[c]]
  /\ listed' = IF forget THEN {} ELSE listed
  /\ UNCHANGED <<pending, timers, sentTo, heard, outcome>>

\* pick: the connection named, or the most recent.
Picked(c, named) == c \in listed /\ (named \/ \A b \in listed : b <= c)

\* request: what an open socket is given may still be lost with it.
SendRequest(a, c, arrives) ==
  /\ outcome[a] = "unasked"
  /\ pending' = [pending EXCEPT ![c] = @ \cup {a}]
  /\ timers' = timers \cup {a}
  /\ outcome' = [outcome EXCEPT ![a] = "waiting"]
  /\ sentTo' = [sentTo EXCEPT ![a] = c]
  /\ heard' = IF arrives /\ socket[c] = "open" THEN heard \cup {a} ELSE heard
  /\ UNCHANGED <<socket, listed>>

\* request, when sending throws: nothing is left behind.
SendThrows(a, c) ==
  /\ outcome[a] = "unasked"
  /\ outcome' = [outcome EXCEPT ![a] = "failed"]
  /\ sentTo' = [sentTo EXCEPT ![a] = c]
  /\ UNCHANGED <<socket, listed, pending, timers, heard>>

\* handleMessage of an answer: only an ask that waits on this connection is
\* settled by it, what comes late or over another socket is dropped.
HandleMessage(a, c, how) ==
  /\ a \in heard /\ socket[c] \in {"open", "closing"}
  /\ a \in pending[c]
  /\ pending' = [pending EXCEPT ![c] = @ \ {a}]
  /\ SettleAsks({a}, how)
  /\ UNCHANGED <<socket, listed, sentTo, heard>>

\* The timer of request.
RequestTimeOut(a) ==
  /\ a \in timers
  /\ pending' = [pending EXCEPT ![sentTo[a]] = @ \ {a}]
  /\ SettleAsks({a}, "failed")
  /\ UNCHANGED <<socket, listed, sentTo, heard>>

HubNext == \/ \E c \in Connections : Register(c) \/ Unregister(c)
           \/ \E cs \in SUBSET listed : CloseSockets(cs, FALSE)
           \/ CloseSockets(listed, TRUE)
           \/ \E a \in Asks : RequestTimeOut(a)
           \/ \E a \in Asks, c \in Connections, how \in {"answered", "failed"} :
                HandleMessage(a, c, how)

-----------------------------------------------------------------------------
(* Properties. *)

HubTypeOK ==
  /\ socket \in [Connections -> {"none", "open", "closing", "gone"}]
  /\ listed \subseteq {c \in Connections : socket[c] \in {"open", "closing"}}
  /\ pending \in [Connections -> SUBSET Asks]
  /\ timers \subseteq Asks /\ heard \subseteq Asks
  /\ sentTo \in [Asks -> 0..MaxConnections]
  /\ outcome \in [Asks -> {"unasked", "waiting", "answered", "failed"}]

\* "matches replies to requests by id": through late and repeated answers,
\* sockets that close under their requests and sockets that replace them, a
\* caller that waits is in the map of its own connection, with a timer that
\* will end its wait, and nobody else is in a map or on a timer.  And "anything
\* still waiting on this device will never be answered" (unregister): nobody
\* waits for a connection that has gone, but who asked it after it went.
EveryWaitEnds ==
  \A a \in Asks :
    /\ outcome[a] = "waiting" <=> a \in timers
    /\ \A c \in Connections :
         a \in pending[c] <=> outcome[a] = "waiting" /\ sentTo[a] = c
    /\ outcome[a] = "waiting" /\ Spared({"stale"}) =>
         socket[sentTo[a]] \in {"open", "closing"}
=============================================================================
