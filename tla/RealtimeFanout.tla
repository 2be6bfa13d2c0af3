--------------------------- MODULE RealtimeFanout ---------------------------
(***************************************************************************)
(* Fan-out of the readings: realtime/manager.py (the registry and its         *)
(* broadcast), api/routes/ws.py (one handler per connection) and the          *)
(* generator tick that calls them, in one event loop.                         *)
(*                                                                          *)
(* broadcast() suspends in every send_json(), so handlers come and go while   *)
(* it walks its copy of the registry.  A connection is a slot of Clients; a    *)
(* slot is used again once nothing refers to its old WebSocket any more.      *)
(* Readings are numbered modulo MaxNumber: enough to see one that is missing. *)
(* The network and the peer (link) are external.                              *)
(*                                                                          *)
(* Definitions named X_mutant are broken variants of X that no specification  *)
(* uses; they show that the properties can fail.                              *)
(***************************************************************************)
EXTENDS Naturals, Sequences, FiniteSets, SequencesExt

CONSTANTS
  Clients,      \* connection slots
  MaxNumber     \* bound: readings are numbered 1 .. MaxNumber, cyclically

ASSUME ClientsAssumption == IsFiniteSet(Clients)
ASSUME NumberAssumption == MaxNumber \in Nat /\ MaxNumber >= 2

VARIABLES
  handler,      \* realtime_stream(): "none", "handshake" (dependencies, token
                \* check, accept), "serving" (receive loop), "done"
  link,         \* the connection: "open", "stalled" (the peer stopped reading,
                \* sends do not finish) or "closed"
  registered,   \* ConnectionManager._connections
  generator,    \* "between" ticks, "sending" a broadcast, "stopped"
  targets,      \* what is left of list(self._connections) in broadcast()
  current,      \* number of the last reading generated, 0 before the first
  buffered,     \* number of the last reading given to the buffer
  last          \* history: number of the last reading the client was sent

vars == <<handler, link, registered, generator, targets, current, buffered, last>>
stream == <<generator, targets, current, buffered>>

Number == 1 .. MaxNumber
Successor(n) == (n % MaxNumber) + 1

Init ==
  /\ handler = [c \in Clients |-> "none"]
  /\ link = [c \in Clients |-> "closed"]
  /\ registered = {}
  /\ generator = "between" /\ targets = <<>>
  /\ current = 0 /\ buffered = 0
  /\ last = [c \in Clients |-> 0]

-----------------------------------------------------------------------------
(* The peer.                                                                *)

Connect(c) ==
  /\ handler[c] = "none" /\ link[c] = "closed"
  /\ handler' = [handler EXCEPT ![c] = "handshake"]
  /\ link' = [link EXCEPT ![c] = "open"]
  /\ UNCHANGED <<registered, stream, last>>

Leave(c) ==
  /\ link[c] # "closed"
  /\ link' = [link EXCEPT ![c] = "closed"]
  /\ UNCHANGED <<handler, registered, stream, last>>

Stall(c) ==
  /\ link[c] = "open"
  /\ link' = [link EXCEPT ![c] = "stalled"]
  /\ UNCHANGED <<handler, registered, stream, last>>

(* The peer reads again, or the server's keep-alive ping gets no answer and    *)
(* the connection is closed.                                                 *)
Unstall(c) ==
  /\ link[c] = "stalled"
  /\ \E l \in {"open", "closed"} : link' = [link EXCEPT ![c] = l]
  /\ UNCHANGED <<handler, registered, stream, last>>

Forget(c) ==
  /\ handler[c] = "done" /\ link[c] = "closed"
  /\ c \notin registered /\ c \notin ToSet(targets)
  /\ handler' = [handler EXCEPT ![c] = "none"]
  /\ last' = [last EXCEPT ![c] = 0]
  /\ UNCHANGED <<link, registered, stream>>

-----------------------------------------------------------------------------
(* ws.py:realtime_stream.                                                   *)

(* No user for the token, or the peer is gone before accept() is through.     *)
Reject(c) ==
  /\ handler[c] = "handshake"
  /\ handler' = [handler EXCEPT ![c] = "done"]
  /\ link' = [link EXCEPT ![c] = "closed"]
  /\ UNCHANGED <<registered, stream, last>>

(* manager.connect(): accept() returns, the connection is added.              *)
Register(c) ==
  /\ handler[c] = "handshake"
  /\ handler' = [handler EXCEPT ![c] = "serving"]
  /\ registered' = registered \cup {c}
  /\ UNCHANGED <<link, stream, last>>

(* receive_text() raises WebSocketDisconnect; disconnect() is a discard.      *)
SeeDisconnect(c) ==
  /\ handler[c] = "serving" /\ link[c] = "closed"
  /\ handler' = [handler EXCEPT ![c] = "done"]
  /\ registered' = registered \ {c}
  /\ UNCHANGED <<link, stream, last>>

(* receive_text() raises anything else: only WebSocketDisconnect is handled,   *)
(* so the server closes the connection and the entry stays behind.            *)
HandlerFails(c) ==
  /\ handler[c] = "serving"
  /\ handler' = [handler EXCEPT ![c] = "done"]
  /\ link' = [link EXCEPT ![c] = "closed"]
  /\ UNCHANGED <<registered, stream, last>>

-----------------------------------------------------------------------------
(* generator.py:run_generator and manager.py:broadcast.                       *)

(* The walk starts from list(self._connections): a copy, in any order.          *)
TickDuplicates_mutant ==
  /\ generator = "between"
  /\ generator' = "sending"
  /\ current' = Successor(current)
  /\ \E s \in SetToSeqs(registered) : targets' = s \o s
  /\ UNCHANGED <<handler, link, registered, buffered, last>>

Tick ==
  /\ generator = "between"
  /\ generator' = "sending"
  /\ current' = Successor(current)
  /\ targets' \in SetToSeqs(registered)
  /\ UNCHANGED <<handler, link, registered, buffered, last>>

NextTarget ==
  /\ generator = "sending" /\ targets # <<>>
  /\ targets' = Tail(targets)
  /\ UNCHANGED <<handler, link, generator, current, buffered>>

(* send_json() returns; to a closed connection it may return as well.         *)
SendReturns ==
  /\ NextTarget
  /\ link[Head(targets)] \in {"open", "closed"}
  /\ last' = IF link[Head(targets)] = "open"
               THEN [last EXCEPT ![Head(targets)] = current] ELSE last
  /\ UNCHANGED registered

(* send_json() raises: the connection is dropped, the others go on.           *)
SendRaisesAborts_mutant ==
  /\ generator = "sending" /\ targets # <<>>
  /\ link[Head(targets)] = "closed"
  /\ registered' = registered \ {Head(targets)}
  /\ targets' = <<>> /\ generator' = "between"
  /\ UNCHANGED <<handler, link, current, buffered, last>>

SendRaisesRebuilds_mutant ==
  /\ NextTarget
  /\ link[Head(targets)] = "closed"
  /\ registered' = registered \cap ToSet(Tail(targets))
  /\ UNCHANGED last

SendRaisesKeeps_mutant ==
  /\ NextTarget
  /\ link[Head(targets)] = "closed"
  /\ UNCHANGED <<registered, last>>

SendRaises ==
  /\ NextTarget
  /\ link[Head(targets)] = "closed"
  /\ registered' = registered \ {Head(targets)}
  /\ UNCHANGED last

(* broadcast() returns and the reading is buffered.                           *)
BroadcastDoneNeedsAll_mutant ==
  /\ generator = "sending" /\ targets = <<>>
  /\ \A c \in registered : link[c] # "closed" => last[c] = current
  /\ generator' = "between"
  /\ buffered' = current
  /\ UNCHANGED <<handler, link, registered, targets, current, last>>

BroadcastDone ==
  /\ generator = "sending" /\ targets = <<>>
  /\ generator' = "between"
  /\ buffered' = current
  /\ UNCHANGED <<handler, link, registered, targets, current, last>>

(* Shutdown cancels the task, possibly in the middle of a broadcast.          *)
Cancel ==
  /\ generator # "stopped"
  /\ generator' = "stopped" /\ targets' = <<>>
  /\ UNCHANGED <<handler, link, registered, current, buffered, last>>

-----------------------------------------------------------------------------

ClientStep(c) ==
  \/ Connect(c) \/ Leave(c) \/ Stall(c) \/ Unstall(c) \/ Forget(c)
  \/ Reject(c) \/ Register(c) \/ SeeDisconnect(c) \/ HandlerFails(c)

GeneratorStep == Tick \/ SendReturns \/ SendRaises \/ BroadcastDone

Next == (\E c \in Clients : ClientStep(c)) \/ GeneratorStep \/ Cancel

Spec == Init /\ [][Next]_vars

(* The event loop runs what is ready, a stalled connection recovers or fails  *)
(* its ping, a send to a peer that keeps coming back to reading ends, and      *)
(* sends to closed connections do not return without an error for ever.        *)
Fairness ==
  /\ WF_vars(GeneratorStep)
  /\ SF_vars(SendReturns)
  /\ \A c \in Clients :
       /\ SF_vars(SendRaises /\ Head(targets) = c)
       /\ WF_vars(SeeDisconnect(c))
       /\ WF_vars(Unstall(c))

FairSpec == Spec /\ Fairness

-----------------------------------------------------------------------------

TypeOK ==
  /\ handler \in [Clients -> {"none", "handshake", "serving", "done"}]
  /\ link \in [Clients -> {"open", "stalled", "closed"}]
  /\ registered \subseteq Clients
  /\ generator \in {"between", "sending", "stopped"}
  /\ targets \in Seq(Clients) /\ IsInjective(targets)
  /\ current \in {0} \cup Number /\ buffered \in {0} \cup Number
  /\ last \in [Clients -> {0} \cup Number]

(* A subscriber that is connected and waiting in receive_text() is in the      *)
(* registry: no broadcast drops it for another client's failure, and no        *)
(* handler that starts during a broadcast is forgotten.                        *)
NoSilentSubscriber ==
  \A c \in Clients :
    handler[c] = "serving" /\ link[c] # "closed" => c \in registered

(* A connected subscriber that has had one reading has had every reading since *)
(* but those still on their way to it in this broadcast.                       *)
NoGap ==
  \A c \in Clients :
    handler[c] = "serving" /\ link[c] # "closed" /\ last[c] # 0
      /\ generator # "stopped" =>
         IF c \in ToSet(targets) THEN Successor(last[c]) = current
                                 ELSE last[c] = current

(* "A failing client must never interrupt the generator" (manager.py:35):       *)
(* between two ticks the last reading has gone to the buffer, whatever         *)
(* happened to the clients it was sent to.                                     *)
EveryTickBuffered == generator = "between" => buffered = current

(* A broadcast ends, whatever the clients do.                                  *)
BroadcastEnds == generator = "sending" ~> generator # "sending"

(* The entry of a connection that is gone does not stay in the registry while  *)
(* readings are generated, even if its handler never removed it.               *)
StaleEntriesGo ==
  \A c \in Clients :
    (c \in registered /\ link[c] = "closed")
      ~> (c \notin registered \/ generator = "stopped")
=============================================================================
