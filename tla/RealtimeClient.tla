--------------------------- MODULE RealtimeClient ---------------------------
(***************************************************************************)
(* The frontend's realtime client: frontend/lib/realtime.py (RealtimeClient), *)
(* the session glue in lib/realtime_state.py, and sign-in and sign-out in      *)
(* lib/auth.py and app.py, for one browser session.                           *)
(*                                                                          *)
(* The script thread of the session runs one rerun at a time; stop() blocks   *)
(* it in join().  Every start() makes a receiver thread, and receivers         *)
(* interleave with the script and with each other at each access to what they  *)
(* share: _stopping, _socket, _status, _queue.                                *)
(*                                                                          *)
(* A RealtimeSession, with its client, belongs to one token, and a token never  *)
(* gets a second one.  So clients are named by tokens.  Of a dropped client     *)
(* only its flag, its idle time and its receivers matter; the other variables   *)
(* are those of the client in st.session_state.  The backend's stream and the   *)
(* passing of time are external.                                              *)
(*                                                                          *)
(* Definitions named X_mutant are broken variants of X that no specification   *)
(* uses; they show that the properties can fail.                              *)
(***************************************************************************)
EXTENDS Naturals, Sequences, FiniteSets

CONSTANTS
  Threads,      \* receiver threads; a slot is used again after its thread ended
  None,         \* no thread
  MaxTokens,    \* bound: number of sign-ins
  MaxReadings,  \* bound: number of readings streamed
  MaxQueue      \* max_queue of RealtimeClient

ASSUME ThreadsAssumption == IsFiniteSet(Threads) /\ None \notin Threads
ASSUME ClientBounds ==
  MaxTokens \in Nat /\ MaxReadings \in Nat /\ MaxQueue \in Nat \ {0}

VARIABLES
  token,        \* st.session_state[TOKEN_KEY]: number of the sign-in, 0 for none
  issued,       \* tokens issued so far
  session,      \* token of st.session_state[SESSION_KEY], 0 for none
  page,         \* "realtime" if that page is shown, "elsewhere" if not
  script,       \* "ready", or in stop(): "joining", "resetting"
  reason,       \* who called stop(): "button" (or nobody), "replace", "logout"
  current,      \* _thread
  stopping,     \* stopping[k]: _stopping of the client for token k
  socket,       \* the thread whose socket _socket is
  status,       \* _status
  idle,         \* idle[k]: that client was not drained for idle_timeout
  queue,        \* _queue: numbers of readings
  phase,        \* phase[t]: where _run() of t is, "ended" when it is not alive
  bearer,       \* bearer[t]: the token of t's client, 0 when t has ended
  got,          \* got[t]: last reading that t's connection delivered
  streamed,     \* readings the backend has streamed
  shown,        \* history: last reading moved to the view
  gaveUp        \* history: a stop() of this client did not wait for its thread

shared == <<current, stopping, socket, status, idle, queue, shown, gaveUp>>
signIn == <<token, issued, session, page>>
threads == <<phase, bearer, got>>
vars == <<signIn, script, reason, shared, threads, streamed>>

Token == 1 .. MaxTokens
Alive(t) == phase[t] # "ended"
IsRunning == current # None /\ Alive(current)

Init ==
  /\ token = 0 /\ issued = 0 /\ session = 0 /\ page = "elsewhere"
  /\ script = "ready" /\ reason = "button"
  /\ current = None /\ socket = None
  /\ stopping = [k \in Token |-> FALSE] /\ idle = [k \in Token |-> FALSE]
  /\ status = "disconnected" /\ queue = <<>>
  /\ shown = 0 /\ gaveUp = FALSE
  /\ phase = [t \in Threads |-> "ended"]
  /\ bearer = [t \in Threads |-> 0]
  /\ got = [t \in Threads |-> 0]
  /\ streamed = 0

-----------------------------------------------------------------------------
(* RealtimeSession.__init__: a client of its own, for token tok.              *)
NewClient(tok) ==
  /\ session' = tok
  /\ current' = None /\ socket' = None
  /\ status' = "disconnected" /\ queue' = <<>>
  /\ shown' = 0 /\ gaveUp' = FALSE
  /\ UNCHANGED <<stopping, idle, threads>>

-----------------------------------------------------------------------------
(* start(): False if a receiver is running.                                  *)

Start ==
  /\ script = "ready" /\ page = "realtime"
  /\ ~IsRunning
  /\ \E t \in Threads :
       /\ ~Alive(t)
       /\ phase' = [phase EXCEPT ![t] = "connecting"]
       /\ bearer' = [bearer EXCEPT ![t] = session]
       /\ current' = t
  /\ stopping' = [stopping EXCEPT ![session] = FALSE]
  /\ idle' = [idle EXCEPT ![session] = FALSE]
  /\ status' = "connecting"
  /\ UNCHANGED <<signIn, script, reason, socket, queue, got, shown, gaveUp,
                 streamed>>

(* stop(): the flag is set, the socket closed, the thread joined.             *)
StopDoesNotWait_mutant(why) ==
  /\ reason' = why
  /\ stopping' = [stopping EXCEPT ![session] = TRUE]
  /\ script' = "resetting"
  /\ UNCHANGED <<current, socket, status, idle, queue, shown, gaveUp,
                 threads, streamed>>

Stop(why) ==
  /\ reason' = why
  /\ stopping' = [stopping EXCEPT ![session] = TRUE]
  /\ script' = IF IsRunning THEN "joining" ELSE "resetting"
  /\ UNCHANGED <<current, socket, status, idle, queue, shown, gaveUp,
                 threads, streamed>>

JoinEnds ==
  /\ script = "joining" /\ ~IsRunning
  /\ script' = "resetting"
  /\ UNCHANGED <<signIn, reason, shared, threads, streamed>>

(* join(timeout=3.0): recv() wakes every second, but opening or closing a      *)
(* connection can take longer.                                               *)
JoinTimesOut ==
  /\ script = "joining"
  /\ phase[current] \in {"connecting", "closing"}
  /\ script' = "resetting"
  /\ gaveUp' = TRUE
  /\ UNCHANGED <<signIn, reason, current, stopping, socket, status, idle, queue,
                 shown, threads, streamed>>

(* The end of stop(), and what its caller does next: the button's rerun,       *)
(* get_session()'s new RealtimeSession, or auth.logout().                     *)
StopReturns ==
  /\ script = "resetting"
  /\ script' = "ready"
  /\ \/ /\ reason = "button"
        /\ current' = None
        /\ status' = IF status = "error" THEN status ELSE "disconnected"
        /\ UNCHANGED <<signIn, stopping, socket, idle, queue, shown, gaveUp,
                       threads>>
     \/ /\ reason = "replace"
        /\ NewClient(token)
        /\ UNCHANGED <<token, issued, page>>
     \/ /\ reason = "logout"
        /\ NewClient(0)
        /\ token' = 0 /\ page' = "elsewhere"
        /\ UNCHANGED issued
  /\ reason' = "button"
  /\ UNCHANGED streamed

Disconnect ==
  /\ script = "ready" /\ page = "realtime"
  /\ Stop("button")
  /\ UNCHANGED signIn

(* RealtimeSession.pump(): the live view drains the queue every second.        *)
Pump ==
  /\ script = "ready" /\ page = "realtime"
  /\ idle' = [idle EXCEPT ![session] = FALSE]
  /\ queue' = <<>>
  /\ shown' = IF queue = <<>> THEN shown ELSE queue[Len(queue)]
  /\ UNCHANGED <<signIn, script, reason, current, stopping, socket, status,
                 gaveUp, threads, streamed>>

-----------------------------------------------------------------------------
(* Pages and sign-in.                                                        *)

Login ==
  /\ script = "ready" /\ token = 0
  /\ issued < MaxTokens
  /\ issued' = issued + 1 /\ token' = issued'
  /\ UNCHANGED <<session, page, script, reason, shared, threads, streamed>>

(* views/realtime.py: get_session() with the token of the sign-in.            *)
OpenPageKeepsClient_mutant ==
  /\ script = "ready" /\ page = "elsewhere" /\ token # 0
  /\ page' = "realtime"
  /\ UNCHANGED <<token, issued>>
  /\ NewClient(token) /\ UNCHANGED <<script, reason, streamed>>

OpenPage ==
  /\ script = "ready" /\ page = "elsewhere" /\ token # 0
  /\ page' = "realtime"
  /\ UNCHANGED <<token, issued>>
  /\ \/ /\ session = token
        /\ UNCHANGED <<session, script, reason, shared, threads, streamed>>
     \/ /\ session = 0
        /\ NewClient(token) /\ UNCHANGED <<script, reason, streamed>>
     \/ /\ session \notin {0, token}
        /\ Stop("replace") /\ UNCHANGED session

LeavePage ==
  /\ script = "ready" /\ page = "realtime"
  /\ page' = "elsewhere"
  /\ UNCHANGED <<token, issued, session, script, reason, shared, threads,
                 streamed>>

(* app.py: the button stops the receiver before the token goes.               *)
Logout ==
  /\ script = "ready" /\ token # 0
  /\ \/ /\ session = 0
        /\ token' = 0 /\ page' = "elsewhere"
        /\ UNCHANGED <<issued, session, script, reason, shared, threads,
                       streamed>>
     \/ session # 0 /\ Stop("logout") /\ UNCHANGED signIn

(* auth.request(): a 401 on any page ends the sign-in.                        *)
Unauthorized ==
  /\ script = "ready" /\ token # 0
  /\ token' = 0 /\ page' = "elsewhere"
  /\ UNCHANGED <<issued, session, script, reason, shared, threads, streamed>>

-----------------------------------------------------------------------------
(* _run(), one step per access to shared state.                              *)

Mine(t) == bearer[t] = session
Stopping(t) == stopping[bearer[t]]
Idle(t) == idle[bearer[t]]

Goes(t, from, to) == phase[t] = from /\ phase' = [phase EXCEPT ![t] = to]

(* What a receiver of a dropped client writes is seen by nobody.               *)
SetSocket(t, s) == socket' = IF Mine(t) THEN s ELSE socket
SetStatus(t, s) == status' = IF Mine(t) THEN s ELSE status

ConnectReturns(t) ==
  /\ Goes(t, "connecting", "opened")
  /\ got' = [got EXCEPT ![t] = streamed]
  /\ SetSocket(t, t)
  /\ UNCHANGED <<bearer, current, stopping, status, idle, queue, shown, gaveUp>>

ConnectRaises(t) ==
  /\ Goes(t, "connecting", "raised")
  /\ UNCHANGED <<bearer, got, shared>>

Connected(t) ==
  /\ Goes(t, "opened", "checking")
  /\ SetStatus(t, "connected")
  /\ UNCHANGED <<bearer, got, current, stopping, socket, idle, queue, shown, gaveUp>>

(* while not stopping; break if idle.                                         *)
CheckNeverIdle_mutant(t) ==
  /\ Goes(t, "checking", IF Stopping(t) THEN "closing" ELSE "receiving")
  /\ UNCHANGED <<bearer, got, shared>>

Check(t) ==
  /\ Goes(t, "checking",
          IF Stopping(t) \/ Idle(t) THEN "closing" ELSE "receiving")
  /\ UNCHANGED <<bearer, got, shared>>

(* recv() returns a reading: put_nowait(), or count it as dropped.             *)
Receive(t) ==
  /\ got[t] < streamed
  /\ Goes(t, "receiving", "checking")
  /\ got' = [got EXCEPT ![t] = @ + 1]
  /\ queue' = IF Mine(t) /\ Len(queue) < MaxQueue
                THEN Append(queue, got'[t]) ELSE queue
  /\ UNCHANGED <<bearer, current, stopping, socket, status, idle, shown, gaveUp>>

(* recv() times out, or what it returned is malformed.                        *)
ReceiveNothing(t) ==
  /\ Goes(t, "receiving", "checking")
  /\ UNCHANGED <<bearer, got, shared>>

(* The connection is lost, or stop() has closed it.                           *)
ReceiveRaises(t) ==
  /\ Goes(t, "receiving", "raised")
  /\ UNCHANGED <<bearer, got, shared>>

(* The with statement has closed the connection.                              *)
Closed(t) ==
  /\ Goes(t, "closing", "finishing")
  /\ UNCHANGED <<bearer, got, shared>>

(* except Exception: an error, unless stop() was called.                       *)
Judge(t) ==
  /\ Goes(t, "raised", IF Stopping(t) THEN "finishing" ELSE "failing")
  /\ UNCHANGED <<bearer, got, shared>>

ReportNothing_mutant(t) ==
  /\ \/ Goes(t, "finishing", "clearing") /\ UNCHANGED status
     \/ Goes(t, "failing", "clearing") /\ SetStatus(t, "error")
  /\ UNCHANGED <<bearer, got, current, stopping, socket, idle, queue, shown, gaveUp>>

Report(t) ==
  /\ \/ Goes(t, "finishing", "clearing") /\ SetStatus(t, "disconnected")
     \/ Goes(t, "failing", "clearing") /\ SetStatus(t, "error")
  /\ UNCHANGED <<bearer, got, current, stopping, socket, idle, queue, shown, gaveUp>>

(* finally: _socket = None, and the thread ends.                              *)
Clear(t) ==
  /\ Goes(t, "clearing", "ended")
  /\ SetSocket(t, None)
  /\ bearer' = [bearer EXCEPT ![t] = 0] /\ got' = [got EXCEPT ![t] = 0]
  /\ UNCHANGED <<current, stopping, status, idle, queue, shown, gaveUp>>

Run(t) ==
  /\ \/ ConnectReturns(t) \/ ConnectRaises(t) \/ Connected(t) \/ Check(t)
     \/ Receive(t) \/ ReceiveNothing(t) \/ ReceiveRaises(t)
     \/ Closed(t) \/ Judge(t) \/ Report(t) \/ Clear(t)
  /\ UNCHANGED <<signIn, script, reason, streamed>>

-----------------------------------------------------------------------------
(* The backend streams; time passes without a drain when the page is not shown,  *)
(* which only a receiver notices: the next one starts with a drain time of its   *)
(* own.                                                                      *)

Stream ==
  /\ streamed < MaxReadings
  /\ streamed' = streamed + 1
  /\ UNCHANGED <<signIn, script, reason, shared, threads>>

IdleTimePasses(k) ==
  /\ ~idle[k] /\ \E t \in Threads : bearer[t] = k
  /\ k # session \/ page = "elsewhere"
  /\ idle' = [idle EXCEPT ![k] = TRUE]
  /\ UNCHANGED <<signIn, script, reason, current, stopping, socket, status, queue,
                 shown, gaveUp, threads, streamed>>

StopSteps == JoinEnds \/ JoinTimesOut \/ StopReturns

Next ==
  \/ Login \/ Logout \/ Unauthorized \/ OpenPage \/ LeavePage
  \/ Start \/ Disconnect \/ StopSteps \/ Pump
  \/ \E t \in Threads : Run(t)
  \/ Stream
  \/ \E k \in Token : IdleTimePasses(k)

Spec == Init /\ [][Next]_vars

(* Threads are scheduled, and every wait in them has a timeout: opening,       *)
(* receiving, closing and join().                                            *)
Fairness == WF_vars(StopSteps) /\ \A t \in Threads : WF_vars(Run(t))

FairSpec == Spec /\ Fairness

-----------------------------------------------------------------------------

TypeOK ==
  /\ token \in 0 .. MaxTokens /\ issued \in 0 .. MaxTokens
  /\ session \in 0 .. MaxTokens
  /\ page \in {"realtime", "elsewhere"}
  /\ script \in {"ready", "joining", "resetting"}
  /\ reason \in {"button", "replace", "logout"}
  /\ current \in Threads \cup {None} /\ socket \in Threads \cup {None}
  /\ stopping \in [Token -> BOOLEAN] /\ idle \in [Token -> BOOLEAN]
  /\ gaveUp \in BOOLEAN
  /\ status \in {"disconnected", "connecting", "connected", "error"}
  /\ queue \in Seq(1 .. MaxReadings) /\ Len(queue) <= MaxQueue
  /\ phase \in [Threads -> {"ended", "connecting", "opened", "checking",
                            "receiving", "closing", "raised", "finishing",
                            "failing", "clearing"}]
  /\ bearer \in [Threads -> 0 .. MaxTokens]
  /\ got \in [Threads -> 0 .. MaxReadings]
  /\ streamed \in 0 .. MaxReadings /\ shown \in 0 .. MaxReadings

Receivers == {t \in Threads : Alive(t) /\ Mine(t)}

(* "One session holds at most one receiver thread" (realtime_state.py:4), as   *)
(* far as the code ensures it: unless a stop() did not wait for its thread,    *)
(* the thread the client knows is the only one it has.                        *)
OneReceiver == ~gaveUp => Receivers \subseteq {current}

(* The status the page shows is the receiver's: connected while it receives,   *)
(* and neither connected nor connecting once it has ended.                     *)
StatusTruthful ==
  ~gaveUp =>
    /\ \A t \in Receivers : phase[t] \in {"checking", "receiving"} =>
         status = "connected" /\ socket = t
    /\ Receivers = {} => status \in {"disconnected", "error"} /\ socket = None

(* The view gets every reading at most once and in order, over disconnects and *)
(* reconnects of one client and whatever a full queue has dropped              *)
(* (realtime.py:261-264).                                                     *)
ViewInOrder ==
  ~gaveUp => /\ \A i, j \in DOMAIN queue : i < j => queue[i] < queue[j]
             /\ \A i \in DOMAIN queue : shown < queue[i]

(* "the old receiver is stopped so a stale JWT is never used"                  *)
(* (realtime_state.py:17): once the page is up, every receiver that is still    *)
(* alive with another token than that of the present sign-in has been told to   *)
(* stop, and nothing tells it to go on again, also after stops that timed out.  *)
NoStaleReceiver ==
  page = "realtime" /\ script = "ready" =>
    \A t \in Threads : Alive(t) /\ bearer[t] # token => Stopping(t)

(* "the receiver stops itself once nobody has drained its queue for a while"   *)
(* (realtime.py:35), and the receivers of a dropped session end, also those      *)
(* stop() did not wait for: whoever receives for nobody ends, unless somebody    *)
(* drains the queue again in time.                                           *)
ReceiversEnd ==
  \A t \in Threads :
    (Alive(t) /\ (~Mine(t) \/ Idle(t))) ~> (~Alive(t) \/ (Mine(t) /\ ~Idle(t)))

(* "One session holds at most one receiver thread" (realtime_state.py:4).      *)
AtMostOneReceiver ==
  \A t, u \in Receivers :
    phase[t] = "receiving" /\ phase[u] = "receiving" => t = u

(* A receiver "must not keep using the token of a session that has ended"      *)
(* (app.py:35-36).                                                           *)
NoReceiverSignedOut ==
  token = 0 => \A t \in Threads : phase[t] # "receiving"
=============================================================================
