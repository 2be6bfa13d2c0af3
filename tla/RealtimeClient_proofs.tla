------------------------ MODULE RealtimeClient_proofs ------------------------
(***************************************************************************)
(* For any number of receiver threads: a client has one receiver and a status  *)
(* that tells the truth as long as no stop() gave up on a thread, and whoever  *)
(* uses the token of an earlier sign-in has been told to stop.                 *)
(***************************************************************************)
EXTENDS RealtimeClient, SequenceTheorems, TLAPS

(* Tokens: the sign-in holds the newest, and no receiver bears a token whose   *)
(* client does not exist yet.                                                *)
SignedIn ==
  /\ token \in {0, issued} /\ session <= issued
  /\ \A t \in Threads : bearer[t] <= issued
  /\ token # 0 /\ session # token => \A t \in Threads : bearer[t] # token

(* The page shows the client of the sign-in, or is about to.                  *)
Paging ==
  /\ page = "realtime" => token # 0
  /\ page = "realtime" /\ session # token => script # "ready" /\ reason = "replace"
  /\ script # "ready" /\ reason = "replace" =>
       token # 0 /\ session # token /\ page = "realtime"

(* During stop() the client is told to stop, and at its end its thread is gone *)
(* unless join() timed out.                                                   *)
InStop ==
  /\ script # "ready" => session # 0 /\ stopping[session]
  /\ script = "resetting" /\ ~gaveUp => ~IsRunning

(* Threads and their clients.  A dropped client has been told to stop.         *)
Bearing ==
  /\ \A t \in Threads : Alive(t) <=> bearer[t] # 0
  /\ current # None => session # 0 /\ (Alive(current) => bearer[current] = session)
  /\ \A t \in Threads : bearer[t] \notin {0, session} => Stopping(t)

(* What the receiver has told the page, step by step.                         *)
StatusSteps ==
  ~gaveUp => \A t \in Receivers :
    /\ phase[t] = "opened" => socket = t
    /\ phase[t] = "clearing" => status \in {"disconnected", "error"}

ClientInv ==
  /\ TypeOK /\ SignedIn /\ Paging /\ InStop /\ Bearing
  /\ OneReceiver /\ StatusSteps /\ StatusTruthful

(* No client, no thread, signed out.                                        *)
LEMMA InitInv == Init => ClientInv
<1> SUFFICES ASSUME Init PROVE ClientInv
  OBVIOUS
<1>1. <<>> \in Seq(1 .. MaxReadings) /\ Len(<<>>) = 0
  BY EmptySeq
<1>2. queue \in Seq(1 .. MaxReadings) /\ Len(queue) <= MaxQueue
  BY <1>1, ClientBounds DEF Init
<1>3. TypeOK
  <2>1. 0 \in 0 .. MaxTokens /\ 0 \in 0 .. MaxReadings
    BY ClientBounds
  <2>2. /\ phase \in [Threads -> {"ended"}] /\ bearer \in [Threads -> {0}]
        /\ got \in [Threads -> {0}]
        /\ stopping \in [Token -> {FALSE}] /\ idle \in [Token -> {FALSE}]
    BY DEF Init
  <2>3. /\ bearer \in [Threads -> 0 .. MaxTokens]
        /\ got \in [Threads -> 0 .. MaxReadings]
        /\ stopping \in [Token -> BOOLEAN] /\ idle \in [Token -> BOOLEAN]
    BY <2>1, <2>2
  <2> QED BY <1>2, <2>1, <2>2, <2>3 DEF Init, TypeOK
<1>4. Receivers = {} /\ ~IsRunning
  BY DEF Init, Receivers, Alive, IsRunning
<1>5. \A t \in Threads : bearer[t] = 0 /\ ~Alive(t)
  BY DEF Init, Alive
<1>6. SignedIn /\ Paging /\ InStop /\ Bearing
  BY <1>4, <1>5 DEF Init, SignedIn, Paging, InStop, Bearing
<1>7. OneReceiver /\ StatusSteps /\ StatusTruthful
  BY <1>4 DEF Init, OneReceiver, StatusSteps, StatusTruthful
<1> QED BY <1>3, <1>6, <1>7 DEF ClientInv

-----------------------------------------------------------------------------
(* Steps that leave the client, its threads and the streamed readings alone.   *)
LEMMA SignInSteps ==
  ASSUME ClientInv, Login \/ LeavePage \/ Unauthorized PROVE ClientInv'
<1> USE DEF ClientInv, TypeOK, SignedIn, Paging, InStop, Bearing, OneReceiver,
            StatusSteps, StatusTruthful, Receivers, Mine, Alive, IsRunning, Stopping,
            shared, threads
<1>1. CASE Login
  BY <1>1, ClientBounds DEF Login
<1>2. CASE LeavePage
  BY <1>2 DEF LeavePage
<1>3. CASE Unauthorized
  BY <1>3, ClientBounds DEF Unauthorized
<1> QED BY <1>1, <1>2, <1>3

(* A new client has no receiver yet; the old one, if any, was told to stop.    *)
LEMMA NewClientInv ==
  ASSUME ClientInv, NEW tok \in {0, token}, NewClient(tok),
         tok # 0 => session # token,
         session # 0 => stopping[session],
         token' \in {0, issued}, issued' = issued,
         tok = token', tok # 0 => token' = token,
         tok # 0 => page' = "realtime", tok = 0 => page' = "elsewhere",
         script' = "ready", streamed' = streamed,
         reason' \in {"button", "replace", "logout"}
  PROVE  ClientInv'
<1>1. <<>> \in Seq(1 .. MaxReadings) /\ Len(<<>>) = 0
  BY EmptySeq
<1>2. Receivers' = {}
  BY DEF ClientInv, SignedIn, Bearing, Receivers, Mine, Alive, NewClient, threads
<1>3. TypeOK'
  <2>1. queue' \in Seq(1 .. MaxReadings) /\ Len(queue') <= MaxQueue
    BY <1>1, ClientBounds DEF NewClient
  <2>2. /\ token' \in 0 .. MaxTokens /\ issued' \in 0 .. MaxTokens
        /\ session' \in 0 .. MaxTokens /\ shown' \in 0 .. MaxReadings
    BY ClientBounds DEF ClientInv, TypeOK, NewClient
  <2>3. UNCHANGED <<stopping, idle, phase, bearer, got>>
    BY DEF NewClient, threads
  <2> QED BY <2>1, <2>2, <2>3 DEF ClientInv, TypeOK, NewClient
<1>4. SignedIn' /\ Paging' /\ InStop'
  BY ClientBounds DEF ClientInv, TypeOK, SignedIn, Paging, InStop, NewClient, threads
<1>5. Bearing'
  BY DEF ClientInv, TypeOK, Bearing, NewClient, threads, Alive, Stopping
<1> QED BY <1>2, <1>3, <1>4, <1>5
        DEF ClientInv, OneReceiver, StatusSteps, StatusTruthful, NewClient

(* A call of stop() up to its join().                                         *)
LEMMA StopInv ==
  ASSUME ClientInv, NEW why \in {"button", "replace", "logout"}, Stop(why),
         session # 0,
         why = "replace" => token # 0 /\ session # token /\ page' = "realtime",
         page' = "realtime" /\ session # token => why = "replace",
         page' \in {"realtime", "elsewhere"}, page' = "realtime" => token # 0,
         UNCHANGED <<token, issued, session>>
  PROVE  ClientInv'
<1> USE DEF Stop, threads
<1>1. session \in Token
  BY ClientBounds DEF ClientInv, TypeOK, Token
<1>2. stopping' = [stopping EXCEPT ![session] = TRUE] /\ stopping'[session] = TRUE
  BY <1>1 DEF ClientInv, TypeOK
<1>3. TypeOK'
  BY <1>1, <1>2 DEF ClientInv, TypeOK
<1>4. SignedIn' /\ Paging'
  BY DEF ClientInv, SignedIn, Paging
<1>5. InStop'
  BY <1>2 DEF ClientInv, InStop, IsRunning, Alive
<1>6. Bearing'
  BY <1>1, <1>2 DEF ClientInv, TypeOK, Bearing, Alive, Stopping
<1>7. OneReceiver' /\ StatusSteps' /\ StatusTruthful'
  BY DEF ClientInv, OneReceiver, StatusSteps, StatusTruthful, Receivers, Alive, Mine
<1> QED BY <1>3, <1>4, <1>5, <1>6, <1>7 DEF ClientInv

(* The page keeps the client, makes one, or stops the one of an older sign-in.*)
LEMMA OpenPageInv == ClientInv /\ OpenPage => ClientInv'
<1> SUFFICES ASSUME ClientInv, OpenPage PROVE ClientInv'
  OBVIOUS
<1> USE DEF OpenPage
<1>1. CASE session = token
  BY <1>1 DEF ClientInv, TypeOK, SignedIn, Paging, InStop, Bearing, OneReceiver,
     StatusSteps, StatusTruthful, Receivers, Mine, Alive, IsRunning, Stopping,
     shared, threads, NewClient, Stop
<1>2. CASE session = 0
  BY <1>2, NewClientInv DEF ClientInv, TypeOK, SignedIn, Stop
<1>3. CASE session \notin {0, token}
  BY <1>3, StopInv
<1> QED BY <1>1, <1>2, <1>3

(* The button signs out at once or by way of stop().                        *)
LEMMA LogoutInv == ClientInv /\ Logout => ClientInv'
<1> SUFFICES ASSUME ClientInv, Logout PROVE ClientInv'
  OBVIOUS
<1> USE DEF Logout
<1>1. CASE session = 0
  BY <1>1 DEF ClientInv, TypeOK, SignedIn, Paging, InStop, Bearing, OneReceiver,
     StatusSteps, StatusTruthful, Receivers, Mine, Alive, IsRunning, Stopping,
     shared, threads
<1>2. CASE session # 0
  BY <1>2, StopInv DEF signIn, ClientInv, TypeOK, Paging
<1> QED BY <1>1, <1>2

(* The button of the page calls stop().                                     *)
LEMMA DisconnectInv == ClientInv /\ Disconnect => ClientInv'
BY StopInv DEF Disconnect, signIn, ClientInv, TypeOK, Paging

(* A thread starts only when the client has none, as far as it knows.          *)
LEMMA StartInv == ClientInv /\ Start => ClientInv'
<1> SUFFICES ASSUME ClientInv, Start PROVE ClientInv'
  OBVIOUS
<1> USE DEF Start, signIn
<1>1. PICK t \in Threads :
        /\ ~Alive(t) /\ current' = t
        /\ phase' = [phase EXCEPT ![t] = "connecting"]
        /\ bearer' = [bearer EXCEPT ![t] = session]
  OBVIOUS
<1>2. session = token /\ session # 0 /\ session \in Token
  BY ClientBounds DEF ClientInv, Paging, TypeOK, Token
<1>3. TypeOK'
  BY <1>1, <1>2 DEF ClientInv, TypeOK
<1>4. SignedIn' /\ Paging' /\ InStop'
  BY <1>1, <1>2 DEF ClientInv, TypeOK, SignedIn, Paging, InStop
<1>5. Bearing'
  BY <1>1, <1>2, ThreadsAssumption DEF ClientInv, TypeOK, Bearing, Alive, Stopping
<1>6. Receivers' = Receivers \cup {t}
  BY <1>1, <1>2 DEF ClientInv, TypeOK, Receivers, Alive, Mine
<1>7. ~gaveUp => Receivers = {}
  BY ThreadsAssumption DEF ClientInv, OneReceiver, IsRunning, Receivers
<1>8. OneReceiver' /\ StatusSteps' /\ StatusTruthful'
  BY <1>1, <1>6, <1>7
     DEF ClientInv, TypeOK, OneReceiver, StatusSteps, StatusTruthful
<1> QED BY <1>3, <1>4, <1>5, <1>8 DEF ClientInv

(* What follows the join of stop(): the status is reset, or the client replaced.*)
LEMMA StopStepsInv == ClientInv /\ StopSteps => ClientInv'
<1> SUFFICES ASSUME ClientInv, StopSteps PROVE ClientInv'
  OBVIOUS
<1>1. CASE JoinEnds
  BY <1>1 DEF JoinEnds, signIn, shared, threads, ClientInv, TypeOK, SignedIn, Paging,
     InStop, Bearing, OneReceiver, StatusSteps, StatusTruthful, Receivers, Mine,
     Alive, IsRunning, Stopping
<1>2. CASE JoinTimesOut
  BY <1>2 DEF JoinTimesOut, signIn, threads, ClientInv, TypeOK, SignedIn, Paging,
     InStop, Bearing, OneReceiver, StatusSteps, StatusTruthful, Receivers, Mine,
     Alive, IsRunning, Stopping
<1>3. CASE StopReturns
  <2> USE <1>3 DEF StopReturns
  <2>1. session # 0 /\ stopping[session] /\ (~gaveUp => ~IsRunning)
    BY DEF ClientInv, InStop
  <2>2. CASE reason = "button"
    <3>1. ~gaveUp => Receivers = {}
      BY <2>1, ThreadsAssumption DEF ClientInv, OneReceiver, IsRunning, Receivers
    <3>2. /\ current' = None /\ script' = "ready"
          /\ status' \in {status, "disconnected"} /\ status' \in {"disconnected", "error"} \cup {status}
          /\ UNCHANGED <<signIn, stopping, socket, idle, queue, shown, gaveUp,
                         threads, streamed>>
          /\ reason' = "button"
      BY <2>2
    <3>3. Receivers' = Receivers
      BY <3>2 DEF Receivers, Alive, Mine, threads, signIn
    <3>4. TypeOK' /\ SignedIn' /\ Paging' /\ InStop' /\ Bearing'
      BY <2>2, <3>2 DEF ClientInv, TypeOK, SignedIn, Paging, InStop, Bearing, Alive,
         Stopping, threads, signIn
    <3>5. OneReceiver' /\ StatusSteps' /\ StatusTruthful'
      BY <3>1, <3>2, <3>3
         DEF ClientInv, OneReceiver, StatusSteps, StatusTruthful
    <3> QED BY <3>4, <3>5 DEF ClientInv
  <2>3. CASE reason = "replace"
    <3>1. /\ NewClient(token) /\ UNCHANGED <<token, issued, page>>
          /\ script' = "ready" /\ reason' = "button" /\ UNCHANGED streamed
      BY <2>3
    <3>2. token # 0 /\ session # token /\ page = "realtime"
      BY <2>3 DEF ClientInv, Paging
    <3> QED BY <2>1, <2>3, <3>1, <3>2, NewClientInv DEF ClientInv, SignedIn
  <2>4. CASE reason = "logout"
    BY <2>1, <2>4, NewClientInv
  <2> QED BY <2>2, <2>3, <2>4 DEF ClientInv, TypeOK
<1> QED BY <1>1, <1>2, <1>3 DEF StopSteps

-----------------------------------------------------------------------------
(* A step of a receiver moves it on, or ends it, and leaves the script alone.    *)
LEMMA RunFrame ==
  ASSUME ClientInv, NEW t \in Threads, Run(t)
  PROVE  /\ TypeOK' /\ Alive(t)
         /\ UNCHANGED <<token, issued, session, page, script, reason, streamed,
                        current, stopping, idle, shown, gaveUp>>
         /\ \A u \in Threads \ {t} : phase'[u] = phase[u] /\ bearer'[u] = bearer[u]
         /\ \/ phase'[t] # "ended" /\ bearer'[t] = bearer[t]
            \/ phase'[t] = "ended" /\ bearer'[t] = 0
<1> USE DEF ClientInv, TypeOK, Run, Goes, shared, signIn, Alive, SetSocket, SetStatus
<1>1. CASE ConnectReturns(t)
  BY <1>1 DEF ConnectReturns
<1>2. CASE ConnectRaises(t)
  BY <1>2 DEF ConnectRaises
<1>3. CASE Connected(t)
  BY <1>3 DEF Connected
<1>4. CASE Check(t)
  BY <1>4 DEF Check
<1>5. CASE Receive(t)
  <2>1. got[t] + 1 \in 1 .. MaxReadings
    BY <1>5, ClientBounds DEF Receive
  <2>2. got' = [got EXCEPT ![t] = got[t] + 1] /\ got'[t] = got[t] + 1
    BY <1>5 DEF Receive
  <2>3. queue' \in {queue, Append(queue, got[t] + 1)}
          /\ (queue' # queue => Len(queue) < MaxQueue)
    BY <1>5, <2>2 DEF Receive
  <2>4. queue' \in Seq(1 .. MaxReadings) /\ Len(queue') <= MaxQueue
    <3>1. CASE queue' = queue
      BY <3>1
    <3>2. CASE queue' # queue
      <4>1. /\ Append(queue, got[t] + 1) \in Seq(1 .. MaxReadings)
            /\ Len(Append(queue, got[t] + 1)) = Len(queue) + 1
        BY <2>1, AppendProperties
      <4>2. Len(queue) \in Nat
        BY LenProperties
      <4>3. queue' = Append(queue, got[t] + 1) /\ Len(queue) < MaxQueue
        BY <2>3, <3>2
      <4> QED BY <4>1, <4>2, <4>3, ClientBounds
    <3> QED BY <3>1, <3>2
  <2> QED BY <1>5, <2>1, <2>2, <2>4, ClientBounds DEF Receive
<1>6. CASE ReceiveNothing(t)
  BY <1>6 DEF ReceiveNothing
<1>7. CASE ReceiveRaises(t)
  BY <1>7 DEF ReceiveRaises
<1>8. CASE Closed(t)
  BY <1>8 DEF Closed
<1>9. CASE Judge(t)
  BY <1>9 DEF Judge
<1>10. CASE Report(t)
  <2>1. CASE Goes(t, "finishing", "clearing") /\ SetStatus(t, "disconnected")
    BY <1>10, <2>1 DEF Report
  <2>2. CASE Goes(t, "failing", "clearing") /\ SetStatus(t, "error")
    BY <1>10, <2>2 DEF Report
  <2> QED BY <1>10, <2>1, <2>2 DEF Report
<1>11. CASE Clear(t)
  BY <1>11, ClientBounds DEF Clear
<1> QED BY <1>1, <1>2, <1>3, <1>4, <1>5, <1>6, <1>7, <1>8, <1>9, <1>10, <1>11

(* What a receiver of the present client writes on its way.                    *)
LEMMA RunStatus ==
  ASSUME ClientInv, NEW t \in Threads, Run(t), Mine(t), ~gaveUp, Receivers = {t}
  PROVE  /\ phase'[t] = "opened" => socket' = t
         /\ phase'[t] = "clearing" => status' \in {"disconnected", "error"}
         /\ phase'[t] \in {"checking", "receiving"} =>
              status' = "connected" /\ socket' = t
         /\ phase'[t] = "ended" =>
              status' \in {"disconnected", "error"} /\ socket' = None
<1>1. /\ phase[t] = "opened" => socket = t
      /\ phase[t] = "clearing" => status \in {"disconnected", "error"}
      /\ phase[t] \in {"checking", "receiving"} => status = "connected" /\ socket = t
  BY DEF ClientInv, StatusSteps, StatusTruthful
<1> USE <1>1 DEF ClientInv, TypeOK, Run, Goes, shared, SetSocket, SetStatus
<1>2. CASE ConnectReturns(t) \/ ConnectRaises(t) \/ Connected(t)
  BY <1>2 DEF ConnectReturns, ConnectRaises, Connected
<1>3. CASE Check(t) \/ Receive(t) \/ ReceiveNothing(t) \/ ReceiveRaises(t)
  BY <1>3 DEF Check, Receive, ReceiveNothing, ReceiveRaises
<1>4. CASE Closed(t) \/ Judge(t) \/ Report(t) \/ Clear(t)
  BY <1>4 DEF Closed, Judge, Report, Clear
<1> QED BY <1>2, <1>3, <1>4

(* A receiver of a dropped client writes nothing the page sees.                *)
LEMMA RunUnseen ==
  ASSUME ClientInv, NEW t \in Threads, Run(t), ~Mine(t)
  PROVE  UNCHANGED <<socket, status>>
BY DEF Run, Goes, shared, SetSocket, SetStatus, ConnectReturns, ConnectRaises,
   Connected, Check, Receive, ReceiveNothing, ReceiveRaises, Closed, Judge, Report,
   Clear

(* Every step of a receiver.                                                *)
LEMMA RunInv ==
  ASSUME ClientInv, NEW t \in Threads, Run(t) PROVE ClientInv'
<1>0. /\ TypeOK' /\ Alive(t)
      /\ UNCHANGED <<token, issued, session, page, script, reason, streamed,
                     current, stopping, idle, shown, gaveUp>>
      /\ \A u \in Threads \ {t} : phase'[u] = phase[u] /\ bearer'[u] = bearer[u]
      /\ \/ phase'[t] # "ended" /\ bearer'[t] = bearer[t]
         \/ phase'[t] = "ended" /\ bearer'[t] = 0
  BY RunFrame
<1> USE <1>0
<1>1. SignedIn' /\ Paging'
  <2>1. \A u \in Threads : bearer'[u] \in {bearer[u], 0}
    BY <1>0
  <2>2. issued \in Nat
    BY ClientBounds DEF ClientInv, TypeOK
  <2>3. \A u \in Threads : bearer'[u] <= issued'
    BY <2>1, <2>2 DEF ClientInv, SignedIn
  <2> QED BY <2>1, <2>3 DEF ClientInv, SignedIn, Paging
<1>2. InStop'
  <2>1. ~IsRunning => ~IsRunning'
    BY ThreadsAssumption DEF ClientInv, TypeOK, IsRunning, Alive
  <2> QED BY <2>1 DEF ClientInv, InStop
<1>3. Bearing'
  <2>1. \A u \in Threads : Alive(u)' <=> bearer'[u] # 0
    BY DEF ClientInv, Bearing, Alive
  <2>2. current # None /\ Alive(current)' => bearer'[current] = session
    BY ThreadsAssumption DEF ClientInv, TypeOK, Bearing, Alive
  <2>3. ASSUME NEW u \in Threads, bearer'[u] \notin {0, session}
        PROVE  stopping[bearer'[u]]
    <3>1. bearer'[u] = bearer[u]
      BY <2>3
    <3> QED BY <2>3, <3>1 DEF ClientInv, Bearing, Stopping
  <2> QED BY <2>1, <2>2, <2>3 DEF ClientInv, Bearing, Stopping
<1>4. Receivers' \subseteq Receivers
  BY DEF ClientInv, TypeOK, Bearing, Receivers, Alive, Mine
<1>5. OneReceiver'
  BY <1>4 DEF ClientInv, OneReceiver
<1>6. StatusSteps' /\ StatusTruthful'
  <2>1. CASE gaveUp
    BY <2>1 DEF StatusSteps, StatusTruthful
  <2>2. CASE ~gaveUp /\ ~Mine(t)
    <3>1. UNCHANGED <<socket, status>>
      BY <2>2, RunUnseen
    <3>2. Receivers' = Receivers /\ t \notin Receivers
      BY <2>2 DEF ClientInv, TypeOK, Bearing, Receivers, Alive, Mine
    <3> QED BY <3>1, <3>2 DEF ClientInv, StatusSteps, StatusTruthful, Receivers
  <2>3. CASE ~gaveUp /\ Mine(t)
    <3>1. Receivers = {t}
      BY <2>3 DEF ClientInv, OneReceiver, Receivers
    <3>2. \/ Receivers' = {t} /\ phase'[t] # "ended"
          \/ Receivers' = {} /\ phase'[t] = "ended"
      BY <2>3, <3>1, <1>4 DEF Receivers, Alive, Mine
    <3> QED BY <2>3, <3>1, <3>2, RunStatus DEF StatusSteps, StatusTruthful
  <2> QED BY <2>1, <2>2, <2>3
<1> QED BY <1>1, <1>2, <1>3, <1>5, <1>6 DEF ClientInv

-----------------------------------------------------------------------------

(* A drain touches the queue and the idle time only.                        *)
LEMMA PumpInv == ClientInv /\ Pump => ClientInv'
<1> SUFFICES ASSUME ClientInv, Pump PROVE ClientInv'
  OBVIOUS
<1> USE DEF Pump, signIn, threads
<1>1. queue' \in Seq(1 .. MaxReadings) /\ Len(queue') <= MaxQueue
  <2>1. <<>> \in Seq(1 .. MaxReadings) /\ Len(<<>>) = 0
    BY EmptySeq
  <2> QED BY <2>1, ClientBounds
<1>2. shown' \in 0 .. MaxReadings
  <2>1. CASE queue = <<>>
    BY <2>1 DEF ClientInv, TypeOK
  <2>2. CASE queue # <<>>
    <3>1. queue \in Seq(1 .. MaxReadings) /\ Len(queue) \in 1 .. Len(queue)
      BY <2>2, LenProperties, EmptySeq DEF ClientInv, TypeOK
    <3>2. queue[Len(queue)] \in 1 .. MaxReadings
      BY <3>1, ElementOfSeq
    <3> QED BY <2>2, <3>2, ClientBounds
  <2> QED BY <2>1, <2>2
<1>3. TypeOK'
  BY <1>1, <1>2 DEF ClientInv, TypeOK
<1> QED BY <1>3 DEF ClientInv, SignedIn, Paging, InStop, Bearing, OneReceiver,
           StatusSteps, StatusTruthful, Receivers, Mine, Alive, IsRunning, Stopping

(* The stream and the clock.                                                *)
LEMMA EnvironmentInv ==
  ASSUME ClientInv, Stream \/ (\E k \in Token : IdleTimePasses(k)) PROVE ClientInv'
<1> USE DEF signIn, shared, threads, ClientInv, TypeOK, SignedIn, Paging, InStop,
            Bearing, OneReceiver, StatusSteps, StatusTruthful, Receivers, Mine,
            Alive, IsRunning, Stopping
<1>1. CASE Stream
  BY <1>1, ClientBounds DEF Stream
<1>2. CASE \E k \in Token : IdleTimePasses(k)
  BY <1>2 DEF IdleTimePasses
<1> QED BY <1>1, <1>2

(* Every step of the specification.                                         *)
LEMMA StepInv == ClientInv /\ [Next]_vars => ClientInv'
<1> SUFFICES ASSUME ClientInv, [Next]_vars PROVE ClientInv'
  OBVIOUS
<1>1. CASE UNCHANGED vars
  BY <1>1 DEF vars, signIn, shared, threads, ClientInv, TypeOK, SignedIn, Paging,
     InStop, Bearing, OneReceiver, StatusSteps, StatusTruthful, Receivers, Mine,
     Alive, IsRunning, Stopping
<1>2. CASE Next
  BY <1>2, SignInSteps, OpenPageInv, LogoutInv, DisconnectInv, StartInv,
     StopStepsInv, RunInv, PumpInv, EnvironmentInv DEF Next
<1> QED BY <1>1, <1>2

(* How far the receiver of the present client has come in the stream: beyond    *)
(* what the view has seen and what waits for it.                              *)
Behind(n) == shown <= n /\ \A i \in DOMAIN queue : queue[i] <= n

View ==
  /\ \A t \in Threads : got[t] <= streamed
  /\ ~gaveUp =>
       /\ Behind(streamed)
       /\ \A t \in Receivers : phase[t] \in {"opened", "checking", "receiving"} =>
            Behind(got[t])
  /\ ViewInOrder

LEMMA Numbers ==
  ASSUME ClientInv
  PROVE  /\ streamed \in Nat /\ shown \in Nat /\ \A t \in Threads : got[t] \in Nat
         /\ queue \in Seq(Nat) /\ Len(queue) \in Nat /\ DOMAIN queue = 1 .. Len(queue)
         /\ \A i \in DOMAIN queue : queue[i] \in Nat
<1>1. queue \in Seq(1 .. MaxReadings) /\ 1 .. MaxReadings \subseteq Nat
  BY ClientBounds DEF ClientInv, TypeOK
<1>2. queue \in Seq(Nat)
  BY <1>1, SeqMonotonic
<1>3. streamed \in Nat /\ shown \in Nat /\ \A t \in Threads : got[t] \in Nat
  BY ClientBounds DEF ClientInv, TypeOK
<1> QED BY <1>2, <1>3, LenProperties, ElementOfSeq

(* Steps that leave the queue, the stream and every receiver where they are.   *)
LEMMA ViewKept ==
  ASSUME View, UNCHANGED <<phase, bearer, got, queue, shown, streamed>>,
         session' = session, gaveUp => gaveUp'
  PROVE  View'
BY DEF View, Behind, ViewInOrder, Receivers, Alive, Mine

(* A new client: an empty queue and no receiver.                              *)
LEMMA ViewOfNewClient ==
  ASSUME ClientInv, View, NEW tok, NewClient(tok), tok # 0 => tok # session,
         \A t \in Threads : tok # 0 => bearer[t] # tok, streamed' = streamed
  PROVE  View'
<1>1. Receivers' = {}
  BY DEF ClientInv, Bearing, Receivers, Mine, Alive, NewClient, threads
<1>2. streamed \in Nat /\ shown' = 0 /\ DOMAIN queue' = {} /\ got' = got
  BY ClientBounds, EmptySeq DEF ClientInv, TypeOK, NewClient, threads
<1> QED BY <1>1, <1>2 DEF View, Behind, ViewInOrder

(* Every step of the script.                                                 *)
LEMMA ViewScript ==
  ASSUME ClientInv, View,
         \/ Login \/ Logout \/ Unauthorized \/ OpenPage \/ LeavePage
         \/ Disconnect \/ StopSteps \/ (\E k \in Token : IdleTimePasses(k))
  PROVE  View'
<1> USE DEF signIn, shared, threads
<1>1. CASE Login \/ Unauthorized \/ LeavePage \/ Disconnect \/ JoinEnds \/ JoinTimesOut
  BY <1>1, ViewKept
     DEF Login, Unauthorized, LeavePage, Disconnect, JoinEnds, JoinTimesOut, Stop
<1>2. CASE Logout
  BY <1>2, ViewKept DEF Logout, Stop
<1>3. CASE \E k \in Token : IdleTimePasses(k)
  BY <1>3, ViewKept DEF IdleTimePasses
<1>4. CASE OpenPage
  <2>1. CASE session = 0 /\ NewClient(token) /\ streamed' = streamed
    BY <1>4, <2>1, ViewOfNewClient DEF OpenPage, ClientInv, SignedIn
  <2> QED BY <1>4, <2>1, ViewKept DEF OpenPage, Stop
<1>5. CASE StopReturns
  <2>1. CASE reason = "button"
    BY <1>5, <2>1, ViewKept DEF StopReturns
  <2>2. CASE reason = "replace"
    BY <1>5, <2>2, ViewOfNewClient DEF StopReturns, ClientInv, SignedIn, Paging
  <2>3. CASE reason = "logout"
    BY <1>5, <2>3, ViewOfNewClient DEF StopReturns
  <2> QED BY <1>5, <2>1, <2>2, <2>3 DEF StopReturns
<1> QED BY <1>1, <1>2, <1>3, <1>4, <1>5 DEF StopSteps

(* A new receiver has not connected yet.                                      *)
LEMMA ViewStart == ASSUME ClientInv, View, Start PROVE View'
<1>1. PICK t \in Threads :
        /\ phase' = [phase EXCEPT ![t] = "connecting"]
        /\ bearer' = [bearer EXCEPT ![t] = session]
  BY DEF Start
<1>2. UNCHANGED <<session, got, queue, shown, gaveUp, streamed>>
  BY DEF Start, signIn
<1>3. \A u \in Threads :
        u \in Receivers' /\ phase'[u] \in {"opened", "checking", "receiving"} =>
          u \in Receivers /\ phase'[u] = phase[u]
  BY <1>1, <1>2 DEF ClientInv, TypeOK, Receivers, Alive, Mine
<1>4. Receivers' \subseteq Threads
  BY DEF Receivers
<1> QED BY <1>2, <1>3, <1>4 DEF View, Behind, ViewInOrder

(* The drain shows the last reading of the queue, which is the newest.         *)
LEMMA ViewPump == ASSUME ClientInv, View, Pump PROVE View'
<1>1. UNCHANGED <<session, phase, bearer, got, gaveUp, streamed>> /\ DOMAIN queue' = {}
  BY EmptySeq DEF Pump, signIn, threads
<1>2. shown' = shown \/ (Len(queue) \in DOMAIN queue /\ shown' = queue[Len(queue)])
  <2>1. CASE queue = <<>>
    BY <2>1 DEF Pump
  <2>2. CASE queue # <<>>
    <3>1. Len(queue) \in 1 .. Len(queue) /\ DOMAIN queue = 1 .. Len(queue)
      BY <2>2, LenProperties, EmptySeq DEF ClientInv, TypeOK
    <3> QED BY <2>2, <3>1 DEF Pump
  <2> QED BY <2>1, <2>2
<1>3. \A n : Behind(n) => shown' <= n
  BY <1>2 DEF Behind
<1>4. Receivers' = Receivers
  BY <1>1 DEF Receivers, Alive, Mine
<1>5. ~gaveUp => shown' <= streamed
  BY <1>3 DEF View
<1>6. ASSUME ~gaveUp, NEW t \in Receivers, phase[t] \in {"opened", "checking", "receiving"}
      PROVE  shown' <= got[t]
  BY <1>3, <1>6 DEF View
<1> QED BY <1>1, <1>4, <1>5, <1>6 DEF View, Behind, ViewInOrder

(* The stream goes on.                                                       *)
LEMMA ViewStream == ASSUME ClientInv, View, Stream PROVE View'
<1>1. /\ streamed' = streamed + 1 /\ streamed \in Nat
      /\ \A t \in Threads : got[t] \in Nat
      /\ shown \in Nat /\ \A i \in DOMAIN queue : queue[i] \in Nat
  BY Numbers DEF Stream
<1>2. Behind(streamed) => Behind(streamed)'
  BY <1>1 DEF Behind, Stream, shared
<1>3. \A t \in Threads : got'[t] <= streamed'
  BY <1>1 DEF View, Stream, threads
<1> QED BY <1>2, <1>3
        DEF View, Behind, ViewInOrder, Receivers, Alive, Mine, Stream, signIn, shared,
            threads

(* A receiver that gets nothing stays where it is in the stream, or leaves it.   *)
LEMMA ViewNothing ==
  ASSUME ClientInv, View, NEW t \in Threads, Run(t), UNCHANGED <<got, queue>>,
         phase[t] \in {"opened", "checking", "receiving"}
           \/ phase'[t] \notin {"opened", "checking", "receiving"}
  PROVE  View'
<1>1. /\ UNCHANGED <<session, streamed, shown, gaveUp>>
      /\ \A u \in Threads \ {t} : phase'[u] = phase[u] /\ bearer'[u] = bearer[u]
      /\ \/ phase'[t] # "ended" /\ bearer'[t] = bearer[t]
         \/ phase'[t] = "ended" /\ bearer'[t] = 0
      /\ Alive(t)
  BY RunFrame
<1>2. ASSUME NEW u \in Receivers', phase'[u] \in {"opened", "checking", "receiving"}
      PROVE  u \in Receivers /\ phase[u] \in {"opened", "checking", "receiving"}
  BY <1>1, <1>2 DEF Receivers, Alive, Mine
<1> QED BY <1>1, <1>2 DEF View, Behind, ViewInOrder, Receivers

(* A receiver connects to what is streamed from now on.                        *)
LEMMA ViewConnects ==
  ASSUME ClientInv, View, NEW t \in Threads, Run(t), ConnectReturns(t)
  PROVE  View'
<1>1. /\ UNCHANGED <<session, bearer, queue, streamed, shown, gaveUp>>
      /\ phase' = [phase EXCEPT ![t] = "opened"]
      /\ got' = [got EXCEPT ![t] = streamed]
  BY DEF ConnectReturns, Run, Goes, signIn
<1>2. \A u \in Threads : got'[u] \in {got[u], streamed} /\ got'[t] = streamed
  BY <1>1 DEF ClientInv, TypeOK
<1>3. streamed \in Nat /\ \A u \in Threads : got'[u] <= streamed
  BY <1>2, Numbers DEF View
<1>4. Receivers' \subseteq Receivers
  BY <1>1 DEF ConnectReturns, Goes, ClientInv, TypeOK, Receivers, Alive, Mine
<1>5. \A u \in Threads \ {t} : phase'[u] = phase[u] /\ got'[u] = got[u]
  BY <1>1 DEF ClientInv, TypeOK
<1>6. Receivers \subseteq Threads
  BY DEF Receivers
<1> QED BY <1>1, <1>2, <1>3, <1>4, <1>5, <1>6 DEF View, Behind, ViewInOrder

(* A reading is newer than what waits in the queue, and only the receiver of the *)
(* present client puts it there.                                              *)
LEMMA ViewReceives ==
  ASSUME ClientInv, View, NEW t \in Threads, Run(t), Receive(t)
  PROVE  View'
<1> DEFINE next == got[t] + 1
<1>1. /\ UNCHANGED <<session, bearer, streamed, shown, gaveUp>>
      /\ phase[t] = "receiving" /\ phase' = [phase EXCEPT ![t] = "checking"]
      /\ got' = [got EXCEPT ![t] = next] /\ got[t] < streamed
  BY DEF Receive, Run, Goes, signIn
<1>2. /\ got'[t] = next /\ got[t] \in Nat /\ next <= streamed /\ streamed \in Nat
      /\ \A u \in Threads \ {t} : phase'[u] = phase[u] /\ got'[u] = got[u]
  BY <1>1, ClientBounds DEF ClientInv, TypeOK
<1>3. \A u \in Threads : got'[u] <= streamed
  BY <1>1, <1>2 DEF View
<1>4. Receivers' = Receivers /\ Receivers \subseteq Threads
  BY <1>1 DEF ClientInv, TypeOK, Receivers, Alive, Mine
<1>5. CASE queue' = queue
  <2>1. \A n : Behind(n)' <=> Behind(n)
    BY <1>1, <1>5 DEF Behind
  <2>2. Behind(got[t]) => Behind(next)
    BY <1>2, Numbers DEF Behind
  <2> HIDE DEF next
  <2> QED BY <1>1, <1>2, <1>3, <1>4, <1>5, <2>1, <2>2 DEF View, ViewInOrder
<1>6. CASE queue' # queue
  <2>1. Mine(t) /\ queue' = Append(queue, next)
    BY <1>2, <1>6 DEF Receive
  <2>2. /\ Len(queue) \in Nat /\ DOMAIN queue = 1 .. Len(queue)
        /\ DOMAIN queue' = 1 .. Len(queue) + 1 /\ queue'[Len(queue) + 1] = next
        /\ \A i \in 1 .. Len(queue) : queue'[i] = queue[i] /\ queue[i] \in Nat
        /\ shown \in Nat
    <3>1. next \in Nat
      BY <1>2
    <3> HIDE DEF next
    <3> QED BY <2>1, <3>1, Numbers, AppendProperties
  <2>3. ~gaveUp => Receivers = {t} /\ Behind(got[t])
    BY <1>1, <2>1, <1>4 DEF ClientInv, TypeOK, OneReceiver, View, Receivers, Alive
  <2>4. ~gaveUp => Behind(got[t])'
    BY <1>1, <1>2, <2>2, <2>3 DEF Behind
  <2>5. ~gaveUp => \A i, j \in DOMAIN queue' : i < j => queue'[i] < queue'[j]
    <3> SUFFICES ASSUME ~gaveUp, NEW i \in 1 .. Len(queue) + 1,
                        NEW j \in 1 .. Len(queue) + 1, i < j
                 PROVE  queue'[i] < queue'[j]
      BY <2>2
    <3>1. CASE j = Len(queue) + 1
      BY <1>2, <2>2, <2>3, <3>1 DEF Behind
    <3>2. CASE j # Len(queue) + 1
      BY <2>2, <3>2 DEF View, ViewInOrder
    <3> QED BY <3>1, <3>2
  <2>6. ~gaveUp => \A i \in DOMAIN queue' : shown' < queue'[i]
    BY <1>1, <1>2, <2>2, <2>3 DEF Behind, View, ViewInOrder
  <2>7. ~gaveUp => Behind(streamed)'
    BY <1>1, <1>2, <2>2, <2>4 DEF Behind
  <2> HIDE DEF next
  <2> QED BY <1>1, <1>2, <1>3, <1>4, <2>3, <2>4, <2>5, <2>6, <2>7 DEF View, ViewInOrder
<1> QED BY <1>5, <1>6

(* Every step of a receiver.                                                 *)
LEMMA ViewRun == ASSUME ClientInv, View, NEW t \in Threads, Run(t) PROVE View'
<1> USE DEF Goes, shared, ClientInv, TypeOK
<1>1. CASE Connected(t) \/ Check(t) \/ ReceiveNothing(t) \/ ReceiveRaises(t)
  BY <1>1, ViewNothing DEF Connected, Check, ReceiveNothing, ReceiveRaises
<1>2. CASE ConnectRaises(t) \/ Closed(t) \/ Judge(t) \/ Report(t)
  BY <1>2, ViewNothing DEF ConnectRaises, Closed, Judge, Report
<1>3. CASE Clear(t)
  <2>1. /\ UNCHANGED <<session, queue, streamed, shown, gaveUp>>
        /\ phase' = [phase EXCEPT ![t] = "ended"]
        /\ bearer' = [bearer EXCEPT ![t] = 0] /\ got' = [got EXCEPT ![t] = 0]
    BY <1>3 DEF Clear, Run, signIn
  <2>2. \A u \in Threads : got'[u] \in {got[u], 0} /\ 0 <= streamed
    BY <2>1, ClientBounds
  <2>3. \A u \in Receivers' : u \in Receivers /\ phase'[u] = phase[u] /\ got'[u] = got[u]
    BY <2>1 DEF Receivers, Alive, Mine
  <2> QED BY <2>1, <2>2, <2>3 DEF View, Behind, ViewInOrder, Receivers
<1> QED BY <1>1, <1>2, <1>3, ViewConnects, ViewReceives DEF Run

LEMMA ViewStep == ClientInv /\ View /\ [Next]_vars => View'
<1> SUFFICES ASSUME ClientInv, View, [Next]_vars PROVE View'
  OBVIOUS
<1>1. CASE UNCHANGED vars
  BY <1>1, ViewKept DEF vars, signIn, shared, threads
<1> QED BY <1>1, ViewScript, ViewStart, ViewPump, ViewStream, ViewRun DEF Next

LEMMA InitView == Init => View
<1>1. DOMAIN <<>> = {} /\ 0 <= 0
  BY EmptySeq
<1> QED BY <1>1 DEF Init, View, Behind, ViewInOrder, Receivers, Alive

(* The view gets every reading once and in order, for every number of threads, of *)
(* readings and of places in the queue, as long as no stop() gave up.           *)
THEOREM ViewOrdered == Spec => []ViewInOrder
<1>1. View => ViewInOrder
  BY DEF View
<1> QED BY <1>1, InitInv, StepInv, InitView, ViewStep, PTL DEF Spec

LEMMA ClientInvariant == Spec => []ClientInv
BY InitInv, StepInv, PTL DEF Spec

(* The client's variables keep their types, for every number of threads.        *)
THEOREM ClientTypeOK == Spec => []TypeOK
<1>1. ClientInv => TypeOK
  BY DEF ClientInv
<1> QED BY <1>1, ClientInvariant, PTL

(* As long as no stop() gave up, a client has at most one receiver.             *)
THEOREM ClientOneReceiver == Spec => []OneReceiver
<1>1. ClientInv => OneReceiver
  BY DEF ClientInv
<1> QED BY <1>1, ClientInvariant, PTL

(* As long as no stop() gave up, the status is that of the receiver.            *)
THEOREM ClientStatusTruthful == Spec => []StatusTruthful
<1>1. ClientInv => StatusTruthful
  BY DEF ClientInv
<1> QED BY <1>1, ClientInvariant, PTL

(* Given up or not, no receiver with an old token goes on while the page is up. *)
THEOREM ClientNoStaleReceiver == Spec => []NoStaleReceiver
<1>1. ClientInv => NoStaleReceiver
  BY DEF ClientInv, Paging, Bearing, NoStaleReceiver
<1> QED BY <1>1, ClientInvariant, PTL
=============================================================================
