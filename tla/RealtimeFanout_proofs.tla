------------------------ MODULE RealtimeFanout_proofs ------------------------
(***************************************************************************)
(* The registry keeps every subscriber that is connected, and no subscriber    *)
(* misses a reading, for every set of connections.                             *)
(***************************************************************************)
EXTENDS RealtimeFanout, SharedFacts

(* A walk takes its first target away and meets it no more.                   *)
LEMMA TailOfWalk ==
  ASSUME NEW S, NEW s \in Seq(S), s # <<>>, IsInjective(s)
  PROVE  /\ Head(s) \in S /\ Tail(s) \in Seq(S) /\ IsInjective(Tail(s))
         /\ ToSet(s) = {Head(s)} \cup ToSet(Tail(s))
         /\ Head(s) \notin ToSet(Tail(s))
<1>1. /\ Head(s) \in S /\ Tail(s) \in Seq(S) /\ Len(Tail(s)) = Len(s) - 1
      /\ \A i \in 1 .. Len(Tail(s)) : Tail(s)[i] = s[i + 1]
  BY HeadTailProperties
<1>2. Len(s) \in Nat \ {0} /\ Head(s) = s[1]
  BY LenProperties, EmptySeq
<1>3. \A i, j \in 1 .. Len(s) : s[i] = s[j] => i = j
  BY LenProperties DEF IsInjective
<1>4. \A i, j \in 1 .. Len(Tail(s)) : Tail(s)[i] = Tail(s)[j] => i = j
  <2> SUFFICES ASSUME NEW i \in 1 .. Len(Tail(s)), NEW j \in 1 .. Len(Tail(s)),
                      Tail(s)[i] = Tail(s)[j]
               PROVE  i = j
    OBVIOUS
  <2>1. i + 1 \in 1 .. Len(s) /\ j + 1 \in 1 .. Len(s)
    BY <1>1, <1>2
  <2>2. s[i + 1] = s[j + 1]
    BY <1>1
  <2> QED BY <1>3, <2>1, <2>2
<1>5. IsInjective(Tail(s))
  BY <1>1, <1>4, LenProperties DEF IsInjective
<1>6. ToSet(s) = {Head(s)} \cup ToSet(Tail(s))
  <2>1. ASSUME NEW x \in ToSet(s) PROVE x \in {Head(s)} \cup ToSet(Tail(s))
    <3>1. PICK i \in 1 .. Len(s) : s[i] = x
      BY InToSet
    <3>2. CASE i = 1
      BY <1>2, <3>1, <3>2
    <3>3. CASE i # 1
      <4>1. i - 1 \in 1 .. Len(Tail(s)) /\ Tail(s)[i - 1] = x
        BY <1>1, <1>2, <3>1, <3>3
      <4>2. \E j \in 1 .. Len(Tail(s)) : Tail(s)[j] = x
        BY <4>1
      <4>3. x \in ToSet(Tail(s))
        BY <1>1, <4>2, InToSet, Zenon
      <4> QED BY <4>3
    <3> QED BY <3>2, <3>3
  <2>2. Head(s) \in ToSet(s)
    BY <1>2, InToSet
  <2>3. ASSUME NEW x \in ToSet(Tail(s)) PROVE x \in ToSet(s)
    <3>1. PICK i \in 1 .. Len(Tail(s)) : Tail(s)[i] = x
      BY <1>1, InToSet
    <3>2. i + 1 \in 1 .. Len(s) /\ s[i + 1] = x
      BY <1>1, <1>2, <3>1
    <3> QED BY <3>2, InToSet
  <2> QED BY <2>1, <2>2, <2>3
<1>7. Head(s) \notin ToSet(Tail(s))
  <2> SUFFICES ASSUME Head(s) \in ToSet(Tail(s)) PROVE FALSE
    OBVIOUS
  <2>1. PICK i \in 1 .. Len(Tail(s)) : Tail(s)[i] = Head(s)
    BY <1>1, InToSet
  <2>2. i + 1 \in 1 .. Len(s) /\ 1 \in 1 .. Len(s) /\ s[i + 1] = s[1] /\ i + 1 # 1
    BY <1>1, <1>2, <2>1
  <2> QED BY <1>3, <2>2
<1> QED BY <1>1, <1>5, <1>6, <1>7

(* A walk over a finite set visits every element once.                        *)
LEMMA WalkVisitsAll ==
  ASSUME NEW S, IsFiniteSet(S), NEW s \in SetToSeqs(S)
  PROVE  s \in Seq(S) /\ IsInjective(s) /\ ToSet(s) = S
<1> DEFINE D == 1 .. Cardinality(S)
<1>1. Cardinality(S) \in Nat
  BY FS_CardinalityType
<1>2. s \in [D -> S] /\ \A i, j \in D : i # j => s[i] # s[j]
  BY Zenon DEF SetToSeqs
<1>3. s \in Seq(S) /\ Len(s) = Cardinality(S) /\ DOMAIN s = D
  BY <1>1, <1>2, SeqDef
<1>4. IsInjective(s)
  BY <1>2, <1>3 DEF IsInjective
<1>5. s \in Injection(D, S)
  BY <1>2, <1>4 DEF Injection
<1>6. IsFiniteSet(D) /\ Cardinality(D) = Cardinality(S)
  BY <1>1, FS_Interval
<1>7. s \in Surjection(D, S)
  BY <1>5, <1>6, FS_Injection
<1>8. \A x \in S : \E i \in 1 .. Len(s) : s[i] = x
  BY <1>3, <1>7 DEF Surjection
<1>9. ToSet(s) = S
  <2>1. ToSet(s) \subseteq S
    BY <1>3, InToSet
  <2>2. S \subseteq ToSet(s)
    BY <1>3, <1>8, InToSet
  <2> QED BY <2>1, <2>2
<1> QED BY <1>3, <1>4, <1>9

-----------------------------------------------------------------------------

(* A slot before its registration is known to nobody and has had nothing.     *)
Fresh ==
  \A c \in Clients : handler[c] \in {"none", "handshake"} =>
    last[c] = 0 /\ c \notin registered /\ c \notin ToSet(targets)

(* A walk exists only during a broadcast.                                     *)
Walk == generator # "sending" => targets = <<>>

FanoutInv ==
  /\ TypeOK /\ Fresh /\ Walk
  /\ NoSilentSubscriber /\ NoGap /\ EveryTickBuffered

(* Readings are numbered cyclically.                                          *)
LEMMA SuccessorType ==
  ASSUME NEW n \in {0} \cup Number PROVE Successor(n) \in Number
BY NumberAssumption DEF Number, Successor

(* Nobody is registered and nothing is broadcast.                           *)
LEMMA InitInv == Init => FanoutInv
<1> SUFFICES ASSUME Init PROVE FanoutInv
  OBVIOUS
<1>1. <<>> \in Seq(Clients) /\ IsInjective(<<>>) /\ ToSet(<<>>) = {}
  BY EmptyToSet DEF IsInjective
<1> QED BY <1>1 DEF Init, FanoutInv, TypeOK, Fresh, Walk, NoSilentSubscriber,
                    NoGap, EveryTickBuffered

(* The steps of one connection: the broadcast stays as it is.                  *)
LEMMA ClientInv ==
  ASSUME FanoutInv, NEW c \in Clients, ClientStep(c) PROVE FanoutInv'
<1> USE DEF FanoutInv, TypeOK, Fresh, Walk, NoSilentSubscriber, NoGap,
            EveryTickBuffered, stream
<1>1. CASE Connect(c)
  BY <1>1 DEF Connect
<1>2. CASE Leave(c)
  BY <1>2 DEF Leave
<1>3. CASE Stall(c)
  BY <1>3 DEF Stall
<1>4. CASE Unstall(c)
  BY <1>4 DEF Unstall
<1>5. CASE Forget(c)
  BY <1>5 DEF Forget
<1>6. CASE Reject(c)
  BY <1>6 DEF Reject
<1>7. CASE Register(c)
  BY <1>7 DEF Register
<1>8. CASE SeeDisconnect(c)
  BY <1>8 DEF SeeDisconnect
<1>9. CASE HandlerFails(c)
  BY <1>9 DEF HandlerFails
<1> QED BY <1>1, <1>2, <1>3, <1>4, <1>5, <1>6, <1>7, <1>8, <1>9 DEF ClientStep

(* A tick starts a walk over the whole registry.                              *)
LEMMA TickInv == FanoutInv /\ Tick => FanoutInv'
<1> SUFFICES ASSUME FanoutInv, Tick PROVE FanoutInv'
  OBVIOUS
<1>1. targets' \in Seq(Clients) /\ IsInjective(targets') /\ ToSet(targets') = registered
  <2>1. registered \subseteq Clients /\ IsFiniteSet(registered)
    BY ClientsAssumption, FS_Subset DEF FanoutInv, TypeOK
  <2>2. /\ targets' \in Seq(registered) /\ IsInjective(targets')
        /\ ToSet(targets') = registered
    BY <2>1, WalkVisitsAll DEF Tick
  <2>3. Seq(registered) \subseteq Seq(Clients)
    BY <2>1
  <2> QED BY <2>2, <2>3
<1>2. current' = Successor(current) /\ current' \in Number
  BY SuccessorType DEF Tick, FanoutInv, TypeOK
<1>3. targets = <<>> /\ ToSet(targets) = {} /\ generator = "between"
  BY EmptyToSet DEF FanoutInv, Walk, Tick
<1>4. NoGap'
  BY <1>1, <1>2, <1>3 DEF NoGap, NoSilentSubscriber, FanoutInv, Tick
<1> QED BY <1>1, <1>2, <1>4 DEF Tick, FanoutInv, TypeOK, Fresh, Walk,
           NoSilentSubscriber, EveryTickBuffered

(* A send serves or drops the next target and leaves the others alone.        *)
LEMMA SendInv == FanoutInv /\ (SendReturns \/ SendRaises) => FanoutInv'
<1> SUFFICES ASSUME FanoutInv, SendReturns \/ SendRaises PROVE FanoutInv'
  OBVIOUS
<1> DEFINE h == Head(targets)
<1>1. targets \in Seq(Clients) /\ IsInjective(targets) /\ targets # <<>>
  BY DEF FanoutInv, TypeOK, SendReturns, SendRaises, NextTarget
<1>2. /\ h \in Clients /\ targets' = Tail(targets) /\ targets' \in Seq(Clients)
      /\ IsInjective(targets')
      /\ ToSet(targets) = {h} \cup ToSet(targets')
      /\ h \notin ToSet(targets')
  <2>1. targets' = Tail(targets)
    BY DEF SendReturns, SendRaises, NextTarget
  <2>2. /\ h \in Clients /\ Tail(targets) \in Seq(Clients)
        /\ IsInjective(Tail(targets))
        /\ ToSet(targets) = {h} \cup ToSet(Tail(targets))
        /\ h \notin ToSet(Tail(targets))
    BY <1>1, TailOfWalk, Zenon
  <2> QED BY <2>1, <2>2
<1>3. /\ generator = "sending" /\ generator' = "sending"
      /\ UNCHANGED <<handler, link, current, buffered>>
  BY DEF SendReturns, SendRaises, NextTarget
<1>4. /\ registered' \in {registered, registered \ {h}}
      /\ link[h] # "closed" => registered' = registered
      /\ last' \in {last, [last EXCEPT ![h] = current]}
      /\ link[h] # "closed" => last' = [last EXCEPT ![h] = current]
  BY DEF SendReturns, SendRaises, FanoutInv, TypeOK
<1> HIDE DEF h
<1>5. handler[h] \notin {"none", "handshake"}
  BY <1>2 DEF FanoutInv, Fresh
<1>6. TypeOK'
  BY <1>2, <1>3, <1>4 DEF FanoutInv, TypeOK
<1>7. Fresh'
  BY <1>2, <1>3, <1>4, <1>5 DEF FanoutInv, TypeOK, Fresh
<1>8. NoSilentSubscriber'
  BY <1>2, <1>3, <1>4 DEF FanoutInv, NoSilentSubscriber
<1>9. NoGap'
  BY <1>2, <1>3, <1>4 DEF FanoutInv, TypeOK, NoGap
<1> QED BY <1>3, <1>6, <1>7, <1>8, <1>9 DEF FanoutInv, Walk, EveryTickBuffered

(* Every step of the specification.                                         *)
LEMMA StepInv == FanoutInv /\ [Next]_vars => FanoutInv'
<1> SUFFICES ASSUME FanoutInv, [Next]_vars PROVE FanoutInv'
  OBVIOUS
<1>1. CASE \E c \in Clients : ClientStep(c)
  BY <1>1, ClientInv
<1>2. CASE Tick
  BY <1>2, TickInv
<1>3. CASE SendReturns \/ SendRaises
  BY <1>3, SendInv
<1>4. CASE BroadcastDone
  BY <1>4 DEF BroadcastDone, FanoutInv, TypeOK, Fresh, Walk,
              NoSilentSubscriber, NoGap, EveryTickBuffered
<1>5. CASE Cancel
  <2>1. <<>> \in Seq(Clients) /\ IsInjective(<<>>) /\ ToSet(<<>>) = {}
    BY EmptyToSet DEF IsInjective
  <2> QED BY <1>5, <2>1 DEF Cancel, FanoutInv, TypeOK, Fresh, Walk,
                            NoSilentSubscriber, NoGap, EveryTickBuffered
<1>6. CASE UNCHANGED vars
  BY <1>6 DEF vars, FanoutInv, TypeOK, Fresh, Walk, NoSilentSubscriber,
              NoGap, EveryTickBuffered
<1> QED BY <1>1, <1>2, <1>3, <1>4, <1>5, <1>6 DEF Next, GeneratorStep

LEMMA FanoutInvariant == Spec => []FanoutInv
BY InitInv, StepInv, PTL DEF Spec

(* The variables keep their types, for any finite set of connections.          *)
THEOREM FanoutTypeOK == Spec => []TypeOK
<1>1. FanoutInv => TypeOK
  BY DEF FanoutInv
<1> QED BY <1>1, FanoutInvariant, PTL

(* A connected subscriber stays registered until its socket is gone.           *)
THEOREM FanoutNoSilentSubscriber == Spec => []NoSilentSubscriber
<1>1. FanoutInv => NoSilentSubscriber
  BY DEF FanoutInv
<1> QED BY <1>1, FanoutInvariant, PTL

(* A subscriber gets every reading in turn.                                    *)
THEOREM FanoutNoGap == Spec => []NoGap
<1>1. FanoutInv => NoGap
  BY DEF FanoutInv
<1> QED BY <1>1, FanoutInvariant, PTL

(* Every tick that did not end in a shutdown reaches the buffer.               *)
THEOREM FanoutEveryTickBuffered == Spec => []EveryTickBuffered
<1>1. FanoutInv => EveryTickBuffered
  BY DEF FanoutInv
<1> QED BY <1>1, FanoutInvariant, PTL
=============================================================================
