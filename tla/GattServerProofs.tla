-------------------------- MODULE GattServerProofs --------------------------
(***************************************************************************)
(* Safety of GattServer for any database, period, delays and MTUs.  First, *)
(* what is on its way to the server, and how long the newest byte and its  *)
(* timer have been there: the byte of a period is in force before the next *)
(* one comes as long as a period is longer than two delays and the timer   *)
(* together.  Then, requests and answers: a request is in one place until  *)
(* it is answered.  So the phone that waits for its answers never has its  *)
(* connection shut down, and an execution that was answered leaves no      *)
(* prepared write behind.                                                  *)
(***************************************************************************)
EXTENDS GattServer, SequenceTheorems, TLAPS

(* A sequence, whatever its elements.                                      *)
Listed(s) == s \in Seq({s[i] : i \in 1 .. Len(s)})

(* What is on its way is a sequence, of bytes that were written and other  *)
(* requests.                                                               *)
Messages ==
  /\ Listed(toServer)
  /\ \A i \in 1 .. Len(toServer) :
       /\ toServer[i].op = "Mtu" => toServer[i].client \in Nat
       /\ IsStateWrite(toServer[i]) => toServer[i].number \in 0 .. MaxWrites

(* A write is pending as long as its timer is not off.                     *)
TimerMatchesWrite == pendingWrite = None <=> timer = "off"

TInv == TypeOK /\ Messages /\ TimerMatchesWrite

-----------------------------------------------------------------------------
(* Sequences.                                                              *)

LEMMA OwnElements ==
  ASSUME NEW S, NEW s \in Seq(S)
  PROVE  Listed(s)
<1>1. Len(s) \in Nat /\ s = [i \in 1 .. Len(s) |-> s[i]]
  OBVIOUS
<1> QED
  BY <1>1, SeqDef DEF Listed

(* What is added comes after the others.                                   *)
LEMMA Added ==
  ASSUME NEW s, Listed(s), NEW m
  PROVE  /\ Listed(Append(s, m)) /\ Append(s, m) # <<>>
         /\ Len(s) \in Nat /\ Len(Append(s, m)) = Len(s) + 1
         /\ Append(s, m)[Len(s) + 1] = m
         /\ \A i \in 1 .. Len(s) : Append(s, m)[i] = s[i]
         /\ s \o <<m>> = Append(s, m) /\ s \o <<>> = s
<1> DEFINE S == {s[i] : i \in 1 .. Len(s)} \cup {m}
           t == Append(s, m)
<1>1. s \in Seq(S) /\ m \in S
  BY DEF Listed
<1> HIDE DEF S
<1>2. t \in Seq(S)
  BY <1>1
<1>3. Listed(t)
  BY <1>2, OwnElements
<1>4. /\ Len(s) \in Nat /\ Len(t) = Len(s) + 1 /\ t[Len(s) + 1] = m
      /\ \A i \in 1 .. Len(s) : t[i] = s[i]
      /\ t # <<>>
  BY <1>1
<1>5. s \o <<m>> = t /\ s \o <<>> = s
  BY <1>1
<1> QED
  BY <1>3, <1>4, <1>5

(* Taking the first element leaves the others.                             *)
LEMMA Rest ==
  ASSUME NEW s, Listed(s), s # <<>>
  PROVE  /\ Listed(Tail(s))
         /\ Len(s) \in Nat \ {0} /\ Len(Tail(s)) = Len(s) - 1
         /\ Head(s) = s[1]
         /\ \A i \in 1 .. Len(Tail(s)) : Tail(s)[i] = s[i + 1]
<1> DEFINE S == {s[i] : i \in 1 .. Len(s)}
           t == Tail(s)
<1>1. s \in Seq(S)
  BY DEF Listed
<1> HIDE DEF S
<1>2. t \in Seq(S)
  BY <1>1
<1>3. Listed(t)
  BY <1>2, OwnElements
<1>4. /\ Len(s) \in Nat \ {0} /\ Len(t) = Len(s) - 1 /\ Head(s) = s[1]
      /\ \A i \in 1 .. Len(t) : t[i] = s[i + 1]
  BY <1>1
<1> QED
  BY <1>3, <1>4

LEMMA Sent ==
  ASSUME Messages, NEW m, Send(m)
  PROVE  /\ Len(toServer) \in Nat /\ Len(toServer') = Len(toServer) + 1
         /\ toServer'[Len(toServer')] = m
         /\ \A i \in 1 .. Len(toServer) : toServer'[i] = toServer[i]
         /\ Listed(toServer') /\ toServer' # <<>>
<1>1. Listed(toServer) /\ toServer' = Append(toServer, m)
  BY DEF Messages, Send
<1> HIDE DEF Send
<1> QED
  BY <1>1, Added

LEMMA Taken ==
  ASSUME Messages, toServer # <<>>, toServer' = Tail(toServer)
  PROVE  /\ Len(toServer) \in Nat \ {0} /\ Len(toServer') = Len(toServer) - 1
         /\ Head(toServer) = toServer[1]
         /\ \A i \in 1 .. Len(toServer') : toServer'[i] = toServer[i + 1]
         /\ Listed(toServer')
<1>1. Listed(toServer)
  BY DEF Messages
<1> QED
  BY <1>1, Rest

-----------------------------------------------------------------------------
(* What the phone asks, and what the server does with it.                  *)

(* No other request writes the state.                                      *)
LEMMA RequestWritesNoState ==
  ASSUME NEW r \in Request
  PROVE  ~IsStateWrite(r) /\ (r.op = "Mtu" => r.client \in Nat)
BY StateHandleAssumption, GattServerAssumption DEF Request, IsStateWrite

LEMMA ExploreAsks ==
  ASSUME TypeOK, Explore
  PROVE  \E r : Ask(r) /\ ~IsStateWrite(r) /\ r.op # "Mtu"
<1> DEFINE r == [op |-> CASE phase = "services" -> "ReadByGroupType"
                          [] phase = "characteristics" -> "ReadByType"
                          [] phase = "descriptors" -> "FindInformation",
                 start |-> cursor, end |-> EndOfRange]
<1>1. r.op \in {"ReadByGroupType", "ReadByType", "FindInformation"}
  BY DEF TypeOK, Explore
<1>2. Ask(r)
  BY DEF Explore
<1> HIDE DEF r
<1> QED
  BY <1>1, <1>2 DEF IsStateWrite

(* The byte is taken when no write is pending, and nothing else touches    *)
(* the pending write.                                                      *)
LEMMA HandleStateWrite ==
  ASSUME NEW r, Handle(r), IsStateWrite(r), pendingWrite = None
  PROVE  /\ pendingWrite' = r.op /\ timer' = "armed" /\ age' = 0
         /\ applied' = r.number
<1>1. ~Refused(r)
  BY StateHandleAssumption DEF IsStateWrite, Refused, Permits
<1>2. WriteCb(r)
  BY DEF Handle, IsStateWrite
<1> QED
  BY <1>1, <1>2 DEF WriteCb, Refuse, WriteState, WriteOther, IsStateWrite

LEMMA HandleOther ==
  ASSUME NEW r, Handle(r), ~(IsStateWrite(r) /\ pendingWrite = None)
  PROVE  UNCHANGED <<pendingWrite, timer, age, applied>>
<1>1. CASE r.op \in {"WriteReq", "WriteCmd"} /\ WriteCb(r)
  <2>1. ~WriteState(r)
    BY <1>1 DEF WriteState, IsStateWrite, Refused
  <2> QED
    BY <1>1, <2>1 DEF WriteCb, Refuse, WriteOther, values
<1>2. CASE PrepWriteCb(r)
  BY <1>2 DEF PrepWriteCb, values
<1>3. CASE ExecWriteCb(r)
  BY <1>3 DEF ExecWriteCb
<1>4. CASE ExchangeMtuCb(r)
  BY <1>4 DEF ExchangeMtuCb, server, values
<1>5. CASE UNCHANGED server
  BY <1>5 DEF server, values
<1> QED
  BY <1>1, <1>2, <1>3, <1>4, <1>5 DEF Handle

(* The MTU stays, and the socket is watched or not.                        *)
LEMMA HandleTypes ==
  ASSUME TypeOK, NEW r, Handle(r), r.op = "Mtu" => r.client \in Nat
  PROVE  mtu' = DefaultLeMtu /\ writerActive' \in BOOLEAN
<1>1. \A pdus : Post(pdus) => writerActive' \in BOOLEAN
  BY DEF Post, TypeOK
<1>2. CASE r.op \in {"WriteReq", "WriteCmd"} /\ WriteCb(r)
  BY <1>1, <1>2 DEF WriteCb, Refuse, WriteState, WriteOther, TypeOK
<1>3. CASE PrepWriteCb(r)
  BY <1>1, <1>3 DEF PrepWriteCb, TypeOK
<1>4. CASE ExecWriteCb(r)
  BY <1>1, <1>4 DEF ExecWriteCb, TypeOK
<1>5. CASE r.op = "Mtu" /\ ExchangeMtuCb(r)
  <2>1. r.client \in Nat
    BY <1>5
  <2>2. mtu' = DefaultLeMtu
    BY <1>5, <2>1 DEF ExchangeMtuCb, DefaultLeMtu
  <2> QED
    BY <1>1, <1>5, <2>2 DEF ExchangeMtuCb
<1>6. CASE Post(<<Lookup(r)>>) /\ UNCHANGED <<mtu, server>>
  BY <1>1, <1>6 DEF TypeOK
<1> QED
  BY <1>2, <1>3, <1>4, <1>5, <1>6 DEF Handle

-----------------------------------------------------------------------------
(* Types.                                                                  *)

(* Sending a message of its kind, or none, keeps the messages.             *)
LEMMA SentMessages ==
  ASSUME Messages, NEW m, Send(m),
         m.op = "Mtu" => m.client \in Nat,
         IsStateWrite(m) => m.number \in 0 .. MaxWrites
  PROVE  Messages'
<1>1. \A i \in 1 .. Len(toServer') :
        i = Len(toServer') \/ (i \in 1 .. Len(toServer) /\ toServer'[i] = toServer[i])
  <2>1. /\ Len(toServer) \in Nat /\ Len(toServer') = Len(toServer) + 1
        /\ \A i \in 1 .. Len(toServer) : toServer'[i] = toServer[i]
    BY Sent
  <2> HIDE DEF Send
  <2> QED
    BY <2>1
<1> QED
  BY <1>1, Sent DEF Messages, IsStateWrite

LEMMA TakenMessages ==
  ASSUME Messages, toServer # <<>>, toServer' = Tail(toServer)
  PROVE  Messages'
<1>1. \A i \in 1 .. Len(toServer') :
        i + 1 \in 1 .. Len(toServer) /\ toServer'[i] = toServer[i + 1]
  BY Taken
<1> QED
  BY <1>1, Taken DEF Messages, IsStateWrite

LEMMA InitTypes == Init => TInv
<1> SUFFICES ASSUME Init PROVE TInv
  OBVIOUS
<1>1. TypeOK
  <2>1. /\ written \in 0 .. MaxWrites /\ since \in 0 .. Period /\ age \in 0 .. Timeout
        /\ applied \in 0 .. MaxWrites /\ lag \in 0 .. MaxDelay
    BY GattServerAssumption DEF Init
  <2>2. /\ phase \in {"services", "characteristics", "descriptors", "ready"}
        /\ session \in BOOLEAN /\ link \in {"up", "hungup", "shutdown"}
        /\ io \in BOOLEAN /\ inReq \in BOOLEAN /\ writerActive \in BOOLEAN
        /\ mtu = DefaultLeMtu
        /\ pendingWrite \in {None, "WriteCmd", "WriteReq"}
        /\ timer \in {"off", "armed", "expired"}
        /\ quit \in BOOLEAN /\ running \in BOOLEAN
    BY DEF Init
  <2> QED
    BY <2>1, <2>2 DEF TypeOK
<1>2. Messages
  BY DEF Init, Messages, Listed
<1> QED
  BY <1>1, <1>2 DEF Init, TInv, TimerMatchesWrite

LEMMA AskTypes ==
  ASSUME TInv, NEW r, Ask(r), ~IsStateWrite(r), r.op = "Mtu" => r.client \in Nat
  PROVE  TInv'
<1> USE DEF TInv
<1>1. TypeOK'
  BY GattServerAssumption
     DEF TypeOK, Ask, Waits, search, att, server, values, loop
<1>2. Messages'
  BY SentMessages DEF Ask
<1> QED
  BY <1>1, <1>2 DEF TimerMatchesWrite, Ask, server

LEMMA TaskWritesTypes ==
  ASSUME TInv, TaskWrites
  PROVE  TInv'
<1> USE DEF TInv
<1>1. TypeOK'
  BY GattServerAssumption
     DEF TypeOK, TaskWrites, Waits, search, att, server, values, loop
<1>2. PICK op \in {"WriteCmd", "WriteReq"} :
        Send([op |-> op, handle |-> StateHandle, offset |-> 0, len |-> 1,
              number |-> written + 1])
  BY DEF TaskWrites
<1>3. written + 1 \in 0 .. MaxWrites
  BY GattServerAssumption DEF TypeOK, TaskWrites
<1>4. Messages'
  BY <1>2, <1>3, SentMessages
<1> QED
  BY <1>1, <1>4 DEF TimerMatchesWrite, TaskWrites, server

LEMMA CanReadDataTypes ==
  ASSUME TInv, CanReadData
  PROVE  TInv'
<1> USE DEF TInv
<1> DEFINE r == Head(toServer)
<1>0. toServer # <<>> /\ toServer' = Tail(toServer)
  BY DEF CanReadData
<1>1. Messages'
  BY <1>0, TakenMessages
<1>2. /\ r.op = "Mtu" => r.client \in Nat
      /\ IsStateWrite(r) => r.number \in 0 .. MaxWrites
  <2>1. 1 \in 1 .. Len(toServer) /\ r = toServer[1]
    BY <1>0, Taken
  <2> QED
    BY <2>1 DEF Messages
<1>3. UNCHANGED <<phase, session, written, since, io, quit, running>>
  BY DEF CanReadData, phone, search, loop
<1>4. link' \in {"up", "hungup", "shutdown"} /\ inReq' \in BOOLEAN
  BY DEF CanReadData, TypeOK
<1>5. lag' \in 0 .. MaxDelay
  BY GattServerAssumption DEF CanReadData, Waits, TypeOK
<1>6. CASE UNCHANGED <<writerActive, mtu, server>>
  BY <1>1, <1>3, <1>4, <1>5, <1>6 DEF TypeOK, TimerMatchesWrite, server, values
<1>7. CASE Handle(r)
  <2> HIDE DEF r
  <2>1. mtu' = DefaultLeMtu /\ writerActive' \in BOOLEAN
    BY <1>2, <1>7, HandleTypes
  <2>2. CASE IsStateWrite(r) /\ pendingWrite = None
    <3>1. /\ pendingWrite' = r.op /\ timer' = "armed" /\ age' = 0
          /\ applied' = r.number
      BY <1>7, <2>2, HandleStateWrite
    <3>2. /\ pendingWrite' \in {"WriteCmd", "WriteReq"} /\ pendingWrite' # None
          /\ age' \in 0 .. Timeout /\ applied' \in 0 .. MaxWrites
      BY <1>2, <2>2, <3>1, GattServerAssumption DEF IsStateWrite, None
    <3> QED
      BY <1>1, <1>3, <1>4, <1>5, <2>1, <3>1, <3>2 DEF TypeOK, TimerMatchesWrite
  <2>3. CASE ~(IsStateWrite(r) /\ pendingWrite = None)
    <3>1. UNCHANGED <<pendingWrite, timer, age, applied>>
      BY <1>7, <2>3, HandleOther
    <3> QED
      BY <1>1, <1>3, <1>4, <1>5, <2>1, <3>1 DEF TypeOK, TimerMatchesWrite
  <2> QED
    BY <2>2, <2>3
<1> QED
  BY <1>6, <1>7 DEF CanReadData

(* The other steps send nothing to the server and take nothing from it.    *)
LEMMA OtherTypes ==
  ASSUME TInv,
         \/ Receive \/ HangUp \/ CanWriteData \/ SendNotification
         \/ TimerExpires \/ WriteTimeout \/ DisconnectCb \/ Exit \/ Tick
         \/ UNCHANGED vars
  PROVE  TInv'
<1> USE DEF TInv
<1>0. UNCHANGED toServer => Messages'
  BY DEF Messages, Listed, IsStateWrite
<1> USE GattServerAssumption
    DEF TypeOK, TimerMatchesWrite, phone, search, att, server, values, loop
<1>1. CASE Receive
  <2>1. phase' \in {"services", "characteristics", "descriptors", "ready"}
    BY <1>1 DEF Receive, Learn, NextRange, NextPhase
  <2>2. session' \in BOOLEAN
    BY <1>1 DEF Receive
  <2> QED
    BY <1>0, <1>1, <2>1, <2>2 DEF Receive
<1>2. CASE HangUp
  BY <1>0, <1>2 DEF HangUp
<1>3. CASE CanWriteData
  BY <1>0, <1>3 DEF CanWriteData
<1>4. CASE SendNotification
  BY <1>0, <1>4 DEF SendNotification, Post
<1>5. CASE TimerExpires
  BY <1>0, <1>5 DEF TimerExpires
<1>6. CASE WriteTimeout
  BY <1>0, <1>6 DEF WriteTimeout, Post, Waits, None
<1>7. CASE DisconnectCb
  BY <1>0, <1>7 DEF DisconnectCb
<1>8. CASE Exit
  BY <1>0, <1>8 DEF Exit
<1>9. CASE Tick
  BY <1>0, <1>9 DEF Tick
<1>10. CASE UNCHANGED vars
  BY <1>0, <1>10 DEF vars
<1> QED
  BY <1>1, <1>2, <1>3, <1>4, <1>5, <1>6, <1>7, <1>8, <1>9, <1>10

LEMMA StepTypes == TInv /\ [Next]_vars => TInv'
<1> SUFFICES ASSUME TInv, [Next]_vars PROVE TInv'
  OBVIOUS
<1>1. CASE Explore
  BY <1>1, ExploreAsks, AskTypes DEF TInv
<1>2. CASE \E r \in Request : Ask(r)
  BY <1>2, RequestWritesNoState, AskTypes
<1>3. CASE TaskWrites
  BY <1>3, TaskWritesTypes
<1>4. CASE CanReadData
  BY <1>4, CanReadDataTypes
<1> QED
  BY <1>1, <1>2, <1>3, <1>4, OtherTypes DEF Next, ServerStep, PhoneStep

LEMMA Types == Spec => []TInv
<1> QED
  BY InitTypes, StepTypes, PTL DEF Spec

(* The server's variables keep their types, and the MTU stays the default  *)
(* one whatever MTUs the phone proposes (bt_gatt_server, bt_att).          *)
THEOREM TypesHold == Spec => []TypeOK
<1>1. TInv => TypeOK
  BY DEF TInv
<1> QED
  BY Types, <1>1, PTL

-----------------------------------------------------------------------------
(* The newest byte.  While it is on its way no timer runs, and it has been *)
(* on its way no longer than something may wait; its timer runs no longer  *)
(* than that, the time it is given and another wait.                       *)

NewestOnTheWay ==
  \A i \in 1 .. Len(toServer) :
    IsStateWrite(toServer[i]) =>
      /\ toServer[i].number = written
      /\ since <= lag
      /\ timer = "off"
      /\ \A j \in 1 .. Len(toServer) : IsStateWrite(toServer[j]) => j = i

TimerInTime ==
  /\ timer = "armed" => since <= MaxDelay + age
  /\ timer = "expired" => since <= MaxDelay + Timeout + lag

Punctual == link = "up" => NewestOnTheWay /\ TimerInTime /\ NewestWriteInForce

PInv == TInv /\ Punctual

(* What is not a byte, put behind the others, changes nothing.             *)
LEMMA AskPunctual ==
  ASSUME PInv, NEW r, Ask(r), ~IsStateWrite(r)
  PROVE  Punctual'
<1>1. UNCHANGED <<written, since, link, timer, age, applied>> /\ link = "up" /\ lag' = lag
  <2>1. toServer' # <<>>
    BY Sent DEF Ask, PInv, TInv
  <2> QED
    BY <2>1 DEF Ask, Waits, server, values
<1>2. NewestOnTheWay /\ TimerInTime /\ NewestWriteInForce
  BY <1>1 DEF PInv, Punctual
<1>3. /\ \A i \in 1 .. Len(toServer') :
           IsStateWrite(toServer'[i]) =>
             i \in 1 .. Len(toServer) /\ toServer'[i] = toServer[i]
      /\ \A i \in 1 .. Len(toServer) : i \in 1 .. Len(toServer') /\ toServer'[i] = toServer[i]
  <2>1. /\ Len(toServer) \in Nat /\ Len(toServer') = Len(toServer) + 1
        /\ toServer'[Len(toServer')] = r
        /\ \A i \in 1 .. Len(toServer) : toServer'[i] = toServer[i]
    BY Sent DEF Ask, PInv, TInv
  <2>2. \A i \in 1 .. Len(toServer') : i \in 1 .. Len(toServer) \/ i = Len(toServer')
    BY <2>1
  <2>3. \A i \in 1 .. Len(toServer) : i \in 1 .. Len(toServer')
    BY <2>1
  <2> QED
    BY <2>1, <2>2, <2>3
<1>4. NewestOnTheWay'
  BY <1>1, <1>2, <1>3 DEF NewestOnTheWay, IsStateWrite
<1>5. TimerInTime'
  BY <1>1, <1>2 DEF TimerInTime
<1>6. NewestWriteInForce'
  BY <1>1, <1>2, <1>3 DEF NewestWriteInForce, IsStateWrite
<1> QED
  BY <1>4, <1>5, <1>6 DEF Punctual

(* A byte is written when the one before has been taken and its timer is   *)
(* off again.                                                              *)
LEMMA TaskWritesPunctual ==
  ASSUME Period > 2 * MaxDelay + Timeout, PInv, TaskWrites
  PROVE  Punctual'
<1>0. TypeOK /\ Messages
  BY DEF PInv, TInv
<1>1. NewestOnTheWay /\ TimerInTime
  BY DEF PInv, Punctual, TaskWrites
<1>2. PICK op \in {"WriteCmd", "WriteReq"} :
        Send([op |-> op, handle |-> StateHandle, offset |-> 0, len |-> 1,
              number |-> written + 1])
  BY DEF TaskWrites
<1>3. since = Period /\ lag <= MaxDelay /\ lag \in Nat /\ age <= Timeout /\ age \in Nat
  BY <1>0 DEF TaskWrites, TypeOK
<1>4. \A i \in 1 .. Len(toServer) : ~IsStateWrite(toServer[i])
  BY <1>1, <1>3, GattServerAssumption DEF NewestOnTheWay
<1>5. timer = "off"
  BY <1>0, <1>1, <1>3, GattServerAssumption DEF TimerInTime, TypeOK
<1>6. /\ Len(toServer) \in Nat /\ Len(toServer') = Len(toServer) + 1
      /\ toServer'[Len(toServer')].number = written + 1
      /\ IsStateWrite(toServer'[Len(toServer')])
      /\ \A i \in 1 .. Len(toServer) : ~IsStateWrite(toServer'[i])
  <2>1. /\ Len(toServer) \in Nat /\ Len(toServer') = Len(toServer) + 1
        /\ toServer'[Len(toServer')]
             = [op |-> op, handle |-> StateHandle, offset |-> 0, len |-> 1,
                number |-> written + 1]
        /\ \A i \in 1 .. Len(toServer) : toServer'[i] = toServer[i]
    BY <1>0, <1>2, Sent
  <2> QED
    BY <1>4, <2>1 DEF IsStateWrite
<1>7. since' = 0 /\ written' = written + 1 /\ timer' = timer /\ lag' = lag
  <2>1. toServer' # <<>>
    BY <1>0, <1>2, Sent
  <2> QED
    BY <2>1 DEF TaskWrites, Waits, server
<1>8. \A i \in 1 .. Len(toServer') : IsStateWrite(toServer'[i]) => i = Len(toServer')
  <2>1. \A i \in 1 .. Len(toServer') : i \in 1 .. Len(toServer) \/ i = Len(toServer')
    BY <1>6
  <2> QED
    BY <1>6, <2>1
<1>9. NewestOnTheWay'
  BY <1>3, <1>5, <1>6, <1>7, <1>8 DEF NewestOnTheWay, IsStateWrite
<1>10. TimerInTime'
  BY <1>5, <1>7 DEF TimerInTime
<1>11. NewestWriteInForce'
  <2>1. Len(toServer') \in 1 .. Len(toServer')
    BY <1>6
  <2> QED
    BY <1>6, <2>1 DEF NewestWriteInForce, IsStateWrite
<1> QED
  BY <1>9, <1>10, <1>11 DEF Punctual

(* A byte that is taken is the newest; anything else changes nothing.      *)
LEMMA CanReadDataPunctual ==
  ASSUME PInv, CanReadData
  PROVE  Punctual'
<1> DEFINE r == Head(toServer)
<1>0. TypeOK /\ Messages /\ TimerMatchesWrite
  BY DEF PInv, TInv
<1> SUFFICES ASSUME link' = "up" PROVE Punctual'
  BY DEF Punctual
<1>1. link = "up" /\ Handle(r) /\ toServer # <<>> /\ toServer' = Tail(toServer)
  BY DEF CanReadData
<1>2. NewestOnTheWay /\ TimerInTime /\ NewestWriteInForce
  BY <1>1 DEF PInv, Punctual
<1>3. /\ Len(toServer) \in Nat \ {0} /\ Len(toServer') = Len(toServer) - 1
      /\ r = toServer[1] /\ 1 \in 1 .. Len(toServer)
      /\ \A i \in 1 .. Len(toServer') :
           i + 1 \in 1 .. Len(toServer) /\ i + 1 # 1 /\ toServer'[i] = toServer[i + 1]
  <2>1. /\ Len(toServer) \in Nat \ {0} /\ Len(toServer') = Len(toServer) - 1
        /\ r = toServer[1]
        /\ \A i \in 1 .. Len(toServer') : toServer'[i] = toServer[i + 1]
    BY <1>0, <1>1, Taken
  <2> HIDE DEF r
  <2> QED
    BY <2>1
<1>4. UNCHANGED <<written, since>>
  BY DEF CanReadData, phone
<1> HIDE DEF r
<1>5. CASE IsStateWrite(r)
  <2>1. r.number = written /\ since <= lag /\ timer = "off"
    BY <1>2, <1>3, <1>5 DEF NewestOnTheWay
  <2>2. timer' = "armed" /\ age' = 0 /\ applied' = r.number
    BY <1>0, <1>1, <1>5, <2>1, HandleStateWrite DEF TimerMatchesWrite
  <2>3. \A i \in 1 .. Len(toServer') : ~IsStateWrite(toServer'[i])
    BY <1>2, <1>3, <1>5 DEF NewestOnTheWay
  <2>4. NewestOnTheWay'
    BY <2>3 DEF NewestOnTheWay, IsStateWrite
  <2>5. since <= MaxDelay
    BY <1>0, <2>1, GattServerAssumption DEF TypeOK
  <2>6. TimerInTime'
    BY <1>4, <2>2, <2>5, GattServerAssumption DEF TimerInTime
  <2>7. NewestWriteInForce'
    BY <1>4, <2>1, <2>2 DEF NewestWriteInForce
  <2> QED
    BY <2>4, <2>6, <2>7 DEF Punctual
<1>6. CASE ~IsStateWrite(r)
  <2>1. UNCHANGED <<timer, age, applied>>
    BY <1>1, <1>6, HandleOther
  <2>2. \A i \in 1 .. Len(toServer') : toServer' # <<>>
    BY <1>3
  <2>3. /\ toServer' # <<>> => lag' = lag
        /\ timer = "expired" => lag' = lag
    BY <2>1 DEF CanReadData, Waits
  <2>4. NewestOnTheWay'
    <3> SUFFICES ASSUME NEW i \in 1 .. Len(toServer'), IsStateWrite(toServer'[i])
                 PROVE  /\ toServer'[i].number = written
                        /\ since <= lag /\ timer = "off" /\ lag' = lag
                        /\ \A j \in 1 .. Len(toServer') :
                             IsStateWrite(toServer'[j]) => j = i
      BY <1>4, <2>1 DEF NewestOnTheWay, IsStateWrite
    <3>1. i + 1 \in 1 .. Len(toServer) /\ IsStateWrite(toServer[i + 1])
      BY <1>3
    <3>2. /\ toServer[i + 1].number = written
          /\ since <= lag /\ timer = "off"
          /\ \A j \in 1 .. Len(toServer) : IsStateWrite(toServer[j]) => j = i + 1
      BY <1>2, <3>1 DEF NewestOnTheWay
    <3>3. ASSUME NEW j \in 1 .. Len(toServer'), IsStateWrite(toServer'[j])
          PROVE  j = i
      <4>1. j + 1 \in 1 .. Len(toServer) /\ IsStateWrite(toServer[j + 1])
        BY <1>3, <3>3
      <4>2. j + 1 = i + 1
        BY <3>2, <4>1
      <4> QED
        BY <4>2
    <3> QED
      BY <1>3, <2>2, <2>3, <3>2, <3>3
  <2>5. TimerInTime'
    BY <1>2, <1>4, <2>1, <2>3 DEF TimerInTime
  <2>6. NewestWriteInForce'
    <3> SUFFICES ASSUME \A i \in 1 .. Len(toServer') : ~IsStateWrite(toServer'[i])
                 PROVE  applied = written
      BY <1>4, <2>1 DEF NewestWriteInForce, IsStateWrite
    <3>1. ASSUME NEW i \in 1 .. Len(toServer)
          PROVE  ~IsStateWrite(toServer[i])
      <4>1. CASE i = 1
        BY <1>3, <1>6, <4>1
      <4>2. CASE i # 1
        <5>1. i - 1 \in 1 .. Len(toServer') /\ i = (i - 1) + 1
          BY <1>3, <4>2
        <5> QED
          BY <1>3, <5>1
      <4> QED
        BY <4>1, <4>2
    <3> QED
      BY <1>1, <1>2, <3>1 DEF NewestWriteInForce
  <2> QED
    BY <2>4, <2>5, <2>6 DEF Punctual
<1> QED
  BY <1>5, <1>6

LEMMA OtherPunctual ==
  ASSUME PInv,
         \/ Receive \/ HangUp \/ CanWriteData \/ SendNotification
         \/ TimerExpires \/ WriteTimeout \/ DisconnectCb \/ Exit \/ Tick
         \/ UNCHANGED vars
  PROVE  Punctual'
<1>0. TypeOK
  BY DEF PInv, TInv
<1>1. UNCHANGED <<written, toServer, applied>> /\ (link' = "up" => link = "up")
  BY DEF Receive, HangUp, CanWriteData, SendNotification, TimerExpires, WriteTimeout,
         DisconnectCb, Exit, Tick, vars, phone, att, server, values, loop
<1>2. CASE link' # "up"
  BY <1>2 DEF Punctual
<1>3. CASE link' = "up" /\ UNCHANGED <<since, lag, timer, age>>
  BY <1>1, <1>3 DEF PInv, Punctual, NewestOnTheWay, TimerInTime, NewestWriteInForce,
                    IsStateWrite
<1> SUFFICES ASSUME link' = "up", TimerExpires \/ WriteTimeout \/ Tick
             PROVE  Punctual'
  BY <1>2, <1>3
     DEF Receive, HangUp, CanWriteData, SendNotification, DisconnectCb, Exit, vars,
         phone, att, server, values, loop
<1>4. NewestOnTheWay /\ TimerInTime /\ NewestWriteInForce
  BY <1>1 DEF PInv, Punctual
<1>5. NewestWriteInForce'
  BY <1>1, <1>4 DEF NewestWriteInForce, IsStateWrite
<1>6. CASE TimerExpires
  <2>1. UNCHANGED <<since, lag>> /\ timer = "armed" /\ timer' = "expired" /\ age = Timeout
    BY <1>6 DEF TimerExpires, phone
  <2>2. NewestOnTheWay'
    BY <1>1, <1>4, <2>1 DEF NewestOnTheWay, IsStateWrite
  <2>3. TimerInTime'
    BY <1>0, <1>4, <2>1, GattServerAssumption DEF TimerInTime, TypeOK
  <2> QED
    BY <1>5, <2>2, <2>3 DEF Punctual
<1>7. CASE WriteTimeout
  <2>1. timer = "expired" /\ timer' = "off"
    BY <1>7 DEF WriteTimeout
  <2>2. NewestOnTheWay'
    BY <1>1, <1>4, <2>1 DEF NewestOnTheWay, IsStateWrite
  <2> QED
    BY <1>5, <2>1, <2>2 DEF Punctual, TimerInTime
<1>8. CASE Tick
  <2>1. /\ since' <= since + 1 /\ since \in Nat /\ since' \in Nat /\ lag \in Nat
        /\ timer' = timer
        /\ timer = "armed" => age' = age + 1
        /\ (toServer # <<>> \/ timer = "expired") => lag' = lag + 1
    BY <1>0, <1>8, GattServerAssumption DEF Tick, TypeOK
  <2>2. NewestOnTheWay'
    <3>1. ASSUME NEW i \in 1 .. Len(toServer) PROVE toServer # <<>>
      BY <3>1
    <3> QED
      BY <1>1, <1>4, <2>1, <3>1 DEF NewestOnTheWay, IsStateWrite
  <2>3. TimerInTime'
    BY <1>0, <1>4, <2>1, GattServerAssumption DEF TimerInTime, TypeOK
  <2> QED
    BY <1>5, <2>2, <2>3 DEF Punctual
<1> QED
  BY <1>6, <1>7, <1>8

LEMMA StepPunctual ==
  ASSUME Period > 2 * MaxDelay + Timeout, PInv, [Next]_vars
  PROVE  PInv'
<1>0. TInv'
  BY StepTypes DEF PInv
<1>1. CASE Explore
  BY <1>0, <1>1, ExploreAsks, AskPunctual DEF PInv, TInv
<1>2. CASE \E r \in Request : Ask(r)
  BY <1>0, <1>2, RequestWritesNoState, AskPunctual DEF PInv
<1>3. CASE TaskWrites
  BY <1>0, <1>3, TaskWritesPunctual DEF PInv
<1>4. CASE CanReadData
  BY <1>0, <1>4, CanReadDataPunctual DEF PInv
<1> QED
  BY <1>0, <1>1, <1>2, <1>3, <1>4, OtherPunctual DEF PInv, Next, ServerStep, PhoneStep

(* No byte is lost to the timer of the one before, whatever the period of  *)
(* the sending task, as long as it is longer than the wait for the first   *)
(* byte, its timer and the wait for the timer (the 200 ms of remote.java   *)
(* against the 50 ms of gatt-db.c).                                        *)
THEOREM NewestWriteStaysInForce ==
  ASSUME Period > 2 * MaxDelay + Timeout
  PROVE  Spec => []NewestWriteInForce
<1>1. Init => PInv
  <2>1. Init => Punctual
    BY DEF Init, Punctual, NewestOnTheWay, TimerInTime, NewestWriteInForce
  <2> QED
    BY <2>1, InitTypes DEF PInv
<1>2. PInv /\ [Next]_vars => PInv'
  BY StepPunctual
<1>3. PInv => NewestWriteInForce
  BY DEF PInv, Punctual, NewestWriteInForce
<1> QED
  BY <1>1, <1>2, <1>3, PTL DEF Spec

-----------------------------------------------------------------------------
(* Requests and answers.                                                   *)

Ops == {"ReadByGroupType", "ReadByType", "FindInformation", "FindByTypeValue",
        "ReadBlob", "ReadMultiple", "WriteReq", "WriteCmd", "PrepWrite", "ExecWrite",
        "Mtu", "Unsupported"}

(* What the phone sends is known to the server; commands write the state.  *)
Known ==
  \A i \in 1 .. Len(toServer) :
    /\ toServer[i].op \in Ops
    /\ toServer[i].op = "WriteCmd" => IsStateWrite(toServer[i])

Single(S) == \A i, j \in S : i = j

(* At most one request is on its way, and none while one is served.        *)
OneRequest ==
  /\ link # "shutdown"
  /\ Single(Asked)
  /\ Asked # {} => ~inReq

(* The places exclude each other, and the server knows of those it serves. *)
Places ==
  /\ Single(Queued) /\ Single(Delivered)
  /\ Asked # {} => Queued = {} /\ Delivered = {} /\ ~Timed
  /\ Queued # {} => Delivered = {} /\ ~Timed
  /\ Delivered # {} => ~Timed
  /\ outstanding # None <=> Asked # {} \/ Queued # {} \/ Delivered # {} \/ Timed
  /\ inReq <=> Queued # {} \/ Timed

(* A queue that is not empty belongs to a session, which is older than any *)
(* prepared write and ends with the answer to an execution.                *)
PreparedInSession ==
  /\ prepQueue # <<>> => session
  /\ \A i \in Asked : toServer[i].op = "PrepWrite" => session
  /\ \A i \in Queued : writeQueue[i].re = "ExecWrite" => prepQueue = <<>>
  /\ \A i \in Delivered : toPhone[i].re = "ExecWrite" => prepQueue = <<>>

WhileUp ==
  link = "up" =>
    io /\ Listed(writeQueue) /\ Listed(toPhone) /\ Places /\ PreparedInSession

AInv == TInv /\ Known /\ OneRequest /\ WhileUp

-----------------------------------------------------------------------------
(* Where a message goes.                                                   *)

LEMMA SentAsked ==
  ASSUME Messages, NEW m, Send(m)
  PROVE  /\ m.op = "WriteCmd" => Asked' = Asked
         /\ m.op # "WriteCmd" /\ Asked = {} => Asked' = {Len(toServer')}
         /\ \A i \in Asked : i \in 1 .. Len(toServer) /\ toServer'[i] = toServer[i]
         /\ toServer'[Len(toServer')] = m
<1>1. /\ Len(toServer) \in Nat /\ Len(toServer') = Len(toServer) + 1
      /\ toServer'[Len(toServer')] = m
      /\ \A i \in 1 .. Len(toServer) : toServer'[i] = toServer[i]
  BY Sent
<1> HIDE DEF Send
<1>2. 1 .. Len(toServer') = (1 .. Len(toServer)) \cup {Len(toServer')}
  BY <1>1
<1> QED
  BY <1>1, <1>2 DEF Asked

LEMMA TakenAsked ==
  ASSUME Messages, toServer # <<>>, toServer' = Tail(toServer)
  PROVE  /\ \A i \in Asked' : i + 1 \in Asked /\ toServer'[i] = toServer[i + 1]
         /\ Single(Asked) => Single(Asked')
         /\ Single(Asked) /\ Head(toServer).op # "WriteCmd" => Asked # {} /\ Asked' = {}
         /\ Head(toServer).op = "WriteCmd" => (Asked = {} <=> Asked' = {})
<1>1. /\ Len(toServer) \in Nat \ {0} /\ Len(toServer') = Len(toServer) - 1
      /\ Head(toServer) = toServer[1]
      /\ \A i \in 1 .. Len(toServer') : toServer'[i] = toServer[i + 1]
  BY Taken
<1>2. \A i \in 1 .. Len(toServer') : i + 1 \in 1 .. Len(toServer) /\ i \in Nat
  BY <1>1
<1>3. \A i \in Asked' : i + 1 \in Asked /\ toServer'[i] = toServer[i + 1] /\ i \in Nat
  BY <1>1, <1>2 DEF Asked
<1>4. Single(Asked) => Single(Asked')
  <2> SUFFICES ASSUME Single(Asked), NEW i \in Asked', NEW j \in Asked'
               PROVE  i = j
    BY DEF Single
  <2>1. i + 1 = j + 1 /\ i \in Nat /\ j \in Nat
    BY <1>3 DEF Single
  <2> QED
    BY <2>1
<1>5. 1 \in 1 .. Len(toServer)
  BY <1>1
<1>6. ASSUME Single(Asked), Head(toServer).op # "WriteCmd"
      PROVE  Asked # {} /\ Asked' = {}
  <2>1. 1 \in Asked
    BY <1>1, <1>5, <1>6 DEF Asked
  <2>2. ASSUME NEW i \in Asked' PROVE FALSE
    <3>1. i + 1 = 1 /\ i \in 1 .. Len(toServer')
      BY <1>3, <1>6, <2>1 DEF Single, Asked
    <3> QED
      BY <3>1
  <2> QED
    BY <2>1, <2>2
<1>7. ASSUME Head(toServer).op = "WriteCmd"
      PROVE  Asked = {} <=> Asked' = {}
  <2>1. ASSUME NEW i \in Asked PROVE i - 1 \in Asked'
    <3>1. i # 1 /\ i \in 1 .. Len(toServer)
      BY <1>1, <1>7 DEF Asked
    <3>2. i - 1 \in 1 .. Len(toServer') /\ toServer'[i - 1] = toServer[i]
      BY <1>1, <3>1
    <3> QED
      BY <3>2 DEF Asked
  <2> QED
    BY <1>3, <2>1
<1> QED
  BY <1>3, <1>4, <1>6, <1>7

LEMMA AddedAnswers ==
  ASSUME NEW s, Listed(s), NEW m
  PROVE  /\ m = Notification => Answers(Append(s, m)) = Answers(s)
         /\ m # Notification /\ Answers(s) = {} => Answers(Append(s, m)) = {Len(s) + 1}
         /\ \A i \in Answers(s) : Append(s, m)[i] = s[i]
         /\ Append(s, m)[Len(s) + 1] = m
<1> DEFINE t == Append(s, m)
<1>1. /\ Len(s) \in Nat /\ Len(t) = Len(s) + 1 /\ t[Len(s) + 1] = m
      /\ \A i \in 1 .. Len(s) : t[i] = s[i]
  BY Added
<1> HIDE DEF t
<1>2. 1 .. Len(t) = (1 .. Len(s)) \cup {Len(s) + 1}
  BY <1>1
<1>3. /\ m = Notification => Answers(t) = Answers(s)
      /\ m # Notification /\ Answers(s) = {} => Answers(t) = {Len(s) + 1}
      /\ \A i \in Answers(s) : t[i] = s[i]
  BY <1>1, <1>2 DEF Answers
<1> QED
  BY <1>1, <1>3 DEF t

LEMMA RestAnswers ==
  ASSUME NEW s, Listed(s), s # <<>>, Single(Answers(s))
  PROVE  /\ Head(s) # Notification => Answers(s) = {1} /\ Answers(Tail(s)) = {}
         /\ Head(s) = Notification => (Answers(s) = {} <=> Answers(Tail(s)) = {})
         /\ Single(Answers(Tail(s)))
         /\ \A i \in Answers(Tail(s)) : i + 1 \in Answers(s) /\ Tail(s)[i] = s[i + 1]
         /\ Head(s) = s[1]
<1> DEFINE t == Tail(s)
<1>1. /\ Len(s) \in Nat \ {0} /\ Len(t) = Len(s) - 1 /\ Head(s) = s[1]
      /\ \A i \in 1 .. Len(t) : t[i] = s[i + 1]
  BY Rest
<1> HIDE DEF t
<1>2. \A i \in 1 .. Len(t) : i + 1 \in 1 .. Len(s) /\ i \in Nat /\ i + 1 # 1
  BY <1>1
<1>3. \A i \in Answers(t) :
        i + 1 \in Answers(s) /\ t[i] = s[i + 1] /\ i \in Nat /\ i + 1 # 1
  BY <1>1, <1>2 DEF Answers
<1>4. Single(Answers(t))
  <2> SUFFICES ASSUME NEW i \in Answers(t), NEW j \in Answers(t)
               PROVE  i = j
    BY DEF Single
  <2>1. i + 1 = j + 1 /\ i \in Nat /\ j \in Nat
    BY <1>3 DEF Single
  <2> QED
    BY <2>1
<1>5. Head(s) # Notification => Answers(s) = {1} /\ Answers(t) = {}
  <2> SUFFICES ASSUME Head(s) # Notification
               PROVE  Answers(s) = {1} /\ Answers(t) = {}
    OBVIOUS
  <2>1. 1 \in Answers(s)
    BY <1>1 DEF Answers
  <2> QED
    BY <1>3, <2>1 DEF Single
<1>6. Head(s) = Notification => (Answers(s) = {} <=> Answers(t) = {})
  <2> SUFFICES ASSUME Head(s) = Notification, NEW i \in Answers(s)
               PROVE  Answers(t) # {}
    BY <1>3
  <2>1. i # 1 /\ i \in 1 .. Len(s)
    BY <1>1 DEF Answers
  <2>2. i - 1 \in 1 .. Len(t) /\ t[i - 1] = s[i]
    BY <1>1, <2>1
  <2> QED
    BY <2>2 DEF Answers
<1> QED
  BY <1>1, <1>3, <1>4, <1>5, <1>6 DEF t

-----------------------------------------------------------------------------
(* What is asked and how it is answered.                                   *)

(* A phone that knows the database asks what the server knows.             *)
LEMMA RequestKnown ==
  ASSUME NEW r \in Request
  PROVE  r.op \in Ops \ {"WriteCmd"}
BY DEF Request, Ops

LEMMA ExploreKnown ==
  ASSUME TypeOK, Explore
  PROVE  \E r : /\ Ask(r) /\ ~IsStateWrite(r) /\ r.op \notin {"Mtu", "PrepWrite"}
                /\ r.op \in Ops \ {"WriteCmd"}
<1> DEFINE r == [op |-> CASE phase = "services" -> "ReadByGroupType"
                          [] phase = "characteristics" -> "ReadByType"
                          [] phase = "descriptors" -> "FindInformation",
                 start |-> cursor, end |-> EndOfRange]
<1>1. r.op \in {"ReadByGroupType", "ReadByType", "FindInformation"}
  BY DEF TypeOK, Explore
<1>2. Ask(r)
  BY DEF Explore
<1> HIDE DEF r
<1> QED
  BY <1>1, <1>2 DEF IsStateWrite, Ops

(* An answer says what it answers, and is no notification.                 *)
LEMMA AnswerKinds ==
  ASSUME NEW r, r.op \in Ops
  PROVE  /\ Err(r) # Notification /\ Err(r).re = r.op
         /\ \A e : Rsp(r, e) # Notification /\ Rsp(r, e).re = r.op
         /\ \A e : Found(r, e) # Notification /\ Found(r, e).re = r.op
         /\ \A ok : Verdict(r, ok) # Notification /\ Verdict(r, ok).re = r.op
<1>1. r.op # None
  BY DEF Ops, None
<1>2. Notification.re = None /\ Err(r).re = r.op /\ \A e : Rsp(r, e).re = r.op
  BY DEF Notification, Err, Rsp
<1> QED
  BY <1>1, <1>2 DEF Found, Verdict

LEMMA LookupAnswers ==
  ASSUME NEW r, r.op \in Ops,
         r.op \notin {"WriteReq", "WriteCmd", "PrepWrite", "ExecWrite", "Mtu"}
  PROVE  Lookup(r) # Notification /\ Lookup(r).re = r.op
<1> DEFINE Good(a) == a # Notification /\ a.re = r.op
<1>0. /\ Good(Err(r)) /\ \A e : Good(Rsp(r, e))
      /\ \A e : Good(Found(r, e))
  BY AnswerKinds
<1> SUFFICES Good(Lookup(r))
  OBVIOUS
<1> HIDE DEF Good
<1>1. CASE r.op = "ReadByGroupType"
  BY <1>0, <1>1 DEF Lookup
<1>2. CASE r.op = "ReadByType"
  BY <1>0, <1>2 DEF Lookup
<1>3. CASE r.op = "FindInformation"
  BY <1>0, <1>3 DEF Lookup
<1>4. CASE r.op = "FindByTypeValue"
  BY <1>0, <1>4 DEF Lookup
<1>5. CASE r.op = "ReadBlob"
  BY <1>0, <1>5 DEF Lookup
<1>6. CASE r.op = "ReadMultiple"
  BY <1>0, <1>6 DEF Lookup
<1>7. CASE r.op = "Unsupported"
  BY <1>0, <1>7 DEF Lookup
<1> QED
  BY <1>1, <1>2, <1>3, <1>4, <1>5, <1>6, <1>7 DEF Ops

(* A request is answered at once, or it is a write under a timer.          *)
LEMMA HandleRequest ==
  ASSUME io, NEW r, Handle(r), r.op \in Ops \ {"WriteCmd"}
  PROVE  /\ \/ /\ \E m : /\ m # Notification /\ m.re = r.op
                         /\ writeQueue' = writeQueue \o <<m>>
               /\ UNCHANGED <<pendingWrite, timer>>
            \/ /\ UNCHANGED writeQueue
               /\ r.op = "WriteReq" /\ pendingWrite' = "WriteReq" /\ timer' = "armed"
         /\ \/ prepQueue' = prepQueue /\ r.op # "ExecWrite"
            \/ prepQueue' = <<>>
            \/ r.op = "PrepWrite"
<1>0. \A m : Post(<<m>>) => writeQueue' = writeQueue \o <<m>>
  BY DEF Post
<1>1. /\ Err(r) # Notification /\ Err(r).re = r.op
      /\ \A e : Rsp(r, e) # Notification /\ Rsp(r, e).re = r.op
      /\ \A ok : Verdict(r, ok) # Notification /\ Verdict(r, ok).re = r.op
  BY AnswerKinds
<1>2. CASE r.op = "WriteReq" /\ WriteCb(r)
  <2>1. CASE Refuse(r)
    BY <1>0, <1>1, <1>2, <2>1 DEF WriteCb, Refuse
  <2>2. CASE WriteState(r)
    BY <1>2, <2>2 DEF WriteCb, WriteState
  <2>3. CASE WriteOther(r)
    BY <1>0, <1>1, <1>2, <2>3 DEF WriteCb, WriteOther
  <2> QED
    BY <1>2, <2>1, <2>2, <2>3 DEF WriteCb
<1>3. CASE r.op = "PrepWrite" /\ PrepWriteCb(r)
  BY <1>0, <1>1, <1>3 DEF PrepWriteCb
<1>4. CASE r.op = "ExecWrite" /\ ExecWriteCb(r)
  BY <1>0, <1>1, <1>4 DEF ExecWriteCb
<1>5. CASE r.op = "Mtu" /\ ExchangeMtuCb(r)
  BY <1>0, <1>1, <1>5 DEF ExchangeMtuCb, server
<1>6. CASE /\ r.op \notin {"WriteReq", "WriteCmd", "PrepWrite", "ExecWrite", "Mtu"}
           /\ Post(<<Lookup(r)>>) /\ UNCHANGED <<mtu, server>>
  BY <1>0, <1>6, LookupAnswers DEF server
<1> QED
  BY <1>2, <1>3, <1>4, <1>5, <1>6 DEF Handle

(* A command answers nothing, and does not disturb the request served.     *)
LEMMA HandleCommand ==
  ASSUME io, Listed(writeQueue), NEW r, Handle(r), r.op = "WriteCmd", IsStateWrite(r)
  PROVE  UNCHANGED <<writeQueue, prepQueue>> /\ Timed' = Timed
<1>1. WriteCb(r) /\ ~WriteOther(r)
  BY DEF Handle, IsStateWrite, WriteOther
<1>2. CASE Refuse(r)
  <2>1. writeQueue' = writeQueue \o <<>>
    BY <1>2 DEF Refuse, Post
  <2>2. writeQueue \o <<>> = writeQueue
    BY Added
  <2> QED
    BY <1>1, <1>2, <2>1, <2>2 DEF Refuse, WriteCb, Timed
<1>3. CASE WriteState(r)
  <2>1. pendingWrite = None /\ pendingWrite' = "WriteCmd"
    BY <1>3 DEF WriteState, Refused
  <2> QED
    BY <1>1, <1>3, <2>1 DEF WriteState, WriteCb, Timed, None
<1> QED
  BY <1>1, <1>2, <1>3 DEF WriteCb

-----------------------------------------------------------------------------
(* The phone's steps.                                                      *)

LEMMA SentKnown ==
  ASSUME Messages, Known, NEW m, Send(m), m.op \in Ops,
         m.op = "WriteCmd" => IsStateWrite(m)
  PROVE  Known'
<1>1. \A i \in 1 .. Len(toServer') :
        \/ toServer'[i] = m
        \/ i \in 1 .. Len(toServer) /\ toServer'[i] = toServer[i]
  <2>1. /\ Len(toServer) \in Nat /\ Len(toServer') = Len(toServer) + 1
        /\ toServer'[Len(toServer')] = m
        /\ \A i \in 1 .. Len(toServer) : toServer'[i] = toServer[i]
    BY Sent
  <2> HIDE DEF Send
  <2> QED
    BY <2>1
<1> QED
  BY <1>1 DEF Known, IsStateWrite

(* A request is sent while none is in flight.                              *)
LEMMA AskedAlone ==
  ASSUME AInv, link = "up", outstanding = None, NEW m, Send(m),
         m.op \in Ops \ {"WriteCmd"}, outstanding' = m.op,
         m.op = "PrepWrite" => session', session => session',
         UNCHANGED <<link, toPhone, io, inReq, writeQueue, pendingWrite, prepQueue, timer>>
  PROVE  Known' /\ OneRequest' /\ WhileUp'
<1>0. Messages /\ Known /\ OneRequest /\ Places /\ PreparedInSession
      /\ io /\ Listed(writeQueue) /\ Listed(toPhone)
  BY DEF AInv, TInv, WhileUp
<1>1. Asked = {} /\ Queued = {} /\ Delivered = {} /\ ~Timed /\ ~inReq
  BY <1>0 DEF Places
<1>2. Asked' = {Len(toServer')} /\ toServer'[Len(toServer')] = m
  BY <1>0, <1>1, SentAsked
<1>3. Queued' = {} /\ Delivered' = {} /\ ~Timed'
  BY <1>1 DEF Queued, Delivered, Answers, Timed
<1>4. Known'
  BY <1>0, SentKnown
<1>5. OneRequest'
  BY <1>0, <1>1, <1>2 DEF OneRequest, Single
<1>6. outstanding' # None
  BY DEF Ops, None
<1> HIDE DEF Send
<1>7. Places'
  BY <1>1, <1>2, <1>3, <1>6 DEF Places, Single
<1>8. PreparedInSession'
  BY <1>0, <1>2, <1>3 DEF PreparedInSession
<1>9. io' /\ Listed(writeQueue)' /\ Listed(toPhone)'
  BY <1>0 DEF Listed
<1> QED
  BY <1>4, <1>5, <1>7, <1>8, <1>9 DEF WhileUp

LEMMA AskAnswers ==
  ASSUME AInv, NEW r, Ask(r), r.op \in Ops \ {"WriteCmd"}
  PROVE  Known' /\ OneRequest' /\ WhileUp'
<1>1. /\ link = "up" /\ outstanding = None /\ Send(r) /\ outstanding' = r.op
      /\ r.op = "PrepWrite" => session'
      /\ session => session'
      /\ UNCHANGED <<link, toPhone, io, inReq, writeQueue, pendingWrite, prepQueue, timer>>
  BY DEF Ask, att, server
<1> QED
  BY <1>1, AskedAlone

LEMMA TaskWritesAnswers ==
  ASSUME AInv, TaskWrites
  PROVE  Known' /\ OneRequest' /\ WhileUp'
<1>0. Messages /\ Known /\ OneRequest /\ Places /\ PreparedInSession
      /\ io /\ Listed(writeQueue) /\ Listed(toPhone) /\ link = "up"
  BY DEF AInv, TInv, WhileUp, TaskWrites
<1> DEFINE byte(op) == [op |-> op, handle |-> StateHandle, offset |-> 0, len |-> 1,
                        number |-> written + 1]
<1>1. UNCHANGED <<session, link, toPhone, io, inReq, writeQueue, pendingWrite, prepQueue,
                  timer>>
  BY DEF TaskWrites, att, server
<1>2. CASE Send(byte("WriteCmd")) /\ UNCHANGED outstanding
  <2>1. Asked' = Asked /\ \A i \in Asked : toServer'[i] = toServer[i]
    BY <1>0, <1>2, SentAsked
  <2>2. Known'
    BY <1>0, <1>2, SentKnown DEF IsStateWrite, Ops
  <2>3. Queued' = Queued /\ Delivered' = Delivered /\ Timed' = Timed
    BY <1>1 DEF Queued, Delivered, Answers, Timed
  <2>4. OneRequest' /\ Places' /\ PreparedInSession'
    BY <1>0, <1>1, <1>2, <2>1, <2>3 DEF OneRequest, Places, PreparedInSession, Single
  <2>5. io' /\ Listed(writeQueue)' /\ Listed(toPhone)'
    BY <1>0, <1>1 DEF Listed
  <2> QED
    BY <2>2, <2>4, <2>5 DEF WhileUp
<1>3. CASE /\ Send(byte("WriteReq"))
           /\ outstanding = None /\ outstanding' = "WriteReq"
  <2> DEFINE m == byte("WriteReq")
  <2>1. m.op = "WriteReq" /\ Send(m)
    BY <1>3
  <2> HIDE DEF m
  <2>2. m.op \in Ops \ {"WriteCmd"} /\ m.op # "PrepWrite" /\ outstanding' = m.op
    BY <1>3, <2>1 DEF Ops
  <2> QED
    BY <1>0, <1>1, <1>3, <2>1, <2>2, AskedAlone
<1> QED
  BY <1>2, <1>3 DEF TaskWrites

(* The first answer that arrives is the one the phone waits for.           *)
LEMMA ReceiveAnswers ==
  ASSUME AInv, Receive
  PROVE  Known' /\ OneRequest' /\ WhileUp'
<1>0. Known /\ OneRequest /\ Places /\ PreparedInSession
      /\ io /\ Listed(writeQueue) /\ Listed(toPhone) /\ link = "up"
  BY DEF AInv, WhileUp, Receive
<1>1. /\ UNCHANGED <<link, toServer, io, inReq, writeQueue, pendingWrite, prepQueue, timer>>
      /\ toPhone # <<>> /\ toPhone' = Tail(toPhone)
  BY DEF Receive, att, server
<1>2. Asked' = Asked /\ Queued' = Queued /\ Timed' = Timed /\ Known' /\ OneRequest'
  BY <1>0, <1>1 DEF Asked, Queued, Answers, Timed, Known, OneRequest, IsStateWrite
<1>3. io' /\ Listed(writeQueue)' /\ Listed(toPhone')
  <2>1. Listed(toPhone')
    BY <1>0, <1>1, Rest
  <2> QED
    BY <1>0, <1>1, <2>1 DEF Listed
<1>4. /\ Head(toPhone) # Notification => Delivered = {1} /\ Delivered' = {}
      /\ Head(toPhone) = Notification => (Delivered = {} <=> Delivered' = {})
      /\ Single(Delivered')
      /\ \A i \in Delivered' : i + 1 \in Delivered /\ toPhone'[i] = toPhone[i + 1]
      /\ Head(toPhone) = toPhone[1]
  BY <1>0, <1>1, RestAnswers DEF Places, Delivered
<1>5. CASE Head(toPhone) = Notification
  <2>1. UNCHANGED <<outstanding, session>>
    BY <1>5 DEF Receive
  <2>2. Places'
    BY <1>0, <1>1, <1>2, <1>4, <1>5, <2>1 DEF Places
  <2>3. PreparedInSession'
    BY <1>0, <1>1, <1>2, <1>4, <2>1 DEF PreparedInSession
  <2> QED
    BY <1>2, <1>3, <2>2, <2>3 DEF WhileUp
<1>6. CASE Head(toPhone) # Notification
  <2>1. outstanding' = None /\ (session' <=> session /\ Head(toPhone).re # "ExecWrite")
    BY <1>6 DEF Receive
  <2>2. Asked = {} /\ Queued = {} /\ ~Timed /\ Delivered' = {}
    BY <1>0, <1>4, <1>6 DEF Places
  <2>3. Places'
    BY <1>0, <1>1, <1>2, <2>1, <2>2 DEF Places, Single
  <2>4. Head(toPhone).re = "ExecWrite" => prepQueue = <<>>
    BY <1>0, <1>4, <1>6 DEF PreparedInSession
  <2>5. PreparedInSession'
    BY <1>0, <1>1, <1>2, <2>1, <2>2, <2>4 DEF PreparedInSession
  <2> QED
    BY <1>2, <1>3, <2>3, <2>5 DEF WhileUp
<1> QED
  BY <1>5, <1>6

-----------------------------------------------------------------------------
(* The server's steps.                                                     *)

(* A request that is taken finds none served; it is answered or pending.   *)
LEMMA CanReadDataAnswers ==
  ASSUME AInv, CanReadData
  PROVE  Known' /\ OneRequest' /\ WhileUp'
<1> DEFINE r == Head(toServer)
<1>0. Messages /\ Known /\ OneRequest
  BY DEF AInv, TInv
<1>1. toServer # <<>> /\ toServer' = Tail(toServer)
  BY DEF CanReadData
<1>2. /\ \A i \in Asked' : i + 1 \in Asked /\ toServer'[i] = toServer[i + 1]
      /\ Single(Asked')
      /\ r.op # "WriteCmd" => Asked # {} /\ Asked' = {}
      /\ r.op = "WriteCmd" => (Asked = {} <=> Asked' = {})
  BY <1>0, <1>1, TakenAsked DEF OneRequest
<1>3. /\ Len(toServer) \in Nat \ {0} /\ Len(toServer') = Len(toServer) - 1
      /\ r = toServer[1]
      /\ \A i \in 1 .. Len(toServer') : toServer'[i] = toServer[i + 1]
  BY <1>0, <1>1, Taken
<1>4. CanReadData /\ Known /\ UNCHANGED <<outstanding, session, toPhone, io>>
  BY <1>0 DEF CanReadData, phone
<1>5. \/ r.op # "WriteCmd" /\ inReq
      \/ r.op # "WriteCmd" /\ ~inReq /\ inReq' = TRUE /\ Handle(r) /\ UNCHANGED link
      \/ r.op = "WriteCmd" /\ Handle(r) /\ UNCHANGED <<inReq, link>>
  BY DEF CanReadData
<1> HIDE DEF r
<1>6. 1 \in 1 .. Len(toServer) /\ \A i \in 1 .. Len(toServer') : i + 1 \in 1 .. Len(toServer)
  BY <1>3
<1>7. r.op \in Ops /\ (r.op = "WriteCmd" => IsStateWrite(r))
  BY <1>0, <1>3, <1>6 DEF Known
<1>8. Known'
  BY <1>0, <1>3, <1>6 DEF Known, IsStateWrite
<1>9. UNCHANGED link /\ OneRequest'
  BY <1>0, <1>2, <1>5 DEF OneRequest
<1>10. CASE link # "up"
  BY <1>8, <1>9, <1>10 DEF WhileUp
<1>11. CASE link = "up" /\ r.op = "WriteCmd"
  <2>0. Places /\ PreparedInSession /\ io /\ Listed(writeQueue) /\ Listed(toPhone)
    BY <1>11 DEF AInv, WhileUp
  <2>1. UNCHANGED <<writeQueue, prepQueue, inReq>> /\ Timed' = Timed
    BY <1>5, <1>7, <1>11, <2>0, HandleCommand
  <2>2. Queued' = Queued /\ Delivered' = Delivered
    BY <1>4, <2>1 DEF Queued, Delivered, Answers
  <2>3. Places'
    BY <1>2, <1>4, <1>11, <2>0, <2>1, <2>2 DEF Places
  <2>4. PreparedInSession'
    BY <1>2, <1>4, <2>0, <2>1, <2>2 DEF PreparedInSession
  <2>5. io' /\ Listed(writeQueue)' /\ Listed(toPhone)'
    BY <1>4, <2>0, <2>1 DEF Listed
  <2> QED
    BY <1>8, <1>9, <2>3, <2>4, <2>5 DEF WhileUp
<1>12. CASE link = "up" /\ r.op # "WriteCmd"
  <2>0. Places /\ PreparedInSession /\ io /\ Listed(writeQueue) /\ Listed(toPhone)
    BY <1>12 DEF AInv, WhileUp
  <2>1. Asked # {} /\ Asked' = {} /\ Queued = {} /\ Delivered = {} /\ ~Timed /\ inReq'
    BY <1>0, <1>2, <1>5, <1>12, <2>0 DEF Places, OneRequest
  <2>2. r.op = "PrepWrite" => session
    <3>1. r.op = "PrepWrite" => 1 \in Asked
      BY <1>3, <1>6, <1>12 DEF Asked
    <3> QED
      BY <1>3, <2>0, <3>1 DEF PreparedInSession
  <2>3. outstanding # None /\ Delivered' = {}
    BY <1>4, <2>0, <2>1 DEF Places, Delivered, Answers
  <2>4. /\ \/ /\ \E m : /\ m # Notification /\ m.re = r.op
                        /\ writeQueue' = writeQueue \o <<m>>
              /\ UNCHANGED <<pendingWrite, timer>>
           \/ /\ UNCHANGED writeQueue
              /\ r.op = "WriteReq" /\ pendingWrite' = "WriteReq" /\ timer' = "armed"
        /\ \/ prepQueue' = prepQueue /\ r.op # "ExecWrite"
           \/ prepQueue' = <<>>
           \/ r.op = "PrepWrite"
    <3>1. Handle(r) /\ r.op \in Ops \ {"WriteCmd"}
      BY <1>0, <1>5, <1>7, <1>12, <2>1 DEF OneRequest
    <3> QED
      BY <2>0, <3>1, HandleRequest
  <2>5. prepQueue' # <<>> => session
    BY <2>0, <2>2, <2>4 DEF PreparedInSession
  <2>6. CASE /\ \E m : /\ m # Notification /\ m.re = r.op
                       /\ writeQueue' = writeQueue \o <<m>>
             /\ UNCHANGED <<pendingWrite, timer>>
    <3>1. PICK m : /\ m # Notification /\ m.re = r.op
                   /\ writeQueue' = writeQueue \o <<m>>
      BY <2>6
    <3>2. /\ writeQueue' = Append(writeQueue, m) /\ Listed(writeQueue')
          /\ Queued' = {Len(writeQueue) + 1} /\ writeQueue'[Len(writeQueue) + 1] = m
      <4>1. writeQueue' = Append(writeQueue, m) /\ Listed(Append(writeQueue, m))
        BY <2>0, <3>1, Added
      <4>2. /\ Answers(Append(writeQueue, m)) = {Len(writeQueue) + 1}
            /\ Append(writeQueue, m)[Len(writeQueue) + 1] = m
        BY <2>0, <2>1, <3>1, AddedAnswers DEF Queued
      <4> QED
        BY <4>1, <4>2 DEF Queued
    <3>3. ~Timed'
      BY <2>1, <2>6 DEF Timed
    <3>4. Places'
      BY <1>4, <2>1, <2>3, <3>2, <3>3 DEF Places, Single
    <3>5. r.op = "ExecWrite" => prepQueue' = <<>>
      BY <2>4
    <3>6. PreparedInSession'
      BY <1>4, <2>1, <2>3, <2>5, <3>1, <3>2, <3>5 DEF PreparedInSession
    <3>7. io' /\ Listed(writeQueue)' /\ Listed(toPhone)'
      BY <1>4, <2>0, <3>2 DEF Listed
    <3> QED
      BY <1>8, <1>9, <3>4, <3>6, <3>7 DEF WhileUp
  <2>7. CASE /\ UNCHANGED writeQueue
             /\ r.op = "WriteReq" /\ pendingWrite' = "WriteReq" /\ timer' = "armed"
    <3>1. Timed' /\ Queued' = {}
      BY <2>1, <2>7 DEF Timed, Queued, Answers
    <3>2. Places'
      BY <1>4, <2>1, <2>3, <3>1 DEF Places, Single
    <3>3. PreparedInSession'
      BY <1>4, <2>1, <2>3, <2>5, <3>1 DEF PreparedInSession
    <3>4. io' /\ Listed(writeQueue)' /\ Listed(toPhone)'
      BY <1>4, <2>0, <2>7 DEF Listed
    <3> QED
      BY <1>8, <1>9, <3>2, <3>3, <3>4 DEF WhileUp
  <2> QED
    BY <2>4, <2>6, <2>7
<1> QED
  BY <1>7, <1>10, <1>11, <1>12

(* What the others leave alone.                                            *)
LEMMA SameMessages ==
  ASSUME Known, OneRequest, UNCHANGED <<link, toServer>>, inReq' => inReq
  PROVE  Known' /\ OneRequest' /\ Asked' = Asked
BY DEF Known, OneRequest, Asked, IsStateWrite

(* The answer that is sent ends the request.                               *)
LEMMA CanWriteDataAnswers ==
  ASSUME AInv, CanWriteData
  PROVE  Known' /\ OneRequest' /\ WhileUp'
<1>0. Known /\ OneRequest
  BY DEF AInv
<1>1. /\ UNCHANGED <<outstanding, session, link, toServer, io, pendingWrite, prepQueue, timer>>
      /\ inReq' => inReq
  BY DEF CanWriteData, phone, server
<1>2. Known' /\ OneRequest' /\ Asked' = Asked
  BY <1>0, <1>1, SameMessages
<1> SUFFICES ASSUME link = "up" PROVE WhileUp'
  BY <1>1, <1>2 DEF WhileUp
<1>3. Places /\ PreparedInSession /\ io /\ Listed(writeQueue) /\ Listed(toPhone)
  BY DEF AInv, WhileUp
<1>4. Timed' = Timed
  BY <1>1 DEF Timed
<1>5. CASE writeQueue = <<>>
  <2>1. UNCHANGED <<inReq, writeQueue, toPhone>>
    BY <1>5 DEF CanWriteData
  <2>2. Queued' = Queued /\ Delivered' = Delivered
    BY <2>1 DEF Queued, Delivered, Answers
  <2>3. Places' /\ PreparedInSession'
    BY <1>1, <1>2, <1>3, <1>4, <2>1, <2>2 DEF Places, PreparedInSession
  <2> QED
    BY <1>1, <1>3, <2>1, <2>3 DEF WhileUp, Listed
<1>6. CASE writeQueue # <<>>
  <2> DEFINE m == Head(writeQueue)
  <2>1. /\ writeQueue' = Tail(writeQueue) /\ toPhone' = Append(toPhone, m)
        /\ inReq' <=> inReq /\ m = Notification
    BY <1>6 DEF CanWriteData
  <2>2. /\ m # Notification => Queued = {1} /\ Queued' = {}
        /\ m = Notification => (Queued = {} <=> Queued' = {})
        /\ Single(Queued')
        /\ \A i \in Queued' : i + 1 \in Queued /\ writeQueue'[i] = writeQueue[i + 1]
        /\ m = writeQueue[1]
    BY <1>3, <1>6, <2>1, RestAnswers DEF Places, Queued
  <2>3. Listed(writeQueue') /\ Listed(toPhone')
    BY <1>3, <1>6, <2>1, Rest, Added
  <2>4. io' /\ Listed(writeQueue)' /\ Listed(toPhone)'
    BY <1>1, <1>3, <2>3 DEF Listed
  <2> HIDE DEF m
  <2>5. /\ m = Notification => Delivered' = Delivered
        /\ m # Notification /\ Delivered = {} => Delivered' = {Len(toPhone) + 1}
        /\ \A i \in Delivered : toPhone'[i] = toPhone[i]
        /\ toPhone'[Len(toPhone) + 1] = m
    BY <1>3, <2>1, AddedAnswers DEF Delivered
  <2>6. CASE m = Notification
    <3>1. Places'
      BY <1>1, <1>2, <1>3, <1>4, <2>1, <2>2, <2>5, <2>6 DEF Places
    <3>2. PreparedInSession'
      BY <1>1, <1>2, <1>3, <2>2, <2>5, <2>6 DEF PreparedInSession
    <3> QED
      BY <2>4, <3>1, <3>2 DEF WhileUp
  <2>7. CASE m # Notification
    <3>1. /\ Asked = {} /\ ~Timed /\ Queued' = {} /\ Delivered' = {Len(toPhone) + 1}
          /\ outstanding # None
      BY <1>3, <2>2, <2>5, <2>7 DEF Places
    <3>2. Places'
      BY <1>1, <1>2, <1>4, <2>1, <2>7, <3>1 DEF Places, Single
    <3>3. m.re = "ExecWrite" => prepQueue = <<>>
      BY <1>3, <2>2, <2>7 DEF PreparedInSession
    <3>4. PreparedInSession'
      BY <1>1, <1>2, <1>3, <2>5, <3>1, <3>3 DEF PreparedInSession
    <3> QED
      BY <2>4, <3>2, <3>4 DEF WhileUp
  <2> QED
    BY <2>6, <2>7
<1> QED
  BY <1>5, <1>6

LEMMA SendNotificationAnswers ==
  ASSUME AInv, SendNotification
  PROVE  Known' /\ OneRequest' /\ WhileUp'
<1>0. Known /\ OneRequest
  BY DEF AInv
<1>1. UNCHANGED <<outstanding, session, link, toServer, toPhone, io, inReq, pendingWrite,
                  prepQueue, timer>>
  BY DEF SendNotification, phone, server
<1>2. Known' /\ OneRequest' /\ Asked' = Asked
  BY <1>0, <1>1, SameMessages
<1> SUFFICES ASSUME link = "up" PROVE WhileUp'
  BY <1>1, <1>2 DEF WhileUp
<1>3. Places /\ PreparedInSession /\ io /\ Listed(writeQueue) /\ Listed(toPhone)
  BY DEF AInv, WhileUp
<1>4. writeQueue' = writeQueue \o <<Notification>>
  BY <1>3 DEF SendNotification, Post
<1>5. writeQueue' = Append(writeQueue, Notification) /\ Listed(Append(writeQueue, Notification))
  BY <1>3, <1>4, Added
<1>6. /\ Answers(Append(writeQueue, Notification)) = Answers(writeQueue)
      /\ \A i \in Answers(writeQueue) : Append(writeQueue, Notification)[i] = writeQueue[i]
  BY <1>3, AddedAnswers
<1>7. Queued' = Queued /\ \A i \in Queued : writeQueue'[i] = writeQueue[i]
  BY <1>5, <1>6 DEF Queued
<1>8. Delivered' = Delivered /\ Timed' = Timed
  BY <1>1 DEF Delivered, Answers, Timed
<1>9. Places'
  BY <1>1, <1>2, <1>3, <1>7, <1>8 DEF Places
<1>10. PreparedInSession'
  BY <1>1, <1>2, <1>3, <1>7, <1>8 DEF PreparedInSession
<1>11. io' /\ Listed(writeQueue)' /\ Listed(toPhone)'
  BY <1>1, <1>3, <1>5 DEF Listed
<1> QED
  BY <1>9, <1>10, <1>11 DEF WhileUp

(* The write that timed out was the request that is served.                *)
LEMMA WriteTimeoutAnswers ==
  ASSUME AInv, WriteTimeout
  PROVE  Known' /\ OneRequest' /\ WhileUp'
<1>0. Known /\ OneRequest
  BY DEF AInv
<1>1. /\ UNCHANGED <<outstanding, session, link, toServer, toPhone, io, inReq, prepQueue>>
      /\ timer = "expired" /\ timer' = "off"
  BY DEF WriteTimeout, phone
<1>2. Known' /\ OneRequest' /\ Asked' = Asked
  BY <1>0, <1>1, SameMessages
<1> SUFFICES ASSUME link = "up" PROVE WhileUp'
  BY <1>1, <1>2 DEF WhileUp
<1>3. Places /\ PreparedInSession /\ io /\ Listed(writeQueue) /\ Listed(toPhone)
  BY DEF AInv, WhileUp
<1>4. Delivered' = Delivered /\ ~Timed'
  BY <1>1 DEF Delivered, Answers, Timed
<1>5. CASE pendingWrite = "WriteReq"
  <2> DEFINE m == Err([op |-> "WriteReq"])
  <2>1. m # Notification /\ m.re = "WriteReq"
    BY DEF Err, Notification, None
  <2>2. writeQueue' = writeQueue \o <<m>>
    BY <1>3, <1>5 DEF WriteTimeout, Post
  <2> HIDE DEF m
  <2>3. Timed /\ Asked = {} /\ Queued = {} /\ Delivered = {} /\ outstanding # None /\ inReq
    BY <1>1, <1>3, <1>5 DEF Timed, Places
  <2>4. writeQueue' = Append(writeQueue, m) /\ Listed(Append(writeQueue, m))
    BY <1>3, <2>2, Added
  <2>5. /\ Answers(Append(writeQueue, m)) = {Len(writeQueue) + 1}
        /\ Append(writeQueue, m)[Len(writeQueue) + 1] = m
    BY <1>3, <2>1, <2>3, AddedAnswers DEF Queued
  <2>6. Queued' = {Len(writeQueue) + 1} /\ writeQueue'[Len(writeQueue) + 1] = m
    BY <2>4, <2>5 DEF Queued
  <2>7. Places'
    BY <1>1, <1>2, <1>4, <2>3, <2>6 DEF Places, Single
  <2>8. PreparedInSession'
    BY <1>1, <1>2, <1>3, <1>4, <2>1, <2>3, <2>6 DEF PreparedInSession
  <2>9. io' /\ Listed(writeQueue)' /\ Listed(toPhone)'
    BY <1>1, <1>3, <2>4 DEF Listed
  <2> QED
    BY <2>7, <2>8, <2>9 DEF WhileUp
<1>6. CASE pendingWrite # "WriteReq"
  <2>1. writeQueue' = writeQueue \o <<>> /\ ~Timed
    BY <1>3, <1>6 DEF WriteTimeout, Post, Timed
  <2>2. UNCHANGED writeQueue
    BY <1>3, <2>1, Added
  <2>3. Queued' = Queued
    BY <2>2 DEF Queued, Answers
  <2>4. Places'
    BY <1>1, <1>2, <1>3, <1>4, <2>1, <2>3 DEF Places
  <2>5. PreparedInSession'
    BY <1>1, <1>2, <1>3, <1>4, <2>2, <2>3 DEF PreparedInSession
  <2> QED
    BY <1>1, <1>3, <2>2, <2>4, <2>5 DEF WhileUp, Listed
<1> QED
  BY <1>5, <1>6

LEMMA OtherAnswers ==
  ASSUME AInv, HangUp \/ TimerExpires \/ DisconnectCb \/ Exit \/ Tick \/ UNCHANGED vars
  PROVE  Known' /\ OneRequest' /\ WhileUp'
<1>0. Known /\ OneRequest
  BY DEF AInv
<1>1. UNCHANGED <<outstanding, session, toServer, inReq, pendingWrite, prepQueue>>
  BY DEF HangUp, TimerExpires, DisconnectCb, Exit, Tick, vars, phone, att, server
<1>2. Known' /\ Asked' = Asked
  BY <1>0, <1>1 DEF Known, Asked, IsStateWrite
<1>3. CASE HangUp
  BY <1>0, <1>1, <1>2, <1>3 DEF HangUp, OneRequest, WhileUp
<1>4. CASE DisconnectCb
  BY <1>0, <1>1, <1>2, <1>4 DEF DisconnectCb, OneRequest, WhileUp
<1>5. CASE TimerExpires \/ Exit \/ Tick \/ UNCHANGED vars
  <2>1. UNCHANGED <<link, io, writeQueue, toPhone>> /\ Timed' = Timed
    BY <1>1, <1>5 DEF TimerExpires, Exit, Tick, vars, phone, att, server, Timed
  <2>2. OneRequest'
    BY <1>0, <1>1, <1>2, <2>1 DEF OneRequest
  <2>3. Queued' = Queued /\ Delivered' = Delivered
    BY <2>1 DEF Queued, Delivered, Answers
  <2>4. WhileUp'
    BY <1>1, <1>2, <2>1, <2>3 DEF AInv, WhileUp, Places, PreparedInSession, Listed
  <2> QED
    BY <1>2, <2>2, <2>4
<1> QED
  BY <1>3, <1>4, <1>5

-----------------------------------------------------------------------------
(* The invariant, and what follows from it.                                *)

LEMMA InitAnswers == Init => AInv
<1> SUFFICES ASSUME Init PROVE AInv
  OBVIOUS
<1>1. Known /\ Asked = {} /\ Queued = {} /\ Delivered = {} /\ ~Timed
  BY DEF Init, Known, Asked, Queued, Delivered, Answers, Timed, None
<1>2. Listed(writeQueue) /\ Listed(toPhone)
  BY DEF Init, Listed
<1>3. OneRequest
  BY <1>1 DEF Init, OneRequest, Single
<1>4. Places /\ PreparedInSession
  BY <1>1 DEF Init, Places, PreparedInSession, Single
<1> QED
  BY <1>1, <1>2, <1>3, <1>4, InitTypes DEF Init, AInv, WhileUp

LEMMA StepAnswers == AInv /\ [Next]_vars => AInv'
<1> SUFFICES ASSUME AInv, [Next]_vars PROVE AInv'
  OBVIOUS
<1>0. TInv'
  BY StepTypes DEF AInv
<1> SUFFICES Known' /\ OneRequest' /\ WhileUp'
  BY <1>0 DEF AInv
<1>1. CASE Explore
  BY <1>1, ExploreKnown, AskAnswers DEF AInv, TInv
<1>2. CASE \E r \in Request : Ask(r)
  BY <1>2, RequestKnown, AskAnswers
<1>3. CASE TaskWrites
  BY <1>3, TaskWritesAnswers
<1>4. CASE Receive
  BY <1>4, ReceiveAnswers
<1>5. CASE CanReadData
  BY <1>5, CanReadDataAnswers
<1>6. CASE CanWriteData
  BY <1>6, CanWriteDataAnswers
<1>7. CASE SendNotification
  BY <1>7, SendNotificationAnswers
<1>8. CASE WriteTimeout
  BY <1>8, WriteTimeoutAnswers
<1> QED
  BY <1>1, <1>2, <1>3, <1>4, <1>5, <1>6, <1>7, <1>8, OtherAnswers
     DEF Next, ServerStep, PhoneStep

LEMMA Answered == Spec => []AInv
<1> QED
  BY InitAnswers, StepAnswers, PTL DEF Spec

(* The connection of a phone that waits for its answers is never shut down *)
(* by can_read_data, whatever it asks and however long a write is pending. *)
THEOREM NeverShutDownHolds == Spec => []NeverShutDown
<1>1. AInv => NeverShutDown
  BY DEF AInv, OneRequest, NeverShutDown
<1> QED
  BY Answered, <1>1, PTL

(* Every way out of exec_write_cb empties the queue of prepared writes.    *)
THEOREM NoStalePrepareHolds == Spec => []NoStalePrepare
<1>1. AInv => NoStalePrepare
  BY DEF AInv, WhileUp, PreparedInSession, NoStalePrepare
<1> QED
  BY Answered, <1>1, PTL

(* bt_gatt_server and bt_att answer each request once, writes that nobody  *)
(* reports the result of included, and a write command never.              *)
THEOREM OneAnswerHolds == Spec => []OneAnswer
<1>1. ASSUME AInv PROVE OneAnswer
  <2> SUFFICES ASSUME link = "up"
               PROVE  IF outstanding = None
                      THEN InFlight = {}
                      ELSE \E p \in InFlight : InFlight = {p}
    BY DEF OneAnswer
  <2>0. Places /\ Single(Asked)
    BY <1>1 DEF AInv, WhileUp, OneRequest
  <2>1. CASE outstanding = None
    BY <2>0, <2>1 DEF Places, InFlight
  <2>2. ASSUME outstanding # None, NEW i \in Asked
        PROVE  InFlight = {<<"asked", i>>}
    <3>1. Asked = {i} /\ Queued = {} /\ Delivered = {} /\ ~Timed
      BY <2>0, <2>2 DEF Places, Single
    <3> QED
      BY <3>1 DEF InFlight
  <2>3. ASSUME outstanding # None, NEW i \in Queued
        PROVE  InFlight = {<<"queued", i>>}
    <3>1. Queued = {i} /\ Asked = {} /\ Delivered = {} /\ ~Timed
      BY <2>0, <2>3 DEF Places, Single
    <3> QED
      BY <3>1 DEF InFlight
  <2>4. ASSUME outstanding # None, NEW i \in Delivered
        PROVE  InFlight = {<<"delivered", i>>}
    <3>1. Delivered = {i} /\ Asked = {} /\ Queued = {} /\ ~Timed
      BY <2>0, <2>4 DEF Places, Single
    <3> QED
      BY <3>1 DEF InFlight
  <2>5. ASSUME outstanding # None, Timed
        PROVE  InFlight = {<<"timed", 0>>}
    <3>1. Delivered = {} /\ Asked = {} /\ Queued = {}
      BY <2>0, <2>5 DEF Places
    <3> QED
      BY <2>5, <3>1 DEF InFlight
  <2>6. outstanding # None => Asked # {} \/ Queued # {} \/ Delivered # {} \/ Timed
    BY <2>0 DEF Places
  <2>7. ASSUME NEW p, InFlight = {p} PROVE \E q \in InFlight : InFlight = {q}
    BY <2>7
  <2> QED
    BY <2>1, <2>2, <2>3, <2>4, <2>5, <2>6, <2>7
<1> QED
  BY Answered, <1>1, PTL

=============================================================================
