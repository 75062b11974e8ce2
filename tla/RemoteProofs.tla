----------------------------- MODULE RemoteProofs -----------------------------
(***************************************************************************)
(* The types of Remote and the patience of a click, for any joystick       *)
(* inputs, any patience and any number of connections.                     *)
(***************************************************************************)
EXTENDS Remote, SequenceTheorems, TLAPS

Runnable == {"reset", "autonomous", "manual"}
Joystick == 0 .. 4 \cup {None}

(* The fields of the screen.  The patience a click has left and the doubts *)
(* raised since make up the whole.                                         *)
ScreenOK ==
  /\ ui \in Flags /\ change \in Flags
  /\ modeChanged \in 0 .. Patience /\ doubts \in 0 .. Patience
  /\ modeChanged + doubts = Patience

QueueOK == posted \in Seq(Runnable) /\ Len(posted) <= MaxPosted

(* A connection that is being opened will have a timer of its own.         *)
ConnectionOK ==
  /\ connected \in BOOLEAN /\ btGatt \in BOOLEAN /\ characteristic \in BOOLEAN
  /\ link \in {"down", "opening", "up", "closing"}
  /\ connecting \in BOOLEAN
  /\ timer \in 0 .. MaxConnections
  /\ link = "opening" => timer < MaxConnections

SenderOK ==
  /\ status \in [Timers -> {"none", "delayed", "scheduled", "cancelled"}]
  /\ task \in [Timers -> {"waiting", "creating", "writing", "cancelling"}]
  /\ previousMessage \in [Timers -> Byte] /\ written \in Byte
  /\ crashed \in BOOLEAN

IInv == ScreenOK /\ QueueOK /\ ConnectionOK /\ SenderOK

(* A part whose variables do not change stays as it is.                    *)
LEMMA PartsStay ==
  /\ ScreenOK /\ UNCHANGED screen => ScreenOK'
  /\ QueueOK /\ UNCHANGED posted => QueueOK'
  /\ ConnectionOK /\ UNCHANGED <<connection, timer>> => ConnectionOK'
  /\ SenderOK /\ UNCHANGED <<sender, crashed>> => SenderOK'
<1>1. ScreenOK /\ UNCHANGED screen => ScreenOK'
  BY DEF ScreenOK, screen
<1>2. QueueOK /\ UNCHANGED posted => QueueOK'
  BY DEF QueueOK
<1>3. ConnectionOK /\ UNCHANGED <<connection, timer>> => ConnectionOK'
  BY DEF ConnectionOK, connection
<1>4. SenderOK /\ UNCHANGED <<sender, crashed>> => SenderOK'
  BY DEF SenderOK, sender
<1> QED
  BY <1>1, <1>2, <1>3, <1>4

-----------------------------------------------------------------------------
(* The data.                                                               *)

(* A joystick that drives has one of the five directions, or none.         *)
LEMMA HeadingType ==
  ASSUME NEW angle \in Angle
  PROVE  Heading(angle) \in Joystick
<1>1. \A d \in {0, 1, 2, 3, 4, 7} : d \in Joystick
  BY DEF Joystick, None
<1>2. Heading(angle) \in {0, 1, 2, 3, 4, 7}
  BY DEF Heading, None
<1> QED
  BY <1>1, <1>2

(* What a handler leaves behind.                                           *)
LEMMA FlagsType ==
  /\ \A auto \in BOOLEAN : Rest(auto) \in Flags
  /\ \A f \in Flags :
       /\ \A j \in Joystick, d \in BOOLEAN :
            [f EXCEPT !.driving = d, !.joystick = j] \in Flags
       /\ [f EXCEPT !.started = TRUE, !.joystick = None] \in Flags
       /\ [f EXCEPT !.turboed = ~f.turboed] \in Flags
       /\ [f EXCEPT !.joystick = None] \in Flags
BY DEF Rest, Flags, Joystick, None

(* Any mixture of old and new fields makes a byte.                         *)
LEMMA MessageType ==
  ASSUME NEW f \in Flags, NEW g \in Flags, NEW m \in Messages(f, g)
  PROVE  m \in Byte
<1>1. Codes(f, g) \subseteq 0 .. 6
  BY DEF Codes
<1>2. {f.joystick, g.joystick} \subseteq 0 .. 4 \cup {None}
  BY DEF Flags
<1> QED
  BY <1>1, <1>2 DEF Messages, Byte

(* What is left of two fields that are assigned at the same time.          *)
LEMMA ConnexionChangeType ==
  ASSUME IInv, ConnexionChange
  PROVE  ui' \in Flags /\ change' \in Flags /\ modeChanged' = 0 /\ doubts' = Patience
<1>1. ui \in Flags /\ change \in Flags
  BY DEF IInv, ScreenOK
<1>2. DOMAIN ui = {"started", "turboed", "autonomous", "driving", "joystick"}
  BY <1>1 DEF Flags
<1>3. ui' \in Flags
  BY <1>1 DEF ConnexionChange, Rest, Flags
<1>4. PICK late \in SUBSET {"started", "turboed", "autonomous", "driving"} :
        change' = [f \in DOMAIN ui |->
                     IF f \in late \cup {"joystick"} THEN change[f] ELSE FALSE]
  BY DEF ConnexionChange
<1>5. change' = [started |-> change'["started"], turboed |-> change'["turboed"],
                 autonomous |-> change'["autonomous"], driving |-> change'["driving"],
                 joystick |-> change'["joystick"]]
  BY <1>2, <1>4
<1>6. \A f \in {"started", "turboed", "autonomous", "driving"} : change'[f] \in {change[f], FALSE}
  BY <1>2, <1>4
<1>7. change'["joystick"] = change["joystick"]
  BY <1>2, <1>4
<1>8. /\ change["started"] \in BOOLEAN /\ change["turboed"] \in BOOLEAN
      /\ change["autonomous"] \in BOOLEAN /\ change["driving"] \in BOOLEAN
      /\ change["joystick"] \in 0 .. 4 \cup {None}
  BY <1>1 DEF Flags
<1>9. change' \in Flags
  BY <1>5, <1>6, <1>7, <1>8 DEF Flags
<1> QED
  BY <1>3, <1>9 DEF ConnexionChange

(* The queue of the UI thread holds runnables, no more than its bound.     *)
LEMMA PostType ==
  ASSUME IInv, NEW r \in Runnable, Post(r)
  PROVE  QueueOK' /\ Len(posted') >= Len(posted)
<1>1. posted \in Seq(Runnable) /\ Len(posted) \in Nat /\ MaxPosted \in Nat
  BY BoundAssumption DEF IInv, QueueOK
<1> QED
  BY <1>1, AppendProperties DEF Post, QueueOK

-----------------------------------------------------------------------------
(* The handlers of the UI thread: a click starts with the whole patience.  *)
LEMMA ClickInv ==
  ASSUME IInv,
         \/ HandlerEnds \/ AutoClick \/ StartClick \/ TurboClick
         \/ \E angle \in Angle, strength \in Strength : OnMove(angle, strength)
  PROVE  IInv' /\ posted' = posted
<1> USE DEF OnlyTheScreen
<1>1. /\ UNCHANGED <<posted, connection, timer, sender, crashed>>
      /\ ui' \in {ui, change}
  BY DEF HandlerEnds, AutoClick, StartClick, TurboClick, OnMove
<1>2. ui \in Flags /\ change \in Flags /\ ui.autonomous \in BOOLEAN /\ Patience \in Nat
  BY PatienceAssumption DEF IInv, ScreenOK, Flags
<1>3. change' \in Flags
  <2>1. CASE HandlerEnds
    BY <1>2, <2>1 DEF HandlerEnds
  <2>2. CASE AutoClick
    BY <1>2, <2>2, FlagsType DEF AutoClick
  <2>3. CASE StartClick
    BY <1>2, <2>3, FlagsType DEF StartClick
  <2>4. CASE TurboClick
    BY <1>2, <2>4, FlagsType DEF TurboClick
  <2>5. ASSUME NEW angle \in Angle, NEW strength \in Strength, OnMove(angle, strength)
        PROVE  change' \in Flags
    <3> DEFINE drive == strength > 50 \/ (strength = 50 /\ ui.driving)
               aim == IF drive THEN Heading(angle) ELSE None
    <3>1. drive \in BOOLEAN
      OBVIOUS
    <3>2. aim \in Joystick
      BY HeadingType DEF Joystick
    <3>3. change' = [ui EXCEPT !.driving = drive, !.joystick = aim]
      BY <2>5 DEF OnMove
    <3> HIDE DEF drive, aim
    <3> QED
      BY <1>2, <3>1, <3>2, <3>3, FlagsType
  <2> QED
    BY <2>1, <2>2, <2>3, <2>4, <2>5
<1>4. \/ UNCHANGED <<modeChanged, doubts>>
      \/ modeChanged' = Patience /\ doubts' = 0
  BY DEF HandlerEnds, AutoClick, StartClick, TurboClick, OnMove
<1>5. /\ modeChanged' \in 0 .. Patience /\ doubts' \in 0 .. Patience
      /\ modeChanged' + doubts' = Patience
  BY <1>2, <1>4 DEF IInv, ScreenOK
<1>6. ScreenOK'
  BY <1>1, <1>2, <1>3, <1>5 DEF ScreenOK
<1> QED
  BY <1>1, <1>6, PartsStay DEF IInv

(* A runnable: the mode reported is adopted when no patience is left.      *)
LEMMA RunPostedInv ==
  ASSUME IInv, RunPosted
  PROVE  /\ IInv'
         /\ change'.autonomous # ui.autonomous => doubts = Patience
<1>1. UNCHANGED <<ui, connection, timer, sender, crashed>> /\ change = ui
  BY DEF RunPosted, UiFree
<1>2. /\ ui \in Flags /\ change \in Flags /\ Patience \in Nat
      /\ modeChanged \in 0 .. Patience /\ doubts \in 0 .. Patience
      /\ modeChanged + doubts = Patience
  BY PatienceAssumption DEF IInv, ScreenOK
<1>3. QueueOK'
  <2>1. posted \in Seq(Runnable) /\ posted # <<>> /\ Len(posted) <= MaxPosted
    BY DEF IInv, QueueOK, RunPosted
  <2>2. MaxPosted \in Nat
    BY BoundAssumption
  <2> QED
    BY <2>1, <2>2, HeadTailProperties DEF RunPosted, QueueOK
<1>4. ConnectionOK' /\ SenderOK'
  BY <1>1, PartsStay DEF IInv
<1>5. ASSUME ResetSymbols
      PROVE  ScreenOK' /\ change'.autonomous = ui.autonomous
  <2>1. change' \in Flags /\ change'.autonomous = ui.autonomous
    BY <1>2, <1>5, FlagsType DEF ResetSymbols, Flags
  <2>2. UNCHANGED <<modeChanged, doubts>>
    BY <1>5 DEF ResetSymbols
  <2> QED
    BY <1>1, <1>2, <2>1, <2>2 DEF ScreenOK
<1>6. ASSUME NEW auto \in BOOLEAN, ChangeMode(auto)
      PROVE  /\ ScreenOK'
             /\ change'.autonomous # ui.autonomous => doubts = Patience
  <2>1. change' \in Flags
    BY <1>2, <1>6, FlagsType DEF ChangeMode
  <2>2. \/ UNCHANGED <<modeChanged, doubts>>
        \/ modeChanged > 0 /\ modeChanged' = modeChanged - 1 /\ doubts' = doubts + 1
        \/ modeChanged' = 0 /\ doubts' = Patience
    BY <1>6 DEF ChangeMode
  <2>3. /\ modeChanged' \in 0 .. Patience /\ doubts' \in 0 .. Patience
        /\ modeChanged' + doubts' = Patience
    BY <1>2, <2>2
  <2>4. change' = change \/ modeChanged = 0
    BY <1>6 DEF ChangeMode
  <2>5. change'.autonomous # ui.autonomous => doubts = Patience
    BY <1>1, <1>2, <2>4
  <2> QED
    BY <1>1, <1>2, <2>1, <2>3, <2>5 DEF ScreenOK
<1>7. \/ ResetSymbols
      \/ ChangeMode(TRUE) \/ ChangeMode(FALSE)
  BY DEF RunPosted
<1> QED
  BY <1>3, <1>4, <1>5, <1>6, <1>7 DEF IInv

-----------------------------------------------------------------------------
(* The GATT callbacks and the button that calls them.                      *)
LEMMA CallbackInv ==
  ASSUME IInv,
         \/ ConnectClick \/ OnConnected \/ MessageSend \/ OnDisconnected
         \/ \E success \in BOOLEAN : OnServicesDiscovered(success)
         \/ \E mode \in {"autonomous", "manual"} : OnCharacteristicChanged(mode)
  PROVE  IInv' /\ Len(posted') >= Len(posted)
<1>1. /\ ScreenOK /\ QueueOK /\ ConnectionOK /\ SenderOK
      /\ timer \in 0 .. MaxConnections /\ MaxConnections \in Nat \ {0}
      /\ Patience \in Nat /\ Len(posted) \in Nat
  BY PatienceAssumption, BoundAssumption DEF IInv, ConnectionOK, QueueOK
<1>2. CASE ConnectClick
  <2>1. UNCHANGED <<screen, posted, sender, crashed>>
    BY <1>2 DEF ConnectClick
  <2>2. ConnectionOK'
    BY <1>1, <1>2 DEF ConnectClick, ConnectionOK
  <2> QED
    BY <1>1, <2>1, <2>2, PartsStay DEF IInv
<1>3. CASE OnConnected
  <2>1. QueueOK' /\ Len(posted') >= Len(posted)
    BY <1>3, PostType DEF OnConnected, Runnable
  <2>2. timer' \in 0 .. MaxConnections
    BY <1>1, <1>3 DEF OnConnected, ConnectionOK
  <2>3. ConnectionOK'
    BY <1>1, <1>3, <2>2 DEF OnConnected, ConnectionOK
  <2>4. Idle \in Byte
    BY DEF Idle, Byte, None
  <2>5. SenderOK'
    BY <1>1, <1>3, <2>4 DEF OnConnected, SenderOK
  <2> QED
    BY <1>1, <1>3, <2>1, <2>3, <2>5, PartsStay DEF OnConnected, IInv
<1>4. CASE MessageSend
  <2>1. ScreenOK'
    BY <1>1, <1>4, ConnexionChangeType DEF MessageSend, ScreenOK
  <2>2. ConnectionOK'
    BY <1>1, <1>4 DEF MessageSend, ConnectionOK
  <2>3. SenderOK'
    BY <1>1, <1>4 DEF MessageSend, SenderOK
  <2>4. posted' = posted
    BY <1>4 DEF MessageSend
  <2> QED
    BY <1>1, <2>1, <2>2, <2>3, <2>4, PartsStay DEF IInv
<1>5. CASE OnDisconnected
  <2>1. ScreenOK'
    BY <1>1, <1>5, ConnexionChangeType DEF OnDisconnected, ScreenOK
  <2>2. QueueOK' /\ Len(posted') >= Len(posted)
    BY <1>5, PostType DEF OnDisconnected, Runnable
  <2>3. ConnectionOK'
    BY <1>1, <1>5 DEF OnDisconnected, ConnectionOK
  <2>4. SenderOK'
    BY <1>1, <1>5, PartsStay DEF OnDisconnected
  <2> QED
    BY <2>1, <2>2, <2>3, <2>4 DEF IInv
<1>6. ASSUME NEW success \in BOOLEAN, OnServicesDiscovered(success)
      PROVE  IInv' /\ Len(posted') >= Len(posted)
  <2>1. UNCHANGED <<screen, posted, connected, connecting, timer, sender, crashed>>
    BY <1>6 DEF OnServicesDiscovered
  <2>2. ConnectionOK'
    <3>1. characteristic' \in BOOLEAN /\ btGatt' \in BOOLEAN
      BY <1>6, Zenon DEF OnServicesDiscovered
    <3>2. link' \in {"up", "closing"}
      BY <1>6 DEF OnServicesDiscovered
    <3> QED
      BY <1>1, <2>1, <3>1, <3>2 DEF ConnectionOK
  <2> QED
    BY <1>1, <2>1, <2>2, PartsStay DEF IInv
<1>7. ASSUME NEW mode \in {"autonomous", "manual"}, OnCharacteristicChanged(mode)
      PROVE  IInv' /\ Len(posted') >= Len(posted)
  <2>1. QueueOK' /\ Len(posted') >= Len(posted)
    BY <1>7, PostType DEF OnCharacteristicChanged, Runnable
  <2> QED
    BY <1>1, <1>7, <2>1, PartsStay DEF OnCharacteristicChanged, IInv
<1> QED
  BY <1>2, <1>3, <1>4, <1>5, <1>6, <1>7

-----------------------------------------------------------------------------
(* The timer threads, which leave the screen alone.                        *)
LEMMA TimerInv ==
  ASSUME IInv, NEW t \in Timers, DelayOver(t) \/ Task(t)
  PROVE  IInv' /\ posted' = posted
<1>1. UNCHANGED <<screen, posted, connection, timer>>
  BY DEF DelayOver, Task, Fire, CreateMessage, WriteCharacteristic, CancelTimer
<1>2. /\ status \in [Timers -> {"none", "delayed", "scheduled", "cancelled"}]
      /\ task \in [Timers -> {"waiting", "creating", "writing", "cancelling"}]
      /\ previousMessage \in [Timers -> Byte] /\ written \in Byte
      /\ crashed \in BOOLEAN /\ ui \in Flags /\ change \in Flags
  BY DEF IInv, SenderOK, ScreenOK
<1>3. /\ status' \in [Timers -> {"none", "delayed", "scheduled", "cancelled"}]
      /\ task' \in [Timers -> {"waiting", "creating", "writing", "cancelling"}]
      /\ previousMessage' \in [Timers -> Byte] /\ written' \in Byte
      /\ crashed' \in BOOLEAN
  <2>1. CASE DelayOver(t)
    BY <1>2, <2>1 DEF DelayOver
  <2>2. CASE Fire(t)
    BY <1>2, <2>2 DEF Fire
  <2>3. CASE CreateMessage(t)
    <3>1. PICK m \in Messages(ui, change) :
            /\ previousMessage' = [previousMessage EXCEPT ![t] = m]
            /\ task' = [task EXCEPT ![t] =
                          IF m # previousMessage[t] THEN "writing" ELSE "waiting"]
      BY <2>3 DEF CreateMessage
    <3>2. m \in Byte
      BY <1>2, <3>1, MessageType
    <3>3. UNCHANGED <<status, written, crashed>>
      BY <2>3 DEF CreateMessage
    <3> QED
      BY <1>2, <3>1, <3>2, <3>3
  <2>4. CASE WriteCharacteristic(t)
    BY <1>2, <2>4 DEF WriteCharacteristic
  <2>5. CASE CancelTimer(t)
    BY <1>2, <2>5 DEF CancelTimer
  <2> QED
    BY <2>1, <2>2, <2>3, <2>4, <2>5 DEF Task
<1> QED
  BY <1>1, <1>3, PartsStay DEF IInv, SenderOK

-----------------------------------------------------------------------------
(* The app as it starts.                                                   *)
LEMMA InitIInv == Init => IInv
<1> SUFFICES ASSUME Init PROVE IInv
  OBVIOUS
<1>1. Patience \in Nat /\ MaxConnections \in Nat \ {0} /\ MaxPosted \in Nat \ {0}
  BY PatienceAssumption, BoundAssumption
<1>2. Idle \in Byte
  BY DEF Idle, Byte, None
<1>3. Rest(FALSE) \in Flags
  BY FlagsType
<1>4. QueueOK
  <2>1. posted \in Seq(Runnable) /\ Len(posted) = 0
    BY DEF Init
  <2> QED
    BY <1>1, <2>1 DEF QueueOK
<1>5. ScreenOK
  <2>1. /\ ui = Rest(FALSE) /\ change = Rest(FALSE)
        /\ modeChanged = 0 /\ doubts = Patience
    BY DEF Init
  <2>2. ui \in Flags /\ change \in Flags
    BY <1>3, <2>1
  <2>3. modeChanged \in 0 .. Patience /\ doubts \in 0 .. Patience
        /\ modeChanged + doubts = Patience
    BY <1>1, <2>1
  <2> QED
    BY <2>2, <2>3 DEF ScreenOK
<1>6. ConnectionOK
  <2>1. /\ connected \in BOOLEAN /\ btGatt \in BOOLEAN /\ characteristic \in BOOLEAN
        /\ connecting \in BOOLEAN
    BY DEF Init
  <2>2. link = "down" /\ timer = 0
    BY DEF Init
  <2> QED
    BY <1>1, <2>1, <2>2 DEF ConnectionOK
<1>7. SenderOK
  BY <1>2 DEF Init, SenderOK
<1> QED
  BY <1>4, <1>5, <1>6, <1>7 DEF IInv

(* Every step keeps the invariant, and only a runnable of a click whose    *)
(* patience is used up turns the mode.                                     *)
LEMMA NextIInv ==
  ASSUME IInv, [Next]_vars
  PROVE  /\ IInv'
         /\ Len(posted') < Len(posted) /\ change'.autonomous # ui.autonomous
              => doubts = Patience
<1>0. Len(posted) \in Nat
  BY DEF IInv, QueueOK
<1>1. CASE \/ HandlerEnds \/ AutoClick \/ StartClick \/ TurboClick
           \/ \E angle \in Angle, strength \in Strength : OnMove(angle, strength)
  BY <1>0, <1>1, ClickInv
<1>2. CASE RunPosted
  BY <1>2, RunPostedInv
<1>3. CASE \/ ConnectClick \/ OnConnected \/ MessageSend \/ OnDisconnected
           \/ \E success \in BOOLEAN : OnServicesDiscovered(success)
           \/ \E mode \in {"autonomous", "manual"} : OnCharacteristicChanged(mode)
  <2>1. IInv' /\ Len(posted') >= Len(posted)
    BY <1>3, CallbackInv
  <2>2. Len(posted') \in Nat
    BY <2>1 DEF IInv, QueueOK
  <2> QED
    BY <1>0, <2>1, <2>2
<1>4. ASSUME NEW t \in Timers, DelayOver(t) \/ Task(t)
      PROVE  IInv' /\ posted' = posted
  BY <1>4, TimerInv
<1>5. CASE UNCHANGED vars
  BY <1>0, <1>5, PartsStay DEF vars, IInv
<1> QED
  BY <1>0, <1>1, <1>2, <1>3, <1>4, <1>5 DEF Next

(* The inductive invariant holds in every reachable state.                 *)
THEOREM RemoteInvariance == Spec => []IInv
<1> QED
  BY InitIInv, NextIInv, PTL DEF Spec

(* Every variable of the remote keeps its type.                            *)
THEOREM RemoteTypes == Spec => []TypeOK
<1>1. IInv => TypeOK
  BY DEF IInv, ScreenOK, QueueOK, ConnectionOK, SenderOK, TypeOK, Runnable
<1> QED
  BY <1>1, RemoteInvariance, PTL

(* A click gives in only to feedback that has used up its patience, or to  *)
(* a car that had agreed before.                                           *)
THEOREM ClickHolds == Spec => ClickOutlivesOldFeedback
<1>1. IInv /\ [Next]_vars =>
        [Len(posted') < Len(posted) /\ change'.autonomous # ui.autonomous
           => doubts = Patience]_vars
  BY NextIInv
<1> QED
  BY <1>1, RemoteInvariance, PTL DEF Spec, ClickOutlivesOldFeedback

=============================================================================
