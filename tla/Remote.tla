-------------------------------- MODULE Remote --------------------------------
(***************************************************************************)
(* The remote control of the car, the Android activity remote.java.  Three *)
(* kinds of threads share its fields without synchronisation:              *)
(*                                                                         *)
(*   the UI thread       buttons, joystick and what the others posted to   *)
(*                       it, one handler after the other                   *)
(*   the GATT callbacks  connection, services and notifications            *)
(*   the timer threads   one per connection: every 200 ms a task sends the *)
(*                       state to the car when it has changed              *)
(*                                                                         *)
(* A handler of the UI thread assigns several fields: while it runs, ui    *)
(* holds the values before it and change those after it, and a timer       *)
(* thread may read either of each field.                                   *)
(***************************************************************************)
EXTENDS Naturals, Sequences

CONSTANTS
  Angle,           \* angles of the joystick, in degrees
  Strength,        \* how far it is pushed, in %
  Patience,        \* feedbacks a click on the mode button ignores; 5 in setAutoButton
  MaxConnections,  \* bound: connections
  MaxPosted        \* bound: runnables waiting for the UI thread

ASSUME InputAssumption == Angle \subseteq 0 .. 359 /\ Strength \subseteq 0 .. 100
ASSUME PatienceAssumption == Patience \in Nat
ASSUME BoundAssumption == MaxConnections \in Nat \ {0} /\ MaxPosted \in Nat \ {0}

VARIABLES
  ui,              \* started, turboed, autonomous, driving, joystick_value
  change,          \* what the running handler of the UI thread makes of ui
  modeChanged,
  posted,          \* runnables posted to the UI thread
  connected,
  btGatt,          \* is not null
  characteristic,  \* stateCharacteristic is not null
  link,            \* the Bluetooth connection itself
  connecting,      \* onConnectionStateChange is between its two halves
  timer,           \* the last timer created; timers are numbered
  status,          \* per timer
  task,            \* per timer, what its task is doing
  previousMessage, \* per timer, the message its task created last
  written,         \* last byte the car got in this connection
  crashed,         \* an exception nobody catches has ended the app
  doubts           \* history: feedbacks in a row against the last click

Timers == 1 .. MaxConnections

screen == <<ui, change, modeChanged, doubts>>
connection == <<connected, btGatt, characteristic, link, connecting>>
sender == <<status, task, previousMessage, written>>
vars == <<screen, posted, connection, timer, sender, crashed>>

-----------------------------------------------------------------------------
None == 7                    \* the direction "none"
Idle == [code |-> 0, dir |-> None]

(* At rest in either mode: what most handlers leave behind.                *)
Rest(auto) ==
  [started |-> FALSE, turboed |-> FALSE, autonomous |-> auto,
   driving |-> FALSE, joystick |-> None]

(* computeJoystickValue while driving.                                     *)
Heading(angle) ==
  CASE angle <= 20 \/ angle > 340 -> 2
    [] angle \in 21 .. 65         -> 4
    [] angle \in 66 .. 110        -> 0
    [] angle \in 111 .. 155       -> 3
    [] angle \in 156 .. 200       -> 1
    [] OTHER                      -> None

(* The tests of createMessage, in order, on turboed, driving, autonomous   *)
(* and started; no match is code 0.                                        *)
Pattern ==
  <<<<FALSE, FALSE, FALSE, TRUE>>, <<FALSE, TRUE, FALSE, TRUE>>,
    <<TRUE, FALSE, FALSE, TRUE>>, <<TRUE, TRUE, FALSE, TRUE>>,
    <<FALSE, FALSE, TRUE, FALSE>>, <<FALSE, FALSE, TRUE, TRUE>>>>

Matches(k, f, g) ==
  /\ Pattern[k][1] \in {f.turboed, g.turboed}
  /\ Pattern[k][2] \in {f.driving, g.driving}
  /\ Pattern[k][3] \in {f.autonomous, g.autonomous}
  /\ Pattern[k][4] \in {f.started, g.started}

(* Each test reads the fields anew: it surely matches only when neither    *)
(* the old nor the new values say otherwise.                               *)
SurelyMatches(k, f, g) ==
  Matches(k, f, f) /\ Matches(k, g, g)
    /\ \A x \in DOMAIN f \ {"joystick"} : f[x] = g[x]

Codes(f, g) ==
  {k \in 1 .. 6 : Matches(k, f, g) /\ \A j \in 1 .. k - 1 : ~SurelyMatches(j, f, g)}
    \cup {k \in {0} : \A j \in 1 .. 6 : ~SurelyMatches(j, f, g)}

Messages(f, g) ==
  [code : Codes(f, g), dir : {f.joystick, g.joystick}]

Init ==
  /\ ui = Rest(FALSE) /\ change = Rest(FALSE)
  /\ modeChanged = 0 /\ posted = <<>> /\ doubts = Patience
  /\ connected = FALSE /\ btGatt = FALSE /\ characteristic = FALSE
  /\ link = "down" /\ connecting = FALSE
  /\ timer = 0
  /\ status = [t \in Timers |-> "none"]
  /\ task = [t \in Timers |-> "waiting"]
  /\ previousMessage = [t \in Timers |-> Idle]
  /\ written = Idle
  /\ crashed = FALSE

-----------------------------------------------------------------------------
(* The UI thread.                                                          *)

UiFree == ~crashed /\ change = ui

OnlyTheScreen == UNCHANGED <<ui, posted, connection, timer, sender, crashed>>

(* The handler that runs has assigned its last field.                      *)
HandlerEnds ==
  /\ ~crashed
  /\ change # ui
  /\ ui' = change
  /\ UNCHANGED <<change, modeChanged, doubts, posted, connection, timer, sender,
                 crashed>>

(* Mutant: the click does not ask for patience.                            *)
AutoClickImpatient ==
  /\ UiFree /\ connected
  /\ change' = Rest(~ui.autonomous)
  /\ doubts' = 0
  /\ UNCHANGED modeChanged
  /\ OnlyTheScreen

AutoClick ==
  /\ UiFree /\ connected
  /\ change' = Rest(~ui.autonomous)
  /\ modeChanged' = Patience
  /\ doubts' = 0
  /\ OnlyTheScreen

StartClick ==
  /\ UiFree /\ connected
  /\ ~ui.autonomous
  /\ \/ ui.started /\ change' = Rest(FALSE)
     \/ ~ui.started /\ change' = [ui EXCEPT !.started = TRUE, !.joystick = None]
  /\ UNCHANGED <<modeChanged, doubts>>
  /\ OnlyTheScreen

TurboClick ==
  /\ UiFree /\ connected
  /\ ~ui.autonomous /\ ui.started
  /\ change' = [ui EXCEPT !.turboed = ~@]
  /\ UNCHANGED <<modeChanged, doubts>>
  /\ OnlyTheScreen

OnMove(angle, strength) ==
  LET drive == strength > 50 \/ (strength = 50 /\ ui.driving)
  IN  /\ UiFree /\ connected
      /\ ui.started
      /\ change' = [ui EXCEPT !.driving = drive,
                              !.joystick = IF drive THEN Heading(angle) ELSE None]
      /\ UNCHANGED <<modeChanged, doubts>>
      /\ OnlyTheScreen

ConnectClick ==
  /\ UiFree
  /\ \/ /\ connected /\ btGatt /\ link = "up"
        /\ link' = "closing"
        /\ UNCHANGED btGatt
     \/ /\ ~connected /\ ~btGatt
        /\ timer < MaxConnections
        /\ btGatt' = TRUE
        /\ link' = "opening"
  /\ UNCHANGED <<screen, posted, connected, characteristic, connecting, timer,
                 sender, crashed>>

(* Mutant: every feedback counts, also the ones that agree.                *)
ChangeModeAlwaysCounts(auto) ==
  /\ \/ /\ ui.autonomous # auto /\ modeChanged = 0
        /\ change' = Rest(auto)
     \/ /\ ui.autonomous = auto \/ modeChanged > 0
        /\ UNCHANGED change
  /\ modeChanged' = modeChanged - 1
  /\ UNCHANGED doubts

(* changeMode: the mode the car reports becomes the mode of the remote,    *)
(* unless a click is waiting for the car to follow.                        *)
ChangeMode(auto) ==
  /\ \/ /\ ui.autonomous # auto /\ modeChanged = 0
        /\ change' = Rest(auto)
        /\ UNCHANGED <<modeChanged, doubts>>
     \/ /\ ui.autonomous # auto /\ modeChanged > 0
        /\ modeChanged' = modeChanged - 1
        /\ UNCHANGED change
        /\ doubts' = doubts + 1
     \/ /\ ui.autonomous = auto
        /\ modeChanged' = 0
        /\ UNCHANGED change
        /\ doubts' = Patience

ResetSymbols ==
  /\ change' = [ui EXCEPT !.joystick = None]
  /\ UNCHANGED <<modeChanged, doubts>>

RunPosted ==
  /\ UiFree
  /\ posted # <<>>
  /\ posted' = Tail(posted)
  /\ \/ Head(posted) = "reset" /\ ResetSymbols
     \/ Head(posted) = "autonomous" /\ ChangeMode(TRUE)
     \/ Head(posted) = "manual" /\ ChangeMode(FALSE)
  /\ UNCHANGED <<ui, connection, timer, sender, crashed>>

-----------------------------------------------------------------------------
(* The GATT callbacks.                                                     *)

(* connexionChange races the handler of the UI thread: of the fields both  *)
(* assign, some keep what the handler writes last.                         *)
ConnexionChange ==
  /\ \E late \in SUBSET {f \in {"started", "turboed", "autonomous", "driving"} :
                           change[f] # ui[f]} :
       change' = [f \in DOMAIN ui |->
                    IF f \in late \cup {"joystick"} THEN change[f] ELSE FALSE]
  /\ ui' = [Rest(FALSE) EXCEPT !.joystick = ui.joystick]
  /\ modeChanged' = 0
  /\ doubts' = Patience

Post(r) ==
  /\ Len(posted) < MaxPosted
  /\ posted' = Append(posted, r)

(* onConnectionStateChange, connected: up to the new timer.  Connecting     *)
(* takes longer than one execution of a task, so none spans it.            *)
OnConnected ==
  /\ ~crashed
  /\ link = "opening"
  /\ \A t \in Timers : task[t] = "waiting"
  /\ Post("reset")
  /\ link' = "up"
  /\ connected' = TRUE
  /\ timer' = timer + 1
  /\ connecting' = TRUE
  /\ written' = Idle
  /\ UNCHANGED <<screen, btGatt, characteristic, status, task,
                 previousMessage, crashed>>

(* The rest: reset the state, start the task.                              *)
MessageSend ==
  /\ ~crashed
  /\ connecting
  /\ ConnexionChange
  /\ connecting' = FALSE
  /\ status' = [status EXCEPT ![timer] = "delayed"]
  /\ UNCHANGED <<posted, connected, btGatt, characteristic, link, timer, task,
                 previousMessage, written, crashed>>

(* onConnectionStateChange, disconnected, or a connection that fails.  It  *)
(* resets connected, then the characteristic, then btGatt.  They are one   *)
(* step here: a task that looks in between, or a click on the button,      *)
(* finds connected FALSE and does nothing, as if it had not come; a task   *)
(* that writes after the first null reference ends the app either way.     *)
OnDisconnected ==
  /\ ~crashed
  /\ link # "down" /\ ~connecting
  /\ Post("reset")
  /\ link' = "down"
  /\ connected' = FALSE
  /\ btGatt' = FALSE
  /\ characteristic' = FALSE
  /\ ConnexionChange
  /\ UNCHANGED <<connecting, timer, sender, crashed>>

OnServicesDiscovered(success) ==
  /\ ~crashed
  /\ link = "up" /\ ~connecting /\ ~characteristic
  /\ characteristic' = success
  /\ btGatt' = success
  /\ link' = IF success THEN "up" ELSE "closing"
  /\ UNCHANGED <<screen, posted, connected, connecting, timer, sender, crashed>>

OnCharacteristicChanged(mode) ==
  /\ ~crashed
  /\ link = "up" /\ characteristic
  /\ Post(mode)
  /\ UNCHANGED <<screen, connection, timer, sender, crashed>>

-----------------------------------------------------------------------------
(* The timer threads.                                                      *)

DelayOver(t) ==
  /\ ~crashed
  /\ status[t] = "delayed"
  /\ status' = [status EXCEPT ![t] = "scheduled"]
  /\ UNCHANGED <<screen, posted, connection, timer, task, previousMessage,
                 written, crashed>>

(* The task looks at the connection.                                       *)
Fire(t) ==
  /\ ~crashed
  /\ status[t] = "scheduled" /\ task[t] = "waiting"
  /\ task' = [task EXCEPT ![t] =
                IF ~btGatt THEN "cancelling"
                ELSE IF connected /\ characteristic THEN "creating" ELSE "waiting"]
  /\ UNCHANGED <<screen, posted, connection, timer, status,
                 previousMessage, written, crashed>>

CreateMessage(t) ==
  /\ ~crashed
  /\ task[t] = "creating"
  /\ \E m \in Messages(ui, change) :
       /\ previousMessage' = [previousMessage EXCEPT ![t] = m]
       /\ task' = [task EXCEPT ![t] =
                     IF m # previousMessage[t] THEN "writing" ELSE "waiting"]
  /\ UNCHANGED <<screen, posted, connection, timer, status, written, crashed>>

(* Mutant: the byte is made of the fields as they are when it is written,  *)
(* but remembered as it was created.                                       *)
WriteCharacteristicAnew(t) ==
  /\ ~crashed
  /\ task[t] = "writing"
  /\ task' = [task EXCEPT ![t] = "waiting"]
  /\ \/ /\ btGatt /\ characteristic
        /\ written' \in Messages(ui, change)
        /\ UNCHANGED crashed
     \/ /\ ~(btGatt /\ characteristic)
        /\ crashed' = TRUE
        /\ UNCHANGED written
  /\ UNCHANGED <<screen, posted, connection, timer, status, previousMessage>>

(* The fields are read again: null now is an exception.                    *)
WriteCharacteristic(t) ==
  /\ ~crashed
  /\ task[t] = "writing"
  /\ task' = [task EXCEPT ![t] = "waiting"]
  /\ \/ /\ btGatt /\ characteristic
        /\ written' = previousMessage[t]
        /\ UNCHANGED crashed
     \/ /\ ~(btGatt /\ characteristic)
        /\ crashed' = TRUE
        /\ UNCHANGED written
  /\ UNCHANGED <<screen, posted, connection, timer, status, previousMessage>>

(* Not its own timer is cancelled, but the one of the last connection.     *)
CancelTimer(t) ==
  /\ ~crashed
  /\ task[t] = "cancelling"
  /\ task' = [task EXCEPT ![t] = "waiting"]
  /\ status' = [status EXCEPT ![timer] = "cancelled"]
  /\ UNCHANGED <<screen, posted, connection, timer, previousMessage, written,
                 crashed>>

Task(t) ==
  Fire(t) \/ CreateMessage(t) \/ WriteCharacteristic(t) \/ CancelTimer(t)

-----------------------------------------------------------------------------
Next ==
  \/ HandlerEnds \/ AutoClick \/ StartClick \/ TurboClick \/ ConnectClick
  \/ \E angle \in Angle, strength \in Strength : OnMove(angle, strength)
  \/ RunPosted
  \/ OnConnected \/ MessageSend \/ OnDisconnected
  \/ \E success \in BOOLEAN : OnServicesDiscovered(success)
  \/ \E mode \in {"autonomous", "manual"} : OnCharacteristicChanged(mode)
  \/ \E t \in Timers : DelayOver(t) \/ Task(t)

(* The UI thread runs what it has begun and what is posted to it, and the  *)
(* timers keep firing.                                                     *)
Fairness ==
  /\ WF_vars(HandlerEnds) /\ WF_vars(RunPosted) /\ WF_vars(MessageSend)
  /\ \A t \in Timers : WF_vars(DelayOver(t)) /\ WF_vars(Task(t))

Spec == Init /\ [][Next]_vars

FairSpec == Spec /\ Fairness

-----------------------------------------------------------------------------
(* Properties.                                                             *)

Flags ==
  [started : BOOLEAN, turboed : BOOLEAN, autonomous : BOOLEAN, driving : BOOLEAN,
   joystick : 0 .. 4 \cup {None}]

Byte == [code : 0 .. 6, dir : 0 .. 4 \cup {None}]

(* Every variable keeps its type.                                          *)
TypeOK ==
  /\ ui \in Flags /\ change \in Flags
  /\ modeChanged \in 0 .. Patience /\ doubts \in 0 .. Patience
  /\ posted \in Seq({"reset", "autonomous", "manual"}) /\ Len(posted) <= MaxPosted
  /\ connected \in BOOLEAN /\ btGatt \in BOOLEAN /\ characteristic \in BOOLEAN
  /\ link \in {"down", "opening", "up", "closing"}
  /\ connecting \in BOOLEAN /\ crashed \in BOOLEAN
  /\ timer \in 0 .. MaxConnections
  /\ status \in [Timers -> {"none", "delayed", "scheduled", "cancelled"}]
  /\ task \in [Timers -> {"waiting", "creating", "writing", "cancelling"}]
  /\ previousMessage \in [Timers -> Byte] /\ written \in Byte

(* Under FairSpec: when the connection stands and the user leaves the      *)
(* screen alone, the car ends up with the byte that says what the screen   *)
(* says, whatever tasks of earlier connections still write.                *)
CommandArrives ==
  <>[](connected /\ btGatt /\ characteristic /\ ~crashed /\ change = ui)
    => (<>[][UNCHANGED ui]_vars => <>[]({written} = Messages(ui, ui)))

(* A click on the mode button holds against five feedbacks the car sent    *)
(* before it knew: the remote gives in only to the sixth, or when the car  *)
(* had already agreed.                                                     *)
ClickOutlivesOldFeedback ==
  [][Len(posted') < Len(posted) /\ change'.autonomous # ui.autonomous
       => doubts = Patience]_vars

(* What the code says about itself and does not do.                        *)

(* remote.java:814, "Function sending a new message at most every 200ms": *)
(* every scheduled task sends a new message in its own periods, so no more *)
(* than one may be scheduled while the car listens.                        *)
OneSender ==
  connected /\ characteristic
    => \A t, u \in Timers : status[t] = "scheduled" /\ status[u] = "scheduled" => t = u

=============================================================================
